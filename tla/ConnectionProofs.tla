-------------------------- MODULE ConnectionProofs --------------------------
(* Theorems about Connection, for every WithBody, Welcome, Scramble, MaxTasks. *)
EXTENDS ConnectionInv, TLAPS

USE DEF tasks, received

(***************************************************************************)
(* Facts about ends and units.                                             *)
(***************************************************************************)
LEMMA TwoEnds == /\ "server" \in Ends /\ "client" \in Ends
                 /\ \A e \in Ends : e = "server" \/ e = "client"
  BY DEF Ends

LEMMA PeerFacts == /\ \A e \in Ends : Peer(e) \in Ends /\ Peer(e) # e
                   /\ Peer("server") = "client" /\ Peer("client") = "server"
  BY DEF Ends, Peer

LEMMA UnitFacts ==
    /\ \A n \in Nat : Header(n) \in Unit /\ Body(n) \in Unit /\ Validation(n) \in Unit
    /\ \A u \in Unit : u.n \in Nat /\ u.kind \in {"validation", "header", "body"}
    /\ \A n : Header(n).kind = "header" /\ Header(n).n = n
    /\ \A n : Body(n).kind = "body" /\ Body(n).n = n
    /\ \A n : Validation(n).kind = "validation" /\ Validation(n).n = n
  BY DEF Unit, Header, Body, Validation

(***************************************************************************)
(* The types of what the shared operations change.                         *)
(***************************************************************************)
LEMMA StartReadType ==
    ASSUME TypeOK, NEW e \in Ends, NEW kind \in {"validation", "header", "body"},
           StartRead(e, kind)
    PROVE  reading' \in [Ends -> {"none", "validation", "header", "body", "failing"}]
  BY DEF TypeOK, StartRead

LEMMA StartWriteType ==
    ASSUME TypeOK, NEW e \in Ends, NEW u \in Unit, u.kind \in {"header", "body"},
           StartWrite(e, u)
    PROVE  /\ wire' \in [Ends -> Seq(Unit)]
           /\ writing' \in [Ends -> {"none", "header", "body", "failing"}]
<1>1. wire' \in [Ends -> Seq(Unit)]
  BY DEF TypeOK, StartWrite, Transmit
<1>2. writing' \in [Ends -> {"none", "header", "body", "failing"}]
  BY DEF TypeOK, StartWrite
<1> QED
  BY <1>1, <1>2

LEMMA CloseSocketType ==
    ASSUME TypeOK, NEW e \in Ends, CloseSocket(e)
    PROVE  /\ socket' \in [Ends -> {"open", "closed"}]
           /\ tcp' \in {"none", "connecting", "refused", "up", "down"}
<1>1. socket' \in [Ends -> {"open", "closed"}]
  BY DEF TypeOK, CloseSocket
<1>2. tcp' \in {"none", "connecting", "refused", "up", "down"}
  BY DEF TypeOK, CloseSocket
<1> QED
  BY <1>1, <1>2

LEMMA HeadType == ASSUME NEW s \in Seq(Nat), s # <<>> PROVE Head(s) \in Nat
  OBVIOUS

LEMMA PopType ==
    ASSUME TypeOK, NEW e \in Ends, PopAndContinue(e), qOut[e] # <<>>
    PROVE  /\ qOut' \in [Ends -> Seq(Nat)]
           /\ wire' \in [Ends -> Seq(Unit)]
           /\ writing' \in [Ends -> {"none", "header", "body", "failing"}]
<1> DEFINE n == Head(Tail(qOut[e]))
<1>1. qOut[e] \in Seq(Nat) /\ Tail(qOut[e]) \in Seq(Nat)
  BY DEF TypeOK
<1>2. qOut' \in [Ends -> Seq(Nat)]
  BY <1>1 DEF TypeOK, PopAndContinue
<1>3. CASE Tail(qOut[e]) # <<>>
  <2>1. n \in Nat
    BY <1>1, <1>3, HeadType
  <2>2. Header(n) \in Unit /\ Header(n).kind = "header"
    BY <2>1, UnitFacts
  <2>3. StartWrite(e, Header(n))
    BY <1>3 DEF PopAndContinue, mf_write_header
  <2> QED
    BY <1>2, <2>2, <2>3, StartWriteType
<1>4. CASE Tail(qOut[e]) = <<>>
  BY <1>2, <1>4 DEF PopAndContinue, TypeOK
<1> QED
  BY <1>3, <1>4

LEMMA AddType ==
    ASSUME TypeOK, NEW e \in Ends, NEW n \in Nat, NEW body \in Nat,
           mf_add_to_incomming_message_queue(e, n, body)
    PROVE  /\ inbox' \in [Ends -> Seq(Nat)]
           /\ bodies' \in [Ends -> Seq(Nat)]
           /\ reading' \in [Ends -> {"none", "validation", "header", "body", "failing"}]
<1>1. inbox' \in [Ends -> Seq(Nat)]
  BY DEF TypeOK, mf_add_to_incomming_message_queue
<1>2. bodies' \in [Ends -> Seq(Nat)]
  BY DEF TypeOK, mf_add_to_incomming_message_queue
<1>3. StartRead(e, "header")
  BY DEF mf_add_to_incomming_message_queue, mf_read_header
<1> QED
  BY <1>1, <1>2, <1>3, StartReadType
-----------------------------------------------------------------------------
(***************************************************************************)
(* The two loops.  LoopInv is inductive: one lemma per kind of step.       *)
(***************************************************************************)
LEMMA LoopInit == Init => LoopInv
  BY ConnectionAssumption
  DEF Init, LoopInv, TypeOK, LoopsOK, TasksInOrder, WriteLoop, ReadLoop, Idle, Ends

\* Steps that leave the write queue and the tasks alone.
LEMMA LoopEstablish == LoopInv /\ Establish => LoopInv'
<1> SUFFICES ASSUME LoopInv, Establish PROVE LoopInv'
  OBVIOUS
<1>a. TypeOK
  BY DEF LoopInv
<1>b. \A f \in Ends : LoopsOK(f)
  BY DEF LoopInv
<1>1. CASE ConnectToServer
  <2>1. TypeOK'
    BY <1>a, <1>1 DEF TypeOK, ConnectToServer
  <2>2. UNCHANGED <<wire, posted, ran, qOut, writing, validating, reading, received>>
    BY <1>1 DEF ConnectToServer
  <2>3. /\ socket \in [Ends -> {"open", "closed"}]
        /\ stage \in [Ends -> {"idle", "dialling", "running", "failed"}]
    BY <1>a DEF TypeOK
  <2>4. /\ stage["client"] = "idle"
        /\ stage'["client"] = "dialling" /\ socket'["client"] = "open"
        /\ \A f \in Ends : f # "client" => stage'[f] = stage[f] /\ socket'[f] = socket[f]
    BY <1>1, <2>3, TwoEnds DEF ConnectToServer
  <2>5. qOut["client"] = <<>> /\ writing["client"] = "none"
        /\ validating["client"] = "none" /\ reading["client"] = "none"
    BY <1>b, <2>4, TwoEnds DEF LoopsOK, Idle
  <2>6. ASSUME NEW f \in Ends, f # "client" PROVE LoopsOK(f)'
    BY <1>b, <2>2, <2>4, <2>6 DEF LoopsOK, TasksInOrder, WriteLoop, ReadLoop, Idle
  <2>7. LoopsOK("client")'
    BY <1>b, <2>2, <2>4, <2>5, TwoEnds
    DEF LoopsOK, TasksInOrder, WriteLoop, ReadLoop, Idle
  <2> QED
    BY <2>1, <2>6, <2>7 DEF LoopInv
<1>2. CASE TcpSettle
  <2>1. TypeOK'
    BY <1>a, <1>2 DEF TypeOK, TcpSettle
  <2>2. \A f \in Ends : LoopsOK(f)'
    BY <1>b, <1>2 DEF TcpSettle, LoopsOK, TasksInOrder, WriteLoop, ReadLoop, Idle
  <2> QED
    BY <2>1, <2>2 DEF LoopInv
<1>3. CASE OnConnect
  <2>1. UNCHANGED <<tcp, wire, socket, posted, ran, closeTask, qOut, writing,
                    validating, received, handshakeOut>>
    BY <1>3 DEF OnConnect
  <2>2. /\ stage["client"] = "dialling"
        /\ \/ /\ stage' = [stage EXCEPT !["client"] = "running"]
              /\ StartRead("client", "validation")
           \/ /\ stage' = [stage EXCEPT !["client"] = "failed"]
              /\ reading' = reading
    BY <1>3 DEF OnConnect
  <2>3. reading' \in [Ends -> {"none", "validation", "header", "body", "failing"}]
    BY <1>a, <2>2, TwoEnds, StartReadType DEF TypeOK
  <2>0. /\ stage \in [Ends -> {"idle", "dialling", "running", "failed"}]
        /\ reading \in [Ends -> {"none", "validation", "header", "body", "failing"}]
    BY <1>a DEF TypeOK
  <2>4. stage' \in [Ends -> {"idle", "dialling", "running", "failed"}]
    BY <2>0, <2>2
  <2>5. TypeOK'
    BY <1>a, <2>1, <2>3, <2>4 DEF TypeOK
  <2>6. \A f \in Ends : TasksInOrder(f)' /\ WriteLoop(f)'
    BY <1>b, <2>1 DEF LoopsOK, TasksInOrder, WriteLoop
  <2>7. /\ \A f \in Ends : f # "client" => stage'[f] = stage[f] /\ reading'[f] = reading[f]
        /\ stage'["client"] = "failed" \/ reading'["client"] # "none"
        /\ stage'["client"] \in {"running", "failed"}
    BY <2>0, <2>2, TwoEnds DEF StartRead
  <2>8. \A f \in Ends : ReadLoop(f)'
    BY <1>b, <2>1, <2>7 DEF LoopsOK, ReadLoop
  <2>9. \A f \in Ends : Idle(f)'
    BY <1>b, <2>1, <2>7 DEF LoopsOK, Idle
  <2> QED
    BY <2>5, <2>6, <2>8, <2>9 DEF LoopInv, LoopsOK
<1>4. CASE OnAccept
  <2>1. wire' \in [Ends -> Seq(Unit)]
    <3>1. PICK w \in Challenges : wire' = IF tcp = "up"
                      THEN [wire EXCEPT !["server"] = Append(@, Validation(w))]
                      ELSE wire
      BY <1>4 DEF OnAccept
    <3>2. Validation(w) \in Unit
      BY UnitFacts, ConnectionAssumption
    <3>3. wire \in [Ends -> Seq(Unit)]
      BY <1>a DEF TypeOK
    <3>4. CASE tcp = "up"
      BY <3>1, <3>2, <3>3, <3>4, TwoEnds
    <3>5. CASE tcp # "up"
      BY <3>1, <3>3, <3>5
    <3> QED
      BY <3>4, <3>5
  <2>2. handshakeOut' \in [Ends -> Words]
    <3>1. PICK w \in Challenges : handshakeOut' = [handshakeOut EXCEPT !["server"] = w]
      BY <1>4 DEF OnAccept
    <3>2. w \in Words /\ handshakeOut \in [Ends -> Words]
      BY <1>a, ConnectionAssumption DEF TypeOK
    <3> QED
      BY <3>1, <3>2
  <2>3. /\ stage["server"] = "idle"
        /\ stage' = [stage EXCEPT !["server"] = "running"]
        /\ socket' = [socket EXCEPT !["server"] = "open"]
        /\ posted' = [posted EXCEPT !["server"] = @ + 1]
        /\ \E v \in {"pending", "failing"} : validating' = [validating EXCEPT !["server"] = v]
        /\ reading' = [reading EXCEPT !["server"] = "validation"]
        /\ UNCHANGED <<tcp, ran, closeTask, qOut, writing, received>>
        /\ \A f \in Ends : f # "server" => wire'[f] = wire[f]
    BY <1>a, <1>4 DEF OnAccept, TypeOK
  <2>4. TypeOK'
    <3>1. /\ stage' \in [Ends -> {"idle", "dialling", "running", "failed"}]
          /\ socket' \in [Ends -> {"open", "closed"}]
      BY <1>a, <2>3 DEF TypeOK
    <3>4. validating \in [Ends -> {"none", "pending", "failing"}]
      BY <1>a DEF TypeOK
    <3>5. validating' \in [Ends -> {"none", "pending", "failing"}]
      BY <2>3, <3>4
    <3>3. reading' \in [Ends -> {"none", "validation", "header", "body", "failing"}]
      BY <1>a, <2>3 DEF TypeOK
    <3>2. posted' \in [Ends -> Nat]
      <4>1. posted \in [Ends -> Nat]
        BY <1>a DEF TypeOK
      <4>2. posted["server"] + 1 \in Nat
        BY <4>1, TwoEnds
      <4> QED
        BY <2>3, <4>1, <4>2
    <3> QED
      BY <1>a, <2>1, <2>2, <2>3, <3>1, <3>2, <3>3, <3>5 DEF TypeOK
  <2>5. ASSUME NEW f \in Ends, f # "server" PROVE LoopsOK(f)'
    BY <1>a, <1>b, <2>3, <2>5
    DEF TypeOK, LoopsOK, TasksInOrder, WriteLoop, ReadLoop, Idle
  <2>6. /\ stage'["server"] = "running" /\ reading'["server"] = "validation"
        /\ posted'["server"] = posted["server"] + 1
        /\ qOut["server"] = <<>> /\ writing["server"] = "none"
    BY <1>a, <1>b, <2>3, TwoEnds DEF TypeOK, LoopsOK, Idle
  <2>7. TasksInOrder("server")'
    <3>1. ran["server"] \in Nat /\ posted["server"] \in Nat
      BY <1>a, TwoEnds DEF TypeOK
    <3> QED
      BY <1>b, <2>3, <2>6, <3>1, TwoEnds DEF LoopsOK, TasksInOrder
  <2>8. LoopsOK("server")'
    BY <2>3, <2>6, <2>7 DEF LoopsOK, WriteLoop, ReadLoop, Idle
  <2> QED
    BY <2>4, <2>5, <2>8, TwoEnds DEF LoopInv
<1> QED
  BY <1>1, <1>2, <1>3, <1>4 DEF Establish

LEMMA LoopPost == LoopInv /\ Post => LoopInv'
<1> SUFFICES ASSUME LoopInv, NEW e \in Ends, Disconnect \/ Send(e) PROVE LoopInv'
  BY TwoEnds DEF Post
<1>a. TypeOK
  BY DEF LoopInv
<1>b. \A f \in Ends : LoopsOK(f)
  BY DEF LoopInv
<1>1. CASE Disconnect
  <2>1. UNCHANGED <<tcp, wire, socket, stage, ran, qOut, writing, validating,
                    reading, received, handshakeOut>>
    BY <1>1 DEF Disconnect
  <2>2. /\ socket["client"] = "open"
        /\ posted' = [posted EXCEPT !["client"] = @ + 1]
        /\ closeTask' = [closeTask EXCEPT !["client"] = posted["client"] + 1]
    BY <1>1 DEF Disconnect
  <2>3. posted' \in [Ends -> Nat] /\ closeTask' \in [Ends -> Nat]
    <3>1. posted \in [Ends -> Nat] /\ closeTask \in [Ends -> Nat]
      BY <1>a DEF TypeOK
    <3>2. posted["client"] + 1 \in Nat
      BY <3>1, TwoEnds
    <3> QED
      BY <2>2, <3>1, <3>2
  <2>4. TypeOK'
    BY <1>a, <2>1, <2>3 DEF TypeOK
  <2>5. \A f \in Ends : f # "client" => posted'[f] = posted[f]
    BY <1>a, <2>2 DEF TypeOK
  <2>6. \A f \in Ends : WriteLoop(f)' /\ ReadLoop(f)'
    BY <1>b, <2>1 DEF LoopsOK, WriteLoop, ReadLoop
  <2>7. \A f \in Ends : Idle(f)'
    BY <1>b, <2>1, <2>2, <2>5 DEF LoopsOK, Idle
  <2>8. \A f \in Ends : TasksInOrder(f)'
    <3>1. posted \in [Ends -> Nat] /\ ran \in [Ends -> Nat]
      BY <1>a DEF TypeOK
    <3> TAKE f \in Ends
    <3>2. ran[f] <= posted[f]
      BY <1>b DEF LoopsOK, TasksInOrder
    <3>4. posted'[f] = posted[f] \/ posted'[f] = posted[f] + 1
      BY <2>2, <3>1
    <3>3. ran[f] \in Nat /\ posted[f] \in Nat /\ posted'[f] \in Nat
      BY <2>3, <3>1
    <3> QED
      BY <2>1, <3>2, <3>3, <3>4 DEF TasksInOrder
  <2> QED
    BY <2>4, <2>6, <2>7, <2>8 DEF LoopInv, LoopsOK
<1>2. CASE Send(e)
  <2>1. /\ UNCHANGED <<tcp, wire, socket, stage, ran, closeTask, qOut, writing,
                       validating, reading, received, handshakeOut>>
        /\ posted' = [posted EXCEPT ![e] = @ + 1]
    BY <1>2 DEF Send
  <2>2. stage[e] # "idle"
    BY <1>b, <1>2, TwoEnds, ConnectionAssumption DEF Send, LoopsOK, Idle
  <2>3. posted \in [Ends -> Nat] /\ ran \in [Ends -> Nat]
    BY <1>a DEF TypeOK
  <2>4. posted[e] + 1 \in Nat
    BY <2>3
  <2>5. posted' \in [Ends -> Nat]
    BY <2>1, <2>3, <2>4
  <2>6. TypeOK'
    BY <1>a, <2>1, <2>5 DEF TypeOK
  <2>7. \A f \in Ends : WriteLoop(f)' /\ ReadLoop(f)'
    BY <1>b, <2>1 DEF LoopsOK, WriteLoop, ReadLoop
  <2>8. \A f \in Ends : f # e => posted'[f] = posted[f]
    BY <2>1, <2>3
  <2>9. \A f \in Ends : Idle(f)'
    BY <1>b, <2>1, <2>2, <2>8 DEF LoopsOK, Idle
  <2>10. \A f \in Ends : TasksInOrder(f)'
    <3> TAKE f \in Ends
    <3>1. ran[f] <= posted[f]
      BY <1>b DEF LoopsOK, TasksInOrder
    <3>2. posted'[f] = posted[f] \/ posted'[f] = posted[f] + 1
      BY <2>1, <2>3
    <3>3. ran[f] \in Nat /\ posted[f] \in Nat /\ posted'[f] \in Nat
      BY <2>3, <2>5
    <3> QED
      BY <2>1, <3>1, <3>2, <3>3 DEF TasksInOrder
  <2> QED
    BY <2>6, <2>7, <2>9, <2>10 DEF LoopInv, LoopsOK
<1> QED
  BY <1>1, <1>2

LEMMA RanOnce ==
    ASSUME TypeOK, NEW e \in Ends, ran[e] < posted[e], \A f \in Ends : LoopsOK(f),
           ran' = [ran EXCEPT ![e] = @ + 1], posted' = posted
    PROVE  \A f \in Ends : TasksInOrder(f)'
<1>1. posted \in [Ends -> Nat] /\ ran \in [Ends -> Nat]
  BY DEF TypeOK
<1> TAKE f \in Ends
<1>2. ran[f] \in Nat /\ posted[f] \in Nat /\ ran[f] <= posted[f]
  BY <1>1 DEF LoopsOK, TasksInOrder
<1>3. ran'[f] = IF f = e THEN ran[f] + 1 ELSE ran[f]
  BY <1>1
<1> QED
  BY <1>2, <1>3 DEF TasksInOrder

LEMMA LoopTasks == ASSUME LoopInv, NEW e \in Ends, Tasks(e) PROVE LoopInv'
<1>a. TypeOK
  BY DEF LoopInv
<1>b. \A f \in Ends : LoopsOK(f)
  BY DEF LoopInv
<1>1. CASE RunSend(e)
  <2>1. UNCHANGED <<tcp, socket, stage, posted, closeTask, validating, reading,
                    received, handshakeOut>>
    BY <1>1 DEF RunSend
  <2>2. /\ ran[e] < posted[e]
        /\ ran' = [ran EXCEPT ![e] = @ + 1]
        /\ qOut' = [qOut EXCEPT ![e] = Append(@, ran[e] + 1)]
    BY <1>1 DEF RunSend
  <2>3. ran[e] + 1 \in Nat /\ Header(ran[e] + 1) \in Unit
    BY <1>a, UnitFacts DEF TypeOK
  <2>4. /\ wire' \in [Ends -> Seq(Unit)]
        /\ writing' \in [Ends -> {"none", "header", "body", "failing"}]
    <3>1. CASE qOut[e] = <<>>
      BY <1>a, <1>1, <2>3, <3>1, UnitFacts, StartWriteType DEF RunSend, mf_write_header
    <3>2. CASE qOut[e] # <<>>
      BY <1>a, <1>1, <3>2 DEF TypeOK, RunSend
    <3> QED
      BY <3>1, <3>2
  <2>0. qOut' \in [Ends -> Seq(Nat)] /\ ran' \in [Ends -> Nat]
    BY <1>a, <2>2, <2>3 DEF TypeOK
  <2>5. TypeOK'
    BY <1>a, <2>0, <2>1, <2>4 DEF TypeOK
  <2>6. \A f \in Ends : TasksInOrder(f)'
    BY <1>a, <1>b, <2>1, <2>2, RanOnce
  <2>7. \A f \in Ends : WriteLoop(f)'
    <3>1. CASE qOut[e] = <<>>
      <4>1. qOut'[e] # <<>>
        <5>1. qOut \in [Ends -> Seq(Nat)]
          BY <1>a DEF TypeOK
        <5> QED
          BY <2>2, <2>3, <5>1
      <4>2. \E w \in {"header", "failing"} : writing' = [writing EXCEPT ![e] = w]
        BY <1>1, <3>1, UnitFacts DEF RunSend, mf_write_header, StartWrite
      <4> QED
        BY <1>a, <1>b, <2>1, <2>2, <4>1, <4>2 DEF LoopsOK, WriteLoop, TypeOK
    <3>2. CASE qOut[e] # <<>>
      <4>1. writing' = writing
        BY <1>1, <3>2 DEF RunSend
      <4>2. qOut'[e] # <<>> /\ Head(qOut'[e]) = Head(qOut[e])
        <5>1. qOut \in [Ends -> Seq(Nat)]
          BY <1>a DEF TypeOK
        <5>2. qOut[e] \in Seq(Nat) /\ qOut'[e] = Append(qOut[e], ran[e] + 1)
          BY <2>2, <5>1
        <5> QED
          BY <2>3, <3>2, <5>2
      <4> QED
        BY <1>a, <1>b, <2>1, <2>2, <3>2, <4>1, <4>2 DEF LoopsOK, WriteLoop, TypeOK
    <3> QED
      BY <3>1, <3>2
  <2>8. stage[e] # "idle"
    <3>1. ran[e] \in Nat /\ posted[e] \in Nat
      BY <1>a DEF TypeOK
    <3>2. posted[e] # 0
      BY <2>2, <3>1
    <3> QED
      BY <1>b, <3>2 DEF LoopsOK, Idle
  <2>9. \A f \in Ends : f # e => /\ writing'[f] = writing[f] /\ wire'[f] = wire[f]
                                 /\ qOut'[f] = qOut[f]
    <3>1. /\ writing \in [Ends -> {"none", "header", "body", "failing"}]
          /\ wire \in [Ends -> Seq(Unit)] /\ qOut \in [Ends -> Seq(Nat)]
      BY <1>a DEF TypeOK
    <3>2. \A f \in Ends : f # e => qOut'[f] = qOut[f]
      BY <2>2, <3>1
    <3>3. CASE StartWrite(e, Header(ran[e] + 1))
      BY <3>1, <3>2, <3>3 DEF StartWrite, Transmit
    <3>4. CASE UNCHANGED <<writing, wire>>
      BY <3>2, <3>4
    <3> QED
      BY <1>1, <3>3, <3>4 DEF RunSend, mf_write_header
  <2>10. \A f \in Ends : ReadLoop(f)'
    BY <1>b, <2>1 DEF LoopsOK, ReadLoop
  <2>11. \A f \in Ends : Idle(f)'
    BY <1>b, <2>1, <2>8, <2>9 DEF LoopsOK, Idle
  <2> QED
    BY <2>5, <2>6, <2>7, <2>10, <2>11 DEF LoopInv, LoopsOK
<1>2. CASE RunClose(e)
  <2>1. /\ ran[e] < posted[e] /\ ran' = [ran EXCEPT ![e] = @ + 1] /\ CloseSocket(e)
        /\ UNCHANGED <<wire, stage, posted, closeTask, qOut, writing, validating,
                       reading, received, handshakeOut>>
    BY <1>2 DEF RunClose
  <2>2. ran \in [Ends -> Nat] /\ socket \in [Ends -> {"open", "closed"}]
    BY <1>a DEF TypeOK
  <2>3. ran' \in [Ends -> Nat]
    BY <2>1, <2>2
  <2>4. TypeOK'
    BY <1>a, <2>1, <2>3, CloseSocketType DEF TypeOK
  <2>5. \A f \in Ends : TasksInOrder(f)'
    BY <1>a, <1>b, <2>1, RanOnce
  <2>6. \A f \in Ends : socket'[f] = "closed" \/ socket'[f] = socket[f]
    BY <2>1, <2>2 DEF CloseSocket
  <2>7. \A f \in Ends : WriteLoop(f)' /\ ReadLoop(f)'
    BY <1>b, <2>1, <2>6 DEF LoopsOK, WriteLoop, ReadLoop
  <2>8. \A f \in Ends : Idle(f)'
    BY <1>b, <2>1, <2>6 DEF LoopsOK, Idle
  <2> QED
    BY <2>4, <2>5, <2>7, <2>8 DEF LoopInv, LoopsOK
<1> QED
  BY <1>1, <1>2 DEF Tasks

\* What a read initiated by e leaves alone.
LEMMA StartReadFrame ==
    ASSUME TypeOK, NEW e \in Ends, NEW kind \in {"validation", "header", "body"},
           StartRead(e, kind)
    PROVE  /\ \A f \in Ends : f # e => reading'[f] = reading[f]
           /\ reading'[e] # "none"
<1>1. reading \in [Ends -> {"none", "validation", "header", "body", "failing"}]
  BY DEF TypeOK
<1> QED
  BY <1>1 DEF StartRead

LEMMA AddFrame ==
    ASSUME TypeOK, NEW e \in Ends, NEW n, NEW body,
           mf_add_to_incomming_message_queue(e, n, body)
    PROVE  /\ \A f \in Ends : f # e => reading'[f] = reading[f] /\ inbox'[f] = inbox[f]
           /\ reading'[e] # "none"
<1>1. inbox \in [Ends -> Seq(Nat)]
  BY DEF TypeOK
<1>2. \A f \in Ends : f # e => inbox'[f] = inbox[f]
  BY <1>1 DEF mf_add_to_incomming_message_queue
<1>3. StartRead(e, "header")
  BY DEF mf_add_to_incomming_message_queue, mf_read_header
<1> QED
  BY <1>2, <1>3, StartReadFrame

\* A handler that gives up: it clears one of e's operations and closes the socket.
LEMMA LoopGiveUp ==
    ASSUME LoopInv, NEW e \in Ends, CloseSocket(e),
           UNCHANGED <<stage, posted, ran, closeTask, qOut, received, handshakeOut>>,
           wire' \in [Ends -> Seq(Unit)],
           \A f \in Ends : stage[f] = "idle" => wire'[f] = <<>>,
           reading' = reading \/ reading' = [reading EXCEPT ![e] = "none"],
           writing' = writing \/ writing' = [writing EXCEPT ![e] = "none"],
           validating' = validating \/ validating' = [validating EXCEPT ![e] = "none"]
    PROVE  LoopInv'
<1>a. TypeOK
  BY DEF LoopInv
<1>b. \A f \in Ends : LoopsOK(f)
  BY DEF LoopInv
<1>1. TypeOK'
  <2>1. /\ reading' \in [Ends -> {"none", "validation", "header", "body", "failing"}]
        /\ writing' \in [Ends -> {"none", "header", "body", "failing"}]
        /\ validating' \in [Ends -> {"none", "pending", "failing"}]
    BY <1>a DEF TypeOK
  <2> QED
    BY <1>a, <2>1, CloseSocketType DEF TypeOK
<1>2. ASSUME NEW f \in Ends, f # e PROVE LoopsOK(f)'
  <2>1. /\ socket \in [Ends -> {"open", "closed"}]
        /\ reading \in [Ends -> {"none", "validation", "header", "body", "failing"}]
        /\ writing \in [Ends -> {"none", "header", "body", "failing"}]
        /\ validating \in [Ends -> {"none", "pending", "failing"}]
    BY <1>a DEF TypeOK
  <2>2. /\ socket'[f] = socket[f] /\ reading'[f] = reading[f]
        /\ writing'[f] = writing[f] /\ validating'[f] = validating[f]
    BY <1>2, <2>1 DEF CloseSocket
  <2> QED
    BY <1>b, <2>2 DEF LoopsOK, TasksInOrder, WriteLoop, ReadLoop, Idle
<1>3. LoopsOK(e)'
  <2>1. /\ socket'[e] = "closed"
        /\ reading'[e] \in {reading[e], "none"}
        /\ writing'[e] \in {writing[e], "none"}
        /\ validating'[e] \in {validating[e], "none"}
    BY <1>a DEF TypeOK, CloseSocket
  <2> QED
    BY <1>b, <2>1 DEF LoopsOK, TasksInOrder, WriteLoop, ReadLoop, Idle
<1> QED
  BY <1>1, <1>2, <1>3 DEF LoopInv

\* A handler that goes on reading, or waits for its handshake word to be sent.
LEMMA LoopRead ==
    ASSUME LoopInv, NEW e \in Ends, TypeOK', stage[e] \notin {"idle", "dialling"},
           UNCHANGED <<socket, stage, ran, closeTask, qOut, writing>>,
           \A f \in Ends : stage[f] = "idle" => wire'[f] = <<>>,
           \A f \in Ends : posted[f] <= posted'[f],
           \A f \in Ends : f # e => /\ posted'[f] = posted[f] /\ inbox'[f] = inbox[f]
                                    /\ reading'[f] = reading[f]
                                    /\ validating'[f] = validating[f],
           reading'[e] # "none" \/ (e = "client" /\ validating'[e] # "none")
    PROVE  LoopInv'
<1>b. \A f \in Ends : LoopsOK(f)
  BY DEF LoopInv
<1>1. \A f \in Ends : TasksInOrder(f)'
  <2> TAKE f \in Ends
  <2>1. ran[f] \in Nat /\ posted[f] \in Nat /\ posted'[f] \in Nat
    BY DEF TypeOK, LoopInv
  <2> QED
    BY <1>b, <2>1 DEF LoopsOK, TasksInOrder
<1>2. ASSUME NEW f \in Ends, f # e PROVE LoopsOK(f)'
  BY <1>1, <1>2, <1>b DEF LoopsOK, WriteLoop, ReadLoop, Idle
<1>3. LoopsOK(e)'
  BY <1>1, <1>b DEF LoopsOK, WriteLoop, ReadLoop, Idle
<1> QED
  BY <1>2, <1>3 DEF LoopInv

LEMMA ReadUnit == \* a unit taken from the wire
    ASSUME TypeOK, NEW e \in Ends, wire[Peer(e)] # <<>>
    PROVE  /\ [wire EXCEPT ![Peer(e)] = Tail(@)] \in [Ends -> Seq(Unit)]
           /\ Head(wire[Peer(e)]) \in Unit
           /\ Head(wire[Peer(e)]).n \in Nat
<1>1. wire \in [Ends -> Seq(Unit)] /\ Peer(e) \in Ends
  BY PeerFacts DEF TypeOK
<1>2. wire[Peer(e)] \in Seq(Unit) /\ Tail(wire[Peer(e)]) \in Seq(Unit)
  BY <1>1
<1>3. Head(wire[Peer(e)]) \in Unit
  BY <1>2
<1> QED
  BY <1>1, <1>2, <1>3, UnitFacts

LEMMA LoopReads == ASSUME BaseInv, NEW e \in Ends, Reads(e) PROVE LoopInv'
<1>a. TypeOK /\ LoopInv
  BY DEF BaseInv, LoopInv
<1>b. \A f \in Ends : LoopsOK(f)
  BY DEF BaseInv, LoopInv
<1>c. ASSUME reading[e] # "none" PROVE stage[e] \notin {"idle", "dialling"}
  BY <1>b, <1>c DEF LoopsOK, Idle
<1>d. ASSUME wire[Peer(e)] # <<>>, wire' = [wire EXCEPT ![Peer(e)] = Tail(@)]
      PROVE  /\ wire' \in [Ends -> Seq(Unit)]
             /\ \A f \in Ends : stage[f] = "idle" => wire'[f] = <<>>
  <2>1. wire' \in [Ends -> Seq(Unit)]
    BY <1>a, <1>d, ReadUnit
  <2>2. \A f \in Ends : stage[f] = "idle" => wire[f] = <<>> /\ f # Peer(e)
    BY <1>b, <1>d DEF LoopsOK, Idle
  <2>3. \A f \in Ends : f # Peer(e) => wire'[f] = wire[f]
    BY <1>a, <1>d DEF TypeOK
  <2> QED
    BY <2>1, <2>2, <2>3
<1>1. CASE e = "server" /\ OnReadAnswer
  <2>1. /\ reading["server"] = "validation" /\ wire["client"] # <<>>
        /\ wire' = [wire EXCEPT !["client"] = Tail(@)]
        /\ UNCHANGED <<stage, ran, closeTask, qOut, writing, validating, received, handshakeOut>>
    BY <1>1 DEF OnReadAnswer
  <2>2. /\ wire' \in [Ends -> Seq(Unit)]
        /\ \A f \in Ends : stage[f] = "idle" => wire'[f] = <<>>
    BY <1>1, <1>d, <2>1, PeerFacts
  <2>3. CASE /\ posted' = [posted EXCEPT !["server"] = @ + Welcome]
             /\ StartRead("server", "header")
             /\ UNCHANGED <<tcp, socket>>
    <3>1. posted \in [Ends -> Nat] /\ Welcome \in Nat
      BY <1>a, ConnectionAssumption DEF TypeOK
    <3>2. posted["server"] + Welcome \in Nat /\ posted["server"] <= posted["server"] + Welcome
      BY <3>1, TwoEnds
    <3>3. posted' \in [Ends -> Nat]
      BY <2>3, <3>1, <3>2
    <3>4. reading' \in [Ends -> {"none", "validation", "header", "body", "failing"}]
      BY <1>a, <2>3, StartReadType, TwoEnds
    <3>5. TypeOK'
      BY <1>a, <2>1, <2>2, <2>3, <3>3, <3>4 DEF TypeOK
    <3>6. \A f \in Ends : posted[f] <= posted'[f]
      BY <2>3, <3>1, <3>2
    <3>7. /\ \A f \in Ends : f # "server" => posted'[f] = posted[f] /\ reading'[f] = reading[f]
          /\ reading'["server"] # "none"
      BY <1>a, <2>3, TwoEnds DEF TypeOK, StartRead
    <3> QED
      BY <1>1, <1>a, <1>c, <2>1, <2>2, <2>3, <3>5, <3>6, <3>7, LoopRead
  <2>4. CASE /\ CloseSocket("server")
             /\ reading' = [reading EXCEPT !["server"] = "none"]
             /\ UNCHANGED posted
    BY <1>a, <2>1, <2>2, <2>4, TwoEnds, LoopGiveUp
  <2> QED
    BY <1>1, <2>3, <2>4 DEF OnReadAnswer, mf_read_header
<1>2. CASE e = "client" /\ OnReadChallenge
  <2> DEFINE word == Scramble(Head(wire["server"]).n)
             onWire == [wire EXCEPT !["server"] = Tail(@)]
  <2>1. /\ reading["client"] = "validation" /\ wire["server"] # <<>>
        /\ reading' = [reading EXCEPT !["client"] = "none"]
        /\ \E v \in {"pending", "failing"} : validating' = [validating EXCEPT !["client"] = v]
        /\ UNCHANGED <<tcp, socket, stage, posted, ran, closeTask, qOut, writing, received>>
    BY <1>2 DEF OnReadChallenge
  <2>2. /\ handshakeOut' = [handshakeOut EXCEPT !["client"] = word]
        /\ wire' = IF Usable("client")
                     THEN [onWire EXCEPT !["client"] = Append(@, Validation(word))]
                     ELSE onWire
    BY <1>2 DEF OnReadChallenge
  <2>3. word \in Words
    <3>1. Head(wire["server"]) = Validation(handshakeOut["server"])
      BY <2>1 DEF BaseInv, Greeting, AtHandshake
    <3>2. handshakeOut["server"] \in Words
      BY <1>a, TwoEnds DEF TypeOK
    <3> QED
      BY <3>1, <3>2, UnitFacts, ConnectionAssumption
  <2>4. /\ onWire \in [Ends -> Seq(Unit)]
        /\ onWire["client"] = wire["client"]
    BY <1>a, <2>1, ReadUnit, TwoEnds, PeerFacts
  <2>5. Validation(word) \in Unit
    BY <2>3, UnitFacts, ConnectionAssumption
  <2>6. wire' \in [Ends -> Seq(Unit)]
    <3> HIDE DEF onWire, word
    <3>1. CASE Usable("client")
      BY <2>2, <2>4, <2>5, <3>1, TwoEnds
    <3>2. CASE ~Usable("client")
      BY <2>2, <2>4, <3>2
    <3> QED
      BY <3>1, <3>2
  <2>7. handshakeOut' \in [Ends -> Words]
    BY <1>a, <2>2, <2>3 DEF TypeOK
  <2>12. /\ reading' \in [Ends -> {"none", "validation", "header", "body", "failing"}]
         /\ validating' \in [Ends -> {"none", "pending", "failing"}]
    <3>1. reading' \in [Ends -> {"none", "validation", "header", "body", "failing"}]
      BY <1>a, <2>1 DEF TypeOK
    <3>2. validating \in [Ends -> {"none", "pending", "failing"}]
      BY <1>a DEF TypeOK
    <3>3. validating' \in [Ends -> {"none", "pending", "failing"}]
      BY <2>1, <3>2
    <3> QED
      BY <3>1, <3>3
  <2>8. /\ \A f \in Ends : f # "client" => /\ reading'[f] = reading[f]
                                           /\ validating'[f] = validating[f]
        /\ validating'["client"] # "none"
    BY <1>a, <2>1, TwoEnds DEF TypeOK
  <2>9. TypeOK'
    BY <1>a, <2>1, <2>6, <2>7, <2>12 DEF TypeOK
  <2>10. \A f \in Ends : stage[f] # "idle"
    BY <1>b, <2>1, TwoEnds DEF LoopsOK, Idle
  <2>13. stage["client"] # "dialling"
    BY <1>b, <2>1, TwoEnds DEF LoopsOK, Idle
  <2>11. \A f \in Ends : posted[f] <= posted'[f]
    BY <1>a, <2>1 DEF TypeOK
  <2> QED
    BY <1>2, <1>a, <2>1, <2>8, <2>9, <2>10, <2>11, <2>13, LoopRead
<1>3. CASE OnReadHeader(e)
  <2> DEFINE n == Head(wire[Peer(e)]).n
  <2>1. /\ reading[e] = "header" /\ wire[Peer(e)] # <<>>
        /\ wire' = [wire EXCEPT ![Peer(e)] = Tail(@)]
        /\ tempIn' = [tempIn EXCEPT ![e] = n]
        /\ \/ StartRead(e, "body") /\ UNCHANGED <<inbox, bodies>>
           \/ mf_add_to_incomming_message_queue(e, n, tempBody[e])
        /\ UNCHANGED <<tcp, socket, stage, posted, ran, closeTask, qOut, writing,
                       validating, tempBody, handshakeOut>>
    BY <1>3 DEF OnReadHeader
  <2>2. n \in Nat /\ tempBody[e] \in Nat
    BY <1>a, <2>1, ReadUnit DEF TypeOK
  <2> HIDE DEF n
  <2>3. /\ tempIn' \in [Ends -> Nat]
        /\ inbox' \in [Ends -> Seq(Nat)] /\ bodies' \in [Ends -> Seq(Nat)]
        /\ reading' \in [Ends -> {"none", "validation", "header", "body", "failing"}]
    <3>1. tempIn' \in [Ends -> Nat]
      BY <1>a, <2>1, <2>2 DEF TypeOK
    <3>2. CASE StartRead(e, "body") /\ UNCHANGED <<inbox, bodies>>
      BY <1>a, <3>1, <3>2, StartReadType DEF TypeOK
    <3>3. CASE mf_add_to_incomming_message_queue(e, n, tempBody[e])
      BY <1>a, <2>2, <3>1, <3>3, AddType
    <3> QED
      BY <2>1, <3>2, <3>3
  <2>4. TypeOK'
    BY <1>a, <1>d, <2>1, <2>3 DEF TypeOK
  <2>5. /\ \A f \in Ends : f # e => reading'[f] = reading[f] /\ inbox'[f] = inbox[f]
        /\ reading'[e] # "none"
    BY <1>a, <2>1, StartReadFrame, AddFrame
  <2>6. \A f \in Ends : posted[f] <= posted'[f]
    BY <1>a, <2>1 DEF TypeOK
  <2> QED
    BY <1>a, <1>c, <1>d, <2>1, <2>4, <2>5, <2>6, LoopRead
<1>4. CASE OnReadBody(e)
  <2>1. /\ reading[e] = "body" /\ wire[Peer(e)] # <<>>
        /\ wire' = [wire EXCEPT ![Peer(e)] = Tail(@)]
        /\ mf_add_to_incomming_message_queue(e, tempIn[e], tempIn[e])
        /\ tempBody' = [tempBody EXCEPT ![e] = tempIn[e]]
        /\ UNCHANGED <<tcp, socket, stage, posted, ran, closeTask, qOut, writing,
                       validating, tempIn, handshakeOut>>
    BY <1>4 DEF OnReadBody
  <2>2. tempIn[e] \in Nat
    BY <1>a DEF TypeOK
  <2>6. tempBody' \in [Ends -> Nat]
    BY <1>a, <2>1, <2>2 DEF TypeOK
  <2>3. TypeOK'
    BY <1>a, <1>d, <2>1, <2>2, <2>6, AddType DEF TypeOK
  <2>4. /\ \A f \in Ends : f # e => reading'[f] = reading[f] /\ inbox'[f] = inbox[f]
        /\ reading'[e] # "none"
    BY <1>a, <2>1, AddFrame
  <2>5. \A f \in Ends : posted[f] <= posted'[f]
    BY <1>a, <2>1 DEF TypeOK
  <2> QED
    BY <1>a, <1>c, <1>d, <2>1, <2>3, <2>4, <2>5, LoopRead
<1>5. CASE OnReadFailed(e)
  <2>1. /\ CloseSocket(e) /\ reading' = [reading EXCEPT ![e] = "none"]
        /\ UNCHANGED <<wire, stage, posted, ran, closeTask, qOut, writing,
                       validating, received, handshakeOut>>
    BY <1>5 DEF OnReadFailed
  <2>2. /\ wire' \in [Ends -> Seq(Unit)]
        /\ \A f \in Ends : stage[f] = "idle" => wire'[f] = <<>>
    BY <1>a, <1>b, <2>1 DEF TypeOK, LoopsOK, Idle
  <2> QED
    BY <1>a, <2>1, <2>2, LoopGiveUp
<1> QED
  BY <1>1, <1>2, <1>3, <1>4, <1>5 DEF Reads

LEMMA LoopPop ==
    ASSUME LoopInv, NEW e \in Ends, writing[e] \in {"header", "body"}, PopAndContinue(e),
           UNCHANGED <<tcp, socket, stage, posted, ran, closeTask, validating,
                       reading, received, handshakeOut>>
    PROVE  LoopInv'
<1>a. TypeOK
  BY DEF LoopInv
<1>b. \A f \in Ends : LoopsOK(f)
  BY DEF LoopInv
<1>1. qOut[e] # <<>> /\ stage[e] # "idle"
  BY <1>b DEF LoopsOK, WriteLoop, Idle
<1>2. TypeOK'
  BY <1>a, <1>1, PopType DEF TypeOK
<1>6. /\ qOut \in [Ends -> Seq(Nat)] /\ wire \in [Ends -> Seq(Unit)]
      /\ writing \in [Ends -> {"none", "header", "body", "failing"}]
  BY <1>a DEF TypeOK
<1>7. qOut'[e] = Tail(qOut[e]) /\ \A f \in Ends : f # e => qOut'[f] = qOut[f]
  BY <1>6 DEF PopAndContinue
<1>8. \/ Tail(qOut[e]) # <<>> /\ StartWrite(e, Header(Head(Tail(qOut[e]))))
      \/ Tail(qOut[e]) = <<>> /\ writing' = [writing EXCEPT ![e] = "none"] /\ wire' = wire
  BY DEF PopAndContinue, mf_write_header
<1>9. \A f \in Ends : f # e => writing'[f] = writing[f]
  BY <1>6, <1>8 DEF StartWrite
<1>10. \A f \in Ends : f # e => wire'[f] = wire[f]
  BY <1>6, <1>8 DEF StartWrite, Transmit
<1>11. IF Tail(qOut[e]) # <<>> THEN writing'[e] \in {"header", "failing"}
                              ELSE writing'[e] = "none"
  BY <1>6, <1>8, UnitFacts DEF StartWrite
<1>4. \A f \in Ends : f # e => /\ qOut'[f] = qOut[f] /\ writing'[f] = writing[f]
                               /\ wire'[f] = wire[f]
  BY <1>7, <1>9, <1>10
<1>3. ASSUME NEW f \in Ends PROVE WriteLoop(f)'
  <2>1. CASE f = e
    BY <1>7, <1>11, <2>1 DEF WriteLoop
  <2>2. CASE f # e
    BY <1>b, <1>4, <2>2 DEF LoopsOK, WriteLoop
  <2> QED
    BY <2>1, <2>2
<1>5. ASSUME NEW f \in Ends PROVE TasksInOrder(f)' /\ ReadLoop(f)' /\ Idle(f)'
  BY <1>b, <1>1, <1>4 DEF LoopsOK, TasksInOrder, ReadLoop, Idle
<1> QED
  BY <1>2, <1>3, <1>5 DEF LoopInv, LoopsOK

LEMMA LoopWrites == ASSUME LoopInv, NEW e \in Ends, Writes(e) PROVE LoopInv'
<1>a. TypeOK
  BY DEF LoopInv
<1>b. \A f \in Ends : LoopsOK(f)
  BY DEF LoopInv
<1>1. CASE OnWriteHeader(e)
  <2>1. /\ writing[e] = "header"
        /\ UNCHANGED <<tcp, socket, stage, posted, ran, closeTask, validating,
                       reading, received, handshakeOut>>
    BY <1>1 DEF OnWriteHeader
  <2>2. CASE Head(qOut[e]) \in WithBody
    <3> DEFINE n == Head(qOut[e])
    <3>1. StartWrite(e, Body(n)) /\ qOut' = qOut
      BY <1>1, <2>2 DEF OnWriteHeader, mf_write_body
    <3>2. Body(n) \in Unit /\ Body(n).kind = "body"
      BY <2>2, ConnectionAssumption, UnitFacts
    <3>3. /\ wire' \in [Ends -> Seq(Unit)]
          /\ writing' \in [Ends -> {"none", "header", "body", "failing"}]
      BY <1>a, <3>1, <3>2, StartWriteType
    <3>4. TypeOK'
      BY <1>a, <2>1, <3>1, <3>3 DEF TypeOK
    <3>5. /\ \A f \in Ends : f # e => writing'[f] = writing[f] /\ wire'[f] = wire[f]
          /\ writing'[e] \in {"body", "failing"}
      BY <1>a, <3>1, <3>2 DEF TypeOK, StartWrite, Transmit
    <3>6. qOut[e] # <<>> /\ stage[e] # "idle"
      BY <1>b, <2>1 DEF LoopsOK, WriteLoop, Idle
    <3>7. ASSUME NEW f \in Ends PROVE LoopsOK(f)'
      BY <1>b, <2>1, <2>2, <3>1, <3>5, <3>6
      DEF LoopsOK, TasksInOrder, WriteLoop, ReadLoop, Idle
    <3> QED
      BY <3>4, <3>7 DEF LoopInv
  <2>3. CASE Head(qOut[e]) \notin WithBody
    BY <1>1, <2>1, <2>3, LoopPop DEF OnWriteHeader
  <2> QED
    BY <2>2, <2>3
<1>2. CASE OnWriteBody(e)
  BY <1>2, LoopPop DEF OnWriteBody
<1>3. CASE OnWriteFailed(e)
  <2>1. /\ CloseSocket(e) /\ writing' = [writing EXCEPT ![e] = "none"]
        /\ UNCHANGED <<wire, stage, posted, ran, closeTask, qOut, reading,
                       validating, received, handshakeOut>>
    BY <1>3 DEF OnWriteFailed
  <2>2. /\ wire' \in [Ends -> Seq(Unit)]
        /\ \A f \in Ends : stage[f] = "idle" => wire'[f] = <<>>
    BY <1>a, <1>b, <2>1 DEF TypeOK, LoopsOK, Idle
  <2> QED
    BY <2>1, <2>2, LoopGiveUp
<1> QED
  BY <1>1, <1>2, <1>3 DEF Writes

LEMMA LoopWritesValidation ==
    ASSUME LoopInv, NEW e \in Ends, WritesValidation(e) PROVE LoopInv'
<1>a. TypeOK
  BY DEF LoopInv
<1>b. \A f \in Ends : LoopsOK(f)
  BY DEF LoopInv
<1>1. CASE OnWriteValidation(e)
  <2>1. /\ validating[e] = "pending" /\ validating' = [validating EXCEPT ![e] = "none"]
        /\ \/ e = "client" /\ StartRead(e, "header")
           \/ e = "server" /\ reading' = reading
        /\ UNCHANGED <<tcp, wire, socket, stage, posted, ran, closeTask, qOut,
                       writing, received, handshakeOut>>
    BY <1>1, TwoEnds DEF OnWriteValidation, mf_read_header
  <2>2. reading' \in [Ends -> {"none", "validation", "header", "body", "failing"}]
    BY <1>a, <2>1, StartReadType DEF TypeOK
  <2>3. validating' \in [Ends -> {"none", "pending", "failing"}]
    BY <1>a, <2>1 DEF TypeOK
  <2>4. TypeOK'
    BY <1>a, <2>1, <2>2, <2>3 DEF TypeOK
  <2>5. /\ \A f \in Ends : f # e => reading'[f] = reading[f] /\ validating'[f] = validating[f]
        /\ IF e = "client" THEN reading'[e] # "none" ELSE reading'[e] = reading[e]
    BY <1>a, <2>1 DEF TypeOK, StartRead
  <2>6. stage[e] \notin {"idle", "dialling"}
    BY <1>b, <2>1 DEF LoopsOK, Idle
  <2>7. ASSUME NEW f \in Ends PROVE TasksInOrder(f)' /\ WriteLoop(f)' /\ Idle(f)'
    BY <1>b, <2>1, <2>5, <2>6 DEF LoopsOK, TasksInOrder, WriteLoop, Idle
  <2>8. ASSUME NEW f \in Ends PROVE ReadLoop(f)'
    BY <1>b, <2>1, <2>5 DEF LoopsOK, ReadLoop
  <2> QED
    BY <2>4, <2>7, <2>8 DEF LoopInv, LoopsOK
<1>2. CASE OnWriteValidationFailed(e)
  <2>1. /\ CloseSocket(e) /\ validating' = [validating EXCEPT ![e] = "none"]
        /\ UNCHANGED <<wire, stage, posted, ran, closeTask, qOut, reading,
                       writing, received, handshakeOut>>
    BY <1>2 DEF OnWriteValidationFailed
  <2>2. /\ wire' \in [Ends -> Seq(Unit)]
        /\ \A f \in Ends : stage[f] = "idle" => wire'[f] = <<>>
    BY <1>a, <1>b, <2>1 DEF TypeOK, LoopsOK, Idle
  <2> QED
    BY <2>1, <2>2, LoopGiveUp
<1> QED
  BY <1>1, <1>2 DEF WritesValidation

LEMMA LoopNetwork == LoopInv /\ Network => LoopInv'
<1> SUFFICES ASSUME LoopInv, NEW e \in Ends, Break \/ LoseTail(e) PROVE LoopInv'
  BY TwoEnds DEF Network
<1>a. TypeOK
  BY DEF LoopInv
<1>b. \A f \in Ends : LoopsOK(f)
  BY DEF LoopInv
<1>1. /\ tcp' = "down"
      /\ UNCHANGED <<socket, stage, posted, ran, closeTask, qOut, writing,
                     validating, reading, received, handshakeOut>>
  BY DEF Break, LoseTail
<1>2. /\ wire' \in [Ends -> Seq(Unit)]
      /\ \A f \in Ends : wire[f] = <<>> => wire'[f] = <<>>
  <2>1. CASE Break
    BY <1>a, <2>1 DEF Break, TypeOK
  <2>2. CASE LoseTail(e)
    <3>1. wire \in [Ends -> Seq(Unit)] /\ wire[e] # <<>>
      BY <1>a, <2>2 DEF TypeOK, LoseTail
    <3>2. SubSeq(wire[e], 1, Len(wire[e]) - 1) \in Seq(Unit)
      BY <3>1
    <3> QED
      BY <2>2, <3>1, <3>2 DEF LoseTail
  <2> QED
    BY <2>1, <2>2
<1>3. TypeOK'
  BY <1>a, <1>1, <1>2 DEF TypeOK
<1>4. ASSUME NEW f \in Ends PROVE LoopsOK(f)'
  BY <1>b, <1>1, <1>2 DEF LoopsOK, TasksInOrder, WriteLoop, ReadLoop, Idle
<1> QED
  BY <1>3, <1>4 DEF LoopInv
-----------------------------------------------------------------------------
(***************************************************************************)
(* The challenge is the first unit the client reads.                       *)
(***************************************************************************)
\* Steps after the link was set up leave the front of the server's stream alone.
LEMMA GreetingKept ==
    ASSUME Dialled, Greeting, stage' = stage,
           handshakeOut'["server"] = handshakeOut["server"],
           \/ tcp' = tcp
           \/ tcp = "up" /\ tcp' = "down"
           \/ tcp = "connecting" /\ tcp' = "refused",
           AtHandshake("client")' => AtHandshake("client"),
           AtHandshake("client")' =>
             \/ wire'["server"] = wire["server"]
             \/ /\ wire["server"] # <<>> /\ wire'["server"] # <<>>
                /\ Head(wire'["server"]) = Head(wire["server"])
             \/ tcp' = "down" /\ wire'["server"] = <<>>
    PROVE  Dialled' /\ Greeting'
<1>1. Dialled'
  BY DEF Dialled
<1>2. Greeting'
  <2> SUFFICES ASSUME AtHandshake("client")'
               PROVE  IF wire'["server"] = <<>>
                        THEN tcp' = "up" => stage'["server"] = "idle"
                        ELSE Head(wire'["server"]) = Validation(handshakeOut'["server"])
    BY DEF Greeting, Validation
  <2> QED
    BY DEF Greeting
<1> QED
  BY <1>1, <1>2

\* The server never writes to a stream the client has yet to read from the start.
LEMMA GreetingWritten ==
    ASSUME BaseInv, NEW e \in Ends, stage[e] # "idle", NEW u \in Unit, Transmit(e, u)
    PROVE  AtHandshake("client") =>
             \/ wire'["server"] = wire["server"]
             \/ /\ wire["server"] # <<>> /\ wire'["server"] # <<>>
                /\ Head(wire'["server"]) = Head(wire["server"])
<1> SUFFICES ASSUME AtHandshake("client"), wire'["server"] # wire["server"]
             PROVE  /\ wire["server"] # <<>> /\ wire'["server"] # <<>>
                    /\ Head(wire'["server"]) = Head(wire["server"])
  OBVIOUS
<1>1. wire \in [Ends -> Seq(Unit)]
  BY DEF BaseInv, LoopInv, TypeOK
<1>2. e = "server" /\ tcp = "up" /\ wire'["server"] = Append(wire["server"], u)
  BY <1>1, TwoEnds DEF Transmit, Usable
<1>3. wire["server"] # <<>>
  BY <1>2 DEF BaseInv, Greeting
<1>4. wire["server"] \in Seq(Unit)
  BY <1>1, TwoEnds
<1> QED
  BY <1>2, <1>3, <1>4

LEMMA GreetingEstablish == BaseInv /\ Establish => Dialled' /\ Greeting'
<1> SUFFICES ASSUME BaseInv, Establish PROVE Dialled' /\ Greeting'
  OBVIOUS
<1>a. TypeOK /\ Dialled /\ Greeting
  BY DEF BaseInv, LoopInv
<1>b. Idle("server")
  BY TwoEnds DEF BaseInv, LoopInv, LoopsOK
<1>c. stage \in [Ends -> {"idle", "dialling", "running", "failed"}]
  BY <1>a DEF TypeOK
<1>1. CASE ConnectToServer
  <2>1. /\ stage["client"] = "idle" /\ tcp' = "connecting"
        /\ stage'["client"] = "dialling" /\ stage'["server"] = stage["server"]
        /\ UNCHANGED <<wire, reading, handshakeOut>>
    BY <1>1, <1>c, TwoEnds DEF ConnectToServer
  <2> QED
    BY <1>a, <2>1 DEF Dialled, Greeting, AtHandshake, Validation
<1>2. CASE TcpSettle
  <2>1. /\ stage["server"] = "idle" /\ stage["client"] # "idle"
        /\ UNCHANGED <<stage, wire, reading, handshakeOut>>
    BY <1>a, <1>2 DEF TcpSettle, Dialled
  <2> QED
    BY <1>b, <1>2, <2>1 DEF TcpSettle, Dialled, Greeting, AtHandshake, Idle
<1>3. CASE OnConnect
  <2>1. /\ stage["client"] = "dialling" /\ stage'["client"] \in {"running", "failed"}
        /\ stage'["server"] = stage["server"]
        /\ UNCHANGED <<tcp, wire, handshakeOut>>
    BY <1>3, <1>c, TwoEnds DEF OnConnect
  <2> QED
    BY <1>a, <2>1 DEF Dialled, Greeting, AtHandshake, Validation
<1>4. CASE OnAccept
  <2>1. PICK w \in Challenges :
           /\ handshakeOut' = [handshakeOut EXCEPT !["server"] = w]
           /\ wire' = IF tcp = "up"
                        THEN [wire EXCEPT !["server"] = Append(@, Validation(w))]
                        ELSE wire
    BY <1>4 DEF OnAccept
  <2>2. /\ stage["server"] = "idle" /\ tcp \in {"up", "down"} /\ tcp' = tcp
        /\ stage'["client"] = stage["client"]
    BY <1>4, <1>c, TwoEnds DEF OnAccept
  <2>3. wire["server"] = <<>>
    BY <1>b, <2>2 DEF Idle
  <2>4. Dialled'
    BY <1>a, <2>2 DEF Dialled
  <2>5. Greeting'
    <3>1. CASE tcp = "up"
      <4>1. wire \in [Ends -> Seq(Unit)] /\ handshakeOut \in [Ends -> Words]
        BY <1>a DEF TypeOK
      <4>2. wire'["server"] = <<Validation(w)>> /\ handshakeOut'["server"] = w
        BY <2>1, <2>3, <3>1, <4>1, TwoEnds
      <4> QED
        BY <4>2 DEF Greeting, Validation
    <3>2. CASE tcp = "down"
      BY <2>1, <2>2, <2>3, <3>2 DEF Greeting
    <3> QED
      BY <2>2, <3>1, <3>2
  <2> QED
    BY <2>4, <2>5
<1> QED
  BY <1>1, <1>2, <1>3, <1>4 DEF Establish

LEMMA CloseSocketTcp ==
    ASSUME NEW e, CloseSocket(e)
    PROVE  \/ tcp' = tcp
           \/ tcp = "up" /\ tcp' = "down"
           \/ tcp = "connecting" /\ tcp' = "refused"
  BY DEF CloseSocket

LEMMA GreetingNext == BaseInv /\ [Next]_vars => Dialled' /\ Greeting'
<1> SUFFICES ASSUME BaseInv, [Next]_vars PROVE Dialled' /\ Greeting'
  OBVIOUS
<1>a. TypeOK /\ Dialled /\ Greeting
  BY DEF BaseInv, LoopInv
<1>b. ASSUME NEW f \in Ends PROVE Idle(f) /\ WriteLoop(f) /\ TasksInOrder(f)
  BY DEF BaseInv, LoopInv, LoopsOK
<1>1. CASE Post
  <2>1. UNCHANGED <<tcp, wire, stage, reading, handshakeOut>>
    BY <1>1 DEF Post, Disconnect, Send
  <2> QED
    BY <1>a, <2>1, GreetingKept DEF AtHandshake
<1>2. ASSUME NEW e \in Ends, Tasks(e) PROVE Dialled' /\ Greeting'
  <2>1. UNCHANGED <<stage, reading, handshakeOut>>
    BY <1>2 DEF Tasks, RunSend, RunClose
  <2>2. CASE RunSend(e)
    <3>1. stage[e] # "idle" /\ ran[e] + 1 \in Nat /\ tcp' = tcp
      BY <1>a, <1>b, <2>2 DEF TypeOK, RunSend, Idle
    <3>2. wire' = wire \/ Transmit(e, Header(ran[e] + 1))
      BY <2>2 DEF RunSend, mf_write_header, StartWrite
    <3> QED
      BY <1>a, <2>1, <3>1, <3>2, UnitFacts, GreetingKept, GreetingWritten DEF AtHandshake
  <2>3. CASE RunClose(e)
    BY <1>a, <2>1, <2>3, CloseSocketTcp, GreetingKept DEF RunClose, AtHandshake
  <2> QED
    BY <1>2, <2>2, <2>3 DEF Tasks
<1>3. ASSUME NEW e \in Ends, Writes(e) PROVE Dialled' /\ Greeting'
  <2>1. UNCHANGED <<stage, reading, handshakeOut>>
    BY <1>3 DEF Writes, OnWriteHeader, OnWriteBody, OnWriteFailed
  <2>2. CASE OnWriteFailed(e)
    BY <1>a, <2>1, <2>2, CloseSocketTcp, GreetingKept DEF OnWriteFailed, AtHandshake
  <2>3. CASE OnWriteHeader(e) \/ OnWriteBody(e)
    <3>1. stage[e] # "idle" /\ qOut[e] # <<>> /\ tcp' = tcp
      BY <1>b, <2>3 DEF OnWriteHeader, OnWriteBody, Idle, WriteLoop
    <3>2. \/ wire' = wire
          \/ Head(qOut[e]) \in WithBody /\ Transmit(e, Body(Head(qOut[e])))
          \/ Tail(qOut[e]) # <<>> /\ Transmit(e, Header(Head(Tail(qOut[e]))))
      BY <2>3 DEF OnWriteHeader, OnWriteBody, PopAndContinue, mf_write_header,
                  mf_write_body, StartWrite
    <3>3. qOut[e] \in Seq(Nat) /\ Tail(qOut[e]) \in Seq(Nat)
      BY <1>a, <3>1 DEF TypeOK
    <3>4. CASE wire' = wire
      BY <1>a, <2>1, <3>1, <3>4, GreetingKept DEF AtHandshake
    <3>5. ASSUME NEW u \in Unit, Transmit(e, u) PROVE Dialled' /\ Greeting'
      BY <1>a, <2>1, <3>1, <3>5, GreetingKept, GreetingWritten DEF AtHandshake
    <3>6. Head(qOut[e]) \in WithBody => Body(Head(qOut[e])) \in Unit
      BY UnitFacts, ConnectionAssumption
    <3>7. Tail(qOut[e]) # <<>> => Header(Head(Tail(qOut[e]))) \in Unit
      BY <3>3, UnitFacts
    <3> QED
      BY <3>2, <3>4, <3>5, <3>6, <3>7
  <2> QED
    BY <1>3, <2>2, <2>3 DEF Writes
<1>4. ASSUME NEW e \in Ends, WritesValidation(e) PROVE Dialled' /\ Greeting'
  <2>1. UNCHANGED <<stage, wire, handshakeOut>>
    BY <1>4 DEF WritesValidation, OnWriteValidation, OnWriteValidationFailed
  <2>2. \/ tcp' = tcp
        \/ tcp = "up" /\ tcp' = "down"
        \/ tcp = "connecting" /\ tcp' = "refused"
    BY <1>4, CloseSocketTcp
    DEF WritesValidation, OnWriteValidation, OnWriteValidationFailed
  <2>3. reading' = reading \/ \E v \in {"header", "failing"} : reading' = [reading EXCEPT ![e] = v]
    BY <1>4 DEF WritesValidation, OnWriteValidation, OnWriteValidationFailed,
                mf_read_header, StartRead
  <2>4. AtHandshake("client")' => AtHandshake("client")
    <3>1. reading \in [Ends -> {"none", "validation", "header", "body", "failing"}]
      BY <1>a DEF TypeOK
    <3>2. reading'["client"] = "validation" => reading["client"] = "validation"
      BY <2>3, <3>1, TwoEnds
    <3> QED
      BY <2>1, <3>2 DEF AtHandshake
  <2> QED
    BY <1>a, <2>1, <2>2, <2>4, GreetingKept
<1>5. CASE Network
  <2>1. UNCHANGED <<stage, reading, handshakeOut>>
    BY <1>5 DEF Network, Break, LoseTail
  <2>2. CASE Break
    BY <1>a, <2>1, <2>2, GreetingKept DEF Break, AtHandshake
  <2>3. ASSUME NEW e \in Ends, LoseTail(e) PROVE Dialled' /\ Greeting'
    <3>1. wire \in [Ends -> Seq(Unit)]
      BY <1>a DEF TypeOK
    <3>2. tcp' = "down" /\ tcp = "down" /\ wire[e] # <<>>
          /\ wire' = [wire EXCEPT ![e] = SubSeq(@, 1, Len(@) - 1)]
      BY <2>3 DEF LoseTail
    <3>3. ASSUME NEW s \in Seq(Unit), s # <<>>
          PROVE \/ SubSeq(s, 1, Len(s) - 1) = <<>>
                \/ /\ SubSeq(s, 1, Len(s) - 1) # <<>>
                   /\ Head(SubSeq(s, 1, Len(s) - 1)) = Head(s)
      BY <3>3
    <3>4. \/ wire'["server"] = wire["server"]
          \/ /\ wire["server"] # <<>> /\ wire'["server"] # <<>>
             /\ Head(wire'["server"]) = Head(wire["server"])
          \/ tcp' = "down" /\ wire'["server"] = <<>>
      BY <3>1, <3>2, <3>3, TwoEnds
    <3> QED
      BY <1>a, <2>1, <3>2, <3>4, GreetingKept DEF AtHandshake
  <2> QED
    BY <1>5, <2>2, <2>3 DEF Network
<1>6. ASSUME NEW e \in Ends, Reads(e) PROVE Dialled' /\ Greeting'
  <2>0. reading \in [Ends -> {"none", "validation", "header", "body", "failing"}]
        /\ wire \in [Ends -> Seq(Unit)]
        /\ handshakeOut \in [Ends -> Words]
    BY <1>a DEF TypeOK
  <2>1. stage' = stage
    BY <1>6 DEF Reads, OnReadAnswer, OnReadChallenge, OnReadHeader, OnReadBody, OnReadFailed
  <2>2. \/ tcp' = tcp
        \/ tcp = "up" /\ tcp' = "down"
        \/ tcp = "connecting" /\ tcp' = "refused"
    BY <1>6, CloseSocketTcp
    DEF Reads, OnReadAnswer, OnReadChallenge, OnReadHeader, OnReadBody, OnReadFailed
  <2>3. handshakeOut'["server"] = handshakeOut["server"]
    BY <1>6, <2>0, TwoEnds
    DEF Reads, OnReadAnswer, OnReadChallenge, OnReadHeader, OnReadBody, OnReadFailed
  <2>4. /\ \A f \in Ends : f # e => reading'[f] = reading[f]
        /\ reading'[e] # "validation"
        /\ reading[e] # "none"
    BY <1>6, <2>0, TwoEnds
    DEF Reads, OnReadAnswer, OnReadChallenge, OnReadHeader, OnReadBody, OnReadFailed,
        mf_add_to_incomming_message_queue, mf_read_header, StartRead
  <2>5. CASE e = "client"
    <3>1. ~AtHandshake("client")'
      BY <1>b, <2>1, <2>4, <2>5 DEF AtHandshake, Idle
    <3> QED
      BY <1>a, <2>1, <2>2, <2>3, <3>1, GreetingKept
  <2>6. CASE e = "server"
    <3>1. wire'["server"] = wire["server"]
      BY <1>6, <2>0, <2>6, TwoEnds, PeerFacts
      DEF Reads, OnReadAnswer, OnReadHeader, OnReadBody, OnReadFailed
    <3>2. reading'["client"] = reading["client"]
      BY <2>4, <2>6, TwoEnds
    <3> QED
      BY <1>a, <2>1, <2>2, <2>3, <3>1, <3>2, GreetingKept DEF AtHandshake
  <2> QED
    BY <2>5, <2>6, TwoEnds
<1>7. CASE UNCHANGED vars
  BY <1>7, <1>a, GreetingKept DEF vars, AtHandshake
<1> QED
  BY <1>1, <1>2, <1>3, <1>4, <1>5, <1>6, <1>7, GreetingEstablish DEF Next
-----------------------------------------------------------------------------
(***************************************************************************)
(* BaseInv is an invariant, and what it implies.                           *)
(***************************************************************************)
LEMMA BaseInit == Init => BaseInv
<1> SUFFICES ASSUME Init PROVE BaseInv
  OBVIOUS
<1>1. /\ stage["server"] = "idle" /\ wire["server"] = <<>> /\ tcp = "none"
  BY TwoEnds DEF Init
<1> QED
  BY <1>1, LoopInit DEF BaseInv, Dialled, Greeting

LEMMA BaseNext == BaseInv /\ [Next]_vars => BaseInv'
<1> SUFFICES ASSUME BaseInv, [Next]_vars PROVE LoopInv'
  BY GreetingNext DEF BaseInv
<1>1. LoopInv
  BY DEF BaseInv
<1>2. CASE UNCHANGED vars
  <2>1. UNCHANGED <<tcp, wire, socket, stage, posted, ran, closeTask, qOut, writing,
                    validating, reading, received, handshakeOut>>
    BY <1>2 DEF vars
  <2>2. TypeOK'
    BY <1>1, <2>1 DEF LoopInv, TypeOK
  <2>3. \A f \in Ends : LoopsOK(f)'
    BY <1>1, <2>1 DEF LoopInv, LoopsOK, TasksInOrder, WriteLoop, ReadLoop, Idle
  <2> QED
    BY <2>2, <2>3 DEF LoopInv
<1> QED
  BY <1>1, <1>2, LoopEstablish, LoopPost, LoopTasks, LoopReads, LoopWrites,
     LoopWritesValidation, LoopNetwork DEF Next

THEOREM BaseInvariant == Spec => []BaseInv
<1>1. Init => BaseInv
  BY BaseInit
<1>2. BaseInv /\ [Next]_vars => BaseInv'
  BY BaseNext
<1> QED
  BY <1>1, <1>2, PTL DEF Spec

(* Every variable keeps its type, the words the two ends store included. *)
THEOREM TypeCorrect == Spec => []TypeOK
<1>1. BaseInv => TypeOK
  BY DEF BaseInv, LoopInv
<1> QED
  BY <1>1, BaseInvariant, PTL

(* No handler of the write loop reads the front of an empty m_qMessagesOut. *)
THEOREM FrontAlwaysExists == Spec => []FrontExists
<1>1. BaseInv => FrontExists
  BY DEF BaseInv, LoopInv, LoopsOK, WriteLoop, FrontExists
<1> QED
  BY <1>1, BaseInvariant, PTL

(* The write loop of an open connection never stalls on a queued message. *)
THEOREM WriteLoopStaysAlive == Spec => []WriteLoopAlive
<1>1. BaseInv => WriteLoopAlive
  BY DEF BaseInv, LoopInv, LoopsOK, WriteLoop, WriteLoopAlive
<1> QED
  BY <1>1, BaseInvariant, PTL

(* An open connection always listens. *)
THEOREM ReadLoopStaysAlive == Spec => []ReadLoopAlive
<1>1. BaseInv => ReadLoopAlive
  BY DEF BaseInv, LoopInv, LoopsOK, ReadLoop, ReadLoopAlive
<1> QED
  BY <1>1, BaseInvariant, PTL
=============================================================================
