----------------------- MODULE ConnectionOrderProofs -----------------------
(***************************************************************************)
(* The order of what a link carries: both ends keep in step, messages      *)
(* arrive with their own body, and each direction implements Channel; for  *)
(* every WithBody, Welcome, Scramble and MaxTasks.                         *)
(***************************************************************************)
EXTENDS ConnectionProofs, SequenceTheorems

USE DEF tasks, received

(***************************************************************************)
(* Stretches of a direction.                                               *)
(***************************************************************************)
LEMMA ChainedLonger ==
    ASSUME NEW s \in Seq(Unit), NEW last \in Nat, NEW more \in Nat, last <= more,
           Chained(s, last)
    PROVE  Chained(s, more)
  BY DEF Chained

LEMMA Appending ==
    ASSUME NEW s \in Seq(Unit), NEW u \in Unit, NEW last \in Nat, NEW first,
           Chained(s, last), EndsBefore(s, first, u),
           u.kind # "validation" => u.n \in 1..last
    PROVE  /\ Chained(Append(s, u), last)
           /\ Begins(s, first) => Begins(Append(s, u), first)
           /\ EndsBefore(Append(s, u), first, Succ(u))
<1> DEFINE t == Append(s, u)
<1>1. /\ Len(t) = Len(s) + 1 /\ t[Len(t)] = u /\ t # <<>> /\ Len(s) \in Nat
      /\ \A i \in 1..Len(s) : t[i] = s[i]
      /\ s = <<>> <=> Len(s) = 0
  OBVIOUS
<1> HIDE DEF t
<1>2. ASSUME NEW i \in 1..(Len(t) - 1) PROVE t[i + 1] = Succ(t[i])
  <2>1. CASE i = Len(s)
    BY <1>1, <2>1 DEF EndsBefore
  <2>2. CASE i # Len(s)
    BY <1>1, <2>2 DEF Chained
  <2> QED
    BY <2>1, <2>2
<1>3. ASSUME NEW i \in 1..Len(t), t[i].kind # "validation" PROVE t[i].n \in 1..last
  <2>1. CASE i = Len(t)
    BY <1>1, <1>3, <2>1
  <2>2. CASE i # Len(t)
    BY <1>1, <1>3, <2>2 DEF Chained
  <2> QED
    BY <2>1, <2>2
<1>4. Begins(s, first) => Begins(t, first)
  BY <1>1 DEF Begins, EndsBefore
<1>5. EndsBefore(t, first, Succ(u))
  BY <1>1 DEF EndsBefore
<1> QED
  BY <1>2, <1>3, <1>4, <1>5 DEF Chained, t

LEMMA Consuming ==
    ASSUME NEW s \in Seq(Unit), s # <<>>, NEW last \in Nat, NEW first,
           Chained(s, last), Begins(s, first)
    PROVE  /\ Chained(Tail(s), last)
           /\ Begins(Tail(s), Succ(first))
           /\ \A next : EndsBefore(s, first, next) => EndsBefore(Tail(s), Succ(first), next)
<1> DEFINE t == Tail(s)
<1>1. /\ Len(s) \in Nat \ {0} /\ Len(t) = Len(s) - 1
      /\ \A i \in 1..Len(t) : t[i] = s[i + 1]
      /\ t = <<>> <=> Len(t) = 0
  BY HeadTailProperties, EmptySeq, LenProperties
<1> HIDE DEF t
<1>2. s[1] = first
  BY DEF Begins
<1>3. Chained(t, last)
  BY <1>1 DEF Chained
<1>4. Begins(t, Succ(first))
  BY <1>1, <1>2 DEF Chained, Begins
<1>5. ASSUME NEW next, EndsBefore(s, first, next) PROVE EndsBefore(t, Succ(first), next)
  BY <1>1, <1>2, <1>5 DEF EndsBefore
<1> QED
  BY <1>3, <1>4, <1>5 DEF t

LEMMA Losing ==
    ASSUME NEW s \in Seq(Unit), s # <<>>, NEW last \in Nat, NEW first, Chained(s, last)
    PROVE  LET t == SubSeq(s, 1, Len(s) - 1)
           IN Chained(t, last) /\ (Begins(s, first) => Begins(t, first))
<1> DEFINE t == SubSeq(s, 1, Len(s) - 1)
<1>1. /\ Len(s) \in Nat \ {0} /\ Len(t) = Len(s) - 1
      /\ \A i \in 1..Len(t) : t[i] = s[i]
      /\ t = <<>> <=> Len(t) = 0
  <2> DEFINE n == Len(s) - 1
  <2>1. Len(s) \in Nat \ {0} /\ n \in Nat /\ \A i \in 1..n : s[i] \in Unit
    OBVIOUS
  <2> HIDE DEF n
  <2>2. /\ SubSeq(s, 1, n) \in Seq(Unit)
        /\ Len(SubSeq(s, 1, n)) = IF 1 <= n THEN n - 1 + 1 ELSE 0
        /\ \A i \in 1..(n - 1 + 1) : SubSeq(s, 1, n)[i] = s[1 + i - 1]
    BY <2>1, SubSeqProperties
  <2>3. Len(SubSeq(s, 1, n)) = n /\ \A i \in 1..n : SubSeq(s, 1, n)[i] = s[i]
    BY <2>1, <2>2
  <2>4. SubSeq(s, 1, n) = <<>> <=> n = 0
    BY <2>2, <2>3, LenProperties, EmptySeq
  <2> QED
    BY <2>1, <2>3, <2>4 DEF n
<1> HIDE DEF t
<1>2. Chained(t, last)
  BY <1>1 DEF Chained
<1>3. Begins(s, first) => Begins(t, first)
  BY <1>1 DEF Begins
<1> QED
  BY <1>2, <1>3 DEF t

(***************************************************************************)
(* One direction, seen from its writer w: what a step has to do so that it *)
(* is still in order after it.                                             *)
(***************************************************************************)
ReaderKeeps(w) == \/ ReadPhase(Peer(w))' = "ended"
                  \/ /\ ReadPhase(Peer(w)) # "ended"
                     /\ NextRead(Peer(w))' = NextRead(Peer(w))
StaysUp(w) == tcp' = "up" => tcp = "up" /\ ReadPhase(Peer(w))' # "ended"

LEMMA StreamKept ==
    ASSUME TypeOK, TypeOK', NEW w \in Ends, Stream(w), wire'[w] = wire[w],
           ran[w] <= ran'[w], ReaderKeeps(w), StaysUp(w),
           tcp' = "up" => NextWrite(w)' = NextWrite(w)
    PROVE  Stream(w)'
<1>1. wire[w] \in Seq(Unit) /\ ran[w] \in Nat /\ ran'[w] \in Nat
  BY DEF TypeOK
<1>2. Chained(wire[w], ran'[w])
  BY <1>1, ChainedLonger DEF Stream
<1> QED
  BY <1>2 DEF Stream, ReaderKeeps, StaysUp

LEMMA StreamWritten ==
    ASSUME TypeOK, TypeOK', NEW w \in Ends, Stream(w), NEW u \in Unit,
           wire'[w] = IF tcp = "up" THEN Append(wire[w], u) ELSE wire[w],
           ran[w] <= ran'[w], ReaderKeeps(w), StaysUp(w),
           tcp = "up" => /\ u = NextWrite(w)
                         /\ NextWrite(w)' = Succ(u)
                         /\ u.kind # "validation" => u.n \in 1..ran'[w]
                         /\ ReadPhase(Peer(w))' # "ended"
    PROVE  Stream(w)'
<1> DEFINE s == wire[w]
           first == NextRead(Peer(w))
<1>1. s \in Seq(Unit) /\ ran[w] \in Nat /\ ran'[w] \in Nat
  BY DEF TypeOK
<1>2. Chained(s, ran'[w])
  BY <1>1, ChainedLonger DEF Stream
<1>3. CASE tcp = "up"
  <2>1. EndsBefore(s, first, u)
    BY <1>3 DEF Stream
  <2>2. /\ Chained(Append(s, u), ran'[w])
        /\ Begins(s, first) => Begins(Append(s, u), first)
        /\ EndsBefore(Append(s, u), first, Succ(u))
    BY <1>1, <1>2, <1>3, <2>1, Appending
  <2> QED
    BY <1>3, <2>2 DEF Stream, ReaderKeeps
<1>4. CASE tcp # "up"
  BY <1>2, <1>4 DEF Stream, ReaderKeeps, StaysUp
<1> QED
  BY <1>3, <1>4

LEMMA StreamRead ==
    ASSUME TypeOK, TypeOK', NEW w \in Ends, Stream(w), wire[w] # <<>>,
           wire'[w] = Tail(wire[w]), ran'[w] = ran[w], StaysUp(w),
           ReadPhase(Peer(w)) # "ended",
           \/ ReadPhase(Peer(w))' = "ended"
           \/ NextRead(Peer(w))' = Succ(NextRead(Peer(w))),
           tcp' = "up" => NextWrite(w)' = NextWrite(w)
    PROVE  Stream(w)'
<1> DEFINE s == wire[w]
           first == NextRead(Peer(w))
<1>1. s \in Seq(Unit) /\ ran[w] \in Nat
  BY DEF TypeOK
<1>2. Chained(s, ran[w]) /\ Begins(s, first)
  BY DEF Stream
<1>3. /\ Chained(Tail(s), ran[w])
      /\ Begins(Tail(s), Succ(first))
      /\ \A next : EndsBefore(s, first, next) => EndsBefore(Tail(s), Succ(first), next)
  BY <1>1, <1>2, Consuming
<1>4. tcp' = "up" => EndsBefore(s, first, NextWrite(w)) /\ ReadPhase(Peer(w))' # "ended"
  BY DEF Stream, StaysUp
<1> HIDE DEF s, first
<1> QED
  BY <1>3, <1>4 DEF Stream, s, first
-----------------------------------------------------------------------------
(***************************************************************************)
(* Phases and positions.                                                   *)
(***************************************************************************)
LEMMA PhaseFacts ==
    ASSUME BaseInv, NEW e \in Ends
    PROVE  /\ ReadPhase(e) = "flowing" <=> reading[e] \in {"header", "body"}
           /\ ReadPhase(e) = "handshake" <=>
                \/ stage[e] \in {"idle", "dialling"}
                \/ reading[e] = "validation"
                \/ e = "client" /\ reading[e] = "none" /\ validating[e] = "pending"
           /\ ReadPhase(e) \in {"handshake", "flowing", "ended"}
           /\ AtHandshake(e) => ReadPhase(e) = "handshake"
<1>1. Idle(e)
  BY DEF BaseInv, LoopInv, LoopsOK
<1> QED
  BY <1>1 DEF ReadPhase, AtHandshake, Idle

LEMMA NextPhaseFacts ==
    ASSUME BaseInv', NEW e \in Ends
    PROVE  /\ ReadPhase(e)' = "flowing" <=> reading'[e] \in {"header", "body"}
           /\ ReadPhase(e)' = "handshake" <=>
                \/ stage'[e] \in {"idle", "dialling"}
                \/ reading'[e] = "validation"
                \/ e = "client" /\ reading'[e] = "none" /\ validating'[e] = "pending"
           /\ ReadPhase(e)' \in {"handshake", "flowing", "ended"}
           /\ AtHandshake(e)' => ReadPhase(e)' = "handshake"
<1>1. Idle(e)'
  BY DEF BaseInv, LoopInv, LoopsOK
<1> QED
  BY <1>1 DEF ReadPhase, AtHandshake, Idle

LEMMA ReaderSame ==
    ASSUME NEW e \in Ends, stage'[e] = stage[e], reading'[e] = reading[e],
           e = "client" => validating'[e] = validating[e], inbox'[e] = inbox[e],
           handshakeOut'["server"] = handshakeOut["server"]
    PROVE  /\ ReadPhase(e)' = ReadPhase(e)
           /\ NextRead(e)' = NextRead(e)
           /\ AtHandshake(e)' <=> AtHandshake(e)
  BY DEF ReadPhase, NextRead, AtHandshake, Word, Peer

LEMMA WriterSame ==
    ASSUME NEW e \in Ends, stage'[e] = stage[e],
           e = "client" => (AtHandshake(e)' <=> AtHandshake(e)),
           writing'[e] = writing[e], qOut'[e] = qOut[e], ran'[e] = ran[e],
           handshakeOut'["server"] = handshakeOut["server"]
    PROVE  NextWrite(e)' = NextWrite(e)
<1>1. WordPending(e)' <=> WordPending(e)
  BY TwoEnds DEF WordPending
<1>2. Word(e)' = Word(e)
  BY DEF Word
<1> QED
  BY <1>1, <1>2 DEF NextWrite, Succ, Header, Body

\* An end that has something to send is past its handshake.
LEMMA Sending ==
    ASSUME IInv, NEW e \in Ends, stage[e] # "idle",
           e = "client" => inbox["client"] # <<>>
    PROVE  ~WordPending(e)
<1>1. CASE e = "server"
  BY <1>1 DEF WordPending
<1>2. CASE e = "client"
  <2>1. ReadPhase(e) # "handshake"
    BY <1>2 DEF IInv, Arrived, Listening
  <2>2. BaseInv
    BY DEF IInv
  <2> QED
    BY <1>2, <2>1, <2>2, PhaseFacts DEF WordPending
<1> QED
  BY <1>1, <1>2, TwoEnds

(***************************************************************************)
(* What a step leaves alone.                                               *)
(***************************************************************************)
LEMMA ArrivedKept ==
    ASSUME BaseInv, BaseInv', NEW e \in Ends, Arrived(e), inbox'[e] = inbox[e],
           tempIn'[e] = tempIn[e], ran[Peer(e)] <= ran'[Peer(e)],
           reading'[e] = "body" => reading[e] = "body",
           ReadPhase(e)' = "handshake" => ReadPhase(e) = "handshake"
    PROVE  Arrived(e)'
<1>1. ran[Peer(e)] \in Nat /\ ran'[Peer(e)] \in Nat
  BY PeerFacts DEF BaseInv, LoopInv, TypeOK
<1>2. InboxInOrder(e)'
  BY DEF Arrived, InboxInOrder
<1>3. BodyPending(e)'
  BY <1>1 DEF Arrived, BodyPending
<1>4. Listening(e)'
  BY DEF Arrived, Listening
<1> QED
  BY <1>2, <1>3, <1>4 DEF Arrived

\* The link is not up after the step: nobody writes any more, and each reader
\* goes on or has given up.
LEMMA GaveUp ==
    ASSUME IInv, BaseInv', tcp' \notin {"connecting", "up"},
           UNCHANGED <<wire, stage, posted, closeTask, qOut, received, handshakeOut>>,
           \A f \in Ends : ran[f] <= ran'[f],
           \A f \in Ends : writing'[f] = writing[f] \/ writing'[f] = "none",
           \A f \in Ends : \/ /\ reading'[f] = reading[f]
                              /\ f = "client" => validating'[f] = validating[f]
                           \/ /\ reading'[f] = "none" /\ ReadPhase(f)' = "ended"
                              /\ f = "client" => validating'[f] = "none"
    PROVE  IInv'
<1>a. BaseInv /\ TypeOK /\ TypeOK'
  BY DEF IInv, BaseInv, LoopInv
<1>1. ASSUME NEW f \in Ends
      PROVE  \/ ReadPhase(f)' = "ended" /\ reading'[f] = "none"
             \/ /\ ReadPhase(f)' = ReadPhase(f)
                /\ NextRead(f)' = NextRead(f)
                /\ AtHandshake(f)' <=> AtHandshake(f)
                /\ reading'[f] = reading[f]
  BY ReaderSame
<1>2. ASSUME NEW f \in Ends PROVE Arrived(f)' /\ LinkUp(f)' /\ Stream(f)'
  <2>1. Arrived(f) /\ Stream(f)
    BY DEF IInv
  <2>2. Peer(f) \in Ends
    BY PeerFacts
  <2>3. Arrived(f)'
    BY <1>a, <1>1, <2>1, <2>2, ArrivedKept
  <2>4. ReaderKeeps(f)
    <3>1. \/ ReadPhase(Peer(f))' = "ended"
          \/ /\ NextRead(Peer(f))' = NextRead(Peer(f))
             /\ ReadPhase(Peer(f))' = ReadPhase(Peer(f))
      BY <1>1, <2>2
    <3> QED
      BY <3>1 DEF ReaderKeeps
  <2>5. Stream(f)'
    BY <1>a, <2>1, <2>4, StreamKept DEF StaysUp
  <2> QED
    BY <2>3, <2>5 DEF LinkUp
<1>3. Setup'
  <2>1. Setup
    BY DEF IInv
  <2>2. \/ reading'["client"] = reading["client"] /\ validating'["client"] = validating["client"]
        \/ reading'["client"] = "none" /\ validating'["client"] = "none"
    BY TwoEnds
  <2>3. Waiting'
    <3>1. Waiting
      BY <2>1 DEF Setup
    <3> QED
      BY <1>1, <2>2, <3>1, TwoEnds DEF Waiting
  <2>4. Answering' /\ Silent'
    BY <2>1, <2>2, TwoEnds DEF Setup, Answering, Silent
  <2> QED
    BY <2>3, <2>4 DEF Setup, Connecting, Closing
<1> QED
  BY <1>2, <1>3 DEF IInv

(***************************************************************************)
(* Steps of the write loop: only e's queue and what it has written change. *)
(***************************************************************************)
Wrote(e, u) ==
    /\ wire'[e] = IF tcp = "up" THEN Append(wire[e], u) ELSE wire[e]
    /\ tcp = "up" => /\ u = NextWrite(e) /\ NextWrite(e)' = Succ(u)
                     /\ u.n \in 1..ran'[e]
WroteNothing(e) ==
    /\ wire'[e] = wire[e]
    /\ tcp = "up" => NextWrite(e)' = NextWrite(e)

LEMMA WriterStep ==
    ASSUME IInv, BaseInv', NEW e \in Ends, stage[e] # "idle",
           e = "client" => inbox["client"] # <<>>,
           UNCHANGED <<tcp, socket, stage, posted, closeTask, validating, reading,
                       received, handshakeOut>>,
           \A f \in Ends : f # e => /\ wire'[f] = wire[f] /\ qOut'[f] = qOut[f]
                                    /\ writing'[f] = writing[f] /\ ran'[f] = ran[f],
           ran[e] <= ran'[e],
           tcp = "up" => QueueInOrder(e)' /\ writing'[e] # "failing",
           Closing',
           WroteNothing(e) \/ \E u \in Unit : Wrote(e, u)
    PROVE  IInv'
<1>a. BaseInv /\ TypeOK /\ TypeOK'
  BY DEF IInv, BaseInv, LoopInv
<1>b. ASSUME NEW f \in Ends PROVE ran[f] \in Nat /\ ran'[f] \in Nat /\ ran[f] <= ran'[f]
  <2>1. ran[f] \in Nat /\ ran'[f] \in Nat
    BY <1>a DEF TypeOK
  <2>2. f # e => ran'[f] = ran[f]
    OBVIOUS
  <2> QED
    BY <2>1, <2>2
<1>1. \A f \in Ends : /\ ReadPhase(f)' = ReadPhase(f)
                      /\ NextRead(f)' = NextRead(f)
                      /\ AtHandshake(f)' <=> AtHandshake(f)
  BY ReaderSame
<1>2. ASSUME NEW f \in Ends PROVE Arrived(f)'
  <2>1. Arrived(f) /\ Peer(f) \in Ends
    BY PeerFacts DEF IInv
  <2> QED
    BY <1>a, <1>b, <1>1, <2>1, ArrivedKept
<1>3. ASSUME NEW f \in Ends PROVE LinkUp(f)'
  <2>1. LinkUp(f)
    BY DEF IInv
  <2>2. CASE f = e
    BY <1>1, <2>1, <2>2 DEF LinkUp
  <2>3. CASE f # e
    BY <1>1, <2>1, <2>3 DEF LinkUp, QueueInOrder
  <2> QED
    BY <2>2, <2>3
<1>4. ASSUME NEW f \in Ends PROVE ReaderKeeps(f) /\ StaysUp(f)
  <2>1. Peer(f) \in Ends /\ LinkUp(Peer(f))
    BY PeerFacts DEF IInv
  <2> QED
    BY <1>1, <2>1 DEF ReaderKeeps, StaysUp, LinkUp
<1>5. ASSUME NEW f \in Ends PROVE Stream(f)'
  <2>1. Stream(f)
    BY DEF IInv
  <2>2. CASE f # e
    <3>1. NextWrite(f)' = NextWrite(f)
      BY <1>1, <2>2, WriterSame
    <3> QED
      BY <1>a, <1>b, <1>4, <2>1, <2>2, <3>1, StreamKept
  <2>3. CASE f = e /\ WroteNothing(e)
    BY <1>a, <1>b, <1>4, <2>1, <2>3, StreamKept DEF WroteNothing
  <2>4. ASSUME f = e, NEW u \in Unit, Wrote(e, u) PROVE Stream(f)'
    <3>1. tcp = "up" => ReadPhase(Peer(e))' # "ended"
      BY <1>4 DEF StaysUp
    <3> QED
      BY <1>a, <1>b, <1>4, <2>1, <2>4, <3>1, StreamWritten DEF Wrote
  <2> QED
    BY <2>2, <2>3, <2>4
<1>6. Setup'
  <2>1. Setup
    BY DEF IInv
  <2>2. Waiting'
    <3>1. Waiting
      BY <2>1 DEF Setup
    <3>2. stage["server"] = "idle" => wire'["client"] = wire["client"]
      <4>1. CASE e = "client"
        <5>1. ReadPhase("client") # "handshake"
          BY <4>1 DEF IInv, Arrived, Listening
        <5>2. stage["server"] = "idle" => ReadPhase("client") = "ended"
          BY <1>a, <3>1, <5>1, PhaseFacts, TwoEnds DEF Waiting
        <5>3. stage["server"] = "idle" => tcp # "up"
          BY <5>2, TwoEnds DEF IInv, LinkUp
        <5> QED
          BY <4>1, <5>3 DEF Wrote, WroteNothing
      <4> QED
        BY <4>1, TwoEnds
    <3> QED
      BY <1>1, <3>1, <3>2, TwoEnds DEF Waiting
  <2>3. Answering' /\ Connecting' /\ Silent'
    BY <2>1, TwoEnds DEF Setup, Answering, Connecting, Silent
  <2> QED
    BY <2>2, <2>3 DEF Setup
<1> QED
  BY <1>2, <1>3, <1>5, <1>6 DEF IInv

(***************************************************************************)
(* Handlers that give up, and the network that breaks the link.            *)
(***************************************************************************)
LEMMA ClosedTcp ==
    ASSUME TypeOK, NEW e, CloseSocket(e) PROVE tcp' \notin {"connecting", "up"}
  BY DEF TypeOK, CloseSocket

LEMMA OrderGaveUp ==
    ASSUME IInv, BaseInv', NEW e \in Ends,
           RunClose(e) \/ OnReadFailed(e) \/ OnWriteFailed(e) \/ OnWriteValidationFailed(e)
           \/ Break
    PROVE  IInv'
<1>a. BaseInv /\ TypeOK /\ TypeOK'
  BY DEF IInv, BaseInv, LoopInv
<1>b. /\ ran \in [Ends -> Nat]
      /\ writing \in [Ends -> {"none", "header", "body", "failing"}]
      /\ reading \in [Ends -> {"none", "validation", "header", "body", "failing"}]
      /\ validating \in [Ends -> {"none", "pending", "failing"}]
  BY <1>a DEF TypeOK
<1>1. tcp' \notin {"connecting", "up"}
  BY <1>a, ClosedTcp
  DEF RunClose, OnReadFailed, OnWriteFailed, OnWriteValidationFailed, Break
<1>2. CASE RunClose(e)
  <2>1. \A f \in Ends : ran[f] <= ran'[f]
    BY <1>b, <1>2 DEF RunClose
  <2> QED
    BY <1>1, <1>2, <2>1, GaveUp DEF RunClose
<1>3. CASE OnWriteFailed(e)
  <2>1. \A f \in Ends : writing'[f] = writing[f] \/ writing'[f] = "none"
    BY <1>b, <1>3 DEF OnWriteFailed
  <2>2. \A f \in Ends : ran[f] <= ran'[f]
    BY <1>b, <1>3 DEF OnWriteFailed
  <2> QED
    BY <1>1, <1>3, <2>1, <2>2, GaveUp DEF OnWriteFailed
<1>4. CASE OnReadFailed(e)
  <2>1. /\ reading'[e] = "none" /\ reading[e] # "none" /\ UNCHANGED <<validating, stage>>
        /\ \A f \in Ends : f # e => reading'[f] = reading[f]
    BY <1>b, <1>4 DEF OnReadFailed
  <2>2. e = "client" => validating'[e] = "none"
    BY <2>1 DEF IInv, Setup, Answering
  <2>3. stage'[e] \notin {"idle", "dialling"}
    BY <1>a, <2>1 DEF BaseInv, LoopInv, LoopsOK, Idle
  <2>4. ReadPhase(e)' = "ended"
    BY <2>1, <2>2, <2>3, NextPhaseFacts
  <2>5. \A f \in Ends : ran[f] <= ran'[f]
    BY <1>b, <1>4 DEF OnReadFailed
  <2> QED
    BY <1>1, <1>4, <2>1, <2>2, <2>4, <2>5, GaveUp DEF OnReadFailed
<1>5. CASE OnWriteValidationFailed(e)
  <2>1. /\ validating'[e] = "none" /\ validating[e] # "none" /\ UNCHANGED <<reading, stage>>
        /\ \A f \in Ends : f # e => validating'[f] = validating[f]
    BY <1>b, <1>5 DEF OnWriteValidationFailed
  <2>2. \A f \in Ends : ran[f] <= ran'[f]
    BY <1>b, <1>5 DEF OnWriteValidationFailed
  <2>3. CASE e = "client"
    <3>1. reading'[e] = "none"
      BY <2>1, <2>3 DEF IInv, Setup, Answering
    <3>2. stage'[e] \notin {"idle", "dialling"}
      BY <1>a, <2>1 DEF BaseInv, LoopInv, LoopsOK, Idle
    <3>3. ReadPhase(e)' = "ended"
      BY <2>1, <3>1, <3>2, NextPhaseFacts
    <3> QED
      BY <1>1, <1>5, <2>1, <2>2, <2>3, <3>1, <3>3, GaveUp DEF OnWriteValidationFailed
  <2>4. CASE e # "client"
    BY <1>1, <1>5, <2>1, <2>2, <2>4, GaveUp DEF OnWriteValidationFailed
  <2> QED
    BY <2>3, <2>4
<1>6. CASE Break
  <2>1. \A f \in Ends : ran[f] <= ran'[f]
    BY <1>b, <1>6 DEF Break
  <2> QED
    BY <1>1, <1>6, <2>1, GaveUp DEF Break
<1> QED
  BY <1>2, <1>3, <1>4, <1>5, <1>6

\* What is lost is lost at the end of the stream.
LEMMA OrderLoseTail ==
    ASSUME IInv, BaseInv', NEW e \in Ends, LoseTail(e) PROVE IInv'
<1>a. BaseInv /\ TypeOK /\ TypeOK'
  BY DEF IInv, BaseInv, LoopInv
<1>1. /\ wire'[e] = SubSeq(wire[e], 1, Len(wire[e]) - 1) /\ wire[e] # <<>>
      /\ \A f \in Ends : f # e => wire'[f] = wire[f]
      /\ tcp = "down" /\ tcp' = tcp
      /\ UNCHANGED <<socket, stage, posted, ran, closeTask, qOut, writing, validating,
                     reading, received, handshakeOut>>
  BY <1>a DEF LoseTail, TypeOK
<1>b. \A f \in Ends : ran[f] \in Nat /\ ran[f] <= ran'[f]
  BY <1>a, <1>1 DEF TypeOK
<1>2. \A f \in Ends : /\ ReadPhase(f)' = ReadPhase(f)
                      /\ NextRead(f)' = NextRead(f)
                      /\ AtHandshake(f)' <=> AtHandshake(f)
  BY <1>1, ReaderSame
<1>3. ASSUME NEW f \in Ends PROVE Arrived(f)'
  <2>1. Arrived(f) /\ Peer(f) \in Ends
    BY PeerFacts DEF IInv
  <2> QED
    BY <1>a, <1>b, <1>1, <1>2, <2>1, ArrivedKept
<1>4. ASSUME NEW f \in Ends PROVE Stream(f)'
  <2>1. Stream(f) /\ wire[f] \in Seq(Unit) /\ ran[f] \in Nat /\ Peer(f) \in Ends
    BY <1>a, PeerFacts DEF IInv, TypeOK
  <2>2. CASE f = e
    <3>1. Chained(wire'[f], ran[f])
      BY <1>1, <2>1, <2>2, Losing DEF Stream
    <3>2. ReadPhase(Peer(f)) # "ended" => Begins(wire'[f], NextRead(Peer(f)))
      BY <1>1, <2>1, <2>2, Losing DEF Stream
    <3> QED
      BY <1>1, <1>2, <2>1, <3>1, <3>2 DEF Stream
  <2>3. CASE f # e
    BY <1>1, <1>2, <2>1, <2>3 DEF Stream
  <2> QED
    BY <2>2, <2>3
<1>5. \A f \in Ends : LinkUp(f)'
  BY <1>1 DEF LinkUp
<1>6. Setup'
  <2>1. Setup /\ (stage["server"] = "idle" => wire["client"] = <<>>)
    BY DEF IInv, Setup, Waiting
  <2>2. Waiting'
    BY <1>1, <1>2, <2>1, TwoEnds DEF Setup, Waiting
  <2>3. Answering' /\ Connecting' /\ Silent' /\ Closing'
    BY <1>1, <2>1 DEF Setup, Answering, Connecting, Silent, Closing
  <2> QED
    BY <2>2, <2>3 DEF Setup
<1> QED
  BY <1>3, <1>4, <1>5, <1>6 DEF IInv

(***************************************************************************)
(* The tasks an application posts.                                         *)
(***************************************************************************)
LEMMA DirectionsSame ==
    ASSUME UNCHANGED <<tcp, wire, socket, stage, ran, qOut, writing, validating,
                       reading, received, handshakeOut>>,
           \A e \in Ends : Arrived(e) /\ LinkUp(e) /\ Stream(e)
    PROVE  \A e \in Ends : Arrived(e)' /\ LinkUp(e)' /\ Stream(e)'
<1> TAKE e \in Ends
<1>1. /\ ReadPhase(e)' = ReadPhase(e)
      /\ ReadPhase(Peer(e))' = ReadPhase(Peer(e))
      /\ NextRead(Peer(e))' = NextRead(Peer(e))
      /\ AtHandshake(e)' <=> AtHandshake(e)
  BY PeerFacts, ReaderSame
<1>2. NextWrite(e)' = NextWrite(e)
  BY <1>1, WriterSame
<1>3. Arrived(e)'
  BY <1>1 DEF Arrived, InboxInOrder, BodyPending, Listening
<1>4. LinkUp(e)'
  BY <1>1 DEF LinkUp, QueueInOrder
<1>5. Stream(e)'
  BY <1>1, <1>2 DEF Stream
<1> QED
  BY <1>3, <1>4, <1>5

LEMMA OrderPost == ASSUME IInv, BaseInv', Post PROVE IInv'
<1>a. BaseInv /\ TypeOK
  BY DEF IInv, BaseInv, LoopInv
<1>1. UNCHANGED <<tcp, wire, socket, stage, ran, qOut, writing, validating,
                  reading, received, handshakeOut>>
  BY DEF Post, Send, Disconnect
<1>2. \A e \in Ends : Arrived(e)' /\ LinkUp(e)' /\ Stream(e)'
  BY <1>1, DirectionsSame DEF IInv
<1>3. Setup
  BY DEF IInv
<1>4. Waiting' /\ Answering' /\ Connecting'
  <2>1. Waiting /\ Answering /\ Connecting
    BY <1>3 DEF Setup
  <2>2. ReadPhase("client")' = ReadPhase("client") /\ (AtHandshake("client")' <=> AtHandshake("client"))
    BY <1>1, ReaderSame, TwoEnds
  <2> QED
    BY <1>1, <2>1, <2>2 DEF Waiting, Answering, Connecting
<1>5. Silent' /\ Closing'
  <2>1. Silent /\ Closing
    BY <1>3 DEF Setup
  <2>2. /\ posted \in [Ends -> Nat] /\ closeTask \in [Ends -> Nat]
        /\ ran["client"] \in Nat /\ posted["client"] \in Nat
        /\ ran["client"] <= posted["client"]
    BY <1>a, TwoEnds DEF TypeOK, BaseInv, LoopInv, LoopsOK, TasksInOrder
  <2>3. CASE Disconnect
    <3>1. /\ closeTask["client"] = 0
          /\ posted'["client"] = posted["client"] + 1
          /\ closeTask'["client"] = posted["client"] + 1
      BY <2>2, <2>3, TwoEnds DEF Disconnect
    <3>2. Silent'
      BY <1>1, <2>1, <3>1 DEF Silent
    <3> QED
      BY <1>1, <2>2, <3>1, <3>2 DEF Closing
  <2>4. CASE Send("client")
    <3>1. Len(inbox["client"]) >= 1 + Welcome /\ UNCHANGED closeTask
      BY <2>4 DEF Send
    <3>2. inbox["client"] # <<>>
      BY <3>1, ConnectionAssumption
    <3> QED
      BY <1>1, <2>1, <3>1, <3>2 DEF Silent, Closing
  <2>5. CASE Send("server")
    <3>1. posted'["client"] = posted["client"] /\ UNCHANGED closeTask
      BY <2>2, <2>5, TwoEnds DEF Send
    <3> QED
      BY <1>1, <2>1, <3>1 DEF Silent, Closing
  <2> QED
    BY <2>3, <2>4, <2>5, TwoEnds DEF Post
<1> QED
  BY <1>2, <1>4, <1>5 DEF IInv, Setup

LEMMA OrderRunSend == ASSUME IInv, BaseInv', NEW e \in Ends, RunSend(e) PROVE IInv'
<1>a. BaseInv /\ TypeOK /\ Setup /\ LoopsOK(e) /\ LinkUp(e)
  BY DEF IInv, BaseInv, LoopInv
<1> DEFINE n == ran[e] + 1
           q == qOut[e]
<1>b. /\ ran[e] \in Nat /\ posted[e] \in Nat /\ closeTask[e] \in Nat
      /\ ran \in [Ends -> Nat] /\ qOut \in [Ends -> Seq(Nat)] /\ q \in Seq(Nat)
      /\ wire \in [Ends -> Seq(Unit)]
      /\ writing \in [Ends -> {"none", "header", "body", "failing"}]
      /\ n \in Nat /\ n > 0
  BY <1>a DEF TypeOK
<1>1. ran[e] < posted[e] /\ n # closeTask[e]
  BY DEF RunSend
<1>2. stage[e] # "idle"
  BY <1>a, <1>b, <1>1 DEF LoopsOK, Idle
<1>3. e = "client" => inbox["client"] # <<>>
  BY <1>a, <1>b, <1>1 DEF Setup, Silent
<1>4. UNCHANGED <<tcp, socket, stage, posted, closeTask, validating, reading,
                  received, handshakeOut>>
  BY DEF RunSend
<1>5. ran'[e] = n /\ qOut'[e] = Append(q, n)
  BY <1>b DEF RunSend
<1>c. ran[e] <= ran'[e]
  BY <1>b, <1>5
<1>6. \A f \in Ends : f # e => /\ wire'[f] = wire[f] /\ qOut'[f] = qOut[f]
                               /\ writing'[f] = writing[f] /\ ran'[f] = ran[f]
  BY <1>b DEF RunSend, mf_write_header, StartWrite, Transmit
<1>7. tcp = "up" => Usable(e) /\ QueueInOrder(e) /\ writing[e] # "failing"
  BY <1>a, <1>2 DEF LinkUp, Usable
<1>8. tcp = "up" => QueueInOrder(e)'
  <2>1. /\ Len(Append(q, n)) = Len(q) + 1 /\ Append(q, n)[Len(q) + 1] = n
        /\ \A i \in 1..Len(q) : Append(q, n)[i] = q[i]
        /\ Len(q) \in Nat
    BY <1>b
  <2>2. SUFFICES ASSUME tcp = "up" PROVE QueueInOrder(e)'
    OBVIOUS
  <2>3. Len(q) <= ran[e] /\ \A i \in 1..Len(q) : q[i] = ran[e] - Len(q) + i
    BY <1>7, <2>2 DEF QueueInOrder
  <2> HIDE DEF q
  <2>4. \A i \in 1..(Len(q) + 1) : Append(q, n)[i] = n - (Len(q) + 1) + i
    BY <1>b, <2>1, <2>3
  <2> QED
    BY <1>5, <1>b, <2>1, <2>3, <2>4 DEF QueueInOrder
<1>9. Closing'
  <2>1. Closing /\ TwoEnds
    BY <1>a, TwoEnds DEF Setup
  <2>2. CASE e = "client"
    BY <1>b, <1>1, <1>4, <1>5, <2>1, <2>2 DEF Closing
  <2>3. CASE e # "client"
    BY <1>4, <1>6, <2>1, <2>3, TwoEnds DEF Closing
  <2> QED
    BY <2>2, <2>3
<1>10. ~WordPending(e) /\ ~WordPending(e)'
  <2>1. ~WordPending(e)
    BY <1>2, <1>3, Sending
  <2> QED
    BY <1>4, <2>1 DEF WordPending, AtHandshake
<1>11. CASE q = <<>>
  <2>1. mf_write_header(e, n) /\ writing[e] = "none"
    BY <1>11, <1>a DEF RunSend, LoopsOK, WriteLoop
  <2>2. Header(n) \in Unit /\ Header(n).n = n
    BY <1>b, UnitFacts
  <2>3. wire'[e] = IF tcp = "up" THEN Append(wire[e], Header(n)) ELSE wire[e]
    BY <1>b, <1>7, <2>1 DEF mf_write_header, StartWrite, Transmit, Usable
  <2>4. tcp = "up" => writing'[e] = "header"
    BY <1>b, <1>7, <2>1 DEF mf_write_header, StartWrite, Header
  <2>5. Head(qOut'[e]) = n
    BY <1>b, <1>5, <1>11
  <2>6. tcp = "up" => NextWrite(e) = Header(n) /\ NextWrite(e)' = Succ(Header(n))
    BY <1>10, <2>1, <2>4, <2>5 DEF NextWrite, Succ, Header, Body
  <2>7. Wrote(e, Header(n))
    BY <1>b, <1>5, <2>2, <2>3, <2>6 DEF Wrote
  <2>8. tcp = "up" => QueueInOrder(e)' /\ writing'[e] # "failing"
    BY <1>8, <2>4
  <2> HIDE DEF q, n
  <2> QED
    BY <1>c, <1>2, <1>3, <1>4, <1>6, <1>9, <2>2, <2>7, <2>8, WriterStep
<1>12. CASE q # <<>>
  <2>1. wire' = wire /\ writing' = writing
    BY <1>12 DEF RunSend
  <2>2. Head(qOut'[e]) = Head(q)
    BY <1>b, <1>5, <1>12
  <2>3. tcp = "up" => writing[e] \in {"header", "body"}
    BY <1>a, <1>b, <1>7, <1>12 DEF LoopsOK, WriteLoop, Usable
  <2>4. tcp = "up" => NextWrite(e)' = NextWrite(e)
    BY <1>10, <2>1, <2>2, <2>3 DEF NextWrite, Succ, Header, Body
  <2>5. WroteNothing(e)
    BY <2>1, <2>4 DEF WroteNothing
  <2>6. tcp = "up" => QueueInOrder(e)' /\ writing'[e] # "failing"
    BY <1>7, <1>8, <2>1
  <2> HIDE DEF q, n
  <2> QED
    BY <1>c, <1>2, <1>3, <1>4, <1>6, <1>9, <2>5, <2>6, WriterStep
<1> QED
  BY <1>11, <1>12

(***************************************************************************)
(* The write loop goes on.                                                 *)
(***************************************************************************)
\* Where e is while one of its messages is being written.
LEMMA MidWrite ==
    ASSUME IInv, NEW e \in Ends, writing[e] \in {"header", "body"}
    PROVE  /\ qOut[e] # <<>> /\ qOut[e] \in Seq(Nat) /\ ran[e] \in Nat
           /\ Head(qOut[e]) \in Nat
           /\ stage[e] # "idle"
           /\ e = "client" => inbox["client"] # <<>>
           /\ ~WordPending(e)
           /\ tcp = "up" => Usable(e) /\ QueueInOrder(e)
<1>1. BaseInv /\ TypeOK /\ Setup /\ LoopsOK(e) /\ LinkUp(e)
  BY DEF IInv, BaseInv, LoopInv
<1>2. qOut[e] # <<>> /\ stage[e] # "idle"
  BY <1>1 DEF LoopsOK, WriteLoop, Idle
<1>3. qOut[e] \in Seq(Nat) /\ ran[e] \in Nat
  BY <1>1 DEF TypeOK
<1>4. Head(qOut[e]) \in Nat
  BY <1>2, <1>3, HeadType
<1>5. e = "client" => inbox["client"] # <<>>
  BY <1>1, <1>2 DEF Setup, Silent
<1>6. ~WordPending(e)
  BY <1>2, <1>5, Sending
<1>7. tcp = "up" => Usable(e) /\ QueueInOrder(e)
  BY <1>1, <1>2 DEF LinkUp, Usable
<1> QED
  BY <1>2, <1>3, <1>4, <1>5, <1>6, <1>7

\* The queue without its first message.
LEMMA QueueTail ==
    ASSUME NEW q \in Seq(Nat), q # <<>>, NEW m \in Nat, Len(q) <= m,
           \A i \in 1..Len(q) : q[i] = m - Len(q) + i
    PROVE  /\ Len(Tail(q)) <= m
           /\ \A i \in 1..Len(Tail(q)) : Tail(q)[i] = m - Len(Tail(q)) + i
           /\ Head(q) \in 1..m
           /\ Tail(q) # <<>> => Head(Tail(q)) = Head(q) + 1 /\ Head(Tail(q)) \in 1..m
           /\ Tail(q) = <<>> => Head(q) = m
<1> DEFINE t == Tail(q)
<1>1. /\ Len(q) \in Nat \ {0} /\ Len(t) = Len(q) - 1 /\ Len(t) \in Nat
      /\ \A i \in 1..Len(t) : t[i] = q[i + 1]
      /\ t = <<>> <=> Len(t) = 0
  BY HeadTailProperties, EmptySeq, LenProperties
<1>h. Head(q) = q[1] /\ (t # <<>> => Head(t) = t[1])
  <2>1. t \in Seq(Nat)
    OBVIOUS
  <2> HIDE DEF t
  <2> QED
    BY <2>1, HeadTailProperties
<1> HIDE DEF t
<1>2. \A i \in 1..Len(t) : t[i] = m - Len(t) + i
  BY <1>1
<1>3. Head(q) = m - Len(q) + 1 /\ Head(q) \in 1..m
  BY <1>1, <1>h
<1>4. ASSUME t # <<>> PROVE Head(t) = Head(q) + 1 /\ Head(t) \in 1..m
  <2>1. Len(t) > 0
    BY <1>1, <1>4
  <2>2. Head(t) = m - Len(t) + 1
    BY <1>h, <1>2, <1>4, <2>1
  <2> QED
    BY <1>1, <1>3, <2>1, <2>2
<1>5. ASSUME t = <<>> PROVE Head(q) = m
  <2>1. Len(q) = 1
    BY <1>1, <1>5
  <2> QED
    BY <1>3, <2>1
<1>6. Len(t) <= m
  BY <1>1
<1> QED
  BY <1>2, <1>3, <1>4, <1>5, <1>6 DEF t

LEMMA OrderPop ==
    ASSUME IInv, BaseInv', NEW e \in Ends, writing[e] \in {"header", "body"},
           PopAndContinue(e),
           tcp = "up" => NextWrite(e) = Header(Head(qOut[e]) + 1),
           UNCHANGED <<tcp, socket, stage, tasks, validating, reading, received, handshakeOut>>
    PROVE  IInv'
<1> DEFINE q == qOut[e]
           n == Head(Tail(q))
<1>a. /\ q # <<>> /\ q \in Seq(Nat) /\ ran[e] \in Nat /\ stage[e] # "idle"
      /\ e = "client" => inbox["client"] # <<>>
      /\ ~WordPending(e)
      /\ tcp = "up" => Usable(e) /\ QueueInOrder(e)
  BY MidWrite
<1>b. /\ TypeOK /\ Setup /\ qOut \in [Ends -> Seq(Nat)] /\ wire \in [Ends -> Seq(Unit)]
      /\ writing \in [Ends -> {"none", "header", "body", "failing"}]
  BY DEF IInv, BaseInv, LoopInv, TypeOK
<1>1. qOut'[e] = Tail(q)
  BY <1>b DEF PopAndContinue
<1>2. \A f \in Ends : f # e => /\ wire'[f] = wire[f] /\ qOut'[f] = qOut[f]
                               /\ writing'[f] = writing[f] /\ ran'[f] = ran[f]
  BY <1>b DEF PopAndContinue, mf_write_header, StartWrite, Transmit
<1>3. tcp = "up" => /\ QueueInOrder(e)'
                    /\ Tail(q) # <<>> => n = Head(q) + 1 /\ n \in 1..ran[e]
                    /\ Tail(q) = <<>> => Head(q) = ran[e]
  BY <1>a, <1>1, QueueTail DEF QueueInOrder
<1>4. ~WordPending(e)'
  BY <1>a DEF WordPending, AtHandshake
<1>5. Closing' /\ ran[e] <= ran'[e]
  BY <1>a, <1>b DEF Setup, Closing
<1>6. CASE Tail(q) # <<>>
  <2>1. n \in Nat
    BY <1>a, <1>6, HeadType
  <2>2. Header(n) \in Unit /\ Header(n).n = n
    BY <2>1, UnitFacts
  <2>3. mf_write_header(e, n)
    BY <1>6 DEF PopAndContinue
  <2>4. wire'[e] = IF tcp = "up" THEN Append(wire[e], Header(n)) ELSE wire[e]
    BY <1>a, <1>b, <2>3 DEF mf_write_header, StartWrite, Transmit, Usable
  <2>5. tcp = "up" => writing'[e] = "header"
    BY <1>a, <1>b, <2>3 DEF mf_write_header, StartWrite, Header
  <2>6. tcp = "up" => NextWrite(e)' = Succ(Header(n))
    BY <1>1, <1>4, <2>5 DEF NextWrite, Succ, Header, Body
  <2>7. Wrote(e, Header(n))
    BY <1>3, <1>6, <2>2, <2>4, <2>6 DEF Wrote
  <2>8. tcp = "up" => QueueInOrder(e)' /\ writing'[e] # "failing"
    BY <1>3, <2>5
  <2> HIDE DEF q, n
  <2> QED
    BY <1>a, <1>2, <1>5, <2>2, <2>7, <2>8, WriterStep
<1>7. CASE Tail(q) = <<>>
  <2>1. writing'[e] = "none" /\ wire' = wire
    BY <1>7, <1>b DEF PopAndContinue
  <2>2. tcp = "up" => NextWrite(e)' = NextWrite(e)
    BY <1>3, <1>4, <1>7, <2>1 DEF NextWrite
  <2>3. WroteNothing(e)
    BY <2>1, <2>2 DEF WroteNothing
  <2>4. tcp = "up" => QueueInOrder(e)' /\ writing'[e] # "failing"
    BY <1>3, <2>1
  <2> HIDE DEF q, n
  <2> QED
    BY <1>a, <1>2, <1>5, <2>3, <2>4, WriterStep
<1> QED
  BY <1>6, <1>7

LEMMA OrderWriteBody == ASSUME IInv, BaseInv', NEW e \in Ends, OnWriteBody(e) PROVE IInv'
<1>1. writing[e] = "body" /\ PopAndContinue(e)
  BY DEF OnWriteBody
<1>2. NextWrite(e) = Header(Head(qOut[e]) + 1)
  BY <1>1, MidWrite DEF NextWrite
<1> QED
  BY <1>1, <1>2, OrderPop DEF OnWriteBody

LEMMA OrderWriteHeader == ASSUME IInv, BaseInv', NEW e \in Ends, OnWriteHeader(e) PROVE IInv'
<1> DEFINE h == Head(qOut[e])
<1>a. /\ writing[e] = "header" /\ qOut[e] # <<>> /\ qOut[e] \in Seq(Nat) /\ ran[e] \in Nat
      /\ stage[e] # "idle" /\ h \in Nat
      /\ e = "client" => inbox["client"] # <<>>
      /\ ~WordPending(e)
      /\ tcp = "up" => Usable(e) /\ QueueInOrder(e)
  BY MidWrite DEF OnWriteHeader
<1>b. /\ TypeOK /\ Setup /\ qOut \in [Ends -> Seq(Nat)] /\ wire \in [Ends -> Seq(Unit)]
      /\ writing \in [Ends -> {"none", "header", "body", "failing"}]
  BY DEF IInv, BaseInv, LoopInv, TypeOK
<1>1. NextWrite(e) = Succ(Header(h))
  BY <1>a DEF NextWrite
<1>2. CASE h \notin WithBody
  <2>1. NextWrite(e) = Header(h + 1)
    BY <1>1, <1>2 DEF Succ, Header, Body
  <2> QED
    BY <1>2, <1>a, <2>1, OrderPop DEF OnWriteHeader
<1>3. CASE h \in WithBody
  <2>1. mf_write_body(e, h) /\ qOut' = qOut
    BY <1>3 DEF OnWriteHeader
  <2>2. Body(h) \in Unit /\ Body(h).n = h
    BY <1>a, UnitFacts
  <2>3. wire'[e] = IF tcp = "up" THEN Append(wire[e], Body(h)) ELSE wire[e]
    BY <1>a, <1>b, <2>1 DEF mf_write_body, StartWrite, Transmit, Usable
  <2>4. tcp = "up" => writing'[e] = "body"
    BY <1>a, <1>b, <2>1 DEF mf_write_body, StartWrite, Body
  <2>5. UNCHANGED <<tcp, socket, stage, posted, ran, closeTask, validating, reading,
                    received, handshakeOut>>
    BY DEF OnWriteHeader
  <2>6. ~WordPending(e)'
    BY <1>a, <2>5 DEF WordPending, AtHandshake
  <2>7. NextWrite(e) = Body(h)
    BY <1>1, <1>3 DEF Succ, Header, Body
  <2>8. tcp = "up" => NextWrite(e)' = Succ(Body(h))
    BY <2>1, <2>4, <2>6 DEF NextWrite, Succ, Body
  <2>9. tcp = "up" => h \in 1..ran[e]
    BY <1>a, QueueTail DEF QueueInOrder
  <2>10. Wrote(e, Body(h))
    BY <2>2, <2>3, <2>5, <2>7, <2>8, <2>9 DEF Wrote
  <2>11. tcp = "up" => QueueInOrder(e)' /\ writing'[e] # "failing"
    BY <1>a, <2>1, <2>4, <2>5 DEF QueueInOrder
  <2>12. \A f \in Ends : f # e => /\ wire'[f] = wire[f] /\ qOut'[f] = qOut[f]
                                  /\ writing'[f] = writing[f] /\ ran'[f] = ran[f]
    BY <1>b, <2>1, <2>5 DEF mf_write_body, StartWrite, Transmit
  <2>13. Closing' /\ ran[e] <= ran'[e]
    BY <1>a, <1>b, <2>5 DEF Setup, Closing
  <2> HIDE DEF h
  <2> QED
    BY <1>a, <2>2, <2>5, <2>10, <2>11, <2>12, <2>13, WriterStep
<1> QED
  BY <1>2, <1>3

(***************************************************************************)
(* Steps of the read loop: e takes the unit it has been waiting for.       *)
(***************************************************************************)
LEMMA ReaderStep ==
    ASSUME IInv, BaseInv', NEW e \in Ends,
           reading[e] \in {"validation", "header", "body"},
           reading[e] = "validation" => e = "server",
           wire[Peer(e)] # <<>>,
           wire' = [wire EXCEPT ![Peer(e)] = Tail(@)],
           UNCHANGED <<tcp, socket, stage, ran, closeTask, qOut, writing, validating,
                       handshakeOut>>,
           posted'["client"] = posted["client"],
           \A f \in Ends : f # e => /\ reading'[f] = reading[f]
                                    /\ inbox'[f] = inbox[f] /\ tempIn'[f] = tempIn[f],
           inbox'[e] = <<>> => inbox[e] = <<>>,
           Arrived(e)',
           \/ reading'[e] = "failing" /\ socket[e] # "open"
           \/ /\ reading'[e] \in {"header", "body"}
              /\ NextRead(e)' = Succ(NextRead(e))
    PROVE  IInv'
<1> DEFINE w == Peer(e)
<1>a. BaseInv /\ TypeOK /\ TypeOK' /\ Setup /\ Idle(e)
  BY DEF IInv, BaseInv, LoopInv, LoopsOK
<1>b. /\ wire \in [Ends -> Seq(Unit)] /\ w \in Ends /\ w # e /\ Peer(w) = e
      /\ \A f \in Ends : f = e \/ f = w
      /\ \A f \in Ends : ran[f] \in Nat
  <2>1. w \in Ends /\ w # e /\ Peer(w) = e /\ \A f \in Ends : f = e \/ f = w
    BY PeerFacts, TwoEnds
  <2> QED
    BY <1>a, <2>1 DEF TypeOK
<1>1. wire'[w] = Tail(wire[w]) /\ wire'[e] = wire[e]
  BY <1>b
<1>2. stage[e] \notin {"idle", "dialling"} /\ stage'[e] \notin {"idle", "dialling"}
  BY <1>a DEF Idle
<1>3. /\ ReadPhase(e) # "ended"
      /\ reading[e] # "validation" => ReadPhase(e) = "flowing"
      /\ reading'[e] = "failing" => ReadPhase(e)' = "ended"
      /\ reading'[e] # "failing" => ReadPhase(e)' = "flowing"
  BY <1>a, <1>2, PhaseFacts, NextPhaseFacts
<1>4. /\ ReadPhase(w)' = ReadPhase(w) /\ NextRead(w)' = NextRead(w)
      /\ AtHandshake(w)' <=> AtHandshake(w)
  BY <1>b, ReaderSame
<1>5. e = "client" => ~AtHandshake(e) /\ ~AtHandshake(e)'
  BY <1>2 DEF AtHandshake
<1>6. ASSUME NEW f \in Ends PROVE NextWrite(f)' = NextWrite(f)
  <2>1. f = "client" => (AtHandshake(f)' <=> AtHandshake(f))
    BY <1>b, <1>4, <1>5
  <2> HIDE DEF w
  <2> QED
    BY <2>1, WriterSame
<1>7. Arrived(w)'
  <2>1. Arrived(w) /\ ran[e] <= ran'[e]
    BY <1>b DEF IInv
  <2> QED
    BY <1>a, <1>b, <1>4, <2>1, ArrivedKept
<1>8. tcp = "up" => socket[e] = "open"
  BY <1>2 DEF IInv, LinkUp
<1>9. LinkUp(e)' /\ LinkUp(w)'
  <2>1. LinkUp(e) /\ LinkUp(w)
    BY <1>b DEF IInv
  <2>2. LinkUp(e)'
    BY <1>3, <1>8, <2>1 DEF LinkUp, QueueInOrder
  <2>3. LinkUp(w)'
    BY <1>4, <2>1 DEF LinkUp, QueueInOrder
  <2> QED
    BY <2>2, <2>3
<1>10. Stream(w)'
  <2>1. Stream(w)
    BY <1>b DEF IInv
  <2>2. StaysUp(w)
    BY <1>b, <1>3, <1>8 DEF StaysUp
  <2>3. \/ ReadPhase(Peer(w))' = "ended"
        \/ NextRead(Peer(w))' = Succ(NextRead(Peer(w)))
    BY <1>b, <1>3
  <2>4. NextWrite(w)' = NextWrite(w) /\ ran'[w] = ran[w]
    BY <1>b, <1>6
  <2>5. wire[w] # <<>> /\ ReadPhase(Peer(w)) # "ended"
    BY <1>b, <1>3
  <2> HIDE DEF w
  <2> QED
    BY <1>a, <1>b, <1>1, <2>1, <2>2, <2>3, <2>4, <2>5, StreamRead
<1>11. Stream(e)'
  <2>1. Stream(e) /\ LinkUp(w)
    BY <1>b DEF IInv
  <2>2. StaysUp(e) /\ ReaderKeeps(e)
    BY <1>4, <2>1 DEF StaysUp, ReaderKeeps, LinkUp
  <2>3. NextWrite(e)' = NextWrite(e) /\ ran[e] <= ran'[e]
    BY <1>b, <1>6
  <2> QED
    BY <1>a, <1>1, <2>1, <2>2, <2>3, StreamKept
<1>12. Setup'
  <2>1. Waiting'
    <3>1. stage["server"] # "idle"
      <4>1. CASE e = "server"
        BY <1>2, <4>1
      <4>2. CASE e = "client"
        <5>1. ReadPhase("client") = "flowing"
          BY <1>3, <4>2
        <5> QED
          BY <1>a, <1>5, <4>2, <5>1 DEF Setup, Waiting
      <4> QED
        BY <4>1, <4>2, TwoEnds
    <3> QED
      BY <3>1 DEF Waiting
  <2>2. Answering'
    BY <1>a, <1>b, TwoEnds DEF Setup, Answering
  <2>3. Silent'
    <3>1. inbox'["client"] = <<>> => inbox["client"] = <<>>
      BY TwoEnds
    <3> QED
      BY <1>a, <3>1 DEF Setup, Silent
  <2>4. Connecting' /\ Closing'
    BY <1>a DEF Setup, Connecting, Closing
  <2> QED
    BY <2>1, <2>2, <2>3, <2>4 DEF Setup
<1> QED
  BY <1>b, <1>7, <1>9, <1>10, <1>11, <1>12 DEF IInv

\* A message is added at the end.
LEMMA InboxGrows ==
    ASSUME NEW s \in Seq(Nat), \A i \in 1..Len(s) : s[i] = i,
           NEW n \in Nat, n = Len(s) + 1
    PROVE  LET t == Append(s, n)
           IN t # <<>> /\ Len(t) = n /\ \A i \in 1..Len(t) : t[i] = i
<1> DEFINE t == Append(s, n)
<1>1. /\ t # <<>> /\ Len(t) = Len(s) + 1 /\ Len(s) \in Nat
      /\ t[Len(s) + 1] = n /\ \A i \in 1..Len(s) : t[i] = s[i]
  OBVIOUS
<1> HIDE DEF t
<1>2. \A i \in 1..Len(t) : t[i] = i
  BY <1>1
<1> QED
  BY <1>1, <1>2 DEF t

\* What the reader finds first is the unit it needs, of a message that was sent.
LEMMA FirstUnit ==
    ASSUME IInv, NEW e \in Ends, wire[Peer(e)] # <<>>, ReadPhase(e) # "ended"
    PROVE  /\ Head(wire[Peer(e)]) = NextRead(e)
           /\ NextRead(e).kind # "validation" => NextRead(e).n \in 1..ran[Peer(e)]
<1> DEFINE s == wire[Peer(e)]
<1>1. s \in Seq(Unit) /\ Peer(e) \in Ends /\ Peer(Peer(e)) = e
  BY PeerFacts, TwoEnds DEF IInv, BaseInv, LoopInv, TypeOK
<1>2. Head(s) = s[1] /\ 1 \in 1..Len(s)
  BY <1>1
<1>3. Stream(Peer(e))
  BY <1>1 DEF IInv
<1>4. s[1] = NextRead(e)
  BY <1>1, <1>3 DEF Stream, Begins
<1> HIDE DEF s
<1>5. Chained(s, ran[Peer(e)])
  BY <1>3 DEF Stream, s
<1> QED
  BY <1>2, <1>4, <1>5 DEF Chained, s

LEMMA OrderReadHeader == ASSUME IInv, BaseInv', NEW e \in Ends, OnReadHeader(e) PROVE IInv'
<1> DEFINE w == Peer(e)
           n == Len(inbox[e]) + 1
<1>a. BaseInv /\ TypeOK /\ Idle(e) /\ Arrived(e)
  BY DEF IInv, BaseInv, LoopInv, LoopsOK
<1>b. /\ inbox \in [Ends -> Seq(Nat)] /\ tempIn \in [Ends -> Nat]
      /\ reading \in [Ends -> {"none", "validation", "header", "body", "failing"}]
      /\ inbox[e] \in Seq(Nat) /\ Len(inbox[e]) \in Nat /\ n \in Nat /\ n # 0
  BY <1>a DEF TypeOK
<1>1. /\ reading[e] = "header" /\ wire[w] # <<>>
      /\ wire' = [wire EXCEPT ![w] = Tail(@)]
      /\ UNCHANGED <<tcp, socket, stage, posted, ran, closeTask, qOut, writing, validating,
                     handshakeOut>>
  BY DEF OnReadHeader
<1>2. ReadPhase(e) = "flowing" /\ ~AtHandshake(e)
  BY <1>a, <1>1, PhaseFacts DEF AtHandshake, Idle
<1>3. NextRead(e) = Header(n)
  BY <1>1, <1>2 DEF NextRead
<1>4. Head(wire[w]).n = n /\ n \in 1..ran[w]
  <2>1. /\ Head(wire[w]) = NextRead(e)
        /\ NextRead(e).kind # "validation" => NextRead(e).n \in 1..ran[w]
    BY <1>1, <1>2, FirstUnit
  <2>2. Header(n).kind = "header" /\ Header(n).n = n
    BY UnitFacts
  <2> HIDE DEF n, w
  <2> QED
    BY <1>3, <2>1, <2>2
<1>5. tempIn'[e] = n /\ \A f \in Ends : f # e => tempIn'[f] = tempIn[f]
  BY <1>b, <1>4 DEF OnReadHeader
<1>6. stage'[e] \notin {"idle", "dialling"}
  BY <1>a, <1>1 DEF Idle
<1>7. CASE n \in WithBody
  <2>1. StartRead(e, "body") /\ inbox' = inbox
    BY <1>4, <1>7 DEF OnReadHeader
  <2>2. reading'[e] = IF socket[e] = "open" THEN "body" ELSE "failing"
    BY <1>b, <2>1 DEF StartRead
  <2>3. \A f \in Ends : f # e => reading'[f] = reading[f]
    BY <1>b, <2>1 DEF StartRead
  <2>4. reading'[e] = "body" => NextRead(e)' = Succ(NextRead(e))
    <3>1. Succ(Header(n)) = Body(n)
      BY <1>7 DEF Succ, Header, Body
    <3>2. ASSUME reading'[e] = "body" PROVE NextRead(e)' = Body(Len(inbox'[e]) + 1)
      BY <1>6, <3>2 DEF NextRead, AtHandshake
    <3> QED
      BY <1>3, <2>1, <3>1, <3>2
  <2>5. Arrived(e)'
    <3>1. InboxInOrder(e)'
      BY <1>a, <2>1 DEF Arrived, InboxInOrder
    <3>2. BodyPending(e)'
      BY <1>1, <1>4, <1>5, <2>1 DEF BodyPending
    <3>3. Listening(e)'
      BY <1>6, <2>2, NextPhaseFacts DEF Listening
    <3> QED
      BY <3>1, <3>2, <3>3 DEF Arrived
  <2>6. \/ reading'[e] = "failing" /\ socket[e] # "open"
        \/ reading'[e] \in {"header", "body"} /\ NextRead(e)' = Succ(NextRead(e))
    BY <2>2, <2>4
  <2> HIDE DEF n, w
  <2> QED
    BY <1>1, <1>5, <2>1, <2>3, <2>5, <2>6, ReaderStep DEF w
<1>8. CASE n \notin WithBody
  <2>1. mf_add_to_incomming_message_queue(e, n, tempBody[e])
    BY <1>4, <1>8 DEF OnReadHeader
  <2>2. reading'[e] = IF socket[e] = "open" THEN "header" ELSE "failing"
    BY <1>b, <2>1 DEF StartRead, mf_read_header, mf_add_to_incomming_message_queue
  <2>3. \A f \in Ends : f # e => reading'[f] = reading[f] /\ inbox'[f] = inbox[f]
    BY <1>a, <2>1, AddFrame
  <2>4. inbox'[e] = Append(inbox[e], n)
    BY <1>b, <2>1 DEF mf_add_to_incomming_message_queue
  <2>5. /\ inbox'[e] # <<>> /\ Len(inbox'[e]) = n
        /\ \A i \in 1..Len(inbox'[e]) : inbox'[e][i] = i
    BY <1>a, <1>b, <2>4, InboxGrows DEF Arrived, InboxInOrder
  <2>6. reading'[e] = "header" => NextRead(e)' = Succ(NextRead(e))
    <3>1. Succ(Header(n)) = Header(n + 1)
      BY <1>8 DEF Succ, Header, Body
    <3>2. ASSUME reading'[e] = "header" PROVE NextRead(e)' = Header(Len(inbox'[e]) + 1)
      BY <1>6, <3>2 DEF NextRead, AtHandshake
    <3> QED
      BY <1>3, <2>5, <3>1, <3>2
  <2>7. Arrived(e)'
    <3>1. InboxInOrder(e)'
      BY <2>5 DEF InboxInOrder
    <3>2. BodyPending(e)'
      BY <2>2 DEF BodyPending
    <3>3. Listening(e)'
      BY <1>6, <2>2, NextPhaseFacts DEF Listening
    <3> QED
      BY <3>1, <3>2, <3>3 DEF Arrived
  <2>8. \/ reading'[e] = "failing" /\ socket[e] # "open"
        \/ reading'[e] \in {"header", "body"} /\ NextRead(e)' = Succ(NextRead(e))
    BY <2>2, <2>6
  <2> HIDE DEF n, w
  <2> QED
    BY <1>1, <1>5, <2>3, <2>5, <2>7, <2>8, ReaderStep DEF w
<1> QED
  BY <1>7, <1>8

LEMMA OrderReadBody == ASSUME IInv, BaseInv', NEW e \in Ends, OnReadBody(e) PROVE IInv'
<1> DEFINE w == Peer(e)
           n == Len(inbox[e]) + 1
<1>a. BaseInv /\ TypeOK /\ Idle(e) /\ Arrived(e)
  BY DEF IInv, BaseInv, LoopInv, LoopsOK
<1>b. /\ inbox \in [Ends -> Seq(Nat)]
      /\ reading \in [Ends -> {"none", "validation", "header", "body", "failing"}]
      /\ inbox[e] \in Seq(Nat) /\ Len(inbox[e]) \in Nat /\ n \in Nat
  BY <1>a DEF TypeOK
<1>1. /\ reading[e] = "body" /\ wire[w] # <<>>
      /\ wire' = [wire EXCEPT ![w] = Tail(@)]
      /\ mf_add_to_incomming_message_queue(e, tempIn[e], tempIn[e])
      /\ UNCHANGED <<tcp, socket, stage, posted, ran, closeTask, qOut, writing, validating,
                     tempIn, handshakeOut>>
  BY DEF OnReadBody
<1>2. stage[e] \notin {"idle", "dialling"} /\ stage'[e] \notin {"idle", "dialling"}
  BY <1>a, <1>1 DEF Idle
<1>3. NextRead(e) = Body(n)
  BY <1>1, <1>2 DEF NextRead, AtHandshake
<1>4. tempIn[e] = n
  BY <1>a, <1>1 DEF Arrived, BodyPending
<1>5. reading'[e] = IF socket[e] = "open" THEN "header" ELSE "failing"
  BY <1>b, <1>1 DEF StartRead, mf_read_header, mf_add_to_incomming_message_queue
<1>6. \A f \in Ends : f # e => reading'[f] = reading[f] /\ inbox'[f] = inbox[f]
  BY <1>a, <1>1, AddFrame
<1>7. inbox'[e] = Append(inbox[e], n)
  BY <1>b, <1>1, <1>4 DEF mf_add_to_incomming_message_queue
<1>8. /\ inbox'[e] # <<>> /\ Len(inbox'[e]) = n
      /\ \A i \in 1..Len(inbox'[e]) : inbox'[e][i] = i
  BY <1>a, <1>b, <1>7, InboxGrows DEF Arrived, InboxInOrder
<1>9. reading'[e] = "header" => NextRead(e)' = Succ(NextRead(e))
  <2>1. Succ(Body(n)) = Header(n + 1)
    BY DEF Succ, Header, Body
  <2>2. ASSUME reading'[e] = "header" PROVE NextRead(e)' = Header(Len(inbox'[e]) + 1)
    BY <1>2, <2>2 DEF NextRead, AtHandshake
  <2> QED
    BY <1>3, <1>8, <2>1, <2>2
<1>10. Arrived(e)'
  <2>1. InboxInOrder(e)'
    BY <1>8 DEF InboxInOrder
  <2>2. BodyPending(e)'
    BY <1>5 DEF BodyPending
  <2>3. Listening(e)'
    BY <1>2, <1>5, NextPhaseFacts DEF Listening
  <2> QED
    BY <2>1, <2>2, <2>3 DEF Arrived
<1>11. \/ reading'[e] = "failing" /\ socket[e] # "open"
       \/ reading'[e] \in {"header", "body"} /\ NextRead(e)' = Succ(NextRead(e))
  BY <1>5, <1>9
<1> HIDE DEF n, w
<1> QED
  BY <1>1, <1>6, <1>8, <1>10, <1>11, ReaderStep DEF w

\* The answer is always the right one: the server never refuses a client that
\* scrambles as it does.
LEMMA OrderReadAnswer == ASSUME IInv, BaseInv', OnReadAnswer PROVE IInv'
<1> DEFINE e == "server"
<1>a. /\ BaseInv /\ TypeOK /\ Idle(e) /\ Arrived(e)
      /\ e \in Ends /\ Peer(e) = "client"
  BY TwoEnds, PeerFacts DEF IInv, BaseInv, LoopInv, LoopsOK
<1>b. /\ reading \in [Ends -> {"none", "validation", "header", "body", "failing"}]
      /\ posted \in [Ends -> Nat]
  BY <1>a DEF TypeOK
<1>1. /\ reading[e] = "validation" /\ wire["client"] # <<>>
      /\ wire' = [wire EXCEPT !["client"] = Tail(@)]
      /\ UNCHANGED <<stage, ran, closeTask, qOut, writing, validating, received, handshakeOut>>
  BY DEF OnReadAnswer
<1>2. ReadPhase(e) = "handshake" /\ AtHandshake(e)
  BY <1>a, <1>1, PhaseFacts DEF AtHandshake
<1>3. NextRead(e) = Word("client") /\ Word("client") = Validation(Scramble(handshakeOut["server"]))
  BY <1>a, <1>2 DEF NextRead, Word
<1>4. Head(wire["client"]) = Validation(Scramble(handshakeOut["server"]))
  BY <1>a, <1>1, <1>2, <1>3, FirstUnit
<1>5. /\ posted' = [posted EXCEPT !["server"] = @ + Welcome]
      /\ mf_read_header("server") /\ UNCHANGED <<tcp, socket>>
  BY <1>4 DEF OnReadAnswer
<1>6. posted'["client"] = posted["client"]
  BY <1>b, <1>5, TwoEnds
<1>7. /\ reading'[e] = IF socket[e] = "open" THEN "header" ELSE "failing"
      /\ \A f \in Ends : f # e => reading'[f] = reading[f]
  BY <1>a, <1>b, <1>5 DEF StartRead, mf_read_header
<1>8. stage'[e] \notin {"idle", "dialling"} /\ inbox[e] = <<>>
  BY <1>a, <1>1, <1>2 DEF Idle, Arrived, Listening
<1>9. reading'[e] = "header" => NextRead(e)' = Succ(NextRead(e))
  <2>1. \A x : Succ(Validation(x)) = Header(1)
    BY DEF Succ, Validation
  <2>2. ASSUME reading'[e] = "header" PROVE NextRead(e)' = Header(Len(inbox'[e]) + 1)
    BY <1>8, <2>2 DEF NextRead, AtHandshake
  <2>3. Len(inbox'[e]) + 1 = 1
    BY <1>1, <1>8
  <2> QED
    BY <1>3, <2>1, <2>2, <2>3
<1>10. Arrived(e)'
  <2>1. InboxInOrder(e)'
    BY <1>1, <1>8 DEF InboxInOrder
  <2>2. BodyPending(e)' /\ Listening(e)'
    BY <1>1, <1>7, <1>8 DEF BodyPending, Listening
  <2> QED
    BY <2>1, <2>2 DEF Arrived
<1>11. \/ reading'[e] = "failing" /\ socket[e] # "open"
       \/ reading'[e] \in {"header", "body"} /\ NextRead(e)' = Succ(NextRead(e))
  BY <1>7, <1>9
<1>12. wire[Peer(e)] # <<>> /\ wire' = [wire EXCEPT ![Peer(e)] = Tail(@)]
  BY <1>a, <1>1
<1>13. \A f \in Ends : f # e => /\ reading'[f] = reading[f]
                                /\ inbox'[f] = inbox[f] /\ tempIn'[f] = tempIn[f]
  BY <1>1, <1>7
<1>14. inbox'[e] = <<>> => inbox[e] = <<>>
  BY <1>8
<1>15. e \in Ends /\ reading[e] = "validation" /\ (reading[e] = "validation" => e = "server")
  BY <1>a, <1>1
<1> HIDE DEF e
<1> QED
  BY <1>1, <1>5, <1>6, <1>10, <1>11, <1>12, <1>13, <1>14, <1>15, ReaderStep

(***************************************************************************)
(* The client answers the challenge, and starts its read loop when the     *)
(* answer is written.                                                      *)
(***************************************************************************)
LEMMA OrderReadChallenge == ASSUME IInv, BaseInv', OnReadChallenge PROVE IInv'
<1> DEFINE word == Scramble(handshakeOut["server"])
<1>a. /\ BaseInv /\ TypeOK /\ TypeOK' /\ Setup
      /\ Idle("client") /\ Idle("server") /\ TasksInOrder("client") /\ WriteLoop("client")
      /\ Arrived("client") /\ Arrived("server") /\ LinkUp("client") /\ LinkUp("server")
      /\ Stream("client") /\ Stream("server")
  BY TwoEnds DEF IInv, BaseInv, LoopInv, LoopsOK
<1>b. /\ wire \in [Ends -> Seq(Unit)] /\ ran["client"] \in Nat /\ posted["client"] \in Nat
      /\ ran["server"] \in Nat /\ closeTask["client"] \in Nat
      /\ reading \in [Ends -> {"none", "validation", "header", "body", "failing"}]
      /\ validating \in [Ends -> {"none", "pending", "failing"}]
      /\ handshakeOut \in [Ends -> Words] /\ word \in Nat
  <2>1. handshakeOut["server"] \in Words
    BY <1>a, TwoEnds DEF TypeOK
  <2> QED
    BY <1>a, <2>1, TwoEnds, ConnectionAssumption DEF TypeOK
<1>1. /\ reading["client"] = "validation" /\ wire["server"] # <<>>
      /\ UNCHANGED <<tcp, socket, stage, posted, ran, closeTask, qOut, writing, received>>
  BY DEF OnReadChallenge
<1>2. /\ stage["client"] \notin {"idle", "dialling"} /\ stage["server"] # "idle"
      /\ AtHandshake("client") /\ ReadPhase("client") = "handshake"
      /\ inbox["client"] = <<>>
  BY <1>a, <1>1, PhaseFacts, TwoEnds DEF Idle, AtHandshake, Arrived, Listening
<1>3. tcp = "up" <=> Usable("client")
  BY <1>a, <1>2 DEF LinkUp, Usable
<1>4. NextRead("client") = Validation(handshakeOut["server"])
  BY <1>2, PeerFacts DEF NextRead, Word
<1>5. Head(wire["server"]).n = handshakeOut["server"]
  <2>1. Head(wire["server"]) = Validation(handshakeOut["server"])
    BY <1>1, <1>2, <1>4, FirstUnit, TwoEnds, PeerFacts
  <2> QED
    BY <2>1, UnitFacts
<1>6. /\ wire'["server"] = Tail(wire["server"])
      /\ wire'["client"] = IF tcp = "up" THEN Append(wire["client"], Validation(word))
                           ELSE wire["client"]
  BY <1>b, <1>3, <1>5, TwoEnds DEF OnReadChallenge
<1>7. /\ reading'["client"] = "none" /\ reading'["server"] = reading["server"]
      /\ validating'["client"] = IF tcp = "up" THEN "pending" ELSE "failing"
      /\ validating'["server"] = validating["server"]
      /\ handshakeOut'["server"] = handshakeOut["server"]
  BY <1>b, <1>3, TwoEnds DEF OnReadChallenge
<1>8. /\ ReadPhase("client")' = IF tcp = "up" THEN "handshake" ELSE "ended"
      /\ ~AtHandshake("client")' /\ NextRead("client")' = Header(1)
  <2>1. ~AtHandshake("client")'
    BY <1>1, <1>2, <1>7 DEF AtHandshake
  <2>2. Len(inbox'["client"]) + 1 = 1
    BY <1>1, <1>2
  <2>3. ReadPhase("client")' = IF tcp = "up" THEN "handshake" ELSE "ended"
    BY <1>1, <1>2, <1>7, NextPhaseFacts, TwoEnds
  <2> QED
    BY <1>7, <2>1, <2>2, <2>3 DEF NextRead
<1>9. /\ ReadPhase("server")' = ReadPhase("server")
      /\ NextRead("server")' = NextRead("server")
      /\ AtHandshake("server")' <=> AtHandshake("server")
  BY <1>1, <1>7, ReaderSame, TwoEnds
<1>10. \A x : Succ(Validation(x)) = Header(1)
  BY DEF Succ, Validation
<1>11. Arrived("client")' /\ Arrived("server")'
  <2>1. ran["client"] <= ran'["client"] /\ ran["server"] <= ran'["server"]
    BY <1>b, <1>1
  <2>2. Arrived("client")'
    BY <1>a, <1>1, <1>2, <1>7, <2>1, ArrivedKept, TwoEnds, PeerFacts
  <2>3. Arrived("server")'
    BY <1>a, <1>1, <1>7, <1>9, <2>1, ArrivedKept, TwoEnds, PeerFacts
  <2> QED
    BY <2>2, <2>3
<1>12. LinkUp("client")' /\ LinkUp("server")'
  <2>1. LinkUp("client")'
    BY <1>a, <1>1, <1>8 DEF LinkUp, QueueInOrder
  <2>2. LinkUp("server")'
    BY <1>a, <1>1, <1>9 DEF LinkUp, QueueInOrder
  <2> QED
    BY <2>1, <2>2
<1>13. Stream("server")'
  <2>1. StaysUp("server")
    BY <1>1, <1>8, PeerFacts DEF StaysUp
  <2>2. NextWrite("server")' = NextWrite("server")
    BY <1>1, <1>7, WriterSame, TwoEnds
  <2>3. NextRead("client")' = Succ(NextRead("client"))
    BY <1>4, <1>8, <1>10
  <2>4. ran'["server"] = ran["server"] /\ ReadPhase("client") # "ended"
    BY <1>1, <1>2
  <2> QED
    BY <1>a, <1>1, <1>6, <2>1, <2>2, <2>3, <2>4, StreamRead, TwoEnds, PeerFacts
<1>14. Stream("client")'
  <2>1. ReaderKeeps("client") /\ StaysUp("client")
    BY <1>a, <1>1, <1>9, PeerFacts DEF ReaderKeeps, StaysUp, LinkUp
  <2>2. Validation(word) \in Unit /\ Validation(word).kind = "validation"
    BY <1>b, UnitFacts
  <2>3. NextWrite("client") = Validation(word)
    BY <1>2 DEF NextWrite, WordPending, Word
  <2>4. tcp = "up" => ran["client"] = 0
    <3>1. Silent /\ Closing
      BY <1>a DEF Setup
    <3>2. \/ posted["client"] = 0
          \/ posted["client"] = 1 /\ closeTask["client"] = 1
      BY <1>2, <3>1 DEF Silent
    <3>3. ran["client"] <= posted["client"]
      BY <1>a DEF TasksInOrder
    <3> QED
      BY <1>b, <3>1, <3>2, <3>3 DEF Closing
  <2>5. writing["client"] = "none"
    BY <1>a, <1>2 DEF Setup, Silent
  <2>6. tcp = "up" => NextWrite("client")' = Header(1)
    <3>1. tcp = "up" => ran'["client"] + 1 = 1
      BY <1>1, <2>4
    <3> QED
      BY <1>1, <1>8, <2>5, <3>1 DEF NextWrite, WordPending
  <2>7. tcp = "up" => ReadPhase("server")' # "ended"
    BY <1>a, <1>9 DEF LinkUp
  <2>8. ran["client"] <= ran'["client"]
    BY <1>b, <1>1
  <2>9. NextWrite("client")' = Succ(Validation(word)) \/ tcp # "up"
    BY <1>10, <2>6
  <2> HIDE DEF word
  <2> QED
    BY <1>a, <1>6, <2>1, <2>2, <2>3, <2>7, <2>8, <2>9, StreamWritten, TwoEnds, PeerFacts
<1>15. Setup'
  <2>1. Waiting'
    BY <1>1, <1>2 DEF Waiting
  <2>2. Answering' /\ Connecting' /\ Silent' /\ Closing'
    BY <1>a, <1>1, <1>7 DEF Setup, Answering, Connecting, Silent, Closing
  <2> QED
    BY <2>1, <2>2 DEF Setup
<1> QED
  BY <1>11, <1>12, <1>13, <1>14, <1>15, TwoEnds DEF IInv

LEMMA OrderWriteValidation ==
    ASSUME IInv, BaseInv', NEW e \in Ends, OnWriteValidation(e) PROVE IInv'
<1>a. BaseInv /\ TypeOK /\ TypeOK' /\ Setup /\ Idle(e) /\ LinkUp(e)
  BY DEF IInv, BaseInv, LoopInv, LoopsOK
<1>b. /\ reading \in [Ends -> {"none", "validation", "header", "body", "failing"}]
      /\ validating \in [Ends -> {"none", "pending", "failing"}]
      /\ \A f \in Ends : ran[f] \in Nat
  BY <1>a DEF TypeOK
<1>1. /\ validating[e] = "pending" /\ validating'[e] = "none"
      /\ UNCHANGED <<tcp, wire, socket, stage, posted, ran, closeTask, qOut, writing,
                     received, handshakeOut>>
  BY <1>b DEF OnWriteValidation
<1>2. \A f \in Ends : f # e => reading'[f] = reading[f] /\ validating'[f] = validating[f]
  BY <1>b DEF OnWriteValidation, mf_read_header, StartRead
<1>3. e = "client" => /\ reading[e] = "none" /\ stage[e] \notin {"idle", "dialling"}
                      /\ reading'[e] = IF socket[e] = "open" THEN "header" ELSE "failing"
                      /\ stage["server"] # "idle"
  BY <1>a, <1>b, <1>1 DEF Setup, Answering, Waiting, Idle, OnWriteValidation, mf_read_header,
                          StartRead
<1>4. e = "server" => reading'[e] = reading[e]
  BY DEF OnWriteValidation
<1>5. ASSUME NEW f \in Ends
      PROVE  /\ NextRead(f)' = NextRead(f)
             /\ AtHandshake(f)' <=> AtHandshake(f)
             /\ \/ ReadPhase(f)' = ReadPhase(f)
                \/ /\ ReadPhase(f) = "handshake"
                   /\ ReadPhase(f)' = IF socket[f] = "open" THEN "flowing" ELSE "ended"
  <2>1. CASE f = "client" /\ f = e
    <3>1. ~AtHandshake(f) /\ ~AtHandshake(f)'
      BY <1>1, <1>3, <2>1 DEF AtHandshake
    <3>2. NextRead(f)' = NextRead(f)
      BY <1>1, <1>3, <2>1, <3>1 DEF NextRead
    <3>3. ReadPhase(f) = "handshake"
      BY <1>a, <1>1, <1>3, <2>1, PhaseFacts
    <3>4. ReadPhase(f)' = IF socket[f] = "open" THEN "flowing" ELSE "ended"
      BY <1>a, <1>1, <1>3, <2>1, NextPhaseFacts
    <3> QED
      BY <3>1, <3>2, <3>3, <3>4
  <2>2. CASE ~(f = "client" /\ f = e)
    <3>1. reading'[f] = reading[f] /\ (f = "client" => validating'[f] = validating[f])
      BY <1>2, <1>4, <2>2, TwoEnds
    <3> QED
      BY <1>1, <3>1, ReaderSame
  <2> QED
    BY <2>1, <2>2
<1>6. ASSUME NEW f \in Ends PROVE Arrived(f)'
  <2>1. Arrived(f) /\ Peer(f) \in Ends
    BY PeerFacts DEF IInv
  <2>2. reading'[f] = "body" => reading[f] = "body"
    BY <1>2, <1>3, <1>4, TwoEnds
  <2>3. ReadPhase(f)' = "handshake" => ReadPhase(f) = "handshake"
    BY <1>5
  <2>4. ran[Peer(f)] <= ran'[Peer(f)]
    BY <1>b, <1>1, <2>1
  <2> QED
    BY <1>a, <1>1, <2>1, <2>2, <2>3, <2>4, ArrivedKept
<1>7. ASSUME NEW f \in Ends, tcp = "up" PROVE ReadPhase(f)' # "ended"
  <2>1. LinkUp(f)
    BY DEF IInv
  <2>2. f = e => socket[f] = "open"
    BY <1>a, <1>1, <1>7 DEF LinkUp, Idle
  <2>3. ReadPhase(f)' # ReadPhase(f) => f = e
    BY <1>1, <1>2, ReaderSame
  <2> QED
    BY <1>5, <1>7, <2>1, <2>2, <2>3 DEF LinkUp
<1>8. ASSUME NEW f \in Ends PROVE LinkUp(f)'
  <2>1. LinkUp(f)
    BY DEF IInv
  <2> QED
    BY <1>1, <1>7, <2>1 DEF LinkUp, QueueInOrder
<1>9. ASSUME NEW f \in Ends PROVE Stream(f)'
  <2>1. Stream(f) /\ Peer(f) \in Ends
    BY PeerFacts DEF IInv
  <2>2. ReaderKeeps(f) /\ StaysUp(f)
    <3>1. ReadPhase(Peer(f)) = "ended" => ReadPhase(Peer(f))' = "ended"
      BY <1>5, <2>1
    <3> QED
      BY <1>1, <1>5, <1>7, <2>1, <3>1 DEF ReaderKeeps, StaysUp
  <2>3. NextWrite(f)' = NextWrite(f)
    BY <1>1, <1>5, WriterSame
  <2>4. ran[f] <= ran'[f]
    BY <1>b, <1>1
  <2> QED
    BY <1>a, <1>1, <2>1, <2>2, <2>3, <2>4, StreamKept
<1>10. Setup'
  <2>1. Waiting'
    <3>1. CASE e = "client"
      BY <1>1, <1>3, <3>1 DEF Waiting
    <3>2. CASE e = "server"
      <4>1. /\ ReadPhase("client")' = ReadPhase("client")
            /\ validating'["client"] = validating["client"]
            /\ AtHandshake("client")' <=> AtHandshake("client")
        BY <1>1, <1>2, <3>2, ReaderSame, TwoEnds
      <4> QED
        BY <1>a, <1>1, <4>1 DEF Setup, Waiting
    <3> QED
      BY <3>1, <3>2, TwoEnds
  <2>2. Answering'
    BY <1>a, <1>1, <1>2, TwoEnds DEF Setup, Answering
  <2>3. Connecting' /\ Silent' /\ Closing'
    BY <1>a, <1>1 DEF Setup, Connecting, Silent, Closing
  <2> QED
    BY <2>1, <2>2, <2>3 DEF Setup
<1> QED
  BY <1>6, <1>8, <1>9, <1>10 DEF IInv

(***************************************************************************)
(* Establishing the link.                                                  *)
(***************************************************************************)
\* Before the connection is used nothing was written in either direction.
LEMMA NotYetUsed ==
    ASSUME IInv, stage["server"] = "idle"
    PROVE  /\ wire["server"] = <<>> /\ wire["client"] = <<>>
           /\ inbox["server"] = <<>> /\ qOut["server"] = <<>> /\ writing["server"] = "none"
           /\ reading["server"] = "none" /\ ran["server"] = 0
           /\ ReadPhase("server") = "handshake" /\ AtHandshake("server")
           /\ validating["client"] = "none"
           /\ AtHandshake("client") \/ ReadPhase("client") = "ended"
<1>1. BaseInv /\ TypeOK /\ Setup /\ Idle("server") /\ TasksInOrder("server")
  BY TwoEnds DEF IInv, BaseInv, LoopInv, LoopsOK
<1>2. ran["server"] \in Nat
  BY <1>1, TwoEnds DEF TypeOK
<1>3. AtHandshake("server") /\ ReadPhase("server") = "handshake"
  BY <1>1, PhaseFacts, TwoEnds DEF AtHandshake
<1> QED
  BY <1>1, <1>2, <1>3 DEF Setup, Waiting, Idle, TasksInOrder

\* Before the client's read loop has begun it has nothing to write.
LEMMA NotYetConnected ==
    ASSUME IInv, stage["client"] \in {"idle", "dialling"}
    PROVE  /\ inbox["client"] = <<>> /\ qOut["client"] = <<>> /\ writing["client"] = "none"
           /\ reading["client"] = "none" /\ validating["client"] = "none"
           /\ AtHandshake("client") /\ ReadPhase("client") = "handshake"
<1>1. BaseInv /\ Setup /\ Idle("client") /\ Arrived("client")
  BY TwoEnds DEF IInv, BaseInv, LoopInv, LoopsOK
<1>2. AtHandshake("client") /\ ReadPhase("client") = "handshake"
  BY <1>1, PhaseFacts, TwoEnds DEF AtHandshake
<1> QED
  BY <1>1, <1>2 DEF Setup, Silent, Idle, Arrived, Listening

LEMMA OrderConnectToServer == ASSUME IInv, BaseInv', ConnectToServer PROVE IInv'
<1>a. /\ BaseInv /\ TypeOK /\ TypeOK' /\ Setup /\ Idle("client")
      /\ TasksInOrder("client")
  BY TwoEnds DEF IInv, BaseInv, LoopInv, LoopsOK
<1>b. /\ \A f \in Ends : ran[f] \in Nat
      /\ stage \in [Ends -> {"idle", "dialling", "running", "failed"}]
      /\ socket \in [Ends -> {"open", "closed"}]
      /\ ran["client"] \in Nat /\ posted["client"] \in Nat /\ closeTask["client"] \in Nat
  BY <1>a, TwoEnds DEF TypeOK
<1>1. /\ stage["client"] = "idle" /\ stage'["client"] = "dialling"
      /\ socket'["client"] = "open" /\ tcp' = "connecting"
      /\ stage'["server"] = stage["server"]
      /\ UNCHANGED <<wire, posted, ran, closeTask, qOut, writing, validating, reading,
                     received, handshakeOut>>
  BY <1>b, TwoEnds DEF ConnectToServer
<1>2. /\ ReadPhase("client")' = ReadPhase("client")
      /\ AtHandshake("client") /\ AtHandshake("client")'
      /\ NextRead("client")' = NextRead("client")
  <2>1. AtHandshake("client") /\ ReadPhase("client") = "handshake"
    BY <1>1, NotYetConnected
  <2>2. AtHandshake("client")' /\ ReadPhase("client")' = "handshake"
    BY <1>1, NextPhaseFacts, TwoEnds DEF AtHandshake
  <2> QED
    BY <1>1, <2>1, <2>2 DEF NextRead, Word
<1>3. /\ ReadPhase("server")' = ReadPhase("server")
      /\ NextRead("server")' = NextRead("server")
  BY <1>1, ReaderSame, TwoEnds
<1>4. ASSUME NEW f \in Ends PROVE Arrived(f)' /\ Stream(f)' /\ LinkUp(f)'
  <2>1. Arrived(f) /\ Stream(f) /\ Peer(f) \in Ends /\ ran[f] <= ran'[f]
        /\ ran[Peer(f)] <= ran'[Peer(f)]
    BY <1>b, <1>1, PeerFacts DEF IInv
  <2>2. ReadPhase(f)' = ReadPhase(f) /\ ReadPhase(Peer(f))' = ReadPhase(Peer(f))
        /\ NextRead(Peer(f))' = NextRead(Peer(f))
    BY <1>2, <1>3, <2>1, TwoEnds
  <2>3. Arrived(f)'
    BY <1>a, <1>1, <2>1, <2>2, ArrivedKept
  <2>4. Stream(f)'
    BY <1>a, <1>1, <2>1, <2>2, StreamKept DEF ReaderKeeps, StaysUp
  <2> QED
    BY <1>1, <2>3, <2>4 DEF LinkUp
<1>5. Setup'
  <2>1. Waiting'
    BY <1>a, <1>1, <1>2 DEF Setup, Waiting
  <2>2. Answering' /\ Silent'
    BY <1>a, <1>1 DEF Setup, Answering, Silent
  <2>3. Closing'
    BY <1>a, <1>b, <1>1 DEF Idle, TasksInOrder, Closing
  <2> QED
    BY <1>1, <2>1, <2>2, <2>3 DEF Setup, Connecting
<1> QED
  BY <1>4, <1>5 DEF IInv

LEMMA OrderTcpSettle == ASSUME IInv, BaseInv', TcpSettle PROVE IInv'
<1>a. BaseInv /\ TypeOK /\ TypeOK' /\ Setup /\ Dialled
  BY DEF IInv, BaseInv, LoopInv
<1>b. \A f \in Ends : ran[f] \in Nat /\ ran'[f] \in Nat
  BY <1>a DEF TypeOK
<1>1. /\ tcp = "connecting" /\ tcp' \in {"up", "refused"}
      /\ UNCHANGED <<wire, socket, stage, posted, ran, closeTask, qOut, writing, validating,
                     reading, received, handshakeOut>>
  BY DEF TcpSettle
<1>2. /\ stage["client"] = "dialling" /\ socket["client"] = "open"
      /\ stage["server"] = "idle"
  BY <1>a, <1>1 DEF Setup, Connecting, Dialled
<1>3. \A f \in Ends : /\ ReadPhase(f)' = ReadPhase(f)
                      /\ NextRead(f)' = NextRead(f)
                      /\ AtHandshake(f)' <=> AtHandshake(f)
  BY <1>1, ReaderSame
<1>4. \A f \in Ends : /\ wire[f] = <<>> /\ qOut[f] = <<>> /\ writing[f] = "none"
                      /\ AtHandshake(f) /\ ReadPhase(f) = "handshake" /\ WordPending(f)
  BY <1>2, NotYetUsed, NotYetConnected, TwoEnds DEF WordPending
<1>5. ASSUME NEW f \in Ends PROVE Arrived(f)' /\ Stream(f)' /\ LinkUp(f)'
  <2>1. Arrived(f) /\ Peer(f) \in Ends /\ Peer(Peer(f)) = f
    BY PeerFacts, TwoEnds DEF IInv
  <2>2. ran[Peer(f)] <= ran'[Peer(f)]
    BY <1>b, <1>1, <2>1
  <2>3. Arrived(f)'
    BY <1>a, <1>1, <1>3, <2>1, <2>2, ArrivedKept
  <2>4. NextRead(Peer(f)) = Word(f) /\ NextWrite(f) = Word(f)
    BY <1>4, <2>1 DEF NextRead, NextWrite
  <2>5. NextWrite(f)' = NextWrite(f)
    BY <1>1, <1>3, WriterSame
  <2>6. Chained(wire'[f], ran'[f])
    BY <1>1, <1>4 DEF Chained
  <2>7. Stream(f)'
    BY <1>1, <1>3, <1>4, <2>1, <2>4, <2>5, <2>6 DEF Stream, Begins, EndsBefore
  <2>8. QueueInOrder(f)'
    BY <1>b, <1>1, <1>4 DEF QueueInOrder
  <2>9. LinkUp(f)'
    BY <1>1, <1>2, <1>3, <1>4, <2>8, TwoEnds DEF LinkUp
  <2> QED
    BY <2>3, <2>7, <2>9
<1>6. Setup'
  <2>1. Waiting'
    BY <1>a, <1>1, <1>3, TwoEnds DEF Setup, Waiting
  <2>2. Answering' /\ Silent' /\ Connecting' /\ Closing'
    BY <1>a, <1>1 DEF Setup, Answering, Silent, Connecting, Closing
  <2> QED
    BY <2>1, <2>2 DEF Setup
<1> QED
  BY <1>5, <1>6 DEF IInv

LEMMA OrderOnConnect == ASSUME IInv, BaseInv', OnConnect PROVE IInv'
<1>a. /\ BaseInv /\ TypeOK /\ TypeOK' /\ Setup /\ LinkUp("client")
  BY TwoEnds DEF IInv, BaseInv, LoopInv
<1>b. /\ \A f \in Ends : ran[f] \in Nat
      /\ stage \in [Ends -> {"idle", "dialling", "running", "failed"}]
      /\ reading \in [Ends -> {"none", "validation", "header", "body", "failing"}]
  BY <1>a, TwoEnds DEF TypeOK
<1>1. /\ stage["client"] = "dialling"
      /\ stage'["client"] \in {"running", "failed"}
      /\ stage'["server"] = stage["server"] /\ reading'["server"] = reading["server"]
      /\ UNCHANGED <<tcp, wire, socket, posted, ran, closeTask, qOut, writing, validating,
                     received, handshakeOut>>
  BY <1>b, TwoEnds DEF OnConnect, StartRead
<1>2. /\ AtHandshake("client") /\ ReadPhase("client") = "handshake"
      /\ reading["client"] = "none" /\ validating["client"] = "none"
  BY <1>1, NotYetConnected
<1>3. tcp # "connecting"
  BY <1>a DEF OnConnect, Setup, Connecting
<1>4. tcp = "up" => socket["client"] = "open"
  BY <1>a, <1>1 DEF LinkUp
<1>5. \/ /\ reading'["client"] = "validation" /\ stage'["client"] = "running"
         /\ socket["client"] = "open"
      \/ reading'["client"] \in {"failing", "none"} /\ tcp # "up"
  BY <1>b, <1>2, <1>4, TwoEnds DEF OnConnect, StartRead
<1>6. \/ /\ AtHandshake("client")' /\ ReadPhase("client")' = "handshake"
         /\ NextRead("client")' = NextRead("client")
      \/ ReadPhase("client")' = "ended" /\ tcp # "up"
  <2>1. CASE reading'["client"] = "validation" /\ stage'["client"] = "running"
    <3>1. AtHandshake("client")' /\ ReadPhase("client")' = "handshake"
      BY <2>1, NextPhaseFacts, TwoEnds DEF AtHandshake
    <3> QED
      BY <1>1, <1>2, <3>1 DEF NextRead, Word
  <2>2. CASE reading'["client"] \in {"failing", "none"} /\ tcp # "up"
    BY <1>1, <1>2, <2>2, NextPhaseFacts, TwoEnds
  <2> QED
    BY <1>5, <2>1, <2>2
<1>7. /\ ReadPhase("server")' = ReadPhase("server")
      /\ NextRead("server")' = NextRead("server")
  BY <1>1, ReaderSame, TwoEnds
<1>8. ASSUME NEW f \in Ends PROVE Arrived(f)' /\ Stream(f)' /\ LinkUp(f)'
  <2>1. /\ Arrived(f) /\ Stream(f) /\ LinkUp(f) /\ LinkUp(Peer(f)) /\ Peer(f) \in Ends
        /\ ran[f] <= ran'[f] /\ ran[Peer(f)] <= ran'[Peer(f)]
    <3>1. Peer(f) \in Ends
      BY PeerFacts
    <3> QED
      BY <1>b, <1>1, <3>1 DEF IInv
  <2>2. Arrived(f)'
    <3>1. reading'[f] = "body" => reading[f] = "body"
      BY <1>1, <1>5, TwoEnds
    <3>2. ReadPhase(f)' = "handshake" => ReadPhase(f) = "handshake"
      BY <1>2, <1>7, TwoEnds
    <3> QED
      BY <1>a, <1>1, <2>1, <3>1, <3>2, ArrivedKept
  <2>3. ReaderKeeps(f) /\ StaysUp(f)
    BY <1>1, <1>2, <1>6, <1>7, <2>1, PeerFacts, TwoEnds DEF ReaderKeeps, StaysUp, LinkUp
  <2>4. tcp = "up" => NextWrite(f)' = NextWrite(f)
    <3>1. tcp = "up" => (f = "client" => AtHandshake(f) /\ AtHandshake(f)')
      BY <1>2, <1>6
    <3>2. f = "client" => (tcp = "up" => NextWrite(f)' = NextWrite(f))
      BY <1>1, <3>1 DEF NextWrite, WordPending, Word
    <3>3. f = "server" => NextWrite(f)' = NextWrite(f)
      BY <1>1, WriterSame, TwoEnds
    <3> QED
      BY <3>2, <3>3, TwoEnds
  <2>5. Stream(f)'
    BY <1>a, <1>1, <2>1, <2>3, <2>4, StreamKept
  <2>6. LinkUp(f)'
    BY <1>1, <1>4, <1>6, <1>7, <2>1, TwoEnds DEF LinkUp, QueueInOrder
  <2> QED
    BY <2>2, <2>5, <2>6
<1>9. Setup'
  <2>1. Waiting'
    BY <1>a, <1>1, <1>2, <1>6 DEF Setup, Waiting
  <2>2. Answering'
    BY <1>1, <1>2 DEF Answering
  <2>3. Connecting' /\ Silent' /\ Closing'
    BY <1>a, <1>1, <1>3 DEF Setup, Connecting, Silent, Closing
  <2> QED
    BY <2>1, <2>2, <2>3 DEF Setup
<1> QED
  BY <1>8, <1>9 DEF IInv

LEMMA OrderOnAccept == ASSUME IInv, BaseInv', OnAccept PROVE IInv'
<1>a. /\ BaseInv /\ TypeOK /\ TypeOK' /\ Setup
      /\ Arrived("client") /\ Arrived("server") /\ LinkUp("client")
  BY TwoEnds DEF IInv, BaseInv, LoopInv
<1>b. /\ wire \in [Ends -> Seq(Unit)] /\ ran["client"] \in Nat
      /\ stage \in [Ends -> {"idle", "dialling", "running", "failed"}]
      /\ socket \in [Ends -> {"open", "closed"}]
      /\ posted \in [Ends -> Nat]
      /\ reading \in [Ends -> {"none", "validation", "header", "body", "failing"}]
      /\ validating \in [Ends -> {"none", "pending", "failing"}]
      /\ handshakeOut \in [Ends -> Words]
  BY <1>a, TwoEnds DEF TypeOK
<1>1. PICK word \in Challenges :
        /\ handshakeOut' = [handshakeOut EXCEPT !["server"] = word]
        /\ wire' = IF tcp = "up"
                     THEN [wire EXCEPT !["server"] = Append(@, Validation(word))]
                     ELSE wire
  BY DEF OnAccept
<1>2. /\ stage["server"] = "idle" /\ tcp \in {"up", "down"}
      /\ stage'["server"] = "running" /\ stage'["client"] = stage["client"]
      /\ socket'["server"] = "open" /\ socket'["client"] = socket["client"]
      /\ posted'["client"] = posted["client"]
      /\ reading'["server"] = "validation" /\ reading'["client"] = reading["client"]
      /\ validating'["client"] = validating["client"]
      /\ UNCHANGED <<tcp, ran, closeTask, qOut, writing, received>>
  BY <1>b, TwoEnds DEF OnAccept
<1>3. /\ wire["server"] = <<>> /\ wire["client"] = <<>>
      /\ inbox["server"] = <<>> /\ qOut["server"] = <<>> /\ writing["server"] = "none"
      /\ ran["server"] = 0
      /\ AtHandshake("client") \/ ReadPhase("client") = "ended"
  BY <1>2, NotYetUsed
<1>4. /\ wire'["client"] = <<>>
      /\ wire'["server"] = IF tcp = "up" THEN Append(<<>>, Validation(word)) ELSE <<>>
      /\ handshakeOut'["server"] = word
  BY <1>b, <1>1, <1>3, TwoEnds
<1>5. /\ ReadPhase("client")' = ReadPhase("client")
      /\ AtHandshake("client")' <=> AtHandshake("client")
  BY <1>2 DEF ReadPhase, AtHandshake
<1>6. AtHandshake("server")' /\ ReadPhase("server")' = "handshake"
  BY <1>2, NextPhaseFacts, TwoEnds DEF AtHandshake
<1>7. Arrived("client")' /\ Arrived("server")'
  <2>1. ran["server"] <= ran'["server"]
    BY <1>2, <1>3
  <2>2. Arrived("client")'
    BY <1>a, <1>2, <1>5, <2>1, ArrivedKept, TwoEnds, PeerFacts
  <2>3. Arrived("server")'
    BY <1>2, <1>3 DEF Arrived, InboxInOrder, BodyPending, Listening
  <2> QED
    BY <2>2, <2>3
<1>8. LinkUp("client")' /\ LinkUp("server")'
  <2>1. LinkUp("client")'
    BY <1>a, <1>2, <1>5 DEF LinkUp, QueueInOrder
  <2>2. LinkUp("server")'
    BY <1>2, <1>3, <1>6 DEF LinkUp, QueueInOrder
  <2> QED
    BY <2>1, <2>2
<1>9. tcp = "up" => AtHandshake("client")
  BY <1>a, <1>3 DEF LinkUp
<1>10. Stream("client")'
  <2>1. Chained(wire'["client"], ran'["client"])
    BY <1>4 DEF Chained
  <2>2. tcp = "up" => /\ NextRead("server")' = Word("client")'
                      /\ NextWrite("client")' = Word("client")'
    BY <1>5, <1>6, <1>9, PeerFacts DEF NextRead, NextWrite, WordPending
  <2> QED
    BY <1>2, <1>4, <2>1, <2>2, PeerFacts DEF Stream, Begins, EndsBefore
<1>11. Stream("server")'
  <2>1. CASE tcp # "up"
    BY <1>2, <1>4, <2>1 DEF Stream, Chained, Begins
  <2>2. CASE tcp = "up"
    <3> DEFINE s == Append(<<>>, Validation(word))
               u == Validation(word)
    <3>1. u \in Unit /\ u.kind = "validation"
      BY UnitFacts, ConnectionAssumption
    <3>2. wire'["server"] = s
      BY <1>4, <2>2
    <3> HIDE DEF u
    <3>3. Len(s) = 1 /\ s[1] = u /\ s # <<>>
      BY <3>1 DEF u
    <3> HIDE DEF s
    <3>4. Chained(s, ran'["server"])
      BY <3>1, <3>3 DEF Chained
    <3>5. NextRead("client")' = u
      BY <1>4, <1>5, <1>9, <2>2, PeerFacts DEF NextRead, Word, u
    <3>6. Succ(u) = Header(1)
      BY DEF Succ, Validation, u
    <3>7. ran'["server"] + 1 = 1
      BY <1>2, <1>3
    <3>8. NextWrite("server")' = Header(1)
      BY <1>2, <1>3, <3>7 DEF NextWrite, WordPending
    <3> QED
      BY <3>2, <3>3, <3>4, <3>5, <3>6, <3>8, PeerFacts DEF Stream, Begins, EndsBefore
  <2> QED
    BY <2>1, <2>2
<1>12. Setup'
  <2>1. Waiting'
    BY <1>2 DEF Waiting
  <2>2. Answering' /\ Connecting' /\ Silent' /\ Closing'
    BY <1>a, <1>2 DEF Setup, Answering, Connecting, Silent, Closing
  <2> QED
    BY <2>1, <2>2 DEF Setup
<1> QED
  BY <1>7, <1>8, <1>10, <1>11, <1>12, TwoEnds DEF IInv
-----------------------------------------------------------------------------
(***************************************************************************)
(* IInv is inductive.                                                      *)
(***************************************************************************)
LEMMA OrderInit == Init => IInv
<1> SUFFICES ASSUME Init PROVE IInv
  OBVIOUS
<1>1. BaseInv
  BY BaseInit
<1>2. ASSUME NEW e \in Ends PROVE Arrived(e) /\ LinkUp(e) /\ Stream(e)
  <2>1. inbox[e] = <<>> /\ wire[e] = <<>> /\ reading[e] = "none" /\ tcp = "none"
    BY DEF Init
  <2> QED
    BY <2>1 DEF Arrived, InboxInOrder, BodyPending, Listening, LinkUp, Stream, Chained, Begins
<1>3. Setup
  BY TwoEnds DEF Init, Setup, Waiting, Answering, Connecting, Silent, Closing, AtHandshake
<1> QED
  BY <1>1, <1>2, <1>3 DEF IInv

LEMMA OrderStutter == ASSUME IInv, BaseInv', UNCHANGED vars PROVE IInv'
<1>1. UNCHANGED <<tcp, wire, socket, stage, ran, qOut, writing, validating,
                  reading, received, handshakeOut, posted, closeTask>>
  BY DEF vars
<1>2. \A e \in Ends : Arrived(e)' /\ LinkUp(e)' /\ Stream(e)'
  BY <1>1, DirectionsSame DEF IInv
<1>3. Setup'
  <2>1. Setup
    BY DEF IInv
  <2>2. /\ ReadPhase("client")' = ReadPhase("client")
        /\ AtHandshake("client")' <=> AtHandshake("client")
    BY <1>1, ReaderSame, TwoEnds
  <2> QED
    BY <1>1, <2>1, <2>2 DEF Setup, Waiting, Answering, Connecting, Silent, Closing
<1> QED
  BY <1>2, <1>3 DEF IInv

LEMMA OrderNext == IInv /\ [Next]_vars => IInv'
<1> SUFFICES ASSUME IInv, [Next]_vars PROVE IInv'
  OBVIOUS
<1>a. BaseInv'
  BY BaseNext DEF IInv
<1>1. CASE Establish
  BY <1>a, <1>1, OrderConnectToServer, OrderTcpSettle, OrderOnConnect, OrderOnAccept
  DEF Establish
<1>2. CASE Post
  BY <1>a, <1>2, OrderPost
<1>3. ASSUME NEW e \in Ends, Tasks(e) PROVE IInv'
  BY <1>a, <1>3, OrderRunSend, OrderGaveUp DEF Tasks
<1>4. ASSUME NEW e \in Ends, Reads(e) PROVE IInv'
  BY <1>a, <1>4, OrderReadAnswer, OrderReadChallenge, OrderReadHeader, OrderReadBody,
     OrderGaveUp DEF Reads
<1>5. ASSUME NEW e \in Ends, Writes(e) PROVE IInv'
  BY <1>a, <1>5, OrderWriteHeader, OrderWriteBody, OrderGaveUp DEF Writes
<1>6. ASSUME NEW e \in Ends, WritesValidation(e) PROVE IInv'
  BY <1>a, <1>6, OrderWriteValidation, OrderGaveUp DEF WritesValidation
<1>7. CASE Network
  <2>1. CASE Break
    BY <1>a, <2>1, OrderGaveUp, TwoEnds
  <2>2. ASSUME NEW e \in Ends, LoseTail(e) PROVE IInv'
    BY <1>a, <2>2, OrderLoseTail
  <2> QED
    BY <1>7, <2>1, <2>2 DEF Network
<1>8. CASE UNCHANGED vars
  BY <1>a, <1>8, OrderStutter
<1> QED
  BY <1>1, <1>2, <1>3, <1>4, <1>5, <1>6, <1>7, <1>8 DEF Next

(* Every message that arrives is the next one of its direction, the link is in
   order while it is up, and what is left of it once it is down is a prefix of
   what was written: for the handlers of NetConnection.h as they are, whatever
   the messages, the welcome and the scrambling are. *)
THEOREM OrderInvariant == Spec => []IInv
<1>1. Init => IInv
  BY OrderInit
<1>2. IInv /\ [Next]_vars => IInv'
  BY OrderNext
<1> QED
  BY <1>1, <1>2, PTL DEF Spec

LEMMA FramedByOrder == IInv => Framed
<1> SUFFICES ASSUME IInv, NEW e \in Ends, reading[e] \in {"validation", "header", "body"},
                    wire[Peer(e)] # <<>>
             PROVE  Head(wire[Peer(e)]) = Expected(e)
  BY DEF Framed
<1>1. BaseInv /\ Idle(e) /\ Arrived(e)
  BY DEF IInv, BaseInv, LoopInv, LoopsOK
<1>2. stage[e] \notin {"idle", "dialling"}
  BY <1>1 DEF Idle
<1>3. ReadPhase(e) # "ended"
  BY <1>1, PhaseFacts
<1>4. Head(wire[Peer(e)]) = NextRead(e)
  BY <1>3, FirstUnit
<1>5. CASE reading[e] = "validation"
  BY <1>4, <1>5, PeerFacts, TwoEnds DEF NextRead, AtHandshake, Word, Expected
<1>6. CASE reading[e] = "header"
  BY <1>2, <1>4, <1>6 DEF NextRead, AtHandshake, Expected
<1>7. CASE reading[e] = "body"
  BY <1>1, <1>2, <1>4, <1>7 DEF NextRead, AtHandshake, Expected, Arrived, BodyPending
<1> QED
  BY <1>5, <1>6, <1>7

(* The two ends never lose step: every read finds the handshake word, the
   header or the body it is meant for, although headers and handshake words
   have the same size and carry no tag (NetConnection.h:145-311). *)
THEOREM KeepsInStep == Spec => []Framed
<1>1. IInv => Framed
  BY FramedByOrder
<1> QED
  BY <1>1, OrderInvariant, PTL

-----------------------------------------------------------------------------
(***************************************************************************)
(* Each direction implements Channel.                                      *)
(***************************************************************************)
\* What a step may do to the direction that e reads.
Unmoved(e) == inbox'[e] = inbox[e] /\ ReadPhase(e)' = ReadPhase(e)
Moves(e) == inbox'[e] = inbox[e]
            /\ <<ReadPhase(e), ReadPhase(e)'>> \in {<<"handshake", "flowing">>,
                                                    <<"handshake", "ended">>,
                                                    <<"flowing", "ended">>}
Delivers(e) == /\ ReadPhase(e) = "flowing" /\ ReadPhase(e)' \in {"flowing", "ended"}
               /\ Len(inbox[e]) < posted[Peer(e)]
               /\ inbox'[e] = Append(inbox[e], Len(inbox[e]) + 1)
SentSame(e) == posted'[e] = posted[e]
Sends(e) == posted'[e] \in Nat /\ posted'[e] >= posted[e]
ChannelStep(e) == \/ Unmoved(e) /\ Sends(Peer(e))
                  \/ SentSame(Peer(e)) /\ (Moves(e) \/ Delivers(e))

\* Steps that concern neither reader, and steps of one reader alone.
LEMMA NothingRead ==
    ASSUME TypeOK, TypeOK', UNCHANGED <<stage, reading, validating, inbox>>,
           \A e \in Ends : posted'[e] >= posted[e]
    PROVE  \A e \in Ends : ChannelStep(e)
<1> TAKE e \in Ends
<1>1. Unmoved(e)
  BY DEF Unmoved, ReadPhase
<1>2. Peer(e) \in Ends
  BY PeerFacts
<1>3. Sends(Peer(e))
  BY <1>2 DEF TypeOK, Sends
<1> QED
  BY <1>1, <1>3 DEF ChannelStep

LEMMA OnlyReader ==
    ASSUME TypeOK, TypeOK', NEW e \in Ends,
           \A f \in Ends : f # e => /\ stage'[f] = stage[f] /\ reading'[f] = reading[f]
                                    /\ f = "client" => validating'[f] = validating[f]
                                    /\ inbox'[f] = inbox[f]
                                    /\ posted'[f] = posted[f],
           posted'[e] >= posted[e],
           Unmoved(e) \/ Moves(e) \/ Delivers(e)
    PROVE  \A f \in Ends : ChannelStep(f)
<1> TAKE f \in Ends
<1>1. CASE f = e
  <2>1. Peer(e) \in Ends /\ Peer(e) # e
    BY PeerFacts
  <2>2. SentSame(Peer(e))
    BY <2>1 DEF SentSame
  <2>3. Sends(Peer(e))
    BY <2>1 DEF TypeOK, Sends
  <2> QED
    BY <1>1, <2>2, <2>3 DEF ChannelStep
<1>2. CASE f # e
  <2>1. Unmoved(f)
    BY <1>2 DEF Unmoved, ReadPhase
  <2>2. Peer(f) = e
    BY <1>2, PeerFacts, TwoEnds
  <2>3. Sends(Peer(f))
    BY <2>2 DEF TypeOK, Sends
  <2> QED
    BY <2>1, <2>3 DEF ChannelStep
<1> QED
  BY <1>1, <1>2

LEMMA ChannelEstablish ==
    ASSUME IInv, BaseInv', Establish PROVE \A e \in Ends : ChannelStep(e)
<1>a. BaseInv /\ TypeOK /\ TypeOK'
  BY DEF IInv, BaseInv, LoopInv
<1>b. /\ stage \in [Ends -> {"idle", "dialling", "running", "failed"}]
      /\ reading \in [Ends -> {"none", "validation", "header", "body", "failing"}]
      /\ validating \in [Ends -> {"none", "pending", "failing"}]
      /\ posted \in [Ends -> Nat]
  BY <1>a DEF TypeOK
<1>1. CASE ConnectToServer
  <2>1. /\ stage["client"] = "idle" /\ stage'["client"] = "dialling"
        /\ stage'["server"] = stage["server"]
        /\ UNCHANGED <<reading, validating, inbox, posted>>
    BY <1>b, <1>1, TwoEnds DEF ConnectToServer
  <2>2. Unmoved("client")
    BY <2>1, NotYetConnected, NextPhaseFacts, TwoEnds DEF Unmoved
  <2> QED
    BY <1>a, <1>b, <2>1, <2>2, OnlyReader, TwoEnds
<1>2. CASE TcpSettle
  BY <1>a, <1>b, <1>2, NothingRead DEF TcpSettle
<1>3. CASE OnConnect
  <2>1. /\ stage["client"] = "dialling" /\ stage'["client"] \in {"running", "failed"}
        /\ stage'["server"] = stage["server"] /\ reading'["server"] = reading["server"]
        /\ reading'["client"] \in {reading["client"], "validation", "failing"}
        /\ UNCHANGED <<validating, inbox, posted>>
    BY <1>b, <1>3, TwoEnds DEF OnConnect, StartRead
  <2>2. /\ ReadPhase("client") = "handshake"
        /\ reading["client"] = "none" /\ validating["client"] = "none"
    BY <2>1, NotYetConnected
  <2>3. ReadPhase("client")' \in {"handshake", "ended"}
    BY <2>1, <2>2, NextPhaseFacts, TwoEnds
  <2>4. Unmoved("client") \/ Moves("client")
    BY <2>1, <2>2, <2>3 DEF Unmoved, Moves
  <2> QED
    BY <1>a, <1>b, <2>1, <2>4, OnlyReader, TwoEnds
<1>4. CASE OnAccept
  <2>1. /\ stage["server"] = "idle" /\ stage'["client"] = stage["client"]
        /\ reading'["server"] = "validation" /\ reading'["client"] = reading["client"]
        /\ validating'["client"] = validating["client"] /\ UNCHANGED inbox
        /\ posted'["server"] = posted["server"] + 1
        /\ posted'["client"] = posted["client"]
    BY <1>b, <1>4, TwoEnds DEF OnAccept
  <2>2. ReadPhase("server") = "handshake" /\ ReadPhase("server")' = "handshake"
    BY <2>1, NotYetUsed, NextPhaseFacts, TwoEnds
  <2>3. Unmoved("server")
    BY <2>1, <2>2 DEF Unmoved
  <2>4. posted'["server"] >= posted["server"]
    BY <1>b, <2>1, TwoEnds
  <2> QED
    BY <1>a, <2>1, <2>3, <2>4, OnlyReader, TwoEnds
<1> QED
  BY <1>1, <1>2, <1>3, <1>4 DEF Establish

LEMMA ChannelPost ==
    ASSUME TypeOK, TypeOK', Post PROVE \A e \in Ends : ChannelStep(e)
<1>1. posted \in [Ends -> Nat]
  BY DEF TypeOK
<1>2. \A e \in Ends : posted'[e] >= posted[e]
  BY <1>1 DEF Post, Send, Disconnect
<1> QED
  BY <1>2, NothingRead DEF Post, Send, Disconnect

\* What arrives was sent.
LEMMA NextMessage ==
    ASSUME IInv, NEW e \in Ends, reading[e] \in {"header", "body"}, wire[Peer(e)] # <<>>
    PROVE  /\ Head(wire[Peer(e)]).n = Len(inbox[e]) + 1
           /\ Len(inbox[e]) < posted[Peer(e)]
<1> DEFINE n == Len(inbox[e]) + 1
           w == Peer(e)
<1>1. BaseInv /\ TypeOK /\ Idle(e)
  BY DEF IInv, BaseInv, LoopInv, LoopsOK
<1>2. w \in Ends /\ LoopsOK(w)
  BY PeerFacts DEF IInv, BaseInv, LoopInv
<1>3. ran[w] \in Nat /\ posted[w] \in Nat /\ ran[w] <= posted[w] /\ Len(inbox[e]) \in Nat
  BY <1>1, <1>2 DEF LoopsOK, TasksInOrder, TypeOK
<1>4. stage[e] \notin {"idle", "dialling"} /\ ReadPhase(e) # "ended"
  BY <1>1, PhaseFacts DEF Idle
<1>5. NextRead(e) \in {Header(n), Body(n)}
  BY <1>4 DEF NextRead, AtHandshake
<1>6. NextRead(e).n = n /\ NextRead(e).kind # "validation"
  BY <1>5, UnitFacts
<1>7. Head(wire[w]).n = n /\ n \in 1..ran[w]
  BY <1>4, <1>6, FirstUnit
<1> QED
  BY <1>3, <1>7

LEMMA ChannelReads ==
    ASSUME IInv, BaseInv', NEW e \in Ends, Reads(e) PROVE \A f \in Ends : ChannelStep(f)
<1> DEFINE w == Peer(e)
<1>a. BaseInv /\ TypeOK /\ TypeOK' /\ Idle(e) /\ Arrived(e) /\ Setup
  BY DEF IInv, BaseInv, LoopInv, LoopsOK
<1>b. /\ inbox \in [Ends -> Seq(Nat)] /\ posted \in [Ends -> Nat]
      /\ reading \in [Ends -> {"none", "validation", "header", "body", "failing"}]
      /\ validating \in [Ends -> {"none", "pending", "failing"}]
  BY <1>a DEF TypeOK
<1>c. \A f \in Ends : posted[f] >= posted[f]
  BY <1>b
<1>d. reading[e] # "none" /\ stage[e] \notin {"idle", "dialling"} /\ stage' = stage
  BY <1>a, TwoEnds DEF Reads, OnReadAnswer, OnReadChallenge, OnReadHeader, OnReadBody,
                       OnReadFailed, Idle
<1>1. CASE e = "server" /\ OnReadAnswer
  <2>1. /\ reading[e] = "validation" /\ reading'[e] \in {"header", "failing", "none"}
        /\ \A f \in Ends : f # e => reading'[f] = reading[f] /\ posted'[f] = posted[f]
        /\ UNCHANGED <<validating, inbox>>
    BY <1>b, <1>1 DEF OnReadAnswer, mf_read_header, StartRead
  <2>2. posted'[e] >= posted[e]
    BY <1>b, <1>1, ConnectionAssumption DEF OnReadAnswer
  <2>3. ReadPhase(e) = "handshake" /\ ReadPhase(e)' \in {"flowing", "ended"}
    BY <1>a, <1>1, <1>d, <2>1, PhaseFacts, NextPhaseFacts
  <2>4. Moves(e)
    BY <2>1, <2>3 DEF Moves
  <2> QED
    BY <1>a, <1>d, <2>1, <2>2, <2>4, OnlyReader
<1>2. CASE e = "client" /\ OnReadChallenge
  <2>1. /\ reading[e] = "validation" /\ reading'[e] = "none"
        /\ \A f \in Ends : f # e => reading'[f] = reading[f]
        /\ UNCHANGED <<inbox, posted>>
    BY <1>b, <1>2 DEF OnReadChallenge
  <2>2. ReadPhase(e) = "handshake" /\ ReadPhase(e)' \in {"handshake", "ended"}
    BY <1>a, <1>d, <2>1, PhaseFacts, NextPhaseFacts
  <2>3. Unmoved(e) \/ Moves(e)
    BY <2>1, <2>2 DEF Unmoved, Moves
  <2>4. \A f \in Ends : f # e => (f = "client" => validating'[f] = validating[f])
    BY <1>2
  <2> QED
    BY <1>a, <1>c, <1>d, <2>1, <2>3, <2>4, OnlyReader
<1>3. CASE OnReadHeader(e) \/ OnReadBody(e)
  <2> DEFINE n == Len(inbox[e]) + 1
  <2>1. reading[e] \in {"header", "body"} /\ wire[w] # <<>>
        /\ UNCHANGED <<posted, validating>>
    BY <1>3 DEF OnReadHeader, OnReadBody
  <2>2. Head(wire[w]).n = n /\ Len(inbox[e]) < posted[w]
    BY <2>1, NextMessage
  <2>3. OnReadBody(e) => tempIn[e] = n
    BY <1>a DEF OnReadBody, Arrived, BodyPending
  <2>4. /\ \A f \in Ends : f # e => reading'[f] = reading[f] /\ inbox'[f] = inbox[f]
        /\ reading'[e] \in {"header", "body", "failing"}
        /\ inbox'[e] = inbox[e] \/ inbox'[e] = Append(inbox[e], n)
    <3>1. CASE OnReadHeader(e)
      BY <1>b, <2>2, <3>1 DEF OnReadHeader, StartRead, mf_read_header,
                              mf_add_to_incomming_message_queue
    <3>2. CASE OnReadBody(e)
      BY <1>b, <2>3, <3>2 DEF OnReadBody, StartRead, mf_read_header,
                              mf_add_to_incomming_message_queue
    <3> QED
      BY <1>3, <3>1, <3>2
  <2>5. ReadPhase(e) = "flowing" /\ ReadPhase(e)' \in {"flowing", "ended"}
    BY <1>a, <1>d, <2>1, <2>4, PhaseFacts, NextPhaseFacts
  <2>6. Unmoved(e) \/ Moves(e) \/ Delivers(e)
    BY <2>2, <2>4, <2>5 DEF Unmoved, Moves, Delivers
  <2> QED
    BY <1>a, <1>c, <1>d, <2>1, <2>4, <2>6, OnlyReader
<1>4. CASE OnReadFailed(e)
  <2>1. /\ reading'[e] = "none" /\ UNCHANGED <<validating, inbox, posted>>
        /\ \A f \in Ends : f # e => reading'[f] = reading[f]
    BY <1>b, <1>4 DEF OnReadFailed
  <2>2. e = "client" => validating'[e] = "none"
    BY <1>a, <1>d, <2>1 DEF Setup, Answering
  <2>3. ReadPhase(e)' = "ended" /\ ReadPhase(e) \in {"handshake", "flowing", "ended"}
    BY <1>a, <1>d, <2>1, <2>2, PhaseFacts, NextPhaseFacts
  <2>4. Unmoved(e) \/ Moves(e)
    BY <2>1, <2>3 DEF Unmoved, Moves
  <2> QED
    BY <1>a, <1>c, <1>d, <2>1, <2>4, OnlyReader
<1> QED
  BY <1>1, <1>2, <1>3, <1>4 DEF Reads

LEMMA ChannelWritesValidation ==
    ASSUME IInv, BaseInv', NEW e \in Ends, WritesValidation(e)
    PROVE  \A f \in Ends : ChannelStep(f)
<1>a. BaseInv /\ TypeOK /\ TypeOK' /\ Idle(e) /\ Setup
  BY DEF IInv, BaseInv, LoopInv, LoopsOK
<1>b. /\ posted \in [Ends -> Nat]
      /\ reading \in [Ends -> {"none", "validation", "header", "body", "failing"}]
      /\ validating \in [Ends -> {"none", "pending", "failing"}]
  BY <1>a DEF TypeOK
<1>c. \A f \in Ends : posted[f] >= posted[f]
  BY <1>b
<1>1. /\ validating[e] # "none" /\ validating'[e] = "none"
      /\ \A f \in Ends : f # e => reading'[f] = reading[f] /\ validating'[f] = validating[f]
      /\ \/ reading'[e] = reading[e]
         \/ e = "client" /\ reading'[e] \in {"header", "failing"}
      /\ UNCHANGED <<stage, inbox, posted>>
  BY <1>b DEF WritesValidation, OnWriteValidation, OnWriteValidationFailed, mf_read_header,
              StartRead
<1>2. Unmoved(e) \/ Moves(e)
  <2>1. CASE e = "client"
    <3>1. reading[e] = "none" /\ stage[e] \notin {"idle", "dialling"}
      BY <1>a, <1>1, <2>1 DEF Setup, Answering, Idle
    <3>2. ReadPhase(e) \in {"handshake", "ended"}
      BY <1>a, <3>1, PhaseFacts
    <3>3. ReadPhase(e)' \in {"flowing", "ended"}
      BY <1>1, <3>1, NextPhaseFacts
    <3>4. ReadPhase(e) = "ended" => reading'[e] = reading[e]
      BY <1>a, <1>b, <1>1, <2>1, <3>1, PhaseFacts
      DEF WritesValidation, OnWriteValidation, OnWriteValidationFailed
    <3>5. ReadPhase(e) = "ended" => ReadPhase(e)' = "ended"
      BY <1>1, <3>1, <3>4, NextPhaseFacts
    <3> QED
      BY <1>1, <3>2, <3>3, <3>5 DEF Unmoved, Moves
  <2>2. CASE e # "client"
    BY <1>1, <2>2 DEF Unmoved, ReadPhase
  <2> QED
    BY <2>1, <2>2
<1> QED
  BY <1>a, <1>c, <1>1, <1>2, OnlyReader

LEMMA ChannelNext ==
    ASSUME IInv, BaseInv', [Next]_vars PROVE \A e \in Ends : ChannelStep(e)
<1>a. BaseInv /\ TypeOK /\ TypeOK'
  BY DEF IInv, BaseInv, LoopInv
<1>b. \A e \in Ends : posted[e] >= posted[e]
  BY <1>a DEF TypeOK
<1>1. ASSUME NEW e \in Ends, Tasks(e) \/ Writes(e) \/ LoseTail(e) \/ Break
      PROVE \A f \in Ends : ChannelStep(f)
  <2>1. UNCHANGED <<stage, reading, validating, inbox, posted>>
    BY <1>1 DEF Tasks, RunSend, RunClose, Writes, OnWriteHeader, OnWriteBody, OnWriteFailed,
                LoseTail, Break
  <2> QED
    BY <1>a, <1>b, <2>1, NothingRead
<1>2. CASE UNCHANGED vars
  BY <1>a, <1>b, <1>2, NothingRead DEF vars
<1>3. CASE Network
  BY <1>1, <1>3, TwoEnds DEF Network
<1> QED
  BY <1>a, <1>1, <1>2, <1>3, ChannelEstablish, ChannelPost, ChannelReads,
     ChannelWritesValidation DEF Next

(* Both directions of a link implement the abstract channel: what is sent
   arrives in order, without a gap, a duplicate or an invention, only after the
   receiver's handshake and never after it stopped reading
   (NetConnection.h:143-311). *)
THEOREM ImplementsChannels == Spec => EachChannel
<1>1. Init => ToClient!Init /\ ToServer!Init
  BY TwoEnds DEF Init, ToClient!Init, ToServer!Init, ReadPhase
<1>2. IInv /\ IInv' /\ [Next]_vars => /\ [ToClient!Next]_(ToClient!vars)
                                      /\ [ToServer!Next]_(ToServer!vars)
  <2> SUFFICES ASSUME IInv, IInv', [Next]_vars
               PROVE  /\ [ToClient!Next]_(ToClient!vars)
                      /\ [ToServer!Next]_(ToServer!vars)
    OBVIOUS
  <2>1. BaseInv'
    BY DEF IInv
  <2>2. ChannelStep("client") /\ ChannelStep("server")
    BY <2>1, ChannelNext, TwoEnds
  <2>3. posted["server"] \in Nat /\ posted["client"] \in Nat
    BY TwoEnds DEF IInv, BaseInv, LoopInv, TypeOK
  <2>4. [ToClient!Next]_(ToClient!vars)
    BY <2>2, <2>3, PeerFacts
    DEF ChannelStep, Unmoved, Moves, Delivers, Sends, SentSame, ToClient!Next, ToClient!vars,
        ToClient!Send, ToClient!Deliver, ToClient!Advance
  <2>5. [ToServer!Next]_(ToServer!vars)
    BY <2>2, <2>3, PeerFacts
    DEF ChannelStep, Unmoved, Moves, Delivers, Sends, SentSame, ToServer!Next, ToServer!vars,
        ToServer!Send, ToServer!Deliver, ToServer!Advance
  <2> QED
    BY <2>4, <2>5
<1> QED
  BY <1>1, <1>2, OrderInvariant, PTL DEF Spec, EachChannel, ToClient!Spec, ToServer!Spec

-----------------------------------------------------------------------------
(***************************************************************************)
(* The buffer of the read loop.                                            *)
(***************************************************************************)
Intact(s, b) == \A i \in 1..Len(s) :
    b[i] = IF s[i] \in WithBody THEN s[i] ELSE IF i = 1 THEN 0 ELSE b[i - 1]

LEMMA IntactGrows ==
    ASSUME NEW s \in Seq(Nat), NEW b \in Seq(Nat), Len(b) = Len(s), Intact(s, b),
           NEW n \in Nat, NEW x \in Nat,
           x = IF n \in WithBody THEN n ELSE IF s = <<>> THEN 0 ELSE b[Len(b)]
    PROVE  /\ Intact(Append(s, n), Append(b, x))
           /\ Len(Append(b, x)) = Len(Append(s, n)) /\ Append(s, n) # <<>>
           /\ Append(b, x)[Len(Append(b, x))] = x
<1> DEFINE t == Append(s, n)
           c == Append(b, x)
<1>1. /\ Len(t) = Len(s) + 1 /\ t[Len(s) + 1] = n
      /\ \A i \in 1..Len(s) : t[i] = s[i]
  OBVIOUS
<1>e. t # <<>> /\ Len(s) \in Nat /\ (s = <<>> <=> Len(s) = 0)
  <2>1. t # <<>>
    BY AppendProperties
  <2> QED
    BY <2>1, LenProperties, EmptySeq
<1>2. /\ Len(c) = Len(s) + 1 /\ c[Len(s) + 1] = x
      /\ \A i \in 1..Len(s) : c[i] = b[i]
  OBVIOUS
<1> HIDE DEF t, c
<1>3. ASSUME NEW i \in 1..Len(t)
      PROVE  c[i] = IF t[i] \in WithBody THEN t[i] ELSE IF i = 1 THEN 0 ELSE c[i - 1]
  <2>1. CASE i = Len(s) + 1
    <3>1. Len(s) # 0 => c[i - 1] = b[Len(b)]
      BY <1>1, <1>2, <2>1
    <3> QED
      BY <1>1, <1>2, <1>e, <2>1, <3>1
  <2>2. CASE i # Len(s) + 1
    <3>1. i \in 1..Len(s)
      BY <1>1, <1>e, <2>2
    <3>2. i # 1 => i - 1 \in 1..Len(s)
      BY <1>e, <3>1
    <3> QED
      BY <1>1, <1>2, <3>1, <3>2 DEF Intact
  <2> QED
    BY <2>1, <2>2
<1> QED
  BY <1>1, <1>2, <1>3, <1>e DEF Intact, t, c

LEMMA BodyIntactIs == BodyIntact <=> \A e \in Ends : Intact(inbox[e], bodies[e])
  BY DEF BodyIntact, Intact

\* Handlers that read nothing into the buffer.
LEMMA BufferSame ==
    ASSUME BufferInv, UNCHANGED received,
           \A e \in Ends : reading'[e] = "body" => reading[e] = "body"
    PROVE  BufferInv'
<1>1. BodyIntact'
  BY DEF BufferInv, BodyIntact
<1>2. \A e \in Ends : Buffer(e)'
  BY DEF BufferInv, Buffer
<1> QED
  BY <1>1, <1>2 DEF BufferInv

LEMMA BufferRead ==
    ASSUME BufferInv, TypeOK, TypeOK', NEW e \in Ends, OnReadHeader(e) \/ OnReadBody(e)
    PROVE  BufferInv'
<1>a. /\ inbox \in [Ends -> Seq(Nat)] /\ bodies \in [Ends -> Seq(Nat)]
      /\ tempIn \in [Ends -> Nat] /\ tempBody \in [Ends -> Nat]
      /\ reading \in [Ends -> {"none", "validation", "header", "body", "failing"}]
      /\ tempIn'[e] \in Nat /\ tempIn[e] \in Nat /\ tempBody[e] \in Nat
      /\ inbox[e] \in Seq(Nat) /\ bodies[e] \in Seq(Nat)
  BY DEF TypeOK
<1>b. Buffer(e) /\ Intact(inbox[e], bodies[e])
  BY BodyIntactIs DEF BufferInv
<1>1. ASSUME NEW f \in Ends, f # e PROVE Intact(inbox[f], bodies[f])' /\ Buffer(f)'
  <2>1. /\ reading'[f] = reading[f] /\ tempIn'[f] = tempIn[f] /\ tempBody'[f] = tempBody[f]
        /\ inbox'[f] = inbox[f] /\ bodies'[f] = bodies[f]
    BY <1>a, <1>1 DEF OnReadHeader, OnReadBody, mf_add_to_incomming_message_queue,
                      mf_read_header, StartRead
  <2>2. Buffer(f) /\ Intact(inbox[f], bodies[f])
    BY BodyIntactIs DEF BufferInv
  <2> QED
    BY <2>1, <2>2 DEF Buffer, Intact
<1>2. Intact(inbox[e], bodies[e])' /\ Buffer(e)'
  <2>1. ASSUME NEW n \in Nat, NEW x \in Nat,
               inbox'[e] = Append(inbox[e], n), bodies'[e] = Append(bodies[e], x),
               tempBody'[e] = x, reading'[e] # "body",
               x = IF n \in WithBody THEN n
                   ELSE IF inbox[e] = <<>> THEN 0 ELSE bodies[e][Len(bodies[e])]
        PROVE  Intact(inbox[e], bodies[e])' /\ Buffer(e)'
    <3> DEFINE s == inbox[e]
               b == bodies[e]
    <3>1. Len(b) = Len(s) /\ Intact(s, b)
      BY <1>b DEF Buffer
    <3>2. s \in Seq(Nat) /\ b \in Seq(Nat)
      BY <1>a
    <3>3. x = IF n \in WithBody THEN n ELSE IF s = <<>> THEN 0 ELSE b[Len(b)]
      BY <2>1
    <3> HIDE DEF s, b
    <3>4. /\ Intact(Append(s, n), Append(b, x))
          /\ Len(Append(b, x)) = Len(Append(s, n)) /\ Append(s, n) # <<>>
          /\ Append(b, x)[Len(Append(b, x))] = x
      BY <3>1, <3>2, <3>3, IntactGrows
    <3>5. Intact(inbox'[e], bodies'[e])
      BY <2>1, <3>4 DEF s, b
    <3>6. Buffer(e)'
      BY <2>1, <3>4 DEF s, b, Buffer
    <3> QED
      BY <3>5, <3>6 DEF Intact
  <2>2. CASE OnReadBody(e)
    <3>1. tempIn[e] \in WithBody
      BY <1>b, <2>2 DEF OnReadBody, Buffer
    <3>2. /\ inbox'[e] = Append(inbox[e], tempIn[e])
          /\ bodies'[e] = Append(bodies[e], tempIn[e])
          /\ tempBody'[e] = tempIn[e] /\ reading'[e] # "body"
      BY <1>a, <2>2 DEF OnReadBody, mf_add_to_incomming_message_queue, mf_read_header, StartRead
    <3> QED
      BY <1>a, <2>1, <3>1, <3>2
  <2>3. CASE OnReadHeader(e)
    <3> DEFINE n == Head(wire[Peer(e)]).n
    <3>1. tempIn'[e] = n /\ tempBody' = tempBody /\ n \in Nat
      BY <1>a, <2>3 DEF OnReadHeader
    <3>2. CASE n \in WithBody
      <4>1. /\ inbox'[e] = inbox[e] /\ bodies'[e] = bodies[e]
        BY <2>3, <3>2 DEF OnReadHeader
      <4> QED
        BY <1>b, <3>1, <3>2, <4>1 DEF Buffer, Intact
    <3>3. CASE n \notin WithBody
      <4>1. /\ inbox'[e] = Append(inbox[e], n)
            /\ bodies'[e] = Append(bodies[e], tempBody[e])
            /\ reading'[e] # "body"
        BY <1>a, <2>3, <3>3
        DEF OnReadHeader, mf_add_to_incomming_message_queue, mf_read_header, StartRead
      <4>2. tempBody[e] = IF inbox[e] = <<>> THEN 0 ELSE bodies[e][Len(bodies[e])]
        BY <1>b DEF Buffer
      <4> HIDE DEF n
      <4> QED
        BY <1>a, <2>1, <3>1, <3>3, <4>1, <4>2
    <3> QED
      BY <3>2, <3>3
  <2> QED
    BY <2>2, <2>3
<1>3. \A f \in Ends : Intact(inbox[f], bodies[f])' /\ Buffer(f)'
  BY <1>1, <1>2
<1>4. BodyIntact'
  BY <1>3 DEF BodyIntact, Intact
<1> QED
  BY <1>3, <1>4 DEF BufferInv

LEMMA BufferNext == TypeOK /\ TypeOK' /\ BufferInv /\ [Next]_vars => BufferInv'
<1> SUFFICES ASSUME TypeOK, TypeOK', BufferInv, [Next]_vars PROVE BufferInv'
  OBVIOUS
<1>a. reading \in [Ends -> {"none", "validation", "header", "body", "failing"}]
  BY DEF TypeOK
<1>1. CASE Establish \/ Post \/ Network \/ UNCHANGED vars
  <2>1. UNCHANGED received /\ \A e \in Ends : reading'[e] = "body" => reading[e] = "body"
    BY <1>a, <1>1 DEF Establish, ConnectToServer, TcpSettle, OnConnect, OnAccept, StartRead,
                      Post, Send, Disconnect, Network, Break, LoseTail, vars
  <2> QED
    BY <2>1, BufferSame
<1>2. ASSUME NEW e \in Ends, Tasks(e) \/ Writes(e) \/ WritesValidation(e) PROVE BufferInv'
  <2>1. UNCHANGED received
    BY <1>2 DEF Tasks, RunSend, RunClose, Writes, OnWriteHeader, OnWriteBody, OnWriteFailed,
                WritesValidation, OnWriteValidation, OnWriteValidationFailed
  <2>2. \A f \in Ends : reading'[f] = "body" => reading[f] = "body"
    BY <1>a, <1>2 DEF Tasks, RunSend, RunClose, Writes, OnWriteHeader, OnWriteBody,
                      OnWriteFailed, WritesValidation, OnWriteValidation,
                      OnWriteValidationFailed, mf_read_header, StartRead
  <2> QED
    BY <2>1, <2>2, BufferSame
<1>3. ASSUME NEW e \in Ends, Reads(e) PROVE BufferInv'
  <2>1. CASE OnReadHeader(e) \/ OnReadBody(e)
    BY <2>1, BufferRead
  <2>2. CASE ~(OnReadHeader(e) \/ OnReadBody(e))
    <3>1. UNCHANGED received /\ \A f \in Ends : reading'[f] = "body" => reading[f] = "body"
      BY <1>a, <1>3, <2>2 DEF Reads, OnReadAnswer, OnReadChallenge, OnReadFailed,
                              mf_read_header, StartRead
    <3> QED
      BY <3>1, BufferSame
  <2> QED
    BY <2>1, <2>2
<1> QED
  BY <1>1, <1>2, <1>3 DEF Next

(* A message with a body is delivered with it, and one without comes with the
   body delivered before it, for the one m_tempMessageIn all of them are read
   into (NetConnection.h:213-267). *)
THEOREM BodiesIntact == Spec => []BodyIntact
<1>1. Init => BufferInv
  BY DEF Init, BufferInv, BodyIntact, Buffer
<1>2. TypeOK /\ TypeOK' /\ BufferInv /\ [Next]_vars => BufferInv'
  BY BufferNext
<1>3. BufferInv => BodyIntact
  BY DEF BufferInv
<1> QED
  BY <1>1, <1>2, <1>3, TypeCorrect, PTL DEF Spec
=============================================================================
