----------------------------- MODULE Connection -----------------------------
(***************************************************************************)
(* One link of the net framework: the Connection<T> object of the server   *)
(* and the one of the client, the TCP stream between them, and the         *)
(* io_context of each process, whose single thread runs the handlers.      *)
(*                                                                         *)
(* A message is the number of the send() that posted it at its end, so the *)
(* n-th message an end sends is n; a message in WithBody has a body, any   *)
(* other one is only a header.  A stream is a sequence of the units        *)
(* async_read and async_write move: a handshake word, a header, a body.    *)
(* A unit is on the stream from the moment its write is initiated (asio    *)
(* hands it to the kernel in initiation order) until the read completes.   *)
(*                                                                         *)
(* Every action named On... is one completion handler, run to its end:     *)
(* the io thread of a process runs one handler at a time and the two       *)
(* processes share only the stream.                                        *)
(***************************************************************************)
EXTENDS Naturals, Sequences

CONSTANTS WithBody,    \* the messages whose body is not empty
          Words,       \* the 64-bit words used in the handshake
          Challenges,  \* those the server's clock may give
          Scramble(_), \* mf_scramble
          Welcome,     \* messages the server sends from on_client_validated
          MaxTasks     \* bound: tasks posted at one end by application threads

ASSUME ConnectionAssumption ==
    /\ WithBody \subseteq Nat
    /\ Words \subseteq Nat
    /\ 0 \in Words
    /\ Challenges \subseteq Words
    /\ \A w \in Words : Scramble(w) \in Words
    /\ Welcome \in Nat
    /\ MaxTasks \in Nat

VARIABLES
    tcp,          \* the TCP connection: none, connecting, refused, up, down
    wire,         \* wire[e]: units written by e and not yet read by its peer
    socket,       \* m_socket.is_open()
    stage,        \* idle, dialling (async_connect pending), running, failed
    posted,       \* tasks posted to the io_context by send() and disconnect()
    ran,          \* how many of them have run: posted tasks run in FIFO order
    closeTask,    \* the number of the task disconnect() posted, 0 if none
    qOut,         \* m_qMessagesOut
    writing,      \* the write loop's outstanding async_write
    validating,   \* the outstanding async_write of mf_write_validation
    reading,      \* the outstanding async_read
    tempIn,       \* m_tempMessageIn: the message whose header was read last
    tempBody,     \* and the one whose body it holds, 0 if none
    inbox,        \* the messages pushed to m_qMessagesIn, in order
    bodies,       \* the bodies they were pushed with, 0 for an empty one
    handshakeOut  \* m_nHandshakeOut

tasks == <<posted, ran, closeTask>>
received == <<tempIn, tempBody, inbox, bodies>>
vars == <<tcp, wire, socket, stage, tasks, qOut, writing, validating,
          reading, received, handshakeOut>>

Ends == {"server", "client"}
Peer(e) == IF e = "server" THEN "client" ELSE "server"

\* An operation that asio will complete with an error is "failing".
Unit == [kind : {"validation", "header", "body"}, n : Nat]
Validation(w) == [kind |-> "validation", n |-> w]
Header(n) == [kind |-> "header", n |-> n]
Body(n) == [kind |-> "body", n |-> n]

TypeOK ==
    /\ tcp \in {"none", "connecting", "refused", "up", "down"}
    /\ wire \in [Ends -> Seq(Unit)]
    /\ socket \in [Ends -> {"open", "closed"}]
    /\ stage \in [Ends -> {"idle", "dialling", "running", "failed"}]
    /\ posted \in [Ends -> Nat]
    /\ ran \in [Ends -> Nat]
    /\ closeTask \in [Ends -> Nat]
    /\ qOut \in [Ends -> Seq(Nat)]
    /\ writing \in [Ends -> {"none", "header", "body", "failing"}]
    /\ validating \in [Ends -> {"none", "pending", "failing"}]
    /\ reading \in [Ends -> {"none", "validation", "header", "body", "failing"}]
    /\ tempIn \in [Ends -> Nat]
    /\ tempBody \in [Ends -> Nat]
    /\ inbox \in [Ends -> Seq(Nat)]
    /\ bodies \in [Ends -> Seq(Nat)]
    /\ handshakeOut \in [Ends -> Words]

Init ==
    /\ tcp = "none"
    /\ wire = [e \in Ends |-> <<>>]
    /\ socket = [e \in Ends |-> "closed"]
    /\ stage = [e \in Ends |-> "idle"]
    /\ posted = [e \in Ends |-> 0]
    /\ ran = [e \in Ends |-> 0]
    /\ closeTask = [e \in Ends |-> 0]
    /\ qOut = [e \in Ends |-> <<>>]
    /\ writing = [e \in Ends |-> "none"]
    /\ validating = [e \in Ends |-> "none"]
    /\ reading = [e \in Ends |-> "none"]
    /\ tempIn = [e \in Ends |-> 0]
    /\ tempBody = [e \in Ends |-> 0]
    /\ inbox = [e \in Ends |-> <<>>]
    /\ bodies = [e \in Ends |-> <<>>]
    /\ handshakeOut = [e \in Ends |-> 0]

-----------------------------------------------------------------------------
(* The operations a handler initiates.  Each is used at most once a step.  *)

\* Whether a write initiated now reaches the stream.
Usable(e) == socket[e] = "open" /\ tcp = "up"

Transmit(e, unit) ==
    wire' = IF Usable(e) THEN [wire EXCEPT ![e] = Append(@, unit)] ELSE wire

StartRead(e, kind) ==
    reading' = [reading EXCEPT
                  ![e] = IF socket[e] = "open" THEN kind ELSE "failing"]

mf_read_header(e) == StartRead(e, "header")

mf_write_validation(e, word) ==
    /\ validating' = [validating EXCEPT
                        ![e] = IF Usable(e) THEN "pending" ELSE "failing"]
    /\ Transmit(e, Validation(word))

StartWrite(e, unit) ==
    /\ writing' = [writing EXCEPT
                     ![e] = IF Usable(e) THEN unit.kind ELSE "failing"]
    /\ Transmit(e, unit)

mf_write_header(e, n) == StartWrite(e, Header(n))
mf_write_body(e, n) == StartWrite(e, Body(n))

\* m_socket.close(): no effect on a socket that is closed already.
CloseSocket(e) ==
    /\ socket' = [socket EXCEPT ![e] = "closed"]
    /\ tcp' = CASE tcp = "up" -> "down"
                [] tcp = "connecting" -> "refused"
                [] OTHER -> tcp

\* The message just transmitted leaves the queue; the next one is written.
LeaveStalled(e) ==
    /\ qOut' = [qOut EXCEPT ![e] = Tail(@)]
    /\ writing' = [writing EXCEPT ![e] = "none"]
    /\ UNCHANGED wire
PopAndContinue(e) ==
    /\ qOut' = [qOut EXCEPT ![e] = Tail(@)]
    /\ IF Tail(qOut[e]) # <<>>
         THEN mf_write_header(e, Head(Tail(qOut[e])))
         ELSE /\ writing' = [writing EXCEPT ![e] = "none"]
              /\ UNCHANGED wire

\* The message n is pushed with the body that m_tempMessageIn holds.
AddWithoutReading(e, n, body) ==
    /\ inbox' = [inbox EXCEPT ![e] = Append(@, n)]
    /\ bodies' = [bodies EXCEPT ![e] = Append(@, body)]
    /\ reading' = [reading EXCEPT ![e] = "none"]
mf_add_to_incomming_message_queue(e, n, body) ==
    /\ inbox' = [inbox EXCEPT ![e] = Append(@, n)]
    /\ bodies' = [bodies EXCEPT ![e] = Append(@, body)]
    /\ mf_read_header(e)
-----------------------------------------------------------------------------
(* Establishing the link.                                                  *)

ConnectToServer ==
    /\ stage["client"] = "idle"
    /\ stage' = [stage EXCEPT !["client"] = "dialling"]
    /\ socket' = [socket EXCEPT !["client"] = "open"]
    /\ tcp' = "connecting"
    /\ UNCHANGED <<wire, tasks, qOut, writing, validating, reading, received, handshakeOut>>

\* The kernels: the TCP handshake succeeds or not.
TcpSettle ==
    /\ tcp = "connecting"
    /\ tcp' \in {"up", "refused"}
    /\ UNCHANGED <<wire, socket, stage, tasks, qOut, writing, validating,
                   reading, received, handshakeOut>>

\* The handler of async_connect; it ignores an error.
OnConnect ==
    /\ stage["client"] = "dialling"
    /\ \/ /\ tcp \in {"up", "down"}
          /\ stage' = [stage EXCEPT !["client"] = "running"]
          /\ StartRead("client", "validation")
       \/ /\ tcp = "refused" \/ socket["client"] = "closed"
          /\ stage' = [stage EXCEPT !["client"] = "failed"]
          /\ UNCHANGED reading
    /\ UNCHANGED <<tcp, wire, socket, tasks, qOut, writing, validating, received, handshakeOut>>

\* The server's accept handler: the Connection object is built, the approval
\* message is posted by on_client_connect, the challenge is written, and the
\* answer is read.  The posted message cannot overtake the challenge.
OnAccept ==
    /\ stage["server"] = "idle"
    /\ tcp \in {"up", "down"}
    /\ stage' = [stage EXCEPT !["server"] = "running"]
    /\ socket' = [socket EXCEPT !["server"] = "open"]
    /\ posted' = [posted EXCEPT !["server"] = @ + 1]
    /\ \E word \in Challenges :
         /\ handshakeOut' = [handshakeOut EXCEPT !["server"] = word]
         /\ wire' = IF tcp = "up"
                      THEN [wire EXCEPT !["server"] = Append(@, Validation(word))]
                      ELSE wire
    /\ validating' = [validating EXCEPT
                        !["server"] = IF tcp = "up" THEN "pending" ELSE "failing"]
    /\ reading' = [reading EXCEPT !["server"] = "validation"]
    /\ UNCHANGED <<tcp, ran, closeTask, qOut, writing, received>>
-----------------------------------------------------------------------------
(* Application threads and the tasks they post.                            *)

\* send(): the server's application may send on any accepted connection; the
\* client's map thread starts once m_start has received the whole welcome.
Send(e) ==
    /\ posted[e] < MaxTasks
    /\ IF e = "server" THEN stage[e] = "running"
                       ELSE Len(inbox[e]) >= 1 + Welcome
    /\ posted' = [posted EXCEPT ![e] = @ + 1]
    /\ UNCHANGED <<tcp, wire, socket, stage, ran, closeTask, qOut, writing,
                   validating, reading, received, handshakeOut>>

\* disconnect(): only the client's interface calls it.
Disconnect ==
    /\ posted["client"] < MaxTasks
    /\ socket["client"] = "open"
    /\ closeTask["client"] = 0
    /\ posted' = [posted EXCEPT !["client"] = @ + 1]
    /\ closeTask' = [closeTask EXCEPT !["client"] = posted["client"] + 1]
    /\ UNCHANGED <<tcp, wire, socket, stage, ran, qOut, writing, validating,
                   reading, received, handshakeOut>>

\* The lambda send() posted.
RunSendUnguarded(e) ==
    /\ ran[e] < posted[e]
    /\ ran[e] + 1 # closeTask[e]
    /\ ran' = [ran EXCEPT ![e] = @ + 1]
    /\ qOut' = [qOut EXCEPT ![e] = Append(@, ran[e] + 1)]
    /\ mf_write_header(e, Head(qOut'[e]))
    /\ UNCHANGED <<tcp, socket, stage, posted, closeTask, validating, reading,
                   received, handshakeOut>>
RunSendPushFront(e) ==
    /\ ran[e] < posted[e]
    /\ ran[e] + 1 # closeTask[e]
    /\ ran' = [ran EXCEPT ![e] = @ + 1]
    /\ qOut' = [qOut EXCEPT ![e] = IF @ = <<>> THEN <<ran[e] + 1>>
                                   ELSE <<Head(@), ran[e] + 1>> \o Tail(@)]
    /\ IF qOut[e] = <<>>
         THEN mf_write_header(e, ran[e] + 1)
         ELSE UNCHANGED <<writing, wire>>
    /\ UNCHANGED <<tcp, socket, stage, posted, closeTask, validating, reading,
                   received, handshakeOut>>
RunSend(e) ==
    /\ ran[e] < posted[e]
    /\ ran[e] + 1 # closeTask[e]
    /\ ran' = [ran EXCEPT ![e] = @ + 1]
    /\ qOut' = [qOut EXCEPT ![e] = Append(@, ran[e] + 1)]
    /\ IF qOut[e] = <<>>
         THEN mf_write_header(e, ran[e] + 1)
         ELSE UNCHANGED <<writing, wire>>
    /\ UNCHANGED <<tcp, socket, stage, posted, closeTask, validating, reading,
                   received, handshakeOut>>

\* The lambda disconnect() posted.
RunClose(e) ==
    /\ ran[e] < posted[e]
    /\ ran[e] + 1 = closeTask[e]
    /\ ran' = [ran EXCEPT ![e] = @ + 1]
    /\ CloseSocket(e)
    /\ UNCHANGED <<wire, stage, posted, closeTask, qOut, writing, validating,
                   reading, received, handshakeOut>>
-----------------------------------------------------------------------------
(* Completion handlers without an error.                                   *)

\* The server's branch of the handler of mf_read_validation: the right answer
\* lets on_client_validated send its messages and starts the read loop.
OnReadAnswer ==
    /\ reading["server"] = "validation"
    /\ wire["client"] # <<>>
    /\ wire' = [wire EXCEPT !["client"] = Tail(@)]
    /\ IF Head(wire["client"]) = Validation(Scramble(handshakeOut["server"]))
         THEN /\ posted' = [posted EXCEPT !["server"] = @ + Welcome]
              /\ mf_read_header("server")
              /\ UNCHANGED <<tcp, socket>>
         ELSE /\ CloseSocket("server")
              /\ reading' = [reading EXCEPT !["server"] = "none"]
              /\ UNCHANGED posted
    /\ UNCHANGED <<stage, ran, closeTask, qOut, writing, validating, received, handshakeOut>>

\* The client's branch: answer the challenge.
AnswerAndRead ==
    /\ reading["client"] = "validation"
    /\ wire["server"] # <<>>
    /\ LET word == Scramble(Head(wire["server"]).n)
           onWire == [wire EXCEPT !["server"] = Tail(@)]
       IN /\ handshakeOut' = [handshakeOut EXCEPT !["client"] = word]
          /\ wire' = IF Usable("client")
                       THEN [onWire EXCEPT !["client"] = Append(@, Validation(word))]
                       ELSE onWire
    /\ validating' = [validating EXCEPT !["client"] = "pending"]
    /\ mf_read_header("client")
    /\ UNCHANGED <<tcp, socket, stage, tasks, qOut, writing, received>>
OnReadChallenge ==
    /\ reading["client"] = "validation"
    /\ wire["server"] # <<>>
    /\ LET word == Scramble(Head(wire["server"]).n)
           onWire == [wire EXCEPT !["server"] = Tail(@)]
       IN /\ handshakeOut' = [handshakeOut EXCEPT !["client"] = word]
          /\ wire' = IF Usable("client")
                       THEN [onWire EXCEPT !["client"] = Append(@, Validation(word))]
                       ELSE onWire
    /\ validating' = [validating EXCEPT
                        !["client"] = IF Usable("client") THEN "pending" ELSE "failing"]
    /\ reading' = [reading EXCEPT !["client"] = "none"]
    /\ UNCHANGED <<tcp, socket, stage, tasks, qOut, writing, received>>

\* The handler of mf_write_validation: the client starts its read loop.
OnWriteValidation(e) ==
    /\ validating[e] = "pending"
    /\ validating' = [validating EXCEPT ![e] = "none"]
    /\ IF e = "client" THEN mf_read_header(e) ELSE UNCHANGED reading
    /\ UNCHANGED <<tcp, wire, socket, stage, tasks, qOut, writing, received, handshakeOut>>

OnReadHeader(e) ==
    /\ reading[e] = "header"
    /\ wire[Peer(e)] # <<>>
    /\ wire' = [wire EXCEPT ![Peer(e)] = Tail(@)]
    /\ LET n == Head(wire[Peer(e)]).n
       IN /\ tempIn' = [tempIn EXCEPT ![e] = n]
          /\ IF n \in WithBody
               THEN StartRead(e, "body") /\ UNCHANGED <<inbox, bodies>>
               ELSE mf_add_to_incomming_message_queue(e, n, tempBody[e])
    /\ UNCHANGED <<tcp, socket, stage, tasks, qOut, writing, validating,
                   tempBody, handshakeOut>>

PushBeforeStore(e) ==
    /\ reading[e] = "body"
    /\ wire[Peer(e)] # <<>>
    /\ wire' = [wire EXCEPT ![Peer(e)] = Tail(@)]
    /\ tempBody' = [tempBody EXCEPT ![e] = tempIn[e]]
    /\ mf_add_to_incomming_message_queue(e, tempIn[e], tempBody[e])
    /\ UNCHANGED <<tcp, socket, stage, tasks, qOut, writing, validating, tempIn,
                   handshakeOut>>
OnReadBody(e) ==
    /\ reading[e] = "body"
    /\ wire[Peer(e)] # <<>>
    /\ wire' = [wire EXCEPT ![Peer(e)] = Tail(@)]
    /\ tempBody' = [tempBody EXCEPT ![e] = tempIn[e]]
    /\ mf_add_to_incomming_message_queue(e, tempIn[e], tempIn[e])
    /\ UNCHANGED <<tcp, socket, stage, tasks, qOut, writing, validating, tempIn,
                   handshakeOut>>

OnWriteHeaderPopEarly(e) ==
    /\ writing[e] = "header"
    /\ IF Head(qOut[e]) \in WithBody
         THEN /\ mf_write_body(e, Head(qOut[e]))
              /\ qOut' = [qOut EXCEPT ![e] = Tail(@)]
         ELSE PopAndContinue(e)
    /\ UNCHANGED <<tcp, socket, stage, tasks, validating, reading, received, handshakeOut>>
OnWriteHeader(e) ==
    /\ writing[e] = "header"
    /\ IF Head(qOut[e]) \in WithBody
         THEN mf_write_body(e, Head(qOut[e])) /\ UNCHANGED qOut
         ELSE PopAndContinue(e)
    /\ UNCHANGED <<tcp, socket, stage, tasks, validating, reading, received, handshakeOut>>

OnWriteBody(e) ==
    /\ writing[e] = "body"
    /\ PopAndContinue(e)
    /\ UNCHANGED <<tcp, socket, stage, tasks, validating, reading, received, handshakeOut>>
-----------------------------------------------------------------------------
(* Completion handlers with an error: all of them close the socket.  An    *)
(* operation fails if it was initiated on a closed socket or a broken      *)
(* link, if the socket is closed under it, or if the link breaks; a read   *)
(* still completes from what has arrived.                                  *)

Broken(e) == socket[e] = "closed" \/ tcp = "down"

ReadFailedNoClose(e) ==
    /\ \/ reading[e] = "failing"
       \/ /\ reading[e] \in {"validation", "header", "body"}
          /\ socket[e] = "closed" \/ (tcp = "down" /\ wire[Peer(e)] = <<>>)
    /\ reading' = [reading EXCEPT ![e] = "none"]
    /\ UNCHANGED <<tcp, socket, wire, stage, tasks, qOut, writing, validating,
                   received, handshakeOut>>
OnReadFailed(e) ==
    /\ \/ reading[e] = "failing"
       \/ /\ reading[e] \in {"validation", "header", "body"}
          /\ socket[e] = "closed" \/ (tcp = "down" /\ wire[Peer(e)] = <<>>)
    /\ reading' = [reading EXCEPT ![e] = "none"]
    /\ CloseSocket(e)
    /\ UNCHANGED <<wire, stage, tasks, qOut, writing, validating, received,
                   handshakeOut>>

OnWriteFailed(e) ==
    /\ \/ writing[e] = "failing"
       \/ writing[e] \in {"header", "body"} /\ Broken(e)
    /\ writing' = [writing EXCEPT ![e] = "none"]
    /\ CloseSocket(e)
    /\ UNCHANGED <<wire, stage, tasks, qOut, validating, reading, received,
                   handshakeOut>>

OnWriteValidationFailed(e) ==
    /\ \/ validating[e] = "failing"
       \/ validating[e] = "pending" /\ Broken(e)
    /\ validating' = [validating EXCEPT ![e] = "none"]
    /\ CloseSocket(e)
    /\ UNCHANGED <<wire, stage, tasks, qOut, writing, reading, received,
                   handshakeOut>>

\* The network: the connection breaks; what was in flight may be lost, from
\* the end of the stream.
Break ==
    /\ tcp = "up"
    /\ tcp' = "down"
    /\ UNCHANGED <<wire, socket, stage, tasks, qOut, writing, validating,
                   reading, received, handshakeOut>>

LoseTail(e) ==
    /\ tcp = "down"
    /\ wire[e] # <<>>
    /\ wire' = [wire EXCEPT ![e] = SubSeq(@, 1, Len(@) - 1)]
    /\ UNCHANGED <<tcp, socket, stage, tasks, qOut, writing, validating,
                   reading, received, handshakeOut>>
-----------------------------------------------------------------------------
Establish == ConnectToServer \/ TcpSettle \/ OnConnect \/ OnAccept

Post == Disconnect \/ \E e \in Ends : Send(e)

Tasks(e) == RunSend(e) \/ RunClose(e)

Reads(e) ==
    \/ e = "server" /\ OnReadAnswer
    \/ e = "client" /\ OnReadChallenge
    \/ OnReadHeader(e) \/ OnReadBody(e) \/ OnReadFailed(e)

Writes(e) == OnWriteHeader(e) \/ OnWriteBody(e) \/ OnWriteFailed(e)

WritesValidation(e) == OnWriteValidation(e) \/ OnWriteValidationFailed(e)

Network == Break \/ \E e \in Ends : LoseTail(e)

Next ==
    \/ Establish
    \/ Post
    \/ \E e \in Ends : Tasks(e) \/ Reads(e) \/ Writes(e) \/ WritesValidation(e)
    \/ Network

Spec == Init /\ [][Next]_vars

\* run() of an io_context executes every handler that is ready; asio completes
\* every operation; the kernels settle every connection attempt.  Nobody has to
\* send, to disconnect or to break the link.
Fairness ==
    /\ WF_vars(TcpSettle) /\ WF_vars(OnConnect) /\ WF_vars(OnAccept)
    /\ \A e \in Ends : /\ WF_vars(Tasks(e)) /\ WF_vars(Reads(e))
                       /\ WF_vars(Writes(e)) /\ WF_vars(WritesValidation(e))

FairSpec == Spec /\ Fairness
-----------------------------------------------------------------------------
(* The write loop never touches the front of an empty queue: an outstanding
   write of a header or a body always belongs to a message that is still at
   the front of m_qMessagesOut (NetConnection.h:271,276,282,299,304). *)
FrontExists ==
    \A e \in Ends :
        /\ writing[e] \in {"header", "body"} => qOut[e] # <<>>
        /\ writing[e] = "body" => Head(qOut[e]) \in WithBody

(* The write loop never goes to sleep on a message: as long as the socket is
   open, a non-empty queue has an outstanding write whose handler goes on with
   it, so the test in send() (line 148) never strands a message. *)
WriteLoopAlive ==
    \A e \in Ends :
        socket[e] = "open" /\ qOut[e] # <<>> => writing[e] # "none"

(* An open connection always listens, or waits for its handshake word to be
   written before it does: it cannot miss that its peer is gone. *)
ReadLoopAlive ==
    \A e \in Ends :
        stage[e] = "running" /\ socket[e] = "open"
            => reading[e] # "none" \/ (e = "client" /\ validating[e] # "none")

\* The unit the outstanding read of e must find: the handshake word of its
\* peer (the server's challenge, the client's answer to it), the header of the
\* next message, or the body of the message whose header was read last.
Expected(e) ==
    CASE reading[e] = "validation" /\ e = "client"
            -> Validation(handshakeOut["server"])
      [] reading[e] = "validation" /\ e = "server"
            -> Validation(Scramble(handshakeOut["server"]))
      [] reading[e] = "header" -> Header(Len(inbox[e]) + 1)
      [] OTHER -> Body(tempIn[e])

(* A message that has a body is delivered with that body, although all messages are
   read into the same buffer.  One that has none comes with the body delivered before
   it, as the buffer is not cleared: with none if it is the first on its link, as
   Server_Accept is, and never with one still to come (NetConnection.h:222-227). *)
BodyIntact ==
    \A e \in Ends : \A i \in 1..Len(inbox[e]) :
        bodies[e][i] = IF inbox[e][i] \in WithBody THEN inbox[e][i]
                       ELSE IF i = 1 THEN 0
                       ELSE bodies[e][i - 1]

(* The two ends never lose step: every read finds the unit it is meant for.
   Headers and handshake words have the same size and carry no tag, so a header
   written before the handshake word, two interleaved messages or a skipped
   body would be taken for something else without any error. *)
Framed ==
    \A e \in Ends :
        reading[e] \in {"validation", "header", "body"} /\ wire[Peer(e)] # <<>>
            => Head(wire[Peer(e)]) = Expected(e)

\* How far the receiving end of a direction has come.
ReadPhase(e) ==
    CASE reading[e] \in {"header", "body"} -> "flowing"
      [] \/ stage[e] \in {"idle", "dialling"}
         \/ reading[e] = "validation"
         \/ e = "client" /\ reading[e] = "none" /\ validating[e] = "pending"
            -> "handshake"
      [] OTHER -> "ended"

ToClient == INSTANCE Channel WITH sent <- posted["server"],
                                  delivered <- inbox["client"],
                                  phase <- ReadPhase("client")
ToServer == INSTANCE Channel WITH sent <- posted["client"],
                                  delivered <- inbox["server"],
                                  phase <- ReadPhase("server")

(* Both directions of a link implement the abstract channel: in order, no loss
   in the middle, no duplicate, nothing before the handshake and nothing after
   reading was given up. *)
EachChannel == ToClient!Spec /\ ToServer!Spec

(* While the link stays up every posted message arrives: the n-th message
   reaches the peer's queue, or the link goes down or never comes up. *)
Delivered ==
    \A e \in Ends, n \in 1..MaxTasks :
        posted[e] >= n ~> \/ Len(inbox[Peer(e)]) >= n
                          \/ tcp \in {"refused", "down"}

(* When the link is gone both ends find out and close their socket, so
   is_connected() does not stay true for ever. *)
CloseNoticed == tcp = "down" ~> \A e \in Ends : socket[e] = "closed"
=============================================================================
