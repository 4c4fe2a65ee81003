--------------------------- MODULE ConnectionInv ---------------------------
(***************************************************************************)
(* The inductive invariant of Connection, in named parts.  A direction of  *)
(* the link is a sequence of units that a writer extends and a reader      *)
(* consumes: the handshake word, then for n = 1, 2, ... the header of n    *)
(* and, if it has one, its body.  The invariant says where in that         *)
(* sequence the writer, the wire and the reader are.                       *)
(***************************************************************************)
EXTENDS Connection

\* The write loop.
TasksInOrder(e) == ran[e] <= posted[e]
WriteLoop(e) == /\ writing[e] # "none" => qOut[e] # <<>>
                /\ writing[e] = "body" => Head(qOut[e]) \in WithBody
                /\ socket[e] = "open" /\ qOut[e] # <<>> => writing[e] # "none"

\* The read loop, and the end before its Connection is in use.
ReadLoop(e) == stage[e] = "running" /\ socket[e] = "open"
                 => reading[e] # "none" \/ (e = "client" /\ validating[e] # "none")
Idle(e) == /\ stage[e] = "idle" =>
                /\ socket[e] = "closed" /\ posted[e] = 0 /\ writing[e] = "none"
                /\ qOut[e] = <<>> /\ inbox[e] = <<>> /\ wire[e] = <<>>
           /\ stage[e] \in {"idle", "dialling"} =>
                validating[e] = "none" /\ reading[e] = "none"

LoopsOK(e) == TasksInOrder(e) /\ WriteLoop(e) /\ ReadLoop(e) /\ Idle(e)
LoopInv == TypeOK /\ \A e \in Ends : LoopsOK(e)

\* What the client reads first is the server's challenge.
AtHandshake(e) == stage[e] \in {"idle", "dialling"} \/ reading[e] = "validation"
Dialled == /\ stage["client"] = "idle" => tcp = "none"
           /\ tcp \in {"none", "connecting", "refused"} => stage["server"] = "idle"
Greeting == AtHandshake("client") =>
              IF wire["server"] = <<>>
                THEN tcp = "up" => stage["server"] = "idle"
                ELSE Head(wire["server"]) = Validation(handshakeOut["server"])

(* The part of the invariant that is inductive without the rest: the two loops
   never fall asleep and never touch an empty queue, and the handshake starts
   with the challenge (without which not even the types are kept: the client
   would answer any number it finds). *)
BaseInv == LoopInv /\ Dialled /\ Greeting

\* The unit that comes after u in its direction.
Succ(u) == IF u.kind = "header" /\ u.n \in WithBody THEN Body(u.n)
           ELSE IF u.kind = "validation" THEN Header(1)
           ELSE Header(u.n + 1)

\* The handshake word e sends.
Word(e) == IF e = "server" THEN Validation(handshakeOut["server"])
                           ELSE Validation(Scramble(handshakeOut["server"]))

\* The unit e has to read next.
NextRead(e) == IF AtHandshake(e) THEN Word(Peer(e))
               ELSE IF reading[e] = "body" THEN Body(Len(inbox[e]) + 1)
               ELSE Header(Len(inbox[e]) + 1)

\* The unit e has to write next, while the link is up.
WordPending(e) == IF e = "server" THEN stage[e] = "idle" ELSE AtHandshake(e)
NextWrite(e) == IF WordPending(e) THEN Word(e)
                ELSE IF writing[e] = "header" THEN Succ(Header(Head(qOut[e])))
                ELSE IF writing[e] = "body" THEN Header(Head(qOut[e]) + 1)
                ELSE Header(ran[e] + 1)

\* A stretch s of such a direction, with messages up to last: where it begins
\* when the reader expects first, and where it ends when next will be added.
Chained(s, last) ==
    /\ \A i \in 1..(Len(s) - 1) : s[i + 1] = Succ(s[i])
    /\ \A i \in 1..Len(s) : s[i].kind # "validation" => s[i].n \in 1..last
Begins(s, first) == s # <<>> => s[1] = first
EndsBefore(s, first, next) == next = IF s = <<>> THEN first ELSE Succ(s[Len(s)])

\* What e has written and its peer has not read: it goes on where the reader
\* is, and while the link is up it ends where the writer is.
Stream(e) ==
    /\ Chained(wire[e], ran[e])
    /\ ReadPhase(Peer(e)) # "ended" => Begins(wire[e], NextRead(Peer(e)))
    /\ tcp = "up" => EndsBefore(wire[e], NextRead(Peer(e)), NextWrite(e))

\* What has arrived at e.
InboxInOrder(e) == \A i \in 1..Len(inbox[e]) : inbox[e][i] = i
BodyPending(e) == reading[e] = "body"
                    => tempIn[e] = Len(inbox[e]) + 1 /\ tempIn[e] \in 1..ran[Peer(e)]
Listening(e) == ReadPhase(e) = "handshake" => inbox[e] = <<>>
Arrived(e) == InboxInOrder(e) /\ BodyPending(e) /\ Listening(e)

\* The messages not yet sent.
QueueInOrder(e) == /\ Len(qOut[e]) <= ran[e]
                   /\ \A i \in 1..Len(qOut[e]) :
                         qOut[e][i] = ran[e] - Len(qOut[e]) + i

\* While the link is up nobody gave up.
LinkUp(e) ==
    tcp = "up" => /\ ReadPhase(e) # "ended"
                  /\ writing[e] # "failing"
                  /\ stage[e] # "idle" => socket[e] = "open"
                  /\ QueueInOrder(e)

\* Before the server has accepted nothing was written, and the client waits for
\* the challenge.  Until something arrives it can post nothing but a close, and
\* after that the link does not come up any more.
Waiting == stage["server"] = "idle" =>
             /\ wire["client"] = <<>> /\ validating["client"] = "none"
             /\ AtHandshake("client") \/ ReadPhase("client") = "ended"
Answering == reading["client"] # "none" => validating["client"] = "none"
Connecting == tcp = "connecting" => stage["client"] = "dialling" /\ socket["client"] = "open"
Silent == inbox["client"] = <<>> =>
            /\ qOut["client"] = <<>> /\ writing["client"] = "none"
            /\ \/ posted["client"] = 0
               \/ posted["client"] = 1 /\ closeTask["client"] = 1
Closing == closeTask["client"] # 0 /\ ran["client"] >= closeTask["client"]
             => tcp \notin {"connecting", "up"}
Setup == Waiting /\ Answering /\ Connecting /\ Silent /\ Closing

(* The inductive invariant: the type invariant, the state of the handshake,
   and for each end what has arrived there and what is on its way to it.  It is
   what makes Framed and the two channels hold. *)
IInv == /\ BaseInv
        /\ Setup
        /\ \A e \in Ends : Arrived(e) /\ LinkUp(e) /\ Stream(e)

\* The buffer of the read loop, on which BodyIntact rests; whether the messages
\* are the right ones does not matter to it.
Buffer(e) ==
    /\ Len(bodies[e]) = Len(inbox[e])
    /\ tempBody[e] = IF inbox[e] = <<>> THEN 0 ELSE bodies[e][Len(bodies[e])]
    /\ reading[e] = "body" => tempIn[e] \in WithBody
BufferInv == BodyIntact /\ \A e \in Ends : Buffer(e)
=============================================================================
