------------------------------ MODULE Channel ------------------------------
(***************************************************************************)
(* What one direction of a Connection promises its user: the messages an   *)
(* end sends reach the other end's incoming queue in the order they were   *)
(* sent, none twice, none skipped, none invented; only after the handshake *)
(* of the receiving end; and never again once that end stopped reading.    *)
(* Messages are numbered by the order in which send() accepted them.       *)
(* Nothing is promised about how many of them arrive: the link may fail.   *)
(***************************************************************************)
EXTENDS Naturals, Sequences

VARIABLES sent,      \* how many messages send() has accepted
          delivered, \* the messages put into the receiver's queue, in order
          phase      \* of the receiver: "handshake", "flowing", "ended"

vars == <<sent, delivered, phase>>

Init == /\ sent = 0
        /\ delivered = <<>>
        /\ phase = "handshake"

\* send(), once or several times in one handler.
Send == /\ sent' \in Nat
        /\ sent' > sent
        /\ UNCHANGED delivered

\* The next message arrives; the receiver may find out that it was the last.
Deliver == /\ phase = "flowing"
           /\ Len(delivered) < sent
           /\ delivered' = Append(delivered, Len(delivered) + 1)
           /\ phase' \in {"flowing", "ended"}
           /\ UNCHANGED sent

\* The receiver moves on: handshake done, or reading given up for good.
Advance == /\ <<phase, phase'>> \in {<<"handshake", "flowing">>,
                                     <<"handshake", "ended">>,
                                     <<"flowing", "ended">>}
           /\ UNCHANGED delivered

\* The handler that ends the server's handshake also sends, in one step.
Next == \/ Send /\ UNCHANGED phase
        \/ Deliver
        \/ Advance /\ (Send \/ UNCHANGED sent)

Spec == Init /\ [][Next]_vars
=============================================================================
