---------------------------- MODULE MessagePump ----------------------------
(***************************************************************************)
(* How messages get from the io thread to the application: the io thread   *)
(* pushes each message it has read into m_qMessagesIn, and the main thread *)
(* takes them out.  A client's main thread first polls the queue in        *)
(* m_start() until it has seen the welcome, as long as is_connected() says *)
(* so; then, like the server's main thread from the beginning, it runs     *)
(* update(nMaxMessages, bwait) for ever.  Messages are numbered in the     *)
(* order of their arrival.                                                 *)
(***************************************************************************)
EXTENDS TSQueue

CONSTANTS StartUp,      \* messages m_start() consumes; 0 for the server
          nMaxMessages, \* the argument of update(): messages per call
          bwait,        \* and whether it waits for a message first
          MaxMessages   \* bound: messages that arrive

ASSUME PumpAssumption ==
    /\ StartUp \in Nat
    /\ nMaxMessages \in Nat \ {0}
    /\ bwait \in BOOLEAN
    /\ MaxMessages \in Nat

VARIABLES connected, \* is_connected()
          arrived,   \* messages the io thread has pushed
          pc,        \* of the main thread
          inHand,    \* the message on_message() is working on, 0 if none
          count,     \* nMessageCount of the running update()
          handled    \* the messages handled, in order

vars == <<queueVars, connected, arrived, pc, inHand, count, handled>>

\* The threads: the io thread never waits, so only main is ever asleep.
TypeOK ==
    /\ deqQueue \in Seq(Nat)
    /\ sleeping \subseteq {"main"}
    /\ woken \subseteq {"main"}
    /\ connected \in BOOLEAN
    /\ arrived \in Nat
    /\ pc \in {"poll", "pollEmpty", "pollPop", "update", "asleep", "test", "pop", "handle"}
    /\ inHand \in Nat
    /\ count \in Nat
    /\ handled \in Seq(Nat)

Init ==
    /\ QueueInit
    /\ connected = TRUE
    /\ arrived = 0
    /\ pc = IF StartUp = 0 THEN "update" ELSE "poll"
    /\ inHand = 0
    /\ count = 0
    /\ handled = <<>>

Starting == Len(handled) < StartUp
-----------------------------------------------------------------------------
(* The io thread.                                                          *)

\* mf_add_to_incomming_message_queue(): a client has one connection, a server
\* has others when one is lost.
Arrive ==
    /\ connected \/ StartUp = 0
    /\ arrived < MaxMessages
    /\ arrived' = arrived + 1
    /\ push_back(arrived + 1)
    /\ UNCHANGED <<connected, pc, inHand, count, handled>>

\* A handler closes the socket.
Close ==
    /\ connected
    /\ connected' = FALSE
    /\ UNCHANGED <<queueVars, arrived, pc, inHand, count, handled>>
-----------------------------------------------------------------------------
(* The main thread.                                                        *)

\* m_start(): is_connected(), or around again.
Poll ==
    /\ pc = "poll"
    /\ connected
    /\ pc' = "pollEmpty"
    /\ UNCHANGED <<queueVars, connected, arrived, inHand, count, handled>>

\* Then !empty(), or around again; the socket may have been closed in between.
PollEmpty ==
    /\ pc = "pollEmpty"
    /\ pc' = IF empty THEN "poll" ELSE "pollPop"
    /\ UNCHANGED <<queueVars, connected, arrived, inHand, count, handled>>

\* The rest of the loop's body: one message, which the switch handles, and around
\* again until the start-up is over.
PollTake ==
    /\ pc = "pollPop"
    /\ pop_front
    /\ handled' = Append(handled, Head(deqQueue))
    /\ UNCHANGED <<connected, arrived, inHand, count>>
PollPop == PollTake /\ pc' = IF Len(handled) + 1 < StartUp THEN "poll" ELSE "update"

\* update() is entered: wait() if asked to.
EnterUpdate ==
    /\ pc = "update"
    /\ count' = 0
    /\ IF bwait
         THEN \E returns \in BOOLEAN : /\ wait("main", returns)
                                       /\ pc' = IF returns THEN "test" ELSE "asleep"
         ELSE /\ pc' = "test"
              /\ UNCHANGED queueVars
    /\ UNCHANGED <<connected, arrived, inHand, handled>>

\* Woken inside wait(): the loop tests again.
Rewait ==
    /\ pc = "asleep"
    /\ "main" \in woken
    /\ \E returns \in BOOLEAN : /\ wait("main", returns)
                                /\ pc' = IF returns THEN "test" ELSE "asleep"
    /\ UNCHANGED <<connected, arrived, inHand, count, handled>>

\* The condition of update()'s loop.
TestCountOnly ==
    /\ pc = "test"
    /\ pc' = IF count < nMaxMessages THEN "pop" ELSE "update"
    /\ UNCHANGED <<queueVars, connected, arrived, inHand, count, handled>>
Test ==
    /\ pc = "test"
    /\ pc' = IF count < nMaxMessages /\ ~empty THEN "pop" ELSE "update"
    /\ UNCHANGED <<queueVars, connected, arrived, inHand, count, handled>>

Pop ==
    /\ pc = "pop"
    /\ pop_front
    /\ inHand' = Head(deqQueue)
    /\ pc' = "handle"
    /\ UNCHANGED <<connected, arrived, count, handled>>

\* on_message() returns.
Handle ==
    /\ pc = "handle"
    /\ handled' = Append(handled, inHand)
    /\ inHand' = 0
    /\ count' = count + 1
    /\ pc' = "test"
    /\ UNCHANGED <<queueVars, connected, arrived>>
-----------------------------------------------------------------------------
Spurious == SpuriousWakeup /\ UNCHANGED <<connected, arrived, pc, inHand, count, handled>>

Main == Poll \/ PollEmpty \/ PollPop \/ EnterUpdate \/ Rewait \/ Test \/ Pop \/ Handle

Next == Arrive \/ Close \/ Main \/ Spurious

Spec == Init /\ [][Next]_vars
-----------------------------------------------------------------------------
(* pop_front() never meets an empty deque: between the test and the pop nobody
   else takes a message (NetTSQueue.h:120, NetClientInterface.h:131-133). *)
PopSafe == pc \in {"pop", "pollPop"} => deqQueue # <<>>

(* No wake-up is lost: the main thread sleeps only while there is nothing to
   do; a message pushed between its test and its sleep does not exist, since
   wait() gives the mutex up only once it is among the waiters. *)
NoLostWakeup == pc = "asleep" /\ deqQueue # <<>> => "main" \in woken

(* Each message is handled once, in the order of arrival, by m_start() or by
   update(), whichever comes to it; what is not handled is in hand or queued. *)
HandledInOrder ==
    handled \o (IF inHand = 0 THEN <<>> ELSE <<inHand>>) \o deqQueue
        = [i \in 1..arrived |-> i]

(* m_start() takes the welcome and nothing else: update() never sees it, and
   m_start() never takes a message of the simulation. *)
StartUpFirst ==
    /\ pc \in {"poll", "pollEmpty", "pollPop"} <=> Starting
    /\ inHand # 0 => inHand > StartUp

(* Every message that arrives is handled, unless the connection is lost before
   the start-up is over: then m_start() polls for ever. *)
AllHandled ==
    \A n \in 1..MaxMessages :
        arrived >= n ~> Len(handled) >= n \/ (Starting /\ ~connected)
=============================================================================
