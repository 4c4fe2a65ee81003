------------------------- MODULE MessagePumpProofs -------------------------
(***************************************************************************)
(* The message pump for every number of messages, of messages per call and *)
(* of messages in the welcome: it pops safely, loses no wake-up, and       *)
(* handles every message once and in order.                                *)
(*                                                                         *)
(* PumpInv says what the position of the main thread means for the queue,  *)
(* and numbers the messages: those handled are 1..Len(handled), the one in *)
(* hand is the next, the queue holds those after it.  That makes it        *)
(* inductive; HandledInOrder, an equation between sequences, follows.      *)
(***************************************************************************)
EXTENDS MessagePump, TLAPS

USE DEF queueVars

\* Where the main thread is, for the condition variable.
Waiting ==
    /\ sleeping \intersect woken = {}
    /\ pc = "asleep" <=> "main" \in sleeping \union woken
    /\ pc = "asleep" /\ deqQueue # <<>> => "main" \in woken

\* The messages taken from the queue: those handled and the one in hand.
Taken == IF pc = "handle" THEN Len(handled) + 1 ELSE Len(handled)

Numbered ==
    /\ \A i \in 1..Len(handled) : handled[i] = i
    /\ inHand = IF pc = "handle" THEN Len(handled) + 1 ELSE 0
    /\ \A i \in 1..Len(deqQueue) : deqQueue[i] = Taken + i
    /\ Taken + Len(deqQueue) = arrived

Phases ==
    /\ pc \in {"poll", "pollEmpty", "pollPop"} <=> Starting
    /\ pc \in {"pop", "pollPop"} => deqQueue # <<>>

PumpInv == TypeOK /\ Waiting /\ Numbered /\ Phases

LEMMA HeadTail ==
    ASSUME NEW s \in Seq(Nat), s # <<>>
    PROVE  /\ Head(s) \in Nat /\ Head(s) = s[1]
           /\ Tail(s) \in Seq(Nat) /\ Len(s) \in Nat /\ Len(s) >= 1
           /\ Len(Tail(s)) = Len(s) - 1
           /\ \A i \in 1..Len(Tail(s)) : Tail(s)[i] = s[i + 1]
  OBVIOUS

LEMMA AppendFacts ==
    ASSUME NEW s \in Seq(Nat), NEW n \in Nat
    PROVE  /\ Append(s, n) \in Seq(Nat) /\ Append(s, n) # <<>>
           /\ Len(s) \in Nat /\ Len(Append(s, n)) = Len(s) + 1
           /\ \A i \in 1..Len(s) : Append(s, n)[i] = s[i]
           /\ Append(s, n)[Len(s) + 1] = n
  OBVIOUS

LEMMA PumpInit == Init => PumpInv
  BY PumpAssumption DEF Init, QueueInit, PumpInv, TypeOK, Waiting, Numbered, Taken,
     Phases, Starting

LEMMA PumpNext == PumpInv /\ [Next]_vars => PumpInv'
  <1> SUFFICES ASSUME PumpInv, [Next]_vars PROVE PumpInv'
    OBVIOUS
  <1> USE PumpAssumption
  <1>t. /\ deqQueue \in Seq(Nat) /\ handled \in Seq(Nat)
        /\ arrived \in Nat /\ count \in Nat /\ inHand \in Nat
        /\ Len(handled) \in Nat /\ Len(deqQueue) \in Nat
        /\ sleeping \subseteq {"main"} /\ woken \subseteq {"main"}
    BY DEF PumpInv, TypeOK
  <1>1. CASE Arrive
    <2>1. deqQueue' = Append(deqQueue, arrived + 1) /\ arrived' = arrived + 1
          /\ UNCHANGED <<connected, pc, inHand, count, handled>>
          /\ notify_one
      BY <1>1 DEF Arrive, push_back
    <2>a. /\ deqQueue' \in Seq(Nat) /\ deqQueue' # <<>>
          /\ Len(deqQueue') = Len(deqQueue) + 1
          /\ \A i \in 1..Len(deqQueue) : deqQueue'[i] = deqQueue[i]
          /\ deqQueue'[Len(deqQueue) + 1] = arrived + 1
      BY <1>t, <2>1, AppendFacts
    <2>b. sleeping' \subseteq {"main"} /\ woken' \subseteq {"main"}
      BY <1>t, <2>1 DEF notify_one
    <2>2. TypeOK'
      BY <1>t, <2>1, <2>a, <2>b DEF PumpInv, TypeOK
    <2>3. Waiting'
      BY <1>t, <2>1, AppendFacts DEF PumpInv, Waiting, notify_one
    <2>4. Numbered'
      <3>1. Taken' = Taken /\ Taken \in Nat
        BY <1>t, <2>1 DEF Taken
      <3>2. Taken + Len(deqQueue) + 1 = arrived + 1
        BY <1>t, <3>1 DEF PumpInv, Numbered
      <3>3. Taken' + Len(deqQueue') = arrived'
        BY <1>t, <2>1, <2>a, <3>1, <3>2
      <3>4. ASSUME NEW i \in 1..Len(deqQueue') PROVE deqQueue'[i] = Taken' + i
        <4>1. CASE i \in 1..Len(deqQueue)
          BY <4>1, <1>t, <2>a, <3>1 DEF PumpInv, Numbered
        <4>2. CASE i = Len(deqQueue) + 1
          BY <4>2, <1>t, <2>a, <3>1, <3>2
        <4> QED BY <4>1, <4>2, <1>t, <2>a
      <3>5. handled' = handled /\ inHand' = inHand /\ pc' = pc
        BY <2>1
      <3> QED BY <3>3, <3>4, <3>5 DEF PumpInv, Numbered
    <2>5. Phases'
      BY <1>t, <2>1, <2>a DEF PumpInv, Phases, Starting
    <2> QED BY <2>2, <2>3, <2>4, <2>5 DEF PumpInv
  <1>2. CASE Close
    BY <1>2 DEF Close, PumpInv, TypeOK, Waiting, Numbered, Taken, Phases, Starting
  <1>3. CASE Poll \/ PollEmpty
    BY <1>3 DEF Poll, PollEmpty, empty, PumpInv, TypeOK, Waiting, Numbered, Taken, Phases, Starting
  <1>4. CASE PollPop
    <2>1. /\ pc = "pollPop" /\ deqQueue # <<>> /\ deqQueue' = Tail(deqQueue)
          /\ UNCHANGED <<sleeping, woken, connected, arrived, inHand, count>>
          /\ handled' = Append(handled, Head(deqQueue))
          /\ pc' = IF Len(handled) + 1 < StartUp THEN "poll" ELSE "update"
      BY <1>4 DEF PollPop, PollTake, pop_front
    <2>2. Head(deqQueue) = Len(handled) + 1
      BY <1>t, <2>1, HeadTail DEF PumpInv, Numbered, Taken
    <2>3. TypeOK'
      BY <1>t, <2>1, HeadTail, AppendFacts DEF PumpInv, TypeOK
    <2>4. Waiting'
      BY <1>t, <2>1 DEF PumpInv, Waiting
    <2>5. Numbered'
      <3>1. /\ Taken = Len(handled) /\ Taken' = Len(handled')
            /\ Len(handled') = Len(handled) + 1
            /\ inHand' = 0 /\ pc' # "handle" /\ Taken + Len(deqQueue) = arrived
        BY <1>t, <2>1, <2>2, AppendFacts DEF PumpInv, Numbered, Taken
      <3>2. /\ Len(deqQueue') = Len(deqQueue) - 1
            /\ \A i \in 1..Len(deqQueue') : deqQueue'[i] = deqQueue[i + 1]
        BY <1>t, <2>1, HeadTail
      <3>3. \A i \in 1..Len(handled') : handled'[i] = i
        BY <1>t, <2>1, <2>2, <3>1, AppendFacts DEF PumpInv, Numbered
      <3>4. \A i \in 1..Len(deqQueue') : deqQueue'[i] = Taken' + i
        BY <1>t, <3>1, <3>2 DEF PumpInv, Numbered
      <3>5. Taken' + Len(deqQueue') = arrived'
        <4>1. arrived' = arrived /\ Taken \in Nat /\ Taken' = Taken + 1
              /\ Taken + Len(deqQueue) = arrived
          BY <1>t, <2>1, <3>1
        <4>2. Len(deqQueue') = Len(deqQueue) - 1 /\ Len(deqQueue) \in Nat
          BY <1>t, <3>2
        <4> QED BY <4>1, <4>2
      <3>6. inHand' = IF pc' = "handle" THEN Len(handled') + 1 ELSE 0
        BY <3>1
      <3> QED BY <3>3, <3>4, <3>5, <3>6 DEF Numbered
    <2>6. Phases'
      BY <1>t, <2>1, HeadTail, AppendFacts DEF PumpInv, Phases, Starting
    <2> QED BY <2>3, <2>4, <2>5, <2>6 DEF PumpInv
  <1>5. CASE EnterUpdate
    <2>1. TypeOK'
      BY <1>t, <1>5 DEF EnterUpdate, wait, PumpInv, TypeOK
    <2>2. Waiting'
      BY <1>t, <1>5 DEF EnterUpdate, wait, PumpInv, Waiting
    <2>3. Numbered' /\ Phases'
      BY <1>t, <1>5 DEF EnterUpdate, wait, PumpInv, Numbered, Taken, Phases, Starting
    <2> QED BY <2>1, <2>2, <2>3 DEF PumpInv
  <1>6. CASE Rewait
    <2>1. TypeOK'
      BY <1>t, <1>6 DEF Rewait, wait, PumpInv, TypeOK
    <2>2. Waiting'
      BY <1>t, <1>6 DEF Rewait, wait, PumpInv, Waiting
    <2>3. Numbered' /\ Phases'
      BY <1>t, <1>6 DEF Rewait, wait, PumpInv, Numbered, Taken, Phases, Starting
    <2> QED BY <2>1, <2>2, <2>3 DEF PumpInv
  <1>7. CASE Test
    BY <1>7 DEF Test, empty, PumpInv, TypeOK, Waiting, Numbered, Taken, Phases, Starting
  <1>8. CASE Pop
    <2>1. /\ pc = "pop" /\ pc' = "handle"
          /\ deqQueue # <<>> /\ deqQueue' = Tail(deqQueue)
          /\ UNCHANGED <<sleeping, woken, connected, arrived, handled, count>>
          /\ inHand' = Head(deqQueue)
      BY <1>8 DEF Pop, pop_front
    <2>2. Head(deqQueue) = Len(handled) + 1
      BY <1>t, <2>1, HeadTail DEF PumpInv, Numbered, Taken
    <2>3. TypeOK'
      BY <1>t, <2>1, HeadTail DEF PumpInv, TypeOK
    <2>4. Waiting' /\ Phases'
      BY <1>t, <2>1 DEF PumpInv, Waiting, Phases, Starting
    <2>5. Numbered'
      <3>1. /\ Taken = Len(handled) /\ Taken' = Len(handled) + 1
            /\ Taken + Len(deqQueue) = arrived
        BY <1>t, <2>1 DEF PumpInv, Numbered, Taken
      <3>2. /\ Len(deqQueue') = Len(deqQueue) - 1
            /\ \A i \in 1..Len(deqQueue') : deqQueue'[i] = deqQueue[i + 1]
        BY <1>t, <2>1, HeadTail
      <3>3. \A i \in 1..Len(deqQueue') : deqQueue'[i] = Taken' + i
        BY <1>t, <3>1, <3>2 DEF PumpInv, Numbered
      <3>4. \A i \in 1..Len(handled') : handled'[i] = i
        BY <2>1 DEF PumpInv, Numbered
      <3>5. Taken' + Len(deqQueue') = arrived'
        <4>1. arrived' = arrived /\ Taken \in Nat /\ Taken' = Taken + 1
              /\ Taken + Len(deqQueue) = arrived
          BY <1>t, <2>1, <3>1
        <4>2. Len(deqQueue') = Len(deqQueue) - 1 /\ Len(deqQueue) \in Nat
          BY <1>t, <3>2
        <4> QED BY <4>1, <4>2
      <3>6. inHand' = IF pc' = "handle" THEN Len(handled') + 1 ELSE 0
        BY <2>1, <2>2
      <3> QED BY <3>3, <3>4, <3>5, <3>6 DEF Numbered
    <2> QED BY <2>3, <2>4, <2>5 DEF PumpInv
  <1>9. CASE Handle
    <2>1. /\ pc = "handle" /\ pc' = "test" /\ inHand' = 0
          /\ handled' = Append(handled, inHand) /\ count' = count + 1
          /\ UNCHANGED <<deqQueue, sleeping, woken, connected, arrived>>
      BY <1>9 DEF Handle
    <2>2. TypeOK'
      BY <1>t, <2>1, AppendFacts DEF PumpInv, TypeOK
    <2>3. Waiting'
      BY <1>t, <2>1 DEF PumpInv, Waiting
    <2>4. Numbered'
      BY <1>t, <2>1, AppendFacts DEF PumpInv, Numbered, Taken
    <2>5. Phases'
      BY <1>t, <2>1, AppendFacts DEF PumpInv, Phases, Starting
    <2> QED BY <2>2, <2>3, <2>4, <2>5 DEF PumpInv
  <1>10. CASE Spurious
    <2>1. TypeOK' /\ Waiting'
      BY <1>t, <1>10 DEF Spurious, SpuriousWakeup, PumpInv, TypeOK, Waiting
    <2>2. Numbered' /\ Phases'
      BY <1>t, <1>10 DEF Spurious, SpuriousWakeup, PumpInv, Numbered, Taken, Phases, Starting
    <2> QED BY <2>1, <2>2 DEF PumpInv
  <1>11. CASE UNCHANGED vars
    BY <1>11 DEF vars, PumpInv, TypeOK, Waiting, Numbered, Taken, Phases, Starting
  <1> QED
    BY <1>1, <1>2, <1>3, <1>4, <1>5, <1>6, <1>7, <1>8, <1>9, <1>10, <1>11
    DEF Next, Main
-----------------------------------------------------------------------------
(* The state of the pump is always what PumpInv says. *)
THEOREM PumpInvariant == Spec => []PumpInv
  BY PumpInit, PumpNext, PTL DEF Spec

(* Every component of the state keeps its type, whatever the constants. *)
THEOREM PumpTypeCorrect == Spec => []TypeOK
  <1>1. PumpInv => TypeOK
    BY DEF PumpInv
  <1> QED BY <1>1, PumpInvariant, PTL

(* pop_front() never meets an empty deque (NetTSQueue.h:120). *)
THEOREM PopsAreSafe == Spec => []PopSafe
  <1>1. PumpInv => PopSafe
    BY DEF PumpInv, Phases, PopSafe
  <1> QED BY <1>1, PumpInvariant, PTL

(* The main thread never sleeps on a message (NetTSQueue.h:133-141). *)
THEOREM NoWakeupIsLost == Spec => []NoLostWakeup
  <1>1. PumpInv => NoLostWakeup
    BY DEF PumpInv, Waiting, NoLostWakeup
  <1> QED BY <1>1, PumpInvariant, PTL

(* m_start() takes the welcome and update() everything after it. *)
THEOREM WelcomeComesFirst == Spec => []StartUpFirst
  <1>1. PumpInv => StartUpFirst
    BY PumpAssumption
    DEF PumpInv, TypeOK, Numbered, Phases, StartUpFirst, Starting
  <1> QED BY <1>1, PumpInvariant, PTL

LEMMA RightPart ==
    ASSUME NEW s \in Seq(Nat), NEW t \in Seq(Nat), NEW i \in 1..(Len(s) + Len(t)),
           i > Len(s)
    PROVE  (s \o t)[i] = t[i - Len(s)]
  OBVIOUS

LEMMA Counting ==
    ASSUME PumpInv
    PROVE  HandledInOrder
  <1> DEFINE hand == IF inHand = 0 THEN <<>> ELSE <<inHand>>
             all == handled \o hand \o deqQueue
  <1>1. /\ deqQueue \in Seq(Nat) /\ handled \in Seq(Nat) /\ inHand \in Nat
        /\ arrived \in Nat /\ Len(handled) \in Nat /\ Len(deqQueue) \in Nat
    BY DEF PumpInv, TypeOK
  <1>2. hand \in Seq(Nat) /\ Taken = Len(handled) + Len(hand) /\ Len(hand) \in {0, 1}
        /\ (Len(hand) = 1 => hand[1] = Len(handled) + 1)
    BY <1>1 DEF PumpInv, Numbered, Taken
  <1> HIDE DEF hand
  <1>3. handled \o hand \in Seq(Nat) /\ Len(handled \o hand) = Taken
    BY <1>1, <1>2
  <1>4. \A i \in 1..Taken : (handled \o hand)[i] = i
    BY <1>1, <1>2, <1>3 DEF PumpInv, Numbered
  <1>5. all \in Seq(Nat) /\ Len(all) = arrived
    BY <1>1, <1>3 DEF PumpInv, Numbered
  <1>n. /\ \A i \in 1..Len(deqQueue) : deqQueue[i] = Taken + i
        /\ Taken + Len(deqQueue) = arrived /\ Taken \in Nat
    BY <1>1, <1>2 DEF PumpInv, Numbered
  <1>6. ASSUME NEW i \in 1..arrived PROVE all[i] = i
    <2>1. CASE i <= Taken
      BY <2>1, <1>1, <1>3, <1>4, <1>n
    <2>2. CASE i > Taken
      <3>1. i - Taken \in 1..Len(deqQueue) /\ i \in Nat
        BY <2>2, <1>1, <1>n
      <3>2. all[i] = deqQueue[i - Taken]
        <4> DEFINE front == handled \o hand
        <4>1. front \in Seq(Nat) /\ Len(front) = Taken /\ all = front \o deqQueue
          BY <1>1, <1>3
        <4> HIDE DEF all, front
        <4>2. i \in 1..(Len(front) + Len(deqQueue)) /\ i > Len(front)
          BY <2>2, <1>n, <4>1
        <4> QED BY <1>1, <4>1, <4>2, RightPart
      <3>3. deqQueue[i - Taken] = Taken + (i - Taken)
        BY <3>1, <1>n
      <3> QED BY <3>1, <3>2, <3>3, <1>n
    <2>3. i \in Nat
      BY <1>1
    <2> HIDE DEF all
    <2>4. i <= Taken \/ i > Taken
      BY <2>3, <1>n
    <2> QED BY <2>1, <2>2, <2>4
  <1>7. all = [i \in 1..arrived |-> i]
    <2> HIDE DEF all
    <2>1. DOMAIN all = 1..arrived /\ all = [i \in 1..arrived |-> all[i]]
      BY <1>5
    <2> QED BY <2>1, <1>6
  <1> QED BY <1>7 DEF HandledInOrder, hand

(* Every message is handled once and in the order of arrival. *)
THEOREM HandlingKeepsOrder == Spec => []HandledInOrder
  BY Counting, PumpInvariant, PTL
=============================================================================
