------------------------- MODULE ClientStartProofs -------------------------
(***************************************************************************)
(* The client's start-up for every number of messages and entities: that   *)
(* m_start(), which collects flags, implements the pump, which counts the  *)
(* welcome, and what the client holds of what it was sent. What            *)
(* MessagePumpProofs shows of the pump then holds of the client.           *)
(*                                                                         *)
(* Collected says what each message of the welcome has left behind. It is  *)
(* inductive together with PumpInv, from which the messages have their     *)
(* numbers: the one that m_start() takes is the next of the welcome.       *)
(* Received adds what the bodies said: lemmas about Message show that a    *)
(* value taken from the end of a body is the one put there last.           *)
(***************************************************************************)
EXTENDS ClientStart, MessagePumpProofs, SequenceTheorems

-----------------------------------------------------------------------------
(* Message<T>: what is taken from the end of a body is what was put there. *)

LEMMA SizeTIsWide == SizeT \in Nat /\ SizeT > 100
  BY DEF SizeT

LEMMA WordOf8 ==
    ASSUME NEW k \in Nat, NEW i \in 1..8
    PROVE  (k * 8 + i - 1) \div 8 = k /\ (k * 8 + i - 1) % 8 = i - 1
  OBVIOUS

LEMMA Word8 ==
    ASSUME NEW m \in Nat, NEW p \in 1..(m * 8)
    PROVE  /\ 1 + ((p - 1) \div 8) \in 1..m /\ 1 + ((p - 1) % 8) \in 1..8
  OBVIOUS

LEMMA Appended ==
    ASSUME NEW object, NEW size \in Nat \ {0}
    PROVE  append(<<>>, object, size) = Words(object, size)
<1>1. Len(<<object>>) = 1 /\ 1 * size = size /\ <<object>>[1] = object
  OBVIOUS
<1>2. \A i \in 1..size : ((i - 1) \div size) = 0 /\ ((i - 1) % size) = i - 1
  OBVIOUS
<1>3. append(<<>>, object, size)
        = <<>> \o [i \in 1..size |-> <<<<object>>[1 + ((i - 1) \div size)], 1 + ((i - 1) % size)>>]
  BY <1>1 DEF append, push_back_complex
<1>4. [i \in 1..size |-> <<<<object>>[1 + ((i - 1) \div size)], 1 + ((i - 1) % size)>>]
        = Words(object, size)
  BY <1>1, <1>2 DEF Words
<1>5. Words(object, size) \in Seq({object} \X Nat)
  BY DEF Words
<1> QED
  BY <1>3, <1>4, <1>5, ConcatEmptySeq

\* An object alone in its body is taken out as it was put in.
LEMMA PullsObject ==
    ASSUME NEW object, NEW size \in 1..100
    PROVE  /\ pull(append(<<>>, object, size), size) = object
           /\ ~Outside(append(<<>>, object, size), size)
<1> DEFINE b == append(<<>>, object, size)
<1>1. b = Words(object, size) /\ Len(b) = size /\ \A i \in 1..size : b[i] = <<object, i>>
  BY Appended DEF Words
<1> HIDE DEF b
<1>2. cached_location(b, size) = 0 /\ cached_location(b, 1 * size) = 0
  BY <1>1, SizeTIsWide DEF cached_location
<1>3. ~Outside(b, size)
  BY <1>1, <1>2 DEF Outside
<1>4. [i \in 1..size |-> memory(b, 0 + (1 - 1) * size + i - 1)] = Words(object, size)
  <2>1. ASSUME NEW i \in 1..size PROVE memory(b, 0 + (1 - 1) * size + i - 1) = <<object, i>>
    <3>1. 0 + (1 - 1) * size + i - 1 = i - 1 /\ i - 1 < Len(b) /\ (i - 1) + 1 = i
      BY <1>1
    <3> QED
      BY <1>1, <3>1 DEF memory
  <2> QED
    BY <2>1 DEF Words
<1>5. Decode(Words(object, size)) = object
  <2>1. Len(Words(object, size)) = size /\ Words(object, size)[1] = <<object, 1>>
    BY DEF Words
  <2>2. Words(object, size)[1][1] = object
    BY <2>1
  <2> QED
    BY <2>1, <2>2 DEF Decode
<1>6. pull_complex(b, 1, size) = [j \in 1..1 |-> Decode([i \in 1..size |->
                                    memory(b, 0 + (j - 1) * size + i - 1)])]
  BY <1>2 DEF pull_complex
<1>7. pull_complex(b, 1, size)[1] = object
  BY <1>4, <1>5, <1>6
<1> QED
  BY <1>3, <1>7 DEF b, pull

\* Several objects of 8 words each behind another body.
Holds(w, n, objects) ==
    /\ Len(w) = n + Len(objects) * 8
    /\ \A k \in 0..(Len(objects) - 1), i \in 1..8 : w[n + k * 8 + i] = <<objects[k + 1], i>>

LEMMA ObjectsPushed ==
    ASSUME NEW O, NEW b \in Seq(O \X Nat), NEW objects \in Seq(O)
    PROVE  Holds(push_back_complex(b, objects, 8), Len(b), objects)
<1> DEFINE w == push_back_complex(b, objects, 8)
           m == Len(objects)
           n == Len(b)
           entry(p) == <<objects[1 + ((p - 1) \div 8)], 1 + ((p - 1) % 8)>>
           t == [p \in 1..(m * 8) |-> entry(p)]
<1>1. m \in Nat /\ n \in Nat
  BY LenProperties
<1>2. \A p \in 1..(m * 8) : entry(p) \in O \X Nat
  <2> SUFFICES ASSUME NEW p \in 1..(m * 8) PROVE entry(p) \in O \X Nat
    OBVIOUS
  <2>1. 1 + ((p - 1) \div 8) \in 1..m /\ 1 + ((p - 1) % 8) \in 1..8
    BY <1>1, Word8
  <2>2. \A q \in 1..m : objects[q] \in O
    BY ElementOfSeq
  <2> QED
    BY <2>1, <2>2
<1> HIDE DEF entry
<1>3. t \in Seq(O \X Nat) /\ Len(t) = m * 8 /\ \A p \in 1..(m * 8) : t[p] = entry(p)
  <2>1. m * 8 \in Nat
    BY <1>1
  <2> QED
    BY <1>2, <2>1
<1>6. w = b \o t
  BY DEF push_back_complex, t, entry
<1> HIDE DEF t, w, m, n
<1>4. /\ Len(w) = n + m * 8
      /\ \A q \in 1..(n + m * 8) : w[q] = IF q <= n THEN b[q] ELSE t[q - n]
  BY <1>1, <1>3, <1>6, ConcatProperties DEF n
<1>5. ASSUME NEW k \in 0..(m - 1), NEW i \in 1..8
      PROVE  w[n + k * 8 + i] = <<objects[k + 1], i>>
  <2>1. /\ k \in Nat /\ n + k * 8 + i \in 1..(n + m * 8) /\ ~(n + k * 8 + i <= n)
        /\ (n + k * 8 + i) - n = k * 8 + i /\ k * 8 + i \in 1..(m * 8)
        /\ (k * 8 + i) - 1 = k * 8 + i - 1
    BY <1>1
  <2>2. t[k * 8 + i] = entry(k * 8 + i)
    BY <1>3, <2>1
  <2>3. entry(k * 8 + i) = <<objects[1 + k], 1 + (i - 1)>>
    BY <2>1, WordOf8 DEF entry
  <2>4. 1 + k = k + 1 /\ 1 + (i - 1) = i
    BY <2>1
  <2> QED
    BY <1>4, <2>1, <2>2, <2>3, <2>4
<1> QED
  BY <1>4, <1>5 DEF Holds, w, m, n

LEMMA Modulus ==
    ASSUME NEW n \in Nat, NEW m \in Nat, n < m PROVE n % m = n
  OBVIOUS

\* The last of them are taken out whole and in order, whatever is before them.
Ends(w, n, objects) ==
    /\ pull_complex(w, n, 8) = SubSeq(objects, Len(objects) - n + 1, Len(objects))
    /\ ~Outside(w, n * 8)

LEMMA PullsLast ==
    ASSUME NEW O, NEW b \in Seq(O \X Nat), NEW objects \in Seq(O),
           NEW n \in 0..Len(objects), Len(b) + Len(objects) * 8 < SizeT
    PROVE  Ends(push_back_complex(b, objects, 8), n, objects)
<1> DEFINE w == push_back_complex(b, objects, 8)
           m == Len(objects)
           l == Len(b)
           from == l + (m - n) * 8
           taken == SubSeq(objects, m - n + 1, m)
<1>1. /\ Len(w) = l + m * 8 /\ l \in Nat /\ m \in Nat /\ n \in Nat /\ n <= m
      /\ \A k \in 0..(m - 1), i \in 1..8 : w[l + k * 8 + i] = <<objects[k + 1], i>>
  <2>1. l \in Nat /\ m \in Nat /\ n \in Nat /\ n <= m
    BY LenProperties
  <2>2. /\ Len(w) = l + m * 8 
        /\ \A k \in 0..(m - 1), i \in 1..8 : w[l + k * 8 + i] = <<objects[k + 1], i>>
    <3>1. Holds(w, l, objects)
      BY ObjectsPushed
    <3> QED
      BY <3>1 DEF Holds
  <2> QED
    BY <2>1, <2>2
<1> HIDE DEF w, m, l
<1>2. cached_location(w, n * 8) = from
  <2>1. Len(w) - n * 8 = from /\ from \in Nat /\ from <= l + m * 8
    BY <1>1
  <2>2. l + m * 8 < SizeT /\ SizeT \in Nat
    BY SizeTIsWide DEF m, l
  <2> HIDE DEF from
  <2>a. from < SizeT
    BY <1>1, <2>1, <2>2
  <2>3. from % SizeT = from
    BY <2>1, <2>2, <2>a, Modulus
  <2> QED
    BY <2>1, <2>3 DEF cached_location
<1>3. ~Outside(w, n * 8)
  BY <1>1, <1>2 DEF Outside
<1>4. ASSUME NEW j \in 1..n
      PROVE  Decode([i \in 1..8 |-> memory(w, from + (j - 1) * 8 + i - 1)]) = objects[m - n + j]
  <2> DEFINE k == m - n + j - 1
             o == objects[m - n + j]
  <2>1. k \in 0..(m - 1) /\ k + 1 = m - n + j
    BY <1>1
  <2>2. ASSUME NEW i \in 1..8
        PROVE  memory(w, from + (j - 1) * 8 + i - 1) = <<o, i>>
    <3>1. /\ from + (j - 1) * 8 + i - 1 < Len(w)
          /\ (from + (j - 1) * 8 + i - 1) + 1 = l + k * 8 + i
      BY <1>1
    <3>2. w[l + k * 8 + i] = <<objects[k + 1], i>>
      BY <1>1, <2>1
    <3> HIDE DEF k
    <3> QED
      BY <2>1, <3>1, <3>2 DEF memory
  <2> HIDE DEF o
  <2>3. [i \in 1..8 |-> memory(w, from + (j - 1) * 8 + i - 1)] = Words(o, 8)
    BY <2>2 DEF Words
  <2>4. Len(Words(o, 8)) = 8 /\ Words(o, 8)[1] = <<o, 1>>
    BY DEF Words
  <2>5. Words(o, 8)[1][1] = o
    BY <2>4
  <2>6. Decode(Words(o, 8)) = o
    BY <2>4, <2>5 DEF Decode
  <2> QED
    BY <2>3, <2>6 DEF o
<1>5. pull_complex(w, n, 8) = [j \in 1..n |-> objects[m - n + j]]
  BY <1>2, <1>4 DEF pull_complex
<1>6. taken = [j \in 1..n |-> objects[m - n + j]]
  <2>1. \A q \in (m - n + 1)..m : objects[q] \in O
    <3>1. \A q \in (m - n + 1)..m : q \in 1..m
      BY <1>1
    <3> QED
      BY <3>1, ElementOfSeq DEF m
  <2>2. m - n + 1 \in Int /\ m \in Int /\ m - (m - n + 1) + 1 = n
        /\ (IF m - n + 1 <= m THEN m - (m - n + 1) + 1 ELSE 0) = n
    BY <1>1
  <2>3. /\ taken \in Seq(O) /\ Len(taken) = n
        /\ \A i \in 1..n : taken[i] = objects[(m - n + 1) + i - 1]
    BY <2>1, <2>2, SubSeqProperties
  <2>4. \A i \in 1..n : (m - n + 1) + i - 1 = m - n + i
    BY <1>1
  <2> HIDE DEF taken
  <2>5. taken = [i \in 1..n |-> taken[i]]
    BY <2>3
  <2> QED
    BY <2>3, <2>4, <2>5
<1> QED
  BY <1>3, <1>5, <1>6 DEF Ends, w, m

-----------------------------------------------------------------------------
(* The flags. *)

Collected ==
    /\ GOT \subseteq Flags
    /\ Starting => ~M_STARTUP_OKAY
    /\ Len(handled) >= 2 => "CONSOLE" \in GOT
    /\ Len(handled) >= 3 => "MAP" \in GOT
    /\ Len(handled) >= 4 => "ENTITIES_SIZE" \in GOT
    /\ console = IF Len(handled) >= 2 THEN "map" ELSE "default"
    /\ m_map = IF Len(handled) >= 3 THEN "map" ELSE "none"

StartInv == PumpInv /\ Collected

USE StartAssumption

LEMMA StartInvInit == StartInit => StartInv
  BY PumpInit DEF StartInit, StartInv, Collected, Init, Starting, Flags

LEMMA BelowFive == ASSUME NEW n \in Nat, n < 5 PROVE n \in {0, 1, 2, 3, 4}
  OBVIOUS

LEMMA BelowFour == ASSUME NEW n \in {0, 1, 2, 3, 4}, n # 4 PROVE n + 1 < 5
  OBVIOUS

\* The order of the welcome.
LEMMA WelcomeIds ==
    ASSUME NEW n \in {0, 1, 2, 3, 4}
    PROVE  /\ n = 0 => header_id(n + 1) = "Server_Accept"
           /\ n = 1 => header_id(n + 1) = "Send_Map_Console_Layout"
           /\ n = 2 => header_id(n + 1) = "Send_Map_Layout"
           /\ n = 3 => header_id(n + 1) = "Send_Entities_Size"
           /\ n = 4 => header_id(n + 1) = "Send_Entities"
  BY DEF header_id, Welcome

\* What m_start() takes is the next message of the welcome.
LEMMA NextOfWelcome ==
    ASSUME StartInv, PollTake
    PROVE  /\ Len(handled) \in {0, 1, 2, 3, 4} /\ Head(deqQueue) = Len(handled) + 1
           /\ Len(handled') = Len(handled) + 1 /\ Starting
  <1>1. /\ pc = "pollPop" /\ deqQueue # <<>> /\ deqQueue \in Seq(Nat) /\ handled \in Seq(Nat)
        /\ handled' = Append(handled, Head(deqQueue))
    BY DEF PollTake, pop_front, StartInv, PumpInv, TypeOK
  <1>n. Len(handled) \in Nat
    BY <1>1
  <1>s. Len(handled) < 5
    BY <1>1 DEF StartInv, PumpInv, Phases, Starting
  <1>2. Len(handled) \in {0, 1, 2, 3, 4}
    BY <1>n, <1>s, BelowFive
  <1>3. Head(deqQueue) = Len(handled) + 1
    BY <1>1, HeadTail DEF StartInv, PumpInv, Numbered, Taken
  <1>4. Len(handled') = Len(handled) + 1
    BY <1>1, <1>3, AppendFacts
  <1> QED BY <1>2, <1>3, <1>4, <1>s DEF Starting

\* Which branch of the switch that is.
LEMMA BranchTaken ==
    ASSUME StartInv, StartPop
    PROVE  /\ Len(handled) = 0 => UNCHANGED <<GOT, M_STARTUP_OKAY, console, m_map>>
           /\ Len(handled) = 1 => /\ GOT' = GOT \union {"CONSOLE"} /\ console' = "map"
                                  /\ UNCHANGED <<M_STARTUP_OKAY, m_map>>
           /\ Len(handled) = 2 => /\ GOT' = GOT \union {"MAP"} /\ m_map' = console
                                  /\ UNCHANGED <<M_STARTUP_OKAY, console>>
           /\ Len(handled) = 3 => /\ GOT' = GOT \union {"ENTITIES_SIZE"}
                                  /\ UNCHANGED <<M_STARTUP_OKAY, console, m_map>>
           /\ Len(handled) = 4 => /\ GOT' = GOT \union {"ENTITIES"}
                                  /\ \E wild \in SUBSET (Flags \ GOT') :
                                        M_STARTUP_OKAY' = (Flags \subseteq GOT' \union wild)
                                  /\ UNCHANGED <<console, m_map>>
  <1> DEFINE k == Len(handled) + 1
  <1>1. Len(handled) \in {0, 1, 2, 3, 4} /\ Head(deqQueue) = k
    BY NextOfWelcome DEF StartPop
  <1>2. GetAccept(k) \/ GetConsole(k) \/ GetMap(k) \/ GetEntitiesSize(k) \/ GetEntities(k)
    BY <1>1 DEF StartPop
  <1>3. /\ Len(handled) = 0 => header_id(k) = "Server_Accept"
        /\ Len(handled) = 1 => header_id(k) = "Send_Map_Console_Layout"
        /\ Len(handled) = 2 => header_id(k) = "Send_Map_Layout"
        /\ Len(handled) = 3 => header_id(k) = "Send_Entities_Size"
        /\ Len(handled) = 4 => header_id(k) = "Send_Entities"
    BY <1>1, WelcomeIds
  <1> HIDE DEF k
  <1>4. /\ GetAccept(k) => header_id(k) = "Server_Accept" /\ UNCHANGED startVars
        /\ GetConsole(k) => /\ header_id(k) = "Send_Map_Console_Layout"
                            /\ GOT' = GOT \union {"CONSOLE"} /\ console' = "map"
                            /\ UNCHANGED <<M_STARTUP_OKAY, m_map>>
        /\ GetMap(k) => /\ header_id(k) = "Send_Map_Layout"
                        /\ GOT' = GOT \union {"MAP"} /\ m_map' = console
                        /\ UNCHANGED <<M_STARTUP_OKAY, console>>
        /\ GetEntitiesSize(k) => /\ header_id(k) = "Send_Entities_Size"
                                 /\ GOT' = GOT \union {"ENTITIES_SIZE"}
                                 /\ UNCHANGED <<M_STARTUP_OKAY, console, m_map>>
        /\ GetEntities(k) => /\ header_id(k) = "Send_Entities"
                             /\ GOT' = GOT \union {"ENTITIES"}
                             /\ \E wild \in SUBSET (Flags \ GOT') :
                                    M_STARTUP_OKAY' = (Flags \subseteq GOT' \union wild)
                             /\ UNCHANGED <<console, m_map>>
    BY DEF GetAccept, GetConsole, GetMap, GetEntitiesSize, GetEntities, clientVars, startVars
  <1> QED BY <1>2, <1>3, <1>4 DEF startVars

\* A round of m_start() is one of the pump's.
LEMMA TakesOne ==
    ASSUME StartInv, StartPop PROVE PollPop /\ Collected'
  <1>1. PollTake /\ pc' = IF M_STARTUP_OKAY' THEN "update" ELSE "poll"
    BY DEF StartPop
  <1>2. /\ Len(handled) \in {0, 1, 2, 3, 4} /\ Len(handled') = Len(handled) + 1
        /\ Collected /\ ~M_STARTUP_OKAY
    BY <1>1, NextOfWelcome DEF StartInv, Collected
  <1>3. CASE Len(handled) = 4
    <2>1. /\ GOT' = GOT \union {"ENTITIES"} /\ UNCHANGED <<console, m_map>>
          /\ \E wild \in SUBSET (Flags \ GOT') : M_STARTUP_OKAY' = (Flags \subseteq GOT' \union wild)
      BY <1>3, BranchTaken
    <2>n. Len(handled) >= 2 /\ Len(handled) >= 3 /\ Len(handled) >= 4
      BY <1>3
    <2>c. /\ GOT \subseteq Flags /\ "CONSOLE" \in GOT /\ "MAP" \in GOT /\ "ENTITIES_SIZE" \in GOT
          /\ console = "map" /\ m_map = "map"
      BY <1>2, <2>n, Zenon DEF Collected
    <2>2. GOT' = Flags
      BY <2>1, <2>c DEF Flags
    <2>3. M_STARTUP_OKAY'
      BY <2>1, <2>2
    <2>4. Len(handled') = 5
      BY <1>2, <1>3
    <2>5. console' = "map" /\ m_map' = "map"
      BY <2>1, <2>c
    <2>6. ~Starting'
      BY <2>4 DEF Starting
    <2>7. Collected'
      BY <2>2, <2>4, <2>5, <2>6 DEF Collected, Flags
    <2> QED BY <1>1, <1>3, <2>3, <2>7 DEF PollPop
  <1>4. ASSUME Len(handled) # 4 PROVE ~M_STARTUP_OKAY' /\ pc' = "poll" /\ Len(handled) + 1 < StartUp
    <2>1. Len(handled) = 0 \/ Len(handled) = 1 \/ Len(handled) = 2 \/ Len(handled) = 3
      BY <1>2, <1>4, Zenon
    <2>2. M_STARTUP_OKAY' = M_STARTUP_OKAY
      BY <2>1, BranchTaken
    <2>3. Len(handled) + 1 < 5
      BY <1>2, <1>4, BelowFour
    <2>4. ~M_STARTUP_OKAY'
      BY <1>2, <2>2, Zenon
    <2>5. pc' = "poll"
      BY <1>1, <2>4, Zenon
    <2> QED BY <2>3, <2>4, <2>5
  <1>5. CASE Len(handled) = 0
    <2>1. Len(handled') = 1 /\ UNCHANGED <<GOT, console, m_map>>
      BY <1>2, <1>5, BranchTaken
    <2>2. GOT \subseteq Flags /\ console = "default" /\ m_map = "none"
      BY <1>2, <1>5 DEF Collected
    <2>3. Collected'
      BY <1>4, <1>5, <2>1, <2>2 DEF Collected
    <2> QED BY <1>1, <1>4, <1>5, <2>3 DEF PollPop
  <1>6. CASE Len(handled) = 1
    <2>1. /\ Len(handled') = 2 /\ GOT' = GOT \union {"CONSOLE"} /\ console' = "map" /\ m_map' = m_map
      BY <1>2, <1>6, BranchTaken
    <2>2. GOT \subseteq Flags /\ m_map = "none"
      BY <1>2, <1>6 DEF Collected
    <2>3. Collected'
      BY <1>4, <1>6, <2>1, <2>2 DEF Collected, Flags
    <2> QED BY <1>1, <1>4, <1>6, <2>3 DEF PollPop
  <1>7. CASE Len(handled) = 2
    <2>1. /\ Len(handled') = 3 /\ GOT' = GOT \union {"MAP"} /\ m_map' = console /\ console' = console
      BY <1>2, <1>7, BranchTaken
    <2>2. GOT \subseteq Flags /\ "CONSOLE" \in GOT /\ console = "map"
      BY <1>2, <1>7 DEF Collected
    <2>3. Collected'
      BY <1>4, <1>7, <2>1, <2>2 DEF Collected, Flags
    <2> QED BY <1>1, <1>4, <1>7, <2>3 DEF PollPop
  <1>8. CASE Len(handled) = 3
    <2>1. /\ Len(handled') = 4 /\ GOT' = GOT \union {"ENTITIES_SIZE"} /\ UNCHANGED <<console, m_map>>
      BY <1>2, <1>8, BranchTaken
    <2>2. GOT \subseteq Flags /\ {"CONSOLE", "MAP"} \subseteq GOT /\ console = "map" /\ m_map = "map"
      BY <1>2, <1>8 DEF Collected
    <2>3. Collected'
      BY <1>4, <1>8, <2>1, <2>2 DEF Collected, Flags
    <2> QED BY <1>1, <1>4, <1>8, <2>3 DEF PollPop
  <1> QED BY <1>2, <1>3, <1>5, <1>6, <1>7, <1>8

LEMMA StartNextPump ==
    ASSUME StartInv, [StartNext]_allVars PROVE [Next]_vars /\ Collected'
  <1>1. CASE StartPop
    BY <1>1, TakesOne DEF Next, Main
  <1>2. ASSUME UNCHANGED <<startVars, handled>> PROVE Collected'
    <2>1. UNCHANGED <<GOT, M_STARTUP_OKAY, console, m_map, handled>>
      BY <1>2 DEF startVars
    <2>2. Collected /\ (Starting' <=> Starting)
      BY <2>1 DEF StartInv, Starting
    <2> QED BY <2>1, <2>2, Zenon DEF Collected
  <1>3. CASE OnMessage
    <2>1. /\ Handle /\ pc = "handle" /\ handled' = Append(handled, inHand)
          /\ UNCHANGED <<GOT, console, m_map>>
      BY <1>3 DEF OnMessage, Handle, startVars
    <2>2. handled \in Seq(Nat) /\ inHand \in Nat /\ ~(Len(handled) < 5)
      BY <2>1 DEF StartInv, PumpInv, TypeOK, Phases, Starting
    <2>3. /\ Len(handled) >= 2 /\ Len(handled) >= 3 /\ Len(handled) >= 4
          /\ Len(handled') >= 2 /\ Len(handled') >= 3 /\ Len(handled') >= 4
          /\ ~(Len(handled') < StartUp)
      BY <2>1, <2>2, AppendFacts
    <2>4. Collected'
      BY <2>1, <2>3, Zenon DEF StartInv, Collected, Starting
    <2> QED BY <2>1, <2>4 DEF Next, Main
  <1>4. CASE /\ Poll \/ PollEmpty \/ EnterUpdate \/ Rewait \/ Test \/ Pop
             /\ UNCHANGED <<serverVars, clientVars>>
    <2>1. UNCHANGED <<startVars, handled>>
      BY <1>4 DEF clientVars, Poll, PollEmpty, EnterUpdate, Rewait, Test, Pop
    <2> QED BY <1>2, <1>4, <2>1 DEF Next, Main
  <1>5. CASE (Arrive \/ Close \/ Spurious) /\ UNCHANGED <<serverVars, clientVars>>
    <2>1. UNCHANGED <<startVars, handled>>
      BY <1>5 DEF clientVars, Arrive, Close, Spurious
    <2> QED BY <1>2, <1>5, <2>1 DEF Next
  <1>6. CASE UNCHANGED allVars
    BY <1>2, <1>6 DEF allVars, clientVars, vars
  <1> QED BY <1>1, <1>3, <1>4, <1>5, <1>6 DEF StartNext, StartMain

LEMMA StartInvNext == StartInv /\ [StartNext]_allVars => StartInv'
  BY StartNextPump, PumpNext DEF StartInv

\* The invariant of the pump with what the start-up has collected.
THEOREM StartInvariant == StartSpec => []StartInv
  BY StartInvInit, StartInvNext, PTL DEF StartSpec

(* The client's main thread implements the pump: m_start() ends with the last
   message of the welcome, and never waits for a flag (Client.cpp:50-92). *)
THEOREM StartImplementsPump == StartSpec => CountsTheWelcome
  <1>1. StartInit => Init
    BY DEF StartInit
  <1> QED BY <1>1, StartNextPump, StartInvariant, PTL DEF StartSpec, CountsTheWelcome, Spec

(* What holds of the pump holds of the client, for any number of messages. *)
THEOREM ClientTakesInOrder == StartSpec => [](PopSafe /\ NoLostWakeup /\ HandledInOrder /\ StartUpFirst)
  BY StartImplementsPump, PopsAreSafe, NoWakeupIsLost, HandlingKeepsOrder, WelcomeComesFirst, PTL
     DEF CountsTheWelcome

(* The map is made for the console of the map (Client.cpp:65, 70). *)
THEOREM MapFitsConsole == StartSpec => []MapMadeForItsConsole
  <1>1. StartInv => MapMadeForItsConsole
    BY DEF StartInv, Collected, MapMadeForItsConsole
  <1> QED BY <1>1, StartInvariant, PTL

-----------------------------------------------------------------------------
(* What the client makes of the bodies. *)

\* The entities that the client has from message k.
Newest(k) == SubSeq(Entities(k), carried[k] - announced + 1, carried[k])

Served ==
    /\ arrived <= MaxMessages
    /\ announced \in 0..MaxEntities
    /\ carried \in [StartUp..MaxMessages -> announced..MaxEntities]

Received ==
    /\ Len(handled) < 4 => m_ent_buffer = <<>> /\ m_nentities_size = 0
    /\ Len(handled) >= 4 => m_nentities_size = announced
    /\ Len(m_ent_buffer) = m_nentities_size
    /\ Len(handled) >= 5 => m_entities = Newest(Len(handled))
    /\ undefined = FALSE
    /\ M_STARTUP_OKAY \in BOOLEAN

LEMMA WelcomeBodies ==
    ASSUME NEW k \in Nat, Served
    PROVE  /\ header_id(k) = "Send_Map_Console_Layout" => ~Outside(body(k), sizeof.WinConsoleLayout)
           /\ header_id(k) = "Send_Map_Layout" => ~Outside(body(k), sizeof.MapConfig)
           /\ header_id(k) = "Send_Entities_Size" =>
                /\ ~Outside(body(k), sizeof.size_t)
                /\ pull(body(k), sizeof.size_t).value = announced
<1>1. /\ sizeof.WinConsoleLayout = 3 /\ sizeof.MapConfig = 4 /\ sizeof.size_t = 2
  BY DEF sizeof
<1>2. CASE header_id(k) = "Send_Map_Console_Layout"
  <2>1. body(k) = append(<<>>, [type |-> "WinConsoleLayout"], 3)
    BY <1>1, <1>2 DEF body
  <2> QED
    BY <1>1, <1>2, <2>1, PullsObject
<1>3. CASE header_id(k) = "Send_Map_Layout"
  <2>1. body(k) = append(<<>>, [type |-> "MapConfig"], 4)
    BY <1>1, <1>3 DEF body
  <2> QED
    BY <1>1, <1>3, <2>1, PullsObject
<1>4. CASE header_id(k) = "Send_Entities_Size"
  <2> DEFINE o == [type |-> "size_t", value |-> announced]
  <2>1. body(k) = append(<<>>, o, 2) /\ o.value = announced
    BY <1>1, <1>4 DEF body
  <2> HIDE DEF o
  <2>2. pull(body(k), 2) = o /\ ~Outside(body(k), 2)
    BY <2>1, PullsObject
  <2> QED
    BY <1>1, <1>4, <2>1, <2>2
<1> QED
  BY <1>2, <1>3, <1>4

\* The entities that were announced are the last of the message, whatever it
\* begins with and however many there are.
LEMMA EntityBodies ==
    ASSUME NEW k \in StartUp..MaxMessages, Served
    PROVE  /\ header_id(k) = "Send_Entities"
           /\ pull_complex(body(k), announced, sizeof.Entity) = Newest(k)
           /\ ~Outside(body(k), announced * sizeof.Entity)
           /\ Len(Newest(k)) = announced
<1> DEFINE size == [type |-> "size_t", value |-> announced]
           O == {size} \union {Entity(k, j) : j \in 1..carried[k]}
           b == IF k = StartUp THEN append(<<>>, size, 2) ELSE <<>>
           objects == Entities(k)
           m == carried[k]
           w == push_back_complex(b, objects, 8)
<1>1. k \in Nat /\ k >= 5 /\ sizeof.size_t = 2 /\ sizeof.Entity = 8 /\ StartUp = 5
  BY PumpAssumption DEF sizeof
<1>2. header_id(k) = "Send_Entities"
  BY <1>1 DEF header_id, Welcome
<1>3. m \in announced..MaxEntities /\ m \in Nat /\ announced \in Nat /\ announced \in 0..m
  BY DEF Served
<1>4. body(k) = w
  BY <1>1, <1>2 DEF body
<1>5. objects \in Seq(O) /\ Len(objects) = m
  BY <1>3 DEF Entities
<1>6. b \in Seq(O \X Nat) /\ Len(b) \in Nat /\ Len(b) <= 2
  <2>1. size \in O
    OBVIOUS
  <2> HIDE DEF size, O
  <2>2. /\ Words(size, 2) \in Seq(O \X Nat)
        /\ Len(Words(size, 2)) \in Nat /\ Len(Words(size, 2)) <= 2
    <3>1. Words(size, 2) \in Seq(O \X Nat) /\ Len(Words(size, 2)) = 2
      BY <2>1 DEF Words
    <3>2. 2 \in Nat /\ 2 <= 2
      OBVIOUS
    <3> QED
      BY <3>1, <3>2, Zenon
  <2>3. append(<<>>, size, 2) = Words(size, 2)
    BY Appended
  <2>4. CASE k = StartUp
    <3>1. b = Words(size, 2)
      BY <2>3, <2>4
    <3> HIDE DEF b
    <3> QED
      BY <2>2, <3>1, Zenon
  <2>5. CASE k # StartUp
    <3>1. b = <<>>
      BY <2>5
    <3> HIDE DEF b
    <3> QED
      BY <3>1
  <2> QED
    BY <2>4, <2>5
<1> HIDE DEF O, b, objects
<1>7. Len(b) + m * 8 < SizeT
  <2>1. 2 + MaxEntities * 8 < SizeT /\ MaxEntities \in Nat /\ SizeT \in Nat
    BY <1>1, SizeTIsWide
  <2> HIDE DEF m
  <2>2. m \in Nat /\ m <= MaxEntities
    BY <1>3
  <2> QED
    BY <1>6, <2>1, <2>2
<1> HIDE DEF m, w
<1>8. /\ pull_complex(w, announced, 8) = SubSeq(objects, m - announced + 1, m)
      /\ ~Outside(w, announced * 8)
  <2>1. Ends(w, announced, objects)
    BY <1>3, <1>5, <1>6, <1>7, PullsLast DEF w
  <2> QED
    BY <1>5, <2>1 DEF Ends
<1>9. Len(SubSeq(objects, m - announced + 1, m)) = announced
  <2>1. \A q \in (m - announced + 1)..m : objects[q] \in O
    <3>1. \A q \in (m - announced + 1)..m : q \in 1..m
      BY <1>3
    <3> QED
      BY <3>1, <1>5, ElementOfSeq
  <2>2. m - announced + 1 \in Int /\ m \in Int
        /\ (IF m - announced + 1 <= m THEN m - (m - announced + 1) + 1 ELSE 0) = announced
    BY <1>3
  <2> QED
    BY <2>1, <2>2, SubSeqProperties
<1> QED
  BY <1>1, <1>2, <1>4, <1>8, <1>9 DEF Newest, m, objects

LEMMA ServedNext ==
    ASSUME StartInv, Served, [StartNext]_allVars PROVE Served'
<1>1. UNCHANGED serverVars
  BY DEF StartNext, StartMain, StartPop, OnMessage, allVars
<1>2. arrived' <= MaxMessages
  <2>1. arrived \in Nat
    BY DEF StartInv, PumpInv, TypeOK
  <2>2. arrived' = arrived \/ (arrived < MaxMessages /\ arrived' = arrived + 1)
    BY DEF StartNext, StartMain, StartPop, PollTake, OnMessage, Handle, Poll, PollEmpty, EnterUpdate,
           Rewait, Test, Pop, Arrive, Close, Spurious, allVars, vars
  <2> QED
    BY <2>1, <2>2, PumpAssumption DEF Served
<1> QED
  BY <1>1, <1>2 DEF Served, serverVars

\* The message that is taken last is one that the server sent.
LEMMA TakenInTime ==
    ASSUME StartInv, Served
    PROVE  /\ PollTake => /\ Len(handled) \in Nat /\ Len(handled) + 1 <= MaxMessages
           /\ Handle => /\ Len(handled) \in Nat /\ Len(handled) >= 5
                        /\ Len(handled') = Len(handled) + 1
                        /\ inHand = Len(handled) + 1 /\ inHand \in StartUp..MaxMessages
<1>t. /\ deqQueue \in Seq(Nat) /\ handled \in Seq(Nat) /\ Len(handled) \in Nat
      /\ arrived \in Nat /\ MaxMessages \in Nat /\ Len(deqQueue) \in Nat /\ inHand \in Nat
      /\ Taken + Len(deqQueue) = arrived /\ arrived <= MaxMessages
  BY PumpAssumption DEF StartInv, PumpInv, TypeOK, Numbered, Served
<1>1. ASSUME PollTake PROVE Len(handled) + 1 <= MaxMessages
  <2>1. pc = "pollPop" /\ deqQueue # <<>>
    BY <1>1 DEF PollTake, pop_front
  <2>2. Taken = Len(handled) /\ Len(deqQueue) >= 1
    BY <2>1, <1>t, HeadTail DEF Taken
  <2> HIDE DEF Taken
  <2> QED
    BY <2>2, <1>t
<1>2. ASSUME Handle
      PROVE  /\ Len(handled) >= 5 /\ Len(handled') = Len(handled) + 1
             /\ inHand = Len(handled) + 1 /\ inHand \in StartUp..MaxMessages
  <2>1. pc = "handle" /\ handled' = Append(handled, inHand)
    BY <1>2 DEF Handle
  <2>2. ~(Len(handled) < 5)
    BY <2>1 DEF StartInv, PumpInv, Phases, Starting
  <2>3. inHand = Len(handled) + 1 /\ Taken = Len(handled) + 1
    BY <2>1 DEF StartInv, PumpInv, Numbered, Taken
  <2>4. Len(handled') = Len(handled) + 1
    BY <2>1, <1>t, AppendFacts
  <2>5. inHand \in StartUp..MaxMessages
    BY <2>2, <2>3, <1>t
  <2> QED
    BY <1>t, <2>2, <2>3, <2>4, <2>5
<1> QED
  BY <1>1, <1>2, <1>t

LEMMA ReceivedStays ==
    ASSUME Received, UNCHANGED <<handled, serverVars, clientVars>> PROVE Received'
<1>1. UNCHANGED <<handled, announced, carried, m_ent_buffer, m_nentities_size, m_entities,
                  undefined, M_STARTUP_OKAY>>
  BY DEF serverVars, clientVars, startVars, entityVars
<1>2. Newest(Len(handled))' = Newest(Len(handled))
  BY <1>1 DEF Newest, Entities
<1> QED
  BY <1>1, <1>2 DEF Received

\* Taking the entities of message k once the size is known.
LEMMA EntitiesTaken ==
    ASSUME Served, NEW k \in StartUp..MaxMessages, TakeEntities(k),
           m_nentities_size = announced
    PROVE  /\ m_entities' = Newest(k) /\ Len(m_ent_buffer') = announced
           /\ ~Outside(body(k), m_nentities_size * sizeof.Entity)
<1>1. m_ent_buffer' = Newest(k) /\ m_entities' = Newest(k)
  BY EntityBodies DEF TakeEntities
<1> QED
  BY <1>1, EntityBodies

LEMMA ReceivesStart ==
    ASSUME StartInv, Served, Received, StartPop PROVE Received'
<1> DEFINE n == Len(handled)
           k == n + 1
<1>1. PollTake /\ UNCHANGED serverVars
  BY DEF StartPop
<1>2. /\ n \in {0, 1, 2, 3, 4} /\ n \in Nat /\ k <= MaxMessages /\ Head(deqQueue) = k
      /\ Len(handled') = n + 1
  BY <1>1, NextOfWelcome, TakenInTime
<1>3. GetAccept(k) \/ GetConsole(k) \/ GetMap(k) \/ GetEntitiesSize(k) \/ GetEntities(k)
  BY <1>2 DEF StartPop
<1>4. /\ n = 0 => header_id(k) = "Server_Accept"
      /\ n = 1 => header_id(k) = "Send_Map_Console_Layout"
      /\ n = 2 => header_id(k) = "Send_Map_Layout"
      /\ n = 3 => header_id(k) = "Send_Entities_Size"
      /\ n = 4 => header_id(k) = "Send_Entities"
  BY <1>2, WelcomeIds
<1>5. k \in Nat /\ MaxMessages \in Nat
  BY <1>2, PumpAssumption
<1> HIDE DEF n, k
<1>6. CASE n \in {0, 1, 2}
  <2>1. GetAccept(k) \/ GetConsole(k) \/ GetMap(k)
    BY <1>3, <1>4, <1>6 DEF GetEntitiesSize, GetEntities
  <2>2. UNCHANGED <<m_ent_buffer, m_nentities_size, m_entities, M_STARTUP_OKAY>>
    BY <2>1 DEF GetAccept, GetConsole, GetMap, clientVars, startVars, entityVars
  <2>3. undefined' = FALSE
    <3>1. undefined = FALSE
      BY DEF Received
    <3> QED
      BY <1>5, <2>1, <3>1, WelcomeBodies DEF GetAccept, GetConsole, GetMap, clientVars
  <2>4. n < 4 /\ Len(handled') < 4 /\ ~(Len(handled') >= 4) /\ ~(Len(handled') >= 5)
    BY <1>2, <1>6
  <2>5. m_ent_buffer = <<>> /\ m_nentities_size = 0 /\ Len(m_ent_buffer) = m_nentities_size
        /\ M_STARTUP_OKAY \in BOOLEAN
    BY <2>4 DEF Received, n
  <2> QED
    BY <2>2, <2>3, <2>4, <2>5 DEF Received
<1>7. CASE n = 3
  <2>1. GetEntitiesSize(k)
    BY <1>3, <1>4, <1>7 DEF GetAccept, GetConsole, GetMap, GetEntities
  <2>2. m_ent_buffer = <<>> /\ undefined = FALSE /\ M_STARTUP_OKAY \in BOOLEAN
    BY <1>7 DEF Received, n
  <2>3. ~Outside(body(k), sizeof.size_t) /\ pull(body(k), sizeof.size_t).value = announced
    BY <1>4, <1>5, <1>7, WelcomeBodies
  <2>4. /\ m_nentities_size' = announced /\ M_STARTUP_OKAY' = M_STARTUP_OKAY
        /\ m_ent_buffer' = resized(<<>>, announced)
        /\ undefined' = (undefined \/ Outside(body(k), sizeof.size_t) \/ Destroyed(<<>>, announced))
    BY <2>1, <2>2, <2>3 DEF GetEntitiesSize
  <2>5. ~Destroyed(<<>>, announced)
    BY DEF Destroyed
  <2>6. Len(m_ent_buffer') = announced
    BY <2>4 DEF Served, resized
  <2>7. undefined' = FALSE
    BY <2>2, <2>3, <2>4, <2>5
  <2>8. ~(Len(handled') < 4) /\ Len(handled') >= 4 /\ ~(Len(handled') >= 5) /\ announced' = announced
    BY <1>1, <1>2, <1>7 DEF serverVars
  <2>9. M_STARTUP_OKAY' \in BOOLEAN
    BY <2>2, <2>4
  <2> QED
    BY <2>4, <2>6, <2>7, <2>8, <2>9 DEF Received
<1>8. CASE n = 4
  <2>1. GetEntities(k)
    BY <1>3, <1>4, <1>8 DEF GetAccept, GetConsole, GetMap, GetEntitiesSize
  <2>2. m_nentities_size = announced /\ undefined = FALSE
    BY <1>8 DEF Received, n
  <2>3. k \in StartUp..MaxMessages /\ k = 5 /\ Len(handled') = k
    BY <1>2, <1>5, <1>8 DEF k
  <2>4. /\ m_entities' = Newest(k) /\ Len(m_ent_buffer') = announced
        /\ ~Outside(body(k), m_nentities_size * sizeof.Entity)
    BY <2>1, <2>2, <2>3, EntitiesTaken DEF GetEntities
  <2>5. m_map # "none" /\ GOT' = Flags
    <3>1. /\ GOT \subseteq Flags /\ "CONSOLE" \in GOT /\ "MAP" \in GOT /\ "ENTITIES_SIZE" \in GOT
          /\ m_map = "map"
      BY <1>8 DEF StartInv, Collected, n
    <3> QED
      BY <2>1, <3>1 DEF GetEntities, Flags
  <2>6. undefined' = FALSE
    BY <2>1, <2>2, <2>4, <2>5 DEF GetEntities
  <2>7. m_nentities_size' = announced /\ M_STARTUP_OKAY' \in BOOLEAN /\ announced' = announced
    BY <1>1, <2>1, <2>2 DEF GetEntities, serverVars
  <2>8. ~(Len(handled') < 4) /\ Newest(Len(handled))' = Newest(k)
    BY <1>1, <2>3 DEF Newest, Entities, serverVars
  <2> QED
    BY <2>3, <2>4, <2>6, <2>7, <2>8 DEF Received
<1> QED
  BY <1>2, <1>6, <1>7, <1>8

LEMMA ReceivesUpdate ==
    ASSUME StartInv, Served, Received, OnMessage PROVE Received'
<1>1. Handle /\ UNCHANGED <<serverVars, startVars>>
  BY DEF OnMessage
<1>2. /\ Len(handled) \in Nat /\ Len(handled) >= 5 /\ Len(handled') = Len(handled) + 1
      /\ inHand = Len(handled) + 1 /\ inHand \in StartUp..MaxMessages
  BY <1>1, TakenInTime
<1>3. m_nentities_size = announced /\ undefined = FALSE /\ M_STARTUP_OKAY \in BOOLEAN
  BY <1>2 DEF Received
<1>4. TakeEntities(inHand)
      /\ undefined' = (undefined \/ Outside(body(inHand), m_nentities_size * sizeof.Entity))
  BY <1>2, EntityBodies DEF OnMessage
<1>5. /\ m_entities' = Newest(inHand) /\ Len(m_ent_buffer') = announced
      /\ ~Outside(body(inHand), m_nentities_size * sizeof.Entity)
  BY <1>2, <1>3, <1>4, EntitiesTaken
<1>6. undefined' = FALSE
  BY <1>3, <1>4, <1>5
<1>7. ~(Len(handled') < 4) /\ Len(handled') = inHand
  BY <1>2
<1>8. Newest(Len(handled))' = Newest(inHand)
  BY <1>1, <1>7 DEF Newest, Entities, serverVars
<1>9. m_nentities_size' = announced /\ announced' = announced
      /\ M_STARTUP_OKAY' \in BOOLEAN
  BY <1>1, <1>3 DEF startVars, serverVars
<1> QED
  BY <1>5, <1>6, <1>7, <1>8, <1>9 DEF Received

LEMMA ReceivedNext ==
    ASSUME StartInv, Served, Received, [StartNext]_allVars PROVE Received'
<1>1. CASE StartPop
  BY <1>1, ReceivesStart
<1>2. CASE OnMessage
  BY <1>2, ReceivesUpdate
<1>3. CASE /\ \/ Poll \/ PollEmpty \/ EnterUpdate \/ Rewait \/ Test \/ Pop
              \/ Arrive \/ Close \/ Spurious
           /\ UNCHANGED <<serverVars, clientVars>>
  <2>1. handled' = handled
    BY <1>3 DEF Poll, PollEmpty, EnterUpdate, Rewait, Test, Pop, Arrive, Close, Spurious
  <2> QED
    BY <1>3, <2>1, ReceivedStays
<1>4. CASE UNCHANGED allVars
  BY <1>4, ReceivedStays DEF allVars, vars
<1> QED
  BY <1>1, <1>2, <1>3, <1>4 DEF StartNext, StartMain

LEMMA ReceivedInit == StartInit => Served /\ Received
<1> SUFFICES ASSUME StartInit PROVE Served /\ Received
  OBVIOUS
<1>1. handled = <<>> /\ Len(handled) = 0 /\ arrived = 0
  BY DEF StartInit, Init
<1>2. Served
  BY <1>1, PumpAssumption DEF StartInit, Served
<1>3. /\ m_ent_buffer = <<>> /\ m_nentities_size = 0
      /\ M_STARTUP_OKAY \in BOOLEAN
  BY DEF StartInit
<1>4. undefined = FALSE
  BY Zenon DEF StartInit
<1>5. Len(m_ent_buffer) = m_nentities_size
  BY <1>3, EmptySeq
<1>6. /\ Len(handled) < 4 => m_ent_buffer = <<>> /\ m_nentities_size = 0
      /\ ~(Len(handled) >= 4)
      /\ ~(Len(handled) >= 5)
  BY <1>1, <1>3
<1>7. Received
  BY <1>3, <1>4, <1>5, <1>6, Zenon DEF Received
<1> QED
  BY <1>2, <1>7

(* What the client has is always what the messages said. *)
THEOREM ReceivedInvariant == StartSpec => [](StartInv /\ Served /\ Received)
  BY StartInvInit, StartInvNext, ReceivedInit, ServedNext, ReceivedNext, PTL DEF StartSpec

(* Every variable of the client's start-up keeps its type, and the buffer for the
   entities has the size that was announced. *)
THEOREM StartTypeCorrect == StartSpec => []StartTypeOK
<1>1. StartInv /\ Served /\ Received => StartTypeOK
  BY DEF StartInv, PumpInv, Collected, Served, Received, StartTypeOK
<1> QED
  BY <1>1, ReceivedInvariant, PTL

(* No read beyond a body, no unassigned flag, no map missing, no destructor of an
   Entity that came as bytes (NetMsg.h:131-135, Client.cpp:75-84). *)
THEOREM NothingUndefinedHappens == StartSpec => []NothingUndefined
<1>1. Received => NothingUndefined
  BY DEF Received, NothingUndefined
<1> QED
  BY <1>1, ReceivedInvariant, PTL

\* Message k is handled k-th, and only those of the welcome bring no entities.
LEMMA TakenSoFar ==
    ASSUME StartInv, Served, NEW k \in 1..Len(handled)
    PROVE  /\ handled[k] = k
           /\ header_id(handled[k]) = "Send_Entities" <=> k >= 5
<1>1. handled[k] = k /\ k \in Nat
  BY DEF StartInv, PumpInv, Numbered
<1>2. k \in 1..4 => header_id(k) # "Send_Entities"
  <2>1. k \in 1..4 => k \in {1, 2, 3, 4}
    BY <1>1
  <2>2. \A q \in {1, 2, 3, 4} : header_id(q) # "Send_Entities"
    BY DEF header_id, Welcome
  <2> QED
    BY <2>1, <2>2
<1>3. k >= 5 => header_id(k) = "Send_Entities"
  BY <1>1 DEF header_id, Welcome
<1>4. k \in 1..4 \/ k >= 5
  BY <1>1
<1>5. k \in 1..4 => ~(k >= 5)
  BY <1>1
<1> QED
  BY <1>1, <1>2, <1>3, <1>4, <1>5

(* The client's entities are the last that were announced of the newest message
   it handled, whole and in the server's order (Server.cpp:65-71). *)
THEOREM EntitiesStayWhole == StartSpec => []EntitiesAsSent
<1>1. StartInv /\ Served /\ Received => EntitiesAsSent
  <2> SUFFICES ASSUME StartInv, Served, Received PROVE EntitiesAsSent
    OBVIOUS
  <2> DEFINE n == Len(handled)
             taken == {k \in 1..n : header_id(handled[k]) = "Send_Entities"}
  <2>1. n \in Nat
    BY DEF StartInv, PumpInv, TypeOK
  <2>2. taken = {k \in 1..n : k >= 5}
    BY TakenSoFar
  <2> HIDE DEF taken
  <2>3. ASSUME taken # {}
        PROVE  /\ n \in taken /\ \A l \in taken : l <= n
               /\ m_entities = SubSeq(Entities(n), carried[n] - announced + 1, carried[n])
    <3>1. n >= 5 /\ n \in taken /\ \A l \in taken : l <= n
      BY <2>1, <2>2, <2>3
    <3>2. m_entities = Newest(n)
      BY <3>1 DEF Received
    <3> QED
      BY <3>1, <3>2 DEF Newest
  <2> QED
    BY <2>3 DEF EntitiesAsSent, taken
<1> QED
  BY <1>1, ReceivedInvariant, PTL
=============================================================================
