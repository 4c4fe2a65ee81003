-------------------------- MODULE ClientViewProofs --------------------------
(***************************************************************************)
(* Theorems about ClientView, for any number of entities and of updates.   *)
(*                                                                         *)
(* The inductive invariant adds to the types where the pointer to the      *)
(* condition variable is while the map's thread sleeps (Pointer), and that *)
(* nothing read, shown or sent is newer than the vector (Bounded); what is *)
(* sent last bounds what is shown until the next entity is copied (Sent).  *)
(***************************************************************************)
EXTENDS ClientView, TLAPS

Asleep == Map \in sleeping \union woken

Pointer ==
    /\ pc = "asleep" <=> Asleep
    /\ sleeping \intersect woken = {}
    /\ prev_ptr = "shared"
    /\ cv_ptr = IF Asleep THEN Map ELSE "shared"

Bounded ==
    /\ \A f \in DOMAIN read : read[f] <= vec
    /\ \A e \in Entities, f \in Fields : shown[e][f] <= vec

Sent ==
    pc \in {"start", "run", "asleep"} /\ body # <<>> =>
        \A e \in Entities, f \in Fields : shown[e][f] <= body[Len(body)]

IInv == TypeOK /\ Pointer /\ Bounded /\ Sent

\* How many wake-ups an update takes is a positive number.
LEMMA FrequencyType == Frequency \in Nat \ {0}
<1> QED BY ViewAssumption DEF Frequency

\* The types: every step of either thread writes values of the right kind.
LEMMA TypeStep == TypeOK /\ Pointer /\ [Next]_vars => TypeOK'
<1> SUFFICES ASSUME TypeOK, Pointer, [Next]_vars PROVE TypeOK'
    OBVIOUS
<1> USE ViewAssumption, FrequencyType DEF TypeOK, Updates, Entities
<1>1. CASE OnMessage
    BY <1>1 DEF OnMessage, Assign, notify_one, threadVars
<1>2. CASE StartUp
    BY <1>2 DEF StartUp, vectorVars
<1>3. CASE Wait
    BY <1>3 DEF Wait, FallAsleep
<1>4. CASE Return
    <2>1. read' \in [{} -> Updates]
        BY <1>4 DEF Return
    <2>2. \E S \in SUBSET Fields : read' \in [S -> Updates]
        BY <2>1
    <2>3. pc' \in {"run", "erase"} /\ calls' \in 0..Frequency
        BY <1>4 DEF Return
    <2>4. cv_ptr' \in {"shared", Map} /\ prev_ptr' \in {"shared", Map}
          /\ sleeping' \subseteq {Map} /\ woken' \subseteq {Map} /\ vec' = vec
        BY <1>4 DEF Return, WakeUp
    <2>5. i' = 0 /\ UNCHANGED <<spurious, placed, shown, body>>
        BY <1>4 DEF Return
    <2>6. 0 \in Entities
        OBVIOUS
    <2> QED BY <2>2, <2>3, <2>4, <2>5, <2>6 DEF Statement
<1>5. CASE ReadField
    <2>1. PICK S \in SUBSET Fields : read \in [S -> Updates]
        OBVIOUS
    <2>2. PICK f \in Operands(pc) \ DOMAIN read :
            read' = [g \in DOMAIN read \union {f} |-> IF g = f THEN vec ELSE read[g]]
        BY <1>5 DEF ReadField
    <2>3. f \in Fields
        BY <2>2 DEF Operands, Fields
    <2>4. read' \in [S \union {f} -> Updates]
        BY <2>1, <2>2
    <2>5. \E R \in SUBSET Fields : read' \in [R -> Updates]
        BY <2>1, <2>3, <2>4
    <2> QED BY <1>5, <2>5 DEF ReadField, vectorVars
<1>6. CASE Execute
    <2>1. read' \in [{} -> Updates]
        BY <1>6 DEF Execute, Advance
    <2>2. \E S \in SUBSET Fields : read' \in [S -> Updates]
        BY <2>1
    <2>3. read \in [Operands(pc) -> Updates]
        BY <1>6 DEF Execute, Advance
    <2>4. pc' \in {"erase", "copy", "place", "send"} /\ i' \in Entities
        BY <1>6 DEF Execute, Advance
    <2>5. placed' \in [Entities -> [Position -> Updates]]
        BY <1>6, <2>3 DEF Execute, Advance, Operands
    <2>6. shown' \in [Entities -> [Fields -> Updates]]
        BY <1>6, <2>3 DEF Execute, Advance, Operands
    <2>7. UNCHANGED <<vec, cv_ptr, prev_ptr, sleeping, woken, calls, spurious, body>>
        BY <1>6 DEF Execute, Advance, vectorVars
    <2> QED BY <2>2, <2>4, <2>5, <2>6, <2>7 DEF Statement
<1>7. CASE Send
    <2>1. body' \in Seq(Updates)
        BY <1>7 DEF Send
    <2> QED BY <1>7, <2>1 DEF Send, vectorVars
<1>8. CASE Spurious
    BY <1>8 DEF Spurious, SpuriousWakeup
<1>9. CASE UNCHANGED vars
    BY <1>9 DEF vars, vectorVars, threadVars
<1>10. CASE Throws
    BY <1>10 DEF Throws, vectorVars
<1> QED BY <1>1, <1>2, <1>3, <1>4, <1>5, <1>6, <1>7, <1>8, <1>9, <1>10 DEF Next, MapThread

\* cv_ptr: only the map's thread changes it, and only around its sleep.
LEMMA PointerStep == TypeOK /\ Pointer /\ [Next]_vars => Pointer'
<1> SUFFICES ASSUME TypeOK, Pointer, [Next]_vars PROVE Pointer'
    OBVIOUS
<1>t. /\ sleeping \subseteq {Map} /\ woken \subseteq {Map}
      /\ Map # "shared"
    BY DEF TypeOK, Map
<1> USE DEF Pointer, Asleep
<1>1. CASE OnMessage
    BY <1>1, <1>t DEF OnMessage, Assign, notify_one, threadVars
<1>2. CASE StartUp
    BY <1>2, <1>t DEF StartUp, vectorVars
<1>3. CASE Wait
    BY <1>3, <1>t DEF Wait, FallAsleep
<1>4. CASE Return
    BY <1>4, <1>t DEF Return, WakeUp
<1>5. CASE ReadField
    BY <1>5, <1>t DEF ReadField, vectorVars
<1>6. CASE Execute
    BY <1>6, <1>t DEF Execute, Advance, vectorVars, Statement
<1>7. CASE Send
    BY <1>7, <1>t DEF Send, vectorVars
<1>8. CASE Spurious
    BY <1>8, <1>t DEF Spurious, SpuriousWakeup
<1>9. CASE UNCHANGED vars
    BY <1>9 DEF vars, vectorVars, threadVars
<1>10. CASE Throws
    BY <1>10, <1>t DEF Throws, vectorVars, Statement
<1> QED BY <1>1, <1>2, <1>3, <1>4, <1>5, <1>6, <1>7, <1>8, <1>9, <1>10 DEF Next, MapThread

\* Nothing is newer than the vector: its update only grows.
LEMMA BoundedStep == TypeOK /\ Bounded /\ [Next]_vars => Bounded'
<1> SUFFICES ASSUME TypeOK, Bounded, [Next]_vars PROVE Bounded'
    OBVIOUS
<1>v. vec \in Nat
    BY ViewAssumption DEF TypeOK, Updates
<1>s. shown \in [Entities -> [Fields -> Nat]]
    BY ViewAssumption DEF TypeOK, Updates
<1>r. PICK S \in SUBSET Fields : read \in [S -> Nat]
    BY ViewAssumption DEF TypeOK, Updates
<1> USE DEF Bounded
<1>1. CASE OnMessage
    <2>1. vec' = vec + 1 /\ read' = read /\ shown' = shown
        BY <1>1 DEF OnMessage, Assign, threadVars
    <2>2. \A f \in DOMAIN read : read[f] <= vec + 1
        BY <1>v, <1>r
    <2>3. \A e \in Entities, f \in Fields : shown[e][f] <= vec + 1
        BY <1>v, <1>s
    <2> QED BY <2>1, <2>2, <2>3
<1>4. CASE Return
    <2>1. DOMAIN read' = {} /\ vec' = vec /\ shown' = shown
        BY <1>4 DEF Return, WakeUp
    <2> QED BY <2>1
<1>5. CASE ReadField
    <2>1. PICK f \in Operands(pc) \ DOMAIN read :
            read' = [g \in DOMAIN read \union {f} |-> IF g = f THEN vec ELSE read[g]]
        BY <1>5 DEF ReadField
    <2>2. vec' = vec /\ shown' = shown
        BY <1>5 DEF ReadField, vectorVars
    <2>3. \A g \in DOMAIN read' : read'[g] <= vec
        BY <2>1, <1>v
    <2> QED BY <2>2, <2>3
<1>6. CASE Execute
    <2>1. DOMAIN read' = {} /\ vec' = vec /\ DOMAIN read = Operands(pc)
        BY <1>6 DEF Execute, Advance, vectorVars
    <2>2. shown' = shown \/ (pc = "copy" /\ shown' = [shown EXCEPT ![i] = read])
        BY <1>6 DEF Execute, Advance
    <2>3. CASE shown' = shown
        BY <2>1, <2>3
    <2>4. CASE pc = "copy" /\ shown' = [shown EXCEPT ![i] = read]
        <3>1. DOMAIN read = Fields
            BY <2>1, <2>4 DEF Operands
        <3>2. \A e \in Entities : shown'[e] = IF e = i THEN read ELSE shown[e]
            BY <2>4, <1>s
        <3>3. \A e \in Entities, f \in Fields : shown'[e][f] <= vec
            BY <3>1, <3>2
        <3> QED BY <2>1, <3>3
    <2> QED BY <2>2, <2>3, <2>4
<1>9. CASE StartUp \/ Wait \/ Throws \/ Send \/ Spurious \/ UNCHANGED vars
    <2>1. vec' = vec /\ read' = read /\ shown' = shown
        BY <1>9 DEF StartUp, Wait, FallAsleep, Throws, Send, Spurious, SpuriousWakeup,
                    vars, vectorVars, threadVars
    <2> QED BY <2>1
<1> QED BY <1>1, <1>4, <1>5, <1>6, <1>9 DEF Next, MapThread

\* What was sent bounds what is shown until the thread copies again.
LEMMA SentStep == TypeOK /\ Bounded /\ Sent /\ [Next]_vars => Sent'
<1> SUFFICES ASSUME TypeOK, Bounded, Sent, [Next]_vars PROVE Sent'
    OBVIOUS
<1>b. body \in Seq(Updates) /\ vec \in Updates
    BY DEF TypeOK
<1> USE DEF Sent
<1>1. CASE StartUp \/ OnMessage \/ Wait \/ Return \/ Throws \/ Spurious
           \/ UNCHANGED vars
    <2>1. body' = body /\ shown' = shown
        BY <1>1 DEF StartUp, OnMessage, Wait, Return, Throws, Spurious, vars, threadVars
    <2>2. pc' \in {"start", "run", "asleep"} => pc \in {"start", "run", "asleep"}
        BY <1>1 DEF StartUp, OnMessage, Wait, Return, Throws, Spurious, vars, threadVars
    <2> QED BY <2>1, <2>2
<1>2. CASE ReadField
    BY <1>2 DEF ReadField, Statement
<1>3. CASE Execute
    BY <1>3 DEF Execute, Advance
<1>4. CASE Send
    <2>1. body' = Append(body, vec) /\ shown' = shown
        BY <1>4 DEF Send
    <2>2. body'[Len(body')] = vec
        BY <2>1, <1>b
    <2> QED BY <2>1, <2>2 DEF Bounded
<1> QED BY <1>1, <1>2, <1>3, <1>4 DEF Next, MapThread

\* The start: the welcome's entities, shown and nothing else.
LEMMA ViewInit == Init => IInv
<1> SUFFICES ASSUME Init PROVE IInv
    OBVIOUS
<1> USE ViewAssumption, FrequencyType
<1>1. 1 \in Updates /\ 0 \in Entities
    BY DEF Updates, Entities
<1>2. read \in [{} -> Updates]
    BY <1>1 DEF Init
<1>3. TypeOK
    <2>1. \E S \in SUBSET Fields : read \in [S -> Updates]
        BY <1>2
    <2>2. placed \in [Entities -> [Position -> Updates]]
          /\ shown \in [Entities -> [Fields -> Updates]]
        BY <1>1 DEF Init
    <2>3. calls \in 0..Frequency /\ spurious \in 0..MaxSpurious /\ i \in Entities
        BY <1>1 DEF Init
    <2>4. body \in Seq(Updates)
        BY DEF Init
    <2>5. /\ vec \in Updates
          /\ cv_ptr \in {"shared", Map} /\ prev_ptr \in {"shared", Map}
          /\ sleeping \subseteq {Map} /\ woken \subseteq {Map}
        BY <1>1 DEF Init, VectorInit
    <2>6. pc \in {"start", "run", "asleep", "send"}
        BY DEF Init
    <2> QED BY <2>1, <2>2, <2>3, <2>4, <2>5, <2>6 DEF TypeOK
<1>4. Pointer
    BY DEF Init, VectorInit, Pointer, Asleep, Map
<1>5. Bounded
    BY <1>2 DEF Init, VectorInit, Bounded
<1>6. Sent
    BY DEF Init, Sent
<1> QED BY <1>3, <1>4, <1>5, <1>6 DEF IInv

(* The two threads of the client keep the inductive invariant, whatever they and
   the server's updates interleave to (Map.cpp:43-71, TSVector.h:104-214). *)
THEOREM ViewInvariant == Spec => []IInv
<1>1. IInv /\ [Next]_vars => IInv'
    BY TypeStep, PointerStep, BoundedStep, SentStep DEF IInv
<1> QED BY ViewInit, <1>1, PTL DEF Spec

(* Every variable of the client's two threads keeps its type: the index of
   update_entities() stays within the entities (Map.cpp:63). *)
THEOREM ViewTypeCorrect == Spec => []TypeOK
<1>1. IInv => TypeOK
    BY DEF IInv
<1> QED BY <1>1, ViewInvariant, PTL

(* When the thread is not in wait(), cv_ptr is the vector's own condition
   variable, whatever woke the thread (TSVector.h:212-213). *)
THEOREM PointerIsRestored == Spec => []PointerRestored
<1>1. IInv => PointerRestored
    BY DEF IInv, Pointer, Asleep, PointerRestored
<1> QED BY <1>1, ViewInvariant, PTL

(* An update that finds the map's thread asleep wakes it (TSVector.h:116). *)
THEOREM UpdatesWake == Spec => UpdateWakes
<1>1. IInv /\ [Next]_vars => [vec' # vec /\ Map \in sleeping => Map \in woken']_vars
    <2> SUFFICES ASSUME IInv, [Next]_vars, vec' # vec, Map \in sleeping
                 PROVE  Map \in woken'
        OBVIOUS
    <2>1. OnMessage
        BY DEF Next, MapThread, StartUp, Wait, FallAsleep, Return, WakeUp, ReadField,
               Execute, Advance, Throws, Send, Spurious, SpuriousWakeup, vars, vectorVars
    <2>2. cv_ptr = Map
        BY DEF IInv, Pointer, Asleep
    <2> QED BY <2>1, <2>2 DEF OnMessage, Assign, notify_one
<1> QED BY <1>1, ViewInvariant, PTL DEF Spec, UpdateWakes

(* The entities sent last are at least as new as those shown, for any number of
   updates between the two reads (ClientMap.cpp:23, 29). *)
THEOREM SentIsNotOlder == Spec => []SentNotOlder
<1>1. IInv => SentNotOlder
    BY DEF IInv, Sent, SentNotOlder
<1> QED BY <1>1, ViewInvariant, PTL
=============================================================================
