----------------------------- MODULE ClientView -----------------------------
(***************************************************************************)
(* A client after m_start(): its main thread, which update() and           *)
(* on_message() keep writing the entities the server sends to m_entities,  *)
(* and the map's thread, which waits for a change, updates the map and the *)
(* screen from m_entities, and sends them back to the server.              *)
(*                                                                         *)
(* What an entity is does not matter here, only which message it is from:  *)
(* the value of each field of each entity is the number of the update that *)
(* wrote it.  The map's thread reads the fields through references that    *)
(* at() returned, without a lock, and in an order that the language leaves *)
(* open (Map.cpp:66, 68): each read is one step, in any order.  An         *)
(* assignment is one step: at() takes the mutex for every operand, so what *)
(* is read while one is under way has an order of reads in which it is not *)
(* (the reads of one statement), or waits for its end (the next one).      *)
(*                                                                         *)
(* Where the entities are is the server's choice: at() throws when a       *)
(* position lies outside the grid, and the fields of two updates may well  *)
(* make such a position of two that lie inside.  Nothing catches what is   *)
(* thrown in the map's thread: it ends the client.                         *)
(***************************************************************************)
EXTENDS Sequences, TSVector

CONSTANTS m_nentities_size, \* entities of the map
          update_freq, \* the argument of Map::run()
          Inside,      \* the updates whose entities are within the map, as are
                       \* the places they came from
          MaxUpdates,  \* bound: updates by the server, that of the welcome included
          MaxSpurious  \* bound: wake-ups that nobody caused

ASSUME ViewAssumption ==
    /\ m_nentities_size \in Nat \ {0}
    /\ update_freq \in Nat \ {0}
    /\ Inside \subseteq Nat
    /\ 1 \in Inside  \* m_start() has written the entities of the welcome
    /\ MaxUpdates \in Nat \ {0}
    /\ MaxSpurious \in Nat

VARIABLES pc,       \* of the map's thread
          calls,    \* wakeup_calls
          spurious, \* wake-ups so far that nobody caused
          i,        \* the index in the loop of update_entities()
          read,     \* the fields read in this statement, with their updates
          placed,   \* for each entity, the position it was written to last
          shown,    \* and the copy of it made last, to be written there
          body      \* m_entity_message: the updates whose entities it holds

threadVars == <<pc, calls, spurious, i, read, placed, shown, body>>
vars == <<vectorVars, threadVars>>

Entities == 0..(m_nentities_size - 1)
Map == "map"  \* the map's thread
Position == {"x", "y"}
Fields == Position \union {"velo_x", "velo_y"}
Updates == 1..MaxUpdates

\* update_freq, but 1 if there are fewer entities than that.
Frequency == IF update_freq > m_nentities_size THEN 1 ELSE update_freq

\* The steps of Map::update_entities(): what each statement reads.
Statement == {"erase", "copy", "place"}
Operands(statement) == IF statement = "place" THEN Position ELSE Fields

\* What each coordinate of a cell is computed from.
Coordinates == {{"x", "velo_x"}, {"y", "velo_y"}}

\* The cell of this statement is certainly one of the grid's: each of its
\* coordinates is that of an entity inside.
InMap == \A c \in Coordinates :
             \E v \in Inside : \A f \in c \intersect DOMAIN read : read[f] = v

TypeOK ==
    /\ vec \in Updates
    /\ cv_ptr \in {"shared", Map} /\ prev_ptr \in {"shared", Map}
    /\ sleeping \subseteq {Map} /\ woken \subseteq {Map}
    /\ pc \in {"start", "run", "asleep", "send", "terminated"} \union Statement
    /\ calls \in 0..Frequency
    /\ spurious \in 0..MaxSpurious
    /\ i \in Entities
    /\ \E S \in SUBSET Fields : read \in [S -> Updates]
    /\ placed \in [Entities -> [Position -> Updates]]
    /\ shown \in [Entities -> [Fields -> Updates]]
    /\ body \in Seq(Updates)

\* m_start() has written and shown the entities of the welcome.
Init ==
    /\ VectorInit(1)
    /\ pc = "start"
    /\ calls = 0
    /\ spurious = 0
    /\ i = 0
    /\ read = [f \in {} |-> 1]
    /\ placed = [e \in Entities |-> [f \in Position |-> 1]]
    /\ shown = [e \in Entities |-> [f \in Fields |-> 1]]
    /\ body = <<>>
-----------------------------------------------------------------------------
(* The main thread.                                                        *)

\* on_message() with Send_Entities.
OnMessage ==
    /\ pc # "terminated"
    /\ vec < MaxUpdates
    /\ Assign(vec + 1)
    /\ UNCHANGED threadVars
-----------------------------------------------------------------------------
(* The map's thread.                                                       *)

\* ClientMap::run() draws the walls.
StartUp ==
    /\ pc = "start"
    /\ pc' = "run"
    /\ UNCHANGED <<vectorVars, calls, spurious, i, read, placed, shown, body>>

\* Map::run(): wait(custom_cond).
Wait ==
    /\ pc = "run"
    /\ FallAsleep(Map)
    /\ pc' = "asleep"
    /\ UNCHANGED <<calls, spurious, i, read, placed, shown, body>>

\* The wait returns: another one, or update_entities().
Return ==
    /\ pc = "asleep"
    /\ WakeUp(Map)
    /\ IF calls + 1 < Frequency THEN pc' = "run" /\ calls' = calls + 1
                                ELSE pc' = "erase" /\ calls' = 0
    /\ i' = 0
    /\ read' = [f \in {} |-> 1]
    /\ UNCHANGED <<spurious, placed, shown, body>>

\* One operand of the statement is read.
ReadField ==
    /\ pc \in Statement
    /\ \E f \in Operands(pc) \ DOMAIN read :
         read' = [g \in DOMAIN read \union {f} |-> IF g = f THEN vec ELSE read[g]]
    /\ UNCHANGED <<vectorVars, pc, calls, spurious, i, placed, shown, body>>

\* After an entity comes the next one, and after the last one the screen.
AdvanceNever == i' = 0 /\ pc' = "send"
Advance == IF i + 1 \in Entities THEN i' = i + 1 /\ pc' = "erase"
                                 ELSE i' = 0 /\ pc' = "send"

\* The statement is executed: the cell of the previous position is reset; the
\* entity is copied; the copy is written to the cell of its position, which is
\* read again.
Execute ==
    /\ pc \in Statement
    /\ DOMAIN read = Operands(pc)
    /\ read' = [f \in {} |-> 1]
    /\ \/ /\ pc = "erase"
          /\ pc' = "copy"
          /\ UNCHANGED <<i, placed, shown>>
       \/ /\ pc = "copy"
          /\ pc' = "place"
          /\ shown' = [shown EXCEPT ![i] = read]
          /\ UNCHANGED <<i, placed>>
       \/ /\ pc = "place"
          /\ placed' = [placed EXCEPT ![i] = read]
          /\ Advance
          /\ UNCHANGED shown
    /\ UNCHANGED <<vectorVars, calls, spurious, body>>

\* at() finds no such cell, and the exception ends the process.
Throws ==
    /\ pc \in {"erase", "place"}
    /\ DOMAIN read = Operands(pc)
    /\ ~InMap
    /\ pc' = "terminated"
    /\ UNCHANGED <<vectorVars, calls, spurious, i, read, placed, shown, body>>

\* push_back_complex() of get_vector(), and send().
SendReversed ==
    /\ pc = "send"
    /\ body' = <<vec>> \o body
    /\ pc' = "run"
    /\ UNCHANGED <<vectorVars, calls, spurious, i, read, placed, shown>>
Send ==
    /\ pc = "send"
    /\ body' = Append(body, vec)
    /\ pc' = "run"
    /\ UNCHANGED <<vectorVars, calls, spurious, i, read, placed, shown>>

Spurious ==
    /\ spurious < MaxSpurious
    /\ SpuriousWakeup(Map)
    /\ spurious' = spurious + 1
    /\ UNCHANGED <<pc, calls, i, read, placed, shown, body>>
-----------------------------------------------------------------------------
MapThread == StartUp \/ Wait \/ Return \/ ReadField \/ Execute \/ Throws \/ Send

Next == OnMessage \/ MapThread \/ Spurious

Spec == Init /\ [][Next]_vars

\* The map's thread is scheduled whenever it can run.
FairSpec == Spec /\ WF_vars(MapThread)
-----------------------------------------------------------------------------
\* The entities of update v, or of later ones, have been written to the map.
Shown(v) == \A e \in Entities, f \in Fields : shown[e][f] >= v

(* An update that finds the map's thread asleep wakes it: cv_ptr points to the
   condition variable the thread sleeps on (TSVector.h:116, 202-209). *)
UpdateWakes == [][vec' # vec /\ Map \in sleeping => Map \in woken']_vars

(* Outside wait() cv_ptr is the vector's own again (TSVector.h:212-213). *)
PointerRestored == Map \notin sleeping \union woken => cv_ptr = "shared"

(* What was sent to the server last is at least as new as what the map shows,
   whatever was written between the two (ClientMap.cpp:23, 29). *)
SentNotOlder ==
    pc = "run" /\ body # <<>> =>
        \A e \in Entities, f \in Fields : shown[e][f] <= body[Len(body)]

(* Once the map's thread is woken after update v, the map comes to show v or
   something newer, for every entity, or a position outside the grid ends the
   client (Map.cpp:43-49, 66, 68). *)
WakeupShows == \A v \in Updates :
                   Map \in woken /\ vec = v ~> Shown(v) \/ pc = "terminated"

(* Every update wakes the map's thread and gets shown: "= operator overloaded to
   wakeup m_mapThread" (Client.cpp:42).  It does not when the thread is not
   waiting: wait() has no predicate, and the last update may never be shown. *)
EveryUpdateShown == \A v \in Updates : vec = v ~> Shown(v) \/ pc = "terminated"

(* An entity is shown as one update wrote it: HelperType "provides T with a
   shared_mutex to lock the element while writer accesses it" (TSVector.h:11).
   at() returns a reference, and no reader locks that mutex. *)
EntityWhole == \A e \in Entities : \A f, g \in Fields : shown[e][f] = shown[e][g]
=============================================================================
