------------------------------ MODULE TSVector ------------------------------
(***************************************************************************)
(* TSVector<T>: a vector, the shared_mutex that every operation holds from *)
(* its first to its last line, and cv_ptr, which points to the condition   *)
(* variable that writers notify.  wait() lets a thread bring a condition   *)
(* variable of its own, which cv_ptr points to while it sleeps; it has no  *)
(* predicate.  at() gives out a reference, which is read after the mutex   *)
(* was released: the caller's reads of an element are steps of their own.  *)
(***************************************************************************)
EXTENDS Naturals

VARIABLES vec,      \* the elements
          cv_ptr,   \* "shared", or the thread whose condition variable it is
          prev_ptr, \* the local prev_ptr of a thread in wait()
          sleeping, \* the threads inside cv_ptr->wait(), each on its own
          woken     \* those that left it and want the mutex back

vectorVars == <<vec, cv_ptr, prev_ptr, sleeping, woken>>

VectorInit(elements) ==
    /\ vec = elements
    /\ cv_ptr = "shared"
    /\ prev_ptr = "shared"
    /\ sleeping = {}
    /\ woken = {}

\* cv_ptr->notify_one(): at most one thread sleeps on a variable of its own.
notify_one ==
    /\ sleeping' = sleeping \ {cv_ptr}
    /\ woken' = woken \union (sleeping \intersect {cv_ptr})

\* operator=(const std::vector<T>&)
Assign(elements) ==
    /\ vec' = elements
    /\ notify_one
    /\ UNCHANGED <<cv_ptr, prev_ptr>>

\* wait(custom_ptr) by thread t, up to the sleep, which gives the mutex up,
FallAsleepUnseen(t) ==
    /\ prev_ptr' = cv_ptr
    /\ sleeping' = sleeping \union {t}
    /\ UNCHANGED <<vec, cv_ptr, woken>>
FallAsleep(t) ==
    /\ prev_ptr' = cv_ptr
    /\ cv_ptr' = t
    /\ sleeping' = sleeping \union {t}
    /\ UNCHANGED <<vec, woken>>

\* and from there to its end.
WakeUp(t) ==
    /\ t \in woken
    /\ woken' = woken \ {t}
    /\ cv_ptr' = prev_ptr
    /\ UNCHANGED <<vec, prev_ptr, sleeping>>

\* A condition variable may also wake a thread that nobody notified.
SpuriousWakeup(t) ==
    /\ t \in sleeping
    /\ sleeping' = sleeping \ {t}
    /\ woken' = woken \union {t}
    /\ UNCHANGED <<vec, cv_ptr, prev_ptr>>
=============================================================================
