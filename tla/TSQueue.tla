------------------------------ MODULE TSQueue ------------------------------
(***************************************************************************)
(* TSQueue<T>: a deque, the mutex that every operation holds from its      *)
(* first to its last line, and the condition variable cv_push.  Since the  *)
(* mutex is held throughout, an operation is one step; only wait() gives   *)
(* the mutex up, inside cv_push.wait(), and takes it again when woken.     *)
(* The operations that the program never calls (front, back, push_front,   *)
(* pop_back, count) are left out; clear() runs only in the destructor.     *)
(***************************************************************************)
EXTENDS Naturals, Sequences

VARIABLES deqQueue, \* the items
          sleeping, \* the threads inside cv_push.wait()
          woken     \* those that left it and want the mutex back

queueVars == <<deqQueue, sleeping, woken>>

QueueInit == deqQueue = <<>> /\ sleeping = {} /\ woken = {}

\* notify_one(): some sleeping thread is woken, if there is one.
notify_one ==
    \/ /\ sleeping = {}
       /\ UNCHANGED <<sleeping, woken>>
    \/ \E t \in sleeping : /\ sleeping' = sleeping \ {t}
                           /\ woken' = woken \union {t}

PushWithoutNotify(item) ==
    /\ deqQueue' = Append(deqQueue, item)
    /\ UNCHANGED <<sleeping, woken>>
push_back(item) ==
    /\ deqQueue' = Append(deqQueue, item)
    /\ notify_one

empty == deqQueue = <<>>

\* On an empty deque pop_front() is undefined; the callers must see to it.
PopNewest ==
    /\ deqQueue # <<>>
    /\ deqQueue' = SubSeq(deqQueue, 1, Len(deqQueue) - 1)
    /\ UNCHANGED <<sleeping, woken>>
pop_front ==
    /\ deqQueue # <<>>
    /\ deqQueue' = Tail(deqQueue)
    /\ UNCHANGED <<sleeping, woken>>

\* wait() by thread t: the test of its loop, which holds the mutex, either
\* lets t go or puts it to sleep; Returns says which.
SleepAlways(t, Returns) ==
    /\ ~Returns
    /\ sleeping' = sleeping \union {t}
    /\ woken' = woken \ {t}
    /\ UNCHANGED deqQueue
wait(t, Returns) ==
    /\ Returns = (deqQueue # <<>>)
    /\ sleeping' = IF Returns THEN sleeping ELSE sleeping \union {t}
    /\ woken' = woken \ {t}
    /\ UNCHANGED deqQueue

\* A condition variable may also wake a thread that nobody notified.
SpuriousWakeup ==
    \E t \in sleeping : /\ sleeping' = sleeping \ {t}
                        /\ woken' = woken \union {t}
                        /\ UNCHANGED deqQueue
=============================================================================
