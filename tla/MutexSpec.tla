------------------------------ MODULE MutexSpec ------------------------------
(***************************************************************************)
(* What the lock of idk/include/mutex.h promises its users: at any time    *)
(* at most one thread holds it, and only the holder gives it back.         *)
(***************************************************************************)
CONSTANTS
    Threads,    \* threads of one traced process that run injected code
    NoThread    \* "nobody"

VARIABLE holder

Init == holder = NoThread

Acquire(t) == holder = NoThread /\ holder' = t

Release(t) == holder = t /\ holder' = NoThread

Next == \E t \in Threads : Acquire(t) \/ Release(t)

Spec == Init /\ [][Next]_holder
==============================================================================
