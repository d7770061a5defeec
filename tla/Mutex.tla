-------------------------------- MODULE Mutex --------------------------------
(***************************************************************************)
(* The futex lock of idk/include/mutex.h and its only users, adbi_printf   *)
(* and adbi_writen of inj/adbi/print.c.  Both run inside a traced process, *)
(* in whatever thread hits a tracepoint, and write one message to the log  *)
(* socket in several pieces.                                               *)
(*                                                                         *)
(* One step is one atomic instruction sequence (ldrex/strex loop) or one   *)
(* system call.  The memory model is sequential consistency.               *)
(***************************************************************************)
EXTENDS Integers, FiniteSets

CONSTANTS
    Threads,    \* threads of the traced process
    NoThread,   \* "nobody"
    MaxPieces   \* longest message, in calls of adbi_write_unlocked

ASSUME NoThreadAssumption == NoThread \notin Threads
ASSUME MaxPiecesAssumption == MaxPieces \in Nat \ {0}

VARIABLES
    word,       \* adbi_write_mutex: 0 free, 1 taken, 2 taken and contended
    pc,         \* where each thread is
    left,       \* pieces of its message a thread has still to write
    partial     \* whose message is begun and not finished in the log

vars == <<word, pc, left, partial>>

Labels == {"idle", "cmpxchg", "swap", "futex_wait", "asleep",
           "critical", "store", "futex_wake"}

TypeOK ==
    /\ word \in 0..2
    /\ pc \in [Threads -> Labels]
    /\ left \in [Threads -> 0..MaxPieces]
    /\ partial \in Threads \cup {NoThread}

Goto(t, l) == pc' = [pc EXCEPT ![t] = l]

Init ==
    /\ word = 0
    /\ pc = [t \in Threads |-> "idle"]
    /\ left = [t \in Threads |-> 0]
    /\ partial = NoThread

------------------------------------------------------------------------------
(* adbi_printf and adbi_writen                                             *)

\* Mutant: the message is written without the lock.
Call_unlocked(t) ==
    /\ pc[t] = "idle"
    /\ \E n \in 0..MaxPieces : left' = [left EXCEPT ![t] = n]
    /\ Goto(t, "critical")
    /\ UNCHANGED <<word, partial>>

\* A handler logs a message of some number of pieces; an empty format
\* writes nothing but takes the lock all the same.
Call(t) ==
    /\ pc[t] = "idle"
    /\ \E n \in 0..MaxPieces : left' = [left EXCEPT ![t] = n]
    /\ Goto(t, "cmpxchg")
    /\ UNCHANGED <<word, partial>>

\* One adbi_write_unlocked: the piece is written, or the socket fails and
\* the piece is dropped.  (EINTR only repeats the write.)
Write(t) ==
    /\ pc[t] = "critical" /\ left[t] > 0
    /\ left' = [left EXCEPT ![t] = @ - 1]
    /\ partial' \in (IF left[t] = 1 THEN {NoThread} ELSE {t, partial})
    /\ UNCHANGED <<word, pc>>

------------------------------------------------------------------------------
(* mutex_lock                                                              *)

\* Mutant: the result of the exchange is ignored.
CmpXchg_ignored(t) ==
    /\ pc[t] = "cmpxchg"
    /\ word' = IF word = 0 THEN 1 ELSE word
    /\ Goto(t, "critical")
    /\ UNCHANGED <<left, partial>>

\* atomic_cmpxchg(0, 1, mutex)
CmpXchg(t) ==
    /\ pc[t] = "cmpxchg"
    /\ word' = IF word = 0 THEN 1 ELSE word
    /\ Goto(t, IF word = 0 THEN "critical" ELSE "swap")
    /\ UNCHANGED <<left, partial>>

\* Mutant: only a contended lock is waited for.
Swap_one(t) ==
    /\ pc[t] = "swap"
    /\ word' = 2
    /\ Goto(t, IF word # 2 THEN "critical" ELSE "futex_wait")
    /\ UNCHANGED <<left, partial>>

\* atomic_swap(2, mutex) in the condition of the loop
Swap(t) ==
    /\ pc[t] = "swap"
    /\ word' = 2
    /\ Goto(t, IF word = 0 THEN "critical" ELSE "futex_wait")
    /\ UNCHANGED <<left, partial>>

\* FUTEX_WAIT: the kernel compares and sleeps in one step
FutexWait(t) ==
    /\ pc[t] = "futex_wait"
    /\ Goto(t, IF word = 2 THEN "asleep" ELSE "swap")
    /\ UNCHANGED <<word, left, partial>>

\* A signal (the tracer's SIGSTOP, for one) ends the wait early.
Interrupted(t) ==
    /\ pc[t] = "asleep"
    /\ Goto(t, "swap")
    /\ UNCHANGED <<word, left, partial>>

------------------------------------------------------------------------------
(* mutex_unlock                                                            *)

\* Mutant: the lock is given back without a look at the waiters.
Dec_nowake(t) ==
    /\ pc[t] = "critical" /\ left[t] = 0
    /\ word' = 0
    /\ Goto(t, "idle")
    /\ UNCHANGED <<left, partial>>

\* atomic_dec(mutex); its old value decides whether to go on
Dec(t) ==
    /\ pc[t] = "critical" /\ left[t] = 0
    /\ word' = word - 1
    /\ Goto(t, IF word = 1 THEN "idle" ELSE "store")
    /\ UNCHANGED <<left, partial>>

\* *mutex = 0
Store(t) ==
    /\ pc[t] = "store"
    /\ word' = 0
    /\ Goto(t, "futex_wake")
    /\ UNCHANGED <<left, partial>>

Asleep == {u \in Threads : pc[u] = "asleep"}

\* Mutant: FUTEX_WAKE with a count of 0.
FutexWake_none(t) ==
    /\ pc[t] = "futex_wake"
    /\ Goto(t, "idle")
    /\ UNCHANGED <<word, left, partial>>

\* FUTEX_WAKE of one waiter
FutexWake(t) ==
    /\ pc[t] = "futex_wake"
    /\ \/ Asleep = {} /\ Goto(t, "idle")
       \/ \E u \in Asleep : pc' = [pc EXCEPT ![t] = "idle", ![u] = "swap"]
    /\ UNCHANGED <<word, left, partial>>

------------------------------------------------------------------------------
\* What a thread does without waiting for another one.  Starting a message
\* and being interrupted are up to the program and the tracer.
Step(t) ==
    \/ Write(t) \/ CmpXchg(t) \/ Swap(t) \/ FutexWait(t)
    \/ Dec(t) \/ Store(t) \/ FutexWake(t)

Next == \E t \in Threads : Call(t) \/ Interrupted(t) \/ Step(t)

\* A thread that is not asleep is scheduled.
Fairness == \A t \in Threads : WF_vars(Step(t))

Spec == Init /\ [][Next]_vars

FairSpec == Spec /\ Fairness

------------------------------------------------------------------------------
(* Properties                                                              *)

\* The threads that own the lock: from a successful cmpxchg or swap to the
\* instruction that makes the word 0 again.
Owners == {t \in Threads : pc[t] \in {"critical", "store"}}

\* mutex_lock excludes: two threads never both own the lock, and the word
\* is 0 exactly while nobody does.
MutualExclusion ==
    /\ \A t, u \in Owners : t = u
    /\ word = 0 <=> Owners = {}

\* A thread in futex_wait cannot be forgotten: while somebody sleeps, the
\* word says "contended", or a thread is on its way to say so or to wake
\* one of the sleepers.
NoLostWakeup ==
    Asleep # {} =>
        \/ word = 2
        \/ \E t \in Threads : pc[t] \in {"swap", "store", "futex_wake"}

\* adbi_printf writes a message in several pieces; pieces of two messages
\* never mix in the log.
WholeMessages ==
    [][\A t \in Threads : left'[t] < left[t] => partial \in {NoThread, t}]_vars

\* mutex_lock and mutex_unlock never leave everybody waiting: if a thread
\* waits for the lock then some thread gets it.
Progress ==
    (\E t \in Threads : pc[t] \in {"swap", "futex_wait", "asleep"})
        ~> (\E t \in Threads : pc[t] = "critical")

\* The lock implements its abstract specification.
Holder == IF Owners = {} THEN NoThread ELSE CHOOSE t \in Threads : t \in Owners

Lock == INSTANCE MutexSpec WITH holder <- Holder

ImplementsLock == Lock!Spec

\* Header of mutex.h: releasing "causes no system call if no other threads
\* are waiting".
WakesOnlyWaiters ==
    \A t \in Threads : pc[t] = "futex_wake" =>
        \E u \in Threads : pc[u] \in {"swap", "futex_wait", "asleep"}
==============================================================================
