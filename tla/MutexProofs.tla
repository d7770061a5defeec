----------------------------- MODULE MutexProofs -----------------------------
(***************************************************************************)
(* Proofs about Mutex for every set of threads and every message length.   *)
(* The inductive invariant is Inv: typing, exclusion, the wakeup argument  *)
(* and PartialOwned, which ties the state of the log to the lock.          *)
(***************************************************************************)
EXTENDS Mutex, TLAPS

\* Only the thread inside the lock has a message begun and not finished.
PartialOwned ==
    partial # NoThread => pc[partial] = "critical" /\ left[partial] > 0

\* A thread outside the lock has nothing left to write.
WroteAll ==
    \A t \in Threads :
        pc[t] \in {"idle", "store", "futex_wake"} => left[t] = 0

Inv ==
    TypeOK /\ MutualExclusion /\ NoLostWakeup /\ PartialOwned /\ WroteAll

\* The invariant holds when adbi_write_init has zeroed the mutex.
LEMMA InitInv == Init => Inv
BY MaxPiecesAssumption
   DEF Init, Inv, TypeOK, Labels, MutualExclusion, Owners, NoLostWakeup,
       Asleep, PartialOwned, WroteAll

\* Every step keeps the types: the word stays in 0..2, although atomic_dec
\* would take it below 0 in a thread that does not own the lock.
LEMMA TypeStep == Inv /\ [Next]_vars => TypeOK'
<1> SUFFICES ASSUME Inv, [Next]_vars PROVE TypeOK'
    OBVIOUS
<1> USE MaxPiecesAssumption DEF Inv, TypeOK, Labels, Goto
<1>1. CASE UNCHANGED vars
    BY <1>1 DEF vars
<1>2. ASSUME NEW t \in Threads, Call(t) PROVE TypeOK'
    BY <1>2 DEF Call
<1>3. ASSUME NEW t \in Threads, Interrupted(t) PROVE TypeOK'
    BY <1>3 DEF Interrupted
<1>4. ASSUME NEW t \in Threads, Write(t) PROVE TypeOK'
    <2>1. left' \in [Threads -> 0..MaxPieces]
        BY <1>4 DEF Write
    <2>2. partial' \in Threads \cup {NoThread}
        BY <1>4 DEF Write
    <2> QED
        BY <1>4, <2>1, <2>2 DEF Write
<1>5. ASSUME NEW t \in Threads, CmpXchg(t) PROVE TypeOK'
    BY <1>5 DEF CmpXchg
<1>6. ASSUME NEW t \in Threads, Swap(t) PROVE TypeOK'
    BY <1>6 DEF Swap
<1>7. ASSUME NEW t \in Threads, FutexWait(t) PROVE TypeOK'
    BY <1>7 DEF FutexWait
<1>8. ASSUME NEW t \in Threads, Dec(t) PROVE TypeOK'
    <2>1. t \in Owners
        BY <1>8 DEF Dec, Owners
    <2>2. word # 0
        BY <2>1 DEF MutualExclusion
    <2> QED
        BY <1>8, <2>2 DEF Dec
<1>9. ASSUME NEW t \in Threads, Store(t) PROVE TypeOK'
    BY <1>9 DEF Store
<1>10. ASSUME NEW t \in Threads, FutexWake(t) PROVE TypeOK'
    BY <1>10 DEF FutexWake, Asleep
<1> QED
    BY <1>1, <1>2, <1>3, <1>4, <1>5, <1>6, <1>7, <1>8, <1>9, <1>10
       DEF Next, Step

\* Every step keeps exclusion: a thread becomes an owner only by finding the
\* word 0, and the word becomes 0 only in the step in which its owner stops
\* being one.
LEMMA ExclusionStep == Inv /\ [Next]_vars => MutualExclusion'
<1> SUFFICES ASSUME Inv, [Next]_vars PROVE MutualExclusion'
    OBVIOUS
<1> USE DEF Inv, TypeOK, Goto, MutualExclusion, Owners
<1>1. CASE UNCHANGED vars
    BY <1>1 DEF vars
<1>2. ASSUME NEW t \in Threads, Call(t) PROVE MutualExclusion'
    BY <1>2 DEF Call
<1>3. ASSUME NEW t \in Threads, Interrupted(t) PROVE MutualExclusion'
    BY <1>3 DEF Interrupted
<1>4. ASSUME NEW t \in Threads, Write(t) PROVE MutualExclusion'
    BY <1>4 DEF Write
<1>5. ASSUME NEW t \in Threads, CmpXchg(t) PROVE MutualExclusion'
    BY <1>5 DEF CmpXchg
<1>6. ASSUME NEW t \in Threads, Swap(t) PROVE MutualExclusion'
    BY <1>6 DEF Swap
<1>7. ASSUME NEW t \in Threads, FutexWait(t) PROVE MutualExclusion'
    BY <1>7 DEF FutexWait
<1>8. ASSUME NEW t \in Threads, Dec(t) PROVE MutualExclusion'
    BY <1>8 DEF Dec
<1>9. ASSUME NEW t \in Threads, Store(t) PROVE MutualExclusion'
    BY <1>9 DEF Store
<1>10. ASSUME NEW t \in Threads, FutexWake(t) PROVE MutualExclusion'
    BY <1>10 DEF FutexWake, Asleep
<1> QED
    BY <1>1, <1>2, <1>3, <1>4, <1>5, <1>6, <1>7, <1>8, <1>9, <1>10
       DEF Next, Step

\* Every step keeps the wakeup argument.
LEMMA WakeupStep == Inv /\ [Next]_vars => NoLostWakeup'
<1> SUFFICES ASSUME Inv, [Next]_vars PROVE NoLostWakeup'
    OBVIOUS
<1> USE DEF Inv, TypeOK, Goto, NoLostWakeup, Asleep
<1>1. CASE UNCHANGED vars
    BY <1>1 DEF vars
<1>2. ASSUME NEW t \in Threads, Call(t) PROVE NoLostWakeup'
    BY <1>2 DEF Call
<1>3. ASSUME NEW t \in Threads, Interrupted(t) PROVE NoLostWakeup'
    BY <1>3 DEF Interrupted
<1>4. ASSUME NEW t \in Threads, Write(t) PROVE NoLostWakeup'
    BY <1>4 DEF Write
<1>5. ASSUME NEW t \in Threads, CmpXchg(t) PROVE NoLostWakeup'
    BY <1>5 DEF CmpXchg
<1>6. ASSUME NEW t \in Threads, Swap(t) PROVE NoLostWakeup'
    BY <1>6 DEF Swap
<1>7. ASSUME NEW t \in Threads, FutexWait(t) PROVE NoLostWakeup'
    BY <1>7 DEF FutexWait
<1>8. ASSUME NEW t \in Threads, Dec(t) PROVE NoLostWakeup'
    BY <1>8 DEF Dec
<1>9. ASSUME NEW t \in Threads, Store(t) PROVE NoLostWakeup'
    BY <1>9 DEF Store
<1>10. ASSUME NEW t \in Threads, FutexWake(t) PROVE NoLostWakeup'
    BY <1>10 DEF FutexWake
<1> QED
    BY <1>1, <1>2, <1>3, <1>4, <1>5, <1>6, <1>7, <1>8, <1>9, <1>10
       DEF Next, Step

\* Every step keeps the unfinished message with the owner of the lock.
LEMMA PartialStep == Inv /\ [Next]_vars => PartialOwned'
<1> SUFFICES ASSUME Inv, [Next]_vars PROVE PartialOwned'
    OBVIOUS
<1> USE NoThreadAssumption DEF Inv, TypeOK, Goto, PartialOwned
<1>1. CASE UNCHANGED vars
    BY <1>1 DEF vars
<1>2. ASSUME NEW t \in Threads, Call(t) PROVE PartialOwned'
    BY <1>2 DEF Call
<1>3. ASSUME NEW t \in Threads, Interrupted(t) PROVE PartialOwned'
    BY <1>3 DEF Interrupted
<1>4. ASSUME NEW t \in Threads, Write(t) PROVE PartialOwned'
    <2>1. partial \in {NoThread, t}
        BY <1>4 DEF Write, MutualExclusion, Owners
    <2> QED
        BY <1>4, <2>1 DEF Write
<1>5. ASSUME NEW t \in Threads, CmpXchg(t) PROVE PartialOwned'
    BY <1>5 DEF CmpXchg
<1>6. ASSUME NEW t \in Threads, Swap(t) PROVE PartialOwned'
    BY <1>6 DEF Swap
<1>7. ASSUME NEW t \in Threads, FutexWait(t) PROVE PartialOwned'
    BY <1>7 DEF FutexWait
<1>8. ASSUME NEW t \in Threads, Dec(t) PROVE PartialOwned'
    BY <1>8 DEF Dec
<1>9. ASSUME NEW t \in Threads, Store(t) PROVE PartialOwned'
    BY <1>9 DEF Store
<1>10. ASSUME NEW t \in Threads, FutexWake(t) PROVE PartialOwned'
    BY <1>10 DEF FutexWake, Asleep
<1> QED
    BY <1>1, <1>2, <1>3, <1>4, <1>5, <1>6, <1>7, <1>8, <1>9, <1>10
       DEF Next, Step

\* Every step keeps a finished thread finished: only Dec leaves the lock.
LEMMA WroteStep == Inv /\ [Next]_vars => WroteAll'
<1> SUFFICES ASSUME Inv, [Next]_vars PROVE WroteAll'
    OBVIOUS
<1> USE DEF Inv, TypeOK, Goto, WroteAll
<1>1. CASE UNCHANGED vars
    BY <1>1 DEF vars
<1>2. ASSUME NEW t \in Threads, Call(t) PROVE WroteAll'
    BY <1>2 DEF Call
<1>3. ASSUME NEW t \in Threads, Interrupted(t) PROVE WroteAll'
    BY <1>3 DEF Interrupted
<1>4. ASSUME NEW t \in Threads, Write(t) PROVE WroteAll'
    BY <1>4 DEF Write
<1>5. ASSUME NEW t \in Threads, CmpXchg(t) PROVE WroteAll'
    BY <1>5 DEF CmpXchg
<1>6. ASSUME NEW t \in Threads, Swap(t) PROVE WroteAll'
    BY <1>6 DEF Swap
<1>7. ASSUME NEW t \in Threads, FutexWait(t) PROVE WroteAll'
    BY <1>7 DEF FutexWait
<1>8. ASSUME NEW t \in Threads, Dec(t) PROVE WroteAll'
    BY <1>8 DEF Dec
<1>9. ASSUME NEW t \in Threads, Store(t) PROVE WroteAll'
    BY <1>9 DEF Store
<1>10. ASSUME NEW t \in Threads, FutexWake(t) PROVE WroteAll'
    BY <1>10 DEF FutexWake, Asleep
<1> QED
    BY <1>1, <1>2, <1>3, <1>4, <1>5, <1>6, <1>7, <1>8, <1>9, <1>10
       DEF Next, Step

\* The invariant is an invariant of the lock.
LEMMA Invariance == Spec => []Inv
<1>1. Inv /\ [Next]_vars => Inv'
    BY TypeStep, ExclusionStep, WakeupStep, PartialStep, WroteStep
       DEF Inv
<1> QED
    BY InitInv, <1>1, PTL DEF Spec

\* mutex_lock and mutex_unlock exclude, for any number of threads.
THEOREM Exclusion == Spec => []MutualExclusion
BY Invariance, PTL DEF Inv

\* No thread sleeps in futex_wait without a wakeup to come.
THEOREM Wakeup == Spec => []NoLostWakeup
BY Invariance, PTL DEF Inv

\* The messages of adbi_printf reach the log whole.
THEOREM Whole == Spec => WholeMessages
<1>1. Inv /\ [Next]_vars =>
        [\A t \in Threads : left'[t] < left[t] => partial \in {NoThread, t}]_vars
    <2> SUFFICES ASSUME Inv, Next, NEW t \in Threads, left'[t] < left[t]
                 PROVE  partial \in {NoThread, t}
        OBVIOUS
    <2>1. PICK u \in Threads : Call(u) \/ Write(u)
        BY DEF Next, Step, Interrupted, CmpXchg, Swap, FutexWait, Dec, Store,
               FutexWake, Inv, TypeOK
    <2>2. ~ Call(u)
        <3> SUFFICES ASSUME Call(u) PROVE FALSE
            OBVIOUS
        <3>1. pc[u] = "idle"
            BY DEF Call
        <3> QED
            BY <3>1, MaxPiecesAssumption DEF Call, Inv, TypeOK, WroteAll
    <2>3. u = t /\ Write(t)
        BY <2>1, <2>2 DEF Write, Inv, TypeOK
    <2> QED
        BY <2>3, NoThreadAssumption
           DEF Inv, TypeOK, PartialOwned, Write, MutualExclusion, Owners
<1> QED
    BY Invariance, <1>1, PTL DEF Spec, WholeMessages

\* The lock implements MutexSpec, with the owner as the abstract holder.
THEOREM Refinement == Spec => ImplementsLock
<1> USE NoThreadAssumption
<1>1. Init => Lock!Init
    BY DEF Init, Lock!Init, Holder, Owners
<1>2. Inv /\ Inv' /\ [Next]_vars => [Lock!Next]_Holder
    <2> SUFFICES ASSUME Inv, Inv', [Next]_vars
                 PROVE  Lock!Next \/ Holder' = Holder
        OBVIOUS
    <2>1. \A t \in Owners : Holder = t
        BY DEF Inv, MutualExclusion, Holder, Owners
    <2>2. \A t \in Owners' : Holder' = t
        BY DEF Inv, MutualExclusion, Holder, Owners
    <2>3. Owners = {} => Holder = NoThread
        BY DEF Holder
    <2>4. Owners' = {} => Holder' = NoThread
        BY DEF Holder
    <2>5. CASE Owners' = Owners
        BY <2>5, <2>1, <2>2, <2>3, <2>4 DEF Owners
    <2>6. ASSUME NEW t \in Threads, t \in Owners', t \notin Owners
          PROVE  Lock!Next
        <3>1. Owners = {}
            BY <2>6 DEF Inv, TypeOK, Owners, MutualExclusion, Next, Step, Call,
                Interrupted, Write, CmpXchg, Swap, FutexWait, Dec, Store,
                FutexWake, Asleep, Goto, vars
        <3> QED
            BY <3>1, <2>6, <2>2, <2>3 DEF Lock!Next, Lock!Acquire
    <2>7. ASSUME NEW t \in Threads, t \in Owners, t \notin Owners'
          PROVE  Lock!Next
        <3>1. Owners' = {}
            BY <2>7 DEF Inv, TypeOK, Owners, MutualExclusion, Next, Step, Call,
                Interrupted, Write, CmpXchg, Swap, FutexWait, Dec, Store,
                FutexWake, Asleep, Goto, vars
        <3> QED
            BY <3>1, <2>7, <2>1, <2>4 DEF Lock!Next, Lock!Release
    <2> QED
        BY <2>5, <2>6, <2>7 DEF Owners
<1> QED
    BY Invariance, <1>1, <1>2, PTL DEF Spec, ImplementsLock, Lock!Spec
==============================================================================
