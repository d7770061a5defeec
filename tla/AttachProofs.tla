----------------------------- MODULE AttachProofs -----------------------------
(***************************************************************************)
(* Proofs about Attach, for every set of thread ids and every bound.       *)
(***************************************************************************)
EXTENDS Attach, TLAPS

\* A task is stopped by the server, or on its way to be, exactly if it has a
\* thread_t or is the one that ptrace_attach waits for.
Holding ==
    /\ pc = "waitpid" =>
         /\ cur \in Tids \ threads
         /\ task[cur].st \in {"stopping", "stopped", "signalled", "stuck", "exited"}
    /\ \A t \in Tids \ threads :
         task[t].st \in {"none", "run", "jobstop"} \/ (pc = "waitpid" /\ t = cur)
    /\ \A t \in threads : task[t].st = "held" /\ task[t].grp # "other"

\* Only spawned processes are killed in the end.
SpawnedKnown ==
    /\ spawned \subseteq threads
    /\ \A t \in Tids : task[t].grp = "spawned" => t \in spawned
    /\ pc = "end" => threads = {}

\* Why a pass without changes is the last one: no thread is left that could
\* create another one, or one is still to be visited and will be a change.
Complete ==
    /\ pc = "pass" /\ ~changes => Group \subseteq threads \/ entries \ threads # {}
    /\ pc = "attached" => Group \subseteq threads

Inv == TypeOK /\ Holding /\ SpawnedKnown /\ Complete

\* The invariant holds before the process is attached.
LEMMA InitInv == Init => Inv
<1> SUFFICES ASSUME Init PROVE Inv
  OBVIOUS
<1>1. \A t \in Tids : /\ task[t] \in Task /\ task[t].st \in {"none", "run", "jobstop"}
                       /\ task[t].grp # "spawned"
  BY DEF Init, Task, NoTask
<1>2. TypeOK
  <2>1. task \in [Tids -> Task]
    BY <1>1 DEF Init
  <2>2. births \in 0..MaxBirths /\ signals \in 0..MaxSignals
    BY BoundsAssumption DEF Init
  <2>3. changes \in BOOLEAN
    BY Zenon DEF Init
  <2> QED BY <2>1, <2>2, <2>3 DEF Init, TypeOK
<1>3. Holding /\ SpawnedKnown /\ Complete
  BY <1>1 DEF Init, Holding, SpawnedKnown, Complete
<1> QED BY <1>2, <1>3 DEF Inv

\* A birth, an exit or a signal changes one task that the server does not hold.
LEMMA KernelInv == Inv /\ Kernel => Inv'
<1> SUFFICES ASSUME Inv, Kernel PROVE Inv'
  OBVIOUS
<1> USE TidsAssumption, BoundsAssumption
<1>1. ASSUME NEW t \in Tids, Exit(t) PROVE Inv'
  BY <1>1 DEF Inv, TypeOK, Holding, SpawnedKnown, Complete, Group, Task, NoTask, Exit, Runs
<1>2. ASSUME NEW t \in Tids, Deliver(t) PROVE Inv'
  BY <1>2 DEF Inv, TypeOK, Holding, SpawnedKnown, Complete, Group, Task, Deliver
<1>3. ASSUME NEW t \in Tids, Signal(t) PROVE Inv'
  BY <1>3 DEF Inv, TypeOK, Holding, SpawnedKnown, Complete, Group, Task, Signal
<1>4. ASSUME NEW t \in Tids, Recycle(t) PROVE Inv'
  BY <1>4 DEF Inv, TypeOK, Holding, SpawnedKnown, Complete, Group, Task, Recycle, Born
<1>5. ASSUME NEW t \in Tids, NEW c \in Tids, Clone(t, c) PROVE Inv'
  BY <1>5 DEF Inv, TypeOK, Holding, SpawnedKnown, Complete, Group, Task, Clone, Born, Runs
<1> QED BY <1>1, <1>2, <1>3, <1>4, <1>5 DEF Kernel

\* Each step of the server keeps the invariant.
LEMMA ServerInv == Inv /\ Server => Inv'
<1> SUFFICES ASSUME Inv, Server PROVE Inv'
  OBVIOUS
<1> USE TidsAssumption, BoundsAssumption
<1>1. CASE process_attach
  BY <1>1 DEF Inv, TypeOK, Holding, SpawnedKnown, Complete, Group, Task,
              process_attach, procfs_iter_threads
<1>2. CASE PtraceAttachWait
  <2>1. cur \in Tids \ threads /\ task[cur] \in Task
    BY <1>2 DEF Inv, TypeOK, Holding, PtraceAttachWait
  <2>2. changes' \in BOOLEAN
    BY <1>2 DEF Inv, TypeOK, PtraceAttachWait
  <2>3. CASE task[cur].st = "stopped" /\ task[cur].grp = "target"
    BY <1>2, <2>1, <2>2, <2>3 DEF Inv, TypeOK, Holding, SpawnedKnown, Complete, Group, Task,
                   PtraceAttachWait, thread_attach
  <2>4. CASE task[cur].st = "stopped" /\ task[cur].grp # "target"
    BY <1>2, <2>1, <2>2, <2>4 DEF Inv, TypeOK, Holding, SpawnedKnown, Complete, Group, Task,
                   PtraceAttachWait, thread_attach
  <2>5. CASE task[cur].st = "exited"
    BY <1>2, <2>1, <2>2, <2>5 DEF Inv, TypeOK, Holding, SpawnedKnown, Complete, Group, Task,
                   NoTask, PtraceAttachWait
  <2>6. CASE task[cur].st = "signalled"
    BY <1>2, <2>1, <2>2, <2>6 DEF Inv, TypeOK, Holding, SpawnedKnown, Complete, Group, Task,
                   PtraceAttachWait
  <2> QED BY <1>2, <2>3, <2>4, <2>5, <2>6 DEF PtraceAttachWait
<1>3. CASE EndPass
  BY <1>3 DEF Inv, TypeOK, Holding, SpawnedKnown, Complete, Group, Task,
              EndPass, Again, procfs_iter_threads
<1>4. CASE process_cleanup
  BY <1>4 DEF Inv, TypeOK, Holding, SpawnedKnown, Complete, Group, Task, NoTask,
              process_cleanup, process_cleanup_single
<1>5. ASSUME NEW t \in Tids, AttachEntry(t) PROVE Inv'
  <2>1. changes' \in BOOLEAN
    BY <1>5 DEF Inv, TypeOK, AttachEntry
  <2>2. CASE t \in threads
    BY <1>5, <2>1, <2>2 DEF Inv, TypeOK, Holding, SpawnedKnown, Complete, Group, AttachEntry
  <2>3. CASE t \notin threads /\ task[t].st = "none"
    BY <1>5, <2>1, <2>3 DEF Inv, TypeOK, Holding, SpawnedKnown, Complete, Group, AttachEntry
  <2>4. CASE t \notin threads /\ task[t].st \in {"run", "jobstop"}
    BY <1>5, <2>1, <2>4 DEF Inv, TypeOK, Holding, SpawnedKnown, Complete, Group, Task,
                            AttachEntry, ptrace_attach_stopstart
  <2> QED BY <1>5, <2>2, <2>3, <2>4 DEF AttachEntry
<1>6. ASSUME NEW t \in Tids, process_spawn(t) PROVE Inv'
  BY <1>6 DEF Inv, TypeOK, Holding, SpawnedKnown, Complete, Group, Task, process_spawn
<1> QED BY <1>1, <1>2, <1>3, <1>4, <1>5, <1>6 DEF Server

\* When process_attach has succeeded, every thread of the process is held, and
\* outside an attach nothing else is; nothing stays held or spawned when the
\* server has cleaned up.  For any number of threads, births and signals.
THEOREM Held == Spec => []HeldExactly
<1>1. Inv => HeldExactly
  BY DEF Inv, TypeOK, Holding, SpawnedKnown, Complete, HeldExactly
<1>2. Inv /\ [Next]_vars => Inv'
  <2>1. Inv /\ UNCHANGED vars => Inv'
    BY DEF Inv, TypeOK, Holding, SpawnedKnown, Complete, Group, vars
  <2> QED BY <2>1, KernelInv, ServerInv DEF Next
<1> QED BY InitInv, <1>1, <1>2, PTL DEF Spec
==============================================================================
