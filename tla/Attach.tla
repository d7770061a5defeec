-------------------------------- MODULE Attach --------------------------------
(***************************************************************************)
(* Attaching to the threads of a running process, one by one, while they   *)
(* create threads, exit and receive signals; spawning a process; releasing *)
(* all of them when the server ends (process/process.c, process/spawn.c,   *)
(* process/thread.c, procutil/ptrace.c, procutil/procfs.c).                *)
(*                                                                         *)
(* Deaths of threads that are already attached and stopped are the subject *)
(* of Tracer.                                                              *)
(***************************************************************************)
EXTENDS Naturals, FiniteSets

CONSTANTS
    Tids,        \* thread ids; ids of dead threads are used again
    Leader,      \* the process to attach to
    NoTid,
    MaxBirths,   \* bound: tasks created
    MaxSignals   \* bound: signals that arrive while attaching

ASSUME TidsAssumption == Leader \in Tids /\ NoTid \notin Tids
ASSUME BoundsAssumption == MaxBirths \in Nat /\ MaxSignals \in Nat

VARIABLES
    task,      \* tasks of the kernel
    threads,   \* ids with a thread_t
    spawned,   \* spawned_pids
    pc, cur,   \* where the server is, and the thread it waits for
    entries,   \* task directory: entries read and not yet looked at
    changes,   \* process_attach: something was new in this pass
    births, signals

vars == <<task, threads, spawned, pc, cur, entries, changes, births, signals>>

\* jobstop: stopped by job control; stopping: attached, SIGSTOP not delivered;
\* signalled: attached and stopped by another signal; held: stopped by SIGSTOP
\* (or SIGTRAP after a spawn) with the status read; exited: death not read.
Task == [st  : {"none", "run", "jobstop", "stopping", "stopped", "signalled", "stuck",
                "held", "exited"},
         grp : {"target", "other", "spawned"}]

NoTask == [st |-> "none", grp |-> "other"]

Group == {t \in Tids : task[t].st # "none" /\ task[t].grp = "target"}

TypeOK ==
    /\ task \in [Tids -> Task]
    /\ threads \subseteq Tids /\ spawned \subseteq Tids /\ entries \subseteq Tids
    /\ pc \in {"idle", "pass", "waitpid", "attached", "failed", "end"}
    /\ cur \in Tids \cup {NoTid}
    /\ changes \in BOOLEAN
    /\ births \in 0..MaxBirths /\ signals \in 0..MaxSignals

\* The process runs, or its threads are stopped by job control.
Init ==
    /\ \E st \in {"run", "jobstop"} :
          task = [t \in Tids |-> IF t = Leader THEN [st |-> st, grp |-> "target"] ELSE NoTask]
    /\ threads = {} /\ spawned = {} /\ entries = {}
    /\ pc = "idle" /\ cur = NoTid /\ changes = FALSE
    /\ births = 0 /\ signals = 0

------------------------------------------------------------------------------
(* The other tasks (kernel)                                                *)

Runs(t) == task[t].st \in {"run", "stopping"}

Born(t, g) ==
    /\ task[t].st = "none" /\ births < MaxBirths
    /\ task' = [task EXCEPT ![t] = [st |-> "run", grp |-> g]]
    /\ births' = births + 1
    /\ UNCHANGED <<threads, spawned, pc, cur, entries, changes, signals>>

\* A thread of the process creates another one, also while it is attached but
\* has not received its SIGSTOP: no ptrace option follows the new thread.
Clone(t, c) == Runs(t) /\ task[t].grp = "target" /\ Born(c, "target")

\* Another process has a new thread, perhaps with an id that was just listed.
Recycle(c) == Born(c, "other")

\* A thread exits by itself, the leader last.
Exit(t) ==
    /\ Runs(t) /\ (t = Leader => Group = {t})
    /\ task' = [task EXCEPT ![t] = IF @.st = "run" THEN NoTask ELSE [@ EXCEPT !.st = "exited"]]
    /\ UNCHANGED <<threads, spawned, pc, cur, entries, changes, births, signals>>

\* The SIGSTOP of PTRACE_ATTACH arrives, or another signal before it.
Deliver(t) ==
    /\ task[t].st = "stopping"
    /\ task' = [task EXCEPT ![t].st = "stopped"]
    /\ UNCHANGED <<threads, spawned, pc, cur, entries, changes, births, signals>>

Signal(t) ==
    /\ task[t].st = "stopping" /\ signals < MaxSignals
    /\ task' = [task EXCEPT ![t].st = "signalled"]
    /\ signals' = signals + 1
    /\ UNCHANGED <<threads, spawned, pc, cur, entries, changes, births>>

------------------------------------------------------------------------------
(* process_attach                                                          *)

\* Mutant: changes is not reset for a new pass.
procfs_iter_threads_noreset ==
    /\ changes' = (changes \/ pc = "idle")
    /\ IF Group = {} THEN pc' = "failed" /\ entries' = {}
       ELSE pc' = "pass" /\ entries' = Group

\* Reading /proc/<pid>/task: the entries are those of one moment; without a
\* directory the iteration fails and nothing is attached.
procfs_iter_threads ==
    /\ changes' = FALSE
    /\ IF Group = {} THEN pc' = "failed" /\ entries' = {}
       ELSE pc' = "pass" /\ entries' = Group

\* The id is a process and nobody traces it.
process_attach ==
    /\ pc = "idle" /\ Leader \in Group /\ Leader \notin threads
    /\ procfs_iter_threads
    /\ UNCHANGED <<task, threads, spawned, cur, births, signals>>

\* PTRACE_ATTACH sends SIGSTOP.  A task that is stopped already does not take
\* it: ptrace_attach_stopstart sends it again and continues the task.  That the
\* requests are refused for another reason than a missing task (a task that is
\* killed or traced by somebody else: adbi_bug) is not considered.
ptrace_attach_stopstart(t) == [task EXCEPT ![t].st = "stopping"]

\* callback of process_attach up to the waiting in ptrace_attach.
AttachEntry(t) ==
    /\ pc = "pass" /\ t \in entries
    /\ entries' = entries \ {t}
    /\ \/ t \in threads /\ UNCHANGED <<task, pc, cur, changes>>
       \/ /\ t \notin threads /\ task[t].st = "none"
          /\ changes' = TRUE /\ UNCHANGED <<task, pc, cur>>
       \/ /\ t \notin threads /\ task[t].st \in {"run", "jobstop"}
          /\ task' = ptrace_attach_stopstart(t)
          /\ pc' = "waitpid" /\ cur' = t
          /\ UNCHANGED changes
    /\ UNCHANGED <<threads, spawned, births, signals>>

\* The id may by now be a thread of another process: it is let go.
thread_attach(t) ==
    IF task[t].grp = "target"
    THEN threads' = threads \cup {t} /\ task' = [task EXCEPT ![t].st = "held"]
    ELSE UNCHANGED threads /\ task' = [task EXCEPT ![t].st = "run"]

\* ptrace_attach, a status read by waitpid.  A signal is meant to be delivered
\* by PTRACE_CONT, but the data argument is its address: the call fails, and
\* the next waitpid waits for a task that stays stopped.
PtraceAttachWait ==
    /\ pc = "waitpid"
    /\ \/ /\ task[cur].st = "stopped" /\ thread_attach(cur)
          /\ changes' = TRUE /\ pc' = "pass" /\ cur' = NoTid
       \/ /\ task[cur].st = "exited"
          /\ task' = [task EXCEPT ![cur] = NoTask]
          /\ changes' = TRUE /\ pc' = "pass" /\ cur' = NoTid
          /\ UNCHANGED threads
       \/ /\ task[cur].st = "signalled"
          /\ task' = [task EXCEPT ![cur].st = "stuck"]
          /\ UNCHANGED <<threads, changes, pc, cur>>
    /\ UNCHANGED <<spawned, entries, births, signals>>

\* Mutant: one pass over the directory is enough.
Again_never == FALSE

Again == changes

\* do ... while (changes); then a thread of the process is needed to go on.
EndPass ==
    /\ pc = "pass" /\ entries = {}
    /\ IF Again THEN procfs_iter_threads
       ELSE /\ pc' = IF threads \cap Group = {} THEN "failed" ELSE "attached"
            /\ UNCHANGED <<entries, changes>>
    /\ UNCHANGED <<task, threads, spawned, cur, births, signals>>

------------------------------------------------------------------------------
(* process_spawn and process_cleanup                                       *)

\* spawn_process and spawn_attach: execve works and raises SIGTRAP, or the
\* child exits, or it is stopped by another signal and killed.
process_spawn(t) ==
    /\ pc \in {"idle", "attached", "failed"} /\ task[t].st = "none" /\ births < MaxBirths
    /\ \/ /\ task' = [task EXCEPT ![t] = [st |-> "held", grp |-> "spawned"]]
          /\ threads' = threads \cup {t} /\ spawned' = spawned \cup {t}
       \/ UNCHANGED <<task, threads, spawned>>
    /\ births' = births + 1
    /\ UNCHANGED <<pc, cur, entries, changes, signals>>

\* Spawned processes are killed, the others let go.
process_cleanup_single(t) ==
    IF t \notin threads THEN task[t]
    ELSE IF t \in spawned THEN NoTask ELSE [task[t] EXCEPT !.st = "run"]

process_cleanup ==
    /\ pc \in {"idle", "attached", "failed"}
    /\ task' = [t \in Tids |-> process_cleanup_single(t)]
    /\ threads' = {} /\ spawned' = {} /\ pc' = "end"
    /\ UNCHANGED <<cur, entries, changes, births, signals>>

------------------------------------------------------------------------------
Server ==
    \/ process_attach \/ PtraceAttachWait \/ EndPass \/ process_cleanup
    \/ \E t \in Tids : AttachEntry(t) \/ process_spawn(t)

Kernel ==
    \E t \in Tids : Exit(t) \/ Deliver(t) \/ Signal(t) \/ Recycle(t) \/ \E c \in Tids : Clone(t, c)

Next == Server \/ Kernel

Spec == Init /\ [][Next]_vars

\* The server is one loop; the kernel delivers the SIGSTOP it was asked for.
Fairness ==
    /\ WF_vars(PtraceAttachWait) /\ WF_vars(EndPass)
    /\ \A t \in Tids : WF_vars(AttachEntry(t)) /\ WF_vars(Deliver(t))

FairSpec == Spec /\ Fairness

------------------------------------------------------------------------------
(* Properties                                                              *)

\* When process_attach has succeeded, every live thread of the process is
\* known and stopped, whichever threads appeared, died or changed hands while
\* it went through /proc; no other task is ever held outside an attach, and
\* nothing stays held or spawned when the server has cleaned up.
HeldExactly ==
    pc # "waitpid" =>
       /\ {t \in Tids : task[t].st \notin {"none", "run", "jobstop"}} = threads
       /\ pc = "attached" => Group \subseteq threads
       /\ \A t \in threads : task[t].grp # "other"
       /\ pc = "end" => \A t \in Tids : task[t].grp # "spawned"

\* process_attach comes to an end, unless another signal reached a thread
\* before the SIGSTOP.
AttachEnds == pc = "pass" ~> pc \in {"attached", "failed", "end"} \/ signals > 0

\* "Deliver the signal." (procutil/ptrace.c): process_attach comes to an end
\* also when another signal arrives first.
AttachEndsAlways == pc = "pass" ~> pc \in {"attached", "failed", "end"}
==============================================================================
