-------------------------------- MODULE Tracer --------------------------------
(***************************************************************************)
(* The commands that start, stop, detach and kill the traced processes     *)
(* (communication/protocol.c, configuration/state.c, process/process.c),   *)
(* over the threads of module Threads.                                     *)
(*                                                                         *)
(* A command runs in the main loop.  It blocks in waitpid for one thread   *)
(* at a time; while it does, and between any two of its system calls, the  *)
(* traced program goes on.  pc says where in the command the server is.    *)
(***************************************************************************)
EXTENDS Threads

CONSTANTS
    Leader,     \* the process attached before the first command
    Commands,   \* the commands the client uses
    Env,        \* what the traced program does
    MaxCmds     \* bound: commands

ASSUME LeaderAssumption == Leader \in Tids
ASSUME CommandsAssumption ==
    Commands \subseteq {"STRT", "STOP", "INJL", "INJU", "DETC", "KILL"}
ASSUME EnvAssumption ==
    Env \subseteq {"signal", "clone", "fork", "exec", "exit", "group_exit"}
ASSUME MaxCmdsAssumption == MaxCmds \in Nat

VARIABLES
    tracing,    \* state_tracing_val
    pc,         \* where the server is
    op,         \* the command that runs
    todo,       \* process_iter: processes not visited yet
    cur,        \* the process that is stopped, detached or killed
    curt,       \* the thread that is waited for
    cmds        \* commands so far

vars == <<k, th, bug, tracing, pc, op, todo, cur, curt, cmds>>

TypeOK ==
    /\ ThreadsTypeOK
    /\ tracing \in BOOLEAN
    /\ pc \in {"loop", "any_running", "stop_iter", "process_stop",
               "stop_wait", "detach", "process_kill", "kill_wait"}
    /\ op \in Commands \cup {"none"}
    /\ todo \subseteq Tids \cup {NoTid}
    /\ cur \in Tids \cup {NoTid}
    /\ curt \in Tids \cup {NoTid}
    /\ cmds \in 0..MaxCmds

Init ==
    /\ k = [t \in Tids |-> IF t = Leader
                           THEN [NoTask EXCEPT !.st = "stop", !.tgid = t]
                           ELSE NoTask]
    /\ th = [t \in Tids |-> IF t = Leader
                            THEN [NoThread EXCEPT !.here = TRUE, !.proc = t,
                                                  !.setoptions = TRUE,
                                                  !.notified = TRUE]
                            ELSE NoThread]
    /\ bug = "none" /\ tracing = FALSE /\ pc = "loop" /\ op = "none"
    /\ todo = {} /\ cur = NoTid /\ curt = NoTid /\ cmds = 0

\* adbi_bug ends the server: at a step of the server it still lives.
At(l) == bug = "none" /\ pc = l

------------------------------------------------------------------------------
(* The main loop                                                           *)

\* wait_main: waitpid(-1) returns any thread with a status.
WaitMain(t) ==
    /\ At("loop") /\ Waitable(k, t)
    /\ Becomes(wait_main_one(View, t))
    /\ UNCHANGED <<tracing, pc, op, todo, cur, curt, cmds>>

\* A packet arrives.
Accept(c) ==
    /\ At("loop") /\ c \in Commands /\ cmds < MaxCmds
    /\ cmds' = cmds + 1

\* process_continue for every process.  Threads are not notified here.
process_continue_all(s) ==
    LET waiting == {t \in Tids : s.th[t].here /\ ~s.th[t].running}
        sig(t) == s.th[t].signo
    IN  IF \E t \in waiting : ~Traceable(s, t) THEN [s EXCEPT !.bug = "ptrace"]
        ELSE [s EXCEPT
            !.th = [t \in Tids |->
                IF t \in waiting
                THEN [s.th[t] EXCEPT !.running = TRUE, !.setoptions = FALSE,
                                     !.signo = "none"]
                ELSE s.th[t]],
            !.k = [t \in Tids |->
                IF t \in waiting
                THEN PtraceCont([s.k EXCEPT ![t].opts = @ \/ s.th[t].setoptions],
                                t, sig(t))[t]
                ELSE s.k[t]]]

\* STRT; nothing happens if the trace already runs (FAIL).
handle_STRT ==
    /\ Accept("STRT")
    /\ IF tracing THEN UNCHANGED <<k, th, bug, tracing>>
       ELSE Becomes(process_continue_all(View)) /\ tracing' = TRUE
    /\ UNCHANGED <<pc, op, todo, cur, curt>>

\* STOP, INJL and INJU begin by stopping all processes if the trace runs.
\* What INJL and INJU do to the stopped processes is not modelled here.
StopFirst(c) ==
    /\ Accept(c)
    /\ IF tracing THEN pc' = "any_running" /\ op' = c ELSE UNCHANGED <<pc, op>>
    /\ UNCHANGED <<k, th, bug, tracing, todo, cur, curt>>

handle_STOP == StopFirst("STOP")
handle_INJL == StopFirst("INJL")
handle_INJU == StopFirst("INJU")

handle_DETC(p) ==
    /\ Accept("DETC") /\ p \in Procs(View)
    /\ pc' = "process_stop" /\ op' = "DETC" /\ cur' = p
    /\ UNCHANGED <<k, th, bug, tracing, todo, curt>>

handle_KILL(p) ==
    /\ Accept("KILL") /\ p \in Procs(View)
    /\ pc' = "process_kill" /\ op' = "KILL" /\ cur' = p
    /\ UNCHANGED <<k, th, bug, tracing, todo, curt>>

------------------------------------------------------------------------------
(* process_stop_all                                                        *)

\* while (process_any_running()); then the command ends.  INJL answers
\* before the line that would resume the trace; INJU resumes it.
process_any_running ==
    /\ At("any_running")
    /\ IF Running(View) # {}
       THEN /\ pc' = "stop_iter" /\ todo' = Procs(View)
            /\ UNCHANGED <<k, th, bug, tracing, op>>
       ELSE /\ pc' = "loop" /\ op' = "none" /\ todo' = {}
            /\ IF op = "INJU"
               THEN Becomes(process_continue_all(View)) /\ UNCHANGED tracing
               ELSE tracing' = FALSE /\ UNCHANGED <<k, th, bug>>
    /\ cur' = NoTid
    /\ UNCHANGED <<curt, cmds>>

\* process_iter(process_stop_stabilize)
StopIter ==
    /\ At("stop_iter")
    /\ \/ /\ todo = {} /\ pc' = "any_running"
          /\ UNCHANGED <<todo, cur>>
       \/ \E p \in todo : cur' = p /\ todo' = todo \ {p} /\ pc' = "process_stop"
    /\ UNCHANGED <<k, th, bug, tracing, op, curt, cmds>>

\* Mutant: the thread is waited for without being signalled.
thread_stop_unsent(t) ==
    /\ At("process_stop") /\ t \in InProc(View, cur) \cap Running(View)
    /\ th' = [th EXCEPT ![t].stopme = TRUE]
    /\ curt' = t /\ pc' = "stop_wait"
    /\ UNCHANGED <<k, bug, tracing, op, todo, cur, cmds>>

\* process_stop: one running thread gets SIGSTOP ...
thread_stop(t) ==
    /\ At("process_stop") /\ t \in InProc(View, cur) \cap Running(View)
    /\ IF k[t].st = "none" THEN bug' = "ptrace" /\ UNCHANGED k
       ELSE /\ k' = [k EXCEPT ![t].pend = IF Live(k, t) THEN @ \cup {"STOP"} ELSE @]
            /\ UNCHANGED bug
    /\ th' = [th EXCEPT ![t].stopme = TRUE]
    /\ curt' = t /\ pc' = "stop_wait"
    /\ UNCHANGED <<tracing, op, todo, cur, cmds>>

\* ... and is waited for.  Whatever it reports, it stays stopped.
StopWait ==
    LET v == thread_wait(View, curt) IN
    /\ At("stop_wait") /\ CanWait(View, curt)
    /\ Becomes(IF v.bug = "none" /\ v.th[curt].running
               THEN [v EXCEPT !.bug = "still_running"] ELSE v)
    /\ pc' = "process_stop" /\ curt' = NoTid
    /\ UNCHANGED <<tracing, op, todo, cur, cmds>>

\* process_stabilize reads the registers of every thread.  (That no program
\* counter is inside injected code is the subject of another module.)
process_stabilize ==
    /\ At("process_stop") /\ InProc(View, cur) \cap Running(View) = {}
    /\ bug' = IF \A t \in InProc(View, cur) : Traceable(View, t)
              THEN bug ELSE "ptrace"
    /\ pc' = IF op = "DETC" THEN "detach" ELSE "stop_iter"
    /\ UNCHANGED <<k, th, tracing, op, todo, cur, curt, cmds>>

------------------------------------------------------------------------------
(* process_detach, process_kill                                            *)

\* The rest of process_detach: injected code is removed, then each thread is
\* detached and leaves the model.
process_detach ==
    /\ At("detach")
    /\ IF \A t \in InProc(View, cur) : Traceable(View, t)
       THEN /\ k' = [t \in Tids |-> IF t \in InProc(View, cur) THEN NoTask ELSE k[t]]
            /\ th' = [t \in Tids |-> IF t \in InProc(View, cur) THEN NoThread ELSE th[t]]
            /\ UNCHANGED bug
       ELSE bug' = "ptrace" /\ UNCHANGED <<k, th>>
    /\ pc' = "loop" /\ op' = "none" /\ cur' = NoTid
    /\ UNCHANGED <<tracing, todo, curt, cmds>>

\* process_kill: SIGKILL ends the whole process, thread after thread is
\* waited for.
thread_kill(t) ==
    /\ At("process_kill") /\ t \in InProc(View, cur)
    /\ IF k[t].st = "none" THEN bug' = "ptrace" /\ UNCHANGED k
       ELSE k' = KillGroup(k, k[t].tgid) /\ UNCHANGED bug
    /\ th' = [th EXCEPT ![t].stopme = FALSE]
    /\ curt' = t /\ pc' = "kill_wait"
    /\ UNCHANGED <<tracing, op, todo, cur, cmds>>

KillWait ==
    LET v == thread_wait(View, curt) IN
    /\ At("kill_wait") /\ CanWait(View, curt)
    /\ Becomes(v)
    /\ IF v.th[curt].here THEN UNCHANGED <<pc, curt>>
       ELSE pc' = "process_kill" /\ curt' = NoTid
    /\ UNCHANGED <<tracing, op, todo, cur, cmds>>

KillDone ==
    /\ At("process_kill") /\ InProc(View, cur) = {}
    /\ pc' = "loop" /\ op' = "none" /\ cur' = NoTid
    /\ UNCHANGED <<k, th, bug, tracing, todo, curt, cmds>>

------------------------------------------------------------------------------
(* Specification                                                           *)

Command ==
    \/ handle_STRT \/ handle_STOP \/ handle_INJL \/ handle_INJU
    \/ \E p \in Tids : handle_DETC(p) \/ handle_KILL(p)

\* What the server does on its own once a command has begun.
Server ==
    \/ process_any_running \/ StopIter
    \/ \E t \in Tids : thread_stop(t) \/ thread_kill(t)
    \/ StopWait \/ process_stabilize \/ process_detach \/ KillWait \/ KillDone

Program(t) ==
    \/ "signal" \in Env /\ SendUsr(t)
    \/ \E c \in Tids : \/ "clone" \in Env /\ Clone(t, c)
                       \/ "fork" \in Env /\ Fork(t, c)
    \/ "exec" \in Env /\ Exec(t)
    \/ "exit" \in Env /\ Exit(t)
    \/ "group_exit" \in Env /\ ExitGroup(t)

\* Nothing is asked of the program once the server has aborted.
Kernel(t) ==
    /\ bug = "none"
    /\ Deliver(t) \/ Program(t)
    /\ UNCHANGED <<tracing, pc, op, todo, cur, curt, cmds>>

Next == Command \/ Server \/ \E t \in Tids : WaitMain(t) \/ Kernel(t)

Spec == Init /\ [][Next]_vars

\* The server is scheduled and SIGCHLD makes it call wait_main; a pending
\* signal reaches its thread.
Fairness ==
    /\ WF_vars(Server)
    /\ \A t \in Tids :
        /\ WF_vars(WaitMain(t))
        /\ WF_vars(Deliver(t) /\ UNCHANGED <<tracing, pc, op, todo, cur, curt, cmds>>)

FairSpec == Spec /\ Fairness

------------------------------------------------------------------------------
(* Properties                                                              *)

\* No assertion of the server fails and no ptrace request is refused.
NoServerBug == bug = "none"

\* No ptrace or tgkill of the server is refused: it never acts on a thread
\* that has gone.
NoPtraceError == bug # "ptrace"

\* A thread that the server takes to be stopped (state.running = false)
\* exists, is in a ptrace stop, and has no status left to report.
ViewTruthful ==
    bug = "none" => \A t \in Tids : th[t].here =>
        /\ k[t].st # "none"
        /\ ~th[t].running => k[t].st \in {"stop", "gstop"} /\ k[t].ev = "none"

\* Whatever the program does, a thread that the server takes to be stopped
\* does not run: it is in a ptrace stop, or it is dead and only its death is
\* unreported.
StoppedStaysStopped ==
    \A t \in Tids : th[t].here /\ ~th[t].running =>
        k[t].st \in {"stop", "gstop", "zombie", "none"}

\* A request to stop does not outlive thread_stop: a stale stopme would
\* freeze its thread at a later event, in the middle of a running trace.
NoStaleStopme ==
    \A t \in Tids : th[t].stopme /\ bug = "none" => pc = "stop_wait" /\ curt = t

\* A signal is held for a thread (state.signo) only while it is stopped, so
\* that the next thread_continue delivers it, once.
HeldWhileStopped ==
    \A t \in Tids : th[t].signo # "none" => th[t].here /\ ~th[t].running

\* "All inferiors are now stopped." (the answer to STOP): while the trace is
\* stopped no thread runs, the ones the server does not know yet included.
StopMeansStopped ==
    bug = "none" /\ pc = "loop" /\ ~tracing =>
        \A t \in Tids : k[t].st \notin {"run", "born"}

\* An application's signal that a thread_stop met on its way is neither lost
\* nor delivered twice.
SignalConserved ==
    bug = "none" => \A t \in Tids : th[t].here /\ Live(k, t) =>
        k[t].sent = k[t].got + Cardinality({x \in {"pend", "ev", "signo"} :
            \/ x = "pend" /\ "USR" \in k[t].pend
            \/ x = "ev" /\ k[t].ev = "USR"
            \/ x = "signo" /\ th[t].signo = "USR"})

\* The NEW_THREAD and NEW_PROCESS handlers are called before a new thread
\* runs its first instruction.
NotifiedFirst ==
    \A t \in Tids : th[t].here /\ k[t].st = "run" => th[t].notified

\* Stopping all processes ends: every thread that is waited for reports, and
\* new threads do not keep the loop of process_stop_all busy for ever.
StopCompletes == pc = "any_running" ~> pc = "loop" \/ bug # "none"

\* process_kill ends: the death of each thread is waited for and reported.
KillCompletes == pc = "process_kill" ~> pc = "loop" \/ bug # "none"

\* The two halves of a clone event, in whatever order they are reported,
\* end with the new thread running, unless the trace is stopped.
BornRuns ==
    \A t \in Tids : k[t].st = "born" /\ tracing ~> k[t].st = "run" \/ ~tracing

\* A trace that runs leaves no thread behind: outside a command every thread
\* the server knows has been continued.
TracingRuns ==
    bug = "none" /\ pc = "loop" /\ tracing =>
        \A t \in Tids : th[t].here => th[t].running

\* assert(thread_count == 1) of injection_notify_new_process: a process is
\* announced while it has one thread.
NewProcessAlone == bug # "new_process"

\* "child is detached may be stopped, running or zombie": a thread whose
\* creation the server learns of still exists.
ChildKnown == bug # "no_parent"

\* "if (tstate) state_tracing_set(true)": a trace that ran before INJL runs
\* after it.
InjlResumes == [][op = "INJL" /\ pc = "any_running" /\ pc' = "loop" => tracing']_vars
==============================================================================
