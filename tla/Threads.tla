------------------------------- MODULE Threads -------------------------------
(***************************************************************************)
(* The traced threads as adbiserver sees them (process/thread.c,           *)
(* process/list.c, procutil/wait.c) and as the kernel sees them (ptrace,   *)
(* waitpid and tgkill; external code, modelled from its documented         *)
(* semantics and from how the server uses it).                             *)
(*                                                                         *)
(* The server is one thread: a handler runs to its end before the next one *)
(* starts.  A handler is therefore an operator from a pair of views        *)
(*                                                                         *)
(*     s = [k |-> kernel, th |-> server, bug |-> reason for aborting]      *)
(*                                                                         *)
(* to the pair it leaves behind.  Kernel steps happen between handlers,    *)
(* and, in modules that extend this one, between the blocking waits of a   *)
(* handler.                                                                *)
(***************************************************************************)
EXTENDS Integers, FiniteSets

CONSTANTS
    Tids,       \* thread ids; a process has the id of its first thread
    NoTid,      \* "no thread"
    Handlers,   \* do injectables define NEW_THREAD / NEW_PROCESS handlers?
    MaxUsr      \* bound: application signals sent to one thread

ASSUME NoTidAssumption == NoTid \notin Tids
ASSUME HandlersAssumption == Handlers \in BOOLEAN
ASSUME MaxUsrAssumption == MaxUsr \in Nat

VARIABLES
    k,          \* kernel: task of each tid
    th,         \* server: thread_t of each tid
    bug         \* "none", or why adbi_bug ended the server

------------------------------------------------------------------------------
(* State                                                                   *)

\* USR stands for any signal of the application.  STOP is SIGSTOP; GSTOP is
\* the group stop that a delivered SIGSTOP starts, reported as SIGSTOP too.
Signals == {"USR", "STOP", "GSTOP"}

Events == Signals \cup {"none", "CLONE", "EXEC", "EXIT"}

\* "born" is a clone that has not run yet: the SIGSTOP of the automatic
\* attach is the first thing that happens to it.
TaskStates == {"none", "born", "run", "stop", "gstop", "zombie"}

Task == [st    : TaskStates,
         tgid  : Tids \cup {NoTid},
         ppid  : Tids \cup {NoTid},     \* process that forked this one
         pend  : SUBSET Signals,
         ev    : Events,                \* status that waitpid will report
         child : Tids \cup {NoTid},     \* PTRACE_GETEVENTMSG of a CLONE
         opts  : BOOLEAN,               \* PTRACE_O_TRACECLONE and friends
         sent  : 0..MaxUsr,             \* USR signals sent ...
         got   : Nat]                   \* ... and delivered

NoTask == [st |-> "none", tgid |-> NoTid, ppid |-> NoTid, pend |-> {},
           ev |-> "none", child |-> NoTid, opts |-> FALSE,
           sent |-> 0, got |-> 0]

\* thread_t; slavemode and execed are set and cleared within one handler.
\* "here" says that the thread is on the list of threads.
Thread == [here       : BOOLEAN,
           proc       : Tids \cup {NoTid},
           running    : BOOLEAN,
           stopme     : BOOLEAN,
           signo      : {"none", "USR"},
           setoptions : BOOLEAN,
           notified   : BOOLEAN]

NoThread == [here |-> FALSE, proc |-> NoTid, running |-> FALSE,
             stopme |-> FALSE, signo |-> "none", setoptions |-> FALSE,
             notified |-> FALSE]

Bugs == {"none", "ptrace", "new_process", "no_parent", "still_running"}

ThreadsTypeOK ==
    /\ k \in [Tids -> Task]
    /\ th \in [Tids -> Thread]
    /\ bug \in Bugs

View == [k |-> k, th |-> th, bug |-> bug]

\* A handler ends in the pair of views v.
Becomes(v) == k' = v.k /\ th' = v.th /\ bug' = v.bug

InProc(s, p) == {t \in Tids : s.th[t].here /\ s.th[t].proc = p}

Procs(s) == {s.th[t].proc : t \in {u \in Tids : s.th[u].here}}

Running(s) == {t \in Tids : s.th[t].here /\ s.th[t].running}

Group(kk, p) == {t \in Tids : kk[t].tgid = p}

Live(kk, t) == kk[t].st \notin {"none", "zombie"}

------------------------------------------------------------------------------
(* System calls (external)                                                 *)

\* Any ptrace request on a task that is not in a ptrace stop fails; then
\* thread_handle_ptrace_error calls adbi_bug, which does not return.
Traceable(s, t) == s.k[t].st \in {"stop", "gstop"}

\* PTRACE_CONT: leaving a signal stop delivers sig; leaving a group stop
\* ignores it.  A delivered SIGSTOP stops the whole thread group again.
PtraceCont(kk, t, sig) ==
    LET deliver == kk[t].st = "stop"
        woken == [kk EXCEPT ![t].st = "run", ![t].ev = "none",
                            ![t].got = IF deliver /\ sig = "USR" THEN @ + 1 ELSE @]
    IN  [u \in Tids |->
            IF deliver /\ sig = "STOP" /\ kk[u].tgid = kk[t].tgid /\ Live(kk, u)
            THEN [woken[u] EXCEPT !.pend = @ \cup {"GSTOP"}]
            ELSE woken[u]]

\* Does waitpid report t?  The kernel delays the death of a group leader
\* until the rest of its group has been waited for.
Waitable(kk, t) ==
    /\ kk[t].ev # "none"
    /\ kk[t].ev = "EXIT" /\ kk[t].tgid = t => Group(kk, t) = {t}

\* A function called in the stopped thread t (fncall_call): pending signals
\* arrive first, lowest number first.  SIGSTOP is ignored; any other signal
\* ends the call and is forgotten.
SlaveCallPending(pend) == IF "USR" \in pend THEN pend \ {"USR"} ELSE {}

------------------------------------------------------------------------------
(* process/thread.c                                                        *)

\* Mutant: state.running is not set.
thread_continue_unmarked(s, t, signo) ==
    IF ~s.th[t].here \/ s.th[t].running THEN s
    ELSE IF ~Traceable(s, t) THEN [s EXCEPT !.bug = "ptrace"]
    ELSE [s EXCEPT !.k = PtraceCont(s.k, t, signo)]

\* Mutant: a delivered signal stays in state.signo.
thread_continue_again(s, t, signo) ==
    LET sig == IF signo = "none" THEN s.th[t].signo ELSE signo
    IN  IF ~s.th[t].here \/ s.th[t].running THEN s
        ELSE IF ~Traceable(s, t) THEN [s EXCEPT !.bug = "ptrace"]
        ELSE [s EXCEPT !.k = PtraceCont(s.k, t, sig), !.th[t].running = TRUE]

thread_continue(s, t, signo) ==
    LET sig == IF signo = "none" THEN s.th[t].signo ELSE signo
        opt == [s.k EXCEPT ![t].opts = @ \/ s.th[t].setoptions]
    IN  IF ~s.th[t].here \/ s.th[t].running THEN s
        ELSE IF ~Traceable(s, t) THEN [s EXCEPT !.bug = "ptrace"]
        ELSE [s EXCEPT
                !.k = PtraceCont(opt, t, sig),
                !.th[t].running = TRUE,
                !.th[t].setoptions = FALSE,
                !.th[t].signo = IF signo = "none" THEN "none" ELSE @]

\* The new_process handlers assert that the process has no other thread.
injection_notify_new_thread(s, t) ==
    IF s.th[t].proc = t /\ InProc(s, t) # {t}
    THEN [s EXCEPT !.bug = "new_process"]
    ELSE [s EXCEPT
            !.th[t].notified = TRUE,
            !.k[t].pend = IF Handlers THEN SlaveCallPending(@) ELSE @]

\* Mutant: the signal that stopped the thread is dropped.
continue_or_stop_drops(s, t, signo) ==
    IF s.th[t].stopme THEN [s EXCEPT !.th[t].stopme = FALSE]
    ELSE thread_continue(s, t, signo)

\* Mutant: the request to stop is not withdrawn.
continue_or_stop_sticky(s, t, signo) ==
    IF s.th[t].stopme
    THEN [s EXCEPT !.th[t].signo = IF signo = "STOP" THEN "none" ELSE signo]
    ELSE thread_continue(s, t, signo)

thread_continue_or_stop(s, t, signo) ==
    IF ~s.th[t].here \/ s.th[t].running THEN s
    ELSE IF s.th[t].stopme
    THEN [s EXCEPT !.th[t].signo = IF signo = "STOP" THEN "none" ELSE signo,
                   !.th[t].stopme = FALSE]
    ELSE LET n == IF s.th[t].notified THEN s
                  ELSE injection_notify_new_thread(s, t)
         IN  IF n.bug # "none" THEN n ELSE thread_continue(n, t, signo)

\* thread_create, for a thread found by clone_create_child
thread_create(s, t, p) ==
    [s EXCEPT !.th[t] = [here |-> TRUE, proc |-> p, running |-> FALSE,
                         stopme |-> FALSE, signo |-> "none",
                         setoptions |-> TRUE, notified |-> FALSE]]

thread_exit(s, t) == [s EXCEPT !.th[t] = NoThread]

\* exec: the other threads are gone, and fncall_restop delivers what is
\* pending before the base injection is set up again.
ExecReset(s, t) ==
    LET p == s.th[t].proc
        alone == [u \in Tids |-> IF s.th[u].here /\ s.th[u].proc = p /\ u # t
                                 THEN NoThread ELSE s.th[u]]
        usr == IF "USR" \in s.k[t].pend THEN 1 ELSE 0
        task == [s.k[t] EXCEPT !.pend = {}, !.got = @ + usr]
    IN  [s EXCEPT !.k = [@ EXCEPT ![t] = task], !.th = alone]

thread_exec(s, t) ==
    IF Traceable(s, t)
    THEN thread_continue_or_stop(ExecReset(s, t), t, "none")
    ELSE [s EXCEPT !.bug = "ptrace"]

------------------------------------------------------------------------------
(* procutil/wait.c                                                         *)

\* The thread may belong to a process that is not known yet.  Its parent is
\* looked up in /proc: a process whose parent died belongs to init.
thread_clone_create_child(s, c) ==
    LET tg == s.k[c].tgid
        pp == s.k[c].ppid
    IN  IF tg \in Procs(s) THEN thread_create(s, c, tg)
        ELSE IF pp \in Procs(s) /\ \E u \in Group(s.k, pp) : Live(s.k, u)
        THEN thread_create(s, c, c)
        ELSE [s EXCEPT !.bug = "no_parent"]

thread_handle_clone_child(s, c) ==
    LET n == thread_clone_create_child(s, c)
    IN  IF n.bug # "none" THEN n ELSE thread_continue_or_stop(n, c, "none")

\* Mutant: the child is taken to be stopped.
clone_parent_stopped(s, t, c) ==
    LET r == IF s.th[c].here THEN s ELSE thread_clone_create_child(s, c)
    IN  IF r.bug # "none" THEN r ELSE thread_continue_or_stop(r, t, "none")

\* Mutant: the child is left to report itself.
clone_parent_alone(s, t, c) == thread_continue_or_stop(s, t, "none")

\* Mutant: the parent is not continued when its child came first.
clone_parent_waits(s, t, c) ==
    LET n == thread_clone_create_child(s, c)
    IN  IF s.th[c].here \/ n.bug # "none" THEN s
        ELSE thread_continue_or_stop([n EXCEPT !.th[c].running = TRUE], t, "none")

\* The child may have reported itself before its parent does.
thread_handle_clone_parent(s, t, c) ==
    LET n == thread_clone_create_child(s, c)
        r == IF s.th[c].here THEN s ELSE [n EXCEPT !.th[c].running = TRUE]
    IN  IF r.bug # "none" THEN r ELSE thread_continue_or_stop(r, t, "none")

\* waitpid takes the status away; the task of a dead thread disappears.
Reap(s, t) == [s EXCEPT !.k[t] = IF @.ev = "EXIT" THEN NoTask
                                 ELSE [@ EXCEPT !.ev = "none"]]

\* Mutant: state.running is not reset, so nobody continues the thread.
handle_status_running(s, t) == Reap(s, t)

thread_handle_status(s, t) ==
    LET ev == s.k[t].ev
        r  == [Reap(s, t) EXCEPT !.th = [@ EXCEPT ![t].running = FALSE]]
        e  == [r EXCEPT !.th = [@ EXCEPT ![t].setoptions = TRUE]]
    IN  CASE ev = "CLONE" -> thread_handle_clone_parent(e, t, s.k[t].child)
          [] ev = "EXEC" -> thread_exec(e, t)
          [] ev = "EXIT" -> thread_exit(r, t)
          [] ev \in {"STOP", "GSTOP"} -> thread_continue_or_stop(r, t, "STOP")
          [] OTHER -> thread_continue_or_stop(r, t, ev)

\* Mutant: the status of an unknown thread is ignored.
status_unknown_ignored(s, t) == Reap(s, t)

\* An unknown thread is new if its first status is a SIGSTOP; a death is
\* only logged, anything else is ignored.
thread_handle_status_unknown(s, t) ==
    IF s.k[t].ev = "STOP"
    THEN thread_handle_clone_child(Reap(s, t), t)
    ELSE Reap(s, t)

\* One turn of the loop in wait_main for the thread waitpid returned.
wait_main_one(s, t) ==
    IF s.th[t].here THEN thread_handle_status(s, t)
    ELSE thread_handle_status_unknown(s, t)

\* thread_wait on one thread: its status, or ECHILD when the task is gone.
CanWait(s, t) == Waitable(s.k, t) \/ s.k[t].st = "none"

thread_wait(s, t) ==
    IF s.k[t].st = "none" THEN thread_exit(s, t) ELSE thread_handle_status(s, t)

------------------------------------------------------------------------------
(* What the traced program does between the server's steps (external)      *)

\* A pending signal stops the thread and becomes a status.
Deliver(t) ==
    /\ k[t].st \in {"run", "born"}
    /\ \E sig \in k[t].pend :
        /\ k[t].st = "born" => sig = "STOP"
        /\ k' = [k EXCEPT ![t].st = IF sig = "GSTOP" THEN "gstop" ELSE "stop",
                          ![t].pend = @ \ {sig}, ![t].ev = sig]
    /\ UNCHANGED <<th, bug>>

\* Somebody signals the thread; a signal already pending is not queued again.
SendUsr(t) ==
    /\ Live(k, t) /\ k[t].sent < MaxUsr /\ "USR" \notin k[t].pend
    /\ k' = [k EXCEPT ![t].pend = @ \cup {"USR"}, ![t].sent = @ + 1]
    /\ UNCHANGED <<th, bug>>

\* clone with and without CLONE_THREAD; the child is attached automatically
\* and inherits the ptrace options.  A thread id is not used again while a
\* status still names it.
NewTask(t, c, tg) ==
    /\ k[t].st = "run" /\ k[t].opts /\ k[c].st = "none" /\ ~th[c].here
    /\ Group(k, c) = {} /\ \A u \in Tids : k[u].ev = "CLONE" => k[u].child # c
    /\ k' = [k EXCEPT
            ![c] = [NoTask EXCEPT !.st = "born", !.tgid = tg, !.pend = {"STOP"},
                                  !.ppid = IF tg = c THEN k[t].tgid ELSE NoTid,
                                  !.opts = TRUE],
            ![t].st = "stop", ![t].ev = "CLONE", ![t].child = c]
    /\ UNCHANGED <<th, bug>>

Clone(t, c) == NewTask(t, c, k[t].tgid)

Fork(t, c) == NewTask(t, c, c)

Dead(task) == [task EXCEPT !.st = "zombie", !.ev = "EXIT", !.pend = {}]

\* A thread ends; the first thread of a process is taken to end last.
Exit(t) ==
    /\ k[t].st = "run"
    /\ k[t].tgid = t => Group(k, t) = {t}
    /\ k' = [k EXCEPT ![t] = Dead(@)]
    /\ UNCHANGED <<th, bug>>

KillGroup(kk, p) ==
    [u \in Tids |-> IF kk[u].tgid = p /\ Live(kk, u) THEN Dead(kk[u]) ELSE kk[u]]

\* exit_group: a thread that is stopped by ptrace dies as well.
ExitGroup(t) ==
    /\ k[t].st = "run"
    /\ k' = KillGroup(k, k[t].tgid)
    /\ UNCHANGED <<th, bug>>

\* exec in a process of one thread, or of this one and the first one: the
\* program goes on under the id of the first thread.
Exec(t) ==
    LET p == k[t].tgid IN
    /\ k[t].st = "run" /\ k[t].opts /\ Group(k, p) \subseteq {p, t}
    /\ k' = [k EXCEPT ![t] = NoTask,
                      ![p] = [k[t] EXCEPT !.st = "stop", !.ev = "EXEC",
                                          !.ppid = k[p].ppid]]
    /\ UNCHANGED <<th, bug>>
==============================================================================
