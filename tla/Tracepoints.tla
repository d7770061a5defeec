------------------------------ MODULE Tracepoints ------------------------------
(***************************************************************************)
(* The tracepoints of one segment, the trampolines they lead to, and the   *)
(* stabilisation that moves every thread out of injected code before it is *)
(* removed (tracepoint/tracepoint.c, tracepoint/jump.c, arch/*/trap.c,     *)
(* process/process.c, process/segment.c).                                  *)
(*                                                                         *)
(* Stopping the threads one by one is the subject of Tracer; here every    *)
(* thread is a program counter that is somewhere in the natural code, at a *)
(* tracepoint, in a trampoline or in the handler it calls.                 *)
(***************************************************************************)
EXTENDS Integers, FiniteSets, Sequences

CONSTANTS
    Threads,      \* threads of the process
    Sites,        \* addresses of tracepoints, in the order of the tree
    FarReturns,   \* whether a return out of a trampoline may be out of range
    MaxSignals,   \* bound: signal handlers the program runs
    MaxFails      \* bound: operations in which writes or calls in the process fail

ASSUME SitesAssumption == Sites \subseteq Nat \ {0} /\ IsFiniteSet(Sites)
ASSUME BoundsAssumption ==
    FarReturns \in BOOLEAN /\ MaxSignals \in Nat /\ MaxFails \in Nat

VARIABLES
    mem,       \* memory of the process, as far as the server changes it
    seg,       \* segment_t and process->jumps
    frames,    \* where each thread is; the last place is its pc
    run,       \* what each thread does
    phase,     \* where the server is
    unstable,  \* the tree of process_stabilize
    hit,       \* threads a signal interrupted in artificial code
    astray,    \* threads that met what a failing write or call left behind
    signals, fails

vars == <<mem, seg, frames, run, phase, unstable, hit, astray, signals, fails>>

Places == ({"nat", "sig"} \X {0}) \cup ({"site", "tramp", "inj", "ret"} \X Sites)

Nat0 == <<"nat", 0>>

\* text and code: the instruction at a tracepoint, and the one that leaves its
\* trampoline; noexec: natural segments are execution-protected.  "orig" is the
\* instruction that tracepoint_create reads.  At the sites in `left' that is the
\* jump or breakpoint of an earlier tracepoint, which could not be removed.
Memory == [here       : BOOLEAN,
           text       : [Sites -> {"orig", "jump", "bkpt"}],
           code       : [Sites -> {"none", "jump", "bkpt"}],
           trampoline : {"unmapped", "rwx", "noaccess"},
           injected   : BOOLEAN,
           noexec     : BOOLEAN,
           left       : SUBSET Sites]

\* jumps also holds the targets: a site jumps to its trampoline, a return
\* behind its site.
Segment == [injection   : BOOLEAN,
            tracepoints : SUBSET Sites,
            trampolines : BOOLEAN,
            trampoline_stolen : BOOLEAN,
            jumps       : SUBSET ({"site", "ret"} \X Sites)]

FreshText == [here |-> TRUE, text |-> [s \in Sites |-> "orig"],
              code |-> [s \in Sites |-> "none"], trampoline |-> "unmapped",
              injected |-> FALSE, noexec |-> FALSE, left |-> {}]

NoTracepoints == [injection |-> FALSE, tracepoints |-> {}, trampolines |-> FALSE,
                  trampoline_stolen |-> FALSE, jumps |-> {}]

TypeOK ==
    /\ mem \in Memory
    /\ seg \in Segment
    /\ frames \in [Threads -> Seq(Places)] /\ \A t \in Threads : Len(frames[t]) \in 1..2
    /\ run \in [Threads -> {"run", "trap", "segv", "stop", "dead", "gone"}]
    /\ phase \in {"loop", "stopping", "stabilizing", "stopped", "bug", "left"}
    /\ unstable \subseteq Threads /\ hit \subseteq Threads /\ astray \subseteq Threads
    /\ signals \in 0..MaxSignals /\ fails \in 0..MaxFails

Init ==
    /\ mem = FreshText
    /\ seg = NoTracepoints
    /\ frames = [t \in Threads |-> <<Nat0>>]
    /\ run = [t \in Threads |-> "run"]
    /\ phase = "loop"
    /\ unstable = {} /\ hit = {} /\ astray = {}
    /\ signals = 0 /\ fails = 0

pc(t) == frames[t][Len(frames[t])]

Goto(t, place) == [frames EXCEPT ![t][Len(frames[t])] = place]

Alive == {t \in Threads : run[t] \notin {"dead", "gone"}}

------------------------------------------------------------------------------
(* tracepoint/tracepoint.c on the pair [m : Memory, s : Segment]           *)

\* What becomes of the accesses of a removal: the call that frees the
\* trampolines, and the sites where the write of the instruction fails.
Removals == [freed : BOOLEAN, kept : SUBSET Sites]
Complete == [freed |-> TRUE, kept |-> {}]

\* segment_is_unused segments are taken over and given back inaccessible.
trampoline_free(v, freed) ==
    IF ~freed THEN v.m
    ELSE [v.m EXCEPT !.code = FreshText.code,
                     !.trampoline = IF v.s.trampoline_stolen THEN "noaccess" ELSE "unmapped"]

\* The trampolines go first, then every tracepoint: its jumps, its instruction.
\* Failures are not noticed: everything is forgotten.
tracepoints_cleanup(v, unpatch, free, r) ==
    LET m == IF free /\ v.s.trampolines THEN trampoline_free(v, r.freed) ELSE v.m
    IN  [m |-> IF unpatch
               THEN [m EXCEPT !.text = [s \in Sites |-> IF s \in v.s.tracepoints THEN "orig"
                                                        ELSE m.text[s]],
                              !.left = @ \cup {s \in r.kept \cap v.s.tracepoints :
                                                 m.text[s] # "orig"}]
               ELSE m,
         s |-> [v.s EXCEPT !.trampolines = FALSE, !.tracepoints = {},
                           !.jumps = @ \ ({"site", "ret"} \X v.s.tracepoints)]]

\* A choice of what the process and its instructions make of tracepoints_init:
\* the sites tracepoint_create has a template for, the memory that
\* allocate_trampoline finds, the sites that reach their trampoline by a
\* relative jump, whether the trampoline then reaches back, the sites that
\* cannot be patched, the trampoline mem_write fails for, and the rollback.
\* What does not matter has one value.
Choices == {c \in [created   : SUBSET Sites,
                    memory    : {"mapped", "stolen", "none"},
                    near      : SUBSET Sites,
                    far       : {FALSE, FarReturns},
                    unpatched : SUBSET Sites,
                    failed    : {0} \cup Sites,
                    undo      : Removals] :
              /\ c.failed \in {0} \cup c.created
              /\ c.near \cup c.unpatched \cup c.undo.kept
                   \subseteq {s \in c.created : c.failed = 0 \/ s <= c.failed}
              /\ c.far => c.near # c.created
              /\ c.memory = "none" => c.failed = 0
              /\ c.failed = 0 => c.undo = Complete
              /\ c.memory = "none" \/ c.failed # 0 => c.near = {} /\ ~c.far /\ c.unpatched = {}}

Failing(c) == c.memory = "none" \/ c.failed # 0 \/ c.unpatched # {}

allocate_trampoline(v, c) ==
    [v EXCEPT !.m.trampoline = IF c.memory = "none" THEN @ ELSE "rwx",
              !.m.code = IF c.memory = "none" THEN @ ELSE FreshText.code,
              !.s.trampolines = c.memory # "none",
              !.s.trampoline_stolen = @ \/ c.memory = "stolen"]

\* Sites are patched in the order of the tree, each before its trampoline is
\* written; the site of a failing write is patched already.  That a site could
\* not be patched is not noticed.
Install(v, c) ==
    LET reached == {s \in c.created : c.failed = 0 \/ s <= c.failed}
        back    == IF c.far THEN c.near ELSE Sites
    IN  [v EXCEPT
           !.m.text = [s \in Sites |-> IF s \notin reached \ c.unpatched THEN @[s]
                                       ELSE IF s \in c.near THEN "jump" ELSE "bkpt"],
           !.m.code = [s \in Sites |-> IF s \notin reached \ {c.failed} THEN @[s]
                                       ELSE IF s \in back THEN "jump" ELSE "bkpt"],
           !.s.jumps = @ \cup ({"site"} \X (reached \ c.near))
                         \cup ({"ret"} \X (reached \ back))]

tracepoints_init(v, c) ==
    LET new == [v EXCEPT !.s.tracepoints = c.created]
        all == allocate_trampoline(new, c)
    IN  IF ~v.s.injection \/ c.created = {} THEN v
        ELSE IF c.memory = "none" THEN tracepoints_cleanup(all, TRUE, TRUE, c.undo)
        ELSE IF c.failed \in c.created
             THEN tracepoints_cleanup(Install(all, c), TRUE, TRUE, c.undo)
        ELSE Install(all, c)

tracepoints_reset(v) == tracepoints_cleanup(v, FALSE, FALSE, Complete)
tracepoints_detach(v, r) == tracepoints_cleanup(v, TRUE, TRUE, r)
tracepoints_gone(v, r) == tracepoints_cleanup(v, FALSE, TRUE, r)

\* The jumps of the parent that belong to a tracepoint are installed again.
tracepoints_fork(s) ==
    [s EXCEPT !.jumps = {j \in @ : j[2] \in s.tracepoints}]

------------------------------------------------------------------------------
(* Which code is artificial                                                *)

\* Mutant: only injections are looked at.
address_is_artificial_inj(place) == seg.injection /\ place[1] = "inj"

address_is_injection(place) == seg.injection /\ place[1] = "inj"

segment_get_by_trampoline(place) == seg.trampolines /\ place[1] \in {"tramp", "ret"}

address_is_artificial(place) == address_is_injection(place) \/ segment_get_by_trampoline(place)

thread_is_stable(t) == ~address_is_artificial(pc(t))

process_find_unstable == {t \in Alive : ~thread_is_stable(t)}

segment_check_address_is_code(place) == place[1] \in {"nat", "sig", "site"}

------------------------------------------------------------------------------
(* The program                                                             *)

\* What executing the instruction at a place comes to: the next place, or the
\* event that stops the thread.  An instruction in `left' leads to where a
\* trampoline was; its copy in a new trampoline does as well.
After(place) ==
    LET s    == place[2]
        live == mem.trampoline = "rwx" /\ mem.code[s] # "none"
        go   == [orig |-> Nat0, jump |-> <<"tramp", s>>, bkpt |-> <<"trap", 0>>]
        back == [jump |-> Nat0, bkpt |-> <<"trap", 0>>]
        dead == {<<"dead", 0>>}
        lost == IF s \in mem.left THEN {<<"lost", 0>>} ELSE {}
    IN  IF segment_check_address_is_code(place) /\ mem.noexec
        THEN {<<IF phase = "stabilizing" THEN "segv" ELSE "lost", 0>>} ELSE
        CASE place[1] = "nat" -> {<<"site", x>> : x \in IF mem.here THEN Sites ELSE {}}
          [] place[1] = "site" -> {go[mem.text[s]]} \cup (IF mem.text[s] = "orig" THEN lost ELSE {})
          [] place[1] = "tramp" -> IF live THEN {<<"inj", s>>} ELSE dead
          [] place[1] = "inj" -> IF mem.injected THEN {<<"ret", s>>} \cup lost ELSE dead
          [] place[1] = "ret" -> IF live THEN {back[mem.code[s]]} ELSE dead
          [] place[1] = "sig" -> {}

Step(t) ==
    /\ run[t] = "run"
    /\ \E n \in After(pc(t)) :
          \/ /\ n[1] \in {"segv", "trap", "dead"}
             /\ run' = [run EXCEPT ![t] = n[1]]
             /\ UNCHANGED <<frames, hit, astray>>
          \/ /\ n[1] = "lost"
             /\ run' = [run EXCEPT ![t] = "dead"]
             /\ astray' = astray \cup {t}
             /\ UNCHANGED <<frames, hit>>
          \/ /\ n \in Places
             /\ frames' = Goto(t, n)
             /\ hit' = IF n = Nat0 THEN hit \ {t} ELSE hit
             /\ UNCHANGED <<run, astray>>
    /\ UNCHANGED <<mem, seg, phase, unstable, signals, fails>>

\* A signal handler of the program runs on top of whatever was interrupted.
Interrupt(t) ==
    /\ run[t] = "run" /\ Len(frames[t]) = 1 /\ signals < MaxSignals
    /\ frames' = [frames EXCEPT ![t] = Append(@, <<"sig", 0>>)]
    /\ hit' = IF segment_check_address_is_code(pc(t)) THEN hit ELSE hit \cup {t}
    /\ signals' = signals + 1
    /\ UNCHANGED <<mem, seg, run, phase, unstable, astray, fails>>

SigReturn(t) ==
    /\ run[t] = "run" /\ Len(frames[t]) = 2 /\ ~mem.noexec
    /\ frames' = [frames EXCEPT ![t] = SubSeq(@, 1, 1)]
    /\ UNCHANGED <<mem, seg, run, phase, unstable, hit, astray, signals, fails>>

\* One more operation with failures
Fail(failing) == fails' = fails + (IF failing THEN 1 ELSE 0) /\ fails' <= MaxFails

\* The program does not unload a library it still executes or returns to.
Unload(t, r) ==
    /\ phase = "loop" /\ mem.here /\ ~mem.noexec /\ run[t] = "run" /\ pc(t) = Nat0
    /\ r.kept = {} /\ Fail(r # Complete)
    /\ \A u \in Alive, i \in 1..2 : i <= Len(frames[u]) => frames[u][i][1] \in {"nat", "sig"}
    /\ LET v == tracepoints_gone([m |-> mem, s |-> seg], r)
       IN  /\ mem' = [v.m EXCEPT !.here = FALSE, !.text = FreshText.text, !.left = {}]
           /\ seg' = [NoTracepoints EXCEPT !.jumps = v.s.jumps]
    /\ UNCHANGED <<frames, run, phase, unstable, hit, astray, signals>>

\* linker_notify for a new segment; the injection may still be in the process.
Load(t, c) ==
    /\ phase = "loop" /\ ~mem.here /\ ~mem.noexec /\ run[t] = "run" /\ pc(t) = Nat0
    /\ Fail(Failing(c))
    /\ LET v == tracepoints_init([m |-> [mem EXCEPT !.here = TRUE],
                                  s |-> [seg EXCEPT !.injection = mem.injected]], c)
       IN  mem' = v.m /\ seg' = v.s
    /\ UNCHANGED <<frames, run, phase, unstable, hit, astray, signals>>

\* The model follows the child: a copy of the memory, and only this thread.
Fork(t) ==
    /\ phase = "loop" /\ ~mem.noexec /\ run[t] = "run" /\ pc(t) = Nat0
    /\ seg' = tracepoints_fork(seg)
    /\ run' = [u \in Threads |-> IF u = t THEN "run" ELSE "gone"]
    /\ UNCHANGED <<mem, frames, phase, unstable, hit, astray, signals, fails>>

\* thread_exec: the old segments are forgotten, the new ones initialised.
Exec(t, c) ==
    /\ phase = "loop" /\ ~mem.noexec /\ run[t] = "run" /\ pc(t) = Nat0 /\ ~Failing(c)
    /\ LET old == tracepoints_reset([m |-> FreshText, s |-> seg])
           new == [old EXCEPT !.m.injected = seg.injection,
                              !.s = [NoTracepoints EXCEPT !.injection = seg.injection,
                                                          !.jumps = old.s.jumps]]
           v   == tracepoints_init(new, c)
       IN  mem' = v.m /\ seg' = v.s
    /\ frames' = [frames EXCEPT ![t] = <<Nat0>>]
    /\ run' = [u \in Threads |-> IF u = t THEN "run" ELSE "gone"]
    /\ hit' = hit \ {t}
    /\ UNCHANGED <<phase, unstable, astray, signals, fails>>

------------------------------------------------------------------------------
(* The server                                                              *)

Target(place) == IF place[1] = "site" THEN <<"tramp", place[2]>> ELSE Nat0

\* thread_trap: an installed jump is taken, unless the process is stabilised;
\* any other breakpoint is the program's own and kills it.  A thread that is
\* being stopped stays at the target.
thread_trap(t, resumed) ==
    IF pc(t) \in seg.jumps
    THEN /\ frames' = IF phase = "stabilizing" THEN frames ELSE Goto(t, Target(pc(t)))
         /\ run' = [run EXCEPT ![t] = resumed]
    ELSE run' = [run EXCEPT ![t] = "dead"] /\ UNCHANGED frames

\* wait_main: also after the server has left, when nobody handles the trap.
Trap(t) ==
    /\ phase \in {"loop", "left"} /\ run[t] = "trap"
    /\ IF phase = "loop" THEN thread_trap(t, "run")
       ELSE run' = [run EXCEPT ![t] = "dead"] /\ UNCHANGED frames
    /\ UNCHANGED <<mem, seg, phase, unstable, hit, astray, signals, fails>>

\* A request that changes the instrumentation.
process_stop_stabilize ==
    /\ phase = "loop" /\ Alive # {}
    /\ phase' = "stopping"
    /\ UNCHANGED <<mem, seg, frames, run, unstable, hit, astray, signals, fails>>

thread_stop(t) ==
    /\ phase = "stopping"
    /\ \/ run[t] = "run" /\ run' = [run EXCEPT ![t] = "stop"] /\ UNCHANGED frames
       \/ run[t] = "trap" /\ thread_trap(t, "stop")
    /\ UNCHANGED <<mem, seg, phase, unstable, hit, astray, signals, fails>>

\* segment_set_exacutable_all(process, false); its failure is not noticed.
process_stabilize(protect) ==
    /\ phase = "stopping" /\ \A t \in Alive : run[t] = "stop"
    /\ IF process_find_unstable = {}
       THEN phase' = "stopped" /\ protect /\ UNCHANGED <<mem, run, unstable, fails>>
       ELSE /\ Fail(~protect)
            /\ mem' = [mem EXCEPT !.noexec = @ \/ protect]
            /\ unstable' = process_find_unstable
            /\ run' = [t \in Threads |-> IF t \in process_find_unstable THEN "run" ELSE run[t]]
            /\ phase' = "stabilizing"
    /\ UNCHANGED <<seg, frames, hit, astray, signals>>

\* Mutant: the thread is continued at the protected code.
StabilizeWait_again(t) ==
    /\ phase = "stabilizing" /\ t \in unstable
    /\ \/ run[t] = "trap" /\ thread_trap(t, "stop")
       \/ run[t] = "segv" /\ run' = [run EXCEPT ![t] = "run"] /\ UNCHANGED frames
    /\ UNCHANGED <<mem, seg, phase, unstable, hit, astray, signals, fails>>

\* The loop of process_stabilize with thread_wait: a breakpoint is deferred; a
\* fault on protected code leaves the thread stopped and is forgotten.
StabilizeWait(t) ==
    /\ phase = "stabilizing" /\ t \in unstable
    /\ \/ run[t] = "trap" /\ thread_trap(t, "stop")
       \/ /\ run[t] = "segv"
          /\ run' = [run EXCEPT ![t] = IF segment_check_address_is_code(pc(t)) THEN "stop"
                                       ELSE "dead"]
          /\ UNCHANGED frames
    /\ UNCHANGED <<mem, seg, phase, unstable, hit, astray, signals, fails>>

\* Protection is reverted, unless that fails, and the final assertion evaluated.
StabilizeDone(revert) ==
    /\ phase = "stabilizing" /\ \A t \in unstable : run[t] \in {"stop", "dead"}
    /\ Fail(~revert)
    /\ mem' = [mem EXCEPT !.noexec = @ /\ ~revert]
    /\ unstable' = {}
    /\ phase' = IF process_find_unstable = {} THEN "stopped" ELSE "bug"
    /\ UNCHANGED <<seg, frames, run, hit, astray, signals>>

\* process_attach_injectable: injections_init and tracepoints_init.
segment_attach_injectable(c) ==
    /\ phase = "stopped" /\ mem.here /\ ~seg.injection
    /\ Fail(Failing(c))
    /\ LET v == tracepoints_init([m |-> [mem EXCEPT !.injected = TRUE],
                                  s |-> [seg EXCEPT !.injection = TRUE]], c)
       IN  mem' = v.m /\ seg' = v.s
    /\ UNCHANGED <<frames, run, phase, unstable, hit, astray, signals>>

\* process_detach_injectable: the injection is removed behind its tracepoints.
segment_detach_injectable(r) ==
    /\ phase = "stopped" /\ seg.injection
    /\ r.kept \subseteq seg.tracepoints /\ Fail(r # Complete)
    /\ LET v == tracepoints_detach([m |-> mem, s |-> seg], r)
       IN  mem' = [v.m EXCEPT !.injected = FALSE] /\ seg' = [v.s EXCEPT !.injection = FALSE]
    /\ UNCHANGED <<frames, run, phase, unstable, hit, astray, signals>>

Resumed == [t \in Threads |-> IF run[t] = "stop" THEN "run" ELSE run[t]]

\* segment_detach, injection_detach and thread_detach.
process_detach(r) ==
    /\ phase = "stopped"
    /\ r.kept \subseteq seg.tracepoints /\ Fail(r # Complete)
    /\ LET v == tracepoints_detach([m |-> mem, s |-> seg], r)
       IN  mem' = [v.m EXCEPT !.injected = FALSE] /\ seg' = [NoTracepoints EXCEPT !.jumps = v.s.jumps]
    /\ run' = Resumed /\ phase' = "left"
    /\ UNCHANGED <<frames, unstable, hit, astray, signals>>

process_continue ==
    /\ phase = "stopped"
    /\ run' = Resumed /\ phase' = "loop"
    /\ UNCHANGED <<mem, seg, frames, unstable, hit, astray, signals, fails>>

------------------------------------------------------------------------------
Server ==
    \/ process_stop_stabilize
    \/ \E done \in BOOLEAN : process_stabilize(done) \/ StabilizeDone(done)
    \/ \E c \in Choices : segment_attach_injectable(c)
    \/ \E r \in Removals : segment_detach_injectable(r) \/ process_detach(r)
    \/ process_continue
    \/ \E t \in Threads : Trap(t) \/ thread_stop(t) \/ StabilizeWait(t)

Program(t) ==
    \/ Step(t) \/ Interrupt(t) \/ SigReturn(t) \/ Fork(t)
    \/ \E r \in Removals : Unload(t, r)
    \/ \E c \in Choices : Load(t, c) \/ Exec(t, c)

Next == Server \/ \E t \in Threads : Program(t)

Spec == Init /\ [][Next]_vars

\* Threads that are not stopped get the processor, and a handler returns; the
\* server is one loop that only waits for threads.
Fairness ==
    /\ \A t \in Threads : WF_vars(Step(t)) /\ WF_vars(StabilizeWait(t))
    /\ WF_vars(StabilizeDone(TRUE))

FairSpec == Spec /\ Fairness

------------------------------------------------------------------------------
(* Properties                                                              *)

\* The instrumentation kills no thread: whatever is injected, removed, loaded,
\* forked or detached, and whatever fails while it is installed, no thread
\* executes a trampoline or a handler that is not there any more, or a
\* breakpoint nobody answers.  There are two exceptions.  Threads that a signal
\* interrupted in artificial code: thread_is_stable looks at the pc only, and
\* such a thread returns into code that may have been removed.  And threads
\* that went astray, which takes a failure that nobody looks at: they come to
\* the very site where a write of tracepoints_cleanup failed, or to code whose
\* protection could not be reverted.
Unharmed ==
    /\ \A t \in Threads : run[t] = "dead" => t \in hit \cup astray
    /\ fails = 0 => astray = {}

\* process_stabilize ends with every thread out of artificial code: once the
\* code is protected, each unstable thread comes to a stop, and the assertion
\* at the end holds - except for a thread at a return jump that is out of
\* range, whose breakpoint is deferred where it stands.
StabilizeEnds ==
    phase = "stabilizing" /\ mem.noexec ~>
       \/ phase = "stopped"
       \/ phase = "bug" /\ \E t \in Threads : pc(t) \in seg.jumps /\ pc(t)[1] = "ret"
==============================================================================
