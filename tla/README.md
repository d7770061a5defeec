# A TLA+ development for ADBI

ADBI is a dynamic binary instrumentation tool for Android and Linux on ARM.
`adbiserver` attaches to processes with ptrace, injects code into them
(*injectables*, built with the injection development kit `idk`), patches
tracepoints into their code, and obeys a client (`adbi3`) over a socket.

This directory holds TLA+ modules translated from the C sources, the TLC
configurations that check them, and TLAPS proofs.

## 1. Inventory of the system

| Component | Source | State | Operations |
|---|---|---|---|
| Thread control | `process/thread.c`, `process/list.c`, `procutil/wait.c` | `thread_t`: running, stopme, signo, setoptions, dead, notified; the lists of threads and processes | continue, continue-or-stop, stop, wait, kill, exit, exec, the events clone/fork/exec/exit/signal |
| Process control | `process/process.c`, `configuration/state.c` | `process_t`, `state_tracing_val` | attach, spawn, continue all, stop all, stabilise, detach, kill, fork |
| Packet handlers | `communication/protocol.c` | none of their own | STRT, STOP, ATTC, DETC, SPWN, KILL, INJL, INJU, queries |
| Injectables | `injectable/injectable.c` | trees `injectables`, `libraries`, `bindings`; use count | load, unload, dependency walk |
| Injections | `injection/injection.c` | per process: injection -> address, references | inject, detach, fork, reset, announce threads |
| Segments | `process/segment.c` | memory map; `segment->injection`; trampolines | rescan, fork, reset, attach/detach injectable |
| Mutex of injected code | `idk/include/mutex.h`, `inj/adbi/print.c` | one futex word | lock, unlock; log a message |
| Main loop, connection | `adbiserver.c`, `util/signal.c`, `communication/communication.c` | signal flags, sockets | sigsuspend, wait_main, accept, read a packet |
| Tracepoints | `tracepoint/*.c` | patched instructions, trampolines, jumps | install, remove, fork, gap search |
| Linker breakpoint | `process/linker.c` | one breakpoint per process | attach, detach, notify |
| Calls in a thread | `arch/*/fncall.c` | saved registers | save, call, wait, restore |
| Instruction templates | `arch/*/template*.c`, `disassemble.c` | tables | select, instantiate |
| OS access | `procutil/{procfs,elf,mem,ptrace}.c` | none | read and write |
| Payload | `communication/payload.c` | a buffer | put, check, find |
| Injectable files | `injectable/injfile.c`, `util/human.c` | lists of symbols and lines | look up, describe |
| Search trees | `lib/asdd/include/tree.h` | keys and nodes | insert, remove, search |
| Numbers in injected code | `idk/include/division.h`, `inj/adbi/print.c` | none | divide, print |
| IDK, client, log reader | `idk/`, `adbiclient/`, `adbilog/` | databases; none | build time and front ends |

**How they interact.** One server thread sleeps in `sigsuspend`. SIGCHLD makes
it call `wait_main`, which takes statuses from `waitpid(-1)` and hands them to
`thread_handle_status`; SIGIO makes it read one packet and run its handler.
Handlers that stop, detach or kill block in `waitpid` for *one* thread, and
while they do the traced program goes on. Injected code runs in the traced
threads and shares only memory (the mutex) and a log socket with anybody.

**What is hard.** A thread's own steps are invisible between two statuses. A
clone is reported in two halves, by the parent and by the child, in either
order. Statuses other than the one a handler waits for may come first
(signals, clones, execs, deaths). The death of a group leader is withheld by
the kernel until the rest of the group has been waited for. exec moves the
program to another thread id. Reference counts must survive any order of
loading, mapping, forking and unloading. Calls into the process may fail.

**What makes each component correct.**

* Threads: the server's belief (`state.running`) is never more optimistic than
  the kernel's state; a signal met on the way to a stop is delivered once; a
  request to stop does not linger; new threads are announced before they run.
* Commands: STOP stops everybody, new threads included, and ends; KILL ends;
  INJL and INJU leave the trace as they found it.
* Injection: counts are exact, nothing dangles, everything is removed at
  detach, and segments get their injections whatever the order of loading.
* Mutex: exclusion, no lost wakeup, whole messages, progress.
* Main loop: no status and no request is forgotten although signals merge.
* Tracepoints: no thread ever executes code that was removed, unless a removal
  failed behind the server's back; stabilising ends.
* Attaching: in the end exactly the threads of the process are held.
* Templates: a trampoline does what the traced instruction does.
* Calls, memory, payloads, trees, ELF lookups, gaps, numbers: each computes
  what a plain definition says; where the code does not, the exception is part
  of the definition.

PROJECT.json lists the hazards at their lines.

## 2. Modules

| Module | Models | Notes |
|---|---|---|
| `MutexSpec` | what a lock promises | the abstract specification |
| `Mutex` | `mutex.h`, and `print.c` as its user | one step per atomic instruction or system call |
| `Threads` | `thread.c`, `list.c`, `wait.c`, and the kernel's side (external) | handlers are operators on a pair of views |
| `Tracer` | the commands of `protocol.c` over `Threads` | `pc` is the place in a blocking command |
| `Injection` | `injectable.c`, `injection.c`, `segment.c`, parts of `process.c` | one step per handler; the processes are stopped |
| `MainLoop` | `adbiserver.c`, `signal.c`, `communication.c`, the loop of `wait_main` | one step per system call that may sleep or fail |
| `Attach` | `process_attach`, `spawn.c`, `process_cleanup`, `ptrace_attach` | one step per /proc entry and per status |
| `Tracepoints` | `tracepoint.c`, `jump.c`, `trap.c`, `process_stabilize` | threads run between the steps of the server |
| `Words`, `Select`, `Templates` | `bitops.h`, `match.h`, the four decoders, `template.c` of both architectures | instructions are pairs of halfwords |
| `Architecture` | what an instruction does where it stands | external reference of the templates |
| `Memory` | `mem.c`, `patch.c`, `tracepoint/template.c` | memory is a function from mapped addresses to bytes |
| `Calls` | `fncall.c` of both architectures | a machine with a fate, see below |
| `Gaps` | the search for a place for trampolines | the unit is a page, addresses wrap |
| `Payload` | `payload.c` | cells instead of bytes |
| `Protocol` | `protocol.c` | request and server in, answer and server out |
| `Trees`, `Elf`, `Injfile` | `tree.h`; `elf.c`, `linker.c`; `injfile.c`, `human.c`, dynamic linking | |
| `Numbers` | `division.h`, the conversions of `print.c` | the width of a word is a parameter |
| `InjectableSpec` | reference definitions for `Injfile` and `Numbers` | |
| `Algorithms` | the inputs and reference definitions of the ten groups above | one state per input |
| `MCMutex`, `MCTracer`, `MCInjection`, `MCMainLoop`, `MCAttach`, `MCTracepoints`, `MCAlgorithms` | constants for TLC | |
| `MutexProofs`, `TracerProofs`, `AttachProofs`, `TracepointsProofs`, `InjectionProofs`, `MainLoopProofs`, `AlgorithmsProofs` | theorems about the module of that name | see section 4 |
| `InjectableProofs` | theorems about `InjectableSpec`, and lemmas about induction, recursive functions, folds, sequences and numbers | see section 4 |

Operators whose comment begins with "Mutant" are plausible bugs of the
operator after them. They are not used by any specification; replacing the
operator by its mutant shows that the properties notice.

### Mutex

`word` is `adbi_write_mutex`; `pc` names the instruction a thread is at; `left`
and `partial` describe the message of `adbi_printf`. `Dec`, `Store` and
`FutexWake` are the three steps of `mutex_unlock`; `CmpXchg`, `Swap` and
`FutexWait` those of `mutex_lock`. The load-exclusive/store-exclusive loops are
atomic steps; the memory model is sequential consistency (the code has no
barriers, so this is an assumption).

### Threads and Tracer

`k[t]` is what the kernel knows of a thread: its state, pending signals, the
status waitpid would report, and whether ptrace options are set. `th[t]` is
`thread_t`. `bug` records that the server aborted: a refused ptrace request
(`thread_handle_ptrace_error` calls `adbi_bug`), the assertion on the threads
of a new process, a missing parent process, the assertion in `thread_stop`.
The server is single threaded, so every handler is an operator from a pair of
views to the pair it leaves; `Becomes` installs it. Blocking commands are cut
at every `waitpid` and every `tgkill`; kernel steps fall in between.

The kernel is external and modelled from its documented behaviour: a pending
signal stops a traced thread; PTRACE_CONT delivers; a delivered SIGSTOP starts
a group stop; new threads are attached automatically and begin with SIGSTOP;
`exit_group` kills stopped threads too; `exec` goes on under the leader's id; a
zombie leader is not reported while its group has other members. `Env` selects
which of these the program does, `Commands` which packets the client sends.

Application signals are one class, `USR`; `sent` and `got` count them.
SIGTRAP, SIGILL and SIGBUS of tracepoints and the SIGSEGV of stabilisation
are in `Tracepoints`: `process_stabilize` here reads every thread's registers
and finds them stable. What INJL and INJU do once everything is
stopped is module `Injection`.

### Injection

`loaded` is the tree of injectables in the order of ids. Each process has its
injections (`has`), their counts (`refs`), its mapped segments and the segments
with an injection (`bound`). `Walk` is `injectable_iter_dependencies`: depth
first, once per path. Imports are assumed to be acyclic, because the code would
follow a cycle without end. `Detach` is `injection_detach_single` and
`uninject_dependency`, which call each other: a function defined by recursion,
to which `uninject_dependency` gets access by its parameter. Each import is
represented by the library that exports it; a library that is not loaded leaves
it unresolved. `Heap` orders the
injectables by the address of `injectable_t`, the key of the tree that
`injection_detach` walks. `MaxFails` bounds the handlers in which injections
fail. `bug` says which assertion failed or which missing or freed object was
used. `injectable->references` is changed exactly when an injection is created
or freed and is therefore derived (`References`). Tracepoints and trampolines
inside a segment are in `Tracepoints`, the address of an import in `Injfile`.

### MainLoop

`pend` holds the signals that wait for `sigsuspend`, `flag` what
`signal_handler` has noted. `status` counts the statuses nobody has taken,
`wire` is what the client has sent and the server has not read: the header and
the payload of a packet are two pieces. `heard` says that the last piece raised
SIGIO. The turn is `sigsuspend`, the quit test, `wait_main`, `comm_handle_io`;
every turn of `wait_main`'s loop is a step, so that statuses arrive in between.
The client is the one of `adbiclient`: it sends a request and waits.

### Attach

`task` is the kernel's table: tasks of the process, of other processes and
spawned ones; dead ids are used again. `entries` are the ids that the pass over
/proc/PID/task has still to visit, `changes` is the variable of `process_attach`.
Threads clone and exit between any two steps. `spawn_process`,
`thread_detach` and `process_cleanup` complete the module.

### Tracepoints

A thread's program counter is a pair of a place (natural code, tracepoint,
trampoline, handler, return jump) and a tracepoint. `seg` holds what the server
knows of the segment (tracepoints, trampolines, deferred jumps), `mem` what is
in memory, so that a failed write leaves the two apart. The threads are stopped
while code is changed; unstable ones are continued with all natural code
protected and wait for the fault. A signal handler may run at any place and
returns where it came from.

Every access to the process may fail, when tracepoints are installed
(`Choices`), when they are removed (`Removals`) and when protection is set or
taken back. The code notices a failing `mmap` or `mem_write` of a trampoline
and nothing else: `tracepoints_cleanup` ignores the result of `patch_insn`
(`tracepoint.c:116`) and only logs that of `trampoline_free` (`:87`). A removal
can thus leave a jump or a breakpoint behind, or trampolines that nobody knows
of, while all of it is forgotten. `mem.left` holds the sites with such an
instruction; the next `tracepoint_create` reads it as the original one, so it
also ends in the copy that a new trampoline runs. A thread that executes it
jumps to where a trampoline was, or meets a breakpoint nobody answers: it goes
`astray`. So does a thread that comes to code whose protection could not be
reverted. `fails` counts the operations in which anything failed.

### Algorithms and the modules it applies

The initial state is followed by one state per input, so TLC enumerates the
inputs and each invariant compares the code with a definition of what it is
for. Instructions come in two steps, first halfword then second, which keeps
the number of successors small.

* `Select`, `Templates`: A32, T16, T32 and A64. `GenericIsSafe` compares the
  decision with whether the architecture lets the instruction see the pc;
  `RunsAsOriginal` runs the filled template symbolically. The templates'
  assembly is modelled from the `.S` files as far as the comparison needs it.
* `Payload`: `wide` selects the build: on arm a size is a number of 32 bits, on
  arm64 the sum of the sizes of name and data is, and what is computed from it
  has 64. `SizeLimit` is the number of values of a `uint32_t`; sizes in a
  received payload are any numbers below it (the size of a name has in fact 16
  bits). `payload_check` has four outcomes: correct, wrong, a read outside of
  the buffer, no end.
* `Elf`: a `struct r_debug` is the words of it that the process has; the server
  reads the layout of its own build.
* `Memory`: words of 4 bytes (arm) and 8 bytes (arm64), mappings that begin and
  end anywhere.
* `Calls`: `fate` is the number of ptrace requests that succeed before the
  thread is killed, `statuses` what waiting returns. All calls of both
  architectures are built on the same few requests.
* `Protocol`: the buffer of answers, references to processes and the content
  of every answer, for sequences of packets.
* `Numbers`: `W` is the number of bits of an unsigned int. The magic constants
  are those of the code, computed for the width.

## 3. Runs

| Run | Configuration | Bounds | Shows |
|---|---|---|---|
| `mutex` | `MCMutex.cfg` | 3 threads, messages of 0 to 2 pieces, unlimited calls | exclusion, no lost wakeup, whole messages, progress, refinement |
| `tracer` | `MCTracer.cfg` | 3 threads, 3 commands STRT/STOP, clones, one signal each | the server's view is true; STOP stops everybody; signals are conserved; a running trace leaves nobody behind |
| `tracer_all` | `MCTracerAll.cfg` | 2 threads, 3 of all commands, everything a program does | flags stay meaningful even when threads die |
| `tracer_live` | `MCTracerLive.cfg` | 2 threads, 3 commands, clones, signals | STOP ends; a new thread gets to run |
| `injection` | `MCInjection.cfg` | 2 processes, 2 injectables that share a library, 3 segments | exact counts, no failed assertion, clean detach, segments served |
| `injection_fork` | `MCInjectionFork.cfg` | the same with fork, and one handler in which any injections fail | counts exact, or too large after a failure; no dangling pointer |
| `mainloop` | `MCMainLoop.cfg` | 2 statuses per turn, 3 statuses, 2 requests, 2 connections, 1 failed listen | no status or request forgotten; listening again; quitting |
| `tracepoints` | `MCTracepoints.cfg` | 2 threads, 1 tracepoint, 1 signal handler, 2 operations with failures, near and far returns | who may be harmed, and that nobody else is; stabilisation ends |
| `attach` | `MCAttach.cfg` | 4 ids, 6 births, 1 signal | exactly the right threads are held; attaching ends |
| `algorithms` | `MCAlgorithms.cfg` | all operations of A32, all of T16, samples of registers and immediates; payloads of up to 11 cells, whose sizes wrap at 64; trees of up to 5 keys; 2 packets; 8-bit and 16-bit numbers | eleven algorithms equal their definitions |
| `gap_search` | `MCGaps.cfg` | violation, trampolines of 2 pages | trampolines are mapped over a segment |
| `tracer_kill_clone` | `MCTracerKillClone.cfg` | violation | KILL of two threads never ends |

**Why the bounds suffice.** Every race in the thread code involves one thread
that is waited for and one that does something else; a third thread covers a
birth during the wait. Three commands allow STRT, STOP, STRT: a stop and a
resumption of what it stopped. One signal per thread already meets every stop.
Two users of a library are needed for a count above one, two segments of one
file for a count of segments above one, two processes for fork. The Injection
state space is finite without any bound when nothing fails.
Three statuses with turns of two leave one behind. One tracepoint suffices for
a thread that leaves its trampoline and meets the next one, since it may come
to the same site again; two threads are needed for one that is stable and one
that is not; two failing operations, for a removal that leaves something and an
installation over it that fails as well. That one of several sites fails is
covered by the proofs, which are for any set of them. Four ids let a thread be born by one that
is itself new, and an id be used again. A payload of eleven cells holds
an element with a name and the terminator, or what is wrong with either; a size
of data of 64 less a few cells makes the sum wrap to any place of the buffer. Two packets in a row are enough to see a left-over of the first. The
ranges of jumps are tried at both ends.

Deadlock is checked for the mutex only: elsewhere the bounds end every
behaviour, and a server that aborted stays so.

`tracer` uses symmetry over the threads that do not exist at first, the two
runs of `Injection` over processes; all of them check invariants only.

**Fairness.** `Mutex`: a thread that is not asleep is scheduled (weak fairness
of its steps); calls and interruptions are never required. `Tracer`: the server
is scheduled, SIGCHLD makes it take every status that stays waitable, and a
pending signal reaches its thread. `Waitable` guards `WaitMain`, so the fairness
does not hide a status the kernel withholds. `MainLoop`: the server runs, the
alarm it sets goes off, and a client that has sent a header sends the rest or
closes; nothing makes it send or connect. `Attach`: the server runs and a
SIGSTOP is delivered. `Tracepoints`: threads that are not stopped run, and the
stabilising server polls each of them. Nothing else is assumed of the program
or of the client.

### Further behaviours of the code

These are not runs of their own. Where a property is named, it is in the module,
and TLC refutes it with the constants given; the rest follows from the source
and is why a property or its inputs has an exception.

Threads and commands (`MCTracer` with `Tids = {p, a}`, no handlers, no signals):

* `NoPtraceError` fails with STRT, STOP and `Env = {"clone", "group_exit"}`: a
  process that exits during STOP makes a ptrace request fail, and
  `thread_handle_ptrace_error` (`thread.c:39`) ends the server before it reaches
  the code meant for that case.
* `NotifiedFirst` fails with STRT, STOP and `Env = {"clone"}`, 3 commands: a
  thread born while the trace is being stopped is continued by the next STRT
  without its NEW_THREAD handler (`process.c:58`).
* `InjlResumes` fails with STRT, INJL: `say_OKAY` contains a return, so
  `protocol.c:270` is never reached and INJL leaves the trace stopped.
* `NewProcessAlone` fails with 3 threads, `Env = {"clone", "fork"}`: a process
  stopped before it was announced clones a thread first; the assertion at
  `injection.c:168` fails.
* `StopMeansStopped` fails with `Env = {"clone", "exec"}`: a leader that was
  stopped already reports the exec of another thread and is continued.
* `ChildKnown` fails with `Env = {"clone", "exit"}`: a thread is gone before
  its parent's clone event is handled (`wait.c:71`, then `wait.c:36`).
* `StopCompletes` fails under `FairSpec` with `Env = {"clone", "group_exit"}`:
  `thread_stop` waits for a leader whose death is withheld.

Injections (`MCInjection`; one process and `Layout <- OneFile` are enough):

* `CountsBalance` fails with `Imports <- Flat` and fork, detach, 2 processes:
  `injection_fork` gives the child's base injection one reference whatever the
  parent has (`injection.c:415`). The run with fork therefore uses
  `FlatNoAdbi`.
* `CountsBalance` fails with `Imports <- Chain`: a library that uses the base
  injectable gives its reference back twice (`injection.c:424`).
* `DependencyFound` fails for A -> L -> M (`DeepChain`), and with
  `MaxFails = 1` (`injection.c:474`).
* `IterationSafe` fails with `Heap <- LibLast`: `injection_detach` frees the
  node its loop saved. The passing runs use `LibFirst`.
* `NoAbort`, `SegmentsServed`, `CleanDetach`, `RefusedOnlyInUse` and
  `AdbiPresent` fail with `MaxFails = 1`: libraries keep their counts when the
  injection they were injected for fails. `NoDangling` holds then.
* `injection_init` ignores a non-zero result of the entry function
  (`injection.c:103`), although `inj.h:79` says the injectable is unloaded.
* `injection_dlink` of a 64-bit server writes 8 bytes in a 32-bit process
  (`injection.c:202`), over the word after the stub.

Attaching, the loop, tracepoints:

* `AttachEndsAlways` fails: a signal before the SIGSTOP is answered with
  `PTRACE_CONT` and the address of `signo` (`ptrace.c:96`), which is refused.
* `RequestAnsweredAlways` fails: what arrives between `accept` and
  `fcntl(O_ASYNC)` raises no SIGIO (`communication.c:152`).
* A return jump out of range is deferred where the thread stands, and the final
  assertion of `process_stabilize` fails (`process.c:392`); `thread_is_stable`
  looks at the pc only, so a signal handler inside a trampoline hides it; a
  failed `mprotect` is not noticed, neither when code is protected nor when the
  protection is reverted.
* With a failing write during removal, a thread dies at the site
  (`run[t] = "dead" => t \in hit` fails with `MaxFails = 1`), see section 2.
* Errors of `PTRACE_ATTACH`, of the SIGSTOP and of the PTRACE_CONT of
  `ptrace_attach_stopstart` other than a missing task end the server
  (`ptrace.c:44`, `:48`, `:69`); `Attach` leaves them out.
* `TrampolineFits` fails for two pages (run `gap_search`).

Calls and memory:

* `fncall_alloc_load_call` does not put the borrowed code back when the call
  fails (`fncall.c:508`). A signal that interrupts `fncall_call` is lost. The
  arm64 call of a 32-bit process with an odd number of stack elements writes
  past its array. `fncall_call_adbi` truncates arguments to int on arm64.
  `fncall_runtil_seg` has no caller.
* `fncall_runtil` tells Thumb by bit 0 of its address and clears it in the
  comparison only (`fncall.c:185`): at a Thumb entry point the assertions on
  the alignment in `patch.c:37`, `:67` fail. `Calls` has ARM addresses. It also
  takes memory to be accessible as long as the thread lives, which leaves out
  the failures at `fncall.c:167`, `:171` and `:205` for a living thread.
* `fncall_call` ends the server on an exec or a clone inside the called
  function (`fncall.c:373`; arm64 `:420`). The functions of the base injectable
  make neither, and `Calls` has no such status.
* On arm64, 8-byte peeks fail in the last 4 bytes of a mapping. `Memory` has
  this; `WriteAddress` of `Injfile` does not.
* `MemoryDumped` fails (`MCAlgorithms.cfg`): `process_is_running` is always
  false (`process.c:97`), so MEMD of a running process passes NULL to
  `mem_read` (`protocol.c:519`), whose assertion fails; a thread's reference is
  never given back.

Templates (excluded from `RunsAsOriginal` or `GenericIsSafe`):

* 32-bit Thumb: conditional branches beyond 4 KB and B.W, BL, BLX beyond 8 MB
  are computed wrongly (`arch/arm/template.c:246`, `:415`); ORR, MOV, ORN, MVN
  and MUL are refused; some branch encodings reach an assertion.
* 16-bit Thumb: `bx pc` and every `blx` are taken as generic, since bit 7 of a
  shorter opcode is tested (`template_select_thumb.c:87`); `blx_reg_t1` is never
  chosen, and a copied `blx` leaves an address of the trampoline in lr.
* ARM: stores relative to the pc with the template that borrows a register may
  store the borrowed one; `ldr rd, [pc, rd]`, operands sp in templates that push.
* A64: vector literal loads; LDM/STM of ARM look at the low nibble of the list.
* Undefined encodings reach assertions that are left out: BLX with bit 0 set
  (`arch/arm/template.c:442`), b.cond with bit 24 or 4 set
  (`arch/arm64/template.c:48`).
* `Filled` and `Filled64` take the effect of a template from
  `arch/*/templates/*.S`. That `a64_bl` and `a64_blr_x30` go through x16, which
  a caller may not count on across a call, is left out.

Formats and numbers:

* The sum of the sizes of an element wraps at 32 bits (`payload.c:118`), which
  `payload_check` does not see. On arm, an element can then have size 0, where
  the check never ends, or be accepted with a size of its data that reaches
  beyond the buffer. On arm64 the last byte of a string is looked for 4 GB away
  (`payload.c:189`), also when the string has no byte at all; on arm that is
  the byte before, the end of the name, and the string is accepted.
  `PayloadSound` states these exceptions (`Wraps`).
* Iterators over an injectable file do not test the first entry.
* The server for arm64 reads its own `struct r_debug` from 32-bit processes too
  (`elf.c:433`, `:479`): it takes `r_ldbase` and the word behind the struct for
  `r_brk`. If that word is 0, the result is the base of the linker, which may be
  executable: `linker_attach` puts its breakpoint there, where it is never hit.
* `linker_detach` ignores that the instruction could not be written back
  (`linker.c:85`) and forgets the breakpoint, so that it is nobody's when hit.
* `linker_files` lacks a comma (`linker.c:10`) and the test of the file name is
  inverted (`linker.c:48`): any executable file mapping is accepted.
* `div10l` is wrong for the last 6 values of an unsigned long long: its
  correction overflows. `div` and `divl` are wrong for dividends or divisors of
  2^31 and more. `%p` has the width of a word in `Numbers`, as on arm; on arm64
  a pointer has twice as many bits. `%%` swallows the text up to the next conversion letter.
* `WakesOnlyWaiters` (Mutex) fails: a lock obtained by `atomic_swap` is released
  with a system call although nobody waits; the header of `mutex.h` says
  otherwise.
* `socket_del_fd` of the log reader lowers the bound for `select` below the
  descriptors of other clients.

## 4. Proofs

`MutexProofs` proves, for any number of threads and any message length, that
the lock excludes (`Exclusion`), loses no wakeup (`Wakeup`), keeps messages
whole (`Whole`) and implements `MutexSpec` (`Refinement`). The inductive
invariant adds to the checked properties that an unfinished message belongs to
the owner (`PartialOwned`) and that a thread past the lock has written
everything (`WroteAll`). Exclusion is inductive only together with "the word is
0 exactly when nobody owns": a successful exchange proves there is no owner.

`TracerProofs` proves, for any set of threads, any commands, any environment
and any bounds: `TypeCorrect`, `Stopped` (a thread the server takes to be
stopped does not run), `Stopme` (no stale request to stop) and `Held` (signals
are held only for stopped threads). The invariant is

    Inv == TypeOK /\ Sound(View) /\ NoStaleStopme /\ Waits

`Sound` is stated for a *pair of views*, so that each handler gets a lemma of
the form "sound views in, sound views out" (`ContinueSound`,
`CloneParentSound`, `StatusSound`, ...), and the proof for `Next` only composes
them. `Sound` strengthens `Stopped` by what a status implies: a thread with an
unreported status is not running, and a stopped thread can only have an EXIT or
an EXEC left to report (the two things that can happen to it behind the
server's back). `Waits` says that a blocking wait is for a known thread.
`Settles` is the part of a handler's specification that `NoStaleStopme` needs.

The second part of `TracerProofs` proves what the `tracer` run checks and the
environment can spoil. Its hypotheses are what the violations of section 3 make necessary:

* `Orderly` leaves out `exit_group`, exec and KILL: they
  end or replace a stopped thread behind the server's back. Under it, `Truthful`
  (`ViewTruthful`), `AllStopped` (`StopMeansStopped`) and `AllRun`
  (`TracingRuns`) hold for any set of threads, any clones, forks, exits and
  signals, any sequence of the other commands, and any bounds.
* `Conservation` (`SignalConserved`) needs besides that no NEW_THREAD handler is
  called: `fncall_call` forgets a signal that interrupts it.
* `NoAbort` (`NoServerBug`) needs `Steady`: one process that clones and takes
  signals, and no DETC. A forked process may clone before it is announced, which
  ends in the assertion at `injection.c:168`, and a thread that exits is gone
  when its parent's clone event is handled.

The invariant is `Truth`, for as long as the server has not aborted: `Fits`
relates each `thread_t` to its task and says that a task the server does not
know is the child of a clone event it has not handled; `Course` says which
threads run at each place of a command. Neither is inductive alone: that STOP
leaves nobody running needs that an unknown task has a parent with an unhandled
event, which contradicts that all known threads are stopped with nothing to
report. Handlers are described once by what they do to a pair of views
(`Handled`, `Welcomed`, `AllResumed`) and reused by the three invariants `Truth`,
`Conserved` and `SingleProcess`. `Conserved` counts: sent is delivered plus
pending, reported or held.

`AttachProofs` proves `Held`: `HeldExactly` for any number of ids, births and
signals. `Complete` is the heart of the invariant: in a pass over
/proc/PID/task that has changed nothing yet, either the whole group is held, or
an entry is still to be visited that is not, and will be a change. `Holding`
and `SpawnedKnown` say who is held.

`TracepointsProofs` proves, for any threads, tracepoints, signals and failing
accesses, of installation, removal and protection alike:

* `NoHarm` (`Unharmed`): a thread that dies was interrupted by a signal in
  artificial code (`hit`; `thread_is_stable` does not see where a handler
  returns to) or went astray over what a failure left; and without failures
  none goes astray.
* `Assertion`: the final assertion of `process_stabilize` fails only for return
  jumps out of range.
* `Restores`: after the server has left, nothing the tables knew is in place,
  and if nothing failed no jump is left, no trampoline is there and no code is
  protected.

The invariant has three parts: `Consistent` relates memory and the server's
tables, also after a write that failed half way; `Sound` says for each thread
that the artificial code it is in exists, that its breakpoint is known and that
its fault is one of protected code; `Phases` says that a stopped process is in
natural code. They hold with any failures. `Flawless` is a second layer on top
of them, about behaviours in which nothing has failed: no instruction is left
and no trampoline is in memory that the tables do not know (`Tidy`), nobody is
astray, and code is protected only while the process is stabilised.

`InjectionProofs` proves `TypeCorrect`, `Pointers` (`NoDangling`) and `Service`
(`fails = 0 => SegmentsServed`), for any injectables, acyclic imports of any
depth, processes, segments and failures. The invariant is

    Inv == TypeOK /\ Adbi \in ToSet(loaded) /\ NoDangling /\ (fails = 0 => SegmentsServed)

and the argument is about the *shape* of what each function does to a process:
injecting only adds loaded libraries (`Grown`), serving segments binds one only
to an injection that is there (`Served`), removing takes the injection and some
libraries and keeps every other bound injectable (`Shrunk`). That removal never
takes the injection of another segment rests on segments being bound to
injectables that no injectable imports. `Service` needs that what is resolved
stays resolved when more is loaded (`ReadyGrows`). It holds without failures
only: `segment_rescan` does not retry an old segment. The counts play no role
in either theorem.

The second part of `InjectionProofs` proves what the counts are for, for any
number of processes, segments, libraries and bound injectables, under hypotheses on the
constants that the behaviours listed in section 3 make necessary:

* `Shallow`: libraries import nothing. Deeper, a reference is given back twice.
* `ForkCounts`: if processes fork, nobody imports the base injectable, since
  `injection_fork` gives the child's base injection one reference.
* `LibsFirst`: in the tree of injections, libraries come before what uses them.
  Otherwise `TREE_ITER_SAFE` goes on from a node that the loop's body freed.

`ReferencesExact` is `RefsExact`, from the first two and with failing injections
too. `ServerGoesOn` (`NoAbort`) and `DetachIsClean` (`CleanDetach`) need all
three, and hold as long as no injection failed. Both injection runs satisfy the
hypotheses. The invariant adds `Counts` and `Clean` to `Inv`: for each process
`Kept` (what is imported or bound is there), the counts are at least, or
exactly, bound segments plus users (`Count`), and `Used` (a library is there for
somebody). `RefsExact` alone is not inductive: that a library whose last
reference goes may be removed needs that every user is counted, and that
detaching leaves nothing needs that no library is without a user.
`NeededIsCount` turns the paths of the walk that `RefsExact` counts into users.
Each function gets one lemma about the whole process: `Supplied` and `Returned`
say what injecting and giving back a *set* of libraries does, which is what a
fold over a walk of depth one amounts to (`SupplyAll`, `ReturnAll`), and
`Halfway` is the invariant of the loop of `injection_detach`.

The first part of `InjectableProofs` makes recursion and folds usable in these
proofs. The library's induction theorems take a predicate as parameter, which
the provers cannot instantiate; here the claim is a *set* of numbers, and the
least number outside it is a contradiction (`Upwards`). A function defined by recursion has the value
of its body if the body uses values of lower rank only (`NatRecursion`), and a
fold is the last value of a sequence (`FoldAlong`). `WalkFact` and `DetachFact`
apply this to the recursion of `Injection`: the rank is the one of
`AcyclicAssumption`. Then comes the plain mathematics of the other proofs: pieces
of sequences, quotients, digits and sums.

`MainLoopProofs` proves the safety behind the liveness that run `mainloop`
checks, for any number of statuses, requests, connections and failures:
`PacketsFramed` (a header is read as a header, its payload as the payload),
`OneSocket`, `NothingForgotten` (whatever there is to do, a signal is pending or
a flag is set that leads to it, and a sleeping server will be woken) and
`QuitKept`. The invariant `IInv` joins `Framing`, `Sockets`, `Reachable`,
`StatusRemembered` and `RequestRemembered` with `AlarmAlive` (the alarm is set,
pending or noted, and noted only until the loop sets it again) and `Counted`.
`RequestRemembered` is inductive only with `Framing` and `Sockets`, which say
what may be on the wire when the server has taken a piece.
That the remembered work is then done needs fairness.

`AlgorithmsProofs` proves six of the invariants of `Algorithms`, each from a
theorem or lemma for inputs of every size. Those about numbers and symbols are
in `InjectableProofs`, which no state is needed for.

* Payloads, for both builds and every `SizeLimit` above the length of the
  buffer. `ReadsInside`: `payload_check` reads outside or fails to end only at
  an element whose sizes wrap (`CheckEnds`); it and `payload_find` go through a
  buffer by the same steps, so a position that one accepts the other reads
  inside (`FoundInside`). With 64 bits the read of a string's last byte forces
  the size of the data to be honest; with 32 bits it is the same byte for every
  size that wraps, and only the position of the next element is safe. `BuiltIsRead`: a payload of n elements is laid out element after
  element; by induction from its end, a search passes those with another name.
* Trees. The keys of a subtree lie between `Lo` and `Hi`, the neighbours of its
  root *at the time the root was inserted*; the later of the two is the parent.
  Descending from a node thus narrows an interval that holds what is searched
  for, and the successor in iteration is the least key above.
* Memory. The invariant of the loop of `mem_write_shift` says that a prefix of the
  data is in memory, nothing else has changed, and the loop stops at an unmapped
  word only. `mem_verify` then reads the prefix back. `PatchIsRead` is about the
  halfword order of Thumb and how the kind is detected from the first halfword.
* Calls. `Becomes` describes what the requests make of the machine; the loop
  over statuses is a recursion over any sequence of them.
* Numbers, for words of *any* width W. `div10` multiplies by a factor f with
  10 f = 2^(W+3) + e and 0 < e <= 8; the error stays below a tenth for every
  word. `div10l` adds the tenths of two halves and the remainder's share, is
  too large by one at most, and its correction is right unless the product
  overflows, which are the last six values (`Top`). Digits then stand for the
  number by induction on its value. In `div` the shift is the number of bits
  of the divisor, so the interval of the search holds the quotient and no
  product exceeds twice the dividend. In `llsr` the parts joined by `|` share
  no bit, so that `|` adds. Formats: what is printed from a position on counts
  the conversions and the characters from there on, if no conversion that
  began before is still open (`Fresh`).
* Symbols. `NearestFound`: one loop of `str_injection_offset` keeps the best
  entry or replaces it by a *greater* one of its own list (`Improves`), so that
  of equal offsets the first list wins. `LineFound` needs the lines in the order
  of their addresses; the reference list of `LineLeads` is, since counting the
  smaller elements numbers a finite set without gaps (`NthAre`). `DlinkLinks`:
  the loop over the imports writes to stubs only, and what it wrote stays if no
  later stub covers it (`Apart`). `Apart` allows the upper half of an address to
  land on the *code* of the next stub, as it does for 32-bit processes of a
  64-bit server.

`Algorithms` fixes W to 4 and 8 for TLC; `ConversionStands`, `QuotientsRight` and
`FormatCounts` are the same claims for every width and length, in particular
for the 32 bits of the code.

Assumptions: the named ASSUMEs of the modules, all evaluated by TLC, and the
hypotheses named above.

Only model-checked:

* all liveness (fairness is out of the prover's reach);
* `GenericIsSafe` and `RunsAsOriginal`, which compare some hundred encodings bit
  by bit with the architecture's tables: there is no argument shorter than the
  enumeration that TLC makes;
* `LinkerFound` and `AnswersFresh`, which evaluate the code on an executable and
  on servers that are given field by field;
* `TrampolineFits`, which is not true of every process: `gap_search` is its
  counterexample for trampolines of two pages.

## 5. Plan

Done: all modules of section 2 and the proofs above. What would come next:

1. Composition of `Tracepoints` with `Tracer`: stabilisation while threads are
   born.
2. The parser of /proc/PID/maps, and the assembly of the remaining templates.
3. Proofs: the answers of `Protocol` for any server.

## 6. Not modelled

The disassemblers (text for the log), the parsers of the text of /proc, the
reading of injectable files into memory, the client, the log reader and the
build-time tools of the kit. The effect of templates for load/store multiple,
coprocessor and vector instructions is modelled as far as their selection. The
memory model of the lock is sequential consistency. Thread id reuse while an
unhandled status names the id is excluded in `Tracer`, and a first thread that
exits before the others by itself is not considered.
