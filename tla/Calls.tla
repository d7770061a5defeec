-------------------------------- MODULE Calls --------------------------------
(***************************************************************************)
(* Functions the server calls in a stopped thread, and threads it lets run *)
(* up to an address (arch/arm/fncall.c, arch/arm64/fncall.c).              *)
(*                                                                         *)
(* A machine m is the thread, the server's flags for it and what is going  *)
(* to happen to it: `fate' is the number of ptrace requests that succeed   *)
(* before it is killed, `statuses' what waiting for it returns, each with  *)
(* the registers of that moment.  text is the code at the place used by a  *)
(* call or at the address to stop at.                                      *)
(***************************************************************************)
EXTENDS Integers, Sequences

NoSignal == "none"

First(S) == CHOOSE n \in S : \A k \in S : n <= k

------------------------------------------------------------------------------
(* Requests (process/thread.c)                                              *)

Request(m) == IF m.dead \/ m.fate = 0 THEN [m EXCEPT !.dead = TRUE]
              ELSE [m EXCEPT !.fate = @ - 1]

thread_get_regs(m) == Request(m)

thread_set_regs(m, regs) ==
    LET n == Request(m) IN IF n.dead THEN n ELSE [n EXCEPT !.regs = regs]

PutText(m, text) == LET n == Request(m) IN IF n.dead THEN n ELSE [n EXCEPT !.text = text]

\* thread_continue(thread, 0) delivers the signal that is pending.
thread_continue(m) ==
    LET n == Request(m)
    IN  IF n.dead THEN n
        ELSE [n EXCEPT !.signo = NoSignal,
                       !.delivered = IF m.signo = NoSignal THEN @ ELSE Append(@, m.signo)]

\* thread_wait and thread_continue until a status ends the loop.  The
\* signals before it are delivered, if deliver says so.
WaitUntil(m, Ends(_), deliver) ==
    LET s == m.statuses
        ends == {n \in 1..Len(s) : s[n].signo = "DEAD" \/ Ends(s[n])}
        n == First(ends)
        passed == [k \in 1..(n - 1) |-> s[k].signo]
    IN  IF m.dead \/ ends = {} \/ n - 1 > m.fate \/ s[n].signo = "DEAD"
        THEN [m EXCEPT !.dead = TRUE]
        ELSE [m EXCEPT !.fate = @ - (n - 1), !.statuses = SubSeq(s, n + 1, Len(s)),
                       !.signo = s[n].signo, !.regs = s[n].regs,
                       !.delivered = IF deliver THEN @ \o passed ELSE @]

Result(m, ret) == [m |-> m, ret |-> ret]

------------------------------------------------------------------------------
(* fncall_call                                                              *)

\* The stack as the called function sees it: elements are pushed in order.
Pushed(stack) == [n \in 1..Len(stack) |-> stack[Len(stack) + 1 - n]]

\* In the arm64 build a 32-bit process gets pairs of elements; an odd number
\* ends with a write beyond the array, over the last element.
Pushed32(stack) ==
    [n \in 1..Len(stack) |-> IF Len(stack) % 2 = 1 /\ n <= 2 THEN "unknown"
                             ELSE Pushed(stack)[n]]

\* The end of fncall_call: registers are restored, with the result `ret'.
Restore(m, old, ret) ==
    LET n == thread_set_regs(m, old)
    IN  Result([n EXCEPT !.slave = FALSE], ret /\ ~n.dead)

Out(m) == Result([m EXCEPT !.slave = FALSE], FALSE)

\* From the registers of the call on: run the function, and take the
\* registers back.  A signal other than SIGSTOP ends the call and is lost.
\* The statuses are stops by signals: an exec or a clone in the function, which
\* no function of the base injectable makes, ends the server (adbi_bug).
RunFunction(m, old, regs) ==
    LET m1 == thread_set_regs(m, regs)
        m2 == thread_continue(m1)
        NotStop(s) == s.signo # "SIGSTOP"
        w == WaitUntil(m2, NotStop, FALSE)
        m3 == [w EXCEPT !.signo = NoSignal]
        m4 == thread_get_regs(m3)
    IN  IF m1.dead \/ m3.dead THEN Out(m3)
        ELSE IF m4.dead THEN Restore(m4, old, FALSE)
        ELSE Restore(m4, old, w.signo = "SIGSEGV" /\ m3.regs.pc = 0)

\* Mutant: registers are restored only after a call that succeeded.
fncall_call_norestore(m, address, context) ==
    LET m1 == thread_get_regs([m EXCEPT !.slave = TRUE])
        regs == [pc |-> address, lr |-> 0, sp |-> Pushed(context.stack),
                 r |-> context.registers]
        run == RunFunction(m1, m1.regs, regs)
    IN  IF run.ret THEN run ELSE [run EXCEPT !.m.regs = regs]

\* fncall_call of the arm build; context.pushable is whether the stack can be
\* written.
fncall_call(m, address, context) ==
    LET m1 == thread_get_regs([m EXCEPT !.slave = TRUE])
        regs == [pc |-> address, lr |-> 0, sp |-> Pushed(context.stack),
                 r |-> context.registers]
    IN  IF m1.dead THEN Out(m1)
        ELSE IF context.stack # <<>> /\ ~context.pushable THEN Restore(m1, m1.regs, FALSE)
        ELSE RunFunction(m1, m1.regs, regs)

\* fncall_call of the arm64 build: the context must be one for the mode the
\* thread is in.
fncall_call_arm64(m, address, context, mode32) ==
    LET m1 == thread_get_regs([m EXCEPT !.slave = TRUE])
        sp == IF mode32 THEN Pushed32(context.stack) ELSE Pushed(context.stack)
        regs == [pc |-> address, lr |-> 0, sp |-> sp, r |-> context.registers]
    IN  IF m1.dead \/ mode32 # context.mode32 THEN Out(m1)
        ELSE IF context.stack # <<>> /\ ~context.pushable THEN Restore(m1, m1.regs, FALSE)
        ELSE RunFunction(m1, m1.regs, regs)

------------------------------------------------------------------------------
(* fncall_alloc_load_call                                                   *)

\* inject_find_exec_mem: the first segment of the program that is executable
\* and large enough.
inject_find_exec_mem(segments, size) ==
    LET fit == {n \in 1..Len(segments) : /\ segments[n].exec
                                         /\ segments[n].size >= size
                                         /\ ~segments[n].injection}
    IN  IF fit = {} THEN 0 ELSE First(fit)

\* fncall_alloc_load_call: when the call fails, the function stays where the
\* code of the program was.
fncall_alloc_load_call(m, segments, size, function, context) ==
    LET m1 == PutText(m, function)
        call == fncall_call(m1, 1, context)
    IN  IF inject_find_exec_mem(segments, size) = 0 \/ m.dead \/ m1.dead
        THEN Result(m1, FALSE)
        ELSE IF ~call.ret THEN call
        ELSE Result(PutText(call.m, m.text), TRUE)

\* fncall_alloc_load_call of the arm64 build
fncall_alloc_load_call_arm64(m, segments, size, function, context) ==
    LET m1 == PutText(m, function)
        call == fncall_call_arm64(m1, 1, context, FALSE)
    IN  IF inject_find_exec_mem(segments, size) = 0 \/ m.dead \/ m1.dead
        THEN Result(m1, FALSE)
        ELSE IF ~call.ret THEN call
        ELSE Result(PutText(call.m, m.text), TRUE)

------------------------------------------------------------------------------
(* fncall_restop, fncall_runtil, fncall_runtil_seg                          *)

Faults == {"SIGSEGV", "SIGTRAP", "SIGBUS"}

\* fncall_restop: one instruction is replaced by a breakpoint, unless the pc
\* is not executable.  A thread that dies stays in slave mode.
fncall_restop(m, executable) ==
    LET m1 == thread_get_regs([m EXCEPT !.slave = TRUE])
        m2 == IF executable THEN PutText(m1, "breakpoint") ELSE m1
        Fault(s) == s.signo \in Faults
        m3 == WaitUntil(thread_continue(m2), Fault, TRUE)
        m4 == thread_set_regs(thread_get_regs([m3 EXCEPT !.signo = NoSignal]), m1.regs)
        m5 == IF executable THEN PutText(m4, m.text) ELSE m4
    IN  IF m4.dead THEN Result(m4, FALSE)
        ELSE Result([m5 EXCEPT !.slave = FALSE], ~m5.dead)

\* fncall_runtil: other signals are delivered.  stopat is the address of an ARM
\* instruction; at an odd one, of Thumb, the assertion of patch_insn on the
\* alignment fails.  Code that can be written once can be written back, so a
\* write fails with the thread only.
fncall_runtil(m, stopat) ==
    LET At(s) == s.signo \in Faults /\ s.regs.pc = stopat
        m1 == WaitUntil(thread_continue(PutText([m EXCEPT !.slave = TRUE], "breakpoint")), At, TRUE)
        m2 == PutText(m1, m.text)
    IN  IF m2.dead THEN Out(m2)
        ELSE Result([m2 EXCEPT !.slave = FALSE, !.signo = NoSignal], TRUE)

\* fncall_runtil of the arm64 build reads the registers first.
fncall_runtil_arm64(m, stopat) == fncall_runtil(thread_get_regs(m), stopat)

------------------------------------------------------------------------------
(* Calls of the base injectable                                             *)

\* fncall_get_errno: the errors are -255 .. -1, in both builds.
fncall_get_errno(r) == IF r < 0 /\ r > -256 THEN -r ELSE 0

\* fncall_align_to_page
fncall_align_to_page(size, page) == ((size - 1) \div page + 1) * page

Args(registers, stack) == [registers |-> registers, stack |-> stack, pushable |-> TRUE,
                           mode32 |-> FALSE]

NoError(call, result) == Result(call.m, call.ret /\ fncall_get_errno(result) = 0)

\* fncall_memop: `symbol' is the offset of the function, negative if there is
\* none, and `result' what it returns.
fncall_memop(m, symbol, context, result) ==
    IF symbol < 0 THEN Result(m, FALSE) ELSE NoError(fncall_call(m, symbol, context), result)

\* In the arm64 build, for a 64-bit process
fncall_memop_arm64(m, symbol, context, result) ==
    IF symbol < 0 THEN Result(m, FALSE)
    ELSE NoError(fncall_call_arm64(m, symbol, context, FALSE), result)

\* fncall_mmap: offset and descriptor go on the stack, or, in a 64-bit
\* process, in registers.
fncall_mmap(m, symbol, addr, page, size, result) ==
    fncall_memop(m, symbol, Args(<<addr, fncall_align_to_page(size, page), "prot", "flags">>,
                                 <<"offset", "fd">>), result)

fncall_mmap_arm64(m, symbol, addr, page, size, result) ==
    fncall_memop_arm64(m, symbol, Args(<<addr, fncall_align_to_page(size, page), "prot", "flags",
                                         "fd", "offset">>, <<>>), result)

fncall_allocate(m, symbol, page, size, result) ==
    fncall_memop(m, symbol, Args(<<fncall_align_to_page(size, page)>>, <<>>), result)

fncall_allocate_arm64(m, symbol, page, size, result) ==
    fncall_memop_arm64(m, symbol, Args(<<fncall_align_to_page(size, page)>>, <<>>), result)

fncall_free(m, symbol, addr, size, result) ==
    fncall_memop(m, symbol, Args(<<addr, size>>, <<>>), result)

fncall_free_arm64(m, symbol, addr, size, result) ==
    fncall_memop_arm64(m, symbol, Args(<<addr, size>>, <<>>), result)

\* fncall_call_adbi.  The arguments are of type int, which is too short for
\* addresses in the arm64 build.
fncall_call_adbi(m, address, args) == fncall_call(m, address, Args(args, <<>>))

fncall_call_adbi_arm64(m, address, args) ==
    fncall_call_arm64(m, address, Args([n \in DOMAIN args |-> <<"int", args[n]>>], <<>>), FALSE)

fncall_call_mprotect(m, fn, args, result) == NoError(fncall_call_adbi(m, fn, args), result)

fncall_call_mprotect_arm64(m, fn, args, result) ==
    NoError(fncall_call_adbi_arm64(m, fn, args), result)

\* Both fncall_runtil_seg: the segment is not executable while the thread
\* runs; its protection is m.text here.  A thread that fails in the middle
\* leaves it so.
RunUntilSegment(m, inside, Mprotect(_)) ==
    LET no == Mprotect(m)
        m1 == [no.m EXCEPT !.text = "noexec", !.slave = TRUE]
        In(s) == s.signo \in {"SIGSEGV", "SIGTRAP"} /\ s.regs.pc \in inside
        m2 == [WaitUntil(thread_continue(m1), In, TRUE) EXCEPT !.slave = FALSE]
        yes == Mprotect(m2)
    IN  IF ~no.ret THEN Out(no.m)
        ELSE IF m2.dead THEN Result(m2, FALSE)
        ELSE IF ~yes.ret THEN yes
        ELSE Result([yes.m EXCEPT !.text = m.text], TRUE)

fncall_runtil_seg(m, inside, result) ==
    LET Mprotect(n) == fncall_call_mprotect(n, 2, <<"start", "size", "prot", 0>>, result)
    IN  RunUntilSegment(m, inside, Mprotect)

fncall_runtil_seg_arm64(m, inside, result) ==
    LET Mprotect(n) == fncall_call_mprotect_arm64(n, 2, <<"start", "size", "prot", 0>>, result)
    IN  RunUntilSegment(m, inside, Mprotect)
==============================================================================
