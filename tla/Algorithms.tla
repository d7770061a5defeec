------------------------------ MODULE Algorithms ------------------------------
(***************************************************************************)
(* The server's algorithms, each applied to every input of a bounded set   *)
(* and compared with a reference definition.  A state is one input.        *)
(***************************************************************************)
EXTENDS Architecture, Memory, InjectableSpec, TLC

CONSTANTS
    Pcs,            \* addresses of a traced Thumb instruction
    ArmRegs,        \* registers named by ARM instructions
    ThumbRegs,      \* and by 32-bit Thumb instructions
    ThumbHigh,      \* samples of the upper byte of a Thumb-2 second halfword
    A64Low,         \* samples of the low bits of A64 instructions
    MaxCells,       \* cells of a received payload
    SizeLimit,      \* the number of values of a uint32_t
    MaxKey,         \* keys of a tree are 1..MaxKey
    TrampolinePages,\* sizes of trampolines
    MaxPackets      \* packets in a row

ASSUME MaxKeyAssumption == MaxKey \in Nat
\* Buffers are smaller than a uint32_t can count, as those of packets are.
ASSUME SizeAssumption ==
    /\ MaxCells \in Nat /\ SizeLimit \in Nat
    /\ SizeLimit >= 64 /\ SizeLimit > MaxCells + 2

VARIABLE in         \* the input, or none yet

P == INSTANCE Payload
T == INSTANCE Trees
E == INSTANCE Elf
G == INSTANCE Gaps
C == INSTANCE Calls
R == INSTANCE Protocol

None == [test |-> "none"]

Init == in = None

------------------------------------------------------------------------------
(* Instructions                                                             *)
\* The first halfword of an instruction, then the second.  ARM: all
\* operations, with some registers in each place; A64: all values of the
\* bits 31 to 21.
FirstHalves(kind) ==
    CASE kind = "THUMB" -> {0}
      [] kind = "ARM" ->
           {4096 * cond + 16 * op + rn : cond \in {3, 15}, op \in 0..255, rn \in ArmRegs}
      [] kind = "THUMB2" -> {16 * op + rn : op \in \hE80..\hFFF, rn \in ThumbRegs}
      [] kind = "A64" -> {32 * op + mid : op \in 0..2047, mid \in {0, 1, 28}}

PcsOf(kind) ==
    CASE kind = "ARM" -> {\h8000} [] kind = "A64" -> {\h8000000} [] OTHER -> Pcs

FirstHalf ==
    \E kind \in {"THUMB", "ARM", "THUMB2", "A64"} :
    \E high \in FirstHalves(kind), pc \in PcsOf(kind) :
        in' = [test |-> "high", kind |-> kind, high |-> high, pc |-> pc]

\* All 16-bit Thumb instructions are tried.
SecondHalf(kind) ==
    CASE kind = "THUMB" -> 0..(\hE800 - 1)
      [] kind = "ARM" ->
           {4096 * rd + 16 * op2 + rm :
               rd \in ArmRegs, op2 \in 0..15, rm \in ArmRegs}
      [] kind = "THUMB2" ->
           {256 * h + 16 * op2 + rm : h \in ThumbHigh, op2 \in {0, 1, 8, 15}, rm \in ThumbRegs}
      [] kind = "A64" -> A64Low

Instruction ==
    \E low \in SecondHalf(in.kind) :
        in' = [test |-> "insn", kind |-> in.kind, i |-> <<in.high, low>>, pc |-> in.pc]

------------------------------------------------------------------------------
(* Other inputs                                                             *)

\* Jumps: the ends of the range of each kind, and beyond.
Reach(kind) ==
    CASE kind = "ARM" -> 33554432 [] kind = "THUMB" -> 2048
      [] kind = "THUMB2" -> 16777216 [] kind = "A64" -> 134217728

JumpInput ==
    \E kind \in {"ARM", "THUMB", "THUMB2", "A64"} :
    \E d \in {-8, -4, 0, 4, 1020, 2044} \cup {s * Reach(kind) + e : s \in {-1, 1}, e \in {-4, 0, 4}} :
        in' = [test |-> "jump", kind |-> kind, from |-> \h10000000,
               to |-> arm64_address_to_pc(kind, \h10000000) + d]

\* Instructions to be put in memory: breakpoints, and one of another value.
Patches(word) ==
    {<<k, get_breakpoint_insn(k)>> : k \in {"ARM", "THUMB", "THUMB2"}}
      \cup {<<"THUMB2", <<\hE812, \h1234>>>>}
      \cup IF word = 8 THEN {<<"A64", get_breakpoint_insn_arm64("A64")>>} ELSE {}

\* A memory that is mapped from an address on and up to another one, and an
\* instruction or some bytes to be put there.
MemoryInput ==
    \E from \in {16, 20}, to \in 22..32, address \in 16..27, word \in {4, 8} :
        \/ \E size \in 0..6 :
              in' = [test |-> "write", from |-> from, to |-> to, address |-> address,
                     word |-> word, data |-> [n \in 1..size |-> 100 + n]]
        \/ \E insn \in Patches(word) :
              /\ arm_check_align(address, insn[1])
              /\ in' = [test |-> "patch", from |-> from, to |-> to, address |-> address,
                        word |-> word, kind |-> insn[1], i |-> insn[2]]

\* Payloads as they may be received, cell by cell: the data of a string, the
\* first or the second element, may be so large that sizes wrap around.
Large == (SizeLimit - 6)..(SizeLimit - 1)
IsLarge(buf) == Len(buf) >= P!Header /\ P!payload_element_data_size(buf, 0) \in Large

Cell ==
    LET len == Len(in.buf)
        start == IF len < P!Header THEN 0 ELSE P!payload_element_get_next(FALSE, in.buf, 0)
        large == len - start = 3 /\ in.buf[start + 1] = P!STR
        cells == CASE len - start = 1 -> {0} [] large -> 0..3 \cup Large
                   [] IsLarge(in.buf) /\ len > 6 -> 0..1 [] OTHER -> 0..3
    IN  /\ len < IF IsLarge(in.buf) THEN MaxCells + 2 ELSE MaxCells
        /\ \E c \in cells : in' = [test |-> "cells", buf |-> Append(in.buf, c)]

\* Payloads as the server builds them: two elements.
Element(pb, n) == P!payload_put(pb, n.type, n.name, n.val)

BuildInput ==
    \E a, b \in [type : {P!U32, P!U64, P!STR}, name : {<<1>>, <<2>>, <<1, 2>>},
                 val : {<<5>>, <<0>>, <<6, 7>>, [n \in 1..12 |-> 8]}] :
        /\ \A e \in {a, b} : e.type # P!STR => Len(e.val) = P!NumberSize(e.type)
        /\ \A e \in {a, b} : e.type = P!STR => e.val # <<0>>
        /\ in' = [test |-> "build", a |-> a, b |-> b,
                  pb |-> P!payload_put_term(Element(Element(P!payload_create, a), b))]

\* Trees, key by key
Insert ==
    \E k \in (1..MaxKey) \ T!Keys(in.tree) :
        in' = [test |-> "tree", tree |-> Append(in.tree, k)]

\* An executable: its text is at the file offsets 2 to `te', its data start
\* at `ds', with .dynamic `k' words later; DT_DEBUG is entry `idx', if any.
\* A page has 4 words.  The data are mapped `shift' words higher than the
\* text, and everything is loaded `bias' above the addresses in the file.
ElfInput ==
    \E te \in 3..6, gap \in 0..3, k \in 0..2, idx \in 0..3, base \in {0, 16},
       bias \in {0, 32}, shift \in {4, 8}, set \in {"now", "later", "never"}, tls \in BOOLEAN :
        base + bias > 0 /\ in' = [test |-> "elf", te |-> te, ds |-> te + gap, k |-> k, idx |-> idx, base |-> base,
               bias |-> bias, shift |-> shift, set |-> set, tls |-> tls]

\* A segment of `len' pages with neighbours on both sides, near one of the
\* ends of the address space or far from them.
GapInput ==
    \E start \in {2, 20, 58}, len \in 1..2, below \in 0..2, above \in 0..2,
       prot \in {{}, {"r"}, {"w"}}, other \in 1..2, reach \in {3, 6}, edge \in {0, 1},
       low \in 0..1, hi \in 0..1, size \in TrampolinePages :
        /\ low <= hi /\ hi < len
        /\ in' = [test |-> "gap", start |-> start, len |-> len, below |-> below,
                  above |-> above, prot |-> prot, other |-> other, reach |-> reach,
                  edge |-> edge, low |-> start + low, hi |-> start + hi, size |-> size]

\* Calls: what happens to the thread, status by status.
Statuses ==
    {[signo |-> s, regs |-> [pc |-> pc, r |-> "changed"]] :
        s \in {"SIGSTOP", "SIGSEGV", "SIGTRAP", "SIGUSR1"}, pc \in {0, 5, 9}}
    \cup {[signo |-> "DEAD", regs |-> [pc |-> 9, r |-> "changed"]]}

Scenario ==
    \E s \in Statuses :
        Len(in.statuses) < 2 /\ in' = [in EXCEPT !.statuses = Append(@, s)]

Memops == {"mmap", "mmap64", "allocate", "allocate64", "free", "free64", "mprotect", "mprotect64"}
Calling == Memops \cup {"call", "call64", "load", "load64", "adbi"}

CallInput ==
    \E op \in Calling \cup {"restop", "runtil", "runtil64", "runtil_seg", "runtil_seg64"},
       fate \in 0..8, signo \in {C!NoSignal, "SIGUSR2"}, pushable \in BOOLEAN :
        in' = [test |-> "call", op |-> op, fate |-> fate, signo |-> signo,
               pushable |-> pushable, statuses |-> <<>>]

\* Injectables: the symbols of each list, at offsets 0 to 2; and injections
\* with two stubs, linked with what two others export.
Symbol(name, offset) == [name |-> name, offset |-> offset]

Lists == {J!NoList} \cup
    {[n \in 1..Len(s) |-> [name |-> "f", offset |-> s[n]]] :
        s \in {<<0>>, <<1>>, <<2>>, <<0, 1>>, <<2, 1>>}}

Exports == {J!NoList, <<Symbol("f", 0)>>, <<Symbol("f", 1), Symbol("g", 2)>>, <<Symbol("h", 3)>>}

InjInput ==
    \/ \E adbi, exports, imports, tpoints \in Lists, offset \in 0..3 :
          in' = [test |-> "symbol", offset |-> offset,
                 file |-> [adbi |-> adbi, exports |-> exports, imports |-> imports,
                           tpoints |-> tpoints]]
    \/ \E addrs \in SUBSET (0..3), offset \in 0..4 :
          in' = [test |-> "line", addrs |-> addrs, offset |-> offset]
    \/ \E arch \in {"arm", "arm64", "arm64 mode32"}, first, second \in Exports,
         names \in [1..2 -> {"f", "g", "h"}], backwards, mapped \in BOOLEAN :
          in' = [test |-> "link", arch |-> arch, first |-> first, second |-> second,
                 names |-> names, backwards |-> backwards, mapped |-> mapped]

\* Packets, one after the other, for a server that traces a stopped process
\* 1 and a process 2 that has a running thread and perhaps a stopped one.
Process(threads, bytes, segments, injections) ==
    [references |-> 1, threads |-> threads, bytes |-> bytes, segments |-> segments,
     injections |-> injections, leaked |-> 0]

Server(threads) ==
    [procs |-> (1 :> Process(<<FALSE>>, 10, <<[start |-> 4, trampolines |-> 0],
                                              [start |-> 6, trampolines |-> 8]>>, <<9>>))
               @@ (2 :> Process(threads, 12, <<[start |-> 5, trampolines |-> 0]>>, <<>>)),
     found |-> {2, 3}, level |-> 0, quit |-> FALSE, failed |-> FALSE, payload_buffer |-> <<>>,
     inj |-> <<[id |-> 1, name |-> "lib", tpoints |-> <<>>, imports |-> <<>>,
                adbi |-> <<Symbol("init", 3)>>,
                exports |-> <<Symbol("f", 1), Symbol("g", 2)>>],
               [id |-> 4, name |-> "handler", exports |-> <<>>, adbi |-> <<>>,
                imports |-> <<Symbol("f", 7)>>, tpoints |-> <<[address |-> 6, handler |-> 5]>>]>>,
     dirs |-> ("/" :> <<[name |-> "a", dir |-> TRUE], [name |-> "b", dir |-> FALSE]>>)]

Requests ==
    LET Of(types, fields) == {[type |-> t, fields |-> f] : t \in types, f \in fields}
        Pid(p) == (<<"pid", -1>> :> p)
        Field(name, v) == (<<name, -1>> :> v)
    IN  Of({"PING", "QUIT", "PROC", "INJQ", "GARB"}, {<<>>})
        \cup Of({"ATTC", "MAPS"}, {<<>>} \cup {Pid(p) : p \in 1..4})
        \cup Of({"ADDR", "MEMD"}, {Pid(1)})
        \cup Of({"ADDR"}, {Pid(p) @@ Field("address", 4) : p \in 1..3})
        \cup Of({"MEMD"}, {Pid(p) @@ Field("address", a) @@ Field("size", s) :
                             p \in 1..3, a \in {0, 4}, s \in {0, 7, 8}})
        \cup Of({"INJT", "INJE", "INJI", "INJA"},
                {<<>>} \cup {Field("iid", i) : i \in {1, 2, 4}})
        \cup Of({"LLEV"}, {<<>>, Field("loglevel", 2)})
        \cup Of({"LDIR"}, {<<>>, Field("path", "/"), Field("path", "/none")})
        \cup Of({"SPWN"}, {<<>>, Field("argc", 1),
                           Field("argc", 1) @@ (<<"argv", 0>> :> "a")})

\* The server as the next request finds it
After == R!handle_packet(in.server, in.request).sv

PacketInput ==
    \E r \in Requests, valid \in BOOLEAN :
    \E server \in IF in.test = "none" THEN {Server(<<TRUE>>), Server(<<TRUE, FALSE>>)}
                  ELSE IF After.failed \/ in.n = MaxPackets THEN {} ELSE {After} :
        LET n == IF in.test = "none" THEN 1 ELSE in.n + 1
        IN  in' = [test |-> "packet", n |-> n, server |-> server,
                   request |-> [type |-> r.type, fields |-> r.fields, seq |-> n, valid |-> valid]]

\* Numbers of an injectable: for words of 4 bits all conversions, dividends
\* and divisors; for words of 8 bits all values to be printed.  Formats,
\* character by character.
Numbers ==
    \/ \E v \in 0..255 : in' = [test |-> "number", v |-> v]
    \/ \E fmt \in UNION {[1..n -> {"%", "l", "d", " "}] : n \in 0..5} :
          in' = [test |-> "format", fmt |-> fmt]

Next ==
    \/ in.test = "none" /\ FirstHalf
    \/ in.test = "high" /\ Instruction
    \/ in.test = "none" /\ JumpInput
    \/ in.test = "none" /\ MemoryInput
    \/ in.test = "none" /\ in' = [test |-> "cells", buf |-> <<>>]
    \/ in.test = "cells" /\ Cell
    \/ in.test = "none" /\ BuildInput
    \/ in.test = "none" /\ in' = [test |-> "tree", tree |-> <<>>]
    \/ in.test = "tree" /\ Insert
    \/ in.test = "none" /\ ElfInput
    \/ in.test = "none" /\ GapInput
    \/ in.test = "none" /\ CallInput
    \/ in.test = "call" /\ Scenario
    \/ in.test = "none" /\ InjInput
    \/ in.test \in {"none", "packet"} /\ PacketInput
    \/ in.test = "none" /\ Numbers

Spec == Init /\ [][Next]_in

------------------------------------------------------------------------------

(* Traced instructions                                                      *)

Select == IF in.kind = "A64" THEN template_select_arm64(in.i, in.kind)
          ELSE template_select(in.i, in.kind)

Generic == {"arm_generic", "thumb_generic", "thumb2_generic", "a64_generic"}

IsBranchExchange(i) == Is(i, 15, 8, \b01000111)

\* An instruction that template_select lets a trampoline copy as it is (the
\* generic templates) does not depend on its own address, nor does it store
\* that address in lr.  The exceptions are bx pc and every blx of 16-bit Thumb:
\* template_select_thumb.c looks for the link in bit 7 of an opcode that has
\* six bits, so the template blx_reg_t1 is never chosen and a copied blx leaves
\* an address of the trampoline in lr.
GenericIsSafe ==
    in.test = "insn" /\ Select \in Generic /\ ReadsPc(in.i, in.kind)
        => in.kind = "THUMB" /\ IsBranchExchange(in.i)

Special == {"NULL", "assert", "thumb_nop"} \cup Generic \cup DOMAIN DpTemplates

FilledAs(t) == IF in.kind = "A64" THEN Filled64(in.i, in.pc, t)
               ELSE Filled(in.i, in.kind, in.pc, t)

\* Branches the templates get wrong: conditional Thumb-2 branches farther
\* than 4 KB, the other ones farther than 8 MB, vector loads of A64.
Misencoded(i, kind) ==
    \/ /\ kind = "THUMB2" /\ Is(i, 31, 27, \b11110) /\ bit(i, 15) = 1
       /\ IF bit(i, 14) = 0 /\ bit(i, 12) = 0 THEN OffsetT3(i) \notin -4096..4095
          ELSE OffsetT4(i) \notin -(2^23)..(2^23 - 1)
    \/ kind = "A64" /\ Is(i, 29, 24, \b011100) /\ bit(i, 26) = 1

\* Operands they get wrong: stores relative to the pc, an index register
\* that is loaded too, and sp while something is pushed.
Misused(i, t) ==
    \/ IsTransfer(i) /\ (IsStore(i) \/ ("rm" \in Reads(i) /\ Rm(i) = Rd(i)))
    \/ DpTemplates[t].temp
         /\ \/ \E r \in Reads(i) : Register(i, r) = 13
            \/ uses_rd(i) /\ Rd(i) = 13

JumpInsn == IF in.kind = "A64" THEN arm64_get_relative_jump_insn(in.kind, in.from, in.to)
            ELSE arm_get_relative_jump_insn(in.kind, in.from, in.to)

InReach == IF in.kind = "A64" THEN arm64_check_relative_jump_kind(in.kind, in.from, in.to)
           ELSE arm_check_relative_jump_kind(in.kind, in.from, in.to)

\* A trampoline that template_get_handler fills for an instruction does what
\* the instruction does at its own address: it branches to the same place
\* with the same link, and computes, loads and writes the same values in the
\* same registers.  Misencoded and Misused name the exceptions.  A jump that
\* arch_check_relative_jump_kind accepts, to the trampoline or back, lands at
\* its target, up to both ends of the range.
RunsAsOriginal ==
    /\ in.test = "insn" =>
         /\ Select \notin Special /\ ~Misencoded(in.i, in.kind)
              => FilledAs(Select) = Original(in.i, in.kind, in.pc)
         /\ in.kind = "ARM" /\ Select \in DOMAIN DpTemplates
              => Misused(in.i, Select) \/ FilledDp(in.i, Select) = OriginalDp(in.i)
    /\ in.test = "jump" /\ InReach =>
         /\ arm_check_insn(JumpInsn, in.kind) = {in.kind}
         /\ Original(JumpInsn, in.kind, in.from)
              = Jump(Always, in.to + IF in.kind \in {"THUMB", "THUMB2"} THEN 1 ELSE 0, NoLink)

------------------------------------------------------------------------------
(* Memory                                                                   *)

Mapped == [a \in in.from..in.to |-> a]

Written ==
    CASE in.test = "write" -> mem_write(Mapped, in.word, in.address, in.data)
      [] in.test = "patch" ->
           IF in.word = 4 THEN patch_insn(Mapped, in.address, in.kind, in.i)
           ELSE patch_insn_arm64(Mapped, in.address, in.kind, in.i)

WriteSize == CASE in.test = "write" -> Len(in.data)
               [] in.test = "patch" -> IF in.kind = "THUMB" THEN 2 ELSE 4

WordsMapped ==
    \A a \in Span(in.address, WriteSize) : Span(4 * (a \div 4), in.word) \subseteq DOMAIN Mapped

\* mem_write and patch_insn change the bytes they report as written and no
\* others, although whole words are read and written back; they write
\* everything when the words are mapped, and an instruction reads back as
\* itself, with its kind.
WritesExactly ==
    in.test \in {"write", "patch"} =>
        /\ Written.verified
        /\ WordsMapped => Written.written = WriteSize
        /\ \A a \in DOMAIN Mapped :
              a \notin Span(in.address, Written.written) => Written.mem[a] = Mapped[a]
        /\ in.test = "patch" /\ Written.written = WriteSize =>
             LET kind == IF in.kind \in {"ARM", "A64"} THEN in.kind ELSE "THUMB"
                 read == IF in.word = 4
                         THEN patch_read_insn_detect_kind(Written.mem, in.address, kind)
                         ELSE patch_read_insn_detect_kind_arm64(Written.mem, in.address, kind)
             IN  /\ patch_check_insn(in.kind, in.i)
                 /\ read = [ok |-> TRUE, kind |-> in.kind, i |-> in.i]

------------------------------------------------------------------------------
(* Payloads and trees                                                       *)

\* The sizes of an element wrap around, or the index of the last of its data.
Wraps(wide, buf, at) ==
    LET sizes == P!payload_element_name_size(buf, at) + P!payload_element_data_size(buf, at)
    IN  \/ sizes + (IF wide THEN 0 ELSE P!Header) >= SizeLimit
        \/ /\ wide /\ P!payload_element_get_type(buf, at) = P!STR
           /\ P!payload_element_data_size(buf, at) = 0

\* The check ends in the buffer, except at an element whose sizes wrap around:
\* there it reads outside, or with 32 bits it may go on for ever.
CheckEnds(wide, buf) ==
    LET check == P!payload_check(wide, buf)
    IN  /\ check.is \in {"outside", "endless"} => Wraps(wide, buf, check.at)
        /\ check.is = "endless" => ~wide

\* What a search finds in a payload that is accepted: an element of that name
\* inside the buffer, and its data as well; with 32 bits, data whose size wraps
\* around are not.
GoodFind(wide, buf, name, at) ==
    /\ at # P!Beyond
    /\ at >= 0 =>
         LET names == P!payload_element_name_size(buf, at)
         IN  /\ names = Len(name) + 1
             /\ P!payload_element_get_next(wide, buf, at) < Len(buf)
             /\ wide \/ ~Wraps(wide, buf, at) =>
                  at + P!Header + names + P!payload_element_data_size(buf, at) < Len(buf)

\* A received payload is checked and read safely: the check ends in the
\* buffer, no search for a field in an accepted payload leaves it, and a field
\* that is found lies inside, with its name and its data.  payload_check does
\* not see a sum of sizes that wraps around: CheckEnds and GoodFind tell what
\* happens then.  A payload the server builds is accepted, fits in its buffer
\* and gives back the first value of each name with the right type only.
PayloadSound ==
    /\ in.test = "cells" => \A wide \in BOOLEAN :
         /\ CheckEnds(wide, in.buf)
         /\ P!payload_check(wide, in.buf).is = "correct" =>
              \A name \in {<<>>, <<1>>, <<2>>, <<1, 1>>} :
                  GoodFind(wide, in.buf, name, P!payload_find(wide, in.buf, name))
    /\ in.test = "build" => \A wide \in BOOLEAN :
         /\ P!payload_check(wide, in.pb.buf).is = "correct"
         /\ Len(in.pb.buf) <= in.pb.allocated
         /\ \A type \in {P!U32, P!U64, P!STR} :
              P!payload_get(wide, in.pb.buf, in.a.name, type)
                = IF type # in.a.type THEN <<>>
                  ELSE in.a.val \o (IF type = P!STR THEN <<0>> ELSE <<>>)

\* Whatever the order of insertion, tree_get_node_le finds the greatest key
\* not above the given one (segment_get and the injections rely on it), and
\* TREE_ITER visits all the keys in order.
TreeOrdered ==
    in.test = "tree" =>
        LET keys == T!Keys(in.tree)
            Le(key) == {k \in keys : k <= key /\ \A j \in keys : j <= key => j <= k}
        IN  /\ \A key \in 0..(MaxKey + 1) :
                  /\ T!tree_get_node_le(in.tree, key)
                       = IF Le(key) = {} THEN T!NoNode ELSE CHOOSE k \in Le(key) : TRUE
                  /\ T!tree_get_node(in.tree, key) = IF key \in keys THEN key ELSE T!NoNode
                  /\ T!segment_get(in.tree, [k \in keys |-> k + 1], key)
                       = IF key \in keys THEN key ELSE T!NoNode
            /\ T!tree_size(in.tree) = Cardinality(keys)
            /\ \A m, n \in 1..T!tree_size(in.tree) :
                  m < n => T!tree_iter(in.tree)[m] < T!tree_iter(in.tree)[n]

------------------------------------------------------------------------------
(* Executables and injectables                                              *)

PageUp(n) == 4 * ((n + 3) \div 4)
PageDown(n) == 4 * (n \div 4)

ElfFile ==
    LET Section(name, addr, off, size) ==
            [name |-> name, dynamic |-> name = ".dynamic", addr |-> addr, off |-> off, size |-> size]
        high == in.base + in.shift
        dyn == in.ds + in.k
    IN  [readable |-> TRUE, elf |-> TRUE, e_entry |-> in.base + 2, e_shnum |-> 5,
         tags |-> [n \in 1..4 |-> IF n = 4 THEN E!DT_NULL
                                  ELSE IF n = in.idx + 1 THEN E!DT_DEBUG ELSE 1],
         sections |-> <<Section("", 0, 0, 0),
                        Section(".text", in.base + 2, 2, in.te - 2),
                        Section(".tbss", high + dyn, dyn, IF in.tls THEN 4 ELSE 0),
                        Section(".dynamic", high + dyn, dyn, 8),
                        Section(".comment", 0, dyn + 8, 8)>>]

ElfSegments ==
    LET load == in.base + in.bias
        data == load + in.shift
    IN  <<[start |-> load, end |-> load + PageUp(in.te), offset |-> 0, file |-> "exe",
           exec |-> TRUE],
          [start |-> data + PageDown(in.ds), end |-> data + PageUp(in.ds + in.k + 8),
           offset |-> PageDown(in.ds), file |-> "exe", exec |-> FALSE]>>

\* Memory of the process.  The value of DT_DEBUG is null in the file, and so
\* in a copy of its page that belongs to the text.
DebugOffset == in.ds + in.k + 2 * in.idx + 1
ElfMemory(set) ==
    [a \in UNION {s.start..(s.end - 1) : s \in {ElfSegments[1], ElfSegments[2]}} |->
        LET s == IF E!segment_contains(ElfSegments[1], a) THEN ElfSegments[1] ELSE ElfSegments[2]
        IN  IF E!segment_addr2fo(s, a) # DebugOffset THEN 7
            ELSE IF s = ElfSegments[2] /\ set THEN 100 ELSE 0]

\* The process with its linker: r_brk is an odd address in Thumb code.
LinkerSegments(file, exec) ==
    Append(ElfSegments, [start |-> 200, end |-> 204, offset |-> 0, file |-> file, exec |-> exec])
LinkerText == [a \in 200..203 |-> IF a = 200 THEN "insn" ELSE "other"]

\* What the server `wide' or not finds in a process of 32 or 64 bits, whose
\* struct r_debug has some words behind it.
LinkerAddress(wide, mode32, behind) ==
    E!elf_get_remote_linker_breakpoint_address(
        ElfMemory(in.set = "now"), ElfMemory(in.set \in {"now", "later"}), ElfSegments, ElfFile,
        "exe", (100 :> E!RDebug(mode32, 55, 200) \o behind), wide)

\* elf_get_remote_linker_breakpoint_address finds r_brk when the executable
\* has DT_DEBUG and the linker has set it, at once or at the entry point:
\* through the section headers, the file offset and the segments, also when
\* the page of .dynamic is mapped twice or the executable is relocated.  A
\* 32-bit process of the arm64 server is the exception: its r_ldbase and the
\* word behind it are taken for r_brk.  linker_attach puts a breakpoint there
\* or changes nothing; linker_detach gives the code back if it can be written,
\* in the process and in a child that it forked, and forgets the breakpoint in
\* any case.
LinkerFound ==
    in.test = "elf" =>
        /\ LET set == in.idx < 3 /\ in.set # "never"
           IN  /\ \A wide \in BOOLEAN, behind \in {<<>>, <<7>>} :
                     LinkerAddress(wide, ~wide, behind) = IF set THEN 55 ELSE E!NotFound
               /\ \A n \in {0, 4, 5}, next \in {0, 7} :
                     LinkerAddress(TRUE, TRUE, [m \in 1..n |-> next])
                       = IF set /\ n = 5 THEN 200 + E!UpperHalf * next ELSE E!NotFound
        /\ \A offset \in 0..(in.te - 1) :
              LET a == E!segment_translate_file_to_mem(ElfSegments, "exe", offset)
              IN  E!segment_translate_mem_to_file(ElfSegments, a) = {<<"exe", offset>>}
        /\ E!segment_get_by_file_executable(ElfSegments, "exe") = 1
        /\ \A file \in {"linker", "none"}, exec, written \in BOOLEAN,
             io \in SUBSET {"read", "write"} :
              LET r == E!linker_attach(LinkerText, LinkerSegments(file, exec), 201, TRUE, io)
                  own == E!linker_detach(r.text, r.linker, written)
                  child == E!linker_detach(r.text, E!linker_fork(r.linker), written)
                  again == E!linker_reset(LinkerText, LinkerSegments(file, exec), 201, TRUE, io)
              IN  /\ r.linker.bkpt = 0 => r.text = LinkerText
                  /\ r.linker.bkpt # 0 => r.linker.kind = "THUMB" /\ r.text[200] = "breakpoint"
                  /\ r.linker.bkpt # 0 <=> file = "linker" /\ exec /\ io = {"read", "write"}
                  /\ own.text = LinkerText <=> written \/ r.linker.bkpt = 0
                  /\ child = own /\ own.linker.bkpt = 0
                  /\ again = r

\* The two stubs of an injection, one behind the other, and its process
Stub == IF in.arch = "arm64" THEN 4 ELSE 2
Importing ==
    LET At(n) == IF in.backwards THEN (2 - n) * Stub ELSE (n - 1) * Stub
    IN  [address |-> 100, exports |-> J!NoList, code_size |-> 2 * Stub,
         imports |-> [n \in 1..2 |-> Symbol(in.names[n], At(n))]]
Linked ==
    LET Exporting(a, list) == [address |-> a, exports |-> list, imports |-> J!NoList, code_size |-> 4]
        process == <<Exporting(20, in.first), Importing, Exporting(60, in.second)>>
        end == 100 + 2 * Stub - (IF in.mapped THEN 0 ELSE 1)
    IN  [process |-> process, mem |-> [a \in 100..end |-> 7],
         after |-> J!injection_dlink([a \in 100..end |-> 7], process, Importing,
                                     in.arch # "arm64", IF in.arch = "arm" THEN 1 ELSE 2)]
\* Where the address of import n belongs
Place(n) == 100 + Importing.imports[n].offset + (IF in.arch = "arm64" THEN 2 ELSE 1)

\* The stubs, what they are to hold, and everything around them
LinkLeads ==
    LET Addresses(name) ==
            {20 + in.first[n].offset : n \in {m \in 1..Len(in.first) : in.first[m].name = name}}
            \cup {60 + in.second[n].offset :
                   n \in {m \in 1..Len(in.second) : in.second[m].name = name}}
        after == Linked.after
        places == {Place(n) : n \in 1..2}
        uppers == IF in.arch = "arm" THEN {} ELSE {p + 1 : p \in places}
    IN  /\ after.success <=> /\ \A n \in 1..2 : Addresses(in.names[n]) # {}
                             /\ places \cup uppers \subseteq DOMAIN Linked.mem
        /\ after.success => \A n \in 1..2 : after.mem[Place(n)] \in Addresses(in.names[n])
        /\ \A a \in DOMAIN Linked.mem \ (places \cup uppers) : after.mem[a] = 7
        /\ \A a \in 20..23 : J!injection_get_by_address(Linked.process, a) = 1

\* The symbols of injectables lead to the right places.  An address is
\* described by the nearest entry at or below it: str_injection_offset by a
\* symbol or handler of the first list that has it, injfile_addr2line by a
\* line.  injection_dlink succeeds exactly if everything is exported and can
\* be written; each stub then gets the address of a symbol of that name, and
\* nothing else changes.  32-bit processes of a 64-bit server are the
\* exception: the upper half of an address lands on what follows the stub.
SymbolsLead ==
    /\ in.test = "symbol" => Described(in.file, in.offset)
    /\ in.test = "line" => LineLeads(in.addrs, in.offset)
    /\ in.test = "link" => LinkLeads

------------------------------------------------------------------------------
(* Trampolines and calls                                                    *)

GapProcess ==
    LET own == in.start
        end == own + in.len
        seg(e, prot) == [end |-> e, prot |-> prot, shared |-> FALSE, file |-> prot = {"r"}]
        lo == own - in.below - in.other
        hi == end + in.above
    IN  (own :> seg(end, {"r", "x"}))
          @@ (IF lo > 0 THEN (lo :> seg(lo + in.other, in.prot)) ELSE <<>>)
          @@ (IF hi + in.other < G!AddressPages THEN (hi :> seg(hi + in.other, {"r"})) ELSE <<>>)

Trampoline == G!allocate_trampoline(GapProcess, in.reach, in.start, {in.low, in.hi}, in.edge, in.size)

\* allocate_trampoline maps the trampolines (MAP_FIXED) where no segment of
\* the process is, or over one without any access, and where a jump reaches.
TrampolineFits ==
    in.test = "gap" /\ Trampoline # G!Nothing =>
        LET pages == Trampoline.start..(Trampoline.start + in.size - 1)
            over == UNION {G!SegmentAt(GapProcess, p) : p \in pages}
        IN  /\ \A s \in over : Trampoline.seg /\ GapProcess[s].prot = {}
            /\ \A t \in {in.low, in.hi} : G!reachable(in.reach, t, Trampoline.start)

Registers0 == [pc |-> 3, r |-> "own"]
Machine == [dead |-> FALSE, slave |-> FALSE, signo |-> in.signo, regs |-> Registers0,
            text |-> "program", fate |-> in.fate, statuses |-> in.statuses, delivered |-> <<>>]
Context == [registers |-> <<1, 2>>, stack |-> IF in.pushable THEN <<>> ELSE <<3>>,
            pushable |-> in.pushable, mode32 |-> FALSE]
Code == <<[exec |-> FALSE, size |-> 9, injection |-> FALSE],
          [exec |-> TRUE, size |-> 9, injection |-> FALSE]>>

\* What the function returns: an address or the error -12.
Returns == IF in.pushable THEN 4096 ELSE -12

\* The size of a page, and the number of bytes that are allocated or freed
PageSize == 4096
Wanted == 5000

CallOutcome ==
    CASE in.op = "call" -> C!fncall_call(Machine, 1, Context)
      [] in.op = "call64" -> C!fncall_call_arm64(Machine, 1, Context, ~in.pushable)
      [] in.op = "mmap" -> C!fncall_mmap(Machine, 1, 0, PageSize, Wanted, Returns)
      [] in.op = "mmap64" -> C!fncall_mmap_arm64(Machine, 1, 0, PageSize, Wanted, Returns)
      [] in.op = "allocate" -> C!fncall_allocate(Machine, 1, PageSize, Wanted, Returns)
      [] in.op = "allocate64" -> C!fncall_allocate_arm64(Machine, 1, PageSize, Wanted, Returns)
      [] in.op = "free" -> C!fncall_free(Machine, 1, 0, Wanted, Returns)
      [] in.op = "free64" -> C!fncall_free_arm64(Machine, 1, 0, Wanted, Returns)
      [] in.op = "adbi" -> C!fncall_call_adbi(Machine, 1, <<1, 2, 3, 4>>)
      [] in.op = "mprotect" -> C!fncall_call_mprotect(Machine, 1, <<1, 2, 3, 0>>, Returns)
      [] in.op = "mprotect64" -> C!fncall_call_mprotect_arm64(Machine, 1, <<1, 2, 3, 0>>, Returns)
      [] in.op = "load" -> C!fncall_alloc_load_call(Machine, Code, 4, "function", Context)
      [] in.op = "load64" -> C!fncall_alloc_load_call_arm64(Machine, Code, 4, "function", Context)
      [] in.op = "restop" -> C!fncall_restop(Machine, in.pushable)
      [] in.op = "runtil" -> C!fncall_runtil(Machine, 5)
      [] in.op = "runtil64" -> C!fncall_runtil_arm64(Machine, 5)
      [] in.op = "runtil_seg" -> C!fncall_runtil_seg(Machine, {5}, Returns)
      [] in.op = "runtil_seg64" -> C!fncall_runtil_seg_arm64(Machine, {5}, Returns)

\* The function returned: nothing but SIGSTOP came before.
Returned ==
    \E n \in 1..Len(in.statuses) :
        /\ in.statuses[n].signo = "SIGSEGV" /\ in.statuses[n].regs.pc = 0
        /\ \A k \in 1..(n - 1) : in.statuses[k].signo = "SIGSTOP"

\* Whatever happens during a call in a thread that survives it: the thread
\* has its registers back and is nobody's slave, success is reported only if
\* the function returned, and without an error, and the code that was
\* borrowed is restored by a call that succeeds and by every run up to an
\* address.
CallRestores ==
    in.test = "call" =>
        \A r \in {CallOutcome} :
            ~r.m.dead =>
              /\ ~r.m.slave
              /\ in.op \in Calling \cup {"restop"} => r.m.regs = Registers0
              /\ in.op \in Calling /\ r.ret =>
                    Returned /\ (in.op \in Memops => Returns = 4096)
              /\ in.op \in {"restop", "runtil", "runtil64"} \/ r.ret => r.m.text = "program"
              /\ in.op \in {"runtil", "runtil64"} => r.ret /\ r.m.regs.pc = 5

------------------------------------------------------------------------------
(* Packets                                                                  *)

Handled == R!handle_packet(in.server, in.request)

Value(name, n) == R!Get(Handled.answer.payload, <<name, n>>)
Plain(name) == Value(name, -1)

\* The field `count' tells how many fields `name' there are, and they are
\* the given values, in order.
Listed(count, name, values) ==
    /\ Plain(count) = Len(values)
    /\ \A n \in 0..10 : Value(name, n) = IF n < Len(values) THEN values[n + 1] ELSE -1

Firsts(records, field) == [n \in 1..Len(records) |-> records[n][field]]

\* What an answer OKAY must contain
Content(sv, type) ==
    LET Asked(name) == in.request.fields[<<name, -1>>]
        inj == sv.inj[CHOOSE n \in 1..Len(sv.inj) : sv.inj[n].id = Asked("iid")]
        process == sv.procs[Asked("pid")]
        words == Max({0, Min({Asked("size"), process.bytes - Asked("address")}) \div 4})
    IN  CASE type = "PROC" -> Listed("procc", "procv", InOrder(DOMAIN sv.procs))
          [] type = "INJQ" -> Listed("injc", "injid", Firsts(sv.inj, "id"))
          [] type = "INJT" -> Listed("tptc", "tpth", Firsts(inj.tpoints, "handler"))
          [] type = "INJE" -> Listed("symc", "symad", Firsts(inj.exports, "offset"))
          [] type = "INJI" -> Listed("symc", "symad", Firsts(inj.imports, "offset"))
          [] type = "INJA" -> Listed("symc", "symad", Firsts(inj.adbi, "offset"))
          [] type = "LDIR" -> Listed("entc", "entv", Firsts(sv.dirs[Asked("path")], "name"))
          [] type = "ADDR" -> Plain("info") = <<Asked("pid"), Asked("address")>>
          [] type = "MEMD" ->
               Listed("size", "word", [n \in 1..words |-> Asked("address") + 4 * (n - 1)])
          [] type = "MAPS" ->
               /\ \A n \in 0..(Plain("segc") - 1) : Value("seglo", n) # -1
               /\ {Value("seglo", n) : n \in 0..(Plain("segc") - 1)}
                    = {process.injections[n] : n \in 1..Len(process.injections)}
                      \cup (UNION {{process.segments[n].start, process.segments[n].trampolines} :
                                     n \in 1..Len(process.segments)} \ {0})
          [] OTHER -> TRUE

\* Whatever was asked before, although all answers are built in one buffer:
\* an answer has the number of its request, every field just once and what
\* the request asked for as it is now; a request that is refused changes
\* nothing, and none keeps a reference to a process.
AnswersFresh ==
    in.test = "packet" /\ ~Handled.sv.failed =>
        LET answer == Handled.answer
            payload == answer.payload
            Rest(sv) == [sv EXCEPT !.payload_buffer = <<>>]
        IN  /\ answer.seq = in.request.seq
            /\ \A m, n \in 1..Len(payload) : payload[m].name = payload[n].name => m = n
            /\ answer.type # "OKAY" => Len(payload) = 2 /\ Rest(Handled.sv) = Rest(in.server)
            /\ answer.type = "OKAY" => Content(Handled.sv, in.request.type)
            /\ \A p \in DOMAIN Handled.sv.procs : Handled.sv.procs[p].references = 1

\* A request for the memory of a traced process is answered: mem_read is
\* given a thread, as its assertion says.
MemoryDumped == in.test = "packet" => ~Handled.sv.failed

------------------------------------------------------------------------------
(* Numbers of an injectable                                                 *)

\* adbi_printf prints what it is given: the digits of every conversion, with
\* any modifiers, are those of the value, up to the last few values of a long
\* long; every conversion takes one argument and no other character is lost.
\* div and divl round towards zero where a product of twice the dividend does
\* not overflow, and, for divl, the divisor is an int greater than 1.
PrintsRight ==
    /\ in.test = "number" =>
         /\ \A low \in 0..255 :
               LET v == 256 * in.v + low
               IN  Top(8, v) \/ StandsFor(N!adbi_write_dec_unlocked(8, v), 10, v)
         /\ \A m \in Modifiers :
               LET longs == Cardinality({n \in 1..Len(m) : m[n] = "l"})
                   width == IF longs - (Len(m) - longs) >= 2 THEN 8 ELSE 4
                   v == in.v % 2^width
                   signed == IF v >= 2^(width - 1) THEN v - 2^width ELSE v
               IN  /\ StandsFor(N!Convert(4, m, "x", in.v), 16, v)
                   /\ StandsFor(N!Convert(4, m, "o", in.v), 8, v)
                   /\ Top(4, v) \/ StandsFor(N!Convert(4, m, "u", in.v), 10, v)
                   /\ StandsFor(N!Convert(4, m, "d", in.v), 10, signed)
         /\ \A d \in 1..7, again \in BOOLEAN :
               /\ in.v < 8 => N!div(4, in.v, d) = in.v \div d
               /\ in.v < 128 /\ d > 1 =>
                    /\ N!divl(4, in.v, d, again) = in.v \div d
                    /\ N!divsl(4, -in.v, d, again) = -(in.v \div d)
                    /\ N!divsl(4, -in.v, -d, again) = in.v \div d
    /\ in.test = "format" /\ Simple(in.fmt) =>
         LET pieces == N!adbi_printf(in.fmt)
         IN  /\ Conversions(pieces) = Cardinality({n \in 1..Len(in.fmt) : in.fmt[n] = "%"})
             /\ Characters(pieces) = Cardinality({n \in 1..Len(in.fmt) : ~Inside(in.fmt, n)})

==============================================================================
