--------------------------------- MODULE Elf ---------------------------------
(***************************************************************************)
(* Addresses of files and of processes: the ELF file of an executable      *)
(* (procutil/elf.c), the segments that map it (process/segment.c), and how *)
(* the server finds the linker's breakpoint with them.                     *)
(*                                                                         *)
(* The unit of sizes is one word of the file's class: an entry of .dynamic *)
(* takes two, its value is the second one.  The segments of a process are  *)
(* a sequence in the order of their addresses, as TREE_ITER visits them.   *)
(* File offset 0 holds the header, address 0 is the null pointer.          *)
(***************************************************************************)
EXTENDS Integers, Sequences

DT_NULL == 0
DT_DEBUG == 21
NotFound == 0

First(S) == CHOOSE n \in S : \A m \in S : n <= m

------------------------------------------------------------------------------
(* The file: `sections' are the headers that can be read, e_shnum is their  *)
(* number according to the header.                                          *)

\* elf32_ and elf64_get_section_header
get_section_header(file, index) == index < Len(file.sections)

\* elf32_ and elf64_get_section_header_by_name: its index, or -1
get_section_header_by_name(file, name) ==
    LET named == {n \in 1..Len(file.sections) : file.sections[n].name = name}
    IN  IF named = {} \/ First(named) > file.e_shnum THEN -1 ELSE First(named)

\* elf32_ and elf64_get_dynamic_section
get_dynamic_section(file) ==
    LET n == get_section_header_by_name(file, ".dynamic")
    IN  IF n # -1 /\ file.sections[n].dynamic THEN n ELSE -1

\* elf32_ and elf64_get_dynamic_entry: the index of the first entry with the
\* tag, up to the terminator or the end of the file.
get_dynamic_entry(file, tag) ==
    LET found == {n \in 1..Len(file.tags) :
                    file.tags[n] = tag /\ \A m \in 1..(n - 1) : file.tags[m] # DT_NULL}
    IN  IF found = {} THEN -1 ELSE First(found) - 1

\* elf32_addr2fo, elf64_addr2fo: the first section with the address.
addr2fo(file, addr) ==
    LET has == {n \in 1..file.e_shnum :
                  \/ ~get_section_header(file, n - 1)
                  \/ /\ addr >= file.sections[n].addr
                     /\ addr < file.sections[n].addr + file.sections[n].size}
    IN  IF has = {} \/ ~get_section_header(file, First(has) - 1) THEN NotFound
        ELSE file.sections[First(has)].off + addr - file.sections[First(has)].addr

\* elf32_ and elf64_get_r_debug_address: the offset of DT_DEBUG's value.
elf_get_r_debug_address(file) ==
    LET dynamic == get_dynamic_section(file)
        idx == get_dynamic_entry(file, DT_DEBUG)
    IN  IF ~file.elf \/ dynamic = -1 \/ idx = -1 THEN NotFound
        ELSE addr2fo(file, file.sections[dynamic].addr + 2 * idx + 1)

\* Offset of the entry point, set by the same functions
EntryOffset(file) == addr2fo(file, file.e_entry)

\* get_r_debug_address: nothing is found when the executable cannot be
\* opened.
get_r_debug_address(file) ==
    IF file.readable THEN elf_get_r_debug_address(file) ELSE NotFound

------------------------------------------------------------------------------
(* Segments (segment.c)                                                     *)

segment_contains(s, address) == s.start <= address /\ address < s.end

\* segment_get, by its contract (see Trees)
segment_at(segments, address) == {n \in 1..Len(segments) : segment_contains(segments[n], address)}

segment_check_address_is_code(segments, address) ==
    \E n \in segment_at(segments, address) : segments[n].exec

segment_addr2fo(s, address) == address - s.start + s.offset

\* segment_translate_mem_to_file: the file and the offset, if any
segment_translate_mem_to_file(segments, address) ==
    {<<segments[n].file, segment_addr2fo(segments[n], address)>> :
        n \in {m \in segment_at(segments, address) : segments[m].file # "none"}}

\* segment_get_by_file_executable
segment_get_by_file_executable(segments, name) ==
    LET S == {n \in 1..Len(segments) : segments[n].exec /\ segments[n].file = name}
    IN  IF S = {} THEN -1 ELSE First(S)

\* segment_get_by_file
segment_get_by_file(segments, name, offset) ==
    LET S == {n \in 1..Len(segments) :
                /\ segments[n].file = name
                /\ offset >= segments[n].offset
                /\ segments[n].start + offset - segments[n].offset < segments[n].end}
    IN  IF S = {} THEN -1 ELSE First(S)

\* segment_translate_file_to_mem
segment_translate_file_to_mem(segments, name, offset) ==
    LET n == segment_get_by_file(segments, name, offset)
    IN  IF n = -1 THEN NotFound ELSE segments[n].start + offset - segments[n].offset

\* segment_iter_mapped: the addresses an offset is mapped at, in order
segment_iter_mapped(segments, name, offset) ==
    LET at[n \in 0..Len(segments)] ==
            IF n = 0 THEN <<>>
            ELSE LET s == segments[n]
                 IN  IF /\ s.file = name /\ s.offset <= offset
                        /\ offset < s.offset + s.end - s.start
                     THEN Append(at[n - 1], s.start + offset - s.offset)
                     ELSE at[n - 1]
    IN  at[Len(segments)]

------------------------------------------------------------------------------
(* The linker's breakpoint.  mem is the memory of the process.              *)

\* Mutant: the first mapping is taken whatever its value is.
elf_get_rdebug_ptr_first(mem, segments, name, offset) ==
    LET at == segment_iter_mapped(segments, name, offset)
    IN  IF at = <<>> THEN NotFound ELSE mem[at[1]]

\* elf_get_rdebug_ptr: the first value that is not null.
elf_get_rdebug_ptr(mem, segments, name, offset) ==
    LET at == segment_iter_mapped(segments, name, offset)
        ptrs == {n \in 1..Len(at) : at[n] \in DOMAIN mem /\ mem[at[n]] # 0}
    IN  IF ptrs = {} THEN NotFound ELSE mem[at[First(ptrs)]]

\* struct r_debug (link.h) of processes of 32 and of 64 bits, in words of 32
\* bits: r_version, r_map, r_brk, r_state and r_ldbase.
RDebug(mode32, brk, ldbase) ==
    IF mode32 THEN <<1, 2, brk, 0, ldbase>> ELSE <<1, 0, 2, 0, brk, 0, 0, 0, ldbase, 0>>

\* The struct r_debug of the server's own build is read whatever the process
\* is; words are those that can be read from its address on.
UpperHalf == 1000
read_r_brk(wide, words) ==
    IF Len(words) < IF wide THEN 10 ELSE 5 THEN NotFound
    ELSE IF wide THEN words[5] + UpperHalf * words[6] ELSE words[3]

\* elf_get_remote_linker_breakpoint_address.  `later' is the memory when the
\* thread has been run to its entry point, empty when that fails; r_debug maps
\* the address of a struct r_debug to the words there; `wide' is the server
\* for arm64.
elf_get_remote_linker_breakpoint_address(mem, later, segments, file, name, r_debug, wide) ==
    LET ptrptr == get_r_debug_address(file)
        entry == segment_translate_file_to_mem(segments, name, EntryOffset(file))
        now == elf_get_rdebug_ptr(mem, segments, name, ptrptr)
        then == elf_get_rdebug_ptr(later, segments, name, ptrptr)
        ptr == IF now # NotFound THEN now
               ELSE IF segment_check_address_is_code(segments, entry) THEN then
               ELSE NotFound
    IN  IF ptrptr = NotFound \/ ptr \notin DOMAIN r_debug THEN NotFound
        ELSE read_r_brk(wide, r_debug[ptr])

------------------------------------------------------------------------------
(* linker.c.  text is the code at each even address; the linker_t of a      *)
(* process is [bkpt, kind, insn], where bkpt is 0 without a breakpoint.     *)

NoLinker == [bkpt |-> 0, kind |-> "none", insn |-> "none"]

\* is_linker_filename: the two names in linker_files have no comma between
\* them and are one.
is_linker_filename(name) == name = "/system/bin/linker/system/bin/linker64"

\* arch_detect_kind_from_unaligned_address of the arm64 build; processes of
\* the arm build are all in 32-bit mode.  Whether a Thumb instruction has
\* one or two halfwords is found out when it is read.
detect_kind(mode32, address) ==
    IF ~mode32 THEN "A64" ELSE IF address % 2 = 1 THEN "THUMB" ELSE "ARM"

\* linker_attach, where `found' is the address the linker tells, `io' the
\* accesses to the code that succeed.
linker_attach(text, segments, found, mode32, io) ==
    LET bkpt == found - (found % 2)
        S == segment_at(segments, bkpt)
        s == segments[First(S)]
    IN  IF \/ found = NotFound \/ S = {}
           \/ ~(s.exec /\ s.file # "none" /\ ~is_linker_filename(s.file))
           \/ io # {"read", "write"}
        THEN [text |-> text, linker |-> NoLinker]
        ELSE [text |-> [text EXCEPT ![bkpt] = "breakpoint"],
              linker |-> [bkpt |-> bkpt, kind |-> detect_kind(mode32, found), insn |-> text[bkpt]]]

\* linker_detach: whether the instruction is `written' does not matter.
linker_detach(text, linker, written) ==
    IF linker.bkpt = 0 THEN [text |-> text, linker |-> linker]
    ELSE [text |-> IF written THEN [text EXCEPT ![linker.bkpt] = linker.insn] ELSE text,
          linker |-> [linker EXCEPT !.bkpt = 0]]

linker_fork(parent) == parent

\* linker_reset: after an exec the text is a new one.
linker_reset(text, segments, found, mode32, io) ==
    linker_attach(text, segments, found, mode32, io)
==============================================================================
