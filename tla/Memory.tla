-------------------------------- MODULE Memory --------------------------------
(***************************************************************************)
(* Memory of a traced process: mem_write and mem_read (procutil/mem.c),    *)
(* instructions in it (patch.c of both architectures) and in a template    *)
(* that is being filled (tracepoint/template.c).                           *)
(*                                                                         *)
(* A memory is a function from the mapped addresses to bytes.  `word' is   *)
(* what PTRACE_PEEKDATA and POKEDATA transfer: 4 bytes in the arm build, 8 *)
(* in the arm64 build.                                                     *)
(***************************************************************************)
EXTENDS Words, Sequences

\* mem_verify compares blocks of 32 bytes, here of two.
VerifyBlock == 2

Span(address, size) == address..(address + size - 1)

\* PTRACE_PEEKDATA, PTRACE_POKEDATA
ptrace_mem_read(mem, word, address) == Span(address, word) \subseteq DOMAIN mem

\* procfs_mem_read: the bytes before the first one that is not mapped.
procfs_mem_read(mem, address, size) ==
    LET got == CHOOSE n \in 0..size : /\ Span(address, n) \subseteq DOMAIN mem
                                      /\ n = size \/ address + n \notin DOMAIN mem
    IN  [n \in 1..got |-> mem[address + n - 1]]

mem_read(mem, address, count) == procfs_mem_read(mem, address, count)

------------------------------------------------------------------------------
(* Writing.  The result is the memory and the number of bytes written; data *)
(* is a function from offsets relative to the aligned address.              *)

\* mem_write_masked_word: `value' gives the bytes of the mask.  All of the
\* word is read and written back.
mem_write_masked_word(mem, word, address, value) ==
    IF ~ptrace_mem_read(mem, word, address) THEN [ok |-> FALSE, mem |-> mem]
    ELSE [ok |-> TRUE,
          mem |-> [a \in DOMAIN mem |->
                      IF a - address \in DOMAIN value THEN value[a - address] ELSE mem[a]]]

\* Mutant: whole words are written.
mem_write_shift_word_whole(mem, word, address, data, from, to) ==
    LET value == [o \in 0..3 |-> IF o \in DOMAIN data THEN data[o] ELSE 0]
        put == mem_write_masked_word(mem, word, address, value)
    IN  [mem |-> put.mem, written |-> IF put.ok THEN to - from ELSE 0]

mem_write_shift_word(mem, word, address, data, from, to) ==
    LET value == [o \in {o \in 0..3 : from <= o /\ o < to} |-> data[o]]
        put == mem_write_masked_word(mem, word, address, value)
    IN  [mem |-> put.mem, written |-> IF put.ok THEN to - from ELSE 0]

\* mem_write_shift, word by word up to the first failure.
mem_write_shift(mem, word, address, data, from, to) ==
    LET Shifted(k) == [o \in {d - 4 * k : d \in DOMAIN data} |-> data[o + 4 * k]]
        upto[k \in 0..(to \div 4)] ==
            LET before == IF k = 0 THEN [mem |-> mem, written |-> 0, go |-> TRUE]
                          ELSE upto[k - 1]
                now == mem_write_shift_word(before.mem, word, address + 4 * k, Shifted(k),
                           IF k = 0 THEN from ELSE 0,
                           IF to - 4 * k >= 4 THEN 4 ELSE to - 4 * k)
            IN  IF ~before.go THEN before
                ELSE [mem |-> now.mem, written |-> before.written + now.written,
                      go |-> now.written > 0 /\ to - 4 * k > 4]
    IN  upto[to \div 4]

\* mem_verify, block by block
mem_verify(mem, address, data) ==
    \A b \in {b \in 0..Len(data) : b * VerifyBlock < Len(data)} :
        LET block == SubSeq(data, b * VerifyBlock + 1, Min({Len(data), (b + 1) * VerifyBlock}))
        IN  mem_read(mem, address + b * VerifyBlock, Len(block)) = block

\* mem_write; `verified' is what it asserts.
mem_write(mem, word, address, data) ==
    LET start == address % 4
        shift == mem_write_shift(mem, word, address - start,
                     [o \in Span(start, Len(data)) |-> data[o - start + 1]],
                     start, start + Len(data))
    IN  IF data = <<>> THEN [mem |-> mem, written |-> 0, verified |-> TRUE]
        ELSE [mem |-> shift.mem, written |-> shift.written,
              verified |-> mem_verify(shift.mem, address, SubSeq(data, 1, shift.written))]

------------------------------------------------------------------------------
(* Instructions (patch.c)                                                   *)

\* The bytes of an instruction in memory, little endian
Bytes(i) == <<i[2] % 256, i[2] \div 256, i[1] % 256, i[1] \div 256>>
Unbytes(b) == <<b[3] + 256 * b[4], b[1] + 256 * b[2]>>

patch_check_insn(kind, i) ==
    CASE kind = "THUMB" -> i[1] = 0
      [] kind = "THUMB2" -> is_thumb2_halfword(i[1])
      [] kind \in {"ARM", "A64"} -> TRUE

Stored(kind, i) ==
    CASE kind = "THUMB" -> SubSeq(Bytes(i), 1, 2)
      [] kind = "THUMB2" -> Bytes(thumb2_swap_halfwords(i))
      [] kind \in {"ARM", "A64"} -> Bytes(i)

\* patch_insn of the arm build
patch_insn(mem, address, kind, i) == mem_write(mem, 4, address, Stored(kind, i))

\* patch_insn of the arm64 build
patch_insn_arm64(mem, address, kind, i) == mem_write(mem, 8, address, Stored(kind, i))

Unreadable == [ok |-> FALSE]

\* patch_read_insn
patch_read_insn(mem, address, kind) ==
    LET size == IF kind = "THUMB" THEN 2 ELSE 4
        got == mem_read(mem, address, size)
        i == IF size = 2 THEN <<0, got[1] + 256 * got[2]>> ELSE Unbytes(got)
    IN  IF Len(got) # size THEN Unreadable
        ELSE [ok |-> TRUE, kind |-> kind,
              i |-> IF kind = "THUMB2" THEN thumb2_swap_halfwords(i) ELSE i]

\* patch_read_insn_detect_kind: a Thumb instruction may have either size.
patch_read_insn_detect_kind(mem, address, kind) ==
    LET first == patch_read_insn(mem, address, "THUMB")
    IN  IF kind \in {"ARM", "A64"} THEN patch_read_insn(mem, address, kind)
        ELSE IF ~first.ok \/ ~is_thumb2_halfword(first.i[2]) THEN first
        ELSE patch_read_insn(mem, address, "THUMB2")

\* patch_read_insn_detect_kind of the arm64 build
patch_read_insn_detect_kind_arm64(mem, address, kind) ==
    patch_read_insn_detect_kind(mem, address, kind)

------------------------------------------------------------------------------
(* A template that is being filled (template.c)                             *)

\* template_insert_bits: data and mask are sets of bits, byte by byte.
template_insert_bits(code, offset, data, mask) ==
    [n \in 1..Len(code) |->
        IF n - offset \in 1..Len(data)
        THEN (code[n] \ mask[n - offset]) \cup (data[n - offset] \cap mask[n - offset])
        ELSE code[n]]

\* template_insert_bytes
template_insert_bytes(code, offset, data) ==
    [n \in 1..Len(code) |-> IF n - offset \in 1..Len(data) THEN data[n - offset] ELSE code[n]]
==============================================================================
