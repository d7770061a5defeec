-------------------------------- MODULE Words --------------------------------
(***************************************************************************)
(* Machine words and the bit operations of util/bitops.h, arch/*/match.h   *)
(* and arch/*/include/arch.h.                                              *)
(*                                                                         *)
(* An instruction is a pair of halfwords <<high, low>>, the architectural  *)
(* first halfword of a 32-bit Thumb instruction being `high'; a 16-bit     *)
(* Thumb instruction has high = 0.  A mask is a set of bit numbers.  A     *)
(* pattern of match.h is a conjunction of values of bit fields.  Addresses *)
(* and offsets are integers; the inputs keep clear of the ends of the      *)
(* address space, so they do not wrap.                                     *)
(***************************************************************************)
EXTENDS Integers, FiniteSets, FiniteSetsExt

\* The halfword that holds bit n, and the place of the bit in it.  (external)
Half(i, n) == IF n >= 16 THEN i[1] ELSE i[2]

\* bits: the field low..high of an instruction; the fields lie in a halfword.
bits(i, low, high) == (Half(i, low) \div 2^(low % 16)) % 2^(high - low + 1)

bit(i, n) == bits(i, n, n)

\* match: the field high..low of the pattern has this value.
Is(i, high, low, value) == bits(i, low, high) = value

\* sign_extend: `msb' is the width of the field.
sign_extend(v, msb) ==
    LET m == v % 2^msb IN IF m >= 2^(msb - 1) THEN m - 2^msb ELSE m

\* bits_count of a mask
bits_count(mask) == Cardinality(mask)

\* bit_mask
bit_mask(low, high) == low..high

\* The bits of a mask, counted from its lowest one.  (external)
Rank(mask, n) == Cardinality({m \in mask : m < n})

\* get_bits_by_mask: the bits in the mask, pressed together.
get_bits_by_mask(i, mask) ==
    MapThenSumSet(LAMBDA n : bit(i, n) * 2^Rank(mask, n), mask)

\* A set of bits as an instruction.  (external)
Word(ns) ==
    <<MapThenSumSet(LAMBDA n : 2^(n - 16), {n \in ns : n >= 16}),
      MapThenSumSet(LAMBDA n : 2^n, {n \in ns : n < 16})>>

\* The bits that are set in an instruction.
Ones(i) == {n \in 0..31 : bit(i, n) = 1}

\* set_bits_by_mask: the inverse, a value spread over the mask.
set_bits_by_mask(val, mask) ==
    Word({n \in mask : (val \div 2^Rank(mask, n)) % 2 = 1})

\* (dst & ~mask) | (src & mask)
Merge(dst, src, mask) == Word((Ones(dst) \ mask) \cup (Ones(src) \cap mask))

------------------------------------------------------------------------------
(* Instructions in memory (arch.h)                                          *)

\* is_thumb2_halfword, is_t32_32_halfword
is_thumb2_halfword(half) == half >= \hE800

\* thumb2_swap_halfwords, t32_swap_halfwords
thumb2_swap_halfwords(i) == <<i[2], i[1]>>

\* get_breakpoint_insn of the arm build
get_breakpoint_insn(kind) ==
    CASE kind = "ARM" -> <<\hE120, \h0070>>
      [] kind = "THUMB" -> <<0, \hDE00>>
      [] kind = "THUMB2" -> <<\hF7F0, \hA000>>

\* get_breakpoint_insn of the arm64 build
get_breakpoint_insn_arm64(kind) ==
    IF kind = "A64" THEN <<\hD420, 0>> ELSE get_breakpoint_insn(kind)

\* arm_address_to_pc
arm_address_to_pc(kind, addr) == addr + IF kind = "ARM" THEN 8 ELSE 4

\* arm64_address_to_pc
arm64_address_to_pc(kind, addr) ==
    IF kind = "A64" THEN addr ELSE arm_address_to_pc(kind, addr)

\* BRANCH_*_JUMP_MIN and _MAX, and the distance refused at once.
JumpRange(kind) ==
    CASE kind = "ARM" -> -33554432..33554428
      [] kind = "THUMB" -> -2048..2046
      [] kind = "THUMB2" -> -16777216..16777214
      [] kind = "A64" -> -134217728..134217724

\* arm_check_relative_jump_kind
arm_check_relative_jump_kind(kind, addr, dest) ==
    dest - arm_address_to_pc(kind, addr) \in JumpRange(kind)

\* arm64_check_relative_jump_kind
arm64_check_relative_jump_kind(kind, addr, dest) ==
    dest - arm64_address_to_pc(kind, addr) \in JumpRange(kind)

\* Mutant: I1 and I2 are stored without the exclusive or with the sign.
thumb2_branch_noxor(jump) ==
    LET f(l, n) == (jump \div 2^l) % 2^n
    IN  <<\hF000 + f(24, 1) * 2^10 + f(12, 10),
          \h9000 + f(23, 1) * 2^13 + f(22, 1) * 2^11 + f(1, 11)>>

\* thumb2_branch: encoding T4.
thumb2_branch(jump) ==
    LET f(l, n) == (jump \div 2^l) % 2^n
        J(I) == IF I = f(24, 1) THEN 1 ELSE 0
    IN  <<\hF000 + f(24, 1) * 2^10 + f(12, 10),
          \h9000 + J(f(23, 1)) * 2^13 + J(f(22, 1)) * 2^11 + f(1, 11)>>

\* arm_get_relative_jump_insn
arm_get_relative_jump_insn(kind, addr, dest) ==
    LET jump == dest - arm_address_to_pc(kind, addr)
        f(l, n) == (jump \div 2^l) % 2^n
    IN  CASE kind = "ARM" -> <<\hEA00 + f(18, 8), f(2, 16)>>
          [] kind = "THUMB" -> <<0, \hE000 + f(1, 11)>>
          [] kind = "THUMB2" -> thumb2_branch(jump)

\* arm64_get_relative_jump_insn of an A64 branch.  The Thumb cases are not
\* reached: the arm64 build places no tracepoints in 32-bit processes.
arm64_get_relative_jump_insn(kind, addr, dest) ==
    LET jump == dest - arm64_address_to_pc(kind, addr)
        f(l, n) == (jump \div 2^l) % 2^n
    IN  <<\h1400 + f(18, 10), f(2, 16)>>

\* arm_check_insn, arm64_check_insn: the kind that fits, or none.
arm_check_insn(i, kind) ==
    CASE kind \in {"ARM", "A64"} -> {kind}
      [] kind \notin {"ARM", "A64"} /\ i[1] = 0 /\ i[2] < \hE800 -> {"THUMB"}
      [] kind \notin {"ARM", "A64"} /\ is_thumb2_halfword(i[1]) -> {"THUMB2"}
      [] OTHER -> {}

\* arm_check_align, arm64_check_align
arm_check_align(addr, kind) ==
    addr % (IF kind \in {"ARM", "A64"} THEN 4 ELSE 2) = 0
==============================================================================
