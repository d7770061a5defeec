-------------------------------- MODULE Select --------------------------------
(***************************************************************************)
(* Which template a trampoline is made from: template_select of the arm    *)
(* build (arch/arm/template_select*.c) and of the arm64 build              *)
(* (arch/arm64/template_select.c).  The result is the name of a template   *)
(* without its prefix, "NULL" for an instruction that cannot be traced,    *)
(* or "assert" where an assertion of the decoder fails.                    *)
(***************************************************************************)
EXTENDS Words

is_pc(r) == r = 15
is_sp(r) == r = 13
is_bad(r) == is_sp(r) \/ is_pc(r)

\* A refusal, or the template.
Unless(refused, template) == IF refused THEN "NULL" ELSE template

------------------------------------------------------------------------------
(* arch/arm/template_select_arm.c                                           *)

Rd(i) == bits(i, 12, 15)
Rn(i) == bits(i, 16, 19)
Rs(i) == bits(i, 8, 11)
Rm(i) == bits(i, 0, 3)

Immediate(i) == bit(i, 25) = 1

\* tst, teq, cmp and cmn have no destination; mov and mvn no first operand.
uses_rd(i) == bits(i, 21, 24) \notin 8..11
uses_rn(i) == bits(i, 21, 24) \notin {13, 15}

\* The out-of-line handlers of data processing: the destination is the pc;
\* the operands that are the pc; a temporary register is pushed (its name
\* ends in 2), or the destination itself holds the pc's value.
DpTemplates ==
    [arm_dp_rn       |-> [rd |-> FALSE, pc |-> {"rn"},       temp |-> FALSE],
     arm_dp_rm       |-> [rd |-> FALSE, pc |-> {"rm"},       temp |-> FALSE],
     arm_dp_rn_rm    |-> [rd |-> FALSE, pc |-> {"rn", "rm"}, temp |-> FALSE],
     arm_dp_rn2      |-> [rd |-> FALSE, pc |-> {"rn"},       temp |-> TRUE],
     arm_dp_rm2      |-> [rd |-> FALSE, pc |-> {"rm"},       temp |-> TRUE],
     arm_dp_rn_rm2   |-> [rd |-> FALSE, pc |-> {"rn", "rm"}, temp |-> TRUE],
     arm_dp_rd_rn    |-> [rd |-> TRUE,  pc |-> {"rn"},       temp |-> TRUE],
     arm_dp_rd_rm    |-> [rd |-> TRUE,  pc |-> {"rm"},       temp |-> TRUE],
     arm_dp_rd_rn_rm |-> [rd |-> TRUE,  pc |-> {"rn", "rm"}, temp |-> TRUE]]

DpTemplate(rd, pc, temp) ==
    CHOOSE t \in DOMAIN DpTemplates :
        DpTemplates[t] = [rd |-> rd, pc |-> pc, temp |-> temp]

\* A temporary register is used when there is no destination, or when the
\* destination is the other operand.
NeedsTemp(i, pc) ==
    \/ ~uses_rd(i)
    \/ /\ ~Immediate(i) /\ uses_rn(i)
       /\ \/ pc = {"rn"} /\ Rd(i) = Rm(i)
          \/ pc = {"rm"} /\ Rd(i) = Rn(i)

decode_arm_dataproc(i) ==
    LET pc == {r \in {"rn", "rm"} :
                 \/ r = "rn" /\ uses_rn(i) /\ is_pc(Rn(i))
                 \/ r = "rm" /\ ~Immediate(i) /\ is_pc(Rm(i))}
        both == ~Immediate(i) /\ uses_rn(i) /\ uses_rd(i)
    IN  IF pc = {} THEN "arm_generic"
        ELSE IF uses_rd(i) /\ is_pc(Rd(i)) THEN DpTemplate(TRUE, pc, TRUE)
        ELSE Unless(both /\ pc # {"rn", "rm"} /\ is_sp(Rd(i)),
                    DpTemplate(FALSE, pc, NeedsTemp(i, pc)))

\* Loads and stores of a word or a byte.
decode_arm_load_store(i) ==
    LET writeback == bit(i, 24) = 0 \/ bit(i, 21) = 1
        load == bit(i, 20) = 1
    IN  Unless(\/ writeback /\ is_pc(Rn(i))
               \/ bit(i, 25) = 1 /\ (is_pc(Rm(i)) \/ Rm(i) = Rn(i))
               \/ Rd(i) = Rn(i) /\ is_pc(Rn(i))
               \/ ~load /\ is_pc(Rd(i)),
               IF is_pc(Rn(i)) THEN "arm_dp_rn" ELSE "arm_generic")

decode_arm_load_store_multiple(i) ==
    LET load == bit(i, 20) = 1
    IN  Unless(\/ bits(i, 0, 15) = 0
               \/ is_pc(Rn(i))
               \/ load /\ bit(i, Rn(i)) = 1 /\ bit(i, 21) = 1
               \/ ~load /\ bit(i, 15) = 1,
               "arm_generic")

\* Halfwords, signed bytes and pairs.
decode_arm_load_store_extra(i) ==
    Unless(\/ Rd(i) = Rn(i)
           \/ is_pc(Rd(i))
           \/ bit(i, 22) = 0 /\ is_pc(Rm(i)),
           IF is_pc(Rn(i)) THEN "arm_dp_rn" ELSE "arm_generic")

decode_arm_load_store_dual(i) ==
    IF Rd(i) % 2 = 1 \/ Rd(i) = 14 THEN "NULL"
    ELSE decode_arm_load_store_extra(i)

\* decode_arm_nopc: none of these registers may be the pc.
decode_arm_nopc(i, regs) == Unless(\E r \in regs : is_pc(r), "arm_generic")

decode_arm_branch(i) ==
    Unless(is_pc(Rm(i)), IF bit(i, 5) = 1 THEN "blx_reg_a1" ELSE "arm_generic")

\* The condition `never' marks unconditional instructions.
Unconditional(i) == bits(i, 28, 31) = \b1111

template_select_arm(i) ==
    LET op == bits(i, 20, 27)
        op2 == bits(i, 4, 7)
        R == {Rn(i), Rd(i), Rs(i), Rm(i)}
    IN
    IF Unconditional(i)
      THEN IF Is(i, 27, 25, \b101) THEN "blx_imm_a2" ELSE "NULL"
    ELSE IF \/ Is(i, 27, 23, \b00110) /\ Is(i, 21, 20, 0)
            \/ Is(i, 27, 25, \b011) /\ bit(i, 4) = 1
      THEN "NULL"
    ELSE IF op \in {\b00010000, \b00010100} /\ op2 = 0
      THEN decode_arm_nopc(i, {Rd(i), Rm(i)})
    ELSE IF op \in {\b00010010, \b00010110} /\ op2 = 0
      THEN decode_arm_nopc(i, {Rm(i)})
    ELSE IF op = \b00010010 /\ op2 \in {\b0001, \b0011}
      THEN decode_arm_branch(i)
    ELSE IF op = \b00010110 /\ op2 = \b0001
      THEN decode_arm_nopc(i, {Rd(i), Rm(i)})
    ELSE IF Is(i, 27, 23, \b00010) /\ bit(i, 20) = 0 /\ op2 = \b0101
      THEN "NULL"
    ELSE IF \/ Is(i, 27, 25, \b000) /\ (bit(i, 4) = 0 \/ bit(i, 7) = 0)
            \/ Is(i, 27, 25, \b001)
      THEN decode_arm_dataproc(i)
    ELSE IF Is(i, 27, 25, \b010) \/ Is(i, 27, 25, \b011)
      THEN decode_arm_load_store(i)
    ELSE IF Is(i, 27, 25, \b100) THEN decode_arm_load_store_multiple(i)
    ELSE IF Is(i, 27, 24, \b1010) THEN "b_a1"
    ELSE IF Is(i, 27, 24, \b1011) THEN "bl_imm_a1"
    ELSE IF op2 = \b1001 /\ (Is(i, 27, 22, 0) \/ Is(i, 27, 23, \b00001))
      THEN decode_arm_nopc(i, R)
    ELSE IF op2 = \b1001 /\ (op \in {\b00010000, \b00010100}
                             \/ Is(i, 27, 23, \b00011))
      THEN decode_arm_nopc(i, {Rn(i), Rd(i), Rm(i)})
    ELSE IF Is(i, 27, 25, 0) /\ op2 = \b1011
      THEN decode_arm_load_store_extra(i)
    ELSE IF Is(i, 27, 25, 0) /\ op2 \in {\b1101, \b1111}
      THEN IF bit(i, 20) = 1 THEN decode_arm_load_store_extra(i)
           ELSE decode_arm_load_store_dual(i)
    ELSE IF Is(i, 27, 24, \b1111) THEN "arm_generic"
    ELSE "NULL"

------------------------------------------------------------------------------
(* arch/arm/template_select_thumb.c                                         *)

\* Only the lower four registers of the list are looked at.
decode_thumb_ldm_stm(i) ==
    LET list == i[2] % 16 rn == bits(i, 8, 10)
    IN  Unless(list = 0 \/ (rn < 4 /\ bit(i, rn) = 1), "thumb_generic")

\* Operations on high registers, bx and blx.  `bit(opcode, 7)' looks at the
\* two-bit opcode and is always 0.
decode_thumb_dp_hr_branch(i) ==
    LET opcode == bits(i, 8, 9)
        rm == bits(i, 3, 6)
        rn == bits(i, 0, 2) + 8 * bit(i, 7)
    IN  Unless(\/ opcode = 0 /\ (is_pc(rn) \/ is_pc(rm))
               \/ opcode = 1 /\ (is_pc(rn) \/ is_pc(rm) \/ (rn < 8 /\ rm < 8))
               \/ opcode = 2 /\ is_pc(rm)
               \/ opcode = 3 /\ bits(i, 0, 2) # 0,
               IF bit(<<0, opcode>>, 7) = 1 THEN "blx_reg_t1"
               ELSE "thumb_generic")

template_select_thumb(i) ==
    IF Is(i, 15, 14, \b00) \/ Is(i, 15, 10, \b010000) THEN "thumb_generic"
    ELSE IF Is(i, 15, 10, \b010001) THEN decode_thumb_dp_hr_branch(i)
    ELSE IF Is(i, 15, 11, \b01001) THEN "ldr_lit_t1"
    ELSE IF \/ Is(i, 15, 12, \b0101) \/ Is(i, 15, 13, \b011)
            \/ Is(i, 15, 13, \b100) \/ Is(i, 15, 11, \b10101)
      THEN "thumb_generic"
    ELSE IF Is(i, 15, 11, \b10100) THEN "adr_t1"
    ELSE IF Is(i, 15, 12, \b1011)
      THEN IF \/ Is(i, 11, 8, 0) \/ Is(i, 10, 9, \b10) \/ Is(i, 11, 8, \b1110)
             THEN "thumb_generic"
           ELSE IF bit(i, 10) = 0 /\ bit(i, 8) = 1 THEN "cbz_t1" ELSE "NULL"
    ELSE IF Is(i, 15, 12, \b1100) THEN decode_thumb_ldm_stm(i)
    ELSE IF Is(i, 15, 8, \b11011111) THEN "thumb_generic"
    ELSE IF Is(i, 15, 8, \b11011110) THEN "NULL"
    ELSE IF Is(i, 15, 12, \b1101) THEN "b_t1"
    ELSE IF Is(i, 15, 11, \b11100) THEN "b_t2"
    ELSE "NULL"

------------------------------------------------------------------------------
(* arch/arm/template_select_thumb32.c: `high' is the first halfword         *)

bitsh(i, low, high) == bits(i, low + 16, high + 16)

\* The operands of the classes below.
ThumbRn(i) == bitsh(i, 0, 3)
ThumbRd(i) == bits(i, 8, 11)
ThumbRt(i) == bits(i, 12, 15)

\* Modified immediate.  orr, mov, orn and mvn end up refused.
template_select_dataproc_mim(i) ==
    LET op == bitsh(i, 5, 8) s == bitsh(i, 4, 4)
    IN  IF op \in {\b0000, \b1000, \b1101, \b0100}
          THEN Unless(\/ is_bad(ThumbRn(i)) \/ is_sp(ThumbRd(i))
                      \/ is_pc(ThumbRd(i)) /\ s = 0, "thumb2_generic")
        ELSE Unless(\/ op \notin {\b1010, \b1011, \b0001, \b1110}
                    \/ is_bad(ThumbRd(i)) \/ is_bad(ThumbRn(i)),
                    "thumb2_generic")

\* Plain binary immediate.
template_select_dataproc_imm(i) ==
    LET op == bitsh(i, 4, 8) rn == ThumbRn(i)
    IN  IF is_bad(ThumbRd(i)) THEN "NULL"
        ELSE IF op = 0
          THEN IF is_pc(rn) THEN "adr_t3" ELSE "thumb2_generic"
        ELSE IF op = \b01010
          THEN IF is_pc(rn) THEN "adr_t2" ELSE "thumb2_generic"
        ELSE IF op % 8 = \b100 \/ op \in {\b10000, \b10010, \b11000, \b11010}
          THEN Unless(is_bad(rn), "thumb2_generic")
        ELSE Unless(op # \b10110 \/ is_sp(rn), "thumb2_generic")

\* Branches and control.
template_select_branch_misc_ctrl(i) ==
    LET op == bitsh(i, 4, 10)
        op1 == bits(i, 12, 14)
        op2 == bits(i, 8, 11)
    IN  CASE op1 \in {1, 3} -> "b_t4"
          [] op1 \in {4, 6} -> "blx_t2"
          [] op1 \in {5, 7} -> "bl_t1"
          [] op1 \in {0, 2} ->
               CASE op = \b0111000 ->
                      Unless(op2 % 4 # 0 \/ is_bad(ThumbRn(i)), "thumb2_generic")
                 [] op = \b0111010 -> Unless(bits(i, 8, 10) = 0, "thumb_nop")
                 [] op \in {\b0111110, \b0111111} ->
                      Unless(\/ i[1] # \hF3EF \/ bits(i, 12, 15) # 8
                             \/ bits(i, 0, 7) # 0 \/ is_bad(ThumbRd(i)),
                             "thumb2_generic")
                 [] op \in {\b0111001, \b0111011, \b0111100, \b0111101, \b1111111} ->
                      "NULL"
                 [] op \in \b1111000..\b1111110 -> "assert"
                 [] OTHER -> "b_t3"

template_select_ldm_stm(i) ==
    LET load == bitsh(i, 4, 4) = 1
        list == {n \in 0..15 : bit(i, n) = 1}
    IN  Unless(\/ bitsh(i, 7, 8) \in {0, 3}
               \/ bits_count(list) < 2
               \/ is_pc(ThumbRn(i))
               \/ 13 \in list
               \/ load /\ {14, 15} \subseteq list
               \/ ~load /\ 15 \in list
               \/ bitsh(i, 5, 5) = 1 /\ ThumbRn(i) \in list,
               "thumb2_generic")

\* A register whose offset is a register, or an immediate with P, U, W.
Indexed(i, more) ==
    LET p == bit(i, 10) w == bit(i, 8)
    IN  Unless(\/ p = 0 /\ w = 0
               \/ w = 1 /\ ThumbRn(i) = ThumbRt(i)
               \/ more, "thumb2_generic")

template_select_ldr(i) ==
    LET op1 == bitsh(i, 7, 8)
        op2 == bits(i, 6, 11)
        unprivileged == bits(i, 8, 10) = \b110
    IN  IF op1 > 1 THEN "NULL"
        ELSE IF is_pc(ThumbRn(i)) THEN Unless(is_pc(ThumbRt(i)), "ldr_lit_t2")
        ELSE IF op1 = 1 THEN "thumb2_generic"
        ELSE IF op2 = 0 THEN Unless(is_bad(Rm(i)), "thumb2_generic")
        ELSE IF bit(i, 11) = 1 /\ (bit(i, 8) = 1 \/ bits(i, 8, 10) = \b100)
          THEN Indexed(i, unprivileged /\ is_bad(ThumbRt(i)))
        ELSE "NULL"

template_select_str(i) ==
    LET op1 == bitsh(i, 5, 7)
        op2 == bits(i, 6, 11)
        word == op1 % 4 = 2
    IN  IF \/ is_pc(ThumbRn(i)) \/ is_pc(ThumbRt(i))
           \/ ~word /\ is_sp(ThumbRt(i))
          THEN "NULL"
        ELSE IF op1 \in {0, 1, 2}
          THEN IF op2 = 0 THEN Unless(is_bad(Rm(i)), "thumb2_generic")
               ELSE IF bit(i, 11) = 1 /\ (bit(i, 8) = 1 \/ bit(i, 10) = 1)
                 THEN Indexed(i, FALSE)
               ELSE "NULL"
        ELSE Unless(op1 \notin {4, 5, 6}, "thumb2_generic")

\* Shifted register.  orr, mov, orn and mvn end up refused here as well.
template_select_dataproc_shr(i) ==
    LET op == bitsh(i, 5, 8) s == bitsh(i, 4, 4)
    IN  IF op \in {\b0000, \b1000, \b1101, \b0100}
          THEN Unless(\/ is_bad(ThumbRn(i)) \/ is_bad(Rm(i)) \/ is_sp(ThumbRd(i))
                      \/ is_pc(ThumbRd(i)) /\ s = 0, "thumb2_generic")
        ELSE Unless(\/ op \notin {\b1010, \b1011, \b0001, \b0110, \b1110}
                    \/ is_bad(ThumbRd(i)) \/ is_bad(Rm(i)) \/ is_bad(ThumbRn(i)),
                    "thumb2_generic")

template_select_dataproc_reg(i) ==
    LET op1 == bitsh(i, 4, 7)
        op2 == bits(i, 4, 7)
        bad2 == is_bad(ThumbRd(i)) \/ is_bad(Rm(i))
        bad3 == bad2 \/ is_bad(ThumbRn(i))
    IN  IF bits(i, 12, 15) # 15 THEN "NULL"
        ELSE IF op1 < 8 /\ op2 = 0 THEN Unless(bad3, "thumb2_generic")
        ELSE IF op2 >= 8 /\ op1 <= 5 THEN Unless(bad2, "thumb2_generic")
        ELSE IF op1 >= 8 /\ op2 < 8
          THEN Unless(op2 % 4 = 3 \/ op1 % 4 = 3 \/ bad3, "thumb2_generic")
        ELSE IF op1 \in 8..11 /\ op2 \in 8..11
          THEN Unless((op1 >= 10 /\ op2 # 8) \/ bad3, "thumb2_generic")
        ELSE "NULL"

AnyPc(i) == \E r \in {ThumbRn(i), ThumbRd(i), ThumbRt(i), Rm(i)} : is_pc(r)

\* The third register of mul is written as the pc, so mul is refused.
template_select_mul(i) ==
    LET op1 == bitsh(i, 4, 6) op2 == bits(i, 4, 5)
    IN  Unless(\/ bits(i, 6, 7) # 0
               \/ AnyPc(i)
               \/ ~(op1 = 1 \/ op2 < 2)
               \/ op1 = 7 /\ op2 = 1, "thumb2_generic")

\* op12 is op1 << 3 with a four-bit op2 or-ed in: bit 3 is in both.
template_select_mull(i) ==
    LET op1 == bitsh(i, 4, 6) op2 == bits(i, 4, 7)
        hi == op1 * 8
        op12 == hi + (op2 % 8) + (IF op2 >= 8 /\ op1 % 2 = 0 THEN 8 ELSE 0)
    IN  Unless(\/ AnyPc(i)
               \/ ~\/ op12 \in {\b1001100, \b1001101, \b1011100, \b1011101}
                   \/ op12 = \b1100110
                   \/ op12 \in \b1001000..\b1001011
                   \/ op12 % 32 = 0
                   \/ op12 \in {\b0011111, \b0111111},
               "thumb2_generic")

template_select_thumb32(i) ==
    LET op1 == bitsh(i, 11, 12)
        op2 == bitsh(i, 4, 10)
    IN  CASE op1 = 0 -> "assert"
          [] op1 = 1 ->
               CASE op2 \in 32..63 -> template_select_dataproc_shr(i)
                 [] op2 < 32 /\ bitsh(i, 6, 6) = 0 -> template_select_ldm_stm(i)
                 [] OTHER -> "NULL"
          [] op1 = 2 ->
               CASE bit(i, 15) = 1 -> template_select_branch_misc_ctrl(i)
                 [] bit(i, 15) = 0 /\ bitsh(i, 9, 9) = 0 ->
                      template_select_dataproc_mim(i)
                 [] OTHER -> template_select_dataproc_imm(i)
          [] op1 = 3 ->
               CASE op2 < 16 /\ op2 % 2 = 0 -> template_select_str(i)
                 [] op2 < 32 /\ op2 % 8 = \b101 -> template_select_ldr(i)
                 [] op2 \in 32..47 -> template_select_dataproc_reg(i)
                 [] op2 \in 48..55 -> template_select_mul(i)
                 [] op2 \in 56..63 -> template_select_mull(i)
                 [] OTHER -> "NULL"

\* template_select of the arm build
template_select(i, kind) ==
    CASE kind = "THUMB" -> template_select_thumb(i)
      [] kind = "THUMB2" -> template_select_thumb32(i)
      [] kind = "ARM" -> template_select_arm(i)

------------------------------------------------------------------------------
(* arch/arm64/template_select.c                                             *)

\* Mutant: adr is taken for an ordinary instruction, as adrp is not.
decode_a64_data_processing_immediate_adr(i) ==
    IF Is(i, 31, 31, 1) /\ Is(i, 28, 24, \b10000) THEN "a64_adrp"
    ELSE "a64_generic"

decode_a64_data_processing_immediate(i) ==
    IF Is(i, 28, 24, \b10000) THEN "a64_adrp" ELSE "a64_generic"

decode_a64_branch_exception_system(i) ==
    IF Is(i, 30, 26, \b00101)
      THEN IF bit(i, 31) = 1 THEN "a64_bl" ELSE "a64_b"
    ELSE IF Is(i, 30, 25, \b011010) THEN "a64_cbnz"
    ELSE IF Is(i, 30, 25, \b011011) THEN "a64_tbnz"
    ELSE IF Is(i, 31, 25, \b0101010) THEN "a64_b_cond"
    ELSE IF Is(i, 31, 24, \b11010100) \/ Is(i, 31, 22, \b1101010100)
      THEN "a64_generic"
    ELSE IF Is(i, 31, 25, \b1101011)
      THEN CASE bits(i, 21, 24) \in {0, 2} -> "a64_br"
             [] bits(i, 21, 24) = 1 ->
                  IF bits(i, 5, 9) = 30 THEN "a64_blr_x30" ELSE "a64_blr"
             [] bits(i, 21, 24) \in {4, 5} -> "a64_generic"
             [] OTHER -> "NULL"
    ELSE "NULL"

\* Loads relative to the pc; the vector ones are not told apart.
decode_a64_load_store(i) ==
    IF Is(i, 29, 27, \b011) /\ Is(i, 25, 24, 0)
      THEN CASE bits(i, 30, 31) = 3 /\ bit(i, 26) = 0 -> "NULL"
             [] bits(i, 30, 31) = 2 /\ bit(i, 26) = 0 -> "a64_ldrsw_literal"
             [] OTHER -> "a64_ldr_literal"
    ELSE "a64_generic"

template_select_a64(i) ==
    IF Is(i, 28, 27, 0) THEN "NULL"
    ELSE IF Is(i, 28, 26, \b100) THEN decode_a64_data_processing_immediate(i)
    ELSE IF Is(i, 28, 26, \b101) THEN decode_a64_branch_exception_system(i)
    ELSE IF bit(i, 27) = 1 /\ bit(i, 25) = 0 THEN decode_a64_load_store(i)
    ELSE Unless(~Is(i, 27, 25, \b101), "a64_generic")

\* template_select of the arm64 build: no 32-bit process is traced.
template_select_arm64(i, kind) ==
    IF kind = "A64" THEN template_select_a64(i) ELSE "NULL"
==============================================================================
