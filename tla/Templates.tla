------------------------------ MODULE Templates ------------------------------
(***************************************************************************)
(* Trampolines: how template_get_handler fills a template for one traced   *)
(* instruction (arch/arm/template.c, arch/arm64/template.c), and what the  *)
(* filled template does, against what the instruction does where it is.    *)
(*                                                                         *)
(* What an instruction does is a tuple                                     *)
(*     <<operation, condition, register, value, link>>                     *)
(* and, for ARM data processing and transfers, a symbolic machine state:   *)
(* the value of a register is a term, the pc of the program is <<"pc">>,   *)
(* and the pc of the trampoline is <<"here", 0>>.                             *)
(***************************************************************************)
EXTENDS Select, Sequences

NoMask == {}

\* get_insn_masks: where an instruction keeps its condition and registers.
get_insn_masks(i, kind) ==
    LET M(cond, rd, rt, rm, rn) ==
            [cond |-> cond, rd |-> rd, rt |-> rt, rm |-> rm, rn |-> rn]
        op == bits(i, 11, 15)
    IN  CASE kind = "ARM" -> M(28..31, 12..15, 12..15, 0..3, 16..19)
          [] kind = "THUMB2" ->
               M(IF Is(i, 31, 27, \b11110) /\ Is(i, 15, 14, \b10) /\ bit(i, 12) = 0
                 THEN 22..25 ELSE NoMask, 8..11, 12..15, 0..3, 16..19)
          [] kind = "THUMB" /\ op \in {\b11010, \b11011} ->
               M(8..11, NoMask, NoMask, NoMask, NoMask)
          [] kind = "THUMB" /\ Is(i, 15, 12, \b1011) /\ bit(i, 10) = 0 /\ bit(i, 8) = 1 ->
               M(11..11, NoMask, NoMask, NoMask, 0..2)
          [] kind = "THUMB" /\ op \in {\b10010, \b10011, \b10100, \b10101, \b11000,
                                      \b11001, \b01001} \cup \b00100..\b00111 ->
               M(NoMask, 8..10, 8..10, NoMask, 8..10)
          [] kind = "THUMB" /\ op \in {\b00011, \b10000, \b10001, \b01010, \b01011}
                                      \cup \b01100..\b01111 ->
               M(NoMask, 0..2, 0..2, 6..8, 3..5)
          [] kind = "THUMB" /\ op \in {\b00000, \b00001, \b00010, \b01000} ->
               M(NoMask, 0..2, NoMask, 3..5, 0..2)
          [] OTHER -> M(NoMask, NoMask, NoMask, NoMask, NoMask)

\* patch_by_mask asserts that the masks have the same size.
patch_by_mask(val, dst, mask1, mask2) ==
    IF bits_count(mask1) # bits_count(mask2) THEN <<>>
    ELSE Merge(dst, set_bits_by_mask(val, mask2), mask2)

\* patch_insn, one of the cases MC: field s of the traced instruction is
\* copied to field d of an instruction of the template.
Patch(i, dst, kind, s, d) ==
    LET src == get_insn_masks(i, kind)[s]
    IN  patch_by_mask(get_bits_by_mask(i, src), dst, src,
                      get_insn_masks(dst, kind)[d])

\* Mutant: any low register will do.
select_temporary_reg_any(i, kind) == 0

\* select_temporary_reg: the first low register the instruction does not name.
select_temporary_reg(i, kind) ==
    LET m == get_insn_masks(i, kind)
        named == IF m.rd = NoMask THEN {}
                 ELSE {get_bits_by_mask(i, m[r]) : r \in {"rd", "rt", "rn", "rm"}}
    IN  Min((0..7) \ named)

\* patch_insn, the cases *2RS: a field of the template's instruction names
\* the temporary register.
PatchTemp(i, dst, kind, d) ==
    LET mask == get_insn_masks(dst, kind)[d]
    IN  patch_by_mask(select_temporary_reg(i, kind), dst,
                      bit_mask(0, bits_count(mask) - 1), mask)

------------------------------------------------------------------------------
(* The values of template_fillout, arch/arm/template.c                      *)

Aligned(a) == a - (a % 4)

\* address | 1: a jump to Thumb code; addresses of Thumb code are even.
Thumb(a) == a + 1 - (a % 2)

\* TF_NEXT_PC, with next_pc of template_get_handler
next_pc(kind, pc) ==
    CASE kind = "ARM" -> pc + 4
      [] kind = "THUMB2" -> Thumb(pc + 4)
      [] kind = "THUMB" -> Thumb(pc + 2)

\* TF_CBZ_T1_TARGET
cbz_t1_target(i, pc) == Thumb(pc + 4 + 2 * (32 * bit(i, 9) + bits(i, 3, 7)))

\* TF_ADR_T1_VAL
adr_t1_val(i, pc) == Aligned(pc + 4) + 4 * bits(i, 0, 7)

\* TF_ADR_T2_VAL, TF_ADR_T3_VAL
adr_t2_t3_val(i, pc) ==
    LET imm32 == 2048 * bit(i, 26) + 256 * bits(i, 12, 14) + bits(i, 0, 7)
    IN  Aligned(pc + 4) + IF Is(i, 25, 20, \b101010) THEN -imm32 ELSE imm32

\* TF_LDR_LIT_T1_ADDRESS
ldr_lit_t1_address(i, pc) == Aligned(pc + 4) + 4 * bits(i, 0, 7)

\* TF_LDR_LIT_T2_ADDRESS
ldr_lit_t2_address(i, pc) ==
    Aligned(pc + 4) + IF bit(i, 23) = 1 THEN bits(i, 0, 11) ELSE -bits(i, 0, 11)

\* TF_B_T1_TARGET
b_t1_target(i, pc) == Thumb(pc + 4 + sign_extend(2 * bits(i, 0, 7), 9))

\* TF_B_T2_TARGET
b_t2_target(i, pc) == Thumb(pc + 4 + sign_extend(2 * bits(i, 0, 10), 12))

\* TF_B_T3_TARGET: the field imm6 is not used.
b_t3_target(i, pc) ==
    LET imm == bits(i, 0, 10) + 2^11 * bit(i, 13) + 2^12 * bit(i, 11)
               + 2^13 * bit(i, 26)
    IN  Thumb(pc + 4 + sign_extend(2 * imm, 14))

\* thumb2_branch_decode: the sign bit of the offset is bit 23.
thumb2_branch_decode(i) ==
    LET s == bit(i, 26)
        I(j) == IF s = j THEN 1 ELSE 0
    IN  sign_extend(2 * bits(i, 0, 10) + 2^12 * bits(i, 16, 25)
                    + 2^22 * I(bit(i, 11)) + 2^23 * I(bit(i, 13)) + 2^24 * s, 24)

\* TF_B_T4_TARGET, TF_BL_T1_TARGET
b_t4_target(i, pc) == Thumb(pc + 4 + thumb2_branch_decode(i))

\* TF_BLX_T2_TARGET.  An encoding with bit 0 set is undefined; the assertion
\* that it is clear is left out.
blx_t2_target(i, pc) == Aligned(pc + 4) + thumb2_branch_decode(i)

Imm24(i) == bits(i, 0, 15) + 2^16 * bits(i, 16, 23)

\* TF_B_A1_TARGET, TF_BL_IMM_A1_TARGET
b_a1_target(i, pc) == pc + 8 + sign_extend(4 * Imm24(i), 26)

\* TF_BLX_IMM_A2_TARGET
blx_imm_a2_target(i, pc) ==
    pc + 8 + sign_extend(4 * Imm24(i) + 2 * bit(i, 24), 26) + 1

------------------------------------------------------------------------------
(* The values of template_fillout, arch/arm64/template.c                    *)

\* patch_insn_a64: the field and the bits it copies.  The assertion that COND
\* meets a b.cond is left out: with bit 24 or 4 set the encoding is undefined.
patch_insn_a64(i, dst, field) ==
    LET mask == CASE field = "COND" -> 0..3
                  [] field = "SF2SF" -> {31}
                  [] field = "OP2OP" -> {24}
                  [] field = "RN2RN" -> 5..9
                  [] field = "RT2RT" -> 0..4
                  [] field = "RN2RT" -> 5..9
                  [] field = "B40_2_B40" -> {31} \cup 19..23
                  [] field = "LDR_SIZE_LIT2REG" -> {30}
        shifted == Word({n + 5 : n \in Ones(i) \cap 0..26})
    IN  Merge(dst, IF field = "RN2RT" THEN shifted ELSE i, mask)

\* Several fields at one instruction of the template
PatchAll(i, dst, fields) ==
    IF fields = <<>> THEN dst
    ELSE LET f[n \in 0..Len(fields)] ==
                 IF n = 0 THEN dst ELSE patch_insn_a64(i, f[n - 1], fields[n])
         IN  f[Len(fields)]

Imm19(i) == bits(i, 5, 15) + 2^11 * bits(i, 16, 23)
Imm26(i) == bits(i, 0, 15) + 2^16 * bits(i, 16, 25)

\* An address as its page and the offset in it
InPage(a) == <<a \div 4096, a % 4096>>

\* TF_ADRP_RESULT
adrp_result(i, pc) ==
    LET imm == sign_extend(4 * Imm19(i) + bits(i, 29, 30), 21)
    IN  IF bit(i, 31) = 1 THEN <<pc \div 4096 + imm, 0>> ELSE InPage(pc + imm)

\* TF_RELATIVE_IMM19_ADDR
relative_imm19_addr(i, pc) == pc + sign_extend(4 * Imm19(i), 21)

\* template_iter_return_address: where each return jump of the template leads.
return_address(i, pc, field) ==
    CASE field = "RETURN" -> pc + 4
      [] field = "IMM26" -> pc + sign_extend(4 * Imm26(i), 28)
      [] field = "IMM19" -> pc + sign_extend(4 * Imm19(i), 21)
      [] field = "IMM14" -> pc + sign_extend(4 * (Imm19(i) % 2^14), 16)

------------------------------------------------------------------------------
(* What the filled templates do (the .S files of arch/arm/templates and     *)
(* arch/arm64/templates).  `Always' is the condition of most of them.       *)

Always == 14
NoLink == -1

Jump(cond, target, link) == <<"jump", cond, 0, target, link>>
JumpReg(cond, reg, link) == <<"jump_reg", cond, reg, 0, link>>
Compare(cond, reg, target) == <<"compare", cond, reg, target, NoLink>>
Write(reg, value) == <<"write", Always, reg, value, NoLink>>
Load(size, reg, address) == <<"load", size, reg, address, NoLink>>

\* ldr pc, ...: the first instruction of most ARM templates
ArmCond(i) == bits(Patch(i, <<\hE59F, 0>>, "ARM", "cond", "cond"), 28, 31)

\* The arm templates: what the code of arch/arm/templates/*.S does with the
\* fields that template_fillout puts in.
Filled(i, kind, pc, t) ==
    LET next == next_pc(kind, pc)
        P(dst, s, d) == Patch(i, dst, kind, s, d)
        ldr_n == <<0, \h4800>>         \* ldr.n r0, [pc, ...]
        ldr_n_reg == <<0, \h6808>>     \* ldr.n r0, [r1]
        ldr_w == <<\hF8DF, 0>>         \* ldr.w r0, [pc, ...]
        ldr_w_reg == <<\hF8D1, 0>>     \* ldr.w r0, [r1]
        bx == <<0, \h4700>>            \* bx r0
        cbz == P(P(<<0, \hB100>>, "cond", "cond"), "rn", "rn")
        push == P(<<\hE52D, 4>>, "rm", "rt")
    IN  CASE t = "b_a1" -> Jump(ArmCond(i), b_a1_target(i, pc), NoLink)
          [] t = "bl_imm_a1" -> Jump(ArmCond(i), b_a1_target(i, pc), next)
          [] t = "blx_imm_a2" -> Jump(Always, blx_imm_a2_target(i, pc), next)
          [] t = "blx_reg_a1" -> JumpReg(ArmCond(i), Rd(push), next)
          [] t = "b_t1" ->
               Jump(bits(P(<<0, \hD000>>, "cond", "cond"), 8, 11),
                    b_t1_target(i, pc), NoLink)
          [] t = "b_t2" -> Jump(Always, b_t2_target(i, pc), NoLink)
          [] t = "b_t3" ->
               Jump(bits(P(<<\hF000, \h8000>>, "cond", "cond"), 22, 25),
                    b_t3_target(i, pc), NoLink)
          [] t = "b_t4" -> Jump(Always, b_t4_target(i, pc), NoLink)
          [] t = "bl_t1" -> Jump(Always, b_t4_target(i, pc), next)
          [] t = "blx_t2" -> Jump(Always, blx_t2_target(i, pc), next)
          [] t = "blx_reg_t1" -> JumpReg(Always, bits(P(bx, "rm", "rm"), 3, 6), next)
          [] t = "cbz_t1" ->
               Compare(bit(cbz, 11), bits(cbz, 0, 2), cbz_t1_target(i, pc))
          [] t = "adr_t1" -> Write(bits(P(ldr_n, "rd", "rd"), 8, 10), adr_t1_val(i, pc))
          [] t \in {"adr_t2", "adr_t3"} ->
               Write(ThumbRt(P(ldr_w, "rd", "rt")), adr_t2_t3_val(i, pc))
          [] t = "ldr_lit_t1" ->
               LET r == P(P(ldr_n_reg, "rt", "rn"), "rt", "rt")
               IN  IF bits(r, 3, 5) = bits(P(ldr_n, "rt", "rt"), 8, 10)
                   THEN Load(32, bits(r, 0, 2), ldr_lit_t1_address(i, pc)) ELSE <<>>
          [] t = "ldr_lit_t2" ->
               LET r == P(P(ldr_w_reg, "rt", "rn"), "rt", "rt")
               IN  IF ThumbRn(r) = ThumbRt(P(ldr_w, "rt", "rt"))
                   THEN Load(32, ThumbRt(r), ldr_lit_t2_address(i, pc)) ELSE <<>>

\* The arm64 templates, by arch/arm64/templates/*.S.  That a64_bl
\* and a64_blr_x30 go through x16, which a call may change, is left out.
Filled64(i, pc, t) ==
    LET next == return_address(i, pc, "RETURN")
        To(field) == return_address(i, pc, field)
        P(dst, fields) == PatchAll(i, dst, fields)
        ldr == <<\h5800, 16>>          \* ldr x16, ...
        ldr_reg == <<\hF940, \h0210>>  \* ldr x16, [x16]
        ldrsw == <<\hB980, \h0210>>    \* ldrsw x16, [x16]
        cbz == P(<<\hB400, \h0050>>, <<"SF2SF", "OP2OP", "RT2RT">>)
        tbz == P(<<\h3600, \h0050>>, <<"SF2SF", "B40_2_B40", "OP2OP", "RT2RT">>)
        br == P(<<\hD61F, \h0200>>, <<"RN2RN">>)
        Literal(size, r) ==
            IF bits(r, 5, 9) = bits(P(ldr, <<"RT2RT">>), 0, 4)
            THEN Load(size, bits(r, 0, 4), relative_imm19_addr(i, pc)) ELSE <<>>
    IN  CASE t = "a64_adrp" ->
               Write(bits(P(ldr, <<"RT2RT">>), 0, 4), adrp_result(i, pc))
          [] t = "a64_b" -> Jump(Always, To("IMM26"), NoLink)
          [] t = "a64_bl" -> Jump(Always, To("IMM26"), next)
          [] t = "a64_b_cond" ->
               Jump(bits(P(<<\h5400, \h000E>>, <<"COND">>), 0, 3), To("IMM19"), NoLink)
          [] t = "a64_cbnz" ->
               Compare(<<bit(cbz, 31), bit(cbz, 24)>>, bits(cbz, 0, 4), To("IMM19"))
          [] t = "a64_tbnz" ->
               Compare(<<bit(tbz, 31), bits(tbz, 19, 23), bit(tbz, 24)>>,
                       bits(tbz, 0, 4), To("IMM14"))
          [] t = "a64_br" -> JumpReg(Always, bits(br, 5, 9), NoLink)
          [] t = "a64_blr" -> JumpReg(Always, bits(br, 5, 9), next)
          [] t = "a64_blr_x30" -> JumpReg(Always, 30, next)
          [] t = "a64_ldr_literal" ->
               LET r == P(ldr_reg, <<"LDR_SIZE_LIT2REG", "RN2RT", "RT2RT">>)
               IN  Literal(IF bit(r, 30) = 1 THEN 64 ELSE 32, r)
          [] t = "a64_ldrsw_literal" ->
               Literal(-32, P(ldrsw, <<"RN2RT", "RT2RT">>))

------------------------------------------------------------------------------
(* ARM data processing and transfers                                        *)

\* Transfers are 01x; the rest of the class 000 with bits 7 and 4 set.
IsTransfer(i) == Is(i, 27, 26, \b01) \/ (Is(i, 27, 25, 0) /\ bit(i, 7) = 1 /\ bit(i, 4) = 1)
IsStore(i) ==
    IF Is(i, 27, 26, \b01) \/ bits(i, 4, 7) = \b1011 THEN bit(i, 20) = 0
    ELSE bit(i, 20) = 0 /\ bits(i, 4, 7) = \b1111

\* The operands a transfer or an operation reads.  (external)
Reads(i) ==
    LET indexed == IF Is(i, 27, 26, \b01) THEN bit(i, 25) = 1 ELSE bit(i, 22) = 0
    IN  IF IsTransfer(i)
        THEN {"rn"} \cup (IF indexed THEN {"rm"} ELSE {})
                    \cup (IF IsStore(i) THEN {"rd"} ELSE {})
        ELSE (IF uses_rn(i) THEN {"rn"} ELSE {})
             \cup (IF Immediate(i) THEN {} ELSE {"rm"})

Register(i, r) == CASE r = "rd" -> Rd(i) [] r = "rn" -> Rn(i) [] r = "rm" -> Rm(i)

\* Execution of one instruction on symbolic registers: the registers it
\* leaves, and what it does to memory or to the flags.  (external)
Exec(i, regs) ==
    LET term == [r \in Reads(i) |-> regs[Register(i, r)]]
        writes == IF IsTransfer(i) THEN ~IsStore(i) ELSE uses_rd(i)
    IN  [regs |-> IF writes THEN [regs EXCEPT ![Rd(i)] = <<"of", term>>] ELSE regs,
         does |-> IF writes THEN {} ELSE {term}]

Registers(pc) == [r \in 0..15 |-> IF r = 15 THEN pc ELSE <<"reg", r>>]

\* The pc after an instruction matters only if the instruction wrote it.
Outcome(i, x) ==
    [x EXCEPT !.regs[15] = IF Rd(i) # 15 \/ (IF IsTransfer(i) THEN IsStore(i) ELSE ~uses_rd(i))
                           THEN <<>> ELSE @]

\* The instruction of the template that stands for the traced one.
Substitute(i, t) ==
    LET d == DpTemplates[t]
        sub(j, r) == IF d.temp THEN PatchTemp(i, j, "ARM", r)
                     ELSE Patch(i, j, "ARM", "rd", r)
        n == IF "rn" \in d.pc THEN sub(i, "rn") ELSE i
        m == IF "rm" \in d.pc THEN sub(n, "rm") ELSE n
    IN  IF d.rd THEN sub(m, "rd") ELSE m

\* What the templates arm_dp_* and arm_generic do: the pc's value is loaded
\* into the destination or into a pushed register, which is popped later;
\* templates with rd leave the result on the stack and pop it into the pc.
FilledDp(i, t) ==
    IF t = "arm_generic" THEN Outcome(i, Exec(i, Registers(<<"here", 0>>)))
    ELSE LET d == DpTemplates[t]
             rs == IF d.temp THEN select_temporary_reg(i, "ARM") ELSE Rd(i)
             before == Registers(<<"here", 0>>)
             pushed == IF d.temp THEN [before EXCEPT ![13] = <<"pushed", 0>>] ELSE before
             x == Exec(Substitute(i, t), [pushed EXCEPT ![rs] = <<"pc", 0>>])
             r == x.regs[rs]
         IN  IF d.rd
             THEN [x EXCEPT !.regs = [before EXCEPT ![15] = r]]
             ELSE IF d.temp
             THEN [x EXCEPT !.regs = [@ EXCEPT ![rs] = <<"reg", rs>>, ![13] = <<"reg", 13>>,
                                              ![15] = <<>>]]
             ELSE [x EXCEPT !.regs[15] = <<>>]
==============================================================================
