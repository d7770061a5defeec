----------------------------- MODULE Architecture -----------------------------
(***************************************************************************)
(* Reference for the instruction templates: what the architecture says a   *)
(* traced instruction does at its own address.  It is written from the     *)
(* encodings, not from the decoders of Select; every definition is         *)
(* external to the repository.                                             *)
(***************************************************************************)
EXTENDS Templates

\* Two's complement of a field of n bits
Signed(v, n) == IF v >= 2^(n - 1) THEN v - 2^n ELSE v

------------------------------------------------------------------------------
(* Instructions whose effect depends on the address they are at             *)

\* ARM: the registers an instruction reads, the link included.  Registers
\* that may not be the pc (a shift count) are left out.
ArmReads(i) ==
    LET misc == Is(i, 27, 23, \b00010) /\ bit(i, 20) = 0
        multiply == Is(i, 27, 25, 0) /\ Is(i, 7, 4, \b1001)
    IN  CASE Is(i, 27, 25, \b101) -> {15}
          [] Is(i, 27, 25, \b100) ->
               {Rn(i)} \cup (IF bit(i, 20) = 0 THEN Ones(i) \cap 0..15 ELSE {})
          [] multiply -> {Rm(i), Rd(i)}
          [] misc /\ ~multiply /\ ~IsTransfer(i) ->
               IF Is(i, 7, 4, 0) /\ bit(i, 21) = 0 THEN {}
               ELSE {Rm(i)} \cup (IF Is(i, 22, 21, \b01) /\ Is(i, 7, 4, \b0011)
                                  THEN {15} ELSE {})
          [] Is(i, 27, 26, 0) /\ ~multiply /\ (~misc \/ IsTransfer(i)) ->
               {Register(i, r) : r \in Reads(i)}
          [] Is(i, 27, 26, \b01) -> {Register(i, r) : r \in Reads(i)}
          [] OTHER -> {}

ReadsPcThumb(i) ==
    \/ bits(i, 11, 15) \in {\b01001, \b10100, \b11100}
    \/ Is(i, 15, 12, \b1101) /\ bits(i, 8, 11) < 14
    \/ Is(i, 15, 12, \b1011) /\ bit(i, 10) = 0 /\ bit(i, 8) = 1
    \/ /\ Is(i, 15, 10, \b010001)
       /\ \/ bits(i, 3, 6) = 15
          \/ bits(i, 8, 9) < 2 /\ bits(i, 0, 2) = 7 /\ bit(i, 7) = 1
          \/ bits(i, 8, 9) = 3 /\ bit(i, 7) = 1

ReadsPcThumb2(i) ==
    LET rn == ThumbRn(i)
        store == bit(i, 20) = 0
    IN  \/ /\ Is(i, 31, 27, \b11110) /\ bit(i, 15) = 1
           /\ bit(i, 14) = 1 \/ bit(i, 12) = 1 \/ bits(i, 22, 25) < 14
        \/ Is(i, 31, 27, \b11110) /\ bit(i, 15) = 0 /\ bit(i, 25) = 1
             /\ rn = 15 /\ bits(i, 20, 24) \in {0, \b01010}
        \/ Is(i, 31, 25, \b1110100)
             /\ \/ rn = 15 /\ ~(store /\ bit(i, 22) = 1)
                \/ store /\ bit(i, 22) = 0 /\ bit(i, 15) = 1
                \/ bits(i, 20, 24) = \b01101 /\ Is(i, 7, 5, 0)
        \/ Is(i, 31, 25, \b1111100) /\ (rn = 15 \/ (store /\ ThumbRt(i) = 15))
        \/ Is(i, 31, 25, \b1110101) /\ (Rm(i) = 15 \/ (rn = 15 /\ bits(i, 21, 24) \notin {2, 3}))

ReadsPcA64(i) ==
    \/ Is(i, 28, 24, \b10000)
    \/ Is(i, 30, 26, \b00101)
    \/ Is(i, 30, 26, \b01101)
    \/ Is(i, 31, 25, \b0101010)
    \/ Is(i, 31, 21, \b11010110001)
    \/ Is(i, 29, 27, \b011) /\ Is(i, 25, 24, 0)

ReadsPc(i, kind) ==
    CASE kind = "ARM" -> 15 \in ArmReads(i)
      [] kind = "THUMB" -> ReadsPcThumb(i)
      [] kind = "THUMB2" -> ReadsPcThumb2(i)
      [] kind = "A64" -> ReadsPcA64(i)

------------------------------------------------------------------------------
(* Branches, address computations and literal loads                         *)

\* Offsets of the Thumb branches: the sign is the top bit, and in T4 the
\* bits J1 and J2 are stored exclusive-or-ed with it.
OffsetT3(i) ==
    Signed(2 * bits(i, 0, 10) + 2^12 * bits(i, 16, 21) + 2^18 * bit(i, 13)
           + 2^19 * bit(i, 11) + 2^20 * bit(i, 26), 21)
OffsetT4(i) ==
    LET I(j) == IF bit(i, j) = bit(i, 26) THEN 1 ELSE 0
    IN  Signed(2 * bits(i, 0, 10) + 2^12 * bits(i, 16, 25) + 2^22 * I(11)
               + 2^23 * I(13) + 2^24 * bit(i, 26), 25)

OffsetArm(i) == 4 * Signed(bits(i, 0, 15) + 2^16 * bits(i, 16, 23), 24)

\* What the instruction does at `pc', in the form of Templates.
Original(i, kind, pc) ==
    LET base == pc - (pc % 4) + 4
    IN
    CASE kind = "ARM" /\ Is(i, 27, 25, \b101) ->
           IF bits(i, 28, 31) = 15
           THEN Jump(Always, pc + 8 + OffsetArm(i) + 2 * bit(i, 24) + 1, pc + 4)
           ELSE Jump(bits(i, 28, 31), pc + 8 + OffsetArm(i),
                     IF bit(i, 24) = 1 THEN pc + 4 ELSE NoLink)
      [] kind = "ARM" /\ ~Is(i, 27, 25, \b101) ->
           JumpReg(bits(i, 28, 31), Rm(i), pc + 4)
      [] kind = "THUMB" ->
           (CASE Is(i, 15, 12, \b1101) ->
                  Jump(bits(i, 8, 11), pc + 5 + 2 * Signed(bits(i, 0, 7), 8), NoLink)
              [] Is(i, 15, 11, \b11100) ->
                  Jump(Always, pc + 5 + 2 * Signed(bits(i, 0, 10), 11), NoLink)
              [] Is(i, 15, 12, \b1011) ->
                  Compare(bit(i, 11), bits(i, 0, 2),
                          pc + 5 + 2 * (bits(i, 3, 7) + 32 * bit(i, 9)))
              [] Is(i, 15, 11, \b10100) ->
                  Write(bits(i, 8, 10), base + 4 * bits(i, 0, 7))
              [] Is(i, 15, 11, \b01001) ->
                  Load(32, bits(i, 8, 10), base + 4 * bits(i, 0, 7))
              [] Is(i, 15, 10, \b010001) ->
                  JumpReg(Always, bits(i, 3, 6), IF bit(i, 7) = 1 THEN pc + 3 ELSE NoLink))
      [] kind = "THUMB2" ->
           LET imm12 == bits(i, 0, 7) + 256 * bits(i, 12, 14) + 2048 * bit(i, 26)
           IN
           CASE bit(i, 27) = 1 ->
                  Load(32, ThumbRt(i), IF bit(i, 23) = 1 THEN base + bits(i, 0, 11)
                                       ELSE base - bits(i, 0, 11))
             [] bit(i, 27) = 0 /\ bit(i, 15) = 0 ->
                  Write(ThumbRd(i), IF bit(i, 23) = 1 THEN base - imm12 ELSE base + imm12)
             [] bit(i, 27) = 0 /\ bit(i, 15) = 1 /\ bit(i, 14) = 1 ->
                  Jump(Always, IF bit(i, 12) = 1 THEN pc + 5 + OffsetT4(i)
                               ELSE base + OffsetT4(i), pc + 5)
             [] OTHER ->
                  IF bit(i, 12) = 1 THEN Jump(Always, pc + 5 + OffsetT4(i), NoLink)
                  ELSE Jump(bits(i, 22, 25), pc + 5 + OffsetT3(i), NoLink)
      [] kind = "A64" ->
           LET imm19 == Signed(bits(i, 5, 15) + 2^11 * bits(i, 16, 23), 19)
               imm26 == Signed(bits(i, 0, 15) + 2^16 * bits(i, 16, 25), 26)
               imm14 == Signed(bits(i, 5, 15) + 2^11 * bits(i, 16, 18), 14)
               rt == bits(i, 0, 4)
           IN
           CASE Is(i, 28, 24, \b10000) ->
                  Write(rt, IF bit(i, 31) = 0 THEN InPage(pc + 4 * imm19 + bits(i, 29, 30))
                            ELSE <<pc \div 4096 + 4 * imm19 + bits(i, 29, 30), 0>>)
             [] Is(i, 30, 26, \b00101) ->
                  Jump(Always, pc + 4 * imm26, IF bit(i, 31) = 1 THEN pc + 4 ELSE NoLink)
             [] Is(i, 31, 25, \b0101010) -> Jump(bits(i, 0, 3), pc + 4 * imm19, NoLink)
             [] Is(i, 30, 25, \b011010) ->
                  Compare(<<bit(i, 31), bit(i, 24)>>, rt, pc + 4 * imm19)
             [] Is(i, 30, 25, \b011011) ->
                  Compare(<<bit(i, 31), bits(i, 19, 23), bit(i, 24)>>, rt, pc + 4 * imm14)
             [] Is(i, 31, 25, \b1101011) ->
                  JumpReg(Always, bits(i, 5, 9), IF bit(i, 21) = 1 THEN pc + 4 ELSE NoLink)
             [] OTHER ->
                  Load(CASE bits(i, 30, 31) = 0 -> 32 [] bits(i, 30, 31) = 1 -> 64
                         [] bits(i, 30, 31) = 2 -> -32, rt, pc + 4 * imm19)

\* Data processing and transfers of ARM at their own address
OriginalDp(i) == Outcome(i, Exec(i, Registers(<<"pc", 0>>)))
==============================================================================
