------------------------------- MODULE Numbers -------------------------------
(***************************************************************************)
(* Numbers in injected code: division without a divide instruction         *)
(* (idk/include/division.h) and the conversions of adbi_printf             *)
(* (inj/adbi/print.c).  Writing and locking are in module Mutex.           *)
(*                                                                         *)
(* W is the width of an unsigned int in bits, 32 in the code, and 2 * W    *)
(* that of a long long; the constants of the code are the values for 32.   *)
(***************************************************************************)
EXTENDS Integers, Sequences, FiniteSets

\* 2^k
Power[k \in Nat] == IF k = 0 THEN 1 ELSE 2 * Power[k - 1]

Word(W) == Power[W]
Long(W) == Power[2 * W]

------------------------------------------------------------------------------
(* Division by 10                                                           *)

\* div10: the factor is 0.1 * 2^(W + 3), rounded up.
div10(W, v) == (v * (Power[W + 3] \div 10 + 1)) \div Power[W + 3]

rest_add(W, r) == IF r = 0 THEN 0 ELSE (r * Word(W)) \div 10 + 1

\* Mutant: the result is not corrected.
div10l_uncorrected(W, v) ==
    LET a == div10(W, v \div Word(W))
    IN  a * Word(W) + div10(W, v % Word(W)) + rest_add(W, v \div Word(W) - a * 10)

\* div10l: both halves are divided; the sum can be too large by one.
div10l(W, v) ==
    LET a == div10(W, v \div Word(W))
        b == div10(W, v % Word(W))
        ret == a * Word(W) + b + rest_add(W, v \div Word(W) - a * 10)
    IN  IF (ret * 10) % Long(W) > v THEN ret - 1 ELSE ret

------------------------------------------------------------------------------
(* Division                                                                 *)

\* The binary search of div and divl, between a and b, in words of N values.
Search(N, dividend, divisor, from, to) ==
    LET search[i \in Int \X Int] ==
            LET a == i[1]
                b == i[2]
                quotient == b \div 2 + a \div 2
                q == (quotient * divisor) % N
            IN  IF b <= a THEN a
                ELSE IF q > dividend THEN search[<<a, quotient - 1>>]
                ELSE IF dividend - q < divisor THEN quotient
                ELSE search[<<quotient + 1, b>>]
    IN  search[<<from, to>>]

First(S) == CHOOSE n \in S : \A m \in S : n <= m

\* div: a divisor with its highest bit set leaves the loop at W.
div(W, dividend, divisor) ==
    LET shift == First({s \in 0..(W - 1) : Power[s] > divisor} \cup {W})
        a == IF shift < W THEN dividend \div Power[shift] ELSE Word(W) - 1
    IN  Search(Word(W), dividend, divisor, a, dividend \div Power[shift - 1])

Bit(n, k) == (n \div Power[k]) % 2

\* The operator | of C on words
BitOr(W, m, n) ==
    LET or[k \in 0..W] ==
            IF k = 0 THEN 0
            ELSE or[k - 1] + IF Bit(m, k - 1) = 1 \/ Bit(n, k - 1) = 1 THEN Power[k - 1] ELSE 0
    IN  or[W]

\* llsr.  A shift by 0 shifts w[1] by W bits, which C leaves undefined: the
\* result is 0 or, where only the low bits of a shift count, w[1] again.
llsr(W, val, shift, again) ==
    LET lo == val % Word(W)
        hi == val \div Word(W)
        up == IF shift = 0 THEN (IF again THEN hi ELSE 0) ELSE (hi * Power[W - shift]) % Word(W)
    IN  BitOr(W, lo \div Power[shift], up) + Word(W) * (hi \div Power[shift])

\* divl: 1 << shift is an int, so that the loop ends at its sign bit.
divl(W, dividend, divisor, again) ==
    LET shift == First({s \in 0..(W - 2) : Power[s] > divisor} \cup {W - 1})
    IN  Search(Long(W), dividend, divisor, llsr(W, dividend, shift, again),
               llsr(W, dividend, shift - 1, again))

Signed(n, quotient) == IF n < 0 THEN -quotient ELSE quotient
Abs(n) == IF n < 0 THEN -n ELSE n

divsl(W, dividend, divisor, again) ==
    Signed(dividend, Signed(divisor, divl(W, Abs(dividend), Abs(divisor), again)))

\* div10s
div10s(W, v) == Signed(v, div10(W, Abs(v)))

\* div10sl
div10sl(W, v) == Signed(v, div10l(W, Abs(v)))

------------------------------------------------------------------------------
(* Conversions.  A character is the digit it stands for, or "-".            *)

Zero == <<0>>

\* The loops of adbi_write_dec_unlocked and of its signed variant
Decimal(W, val) ==
    LET decimal[v \in 0..(Long(W) - 1)] ==
            LET next == div10l(W, v)
            IN  IF v = 0 THEN <<>> ELSE Append(decimal[next], (v - next * 10) % Long(W))
    IN  decimal[val]

adbi_write_dec_unlocked(W, val) == IF val = 0 THEN Zero ELSE Decimal(W, val)

\* The most negative value is its own negation and divided as unsigned.
adbi_write_signed_dec_unlocked(W, val) ==
    IF val = 0 THEN Zero
    ELSE (IF val < 0 THEN <<"-">> ELSE <<>>) \o Decimal(W, Abs(val))

Digits(val, base) ==
    LET digits[v \in Nat] ==
            IF v = 0 THEN <<>> ELSE Append(digits[v \div base], v % base)
    IN  digits[val]

adbi_write_oct_unlocked(val) == IF val = 0 THEN Zero ELSE Digits(val, 8)

adbi_write_hex_unlocked(val) == IF val = 0 THEN Zero ELSE Digits(val, 16)

\* Printable characters are written as they are.
adbi_write_char_unlocked(val) ==
    IF val >= 32 /\ val < 127 THEN <<val>> ELSE <<val \div 16, val % 16>>

\* A value as the callee takes it: `bits' of it, signed or not.
Taken(val, bits, signed) ==
    LET v == val % Power[bits] IN IF signed /\ v >= Power[bits - 1] THEN v - Power[bits] ELSE v

\* How often c is in s
Count(s, c) == Cardinality({n \in 1..Len(s) : s[n] = c})

\* One conversion of adbi_printf: what is between "%" and the letter, where
\* all but "l" and "h" is skipped, the letter, and the argument as it is on
\* the stack.  A pointer has W bits, which is the width of arm.
Convert(W, modifiers, letter, arg) ==
    LET longs == Count(modifiers, "l")
        shorts == Count(modifiers, "h")
        bits == IF 3 + longs - shorts >= 5 THEN 2 * W ELSE W
        value == Taken(arg, bits, letter \in {"i", "d"})
    IN  CASE letter = "p" -> adbi_write_hex_unlocked(Taken(arg, W, FALSE))
          [] letter = "o" -> adbi_write_oct_unlocked(value)
          [] letter = "u" -> adbi_write_dec_unlocked(W, value)
          [] letter \in {"x", "X"} -> adbi_write_hex_unlocked(value)
          [] letter \in {"i", "d"} -> adbi_write_signed_dec_unlocked(W, value)
          [] letter = "c" -> adbi_write_char_unlocked(arg % 256)

Letters == {"s", "p", "x", "X", "o", "u", "i", "d", "c", "e", "E", "f", "F", "g", "G", "a", "A"}

\* The loop of adbi_printf: the pieces that are written, as text or as the
\* letter of a conversion and what is before it.
adbi_printf(fmt) ==
    LET end == Len(fmt)
        Text(s) == IF s = <<>> THEN <<>> ELSE <<[letter |-> "none", text |-> s]>>
        print[at \in 1..(end + 1)] ==
            LET percents == {n \in at..end : fmt[n] = "%"}
                p == First(percents)
                ends == {n \in (p + 1)..end : fmt[n] \in Letters}
                e == First(ends)
            IN  IF percents = {} THEN Text(SubSeq(fmt, at, end))
                ELSE Text(SubSeq(fmt, at, p - 1))
                       \o IF ends = {} THEN <<>>
                          ELSE <<[letter |-> fmt[e], text |-> SubSeq(fmt, p + 1, e - 1)]>>
                                 \o print[e + 1]
    IN  print[1]
==============================================================================
