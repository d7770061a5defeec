--------------------------- MODULE InjectableSpec ---------------------------
(***************************************************************************)
(* What the symbols and the printed numbers of injectables should be: the  *)
(* definitions that Injfile and Numbers are compared with.                 *)
(***************************************************************************)
EXTENDS Integers, Sequences, FiniteSets, FiniteSetsExt

J == INSTANCE Injfile
N == INSTANCE Numbers

------------------------------------------------------------------------------
(* Symbols                                                                  *)

\* The offsets of a list
Entries(list) == IF list = J!NoList THEN {} ELSE {list[n].offset : n \in 1..Len(list)}

\* The nth of some numbers, in their order, and all of them
Nth(A, n) == CHOOSE a \in A : Cardinality({b \in A : b < a}) = n - 1
InOrder(A) == [n \in 1..Cardinality(A) |-> Nth(A, n)]

\* The nearest entry at or below an offset, of the first list that has it
Described(file, offset) ==
    LET order == <<"adbi", "exports", "imports", "tpoints">>
        types == <<"ADBI", "EXPORT", "IMPORT", "TPOINT">>
        Here(n) == {o \in Entries(file[order[n]]) : o <= offset}
        best == Max({-1} \cup UNION {Here(n) : n \in 1..4})
        lists == {n \in 1..4 : best \in Here(n)}
        found == J!str_injection_offset(file, offset)
    IN  /\ found.offset = best
        /\ found.type = IF best = -1 THEN "NONE" ELSE types[Min(lists)]

\* Lines with the numbers 10 above their addresses
LineLeads(addrs, offset) ==
    LET lines == IF addrs = {} THEN J!NoList
                 ELSE [n \in 1..Cardinality(addrs) |->
                         [addr |-> Nth(addrs, n), file |-> 0, line |-> 10 + Nth(addrs, n)]]
        below == {a \in addrs : a <= offset}
    IN  J!injfile_addr2line(lines, offset).line = IF below = {} THEN -1 ELSE 10 + Max(below)

------------------------------------------------------------------------------
(* Numbers                                                                  *)

\* The number some characters stand for, or -1
NumberOf(chars, base) ==
    LET value[n \in 0..Len(chars)] == IF n = 0 THEN 0 ELSE base * value[n - 1] + chars[n]
    IN  IF \A n \in 1..Len(chars) : chars[n] \in 0..(base - 1) THEN value[Len(chars)] ELSE -1

StandsFor(chars, base, v) ==
    IF v < 0 THEN Head(chars) = "-" /\ NumberOf(Tail(chars), base) = -v
    ELSE NumberOf(chars, base) = v /\ (Len(chars) > 1 => Head(chars) # 0)

\* Unsigned values that div10l gets wrong: its correction overflows.
Top(W, v) == v >= N!Long(W) - 6

Modifiers == UNION {[1..n -> {"l", "h"}] : n \in 0..3}

\* Where a conversion that begins at n of a format may end
Ends(fmt, n) == {k \in (n + 1)..Len(fmt) : fmt[k] = "d"}

\* Every "%" begins a conversion.
Simple(fmt) ==
    \A n \in 1..Len(fmt) : fmt[n] = "%" =>
        Ends(fmt, n) # {} /\ \A k \in (n + 1)..Min(Ends(fmt, n)) : fmt[k] # "%"

Inside(fmt, n) == \E k \in 1..n : fmt[k] = "%" /\ n <= Min(Ends(fmt, k))

Total(nums) ==
    LET total[n \in 0..Len(nums)] == IF n = 0 THEN 0 ELSE total[n - 1] + nums[n]
    IN  total[Len(nums)]

\* The pieces that are conversions, and the characters of those that are text
Conversions(pieces) ==
    Total([n \in 1..Len(pieces) |-> IF pieces[n].letter = "none" THEN 0 ELSE 1])

Characters(pieces) ==
    Total([n \in 1..Len(pieces) |-> IF pieces[n].letter = "none" THEN Len(pieces[n].text) ELSE 0])

==============================================================================
