-------------------------- MODULE AlgorithmsProofs ---------------------------
(***************************************************************************)
(* Proofs about the algorithms, for every input that the actions of        *)
(* Algorithms build: any packet and any program of values, any order of    *)
(* any number of keys, any sequence of statuses that a thread reports      *)
(* during a call, and the symbols and numbers of InjectableProofs.         *)
(***************************************************************************)
EXTENDS Algorithms, InjectableProofs, SequenceTheorems, FiniteSetTheorems

------------------------------------------------------------------------------
(* Payloads.  Buffers are shorter than SizeLimit cells: the size of a       *)
(* payload is a uint32_t as well.                                           *)

\* One value of the function `check' of payload_check
CheckedAt(wide, check, buf, at) ==
    LET size == Len(buf) - at
        is == P!payload_check_element(wide, buf, at, size)
        Done(verdict) == [is |-> verdict, at |-> at]
    IN  IF is # "correct" THEN Done(is)
        ELSE IF P!payload_element_get_type(buf, at) = P!TERMINATOR
        THEN Done(P!Accept(size = P!payload_element_get_size(wide, buf, at)))
        ELSE IF P!payload_element_get_size(wide, buf, at) = 0 THEN Done("endless")
        ELSE check[P!payload_element_get_next(wide, buf, at)]

Checks(wide, check, buf) ==
    check = [at \in 0..Len(buf) |-> CheckedAt(wide, check, buf, at)]

Verdicts == [is : {"correct", "wrong", "outside", "endless"}, at : Nat]

\* The sizes of an element whose header is in the buffer
LEMMA ElementSize ==
  ASSUME NEW wide \in BOOLEAN, NEW buf \in Seq(Nat), NEW at \in 0..Len(buf), at + 4 <= Len(buf)
  PROVE  LET m == P!payload_element_name_size(buf, at)
             n == P!payload_element_data_size(buf, at)
             size == P!payload_element_get_size(wide, buf, at)
         IN  /\ m \in Nat /\ n \in Nat /\ size \in Nat
             /\ P!payload_element_get_next(wide, buf, at) = at + size
             /\ wide => size >= 4
             /\ m + n + (IF wide THEN 0 ELSE 4) < SizeLimit => size = 4 + m + n
             /\ m + n + 4 < SizeLimit => size = 4 + m + n
<1> DEFINE m == P!payload_element_name_size(buf, at)
           n == P!payload_element_data_size(buf, at)
           size == P!payload_element_get_size(wide, buf, at)
<1>1. m \in Nat /\ n \in Nat
  BY SMT DEF P!payload_element_name_size, P!payload_element_data_size
<1>2. size = IF wide THEN 4 + P!uint32(m + n) ELSE P!uint32(4 + (m + n))
  BY DEF P!payload_element_get_size, P!Header
<1>3. P!payload_element_get_next(wide, buf, at) = at + size
  BY DEF P!payload_element_get_next
<1> HIDE DEF m, n, size
<1>4. P!uint32(m + n) \in Nat /\ P!uint32(4 + (m + n)) \in Nat
  BY <1>1, SizeAssumption DEF P!uint32
<1>5. size \in Nat /\ (wide => size >= 4)
  BY <1>2, <1>4
<1>6. m + n + (IF wide THEN 0 ELSE 4) < SizeLimit => size = 4 + m + n
  BY <1>1, <1>2, SizeAssumption DEF P!uint32
<1>7. m + n + 4 < SizeLimit => size = 4 + m + n
  BY <1>1, <1>2, SizeAssumption DEF P!uint32
<1> QED BY <1>1, <1>3, <1>5, <1>6, <1>7 DEF m, n, size

\* What the tests of sizes leave to the tests of the name and the data
SizesFit(wide, buf, at) ==
    /\ at + 4 <= Len(buf)
    /\ P!payload_element_get_size(wide, buf, at) <= Len(buf) - at
    /\ P!payload_element_name_size(buf, at) \in Nat \ {0}

LEMMA ElementFits ==
  ASSUME NEW wide \in BOOLEAN, NEW buf \in Seq(Nat), NEW at \in 0..Len(buf),
         P!payload_check_element(wide, buf, at, Len(buf) - at) # "wrong"
  PROVE  SizesFit(wide, buf, at)
<1> DEFINE left == Len(buf) - at
<1>0. Len(buf) \in Nat /\ left \in Nat
  OBVIOUS
<1>1. /\ ~(left < P!Header)
      /\ ~(left < P!payload_element_get_size(wide, buf, at))
      /\ P!payload_element_name_size(buf, at) # 0
  BY Zenon DEF P!payload_check_element
<1>2. at + 4 <= Len(buf)
  BY <1>0, <1>1 DEF P!Header
<1>3. /\ P!payload_element_name_size(buf, at) \in Nat
      /\ P!payload_element_get_size(wide, buf, at) \in Nat
  BY <1>2, ElementSize, Zenon
<1> HIDE DEF left
<1>4. P!payload_element_get_size(wide, buf, at) <= left
  BY <1>0, <1>1, <1>3
<1>5. P!payload_element_name_size(buf, at) \in Nat \ {0}
  BY <1>1, <1>3
<1> QED BY <1>2, <1>4, <1>5 DEF SizesFit, left

\* An element that is accepted
Correct(wide, buf, at) ==
    /\ SizesFit(wide, buf, at)
    /\ P!payload_element_data_size(buf, at) \in Nat
    /\ P!payload_element_get_size(wide, buf, at) \in Nat
    /\ P!payload_element_get_next(wide, buf, at) = at + P!payload_element_get_size(wide, buf, at)
    /\ P!payload_element_get_next(wide, buf, at) \in at..Len(buf)
    /\ at + 4 + P!payload_element_name_size(buf, at) \in 1..Len(buf)
    /\ buf[at + 4 + P!payload_element_name_size(buf, at)] = 0
    /\ Len(P!payload_element_get_name(buf, at)) + 1 = P!payload_element_name_size(buf, at)
    /\ P!CheckData(wide, buf, at) = "correct"

\* An element that payload_check_element accepts begins in the buffer and its
\* name lies there; the next one does not begin before it.
LEMMA ElementInside ==
  ASSUME NEW wide \in BOOLEAN, NEW buf \in Seq(Nat), NEW at \in 0..Len(buf),
         P!payload_check_element(wide, buf, at, Len(buf) - at) = "correct"
  PROVE  Correct(wide, buf, at)
<1> DEFINE m == P!payload_element_name_size(buf, at)
           size == P!payload_element_get_size(wide, buf, at)
<1>1. SizesFit(wide, buf, at)
  <2>1. "correct" # "wrong"
    OBVIOUS
  <2> QED BY <2>1, ElementFits, Zenon
<1>2. at + 4 <= Len(buf)
  BY <1>1 DEF SizesFit
<1>3. /\ P!payload_element_data_size(buf, at) \in Nat /\ size \in Nat
      /\ P!payload_element_get_next(wide, buf, at) = at + size
  BY <1>2, ElementSize, Zenon
<1>4. /\ P!IsNull(buf, at + P!Header + m) = "correct"
      /\ Len(P!payload_element_get_name(buf, at)) + 1 = m
      /\ P!CheckData(wide, buf, at) = "correct"
  <2>1. "correct" # "wrong"
    OBVIOUS
  <2> QED BY <2>1, Zenon DEF P!payload_check_element
<1>5. at + P!Header + m \in 1..Len(buf) /\ buf[at + P!Header + m] = 0
  BY <1>4 DEF P!IsNull
<1>6. at + 4 + m \in 1..Len(buf) /\ buf[at + 4 + m] = 0
  BY <1>5, Zenon DEF P!Header
<1>7. at + size \in at..Len(buf)
  <2>1. size <= Len(buf) - at /\ Len(buf) \in Nat
    BY <1>1 DEF SizesFit
  <2> HIDE DEF size
  <2> QED BY <1>3, <2>1
<1> QED BY <1>1, <1>3, <1>4, <1>6, <1>7, Zenon DEF Correct

\* The function `check' of payload_check exists.
LEMMA CheckExists ==
  ASSUME NEW wide \in BOOLEAN, NEW buf \in Seq(Nat)
  PROVE  \E check : Checks(wide, check, buf)
<1> DEFINE D == 0..Len(buf)
           rank == [at \in D |-> Len(buf) - at]
           B == [z \in [D -> Verdicts] \X D |-> CheckedAt(wide, z[1], buf, z[2])]
           Verdict(at) == P!payload_check_element(wide, buf, at, Len(buf) - at)
           Next1(at) == P!payload_element_get_next(wide, buf, at)
           Size(at) == P!payload_element_get_size(wide, buf, at)
<1>0. Len(buf) \in Nat
  OBVIOUS
<1>1. rank \in [D -> 0..Len(buf)]
  BY <1>0
<1>2. ASSUME NEW at \in D, Verdict(at) = "correct", Size(at) # 0
      PROVE  Next1(at) \in D /\ rank[Next1(at)] < rank[at]
  <2> DEFINE next == Next1(at)
             size == Size(at)
  <2>1. next = at + size /\ next \in at..Len(buf) /\ size \in Nat
    BY <1>2, ElementInside, Zenon DEF Correct
  <2> HIDE DEF next, size
  <2>2. next \in D /\ rank[next] < rank[at]
    BY <1>0, <1>2, <2>1 DEF size
  <2> QED BY <2>2 DEF next
<1>3. ASSUME NEW at \in D
      PROVE  Verdict(at) \in {"correct", "wrong", "outside"}
  <2>1. \A c : P!Accept(c) \in {"correct", "wrong"}
    BY DEF P!Accept
  <2>2. \A c : P!IsNull(buf, c) \in {"correct", "wrong", "outside"}
    BY DEF P!IsNull
  <2>3. P!CheckData(wide, buf, at) \in {"correct", "wrong", "outside"}
    BY <2>1, <2>2 DEF P!CheckData
  <2> QED BY <2>2, <2>3 DEF P!payload_check_element
<1>4. ASSUME NEW h \in [D -> Verdicts], NEW at \in D PROVE CheckedAt(wide, h, buf, at) \in Verdicts
  <2>1. \A c : P!Accept(c) \in {"correct", "wrong"}
    BY DEF P!Accept
  <2>2. \A v \in {"correct", "wrong", "outside", "endless"} : [is |-> v, at |-> at] \in Verdicts
    BY <1>0 DEF Verdicts
  <2> HIDE DEF D, rank, B
  <2>3. CASE Verdict(at) = "correct" /\ Size(at) # 0
    <3>1. h[Next1(at)] \in Verdicts
      BY <1>2, <2>3
    <3>2. \A c : [is |-> P!Accept(c), at |-> at] \in Verdicts
      BY <2>1, <2>2
    <3> QED BY <2>2, <2>3, <3>1, <3>2, Zenon DEF CheckedAt
  <2>4. CASE Verdict(at) = "correct" /\ Size(at) = 0
    <3>1. \A c : [is |-> P!Accept(c), at |-> at] \in Verdicts
      BY <2>1, <2>2
    <3>2. [is |-> "endless", at |-> at] \in Verdicts
      BY <2>2
    <3> QED BY <2>4, <3>1, <3>2, Zenon DEF CheckedAt
  <2>5. CASE Verdict(at) # "correct"
    <3>1. [is |-> Verdict(at), at |-> at] \in Verdicts
      BY <1>3, <2>2
    <3> QED BY <2>5, <3>1, Zenon DEF CheckedAt
  <2> QED BY <2>3, <2>4, <2>5
<1>5. B \in [[D -> Verdicts] \X D -> Verdicts]
  BY <1>4
<1>6. \A h \in [D -> Verdicts], at \in D : B[<<h, at>>] = CheckedAt(wide, h, buf, at)
  OBVIOUS
<1>7. Grounded(D, Verdicts, rank, B)
  <2> SUFFICES ASSUME NEW g \in [D -> Verdicts], NEW h \in [D -> Verdicts], NEW at \in D,
                      \A y \in D : rank[y] < rank[at] => g[y] = h[y]
               PROVE  CheckedAt(wide, g, buf, at) = CheckedAt(wide, h, buf, at)
    BY <1>6 DEF Grounded
  <2>1. CASE Verdict(at) = "correct" /\ Size(at) # 0
    <3>1. g[Next1(at)] = h[Next1(at)]
      BY <1>2, <2>1
    <3> QED BY <3>1, Zenon DEF CheckedAt
  <2>2. CASE ~(Verdict(at) = "correct" /\ Size(at) # 0)
    BY <2>2, Zenon DEF CheckedAt
  <2> QED BY <2>1, <2>2
<1>8. PICK h \in [D -> Verdicts] : Solves(h, D, B)
  <2>1. Verdicts # {}
    <3>1. [is |-> "wrong", at |-> 0] \in Verdicts
      BY DEF Verdicts
    <3> QED BY <3>1
  <2> HIDE DEF D, rank, B
  <2> QED BY <1>0, <1>1, <1>5, <1>7, <2>1, RankRecursion
<1>9. h = [at \in D |-> CheckedAt(wide, h, buf, at)]
  <2>1. \A at \in D : h[at] = CheckedAt(wide, h, buf, at)
    BY <1>6, <1>8 DEF Solves
  <2> HIDE DEF D
  <2> QED BY <2>1
<1> QED BY <1>9 DEF Checks

\* payload_check is the value of its `check' at 0.
LEMMA CheckIs ==
  ASSUME NEW wide \in BOOLEAN, NEW buf \in Seq(Nat)
  PROVE  \E check : Checks(wide, check, buf) /\ P!payload_check(wide, buf) = check[0]
<1> DEFINE c == CHOOSE check : Checks(wide, check, buf)
<1>1. Checks(wide, c, buf)
  BY CheckExists, Zenon
<1>2. P!payload_check(wide, buf) = c[0]
  BY Zenon DEF P!payload_check, Checks, CheckedAt
<1> QED BY <1>1, <1>2, Zenon

\* An element whose sizes do not wrap around is not read outside of the buffer.
LEMMA ElementOutside ==
  ASSUME NEW wide \in BOOLEAN, NEW buf \in Seq(Nat), NEW at \in 0..Len(buf),
         P!payload_check_element(wide, buf, at, Len(buf) - at) = "outside"
  PROVE  Wraps(wide, buf, at)
<1> SUFFICES ASSUME ~Wraps(wide, buf, at) PROVE FALSE
  OBVIOUS
<1> DEFINE m == P!payload_element_name_size(buf, at)
           n == P!payload_element_data_size(buf, at)
           size == P!payload_element_get_size(wide, buf, at)
           next == P!payload_element_get_next(wide, buf, at)
           type == P!payload_element_get_type(buf, at)
           last == P!LastOfData(wide, buf, at)
           z == Len(buf)
<1>1. SizesFit(wide, buf, at)
  <2>1. "outside" # "wrong"
    OBVIOUS
  <2> QED BY <2>1, ElementFits, Zenon
<1>2. at + 4 <= z /\ size <= z - at /\ m \in Nat \ {0} /\ z \in Nat
  BY <1>1 DEF SizesFit
<1>3. /\ n \in Nat /\ next = at + size
      /\ m + n + (IF wide THEN 0 ELSE 4) < SizeLimit => size = 4 + m + n
  BY <1>2, ElementSize, Zenon
<1>4. ~(m + n + (IF wide THEN 0 ELSE P!Header) >= SizeLimit) /\ (wide /\ type = P!STR => n # 0)
  BY DEF Wraps
<1>5. last = IF ~wide THEN next ELSE at + P!Header + m + (IF n = 0 THEN SizeLimit ELSE n)
  BY Zenon DEF P!LastOfData
<1>6. \/ P!IsNull(buf, at + P!Header + m) = "outside"
      \/ P!CheckData(wide, buf, at) = "outside"
  <2>1. "outside" # "wrong" /\ "outside" # "correct"
    OBVIOUS
  <2> QED BY <2>1, Zenon DEF P!payload_check_element
<1>7. P!CheckData(wide, buf, at) = "outside" => type = P!STR /\ P!IsNull(buf, last) = "outside"
  <2>1. \A c : P!Accept(c) # "outside"
    BY DEF P!Accept
  <2>2. "wrong" # "outside"
    OBVIOUS
  <2> HIDE DEF last
  <2>3. P!CheckData(wide, buf, at)
          = CASE type = P!TERMINATOR -> P!Accept(n = 0)
              [] type \in {P!U32, P!U64} -> P!Accept(n = P!NumberSize(type))
              [] type = P!STR -> P!IsNull(buf, last)
              [] OTHER -> "wrong"
    BY DEF P!CheckData, last
  <2> HIDE DEF type, n
  <2> QED BY <2>1, <2>2, <2>3 DEF P!TERMINATOR, P!U32, P!U64, P!STR
<1>8. \A c : P!IsNull(buf, c) = "outside" => c \notin 1..z
  BY DEF P!IsNull
<1> HIDE DEF m, n, size, next, type, last, z
<1>9. m + n + (IF wide THEN 0 ELSE 4) < SizeLimit /\ P!Header = 4
  BY <1>2, <1>3, <1>4, SizeAssumption DEF P!Header
<1>10. at + P!Header + m \in 1..z /\ at + P!Header + m + n \in 1..z
  BY <1>2, <1>3, <1>9
<1>11. type = P!STR => last = at + P!Header + m + n
  BY <1>2, <1>3, <1>4, <1>5, <1>9
<1> QED BY <1>6, <1>7, <1>8, <1>10, <1>11, Zenon

\* With 64 bits the sizes of an element that is accepted do not wrap around.
LEMMA WideFits ==
  ASSUME NEW wide \in BOOLEAN, wide, NEW buf \in Seq(Nat), Len(buf) < SizeLimit,
         NEW at \in 0..Len(buf), Correct(wide, buf, at)
  PROVE  ~Wraps(wide, buf, at)
<1> DEFINE m == P!payload_element_name_size(buf, at)
           n == P!payload_element_data_size(buf, at)
           type == P!payload_element_get_type(buf, at)
           last == P!LastOfData(wide, buf, at)
           z == Len(buf)
<1>0. z \in Nat
  OBVIOUS
<1>1. /\ m \in Nat \ {0} /\ n \in Nat /\ at + 4 + m \in 1..z
      /\ P!CheckData(wide, buf, at) = "correct"
  BY Zenon DEF Correct, SizesFit
<1>2. last = at + P!Header + m + (IF n = 0 THEN SizeLimit ELSE n)
  BY Zenon DEF P!LastOfData
<1>3. (type # P!STR => n \in {0, 1, 2}) /\ (type = P!STR => last \in 1..z)
  <2>2. \A c : P!IsNull(buf, c) = "correct" => c \in 1..z
    BY DEF P!IsNull
  <2>3. P!CheckData(wide, buf, at)
          = CASE type = P!TERMINATOR -> P!Accept(n = 0)
              [] type \in {P!U32, P!U64} -> P!Accept(n = P!NumberSize(type))
              [] type = P!STR -> P!IsNull(buf, last)
              [] OTHER -> "wrong"
    BY DEF P!CheckData
  <2> HIDE DEF type, n, last, z
  <2>8. /\ P!STR # P!TERMINATOR /\ P!STR \notin {P!U32, P!U64}
        /\ P!TERMINATOR \notin {P!U32, P!U64}
    BY DEF P!TERMINATOR, P!U32, P!U64, P!STR
  <2>4. CASE type = P!STR
    <3>1. P!CheckData(wide, buf, at) = P!IsNull(buf, last)
      BY <2>3, <2>4, <2>8, Zenon
    <3> QED BY <1>1, <2>2, <2>4, <3>1, Zenon
  <2>5. CASE type = P!TERMINATOR
    <3>1. P!CheckData(wide, buf, at) = P!Accept(n = 0)
      BY <2>3, <2>5, <2>8, Zenon
    <3>2. n = 0
      BY <1>1, <3>1, Zenon DEF P!Accept
    <3> QED BY <2>5, <2>8, <3>2
  <2>6. CASE type \in {P!U32, P!U64}
    <3>1. P!NumberSize(type) \in {1, 2}
      BY <2>6 DEF P!NumberSize, P!U32, P!U64
    <3>3. P!CheckData(wide, buf, at) = P!Accept(n = P!NumberSize(type))
      BY <2>3, <2>6, <2>8, Zenon
    <3>2. n = P!NumberSize(type)
      BY <1>1, <3>3, Zenon DEF P!Accept
    <3> QED BY <2>6, <3>1, <3>2 DEF P!U32, P!U64, P!STR
  <2>7. CASE type \notin {P!TERMINATOR, P!U32, P!U64, P!STR}
    BY <1>1, <2>3, <2>7 DEF P!TERMINATOR, P!U32, P!U64, P!STR
  <2> QED BY <2>4, <2>5, <2>6, <2>7
<1> HIDE DEF m, n, type, last, z
<1>4. z < SizeLimit
  BY DEF z
<1>5. m + n < SizeLimit /\ (type = P!STR => n # 0)
  BY <1>0, <1>1, <1>2, <1>3, <1>4, SizeAssumption DEF P!Header
<1>6. ~(m + n + 0 >= SizeLimit)
  BY <1>1, <1>5, SizeAssumption
<1> QED BY <1>5, <1>6 DEF Wraps, m, n, type

\* The check ends as CheckEnds says, from any element on.
EndsWell(wide, buf, check) ==
    /\ check.is \in {"outside", "endless"} => Wraps(wide, buf, check.at)
    /\ check.is = "endless" => ~wide

\* The last element for which a claim about a buffer does not hold
LEMMA LastOffset ==
  ASSUME NEW size \in Nat, NEW Bad \in SUBSET (0..size), Bad # {}
  PROVE  \E at \in Bad : \A x \in 0..size : x > at => x \notin Bad
<1> DEFINE Back == {k \in 0..size : size - k \in Bad}
<1>1. Back # {}
  <2>1. PICK x \in Bad : x \in 0..size
    OBVIOUS
  <2>2. size - x \in 0..size /\ size - (size - x) = x
    BY <2>1
  <2> QED BY <2>1, <2>2
<1>2. PICK k \in Back : \A j \in Back : k <= j
  <2>1. Back \in SUBSET Nat
    OBVIOUS
  <2> HIDE DEF Back
  <2> QED BY <1>1, <2>1, Least
<1>3. size - k \in Bad /\ k \in 0..size
  BY <1>2
<1>4. ASSUME NEW x \in 0..size, x > size - k, x \in Bad PROVE FALSE
  <2>1. size - x \in 0..size /\ size - (size - x) = x /\ ~(k <= size - x)
    BY <1>3, <1>4
  <2>2. size - x \in Back
    BY <1>4, <2>1
  <2> HIDE DEF Back
  <2> QED BY <1>2, <2>1, <2>2
<1> QED BY <1>3, <1>4

LEMMA CheckedEnds ==
  ASSUME NEW wide \in BOOLEAN, NEW buf \in Seq(Nat), NEW check, Checks(wide, check, buf)
  PROVE  \A at \in 0..Len(buf) : EndsWell(wide, buf, check[at])
<1> DEFINE Bad == {at \in 0..Len(buf) : ~EndsWell(wide, buf, check[at])}
<1>0. Len(buf) \in Nat
  OBVIOUS
<1> SUFFICES ASSUME Bad # {} PROVE FALSE
  BY Zenon
<1>1. PICK at \in Bad : \A x \in 0..Len(buf) : x > at => x \notin Bad
  <2>1. Bad \in SUBSET (0..Len(buf))
    OBVIOUS
  <2> HIDE DEF Bad
  <2> QED BY <1>0, <2>1, LastOffset
<1> DEFINE size == P!payload_element_get_size(wide, buf, at)
           next == P!payload_element_get_next(wide, buf, at)
           is == P!payload_check_element(wide, buf, at, Len(buf) - at)
<1>2. at \in 0..Len(buf) /\ ~EndsWell(wide, buf, check[at])
  BY <1>1
<1>3. check[at] = CheckedAt(wide, check, buf, at)
  BY <1>2 DEF Checks
<1>4. CASE is # "correct"
  <2>1. check[at] = [is |-> is, at |-> at]
    BY <1>3, <1>4, Zenon DEF CheckedAt
  <2>2. check[at].is = is /\ check[at].at = at
    BY <2>1
  <2>3. is # "endless"
    <3>1. \A c : P!Accept(c) # "endless"
      BY DEF P!Accept
    <3>2. \A c : P!IsNull(buf, c) # "endless"
      BY DEF P!IsNull
    <3>3. P!CheckData(wide, buf, at) # "endless"
      BY <3>1, <3>2 DEF P!CheckData
    <3> QED BY <3>2, <3>3 DEF P!payload_check_element
  <2>4. is = "outside" => Wraps(wide, buf, at)
    BY <1>2, ElementOutside
  <2> HIDE DEF is
  <2> QED BY <1>2, <2>2, <2>3, <2>4 DEF EndsWell
<1>5. CASE is = "correct" /\ P!payload_element_get_type(buf, at) = P!TERMINATOR
  <2> DEFINE v == P!Accept(Len(buf) - at = size)
  <2>1. check[at] = [is |-> v, at |-> at]
    BY <1>3, <1>5, Zenon DEF CheckedAt
  <2>2. v \in {"correct", "wrong"}
    BY DEF P!Accept
  <2> HIDE DEF v
  <2> QED BY <1>2, <2>1, <2>2 DEF EndsWell
<1>6. CASE is = "correct" /\ P!payload_element_get_type(buf, at) # P!TERMINATOR
  <2> DEFINE m == P!payload_element_name_size(buf, at)
             n == P!payload_element_data_size(buf, at)
  <2>1. size \in Nat /\ next = at + size /\ next \in at..Len(buf) /\ at + 4 <= Len(buf)
    BY <1>2, <1>6, ElementInside, Zenon DEF Correct, SizesFit
  <2>2. CASE size = 0
    <3>1. check[at] = [is |-> "endless", at |-> at]
      BY <1>3, <1>6, <2>2, Zenon DEF CheckedAt
    <3>2. /\ m \in Nat /\ n \in Nat /\ (wide => size >= 4)
          /\ m + n + (IF wide THEN 0 ELSE 4) < SizeLimit => size = 4 + m + n
      BY <1>2, <2>1, ElementSize, Zenon
    <3> HIDE DEF size, m, n
    <3>3. ~wide /\ m + n + 4 >= SizeLimit
      BY <2>2, <3>2, SizeAssumption
    <3>4. m + n + (IF wide THEN 0 ELSE P!Header) >= SizeLimit
      BY <3>3 DEF P!Header
    <3>5. Wraps(wide, buf, at)
      BY <3>4, Zenon DEF Wraps, m, n
    <3> QED BY <1>2, <3>1, <3>3, <3>5 DEF EndsWell
  <2>3. CASE size # 0
    <3>1. check[at] = check[next]
      BY <1>3, <1>6, <2>3, Zenon DEF CheckedAt
    <3> HIDE DEF size, next
    <3>2. next \in 0..Len(buf) /\ next > at
      BY <1>2, <2>1, <2>3
    <3>3. next \notin Bad
      BY <1>1, <3>2
    <3> QED BY <1>2, <3>1, <3>2, <3>3
  <2> QED BY <2>2, <2>3
<1> QED BY <1>4, <1>5, <1>6

\* One value of the function `find' of payload_find
FoundAt(wide, find, buf, name, at) ==
    IF at + P!Header > Len(buf) THEN P!Beyond
    ELSE IF P!payload_element_get_type(buf, at) = P!TERMINATOR THEN P!NULL
    ELSE IF P!payload_element_get_name(buf, at) = P!Outside THEN P!Beyond
    ELSE IF P!payload_element_get_name(buf, at) = name THEN at
    ELSE IF P!payload_element_get_next(wide, buf, at) \notin (at + 1)..Len(buf) THEN P!Beyond
    ELSE find[P!payload_element_get_next(wide, buf, at)]

Finds(wide, find, buf, name) ==
    find = [at \in 0..Len(buf) |-> FoundAt(wide, find, buf, name, at)]

\* The function `find' of payload_find exists.
LEMMA FindExists ==
  ASSUME NEW wide \in BOOLEAN, NEW buf \in Seq(Nat), NEW name
  PROVE  \E find : Finds(wide, find, buf, name)
<1> DEFINE D == 0..Len(buf)
           rank == [at \in D |-> Len(buf) - at]
           B == [z \in [D -> Int] \X D |-> FoundAt(wide, z[1], buf, name, z[2])]
<1>0. Len(buf) \in Nat
  OBVIOUS
<1>1. rank \in [D -> 0..Len(buf)]
  BY <1>0
<1>2. ASSUME NEW at \in D, NEW next \in (at + 1)..Len(buf)
      PROVE  next \in D /\ rank[next] < rank[at]
  BY <1>0
<1>3. ASSUME NEW h \in [D -> Int], NEW at \in D PROVE FoundAt(wide, h, buf, name, at) \in Int
  <2>1. at \in Int /\ P!Beyond \in Int /\ P!NULL \in Int
    BY DEF P!Beyond, P!NULL
  <2> QED BY <1>2, <2>1, Zenon DEF FoundAt
<1>4. B \in [[D -> Int] \X D -> Int]
  BY <1>3
<1>5. \A h \in [D -> Int], at \in D : B[<<h, at>>] = FoundAt(wide, h, buf, name, at)
  OBVIOUS
<1>6. Grounded(D, Int, rank, B)
  <2> SUFFICES ASSUME NEW g \in [D -> Int], NEW h \in [D -> Int], NEW at \in D,
                      \A y \in D : rank[y] < rank[at] => g[y] = h[y]
               PROVE  FoundAt(wide, g, buf, name, at) = FoundAt(wide, h, buf, name, at)
    BY <1>5 DEF Grounded
  <2> QED BY <1>2, Zenon DEF FoundAt
<1>7. PICK h \in [D -> Int] : Solves(h, D, B)
  <2>1. Int # {}
    <3>1. 0 \in Int
      OBVIOUS
    <3> QED BY <3>1
  <2> HIDE DEF D, rank, B
  <2> QED BY <1>0, <1>1, <1>4, <1>6, <2>1, RankRecursion
<1>8. h = [at \in D |-> FoundAt(wide, h, buf, name, at)]
  <2>1. \A at \in D : h[at] = FoundAt(wide, h, buf, name, at)
    BY <1>5, <1>7 DEF Solves
  <2> HIDE DEF D
  <2> QED BY <2>1
<1> QED BY <1>8 DEF Finds

\* payload_find is the value of its `find' at 0.
LEMMA FindIs ==
  ASSUME NEW wide \in BOOLEAN, NEW buf \in Seq(Nat), NEW name
  PROVE  \E find : Finds(wide, find, buf, name) /\ P!payload_find(wide, buf, name) = find[0]
<1> DEFINE c == CHOOSE find : Finds(wide, find, buf, name)
<1>1. Finds(wide, c, buf, name)
  BY FindExists, Zenon
<1>2. P!payload_find(wide, buf, name) = c[0]
  BY Zenon DEF P!payload_find, Finds, FoundAt
<1> QED BY <1>1, <1>2, Zenon

\* An element that payload_check_element accepts has a name.
LEMMA NameInside ==
  ASSUME NEW wide \in BOOLEAN, NEW buf \in Seq(Nat), NEW at \in 0..Len(buf),
         Correct(wide, buf, at)
  PROVE  P!payload_element_get_name(buf, at) # P!Outside
<1> DEFINE nulls == {n \in (at + 5)..Len(buf) : buf[n] = 0}
           last == CHOOSE n \in nulls : \A m \in nulls : n <= m
           m1 == P!payload_element_name_size(buf, at)
           k == at + 4 + m1
<1>1. k \in 1..Len(buf) /\ buf[k] = 0 /\ m1 \in Nat \ {0}
  BY Zenon DEF Correct, SizesFit
<1>2. k \in (at + 5)..Len(buf)
  <2> HIDE DEF m1, nulls, last
  <2> QED BY <1>1
<1>3. nulls # {} /\ nulls \in SUBSET Nat
  BY <1>1, <1>2
<1>4. last \in nulls
  <2> HIDE DEF nulls
  <2>1. \E n \in nulls : \A m \in nulls : n <= m
    BY <1>3, Least
  <2> QED BY <2>1
<1>5. at + P!Header + 1 = at + 5
  BY DEF P!Header
<1>6. P!payload_element_get_name(buf, at) = SubSeq(buf, at + 5, last - 1)
  BY <1>3, <1>5, Zenon DEF P!payload_element_get_name
<1>7. ASSUME SubSeq(buf, at + 5, last - 1) = <<-1>> PROVE FALSE
  <2>1. last \in (at + 5)..Len(buf)
    BY <1>4
  <2> HIDE DEF last
  <2>2. Len(SubSeq(buf, at + 5, last - 1)) = 1 /\ SubSeq(buf, at + 5, last - 1)[1] = -1
    <3>1. Len(<<-1>>) = 1 /\ <<-1>>[1] = -1
      OBVIOUS
    <3> QED BY <1>7, <3>1, Zenon
  <2>3. SubSeq(buf, at + 5, last - 1)[1] = buf[at + 5]
    BY <2>1, <2>2
  <2>4. buf[at + 5] \in Nat
    BY <2>1
  <2>5. -1 \notin Nat
    OBVIOUS
  <2> QED BY <2>2, <2>3, <2>4, <2>5, Zenon
<1> QED BY <1>6, <1>7 DEF P!Outside

\* What a search finds in a checked buffer also has the name.
FoundInside(wide, buf, name, at) ==
    /\ GoodFind(wide, buf, name, at)
    /\ at >= 0 => at \in 0..Len(buf) /\ P!payload_element_get_name(buf, at) = name

\* Reading a buffer that payload_check accepts, from any element on that it
\* has accepted
LEMMA CheckedFind ==
  ASSUME NEW wide \in BOOLEAN, NEW buf \in Seq(Nat), Len(buf) < SizeLimit,
         NEW name \in Seq(Nat), NEW check, Checks(wide, check, buf),
         NEW find, Finds(wide, find, buf, name)
  PROVE  \A at \in 0..Len(buf) :
             check[at].is = "correct" => FoundInside(wide, buf, name, find[at])
<1> DEFINE Claim(at) == check[at].is = "correct" => FoundInside(wide, buf, name, find[at])
           Bad == {at \in 0..Len(buf) : ~Claim(at)}
<1>0. Len(buf) \in Nat
  OBVIOUS
<1> SUFFICES ASSUME Bad # {} PROVE FALSE
  BY Zenon
<1>1. PICK at \in Bad : \A x \in 0..Len(buf) : x > at => x \notin Bad
  <2>1. Bad \in SUBSET (0..Len(buf))
    OBVIOUS
  <2> HIDE DEF Bad
  <2> QED BY <1>0, <2>1, LastOffset
<1> DEFINE size == P!payload_element_get_size(wide, buf, at)
           next == P!payload_element_get_next(wide, buf, at)
           is == P!payload_check_element(wide, buf, at, Len(buf) - at)
           m == P!payload_element_name_size(buf, at)
           n == P!payload_element_data_size(buf, at)
<1>2. at \in 0..Len(buf) /\ check[at].is = "correct" /\ ~FoundInside(wide, buf, name, find[at])
  BY <1>1
<1>4. check[at] = CheckedAt(wide, check, buf, at) /\ find[at] = FoundAt(wide, find, buf, name, at)
  BY <1>2 DEF Checks, Finds
<1>5. is = "correct"
  <2> SUFFICES ASSUME is # "correct" PROVE FALSE
    OBVIOUS
  <2>1. check[at] = [is |-> is, at |-> at]
    BY <1>4, Zenon DEF CheckedAt
  <2>2. check[at].is = is
    BY <2>1
  <2> QED BY <1>2, <2>2
<1>6. Correct(wide, buf, at)
  BY <1>2, <1>5, ElementInside
<1>9. /\ at + 4 <= Len(buf) /\ next = at + size /\ size \in Nat
      /\ next \in at..Len(buf) /\ m \in Nat /\ n \in Nat
  BY <1>6, Zenon DEF Correct, SizesFit
<1>10. ~(at + P!Header > Len(buf))
  BY <1>2, <1>9 DEF P!Header
<1>7. CASE P!payload_element_get_type(buf, at) = P!TERMINATOR
  <2>1. find[at] = P!NULL
    BY <1>4, <1>7, <1>10, Zenon DEF FoundAt
  <2>2. P!NULL # P!Beyond /\ ~(P!NULL >= 0)
    BY DEF P!NULL, P!Beyond
  <2>3. FoundInside(wide, buf, name, P!NULL)
    BY <2>2, Zenon DEF FoundInside, GoodFind
  <2> QED BY <1>2, <2>1, <2>3, Zenon
<1>8. CASE P!payload_element_get_type(buf, at) # P!TERMINATOR
  <2>1. size # 0
    <3> SUFFICES ASSUME size = 0 PROVE FALSE
      OBVIOUS
    <3>1. check[at] = [is |-> "endless", at |-> at]
      BY <1>4, <1>5, <1>8, Zenon DEF CheckedAt
    <3> QED BY <1>2, <3>1
  <2>2. check[at] = check[next]
    BY <1>4, <1>5, <1>8, <2>1, Zenon DEF CheckedAt
  <2>3. next \in 0..Len(buf) /\ next > at /\ next \in (at + 1)..Len(buf)
    <3> HIDE DEF size, next
    <3> QED BY <1>2, <1>9, <2>1
  <2>4. check[next].is = "correct"
    BY <1>2, <2>2, Zenon
  <2>5. FoundInside(wide, buf, name, find[next])
    <3> HIDE DEF next
    <3>1. next \notin Bad
      BY <1>1, <2>3
    <3> QED BY <2>3, <2>4, <3>1
  <2>6. next < Len(buf)
    <3> HIDE DEF next
    <3>1. check[next] = CheckedAt(wide, check, buf, next)
      BY <2>3 DEF Checks
    <3>2. P!payload_check_element(wide, buf, next, Len(buf) - next) = "correct"
      <4> DEFINE is1 == P!payload_check_element(wide, buf, next, Len(buf) - next)
      <4> SUFFICES ASSUME is1 # "correct" PROVE FALSE
        OBVIOUS
      <4>1. check[next] = [is |-> is1, at |-> next]
        BY <3>1, Zenon DEF CheckedAt
      <4>2. check[next].is = is1
        BY <4>1
      <4> QED BY <2>4, <4>2
    <3>3. next + 4 <= Len(buf)
      BY <2>3, <3>2, ElementInside, Zenon DEF Correct, SizesFit
    <3> QED BY <1>0, <2>3, <3>3
  <2>7. P!payload_element_get_name(buf, at) # P!Outside
    BY <1>2, <1>6, NameInside
  <2>8. CASE P!payload_element_get_name(buf, at) = name
    <3>1. find[at] = at
      BY <1>4, <1>8, <1>10, <2>7, <2>8, Zenon DEF FoundAt
    <3>2. m = Len(name) + 1
      BY <1>6, <2>8, Zenon DEF Correct
    <3>3. at # P!Beyond
      BY <1>2 DEF P!Beyond
    <3>4. ~Wraps(wide, buf, at) => at + P!Header + m + n < Len(buf)
      <4> SUFFICES ASSUME ~Wraps(wide, buf, at) PROVE at + P!Header + m + n < Len(buf)
        OBVIOUS
      <4>1. ~(m + n + (IF wide THEN 0 ELSE P!Header) >= SizeLimit)
        BY DEF Wraps
      <4>2. m + n + (IF wide THEN 0 ELSE 4) < SizeLimit => size = 4 + m + n
        BY <1>2, <1>9, ElementSize, Zenon
      <4> HIDE DEF size, next, m, n
      <4> QED BY <1>2, <1>9, <2>6, <4>1, <4>2, SizeAssumption DEF P!Header
    <3>5. wide => ~Wraps(wide, buf, at)
      BY <1>2, <1>6, WideFits
    <3>6. GoodFind(wide, buf, name, at)
      BY <2>6, <3>2, <3>3, <3>4, <3>5, Zenon DEF GoodFind
    <3> QED BY <1>2, <2>8, <3>1, <3>6, Zenon DEF FoundInside
  <2>9. CASE P!payload_element_get_name(buf, at) # name
    <3>1. find[at] = find[next]
      BY <1>4, <1>8, <1>10, <2>3, <2>7, <2>9, Zenon DEF FoundAt
    <3> QED BY <1>2, <2>5, <3>1, Zenon
  <2> QED BY <2>8, <2>9
<1> QED BY <1>7, <1>8

\* Whatever is received, by a server of 32 or of 64 bits: payload_check ends
\* and reads the buffer only, but at an element whose sizes wrap around.  A
\* search in a payload that it accepts stays in the buffer; what is found there
\* has the name, and its data lie inside unless their size wraps around, which
\* the check of a 64-bit server does not accept.
THEOREM ReadsInside ==
  ASSUME NEW wide \in BOOLEAN, NEW buf \in Seq(0..(SizeLimit - 1)), Len(buf) < SizeLimit
  PROVE  /\ CheckEnds(wide, buf)
         /\ P!payload_check(wide, buf).is = "correct" =>
              \A name \in Seq(Nat) :
                  FoundInside(wide, buf, name, P!payload_find(wide, buf, name))
<1>0. buf \in Seq(Nat) /\ 0 \in 0..Len(buf)
  <2>1. 0..(SizeLimit - 1) \subseteq Nat
    BY SizeAssumption
  <2>2. buf \in Seq(Nat)
    BY <2>1, SeqMonotonic
  <2> QED BY <2>2
<1>1. PICK check : Checks(wide, check, buf) /\ P!payload_check(wide, buf) = check[0]
  BY <1>0, CheckIs
<1>2. CheckEnds(wide, buf)
  <2>1. EndsWell(wide, buf, check[0])
    BY <1>0, <1>1, CheckedEnds
  <2> QED BY <1>1, <2>1, Zenon DEF CheckEnds, EndsWell
<1>3. ASSUME P!payload_check(wide, buf).is = "correct", NEW name \in Seq(Nat)
      PROVE  FoundInside(wide, buf, name, P!payload_find(wide, buf, name))
  <2>1. PICK find : Finds(wide, find, buf, name) /\ P!payload_find(wide, buf, name) = find[0]
    BY <1>0, FindIs
  <2>2. check[0].is = "correct"
    BY <1>1, <1>3, Zenon
  <2>3. FoundInside(wide, buf, name, find[0])
    BY <1>0, <1>1, <2>1, <2>2, CheckedFind
  <2> QED BY <2>1, <2>3, Zenon
<1> QED BY <1>2, <1>3

\* A buffer that has been built so far
Buffers == [buf : Seq(Nat), allocated : Nat \ {0}]

\* payload_append_bytes puts the data behind what is there, in a buffer that
\* is large enough.
LEMMA Appended ==
  ASSUME NEW pb \in Buffers, NEW data \in Seq(Nat)
  PROVE  LET q == P!payload_append_bytes(pb, data)
         IN  q \in Buffers /\ q.buf = pb.buf \o data /\ Len(q.buf) <= q.allocated
<1> DEFINE need == Len(data) + Len(pb.buf)
           c == CHOOSE allocate : Allocates(allocate, need)
           q == P!payload_append_bytes(pb, data)
<1>1. need \in Nat /\ pb.buf \in Seq(Nat) /\ pb.allocated \in Nat \ {0}
  BY DEF Buffers
<1>2. Allocates(c, need)
  BY <1>1, Doubling, Zenon
<1>3. c[pb.allocated] \in Nat \ {0} /\ c[pb.allocated] >= need
  <2> HIDE DEF c, need
  <2> QED BY <1>1, <1>2, Doubling
<1>4. q = [buf |-> pb.buf \o data, allocated |-> c[pb.allocated]]
  BY Zenon DEF P!payload_append_bytes, Allocates, AllocateAt
<1>5. pb.buf \o data \in Seq(Nat) /\ Len(pb.buf \o data) = need
  BY <1>1
<1> HIDE DEF c, need, q
<1>6. q \in Buffers /\ q.buf = pb.buf \o data /\ Len(q.buf) <= q.allocated
  BY <1>1, <1>3, <1>4, <1>5 DEF Buffers
<1> QED BY <1>6 DEF q

\* The cells of an element
ElementAt(buf, at, type, name, data) ==
    /\ at + 5 + Len(name) + Len(data) <= Len(buf)
    /\ buf[at + 1] = type /\ buf[at + 3] = Len(name) + 1 /\ buf[at + 4] = Len(data)
    /\ \A n \in 1..Len(name) : buf[at + 4 + n] = name[n]
    /\ buf[at + 5 + Len(name)] = 0
    /\ \A n \in 1..Len(data) : buf[at + 5 + Len(name) + n] = data[n]

\* A buffer that begins with another one
Begins(buf, first) ==
    /\ Len(first) <= Len(buf)
    /\ \A n \in 1..Len(first) : buf[n] = first[n]

\* payload_add_element puts an element behind the others.
LEMMA Added ==
  ASSUME NEW pb \in Buffers, NEW type \in Nat, NEW name \in Seq(Nat), NEW data \in Seq(Nat)
  PROVE  LET q == P!payload_add_element(pb, type, name, data)
         IN  /\ q \in Buffers
             /\ Len(q.buf) = Len(pb.buf) + 5 + Len(name) + Len(data)
             /\ Begins(q.buf, pb.buf)
             /\ ElementAt(q.buf, Len(pb.buf), type, name, data)
             /\ Len(q.buf) <= q.allocated
<1> DEFINE info == <<type, 0, Len(name) + 1, Len(data)>>
           name0 == name \o <<0>>
           p1 == P!payload_append_bytes(pb, info)
           p2 == P!payload_append_bytes(p1, name0)
           q == P!payload_append_bytes(p2, data)
<1>0. q = P!payload_add_element(pb, type, name, data)
  BY DEF P!payload_add_element
<1>1. /\ info \in Seq(Nat) /\ Len(info) = 4
      /\ info[1] = type /\ info[3] = Len(name) + 1 /\ info[4] = Len(data)
  OBVIOUS
<1>2. /\ name0 \in Seq(Nat) /\ Len(name0) = Len(name) + 1
      /\ \A n \in 1..Len(name) : name0[n] = name[n]
      /\ name0[Len(name) + 1] = 0
  OBVIOUS
<1> HIDE DEF info, name0
<1>3. p1 \in Buffers /\ p1.buf = pb.buf \o info
  BY <1>1, Appended
<1> HIDE DEF p1
<1>4. p2 \in Buffers /\ p2.buf = p1.buf \o name0
  BY <1>2, <1>3, Appended
<1> HIDE DEF p2
<1>5. q \in Buffers /\ q.buf = p2.buf \o data /\ Len(q.buf) <= q.allocated
  BY <1>4, Appended
<1> HIDE DEF q
<1> DEFINE b0 == pb.buf
           b1 == b0 \o info
           b2 == b1 \o name0
           b3 == b2 \o data
<1>6. b0 \in Seq(Nat) /\ b1 \in Seq(Nat) /\ b2 \in Seq(Nat) /\ b3 \in Seq(Nat)
  BY <1>1, <1>2 DEF Buffers
<1>7. /\ Len(b1) = Len(b0) + 4
      /\ \A n \in 1..Len(b0) : b1[n] = b0[n]
      /\ \A n \in 1..4 : b1[Len(b0) + n] = info[n]
  <2>0. b0 \in Seq(Nat) /\ info \in Seq(Nat)
    BY <1>1, <1>6
  <2> HIDE DEF b0, b2, b3
  <2>1. /\ Len(b0 \o info) = Len(b0) + Len(info)
        /\ \A n \in 1..Len(b0) : (b0 \o info)[n] = b0[n]
        /\ \A n \in 1..Len(info) : (b0 \o info)[Len(b0) + n] = info[n]
    BY <2>0, Joined
  <2> QED BY <1>1, <2>1
<1>8. /\ Len(b2) = Len(b1) + Len(name) + 1
      /\ \A n \in 1..Len(b1) : b2[n] = b1[n]
      /\ \A n \in 1..(Len(name) + 1) : b2[Len(b1) + n] = name0[n]
  <2> HIDE DEF b1
  <2>1. Len(b2) = Len(b1) + Len(name0)
    BY <1>2, <1>6, Joined
  <2>2. Len(b2) = Len(b1) + Len(name) + 1
    BY <1>2, <1>6, <2>1
  <2> QED BY <1>2, <1>6, <2>2, Joined
<1>9. /\ Len(b3) = Len(b2) + Len(data)
      /\ \A n \in 1..Len(b2) : b3[n] = b2[n]
      /\ \A n \in 1..Len(data) : b3[Len(b2) + n] = data[n]
  <2> HIDE DEF b2
  <2> QED BY <1>6, Joined
<1>10. q.buf = b3
  BY <1>3, <1>4, <1>5
<1> HIDE DEF b0, b1, b2, b3
<1>11. Len(b0) \in Nat /\ Len(name) \in Nat /\ Len(data) \in Nat
  BY <1>6
<1>12. Len(b3) = Len(b0) + 5 + Len(name) + Len(data)
  BY <1>7, <1>8, <1>9, <1>11
<1>13. Begins(b3, b0)
  BY <1>7, <1>8, <1>9, <1>11, <1>12 DEF Begins
<1>14. ElementAt(b3, Len(b0), type, name, data)
  <2>1. /\ b3[Len(b0) + 1] = info[1] /\ b3[Len(b0) + 3] = info[3] /\ b3[Len(b0) + 4] = info[4]
    <3> SUFFICES ASSUME NEW n \in 1..4 PROVE b3[Len(b0) + n] = info[n]
      OBVIOUS
    <3>1. Len(b0) + n \in 1..Len(b1) /\ Len(b0) + n \in 1..Len(b2)
      BY <1>7, <1>8, <1>11
    <3> QED BY <1>7, <1>8, <1>9, <3>1
  <2>2. \A n \in 1..(Len(name) + 1) : b3[Len(b0) + 4 + n] = name0[n]
    <3> SUFFICES ASSUME NEW n \in 1..(Len(name) + 1) PROVE b3[Len(b0) + 4 + n] = name0[n]
      OBVIOUS
    <3>1. Len(b0) + 4 + n \in 1..Len(b2) /\ Len(b1) = Len(b0) + 4
      BY <1>7, <1>8, <1>11
    <3>2. b2[Len(b0) + 4 + n] = name0[n]
      BY <1>8, <3>1
    <3> QED BY <1>9, <3>1, <3>2
  <2>3. \A n \in 1..Len(name) : b3[Len(b0) + 4 + n] = name[n]
    BY <1>2, <1>11, <2>2
  <2>4. b3[Len(b0) + 5 + Len(name)] = 0
    <3>1. Len(name) + 1 \in 1..(Len(name) + 1) /\ Len(b0) + 4 + (Len(name) + 1) = Len(b0) + 5 + Len(name)
      BY <1>11
    <3> QED BY <1>2, <2>2, <3>1
  <2>5. \A n \in 1..Len(data) : b3[Len(b0) + 5 + Len(name) + n] = data[n]
    <3>1. Len(b2) = Len(b0) + 5 + Len(name)
      BY <1>7, <1>8, <1>11
    <3> QED BY <1>9, <3>1
  <2> QED BY <1>1, <1>11, <1>12, <2>1, <2>3, <2>4, <2>5 DEF ElementAt
<1> QED BY <1>0, <1>5, <1>10, <1>12, <1>13, <1>14 DEF b0

\* An element stays where it is when others are put behind it.
LEMMA ElementStays ==
  ASSUME NEW buf \in Seq(Nat), NEW first \in Seq(Nat), Begins(buf, first),
         NEW at \in Nat, NEW type, NEW name \in Seq(Nat), NEW data \in Seq(Nat),
         ElementAt(first, at, type, name, data)
  PROVE  ElementAt(buf, at, type, name, data)
<1>1. Len(name) \in Nat /\ Len(data) \in Nat /\ Len(first) \in Nat /\ Len(buf) \in Nat
  OBVIOUS
<1>2. Len(first) <= Len(buf) /\ \A n \in 1..Len(first) : buf[n] = first[n]
  BY DEF Begins
<1> DEFINE u == Len(name)
           v == Len(data)
<1>3. at + 5 + u + v <= Len(first)
  BY DEF ElementAt
<1> HIDE DEF u, v
<1>0. u \in Nat /\ v \in Nat
  BY <1>1 DEF u, v
<1>4. buf[at + 1] = first[at + 1] /\ buf[at + 3] = first[at + 3] /\ buf[at + 4] = first[at + 4]
  <2>1. at + 1 \in 1..Len(first) /\ at + 3 \in 1..Len(first) /\ at + 4 \in 1..Len(first)
    BY <1>0, <1>1, <1>3
  <2> QED BY <1>2, <2>1
<1>5. ASSUME NEW n \in 1..u PROVE buf[at + 4 + n] = first[at + 4 + n]
  <2>1. at + 4 + n \in 1..Len(first)
    BY <1>0, <1>1, <1>3
  <2> QED BY <1>2, <2>1
<1>6. buf[at + 5 + u] = first[at + 5 + u]
  <2>1. at + 5 + u \in 1..Len(first)
    BY <1>0, <1>1, <1>3
  <2> QED BY <1>2, <2>1
<1>7. ASSUME NEW n \in 1..v PROVE buf[at + 5 + u + n] = first[at + 5 + u + n]
  <2>1. at + 5 + u + n \in 1..Len(first)
    BY <1>0, <1>1, <1>3
  <2> QED BY <1>2, <2>1
<1>8. at + 5 + u + v <= Len(buf)
  BY <1>0, <1>1, <1>2, <1>3
<1> QED BY <1>4, <1>5, <1>6, <1>7, <1>8 DEF ElementAt, u, v

\* What is read at an offset
ReadsAs(wide, buf, at, type, name, data) ==
    /\ at \in 0..Len(buf) /\ at + 4 <= Len(buf)
    /\ P!payload_element_get_type(buf, at) = type
    /\ P!payload_element_name_size(buf, at) = Len(name) + 1
    /\ P!payload_element_data_size(buf, at) = Len(data)
    /\ P!payload_element_get_next(wide, buf, at) = at + 5 + Len(name) + Len(data)
    /\ P!payload_element_get_name(buf, at) = name
    /\ P!payload_element_get_data(buf, at) = data

\* An element is read as it was put.
LEMMA ElementRead ==
  ASSUME NEW wide \in BOOLEAN, NEW buf \in Seq(Nat), Len(buf) < SizeLimit, NEW at \in Nat, NEW type \in Nat,
         NEW name \in Seq(Nat \ {0}), NEW data \in Seq(Nat),
         ElementAt(buf, at, type, name, data)
  PROVE  ReadsAs(wide, buf, at, type, name, data)
<1> DEFINE u == Len(name)
           v == Len(data)
           z == Len(buf)
<1>0. u \in Nat /\ v \in Nat /\ z \in Nat /\ name \in Seq(Nat)
  OBVIOUS
<1>1. /\ at + 5 + u + v <= z
      /\ buf[at + 1] = type /\ buf[at + 3] = u + 1 /\ buf[at + 4] = v
      /\ \A n \in 1..u : buf[at + 4 + n] = name[n]
      /\ buf[at + 5 + u] = 0
      /\ \A n \in 1..v : buf[at + 5 + u + n] = data[n]
  BY DEF ElementAt
<1>2. /\ P!payload_element_get_type(buf, at) = type
      /\ P!payload_element_name_size(buf, at) = u + 1
      /\ P!payload_element_data_size(buf, at) = v
  BY <1>1 DEF P!payload_element_get_type, P!payload_element_name_size, P!payload_element_data_size
<1>6. at \in 0..z /\ at + 4 <= z
  <2> HIDE DEF u, v, z
  <2> QED BY <1>0, <1>1
<1>3. P!payload_element_get_next(wide, buf, at) = at + 5 + u + v
  <2> DEFINE size == P!payload_element_get_size(wide, buf, at)
  <2>1. /\ P!payload_element_get_next(wide, buf, at) = at + size
        /\ (u + 1) + v + 4 < SizeLimit => size = 4 + (u + 1) + v
    BY <1>2, <1>6, ElementSize, Zenon
  <2>2. z < SizeLimit
    OBVIOUS
  <2> HIDE DEF u, v, z, size
  <2>3. (u + 1) + v + 4 < SizeLimit
    <3>1. at + 5 + u + v <= z /\ SizeLimit \in Nat /\ at \in Nat
      BY <1>1, SizeAssumption
    <3> QED BY <1>0, <2>2, <3>1
  <2> QED BY <1>0, <2>1, <2>3
<1>4. P!payload_element_get_name(buf, at) = name
  <2> DEFINE nulls == {n \in (at + 5)..z : buf[n] = 0}
             last == CHOOSE n \in nulls : \A m \in nulls : n <= m
  <2>1. at + 5 + u \in nulls
    <3> HIDE DEF u, v, z
    <3>1. at + 5 + u \in (at + 5)..z
      BY <1>0, <1>1
    <3> QED BY <1>1, <3>1
  <2>2. \A m \in nulls : at + 5 + u <= m
    <3> SUFFICES ASSUME NEW m \in (at + 5)..z, buf[m] = 0, ~(at + 5 + u <= m) PROVE FALSE
      OBVIOUS
    <3>1. m - at - 4 \in 1..u /\ at + 4 + (m - at - 4) = m
      BY <1>0
    <3>2. name[m - at - 4] = 0
      BY <1>1, <3>1
    <3>3. name[m - at - 4] \in Nat \ {0}
      BY <3>1
    <3> QED BY <3>2, <3>3
  <2>3. \A m \in nulls : m \in Int
    OBVIOUS
  <2>4. last = at + 5 + u
    <3> HIDE DEF nulls, u
    <3>1. last \in nulls /\ \A m \in nulls : last <= m
      BY <2>1, <2>2
    <3> HIDE DEF last
    <3>2. last <= at + 5 + u /\ at + 5 + u <= last /\ last \in Int
      BY <2>1, <2>2, <2>3, <3>1
    <3> QED BY <1>0, <3>2
  <2>5. P!payload_element_get_name(buf, at) = SubSeq(buf, at + 5, last - 1)
    <3>1. at + P!Header + 1 = at + 5
      BY DEF P!Header
    <3>2. nulls # {}
      BY <2>1
    <3> QED BY <3>1, <3>2, Zenon DEF P!payload_element_get_name
  <2>6. SubSeq(buf, at + 5, at + 5 + u - 1) = name
    <3> DEFINE k == at + 4
               sub == SubSeq(buf, k + 1, k + u)
    <3>0. k + 1 = at + 5 /\ k + u = at + 5 + u - 1 /\ k \in Nat /\ k + u <= Len(buf)
      <4> HIDE DEF u, v
      <4> QED BY <1>0, <1>1
    <3>1. sub \in Seq(Nat) /\ Len(sub) = u /\ \A n \in 1..u : sub[n] = buf[k + n]
      <4> HIDE DEF k, u
      <4>1. k \in Nat /\ u \in Nat /\ k + u <= Len(buf) /\ buf \in Seq(Nat)
        BY <1>0, <3>0
      <4>2. /\ SubSeq(buf, k + 1, k + u) \in Seq(Nat)
            /\ Len(SubSeq(buf, k + 1, k + u)) = u
            /\ \A i \in 1..u : SubSeq(buf, k + 1, k + u)[i] = buf[k + i]
        <5> HIDE DEF z, v, nulls, last, sub
        <5>1. IsPiece(SubSeq(buf, k + 1, k + u), buf, k, u)
          BY <4>1, PieceIs
        <5> QED BY <5>1 DEF IsPiece
      <4> QED BY <4>2
    <3>2. \A n \in 1..u : sub[n] = buf[at + 4 + n]
      BY <3>1
    <3>3. \A n \in 1..u : sub[n] = name[n]
      BY <1>1, <3>2
    <3> HIDE DEF sub
    <3>4. sub = name
      BY <1>0, <3>1, <3>3, SeqEqual
    <3> QED BY <3>0, <3>4 DEF sub
  <2> HIDE DEF last
  <2> QED BY <2>4, <2>5, <2>6
<1>5. P!payload_element_get_data(buf, at) = data
  <2> DEFINE sub == SubSeq(buf, at + 5 + u + 1, at + 5 + u + v)
  <2>1. P!payload_element_get_data(buf, at) = sub
    <3>1. at + 4 + (u + 1) + 1 = at + 5 + u + 1 /\ at + 4 + (u + 1) + v = at + 5 + u + v
      BY <1>0
    <3> HIDE DEF u, v
    <3> QED BY <1>2, <3>1 DEF P!payload_element_get_data, P!Header
  <2> DEFINE k == at + 5 + u
  <2>2. k \in Nat /\ k + v <= Len(buf) /\ sub = SubSeq(buf, k + 1, k + v)
    <3> HIDE DEF u, v
    <3> QED BY <1>0, <1>1 DEF z
  <2>5. sub \in Seq(Nat) /\ Len(sub) = v /\ \A n \in 1..v : sub[n] = buf[k + n]
    <3> HIDE DEF k, v, sub
    <3> QED BY <1>0, <2>2, Piece
  <2>3. \A n \in 1..v : sub[n] = data[n]
    BY <1>1, <2>5
  <2> HIDE DEF sub
  <2>4. sub = data
    BY <1>0, <2>5, <2>3, SeqEqual
  <2> QED BY <2>1, <2>4
<1> QED BY <1>2, <1>3, <1>4, <1>5, <1>6, Zenon DEF ReadsAs

\* An element as a handler puts it in a payload
Elements ==
    {e \in [type : {P!U32, P!U64, P!STR}, name : Seq(Nat \ {0}), val : Seq(Nat)] :
        e.type # P!STR => Len(e.val) = P!NumberSize(e.type)}

\* Its data
Data(e) == IF e.type = P!STR THEN e.val \o <<0>> ELSE e.val

\* f are the buffers while the elements es are put.
Builds(f, es, n) ==
    /\ f[0] = P!payload_create
    /\ \A k \in 1..n : f[k] = P!payload_put(f[k - 1], es[k].type, es[k].name, es[k].val)

\* The k-th element begins where the buffer ended before it was put.
Offset(f, k) == Len(f[k].buf)

\* The elements up to the k-th are in the buffer.
Contains(buf, f, es, k) ==
    \A j \in 1..k :
        /\ Offset(f, j - 1) \in Nat
        /\ ElementAt(buf, Offset(f, j - 1), es[j].type, es[j].name, Data(es[j]))
        /\ Offset(f, j) = Offset(f, j - 1) + 5 + Len(es[j].name) + Len(Data(es[j]))

\* What is known of an element
LEMMA ElementType ==
  ASSUME NEW e \in Elements
  PROVE  /\ e.type \in Nat \ {0} /\ e.name \in Seq(Nat \ {0}) /\ e.name \in Seq(Nat)
         /\ e.val \in Seq(Nat) /\ Data(e) \in Seq(Nat)
<1>1. e.type \in {1, 2, 3} /\ e.name \in Seq(Nat \ {0}) /\ e.val \in Seq(Nat)
  BY DEF Elements, P!U32, P!U64, P!STR
<1>2. e.name \in Seq(Nat)
  <2>1. Nat \ {0} \subseteq Nat
    OBVIOUS
  <2> QED BY <1>1, <2>1, SeqMonotonic
<1>3. <<0>> \in Seq(Nat)
  OBVIOUS
<1>4. Data(e) \in Seq(Nat)
  BY <1>1, <1>3, ConcatProperties DEF Data
<1> QED BY <1>1, <1>2, <1>4

\* While a payload is built: all elements put so far are in the buffer.
LEMMA BuiltSoFar ==
  ASSUME NEW n \in Nat, NEW es \in [1..n -> Elements], NEW f, Builds(f, es, n)
  PROVE  \A k \in 0..n : f[k] \in Buffers /\ Contains(f[k].buf, f, es, k)
<1> DEFINE Good(k) == f[k] \in Buffers /\ Contains(f[k].buf, f, es, k)
           Done == {k \in 0..n : Good(k)}
<1>1. 0 \in Done
  <2>1. f[0] = [buf |-> <<>>, allocated |-> 4]
    BY DEF Builds, P!payload_create
  <2>2. f[0] \in Buffers
    BY <2>1 DEF Buffers
  <2>3. Contains(f[0].buf, f, es, 0)
    BY DEF Contains
  <2> QED BY <2>2, <2>3
<1>2. ASSUME NEW k \in 1..n, k - 1 \in Done PROVE k \in Done
  <2> DEFINE p == f[k - 1]
             q == f[k]
             e == es[k]
  <2>1. p \in Buffers /\ Contains(p.buf, f, es, k - 1)
    BY <1>2
  <2>2. e \in Elements
    OBVIOUS
  <2>3. q = P!payload_add_element(p, e.type, e.name, Data(e))
    BY DEF Builds, P!payload_put, Data
  <2>4. e.type \in Nat /\ e.name \in Seq(Nat) /\ Data(e) \in Seq(Nat)
    BY <2>2, ElementType
  <2>5. /\ q \in Buffers
        /\ Len(q.buf) = Len(p.buf) + 5 + Len(e.name) + Len(Data(e))
        /\ Begins(q.buf, p.buf)
        /\ ElementAt(q.buf, Len(p.buf), e.type, e.name, Data(e))
    <3> HIDE DEF p, q, e
    <3> QED BY <2>1, <2>3, <2>4, Added
  <2>6. ASSUME NEW j \in 1..k
        PROVE  /\ Offset(f, j - 1) \in Nat
               /\ ElementAt(q.buf, Offset(f, j - 1), es[j].type, es[j].name, Data(es[j]))
               /\ Offset(f, j) = Offset(f, j - 1) + 5 + Len(es[j].name) + Len(Data(es[j]))
    <3>1. CASE j = k
      <4>1. Len(p.buf) \in Nat
        BY <2>1 DEF Buffers
      <4> QED BY <2>5, <3>1, <4>1 DEF Offset
    <3>2. CASE j # k
      <4>1. j \in 1..(k - 1) /\ j \in 1..n /\ j - 1 \in 0..n
        BY <3>2
      <4> DEFINE at == Offset(f, j - 1)
      <4>2. /\ at \in Nat
            /\ ElementAt(p.buf, at, es[j].type, es[j].name, Data(es[j]))
            /\ Offset(f, j) = at + 5 + Len(es[j].name) + Len(Data(es[j]))
        BY <2>1, <4>1 DEF Contains
      <4>3. p.buf \in Seq(Nat) /\ q.buf \in Seq(Nat)
        BY <2>1, <2>5 DEF Buffers
      <4>4. es[j].name \in Seq(Nat) /\ Data(es[j]) \in Seq(Nat)
        BY <4>1, ElementType
      <4> HIDE DEF p, q, at
      <4>6. ElementAt(q.buf, at, es[j].type, es[j].name, Data(es[j]))
        BY <2>5, <4>2, <4>3, <4>4, ElementStays
      <4> QED BY <4>2, <4>6 DEF at
    <3> QED BY <3>1, <3>2
  <2>7. Contains(q.buf, f, es, k)
    BY <2>6 DEF Contains
  <2> QED BY <2>5, <2>7
<1> HIDE DEF Done
<1>3. \A k \in 0..n : k \in Done
  BY <1>1, <1>2, Upwards
<1> QED BY <1>3 DEF Done

\* A buffer that is made of the elements es, with a terminator at the end
Laid(buf, at, es, n) ==
    /\ at \in [0..n -> Nat] /\ at[0] = 0
    /\ \A k \in 1..n :
          /\ ElementAt(buf, at[k - 1], es[k].type, es[k].name, Data(es[k]))
          /\ at[k] = at[k - 1] + 5 + Len(es[k].name) + Len(Data(es[k]))
    /\ ElementAt(buf, at[n], P!TERMINATOR, <<>>, <<>>)
    /\ Len(buf) = at[n] + 5

\* payload_put_term completes what is built, in a buffer that is large enough.
LEMMA BuiltIsLaid ==
  ASSUME NEW n \in Nat, NEW es \in [1..n -> Elements], NEW f, Builds(f, es, n)
  PROVE  LET pb == P!payload_put_term(f[n])
         IN  /\ pb.buf \in Seq(Nat) /\ Len(pb.buf) <= pb.allocated
             /\ Laid(pb.buf, [k \in 0..n |-> Offset(f, k)], es, n)
<1> DEFINE pb == P!payload_put_term(f[n])
           at == [k \in 0..n |-> Offset(f, k)]
           p == f[n]
<1>1. p \in Buffers /\ Contains(p.buf, f, es, n)
  BY BuiltSoFar
<1>2. pb = P!payload_add_element(p, P!TERMINATOR, <<>>, <<>>)
  BY DEF P!payload_put_term
<1>3. P!TERMINATOR \in Nat /\ <<>> \in Seq(Nat) /\ Len(<<>>) = 0
  BY DEF P!TERMINATOR
<1>4. /\ pb \in Buffers
      /\ Len(pb.buf) = Len(p.buf) + 5 + Len(<<>>) + Len(<<>>)
      /\ Begins(pb.buf, p.buf)
      /\ ElementAt(pb.buf, Len(p.buf), P!TERMINATOR, <<>>, <<>>)
      /\ Len(pb.buf) <= pb.allocated
  <2> HIDE DEF pb, p
  <2> QED BY <1>1, <1>2, <1>3, Added
<1>5. pb.buf \in Seq(Nat) /\ p.buf \in Seq(Nat) /\ Len(p.buf) \in Nat
  BY <1>1, <1>4 DEF Buffers
<1>6. Len(pb.buf) = Offset(f, n) + 5
  <2> HIDE DEF pb
  <2> QED BY <1>3, <1>4, <1>5 DEF Offset
<1>7. \A k \in 0..n : Offset(f, k) \in Nat
  <2> SUFFICES ASSUME NEW k \in 0..n PROVE Offset(f, k) \in Nat
    OBVIOUS
  <2>1. f[k] \in Buffers
    BY BuiltSoFar
  <2>2. f[k].buf \in Seq(Nat)
    BY <2>1 DEF Buffers
  <2> QED BY <2>2 DEF Offset
<1>8. at[0] = 0
  <2>1. f[0].buf = <<>>
    BY DEF Builds, P!payload_create
  <2> QED BY <1>3, <2>1 DEF Offset
<1>9. ASSUME NEW k \in 1..n
      PROVE  /\ ElementAt(pb.buf, at[k - 1], es[k].type, es[k].name, Data(es[k]))
             /\ at[k] = at[k - 1] + 5 + Len(es[k].name) + Len(Data(es[k]))
  <2>1. at[k] = Offset(f, k) /\ at[k - 1] = Offset(f, k - 1) /\ at[k - 1] \in Nat
    BY <1>7
  <2>2. /\ ElementAt(p.buf, at[k - 1], es[k].type, es[k].name, Data(es[k]))
        /\ at[k] = at[k - 1] + 5 + Len(es[k].name) + Len(Data(es[k]))
    BY <1>1, <2>1 DEF Contains
  <2>3. es[k].name \in Seq(Nat) /\ Data(es[k]) \in Seq(Nat)
    BY ElementType
  <2> HIDE DEF pb, p, at
  <2>4. ElementAt(pb.buf, at[k - 1], es[k].type, es[k].name, Data(es[k]))
    BY <1>4, <1>5, <2>1, <2>2, <2>3, ElementStays
  <2> QED BY <2>2, <2>4
<1>10. at[n] = Offset(f, n) /\ at \in [0..n -> Nat]
  BY <1>7
<1>11. ElementAt(pb.buf, at[n], P!TERMINATOR, <<>>, <<>>)
  BY <1>4, <1>10 DEF Offset
<1>12. Laid(pb.buf, at, es, n)
  <2> HIDE DEF pb, at
  <2> QED BY <1>6, <1>8, <1>9, <1>10, <1>11 DEF Laid
<1> QED BY <1>4, <1>5, <1>12

\* An element that is read and accepted at an offset, and the next offset
AcceptedAs(wide, buf, x, e, next) ==
    /\ x \in 0..Len(buf) /\ x + 4 <= Len(buf)
    /\ P!payload_element_get_type(buf, x) = e.type
    /\ P!payload_element_get_next(wide, buf, x) = next
    /\ P!payload_element_get_name(buf, x) = e.name
    /\ P!payload_element_get_data(buf, x) = Data(e)
    /\ P!payload_check_element(wide, buf, x, Len(buf) - x) = "correct"
    /\ next \in 0..Len(buf)

\* The elements of such a buffer are read and accepted.
LEMMA LaidElement ==
  ASSUME NEW n \in Nat, NEW es \in [1..n -> Elements], NEW wide \in BOOLEAN,
         NEW buf \in Seq(Nat), Len(buf) < SizeLimit, NEW at,
         Laid(buf, at, es, n), NEW k \in 1..n
  PROVE  AcceptedAs(wide, buf, at[k - 1], es[k], at[k])
<1> DEFINE x == at[k - 1]
           e == es[k]
           d == Data(e)
           u == Len(e.name)
           v == Len(d)
           z == Len(buf)
<1>1. x \in Nat /\ e \in Elements
  BY DEF Laid
<1>2. e.type \in Nat \ {0} /\ e.name \in Seq(Nat \ {0}) /\ e.val \in Seq(Nat) /\ d \in Seq(Nat)
  BY <1>1, ElementType
<1>3. ElementAt(buf, x, e.type, e.name, d) /\ at[k] = x + 5 + u + v
  BY DEF Laid
<1>4. /\ x \in 0..z /\ x + 4 <= z
      /\ P!payload_element_get_type(buf, x) = e.type
      /\ P!payload_element_name_size(buf, x) = u + 1
      /\ P!payload_element_data_size(buf, x) = v
      /\ P!payload_element_get_next(wide, buf, x) = x + 5 + u + v
      /\ P!payload_element_get_name(buf, x) = e.name
      /\ P!payload_element_get_data(buf, x) = d
  <2>1. e.type \in Nat
    BY <1>2
  <2> HIDE DEF e, x, d
  <2>2. ReadsAs(wide, buf, x, e.type, e.name, d)
    BY <1>1, <1>2, <1>3, <2>1, ElementRead
  <2> QED BY <2>2 DEF ReadsAs
<1>5. /\ x + 5 + u + v <= z /\ buf[x + 5 + u] = 0
      /\ \A i \in 1..v : buf[x + 5 + u + i] = d[i]
  BY <1>3 DEF ElementAt
<1>6. u \in Nat /\ v \in Nat /\ z \in Nat
  BY <1>2
<1> HIDE DEF z, u
<1>10. P!LastOfData(wide, buf, x) = x + 5 + u + v \/ v = 0
  <2> HIDE DEF v, x
  <2>1. P!LastOfData(wide, buf, x)
          = IF ~wide THEN x + 5 + u + v ELSE x + P!Header + (u + 1) + (IF v = 0 THEN SizeLimit ELSE v)
    BY <1>4, Zenon DEF P!LastOfData
  <2>2. x + P!Header + (u + 1) + v = x + 5 + u + v
    BY <1>1, <1>6 DEF P!Header
  <2> QED BY <2>1, <2>2, Zenon
<1>7. P!CheckData(wide, buf, x) = "correct"
  <2>0. /\ P!STR # P!TERMINATOR /\ P!STR \notin {P!U32, P!U64}
        /\ P!TERMINATOR \notin {P!U32, P!U64}
    BY DEF P!TERMINATOR, P!U32, P!U64, P!STR
  <2>1. CASE e.type = P!STR
    <3>1. d = e.val \o <<0>>
      BY <2>1 DEF Data
    <3>2. v \in Nat \ {0} /\ d[v] = 0
      <4>1. Len(e.val) \in Nat /\ Len(<<0>>) = 1 /\ <<0>> \in Seq(Nat) /\ <<0>>[1] = 0
        BY <1>2
      <4>2. Len(e.val \o <<0>>) = Len(e.val) + 1 /\ (e.val \o <<0>>)[Len(e.val) + 1] = 0
        BY <1>2, <4>1, Joined
      <4> HIDE DEF d
      <4> QED BY <3>1, <4>1, <4>2
    <3>5. P!CheckData(wide, buf, x) = P!IsNull(buf, P!LastOfData(wide, buf, x))
      BY <1>4, <2>0, <2>1, Zenon DEF P!CheckData
    <3> HIDE DEF v, d, x
    <3>3. x + 5 + u + v \in 1..z /\ v \in 1..v
      BY <1>1, <1>5, <1>6, <3>2
    <3>4. buf[x + 5 + u + v] = 0
      BY <1>5, <3>2, <3>3
    <3>6. P!LastOfData(wide, buf, x) = x + 5 + u + v
      BY <1>10, <3>2
    <3> QED BY <3>3, <3>4, <3>5, <3>6, Zenon DEF P!IsNull, z
  <2>2. CASE e.type # P!STR
    <3>1. e.type \in {P!U32, P!U64} /\ Len(e.val) = P!NumberSize(e.type)
      BY <1>1, <2>2 DEF Elements
    <3>2. d = e.val
      BY <2>2 DEF Data
    <3> QED BY <1>4, <2>0, <3>1, <3>2, Zenon DEF P!CheckData, P!Accept
  <2> QED BY <2>1, <2>2
<1>8. P!payload_check_element(wide, buf, x, z - x) = "correct"
  <2>1. ~(z - x < P!Header)
    BY <1>4, <1>6 DEF P!Header
  <2>2. ~(z - x < P!payload_element_get_size(wide, buf, x))
    <3> DEFINE size == P!payload_element_get_size(wide, buf, x)
    <3> HIDE DEF v, x
    <3>0. x \in 0..Len(buf) /\ x + 4 <= Len(buf)
      BY <1>4 DEF z
    <3>1. size \in Nat /\ P!payload_element_get_next(wide, buf, x) = x + size
      BY <3>0, ElementSize, Zenon
    <3> HIDE DEF size
    <3>2. ~(z - x < size)
      BY <1>1, <1>4, <1>5, <1>6, <3>1
    <3> QED BY <3>2 DEF size
  <2>3. P!payload_element_name_size(buf, x) # 0
    BY <1>4, <1>6
  <2>4. P!IsNull(buf, x + P!Header + P!payload_element_name_size(buf, x)) = "correct"
    <3> HIDE DEF x, v
    <3>1. x + P!Header + (u + 1) = x + 5 + u /\ x + 5 + u \in 1..z
      BY <1>1, <1>5, <1>6 DEF P!Header
    <3> QED BY <1>4, <1>5, <3>1, Zenon DEF P!IsNull, z
  <2>5. Len(P!payload_element_get_name(buf, x)) + 1 = P!payload_element_name_size(buf, x)
    BY <1>4, Zenon DEF u
  <2> QED BY <1>7, <2>1, <2>2, <2>3, <2>4, <2>5, Zenon DEF P!payload_check_element
<1>9. at[k] \in 0..z
  <2> HIDE DEF v, x
  <2> QED BY <1>1, <1>3, <1>5, <1>6
<1> QED BY <1>3, <1>4, <1>8, <1>9, Zenon DEF z, AcceptedAs

\* So is the terminator.
LEMMA LaidTerminator ==
  ASSUME NEW n \in Nat, NEW es \in [1..n -> Elements], NEW wide \in BOOLEAN,
         NEW buf \in Seq(Nat), Len(buf) < SizeLimit, NEW at,
         Laid(buf, at, es, n)
  PROVE  LET x == at[n]
         IN  /\ x \in 0..Len(buf) /\ x + 4 <= Len(buf)
             /\ P!payload_element_get_type(buf, x) = P!TERMINATOR
             /\ P!payload_element_get_size(wide, buf, x) = Len(buf) - x
             /\ P!payload_check_element(wide, buf, x, Len(buf) - x) = "correct"
<1> DEFINE x == at[n]
           z == Len(buf)
<1>1. x \in Nat /\ z = x + 5 /\ z \in Nat
  BY DEF Laid
<1>2. ElementAt(buf, x, P!TERMINATOR, <<>>, <<>>)
  BY DEF Laid
<1>3. P!TERMINATOR \in Nat /\ <<>> \in Seq(Nat) /\ <<>> \in Seq(Nat \ {0}) /\ Len(<<>>) = 0
  BY DEF P!TERMINATOR
<1> HIDE DEF x
<1>4. /\ P!payload_element_get_type(buf, x) = P!TERMINATOR
      /\ P!payload_element_name_size(buf, x) = 1
      /\ P!payload_element_data_size(buf, x) = 0
      /\ P!payload_element_get_name(buf, x) = <<>>
      /\ buf[x + 5] = 0 /\ P!payload_element_get_next(wide, buf, x) = x + 5
  <2>1. /\ P!payload_element_get_type(buf, x) = P!TERMINATOR
        /\ P!payload_element_name_size(buf, x) = Len(<<>>) + 1
        /\ P!payload_element_data_size(buf, x) = Len(<<>>)
        /\ P!payload_element_get_name(buf, x) = <<>>
        /\ P!payload_element_get_next(wide, buf, x) = x + 5 + Len(<<>>) + Len(<<>>)
    <3> DEFINE e == <<>>
               t == P!TERMINATOR
    <3>1. t \in Nat /\ e \in Seq(Nat) /\ e \in Seq(Nat \ {0}) /\ ElementAt(buf, x, t, e, e)
      BY <1>2, <1>3
    <3> HIDE DEF e, t
    <3>2. ReadsAs(wide, buf, x, t, e, e)
      BY <1>1, <3>1, ElementRead
    <3> QED BY <3>2 DEF ReadsAs, e, t
  <2>2. buf[x + 5 + Len(<<>>)] = 0
    BY <1>2 DEF ElementAt
  <2>3. x + 5 + Len(<<>>) = x + 5 /\ x + 5 + Len(<<>>) + Len(<<>>) = x + 5
    BY <1>1, <1>3
  <2> QED BY <1>3, <2>1, <2>2, <2>3
<1>5. P!payload_element_get_size(wide, buf, x) = 5 /\ z - x = 5 /\ x \in 0..z /\ x + 4 <= z
  <2> DEFINE size == P!payload_element_get_size(wide, buf, x)
  <2>1. x \in 0..Len(buf) /\ x + 4 <= Len(buf)
    BY <1>1
  <2>2. size \in Nat /\ P!payload_element_get_next(wide, buf, x) = x + size
    BY <2>1, ElementSize, Zenon
  <2> HIDE DEF size, z
  <2>3. size = 5
    BY <1>1, <1>4, <2>2
  <2> QED BY <1>1, <2>3 DEF size
<1>6. P!CheckData(wide, buf, x) = "correct"
  <2>1. P!TERMINATOR # P!STR /\ P!TERMINATOR \notin {P!U32, P!U64}
    BY DEF P!TERMINATOR, P!U32, P!U64, P!STR
  <2> QED BY <1>4, <2>1, Zenon DEF P!CheckData, P!Accept
<1>7. P!payload_check_element(wide, buf, x, z - x) = "correct"
  <2>1. /\ x + P!Header + P!payload_element_name_size(buf, x) = x + 5
        /\ ~(5 < P!Header) /\ ~(5 < 5) /\ x + 5 \in 1..z
    BY <1>1, <1>4 DEF P!Header
  <2>2. 1 # 0 /\ 0 + 1 = 1
    OBVIOUS
  <2>3. P!IsNull(buf, x + 5) = "correct"
    BY <1>4, <2>1, Zenon DEF P!IsNull
  <2> HIDE DEF z
  <2> QED BY <1>3, <1>4, <1>5, <1>6, <2>1, <2>2, <2>3, Zenon DEF P!payload_check_element
<1> QED BY <1>4, <1>5, <1>7, Zenon DEF x, z

\* payload_check accepts the buffer.
LEMMA LaidAccepted ==
  ASSUME NEW n \in Nat, NEW es \in [1..n -> Elements], NEW wide \in BOOLEAN,
         NEW buf \in Seq(Nat), Len(buf) < SizeLimit, NEW at,
         Laid(buf, at, es, n), NEW check, Checks(wide, check, buf)
  PROVE  \A k \in 0..n : check[at[n - k]].is = "correct"
<1> DEFINE Done == {k \in 0..n : check[at[n - k]].is = "correct"}
<1>0. \A x \in 0..Len(buf) : check[x] = CheckedAt(wide, check, buf, x)
  BY DEF Checks
<1>1. 0 \in Done
  <2> DEFINE x == at[n]
  <2>1. /\ x \in 0..Len(buf)
        /\ P!payload_element_get_type(buf, x) = P!TERMINATOR
        /\ P!payload_element_get_size(wide, buf, x) = Len(buf) - x
        /\ P!payload_check_element(wide, buf, x, Len(buf) - x) = "correct"
    BY LaidTerminator
  <2> HIDE DEF x
  <2>2. CheckedAt(wide, check, buf, x) = [is |-> "correct", at |-> x]
    BY <2>1, Zenon DEF CheckedAt, P!Accept
  <2>3. check[x].is = "correct"
    BY <1>0, <2>1, <2>2
  <2>4. n - 0 = n /\ 0 \in 0..n
    OBVIOUS
  <2> QED BY <2>3, <2>4, Zenon DEF x
<1>2. ASSUME NEW k \in 1..n, k - 1 \in Done PROVE k \in Done
  <2> DEFINE j == n - k + 1
             x == at[j - 1]
  <2>0. j \in 1..n /\ n - (k - 1) = j /\ n - k = j - 1 /\ k \in 0..n
    OBVIOUS
  <2>1. /\ x \in 0..Len(buf)
        /\ P!payload_element_get_type(buf, x) = es[j].type
        /\ P!payload_element_get_next(wide, buf, x) = at[j]
        /\ P!payload_check_element(wide, buf, x, Len(buf) - x) = "correct"
    <3> HIDE DEF j
    <3>1. AcceptedAs(wide, buf, at[j - 1], es[j], at[j])
      BY <2>0, LaidElement
    <3> QED BY <3>1 DEF AcceptedAs
  <2>2. es[j].type # P!TERMINATOR
    <3>1. es[j].type \in Nat \ {0}
      BY <2>0, ElementType
    <3> QED BY <3>1 DEF P!TERMINATOR
  <2>3. check[at[j]].is = "correct"
    <3> HIDE DEF j
    <3> QED BY <1>2, <2>0
  <2> HIDE DEF x, j
  <2>6. P!payload_element_get_size(wide, buf, x) # 0
    <3>1. at[j] = at[j - 1] + 5 + Len(es[j].name) + Len(Data(es[j])) /\ x \in Nat
      BY <2>0, <2>1 DEF Laid
    <3>2. Len(es[j].name) \in Nat /\ Len(Data(es[j])) \in Nat
      BY <2>0, ElementType
    <3>3. at[j] # x
      BY <3>1, <3>2 DEF x
    <3>4. at[j] = x + P!payload_element_get_size(wide, buf, x)
      BY <2>1, Zenon DEF P!payload_element_get_next
    <3> QED BY <2>1, <3>3, <3>4
  <2>4. CheckedAt(wide, check, buf, x) = check[at[j]]
    BY <2>1, <2>2, <2>6, Zenon DEF CheckedAt
  <2>5. check[x].is = "correct"
    BY <1>0, <2>1, <2>3, <2>4, Zenon
  <2> QED BY <2>0, <2>5, Zenon DEF x
<1> HIDE DEF Done
<1>3. \A k \in 0..n : k \in Done
  BY <1>1, <1>2, Upwards
<1> QED BY <1>3 DEF Done

\* The k-th element is the first one with the name.
FirstNamed(es, n, name, k) ==
    /\ k \in 1..n /\ es[k].name = name
    /\ \A j \in 1..(k - 1) : es[j].name # name

\* payload_find goes from one element to the next.
LEMMA LaidFound ==
  ASSUME NEW n \in Nat, NEW es \in [1..n -> Elements], NEW wide \in BOOLEAN,
         NEW buf \in Seq(Nat), Len(buf) < SizeLimit, NEW at,
         Laid(buf, at, es, n), NEW name, NEW find, Finds(wide, find, buf, name)
  PROVE  /\ \A k \in 1..n : FirstNamed(es, n, name, k) => find[0] = at[k - 1]
         /\ (\A k \in 1..n : es[k].name # name) => find[0] = P!NULL
<1>0. \A x \in 0..Len(buf) : find[x] = FoundAt(wide, find, buf, name, x)
  BY DEF Finds
<1>1. at[0] = 0
  BY DEF Laid
<1>2. ASSUME NEW k \in 1..n
      PROVE  find[at[k - 1]] = IF es[k].name = name THEN at[k - 1] ELSE find[at[k]]
  <2> DEFINE x == at[k - 1]
  <2>1. /\ x \in 0..Len(buf) /\ x + 4 <= Len(buf)
        /\ P!payload_element_get_type(buf, x) = es[k].type
        /\ P!payload_element_get_next(wide, buf, x) = at[k]
        /\ P!payload_element_get_name(buf, x) = es[k].name
        /\ P!payload_check_element(wide, buf, x, Len(buf) - x) = "correct"
        /\ at[k] \in 0..Len(buf)
    <3>1. AcceptedAs(wide, buf, at[k - 1], es[k], at[k])
      BY LaidElement
    <3> QED BY <3>1 DEF AcceptedAs
  <2>2. es[k].type # P!TERMINATOR
    <3>1. es[k].type \in Nat \ {0}
      BY ElementType
    <3> QED BY <3>1 DEF P!TERMINATOR
  <2> HIDE DEF x
  <2>3. es[k].name # P!Outside
    <3>1. Correct(wide, buf, x)
      BY <2>1, ElementInside
    <3> QED BY <2>1, <3>1, NameInside
  <2>4. ~(x + P!Header > Len(buf)) /\ at[k] \in (x + 1)..Len(buf)
    <3>1. at[k - 1] \in Nat /\ at[k] = at[k - 1] + 5 + Len(es[k].name) + Len(Data(es[k]))
      BY DEF Laid
    <3>2. Len(es[k].name) \in Nat /\ Len(Data(es[k])) \in Nat
      BY ElementType
    <3>3. at[k] > x
      BY <3>1, <3>2 DEF x
    <3> QED BY <2>1, <3>3 DEF P!Header
  <2>5. find[x] = FoundAt(wide, find, buf, name, x)
    BY <1>0, <2>1
  <2>6. find[x] = IF es[k].name = name THEN x ELSE find[at[k]]
    BY <2>1, <2>2, <2>3, <2>4, <2>5, Zenon DEF FoundAt
  <2> QED BY <2>6 DEF x
<1>3. find[at[n]] = P!NULL
  <2> DEFINE x == at[n]
  <2>1. /\ x \in 0..Len(buf) /\ x + 4 <= Len(buf)
        /\ P!payload_element_get_type(buf, x) = P!TERMINATOR
    BY LaidTerminator
  <2> HIDE DEF x
  <2>2. ~(x + P!Header > Len(buf))
    BY <2>1 DEF P!Header
  <2>3. find[x] = FoundAt(wide, find, buf, name, x)
    BY <1>0, <2>1
  <2>4. find[x] = P!NULL
    BY <2>1, <2>2, <2>3, Zenon DEF FoundAt
  <2> QED BY <2>4 DEF x
<1>4. ASSUME NEW m \in 0..n, \A j \in 1..m : es[j].name # name
      PROVE  find[0] = find[at[m]]
  <2> DEFINE Done == {k \in 0..m : find[0] = find[at[k]]}
  <2>1. 0 \in Done
    BY <1>1
  <2>2. ASSUME NEW k \in 1..m, k - 1 \in Done PROVE k \in Done
    <3>1. k \in 1..n
      OBVIOUS
    <3>2. find[at[k - 1]] = find[at[k]]
      BY <1>2, <1>4, <3>1
    <3> QED BY <2>2, <3>2
  <2> HIDE DEF Done
  <2>3. \A k \in 0..m : k \in Done
    <3>1. m \in Nat
      OBVIOUS
    <3> QED BY <2>1, <2>2, <3>1, Upwards
  <2>4. m \in Done
    BY <2>3
  <2> QED BY <2>4 DEF Done
<1>5. ASSUME NEW k \in 1..n, FirstNamed(es, n, name, k) PROVE find[0] = at[k - 1]
  <2>1. k - 1 \in 0..n /\ es[k].name = name /\ \A j \in 1..(k - 1) : es[j].name # name
    BY <1>5 DEF FirstNamed
  <2>2. find[0] = find[at[k - 1]]
    BY <1>4, <2>1
  <2> QED BY <1>2, <2>1, <2>2
<1>6. ASSUME \A k \in 1..n : es[k].name # name PROVE find[0] = P!NULL
  <2>1. n \in 0..n
    OBVIOUS
  <2>2. find[0] = find[at[n]]
    BY <1>4, <1>6, <2>1
  <2> QED BY <1>3, <2>2
<1> QED BY <1>5, <1>6

\* The elements are given back: payload_get finds the value of the first one
\* with the name, if its type is the one asked for, and nothing otherwise.
ReadBack(wide, pb, es, n) ==
    /\ P!payload_check(wide, pb.buf).is = "correct"
    /\ Len(pb.buf) <= pb.allocated
    /\ \A type : \A k \in 1..n :
          FirstNamed(es, n, es[k].name, k) =>
              P!payload_get(wide, pb.buf, es[k].name, type)
                = IF es[k].type = type THEN Data(es[k]) ELSE <<>>
    /\ \A name, type : (\A k \in 1..n : es[k].name # name)
          => P!payload_get(wide, pb.buf, name, type) = <<>>

\* A payload of any number of elements that the server builds, as long as its
\* size is a uint32_t, is accepted by payload_check, with 32 and with 64 bits,
\* fits in the memory allocated for it and gives the elements back.
THEOREM BuiltIsRead ==
  ASSUME NEW n \in Nat, NEW es \in [1..n -> Elements], NEW f, Builds(f, es, n),
         NEW wide \in BOOLEAN, Len(P!payload_put_term(f[n]).buf) < SizeLimit
  PROVE  ReadBack(wide, P!payload_put_term(f[n]), es, n)
<1> DEFINE pb == P!payload_put_term(f[n])
           buf == pb.buf
           at == [k \in 0..n |-> Offset(f, k)]
<1>1. buf \in Seq(Nat) /\ Len(buf) <= pb.allocated /\ Laid(buf, at, es, n)
  BY BuiltIsLaid
<1>5. Len(buf) < SizeLimit
  OBVIOUS
<1> HIDE DEF pb, at, buf
<1>2. P!payload_check(wide, buf).is = "correct"
  <2>1. PICK check : Checks(wide, check, buf) /\ P!payload_check(wide, buf) = check[0]
    BY <1>1, CheckIs
  <2>2. check[at[n - n]].is = "correct"
    <3>1. n \in 0..n
      OBVIOUS
    <3> QED BY <1>1, <1>5, <2>1, <3>1, LaidAccepted
  <2>3. at[n - n] = 0
    <3>1. n - n = 0
      OBVIOUS
    <3> QED BY <1>1, <3>1 DEF Laid
  <2> QED BY <2>1, <2>2, <2>3, Zenon
<1>3. ASSUME NEW k \in 1..n, NEW type, FirstNamed(es, n, es[k].name, k)
      PROVE  P!payload_get(wide, buf, es[k].name, type) = IF es[k].type = type THEN Data(es[k]) ELSE <<>>
  <2> DEFINE name == es[k].name
             x == at[k - 1]
  <2>1. PICK find : Finds(wide, find, buf, name) /\ P!payload_find(wide, buf, name) = find[0]
    BY <1>1, FindIs
  <2>2. find[0] = x
    <3> HIDE DEF name
    <3>1. FirstNamed(es, n, name, k)
      BY <1>3 DEF name
    <3> QED BY <1>1, <2>1, <1>5, <3>1, LaidFound
  <2>3. /\ x \in 0..Len(buf)
        /\ P!payload_element_get_type(buf, x) = es[k].type
        /\ P!payload_element_get_data(buf, x) = Data(es[k])
    <3>1. AcceptedAs(wide, buf, at[k - 1], es[k], at[k])
      BY <1>1, <1>5, LaidElement
    <3> QED BY <3>1 DEF AcceptedAs
  <2> HIDE DEF x, name
  <2>4. x >= 0 /\ ~(x < 0) /\ P!NULL < 0
    BY <2>3 DEF P!NULL
  <2>5. P!payload_find_typed(wide, buf, name, type) = IF es[k].type # type THEN P!NULL ELSE x
    BY <2>1, <2>2, <2>3, <2>4, Zenon DEF P!payload_find_typed
  <2>6. P!payload_get(wide, buf, name, type) = IF es[k].type = type THEN Data(es[k]) ELSE <<>>
    BY <2>3, <2>4, <2>5, Zenon DEF P!payload_get
  <2> QED BY <2>6 DEF name
<1>4. ASSUME NEW name, NEW type, \A k \in 1..n : es[k].name # name
      PROVE  P!payload_get(wide, buf, name, type) = <<>>
  <2>1. PICK find : Finds(wide, find, buf, name) /\ P!payload_find(wide, buf, name) = find[0]
    BY <1>1, FindIs
  <2>2. find[0] = P!NULL
    <3>1. (\A k \in 1..n : es[k].name # name) => find[0] = P!NULL
      BY <1>1, <1>5, <2>1, LaidFound
    <3> QED BY <1>4, <3>1, Zenon
  <2>3. P!NULL < 0 /\ ~(P!NULL >= 0)
    BY DEF P!NULL
  <2> QED BY <2>1, <2>2, <2>3, Zenon DEF P!payload_find_typed, P!payload_get
<1>6. ReadBack(wide, pb, es, n)
  BY <1>1, <1>2, <1>3, <1>4, Zenon DEF ReadBack, buf
<1> QED BY <1>6 DEF pb

------------------------------------------------------------------------------
(* Inputs                                                                   *)

\* What a step makes of the input
LEMMA Inputs ==
  ASSUME Next
  PROVE  \/ in'.test \in {"high", "insn", "jump", "elf", "gap"}
         \/ in'.test \in {"symbol", "line", "link"} /\ InjInput
         \/ in'.test \in {"number", "format"} /\ Numbers
         \/ in'.test \in {"write", "patch"} /\ MemoryInput
         \/ in' = [test |-> "cells", buf |-> <<>>]
         \/ in'.test = "cells" /\ in.test = "cells" /\ Cell
         \/ in'.test = "build" /\ BuildInput
         \/ in' = [test |-> "tree", tree |-> <<>>]
         \/ in'.test = "tree" /\ in.test = "tree" /\ Insert
         \/ in'.test = "call" /\ CallInput
         \/ in'.test = "call" /\ in.test = "call" /\ Scenario
         \/ in'.test = "packet" /\ in.test \in {"none", "packet"} /\ PacketInput
<1>1. FirstHalf => in'.test = "high"
  <2> SUFFICES ASSUME FirstHalf PROVE in'.test = "high"
    OBVIOUS
  <2>1. PICK kind, high, pc : in' = [test |-> "high", kind |-> kind, high |-> high, pc |-> pc]
    BY Zenon DEF FirstHalf
  <2> QED BY <2>1
<1>2. Instruction => in'.test = "insn"
  <2> SUFFICES ASSUME Instruction PROVE in'.test = "insn"
    OBVIOUS
  <2>1. PICK low \in SecondHalf(in.kind) :
           in' = [test |-> "insn", kind |-> in.kind, i |-> <<in.high, low>>, pc |-> in.pc]
    BY Zenon DEF Instruction
  <2> QED BY <2>1
<1>3. JumpInput => in'.test = "jump"
  BY DEF JumpInput
<1>4. MemoryInput => in'.test \in {"write", "patch"}
  BY DEF MemoryInput
<1>5. Cell => in'.test = "cells"
  BY DEF Cell
<1>6. BuildInput => in'.test = "build"
  BY DEF BuildInput
<1>7. Insert => in'.test = "tree"
  BY DEF Insert
<1>8. ElfInput => in'.test = "elf"
  BY DEF ElfInput
<1>9. GapInput => in'.test = "gap"
  BY DEF GapInput
<1>10. CallInput => in'.test = "call"
  BY DEF CallInput
<1>11. InjInput => in'.test \in {"symbol", "line", "link"}
  <2> SUFFICES ASSUME InjInput PROVE in'.test \in {"symbol", "line", "link"}
    OBVIOUS
  <2>1. \A offset, file :
           in' = [test |-> "symbol", offset |-> offset, file |-> file] => in'.test = "symbol"
    OBVIOUS
  <2>2. \A addrs, offset :
           in' = [test |-> "line", addrs |-> addrs, offset |-> offset] => in'.test = "line"
    OBVIOUS
  <2>3. \A arch, first, second, names, backwards, mapped :
           in' = [test |-> "link", arch |-> arch, first |-> first, second |-> second,
                  names |-> names, backwards |-> backwards, mapped |-> mapped]
             => in'.test = "link"
    OBVIOUS
  <2>4. in'.test = "symbol" \/ in'.test = "line" \/ in'.test = "link"
    BY <2>1, <2>2, <2>3, Zenon DEF InjInput
  <2> QED BY <2>4
<1>12. PacketInput => in'.test = "packet"
  <2> SUFFICES ASSUME PacketInput PROVE in'.test = "packet"
    OBVIOUS
  <2>1. PICK n, server, request :
           in' = [test |-> "packet", n |-> n, server |-> server, request |-> request]
    BY Zenon DEF PacketInput
  <2> QED BY <2>1
<1>13. Numbers => in'.test \in {"number", "format"}
  <2> SUFFICES ASSUME Numbers PROVE in'.test \in {"number", "format"}
    OBVIOUS
  <2>1. \A v : in' = [test |-> "number", v |-> v] => in'.test = "number"
    OBVIOUS
  <2>2. \A fmt : in' = [test |-> "format", fmt |-> fmt] => in'.test = "format"
    OBVIOUS
  <2>3. in'.test = "number" \/ in'.test = "format"
    BY <2>1, <2>2, Zenon DEF Numbers
  <2> QED BY <2>3
<1>14. \/ in' = [test |-> "cells", buf |-> <<>>]
       \/ in' = [test |-> "tree", tree |-> <<>>]
       \/ FirstHalf \/ Instruction \/ JumpInput \/ MemoryInput \/ BuildInput \/ ElfInput
       \/ GapInput \/ CallInput \/ InjInput \/ Numbers
       \/ in.test = "cells" /\ Cell
       \/ in.test = "tree" /\ Insert
       \/ in.test = "call" /\ Scenario
       \/ in.test \in {"none", "packet"} /\ PacketInput
  BY Zenon DEF Next
<1>15. in.test = "call" /\ Scenario => in'.test = "call"
  <2> SUFFICES ASSUME in.test = "call", Scenario PROVE in'.test = "call"
    OBVIOUS
  <2>1. PICK s \in Statuses : in' = [in EXCEPT !.statuses = Append(@, s)]
    BY DEF Scenario
  <2> QED BY <2>1
<1> QED BY <1>1, <1>2, <1>3, <1>4, <1>5, <1>6, <1>7, <1>8, <1>9, <1>10, <1>11, <1>12, <1>13,
           <1>14, <1>15

\* The payloads among the inputs: of two short elements, or of some cells
Short(e) == Len(e.name) <= 2 /\ Len(e.val) <= 12

IsBuilt(x) ==
    \E a, b \in Elements :
        Short(a) /\ Short(b) /\ x = [test |-> "build", a |-> a, b |-> b,
             pb |-> P!payload_put_term(Element(Element(P!payload_create, a), b))]

Cells == 0..(SizeLimit - 1)

PayloadInputs ==
    /\ in.test = "cells" => in.buf \in Seq(Cells) /\ Len(in.buf) <= MaxCells + 2
    /\ in.test = "build" => IsBuilt(in)

\* The elements of BuildInput are ones a handler may put.
LEMMA BuildElements ==
  ASSUME BuildInput
  PROVE  IsBuilt(in')
<1>1. PICK a, b \in [type : {P!U32, P!U64, P!STR}, name : {<<1>>, <<2>>, <<1, 2>>},
                     val : {<<5>>, <<0>>, <<6, 7>>, [n \in 1..12 |-> 8]}] :
        /\ \A e \in {a, b} : e.type # P!STR => Len(e.val) = P!NumberSize(e.type)
        /\ in' = [test |-> "build", a |-> a, b |-> b,
                  pb |-> P!payload_put_term(Element(Element(P!payload_create, a), b))]
  BY DEF BuildInput
<1>2. ASSUME NEW e \in {a, b} PROVE e \in Elements
  <2>1. <<1>> \in Seq(Nat \ {0}) /\ <<2>> \in Seq(Nat \ {0}) /\ <<1, 2>> \in Seq(Nat \ {0})
    OBVIOUS
  <2>2. <<5>> \in Seq(Nat) /\ <<0>> \in Seq(Nat) /\ <<6, 7>> \in Seq(Nat)
    OBVIOUS
  <2>3. [n \in 1..12 |-> 8] \in Seq(Nat)
    OBVIOUS
  <2>4. e.type # P!STR => Len(e.val) = P!NumberSize(e.type)
    BY <1>1
  <2>5. e \in [type : {P!U32, P!U64, P!STR}, name : Seq(Nat \ {0}), val : Seq(Nat)]
    BY <2>1, <2>2, <2>3
  <2> QED BY <2>4, <2>5 DEF Elements
<1>3. ASSUME NEW e \in {a, b} PROVE Short(e)
  <2>1. Len(<<1>>) = 1 /\ Len(<<2>>) = 1 /\ Len(<<1, 2>>) = 2
    OBVIOUS
  <2>2. Len(<<5>>) = 1 /\ Len(<<0>>) = 1 /\ Len(<<6, 7>>) = 2
    OBVIOUS
  <2>3. Len([n \in 1..12 |-> 8]) = 12
    OBVIOUS
  <2>4. e.name \in {<<1>>, <<2>>, <<1, 2>>} /\ e.val \in {<<5>>, <<0>>, <<6, 7>>, [n \in 1..12 |-> 8]}
    BY <1>1
  <2>5. Len(e.name) \in {1, 2} /\ Len(e.val) \in {1, 2, 12}
    BY <2>1, <2>2, <2>3, <2>4, Zenon
  <2>6. \A x \in {1, 2}, y \in {1, 2, 12} : x <= 2 /\ y <= 12
    OBVIOUS
  <2> QED BY <2>5, <2>6, Zenon DEF Short
<1> QED BY <1>1, <1>2, <1>3, Zenon DEF IsBuilt

LEMMA ShortElement ==
  ASSUME NEW e \in Elements, Short(e)
  PROVE  Len(e.name) \in 0..2 /\ Len(Data(e)) \in 0..13
<1> DEFINE u == Len(e.name)
           v == Len(e.val)
           d == Len(Data(e))
<1>1. e.name \in Seq(Nat) /\ e.val \in Seq(Nat)
  BY ElementType
<1>2. u \in Nat /\ v \in Nat /\ u <= 2 /\ v <= 12
  BY <1>1 DEF Short
<1>3. Len(e.val \o <<0>>) = v + 1
  <2>1. <<0>> \in Seq(Nat) /\ Len(<<0>>) = 1
    OBVIOUS
  <2> QED BY <1>1, <2>1
<1>4. d = v + 1 \/ d = v
  BY <1>3, Zenon DEF Data
<1> HIDE DEF u, v, d
<1>5. u \in 0..2 /\ d \in 0..13
  BY <1>2, <1>4
<1> QED BY <1>5 DEF u, d

\* A cell more
LEMMA CellAdded ==
  ASSUME Cell, in.buf \in Seq(Cells), Len(in.buf) <= MaxCells + 2
  PROVE  in'.test = "cells" /\ in'.buf \in Seq(Cells) /\ Len(in'.buf) <= MaxCells + 2
<1>1. PICK cells, c : /\ c \in cells /\ cells \in {{0}, 0..3 \cup Large, 0..1, 0..3}
                      /\ Len(in.buf) < IF IsLarge(in.buf) THEN MaxCells + 2 ELSE MaxCells
                      /\ in' = [test |-> "cells", buf |-> Append(in.buf, c)]
  <2> DEFINE len == Len(in.buf)
             start == IF len < P!Header THEN 0 ELSE P!payload_element_get_next(FALSE, in.buf, 0)
             large == len - start = 3 /\ in.buf[start + 1] = P!STR
             all == CASE len - start = 1 -> {0} [] large -> 0..3 \cup Large
                      [] IsLarge(in.buf) /\ len > 6 -> 0..1 [] OTHER -> 0..3
  <2>1. PICK c \in all : in' = [test |-> "cells", buf |-> Append(in.buf, c)]
    BY Zenon DEF Cell
  <2>2. all \in {{0}, 0..3 \cup Large, 0..1, 0..3}
    <3> DEFINE A1 == 0..3 \cup Large
               A2 == 0..1
               A3 == 0..3
               A0 == {0}
    <3> HIDE DEF len, start, large, A0, A1, A2, A3
    <3>1. all \in {A0, A1, A2, A3}
      BY DEF A0, A1, A2, A3
    <3> QED BY <3>1, Zenon DEF A0, A1, A2, A3
  <2>3. Len(in.buf) < IF IsLarge(in.buf) THEN MaxCells + 2 ELSE MaxCells
    BY Zenon DEF Cell
  <2> HIDE DEF all
  <2> QED BY <2>1, <2>2, <2>3, Zenon
<1>2. c \in Cells
  BY <1>1, SizeAssumption DEF Cells, Large
<1>3. Len(in.buf) < MaxCells + 2 /\ Len(in.buf) \in Nat
  <2> DEFINE len == Len(in.buf)
  <2>1. len \in Nat
    OBVIOUS
  <2>2. len < MaxCells + 2 \/ len < MaxCells
    BY <1>1, Zenon
  <2> HIDE DEF len
  <2>3. len < MaxCells + 2
    BY <2>1, <2>2, SizeAssumption
  <2> QED BY <2>1, <2>3 DEF len
<1>4. Append(in.buf, c) \in Seq(Cells) /\ Len(Append(in.buf, c)) = Len(in.buf) + 1
  BY <1>2
<1>5. in'.test = "cells" /\ in'.buf = Append(in.buf, c)
  BY <1>1
<1>6. Len(in.buf) + 1 <= MaxCells + 2
  BY <1>3, SizeAssumption
<1> QED BY <1>4, <1>5, <1>6

\* The inputs keep their form.
LEMMA PayloadInputsHold == Spec => []PayloadInputs
<1>1. Init => PayloadInputs
  BY DEF Init, None, PayloadInputs
<1>2. PayloadInputs /\ [Next]_in => PayloadInputs'
  <2> SUFFICES ASSUME PayloadInputs, [Next]_in PROVE PayloadInputs'
    OBVIOUS
  <2>1. CASE UNCHANGED in
    BY <2>1, Zenon DEF PayloadInputs, IsBuilt
  <2>2. CASE Next
    <3>1. CASE in' = [test |-> "cells", buf |-> <<>>]
      <4>1. in'.test = "cells" /\ in'.buf = <<>> /\ <<>> \in Seq(Cells) /\ Len(<<>>) = 0
        BY <3>1
      <4>2. 0 <= MaxCells + 2
        BY SizeAssumption
      <4> QED BY <4>1, <4>2 DEF PayloadInputs
    <3>2. CASE in'.test = "cells" /\ in.test = "cells" /\ Cell
      <4>1. in.buf \in Seq(Cells) /\ Len(in.buf) <= MaxCells + 2
        BY <3>2 DEF PayloadInputs
      <4>2. in'.buf \in Seq(Cells) /\ Len(in'.buf) <= MaxCells + 2
        BY <3>2, <4>1, CellAdded
      <4> QED BY <3>2, <4>2 DEF PayloadInputs
    <3>3. CASE in'.test = "build" /\ BuildInput
      BY <3>3, BuildElements DEF PayloadInputs
    <3>4. CASE in'.test \notin {"cells", "build"}
      BY <3>4 DEF PayloadInputs
    <3>5. \/ in' = [test |-> "cells", buf |-> <<>>]
          \/ in'.test = "cells" /\ in.test = "cells" /\ Cell
          \/ in'.test = "build" /\ BuildInput
          \/ in'.test \notin {"cells", "build"}
      BY <2>2, Inputs
    <3> QED BY <3>1, <3>2, <3>3, <3>4, <3>5
  <2> QED BY <2>1, <2>2
<1> QED BY <1>1, <1>2, PTL DEF Spec

\* Payloads of any length below SizeLimit, with 32 and with 64 bits: the check
\* of a received one ends in the buffer and what it accepts is read safely, both
\* up to sizes that wrap around, and a payload that the server builds is read
\* back (communication/payload.c).
THEOREM PayloadsSound == Spec => []PayloadSound
<1>1. PayloadInputs => PayloadSound
  <2> SUFFICES ASSUME PayloadInputs PROVE PayloadSound
    OBVIOUS
  <2>1. ASSUME in.test = "cells", NEW wide \in BOOLEAN
        PROVE  /\ CheckEnds(wide, in.buf)
               /\ P!payload_check(wide, in.buf).is = "correct" =>
                    \A name \in {<<>>, << 1 >>, << 2 >>, <<1, 1>>} :
                        GoodFind(wide, in.buf, name, P!payload_find(wide, in.buf, name))
    <3>1. in.buf \in Seq(0..(SizeLimit - 1)) /\ Len(in.buf) < SizeLimit
      <4>1. in.buf \in Seq(Cells) /\ Len(in.buf) <= MaxCells + 2
        BY <2>1 DEF PayloadInputs
      <4>2. Len(in.buf) \in Nat
        BY <4>1
      <4>3. Len(in.buf) < SizeLimit
        BY <4>1, <4>2, SizeAssumption
      <4> QED BY <4>1, <4>3 DEF Cells
    <3>2. \A name \in {<<>>, << 1 >>, << 2 >>, <<1, 1>>} : name \in Seq(Nat)
      <4>1. <<>> \in Seq(Nat) /\ <<1>> \in Seq(Nat) /\ <<2>> \in Seq(Nat) /\ <<1, 1>> \in Seq(Nat)
        OBVIOUS
      <4> QED BY <4>1
    <3>3. /\ CheckEnds(wide, in.buf)
          /\ P!payload_check(wide, in.buf).is = "correct" =>
               \A name \in Seq(Nat) :
                   FoundInside(wide, in.buf, name, P!payload_find(wide, in.buf, name))
      BY <3>1, ReadsInside
    <3> QED BY <3>2, <3>3, Zenon DEF FoundInside
  <2>2. ASSUME in.test = "build", NEW wide \in BOOLEAN
        PROVE  /\ P!payload_check(wide, in.pb.buf).is = "correct"
               /\ Len(in.pb.buf) <= in.pb.allocated
               /\ \A type \in {P!U32, P!U64, P!STR} :
                    P!payload_get(wide, in.pb.buf, in.a.name, type)
                      = IF type # in.a.type THEN <<>>
                        ELSE in.a.val \o (IF type = P!STR THEN <<0>> ELSE <<>>)
    <3>1. PICK a, b \in Elements :
             Short(a) /\ Short(b) /\ in = [test |-> "build", a |-> a, b |-> b,
                   pb |-> P!payload_put_term(Element(Element(P!payload_create, a), b))]
      BY <2>2 DEF PayloadInputs, IsBuilt
    <3> DEFINE es == [k \in 1..2 |-> IF k = 1 THEN a ELSE b]
               f == [k \in 0..2 |-> IF k = 0 THEN P!payload_create
                                    ELSE IF k = 1 THEN Element(P!payload_create, a)
                                    ELSE Element(Element(P!payload_create, a), b)]
               pb == P!payload_put_term(f[2])
    <3>2. es \in [1..2 -> Elements] /\ es[1] = a /\ es[2] = b
      OBVIOUS
    <3>3. /\ f[0] = P!payload_create
          /\ f[1] = Element(P!payload_create, a)
          /\ f[2] = Element(Element(P!payload_create, a), b)
      OBVIOUS
    <3>4. in.a = a /\ in.pb = pb
      <4> HIDE DEF f
      <4> QED BY <3>1, <3>3
    <3> HIDE DEF es, f
    <3>5. Builds(f, es, 2)
      <4>1. f[1] = P!payload_put(f[1 - 1], es[1].type, es[1].name, es[1].val)
        BY <3>2, <3>3 DEF Element
      <4>2. f[2] = P!payload_put(f[2 - 1], es[2].type, es[2].name, es[2].val)
        BY <3>2, <3>3 DEF Element
      <4>3. \A k \in 1..2 : k = 1 \/ k = 2
        OBVIOUS
      <4> QED BY <3>3, <4>1, <4>2, <4>3 DEF Builds
    <3>6. FirstNamed(es, 2, es[1].name, 1)
      BY DEF FirstNamed
    <3>11. Len(pb.buf) < SizeLimit
      <4> DEFINE at == [k \in 0..2 |-> Offset(f, k)]
      <4>1. Laid(pb.buf, at, es, 2)
        BY <3>2, <3>5, BuiltIsLaid
      <4> HIDE DEF at, pb
      <4>2. /\ at[0] = 0 /\ Len(pb.buf) = at[2] + 5
            /\ \A k \in 1..2 : at[k] = at[k - 1] + 5 + Len(es[k].name) + Len(Data(es[k]))
        BY <4>1 DEF Laid
      <4>3. /\ at[1] = at[0] + 5 + Len(a.name) + Len(Data(a))
            /\ at[2] = at[1] + 5 + Len(b.name) + Len(Data(b))
        <5>1. 1 \in 1..2 /\ 2 \in 1..2 /\ 1 - 1 = 0 /\ 2 - 1 = 1
          OBVIOUS
        <5> QED BY <3>2, <4>2, <5>1, Zenon
      <4>5. /\ Len(a.name) \in 0..2 /\ Len(Data(a)) \in 0..13
            /\ Len(b.name) \in 0..2 /\ Len(Data(b)) \in 0..13
        BY <3>1, ShortElement
      <4> DEFINE size == Len(pb.buf)
                 u1 == Len(a.name)
                 u2 == Len(b.name)
                 v1 == Len(Data(a))
                 v2 == Len(Data(b))
                 x0 == at[0]
                 x1 == at[1]
                 x2 == at[2]
      <4>6. /\ u1 \in 0..2 /\ u2 \in 0..2 /\ v1 \in 0..13 /\ v2 \in 0..13
            /\ x0 = 0 /\ x1 = x0 + 5 + u1 + v1 /\ x2 = x1 + 5 + u2 + v2 /\ size = x2 + 5
        BY <4>2, <4>3, <4>5, Zenon
      <4> HIDE DEF size, u1, u2, v1, v2, x0, x1, x2
      <4>7. size < SizeLimit
        BY <4>6, SizeAssumption
      <4> QED BY <4>7 DEF size
    <3>7. /\ P!payload_check(wide, pb.buf).is = "correct"
          /\ Len(pb.buf) <= pb.allocated
          /\ \A type : \A k \in 1..2 :
                FirstNamed(es, 2, es[k].name, k) =>
                    P!payload_get(wide, pb.buf, es[k].name, type)
                      = IF es[k].type = type THEN Data(es[k]) ELSE <<>>
      <4> DEFINE two == 2
      <4>1. two \in Nat /\ es \in [1..two -> Elements] /\ Builds(f, es, two)
        BY <3>2, <3>5
      <4>2. Len(P!payload_put_term(f[two]).buf) < SizeLimit
        BY <3>11
      <4> HIDE DEF two, pb
      <4>3. ReadBack(wide, P!payload_put_term(f[two]), es, two)
        BY <4>1, <4>2, BuiltIsRead
      <4> QED BY <4>3, Zenon DEF two, pb, ReadBack
    <3> HIDE DEF pb
    <3>8. \A type : P!payload_get(wide, pb.buf, a.name, type) = IF a.type = type THEN Data(a) ELSE <<>>
      <4>1. 1 \in 1..2
        OBVIOUS
      <4> QED BY <3>2, <3>6, <3>7, <4>1, Zenon
    <3>9. Data(a) = a.val \o (IF a.type = P!STR THEN <<0>> ELSE <<>>)
      <4>1. a.val \in Seq(Nat)
        BY ElementType
      <4>2. a.val \o <<>> = a.val
        BY <4>1, ConcatEmptySeq
      <4> QED BY <4>2, Zenon DEF Data
    <3>10. \A type \in {P!U32, P!U64, P!STR} :
             P!payload_get(wide, pb.buf, a.name, type)
               = IF type # a.type THEN <<>> ELSE a.val \o (IF type = P!STR THEN <<0>> ELSE <<>>)
      BY <3>8, <3>9, Zenon
    <3> QED BY <3>4, <3>7, <3>10, Zenon
  <2> QED BY <2>1, <2>2, Zenon DEF PayloadSound
<1> QED BY <1>1, PayloadInputsHold, PTL

------------------------------------------------------------------------------
(* Trees.  Lo and Hi are the neighbours of a key at the time of its         *)
(* insertion, 0 if there is none: the later one is the parent, and the keys *)
(* between the two are those of its subtree.                                *)

\* Keys are not inserted twice.
IsTree(tree) ==
    /\ tree \in Seq(Nat \ {0})
    /\ \A m, n \in 1..Len(tree) : tree[m] = tree[n] => m = n

Before(tree, j, k) == T!Place(tree, j) < T!Place(tree, k)

IsLo(tree, k, b) ==
    /\ b \in Nat /\ b < k
    /\ b # 0 => b \in T!Keys(tree) /\ Before(tree, b, k)
    /\ \A m \in T!Keys(tree) : Before(tree, m, k) /\ m < k => m <= b

IsHi(tree, k, a) ==
    /\ a \in Nat
    /\ a # 0 => a \in T!Keys(tree) /\ Before(tree, a, k) /\ k < a
    /\ \A m \in T!Keys(tree) : Before(tree, m, k) /\ k < m => a # 0 /\ a <= m

Lo(tree, k) == CHOOSE b : IsLo(tree, k, b)
Hi(tree, k) == CHOOSE a : IsHi(tree, k, a)

\* Each key has its place.
LEMMA Placed ==
  ASSUME NEW tree, IsTree(tree)
  PROVE  /\ T!Keys(tree) \subseteq Nat \ {0}
         /\ \A k \in T!Keys(tree) : T!Place(tree, k) \in 1..Len(tree) /\ tree[T!Place(tree, k)] = k
         /\ \A n \in 1..Len(tree) : tree[n] \in T!Keys(tree) /\ T!Place(tree, tree[n]) = n
         /\ \A j, k \in T!Keys(tree) : T!Place(tree, j) = T!Place(tree, k) => j = k
<1>1. T!Keys(tree) \subseteq Nat \ {0}
  BY DEF IsTree, T!Keys
<1>2. \A k \in T!Keys(tree) : T!Place(tree, k) \in 1..Len(tree) /\ tree[T!Place(tree, k)] = k
  <2> SUFFICES ASSUME NEW k \in T!Keys(tree)
               PROVE  T!Place(tree, k) \in 1..Len(tree) /\ tree[T!Place(tree, k)] = k
    OBVIOUS
  <2>1. \E n \in 1..Len(tree) : tree[n] = k
    BY DEF T!Keys
  <2> QED BY <2>1 DEF T!Place
<1>3. \A n \in 1..Len(tree) : tree[n] \in T!Keys(tree)
  BY DEF T!Keys
<1>4. \A n \in 1..Len(tree) : T!Place(tree, tree[n]) = n
  BY <1>2, <1>3 DEF IsTree
<1> QED BY <1>1, <1>2, <1>3, <1>4

\* There are such neighbours.
LEMMA Neighbours ==
  ASSUME NEW tree, IsTree(tree), NEW k \in T!Keys(tree)
  PROVE  IsLo(tree, k, Lo(tree, k)) /\ IsHi(tree, k, Hi(tree, k))
<1> DEFINE K == T!Keys(tree)
           low == {m \in K : Before(tree, m, k) /\ m < k}
           high == {m \in K : Before(tree, m, k) /\ k < m}
<1>0. K \subseteq Nat \ {0} /\ k \in Nat
  BY Placed
<1>1. \E b : IsLo(tree, k, b)
  <2>1. CASE low = {}
    <3>1. \A m \in K : Before(tree, m, k) /\ m < k => m <= 0
      BY <2>1, Zenon
    <3>2. 0 < k
      BY <1>0
    <3>3. IsLo(tree, k, 0)
      BY <3>1, <3>2 DEF IsLo
    <3> QED BY <3>3
  <2>2. CASE low # {}
    <3>1. low \in SUBSET (1..k)
      BY <1>0
    <3> DEFINE b == Max(low)
    <3>2. b \in low /\ \A y \in low : b >= y
      <4> HIDE DEF low
      <4> QED BY <1>0, <2>2, <3>1, MaxIn
    <3>3. b \in K /\ Before(tree, b, k) /\ b < k /\ b \in Nat
      <4> HIDE DEF b
      <4> QED BY <1>0, <3>2
    <3>4. \A m \in K : Before(tree, m, k) /\ m < k => m <= b
      <4> HIDE DEF b
      <4> QED BY <1>0, <3>2, <3>3
    <3> HIDE DEF b, K
    <3>5. IsLo(tree, k, b)
      BY <3>3, <3>4 DEF IsLo, K
    <3> QED BY <3>5
  <2> QED BY <2>1, <2>2
<1>2. \E a : IsHi(tree, k, a)
  <2>1. CASE high = {}
    <3>1. \A m \in K : ~(Before(tree, m, k) /\ k < m)
      BY <2>1, Zenon
    <3>2. IsHi(tree, k, 0)
      BY <3>1 DEF IsHi
    <3> QED BY <3>2
  <2>2. CASE high # {}
    <3>1. high \in SUBSET Nat
      BY <1>0
    <3>2. PICK a \in high : \A y \in high : a <= y
      <4> HIDE DEF high
      <4> QED BY <2>2, <3>1, Least
    <3>3. a \in K /\ Before(tree, a, k) /\ k < a /\ a \in Nat /\ a # 0
      BY <1>0, <3>2
    <3>4. \A m \in K : Before(tree, m, k) /\ k < m => a <= m
      BY <3>2
    <3> HIDE DEF K
    <3>5. IsHi(tree, k, a)
      BY <3>3, <3>4 DEF IsHi, K
    <3> QED BY <3>5
  <2> QED BY <2>1, <2>2
<1> QED BY <1>1, <1>2, Zenon DEF Lo, Hi

\* The parent is the later neighbour.
LEMMA ParentIs ==
  ASSUME NEW tree, IsTree(tree), NEW k \in T!Keys(tree)
  PROVE  T!parent(tree, k) = IF Lo(tree, k) = 0 THEN Hi(tree, k)
                             ELSE IF Hi(tree, k) = 0 \/ Before(tree, Hi(tree, k), Lo(tree, k))
                             THEN Lo(tree, k) ELSE Hi(tree, k)
<1> DEFINE K == T!Keys(tree)
           lo == Lo(tree, k)
           hi == Hi(tree, k)
           older == {tree[n] : n \in 1..(T!Place(tree, k) - 1)}
           below == {j \in older : j < k /\ \A m \in older : m < k => m <= j}
           above == {j \in older : j > k /\ \A m \in older : m > k => m >= j}
           near == below \cup above
<1>0. K \subseteq Nat \ {0} /\ k \in Nat /\ IsLo(tree, k, lo) /\ IsHi(tree, k, hi)
  BY Placed, Neighbours
<1>1. \A j : j \in older <=> j \in K /\ Before(tree, j, k)
  <2>1. ASSUME NEW j \in older PROVE j \in K /\ Before(tree, j, k)
    <3>1. PICK n \in 1..(T!Place(tree, k) - 1) : j = tree[n]
      OBVIOUS
    <3>2. n \in 1..Len(tree) /\ n < T!Place(tree, k)
      BY Placed
    <3> QED BY <3>1, <3>2, Placed DEF Before
  <2>2. ASSUME NEW j \in K, Before(tree, j, k) PROVE j \in older
    <3>1. T!Place(tree, j) \in 1..(T!Place(tree, k) - 1) /\ tree[T!Place(tree, j)] = j
      BY <2>2, Placed DEF Before
    <3> QED BY <3>1
  <2> QED BY <2>1, <2>2
<1> HIDE DEF older
<1>2. below = IF lo = 0 THEN {} ELSE {lo}
  BY <1>0, <1>1 DEF IsLo
<1>3. above = IF hi = 0 THEN {} ELSE {hi}
  BY <1>0, <1>1 DEF IsHi
<1>4. T!parent(tree, k) = IF near = {} THEN 0
                          ELSE CHOOSE j \in near : \A m \in near : T!Place(tree, m) <= T!Place(tree, j)
  BY DEF T!parent, T!NoNode, older
<1>5. lo # 0 /\ hi # 0 => /\ T!Place(tree, lo) \in Int /\ T!Place(tree, hi) \in Int
                          /\ T!Place(tree, lo) # T!Place(tree, hi)
  BY <1>0, Placed DEF IsLo, IsHi
<1> HIDE DEF below, above
<1>6. CASE lo = 0 /\ hi = 0
  BY <1>2, <1>3, <1>4, <1>6
<1>7. CASE lo = 0 /\ hi # 0
  <2>1. near = {hi}
    BY <1>2, <1>3, <1>7
  <2>2. T!Place(tree, hi) <= T!Place(tree, hi)
    BY <1>0, <1>7, Placed DEF IsHi
  <2> HIDE DEF near
  <2> QED BY <1>4, <1>7, <2>1, <2>2
<1>8. CASE lo # 0 /\ hi = 0
  <2>1. near = {lo}
    BY <1>2, <1>3, <1>8
  <2>2. T!Place(tree, lo) <= T!Place(tree, lo)
    BY <1>0, <1>8, Placed DEF IsLo
  <2> HIDE DEF near
  <2> QED BY <1>4, <1>8, <2>1, <2>2
<1>9. CASE lo # 0 /\ hi # 0
  <2>1. near = {lo, hi}
    BY <1>2, <1>3, <1>9
  <2> HIDE DEF near
  <2> QED BY <1>4, <1>5, <1>9, <2>1 DEF Before
<1> QED BY <1>6, <1>7, <1>8, <1>9

\* What the places, the neighbours and the parent are like, in one piece
LEMMA Around ==
  ASSUME NEW tree, IsTree(tree), NEW k \in T!Keys(tree)
  PROVE  /\ k \in Nat /\ k # 0 /\ T!Place(tree, k) \in Nat
         /\ IsLo(tree, k, Lo(tree, k)) /\ IsHi(tree, k, Hi(tree, k))
         /\ T!parent(tree, k) \in {Lo(tree, k), Hi(tree, k)}
         /\ T!parent(tree, k) = 0 \/ T!parent(tree, k) \in T!Keys(tree)
         /\ T!parent(tree, k) # 0 => Before(tree, T!parent(tree, k), k)
         /\ T!parent(tree, k) = 0 => Lo(tree, k) = 0 /\ Hi(tree, k) = 0
<1>1. k \in Nat /\ k # 0 /\ T!Place(tree, k) \in Nat
  BY Placed
<1>2. IsLo(tree, k, Lo(tree, k)) /\ IsHi(tree, k, Hi(tree, k))
  BY Neighbours
<1> QED BY <1>1, <1>2, ParentIs DEF IsLo, IsHi

\* The neighbours of a child are its parent and one of its parent's.
LEMMA SmallerChild ==
  ASSUME NEW tree, IsTree(tree), NEW k \in T!Keys(tree), NEW j \in T!Keys(tree),
         T!parent(tree, j) = k, j < k
  PROVE  Hi(tree, j) = k /\ Lo(tree, j) = Lo(tree, k) /\ Before(tree, k, j)
<1>0. /\ j \in Nat /\ k \in Nat /\ k # 0
      /\ T!Place(tree, j) \in Nat /\ T!Place(tree, k) \in Nat
      /\ IsLo(tree, j, Lo(tree, j)) /\ IsHi(tree, j, Hi(tree, j))
      /\ IsLo(tree, k, Lo(tree, k))
  BY Around
<1>1. Hi(tree, j) = k /\ Before(tree, k, j)
  BY <1>0, Around DEF IsLo
<1>2. Lo(tree, j) # 0 => Before(tree, Lo(tree, j), k)
  <2> SUFFICES ASSUME Lo(tree, j) # 0 PROVE Before(tree, Lo(tree, j), k)
    OBVIOUS
  <2>1. ~Before(tree, k, Lo(tree, j))
    BY <1>0, <1>1, ParentIs DEF IsLo
  <2>2. Lo(tree, j) \in T!Keys(tree) /\ Lo(tree, j) # k
    BY <1>0 DEF IsLo
  <2>3. T!Place(tree, Lo(tree, j)) # T!Place(tree, k) /\ T!Place(tree, Lo(tree, j)) \in Nat
    BY <2>2, Placed
  <2> QED BY <1>0, <2>1, <2>3 DEF Before
<1>3. Lo(tree, j) <= Lo(tree, k)
  BY <1>0, <1>2 DEF IsLo
<1>4. Lo(tree, k) # 0 => Before(tree, Lo(tree, k), j)
  <2> SUFFICES ASSUME Lo(tree, k) # 0 PROVE Before(tree, Lo(tree, k), j)
    OBVIOUS
  <2>1. Lo(tree, k) \in T!Keys(tree) /\ Before(tree, Lo(tree, k), k)
    BY <1>0 DEF IsLo
  <2>2. T!Place(tree, Lo(tree, k)) \in Nat
    BY <2>1, Placed
  <2> QED BY <1>0, <1>1, <2>1, <2>2 DEF Before
<1>5. Lo(tree, k) # j
  <2>1. Before(tree, j, k) => FALSE
    BY <1>0, <1>1 DEF Before
  <2>2. Lo(tree, k) = j => Before(tree, j, k)
    BY <1>0, Around DEF IsLo
  <2> QED BY <2>1, <2>2
<1>6. Lo(tree, k) <= Lo(tree, j)
  BY <1>0, <1>1, <1>4, <1>5 DEF IsLo, IsHi
<1> QED BY <1>0, <1>1, <1>3, <1>6 DEF IsLo

\* The same for a child with a larger key
LEMMA LargerChild ==
  ASSUME NEW tree, IsTree(tree), NEW k \in T!Keys(tree), NEW j \in T!Keys(tree),
         T!parent(tree, j) = k, j > k
  PROVE  Lo(tree, j) = k /\ Hi(tree, j) = Hi(tree, k) /\ Before(tree, k, j)
<1>0. /\ j \in Nat /\ k \in Nat /\ k # 0
      /\ T!Place(tree, j) \in Nat /\ T!Place(tree, k) \in Nat
      /\ IsLo(tree, j, Lo(tree, j)) /\ IsHi(tree, j, Hi(tree, j))
      /\ IsHi(tree, k, Hi(tree, k))
  BY Around
<1>1. Lo(tree, j) = k /\ Before(tree, k, j)
  BY <1>0, Around DEF IsHi
<1>2. Hi(tree, j) # 0 => Before(tree, Hi(tree, j), k)
  BY <1>0, <1>1, ParentIs DEF IsHi
<1>3. Hi(tree, j) # 0 => Hi(tree, k) # 0 /\ Hi(tree, k) <= Hi(tree, j)
  BY <1>0, <1>1, <1>2 DEF IsHi
<1>4. Hi(tree, k) # 0 => Before(tree, Hi(tree, k), j)
  <2> SUFFICES ASSUME Hi(tree, k) # 0 PROVE Before(tree, Hi(tree, k), j)
    OBVIOUS
  <2>1. Hi(tree, k) \in T!Keys(tree) /\ Before(tree, Hi(tree, k), k)
    BY <1>0 DEF IsHi
  <2>2. T!Place(tree, Hi(tree, k)) \in Nat
    BY <2>1, Placed
  <2> QED BY <1>0, <1>1, <2>1, <2>2 DEF Before
<1>5. Hi(tree, k) # j
  <2>1. Before(tree, j, k) => FALSE
    BY <1>0, <1>1 DEF Before
  <2>2. Hi(tree, k) = j => Before(tree, j, k)
    BY <1>0 DEF IsHi
  <2> QED BY <2>1, <2>2
<1>6. Hi(tree, k) # 0 => Hi(tree, j) # 0 /\ Hi(tree, j) <= Hi(tree, k)
  <2> SUFFICES ASSUME Hi(tree, k) # 0 PROVE Hi(tree, j) # 0 /\ Hi(tree, j) <= Hi(tree, k)
    OBVIOUS
  <2>1. Hi(tree, k) \in T!Keys(tree) /\ Hi(tree, k) \in Nat /\ k < Hi(tree, k)
    BY <1>0 DEF IsHi
  <2>2. ~(Hi(tree, k) < j)
    BY <1>0, <1>1, <1>4, <2>1 DEF IsLo
  <2>3. j < Hi(tree, k)
    BY <1>0, <1>5, <2>1, <2>2
  <2> QED BY <1>0, <1>4, <2>1, <2>3 DEF IsHi
<1> QED BY <1>0, <1>1, <1>3, <1>6 DEF IsHi

\* A node has at most one child on either side.
LEMMA LeftIs ==
  ASSUME NEW tree, IsTree(tree), NEW k \in T!Keys(tree)
  PROVE  /\ T!left(tree, k) # 0 => /\ T!left(tree, k) \in T!Keys(tree) /\ T!left(tree, k) < k
                                   /\ T!parent(tree, T!left(tree, k)) = k
         /\ \A j \in T!Keys(tree) : j < k /\ T!parent(tree, j) = k => T!left(tree, k) = j
<1> DEFINE side == {j \in T!Keys(tree) : j < k /\ T!parent(tree, j) = k}
<1>1. ASSUME NEW i \in side, NEW j \in side, T!Place(tree, i) < T!Place(tree, j) PROVE FALSE
  <2>1. /\ Hi(tree, i) = k /\ Lo(tree, i) = Lo(tree, k)
        /\ Hi(tree, j) = k /\ Lo(tree, j) = Lo(tree, k)
    BY SmallerChild
  <2>2. i \in Nat /\ j \in Nat /\ k \in Nat /\ i # j /\ T!Place(tree, i) \in Nat
    BY <1>1, Placed
  <2>3. i < j => i <= Lo(tree, j)
    BY <1>1, Around DEF IsLo, Before
  <2>4. Lo(tree, i) < i /\ Lo(tree, i) \in Nat
    BY Around DEF IsLo
  <2>5. j < i => Hi(tree, j) <= i
    BY <1>1, Around DEF IsHi, Before
  <2> QED BY <2>1, <2>2, <2>3, <2>4, <2>5
<1>2. ASSUME NEW i \in side, NEW j \in side PROVE i = j
  <2>1. T!Place(tree, i) \in Nat /\ T!Place(tree, j) \in Nat
    BY Placed
  <2>2. ~(T!Place(tree, i) < T!Place(tree, j)) /\ ~(T!Place(tree, j) < T!Place(tree, i))
    BY <1>1
  <2> QED BY <2>1, <2>2, Placed
<1>3. T!left(tree, k) = IF side = {} THEN 0 ELSE CHOOSE j \in side : TRUE
  BY DEF T!left, T!Child, T!NoNode
<1>4. \A j \in side : j # 0
  BY Placed
<1> HIDE DEF side
<1>5. T!left(tree, k) # 0 => T!left(tree, k) \in side
  BY <1>3
<1>6. \A j \in side : T!left(tree, k) = j
  BY <1>2, <1>3
<1> QED BY <1>5, <1>6 DEF side

\* right is the only larger key with that parent.
LEMMA RightIs ==
  ASSUME NEW tree, IsTree(tree), NEW k \in T!Keys(tree)
  PROVE  /\ T!right(tree, k) # 0 => /\ T!right(tree, k) \in T!Keys(tree) /\ k < T!right(tree, k)
                                    /\ T!parent(tree, T!right(tree, k)) = k
         /\ \A j \in T!Keys(tree) : k < j /\ T!parent(tree, j) = k => T!right(tree, k) = j
<1> DEFINE side == {j \in T!Keys(tree) : j > k /\ T!parent(tree, j) = k}
<1>1. ASSUME NEW i \in side, NEW j \in side, T!Place(tree, i) < T!Place(tree, j) PROVE FALSE
  <2>1. /\ Lo(tree, i) = k /\ Hi(tree, i) = Hi(tree, k)
        /\ Lo(tree, j) = k /\ Hi(tree, j) = Hi(tree, k)
    BY LargerChild
  <2>2. i \in Nat /\ j \in Nat /\ k \in Nat /\ i # j /\ T!Place(tree, i) \in Nat
    BY <1>1, Placed
  <2>3. i < j => i <= Lo(tree, j)
    BY <1>1, Around DEF IsLo, Before
  <2>4. Hi(tree, i) # 0 => i < Hi(tree, i)
    BY Around DEF IsHi
  <2>5. j < i => Hi(tree, j) # 0 /\ Hi(tree, j) <= i
    BY <1>1, Around DEF IsHi, Before
  <2>6. Hi(tree, i) \in Nat /\ k < i
    BY Around DEF IsHi
  <2> QED BY <2>1, <2>2, <2>3, <2>4, <2>5, <2>6
<1>2. ASSUME NEW i \in side, NEW j \in side PROVE i = j
  <2>1. T!Place(tree, i) \in Nat /\ T!Place(tree, j) \in Nat
    BY Placed
  <2>2. ~(T!Place(tree, i) < T!Place(tree, j)) /\ ~(T!Place(tree, j) < T!Place(tree, i))
    BY <1>1
  <2> QED BY <2>1, <2>2, Placed
<1>3. T!right(tree, k) = IF side = {} THEN 0 ELSE CHOOSE j \in side : TRUE
  BY DEF T!right, T!Child, T!NoNode
<1> HIDE DEF side
<1>5. T!right(tree, k) # 0 => T!right(tree, k) \in side
  BY <1>3
<1>6. \A j \in side : T!right(tree, k) = j
  BY <1>2, <1>3
<1>7. \A j : j \in side <=> j \in T!Keys(tree) /\ k < j /\ T!parent(tree, j) = k
  BY Placed DEF side
<1> QED BY <1>5, <1>6, <1>7

\* Without a child on one side, the neighbour is still the nearest key.
LEMMA NothingLeft ==
  ASSUME NEW tree, IsTree(tree), NEW k \in T!Keys(tree), T!left(tree, k) = 0
  PROVE  \A m \in T!Keys(tree) : m < k => m <= Lo(tree, k)
<1> DEFINE between == {m \in T!Keys(tree) : Lo(tree, k) < m /\ m < k}
           times == {T!Place(tree, m) : m \in between}
<1>0. k \in Nat /\ IsLo(tree, k, Lo(tree, k)) /\ T!Place(tree, k) \in Nat
  BY Around
<1> SUFFICES ASSUME between # {} PROVE FALSE
  BY <1>0, Placed DEF IsLo
<1>1. PICK t \in times : \A u \in times : t <= u
  <2>1. times \in SUBSET Nat
    BY Placed
  <2>2. times # {}
    OBVIOUS
  <2> HIDE DEF times
  <2> QED BY <2>1, <2>2, Least
<1>2. PICK j \in between : t = T!Place(tree, j)
  BY <1>1
<1>3. \A m \in between : ~Before(tree, m, j)
  <2> SUFFICES ASSUME NEW m \in between PROVE ~Before(tree, m, j)
    OBVIOUS
  <2>1. T!Place(tree, m) \in times
    OBVIOUS
  <2>2. T!Place(tree, m) \in Nat /\ T!Place(tree, j) \in Nat
    BY Placed
  <2> HIDE DEF times, between
  <2> QED BY <1>1, <1>2, <2>1, <2>2 DEF Before
<1>4. /\ j \in T!Keys(tree) /\ j \in Nat /\ j # 0 /\ Lo(tree, k) < j /\ j < k
      /\ T!Place(tree, j) \in Nat /\ IsLo(tree, j, Lo(tree, j)) /\ IsHi(tree, j, Hi(tree, j))
  BY Around
<1>5. Before(tree, k, j)
  <2>1. ~Before(tree, j, k)
    BY <1>0, <1>4 DEF IsLo
  <2>2. T!Place(tree, j) # T!Place(tree, k)
    BY <1>0, <1>4, Placed
  <2> QED BY <1>0, <1>4, <2>1, <2>2 DEF Before
<1>6. Hi(tree, j) = k
  <2>1. Hi(tree, j) # 0 /\ Hi(tree, j) <= k
    BY <1>4, <1>5 DEF IsHi
  <2>2. Hi(tree, j) \notin between
    BY <1>3, <1>4, <2>1 DEF IsHi
  <2>3. Hi(tree, j) \in T!Keys(tree) /\ j < Hi(tree, j) /\ Hi(tree, j) \in Nat
    BY <1>4, <2>1 DEF IsHi
  <2>4. Lo(tree, k) \in Nat
    BY <1>0 DEF IsLo
  <2> QED BY <1>0, <1>4, <2>1, <2>2, <2>3, <2>4
<1>7. Lo(tree, j) # 0 => Before(tree, Lo(tree, j), k)
  <2> SUFFICES ASSUME Lo(tree, j) # 0 PROVE Before(tree, Lo(tree, j), k)
    OBVIOUS
  <2>1. Lo(tree, j) \in T!Keys(tree) /\ Lo(tree, j) < j /\ Lo(tree, j) \in Nat
    BY <1>4 DEF IsLo
  <2>2. Lo(tree, j) \notin between
    BY <1>3, <1>4 DEF IsLo
  <2>3. Lo(tree, k) \in Nat /\ Lo(tree, j) <= Lo(tree, k)
    BY <1>0, <1>4, <2>1, <2>2 DEF IsLo
  <2>4. Lo(tree, k) # 0 /\ Before(tree, Lo(tree, k), k) /\ Lo(tree, k) \in T!Keys(tree)
    BY <1>0, <2>1, <2>3 DEF IsLo
  <2>5. T!Place(tree, Lo(tree, k)) \in Nat
    BY <2>4, Placed
  <2>6. Before(tree, Lo(tree, k), j)
    BY <1>0, <1>4, <1>5, <2>4, <2>5 DEF Before
  <2>7. Lo(tree, k) <= Lo(tree, j)
    BY <1>4, <2>4, <2>6 DEF IsLo
  <2>8. Lo(tree, k) = Lo(tree, j)
    BY <2>1, <2>3, <2>7
  <2> QED BY <2>4, <2>8
<1>8. T!parent(tree, j) = k
  <2>1. Lo(tree, j) # 0 => ~Before(tree, k, Lo(tree, j))
    <3> SUFFICES ASSUME Lo(tree, j) # 0 PROVE ~Before(tree, k, Lo(tree, j))
      OBVIOUS
    <3>1. T!Place(tree, Lo(tree, j)) \in Nat
      BY <1>4, Placed DEF IsLo
    <3> QED BY <1>0, <1>7, <3>1 DEF Before
  <2> QED BY <1>0, <1>4, <1>6, <2>1, ParentIs, Placed
<1> QED BY <1>4, <1>8, LeftIs

\* Without a right child, the next larger key is the one known at the insertion.
LEMMA NothingRight ==
  ASSUME NEW tree, IsTree(tree), NEW k \in T!Keys(tree), T!right(tree, k) = 0
  PROVE  \A m \in T!Keys(tree) : k < m => Hi(tree, k) # 0 /\ Hi(tree, k) <= m
<1> DEFINE between == {m \in T!Keys(tree) : k < m /\ (Hi(tree, k) # 0 => m < Hi(tree, k))}
           times == {T!Place(tree, m) : m \in between}
<1>0. k \in Nat /\ IsHi(tree, k, Hi(tree, k)) /\ T!Place(tree, k) \in Nat
  BY Around
<1> SUFFICES ASSUME between # {} PROVE FALSE
  BY <1>0, Placed DEF IsHi
<1>1. PICK t \in times : \A u \in times : t <= u
  <2>1. times \in SUBSET Nat
    BY Placed
  <2>2. times # {}
    OBVIOUS
  <2> HIDE DEF times
  <2> QED BY <2>1, <2>2, Least
<1>2. PICK j \in between : t = T!Place(tree, j)
  BY <1>1
<1>3. \A m \in between : ~Before(tree, m, j)
  <2> SUFFICES ASSUME NEW m \in between PROVE ~Before(tree, m, j)
    OBVIOUS
  <2>1. T!Place(tree, m) \in times
    OBVIOUS
  <2>2. T!Place(tree, m) \in Nat /\ T!Place(tree, j) \in Nat
    BY Placed
  <2> HIDE DEF times, between
  <2> QED BY <1>1, <1>2, <2>1, <2>2 DEF Before
<1>4. /\ j \in T!Keys(tree) /\ j \in Nat /\ j # 0 /\ k < j /\ (Hi(tree, k) # 0 => j < Hi(tree, k))
      /\ T!Place(tree, j) \in Nat /\ IsLo(tree, j, Lo(tree, j)) /\ IsHi(tree, j, Hi(tree, j))
  BY Around
<1>5. Before(tree, k, j)
  <2>1. ~Before(tree, j, k)
    BY <1>0, <1>4 DEF IsHi
  <2>2. T!Place(tree, j) # T!Place(tree, k)
    BY <1>0, <1>4, Placed
  <2> QED BY <1>0, <1>4, <2>1, <2>2 DEF Before
<1>6. Lo(tree, j) = k
  <2>1. Lo(tree, j) \in Nat /\ k <= Lo(tree, j) /\ Lo(tree, j) < j
    BY <1>4, <1>5 DEF IsLo
  <2>2. Lo(tree, j) # 0 /\ Lo(tree, j) \in T!Keys(tree) /\ Before(tree, Lo(tree, j), j)
    BY <1>0, <1>4, <2>1, Placed DEF IsLo
  <2>3. Lo(tree, j) \notin between
    BY <1>3, <2>2
  <2>4. Hi(tree, k) \in Nat
    BY <1>0 DEF IsHi
  <2> QED BY <1>0, <1>4, <2>1, <2>2, <2>3, <2>4
<1>7. Hi(tree, j) # 0 => Before(tree, Hi(tree, j), k)
  <2> SUFFICES ASSUME Hi(tree, j) # 0 PROVE Before(tree, Hi(tree, j), k)
    OBVIOUS
  <2>1. /\ Hi(tree, j) \in T!Keys(tree) /\ j < Hi(tree, j) /\ Hi(tree, j) \in Nat
        /\ Before(tree, Hi(tree, j), j)
    BY <1>4 DEF IsHi
  <2>2. Hi(tree, j) \notin between
    BY <1>3, <2>1
  <2>3. Hi(tree, k) \in Nat /\ Hi(tree, k) # 0 /\ Hi(tree, k) <= Hi(tree, j)
    BY <1>0, <1>4, <2>1, <2>2 DEF IsHi
  <2>4. Before(tree, Hi(tree, k), k) /\ Hi(tree, k) \in T!Keys(tree)
    BY <1>0, <2>3 DEF IsHi
  <2>5. T!Place(tree, Hi(tree, k)) \in Nat
    BY <2>4, Placed
  <2>6. Before(tree, Hi(tree, k), j)
    BY <1>0, <1>4, <1>5, <2>4, <2>5 DEF Before
  <2>7. Hi(tree, j) <= Hi(tree, k)
    BY <1>4, <2>3, <2>4, <2>6 DEF IsHi
  <2>8. Hi(tree, k) = Hi(tree, j)
    BY <2>1, <2>3, <2>7
  <2> QED BY <2>4, <2>8
<1>8. T!parent(tree, j) = k
  <2>1. k # 0
    BY Placed
  <2> QED BY <1>6, <1>7, <2>1, ParentIs
<1> QED BY <1>4, <1>8, RightIs

\* The nodes, and how far a node is from the end of the insertions
Nodes(tree) == T!Keys(tree) \cup {0}

Depth(tree, k) == IF k = 0 THEN 0 ELSE Len(tree) + 1 - T!Place(tree, k)

\* Children are deeper: later places.
LEMMA Depths ==
  ASSUME NEW tree, IsTree(tree)
  PROVE  /\ Len(tree) + 1 \in Nat
         /\ \A k \in Nodes(tree) : Depth(tree, k) \in 0..(Len(tree) + 1)
         /\ \A k \in T!Keys(tree) :
              /\ T!left(tree, k) \in Nodes(tree)
              /\ T!right(tree, k) \in Nodes(tree)
              /\ Depth(tree, T!left(tree, k)) < Depth(tree, k)
              /\ Depth(tree, T!right(tree, k)) < Depth(tree, k)
<1>1. Len(tree) \in Nat
  BY DEF IsTree
<1>2. \A k \in Nodes(tree) : Depth(tree, k) \in 0..(Len(tree) + 1)
  BY <1>1, Placed DEF Nodes, Depth
<1>3. ASSUME NEW k \in T!Keys(tree)
      PROVE  /\ T!left(tree, k) \in Nodes(tree)
             /\ Depth(tree, T!left(tree, k)) < Depth(tree, k)
  <2>0. k # 0 /\ T!Place(tree, k) \in 1..Len(tree)
    BY Placed
  <2>1. CASE T!left(tree, k) = 0
    BY <1>1, <2>0, <2>1 DEF Depth, Nodes
  <2>2. CASE T!left(tree, k) # 0
    <3>1. T!left(tree, k) \in T!Keys(tree) /\ Before(tree, k, T!left(tree, k))
      BY <2>2, LeftIs, SmallerChild
    <3>2. T!Place(tree, T!left(tree, k)) \in 1..Len(tree)
      BY <3>1, Placed
    <3> QED BY <1>1, <2>0, <2>2, <3>1, <3>2 DEF Depth, Nodes, Before
  <2> QED BY <2>1, <2>2
<1>4. ASSUME NEW k \in T!Keys(tree)
      PROVE  /\ T!right(tree, k) \in Nodes(tree)
             /\ Depth(tree, T!right(tree, k)) < Depth(tree, k)
  <2>0. k # 0 /\ k \in Nat /\ T!Place(tree, k) \in 1..Len(tree)
    BY Placed
  <2>1. CASE T!right(tree, k) = 0
    BY <1>1, <2>0, <2>1 DEF Depth, Nodes
  <2>2. CASE T!right(tree, k) # 0
    <3>1. /\ T!right(tree, k) \in T!Keys(tree) /\ k < T!right(tree, k)
          /\ T!parent(tree, T!right(tree, k)) = k
      BY <2>2, RightIs
    <3>2. T!Place(tree, T!right(tree, k)) \in 1..Len(tree) /\ T!right(tree, k) \in Nat
      BY <3>1, Placed
    <3>3. T!right(tree, k) > k
      BY <2>0, <3>1, <3>2
    <3>4. Before(tree, k, T!right(tree, k))
      BY <3>1, <3>3, LargerChild
    <3> QED BY <1>1, <2>0, <2>2, <3>1, <3>2, <3>4 DEF Depth, Nodes, Before
  <2> QED BY <2>1, <2>2
<1> QED BY <1>1, <1>2, <1>3, <1>4

\* Walks down a tree: `stop' tells where to end, `next' where to go.
LEMMA WalkDown ==
  ASSUME NEW tree, IsTree(tree), NEW stop \in [Nodes(tree) -> BOOLEAN],
         NEW next \in [Nodes(tree) -> Nodes(tree)],
         \A k \in Nodes(tree) :
            ~stop[k] => k # 0 /\ next[k] \in {T!left(tree, k), T!right(tree, k)}
  PROVE  \E h \in [Nodes(tree) -> Nodes(tree)] :
            h = [k \in Nodes(tree) |-> IF stop[k] THEN k ELSE h[next[k]]]
<1> DEFINE D == Nodes(tree)
           base == [k \in D |-> k]
           cons == [p \in D \X D |-> p[2]]
           rank == [k \in D |-> Depth(tree, k)]
<1>1. base \in [D -> D] /\ cons \in [D \X D -> D] /\ \A k, v \in D : cons[<<k, v>>] = v
  OBVIOUS
<1>2. rank \in [D -> 0..(Len(tree) + 1)]
  BY Depths
<1>3. \A k \in D : ~stop[k] => rank[next[k]] < rank[k]
  <2> SUFFICES ASSUME NEW k \in D, ~stop[k] PROVE Depth(tree, next[k]) < Depth(tree, k)
    OBVIOUS
  <2>1. k \in T!Keys(tree)
    BY DEF Nodes
  <2> QED BY <2>1, Depths
<1>4. D # {} /\ Len(tree) + 1 \in Nat
  BY Depths DEF Nodes
<1> HIDE DEF D, rank, cons
<1>5. PICK h \in [D -> D] : Descends(h, D, stop, base, next, cons)
  <2> HIDE DEF base
  <2>1. stop \in [D -> BOOLEAN] /\ next \in [D -> D]
    BY DEF D
  <2> QED BY <1>1, <1>2, <1>3, <1>4, <2>1, Descent
<1>6. h = [k \in D |-> IF stop[k] THEN k ELSE h[next[k]]]
  <2>1. \A k \in D : base[k] = k /\ cons[<<k, h[next[k]]>>] = h[next[k]]
    BY <1>1 DEF D
  <2>2. h = [k \in D |-> IF stop[k] THEN base[k] ELSE cons[<<k, h[next[k]]>>]]
    BY <1>5 DEF Descends
  <2> HIDE DEF base
  <2> QED BY <2>1, <2>2
<1> QED BY <1>6 DEF D

------------------------------------------------------------------------------
(* Searches                                                                 *)

\* The search for a key passes a node: the key is between its neighbours.
Passes(tree, key, k) ==
    /\ Lo(tree, k) = 0 \/ Lo(tree, k) < key
    /\ Hi(tree, k) = 0 \/ key < Hi(tree, k)

\* So it does at the root, and then at the child on the side of the key.
LEMMA PassesOn ==
  ASSUME NEW tree, IsTree(tree), NEW key \in Nat
  PROVE  /\ tree # <<>> => T!root(tree) \in T!Keys(tree) /\ Passes(tree, key, T!root(tree))
         /\ \A k \in T!Keys(tree) : Passes(tree, key, k) =>
              /\ key < k /\ T!left(tree, k) # 0 => Passes(tree, key, T!left(tree, k))
              /\ k < key /\ T!right(tree, k) # 0 => Passes(tree, key, T!right(tree, k))
              /\ key < k /\ T!left(tree, k) = 0 =>
                   \A m \in T!Keys(tree) : m <= key <=> m <= Lo(tree, k)
              /\ k < key /\ T!right(tree, k) = 0 =>
                   \A m \in T!Keys(tree) : m <= key <=> m <= k
<1>1. tree # <<>> => T!root(tree) \in T!Keys(tree) /\ Passes(tree, key, T!root(tree))
  <2> SUFFICES ASSUME tree # <<>>
               PROVE  T!root(tree) \in T!Keys(tree) /\ Passes(tree, key, T!root(tree))
    OBVIOUS
  <2>1. T!root(tree) = tree[1] /\ 1 \in 1..Len(tree)
    BY DEF T!root, IsTree
  <2> DEFINE k == T!root(tree)
  <2>2. k \in T!Keys(tree) /\ T!Place(tree, k) = 1
    BY <2>1, Placed
  <2>3. \A m \in T!Keys(tree) : ~Before(tree, m, k)
    BY <2>2, Placed DEF Before
  <2>4. Lo(tree, k) = 0 /\ Hi(tree, k) = 0
    BY <2>2, <2>3, Neighbours DEF IsLo, IsHi
  <2> QED BY <2>2, <2>4 DEF Passes
<1>2. ASSUME NEW k \in T!Keys(tree), Passes(tree, key, k)
      PROVE  /\ key < k /\ T!left(tree, k) # 0 => Passes(tree, key, T!left(tree, k))
             /\ k < key /\ T!right(tree, k) # 0 => Passes(tree, key, T!right(tree, k))
             /\ key < k /\ T!left(tree, k) = 0 =>
                  \A m \in T!Keys(tree) : m <= key <=> m <= Lo(tree, k)
             /\ k < key /\ T!right(tree, k) = 0 =>
                  \A m \in T!Keys(tree) : m <= key <=> m <= k
  <2>0. k \in Nat /\ k # 0 /\ IsLo(tree, k, Lo(tree, k)) /\ IsHi(tree, k, Hi(tree, k))
    BY Around
  <2>1. key < k /\ T!left(tree, k) # 0 => Passes(tree, key, T!left(tree, k))
    <3> SUFFICES ASSUME key < k, T!left(tree, k) # 0 PROVE Passes(tree, key, T!left(tree, k))
      OBVIOUS
    <3>1. Lo(tree, T!left(tree, k)) = Lo(tree, k) /\ Hi(tree, T!left(tree, k)) = k
      BY LeftIs, SmallerChild
    <3> QED BY <1>2, <3>1 DEF Passes
  <2>2. k < key /\ T!right(tree, k) # 0 => Passes(tree, key, T!right(tree, k))
    <3> SUFFICES ASSUME k < key, T!right(tree, k) # 0 PROVE Passes(tree, key, T!right(tree, k))
      OBVIOUS
    <3>1. /\ T!right(tree, k) \in T!Keys(tree) /\ k < T!right(tree, k)
          /\ T!parent(tree, T!right(tree, k)) = k
      BY RightIs
    <3>2. T!right(tree, k) > k
      BY <2>0, <3>1, Placed
    <3>3. Hi(tree, T!right(tree, k)) = Hi(tree, k) /\ Lo(tree, T!right(tree, k)) = k
      BY <3>1, <3>2, LargerChild
    <3> QED BY <1>2, <3>3 DEF Passes
  <2>3. ASSUME key < k, T!left(tree, k) = 0, NEW m \in T!Keys(tree)
        PROVE  m <= key <=> m <= Lo(tree, k)
    <3>1. m \in Nat /\ m # 0 /\ (m < k => m <= Lo(tree, k))
      BY <2>3, NothingLeft, Placed
    <3> QED BY <1>2, <2>0, <2>3, <3>1 DEF Passes, IsLo
  <2>4. ASSUME k < key, T!right(tree, k) = 0, NEW m \in T!Keys(tree)
        PROVE  m <= key <=> m <= k
    <3>1. m \in Nat /\ (k < m => Hi(tree, k) # 0 /\ Hi(tree, k) <= m)
      BY <2>4, NothingRight, Placed
    <3> QED BY <1>2, <2>0, <2>4, <3>1 DEF Passes, IsHi
  <2> QED BY <2>1, <2>2, <2>3, <2>4
<1> QED BY <1>1, <1>2

\* One step of tree_get_close_node
CloserAt(go, tree, key, node) ==
    LET next == IF key < node THEN T!left(tree, node) ELSE T!right(tree, node)
    IN  IF node = T!NoNode \/ key = node \/ next = T!NoNode THEN node ELSE go[next]

Closer(go, tree, key) ==
    go = [node \in T!Keys(tree) \cup {T!NoNode} |-> CloserAt(go, tree, key, node)]

\* The loop of tree_get_close_node ends.
LEMMA CloserIs ==
  ASSUME NEW tree, IsTree(tree), NEW key \in Nat
  PROVE  \E go : Closer(go, tree, key) /\ T!tree_get_close_node(tree, key) = go[T!root(tree)]
<1> DEFINE D == Nodes(tree)
           Way(k) == IF key < k THEN T!left(tree, k) ELSE T!right(tree, k)
           stop == [k \in D |-> k = 0 \/ key = k \/ Way(k) = 0]
           next == [k \in D |-> IF k = 0 THEN k ELSE Way(k)]
<1>1. \A k \in D : k # 0 => Way(k) \in D /\ Way(k) \in {T!left(tree, k), T!right(tree, k)}
  BY Depths DEF Nodes
<1>2. stop \in [D -> BOOLEAN] /\ next \in [D -> D]
  <2> HIDE DEF Way, D
  <2> QED BY <1>1
<1>3. \A k \in D : ~stop[k] => k # 0 /\ next[k] \in {T!left(tree, k), T!right(tree, k)}
  <2> HIDE DEF Way, D
  <2> QED BY <1>1
<1>4. PICK h : h = [k \in D |-> IF stop[k] THEN k ELSE h[next[k]]]
  <2> HIDE DEF stop, next
  <2> QED BY <1>2, <1>3, WalkDown DEF D
<1>5. \A k \in D : (IF stop[k] THEN k ELSE h[next[k]]) = CloserAt(h, tree, key, k)
  BY DEF CloserAt, T!NoNode
<1>6. T!Keys(tree) \cup {T!NoNode} = D
  BY DEF Nodes, T!NoNode
<1>7. Closer(h, tree, key)
  <2> HIDE DEF stop, next, D
  <2>1. h = [k \in D |-> CloserAt(h, tree, key, k)]
    BY <1>4, <1>5
  <2> QED BY <1>6, <2>1, Zenon DEF Closer
<1> DEFINE c == CHOOSE go : Closer(go, tree, key)
<1>8. Closer(c, tree, key)
  BY <1>7, Zenon
<1>9. T!tree_get_close_node(tree, key) = c[T!root(tree)]
  BY Zenon DEF T!tree_get_close_node, Closer, CloserAt
<1> QED BY <1>8, <1>9, Zenon

\* tree_get_close_node ends at the key or next to its place.
IsClose(tree, key, c) ==
    /\ c \in T!Keys(tree) /\ Passes(tree, key, c)
    /\ \/ c = key
       \/ key < c /\ T!left(tree, c) = 0
       \/ c < key /\ T!right(tree, c) = 0

\* tree_get_close_node finds the key, or the node under which it is to be put.
LEMMA CloseFound ==
  ASSUME NEW tree, IsTree(tree), NEW key \in Nat, tree # <<>>
  PROVE  IsClose(tree, key, T!tree_get_close_node(tree, key))
<1>1. PICK go : Closer(go, tree, key) /\ T!tree_get_close_node(tree, key) = go[T!root(tree)]
  BY CloserIs
<1> DEFINE z == Len(tree) + 1
           Good(k) == Passes(tree, key, k) => IsClose(tree, key, go[k])
           U == {n \in 0..z : \A k \in T!Keys(tree) : Depth(tree, k) <= n => Good(k)}
<1>0. z \in Nat
  BY Depths
<1>2. \A k \in T!Keys(tree) : k \in Nat /\ k # 0 /\ Depth(tree, k) \in 1..z
  <2>1. \A k \in T!Keys(tree) : k \in Nat /\ k # 0 /\ T!Place(tree, k) \in 1..Len(tree) /\ Len(tree) \in Nat
    BY Placed DEF IsTree
  <2> QED BY <2>1 DEF Depth
<1>3. 0 \in U
  BY <1>0, <1>2
<1>4. ASSUME NEW n \in 1..z, n - 1 \in U PROVE n \in U
  <2> SUFFICES ASSUME NEW k \in T!Keys(tree), Depth(tree, k) <= n, Passes(tree, key, k)
               PROVE  IsClose(tree, key, go[k])
    OBVIOUS
  <2> DEFINE next == IF key < k THEN T!left(tree, k) ELSE T!right(tree, k)
  <2>1. go[k] = CloserAt(go, tree, key, k)
    BY <1>1 DEF Closer
  <2>2. go[k] = IF key = k \/ next = 0 THEN k ELSE go[next]
    BY <1>2, <2>1 DEF CloserAt, T!NoNode
  <2>3. CASE key = k
    BY <2>2, <2>3 DEF IsClose
  <2>4. CASE key # k /\ next = 0
    <3>1. key < k \/ k < key
      BY <1>2, <2>4
    <3>2. k < key => ~(key < k)
      BY <1>2
    <3> QED BY <2>2, <2>4, <3>1, <3>2 DEF IsClose
  <2>5. CASE key # k /\ next # 0
    <3>1. next \in T!Keys(tree) /\ Depth(tree, next) < Depth(tree, k)
      BY <2>5, Depths DEF Nodes
    <3>2. Passes(tree, key, next)
      <4>1. key < k \/ (k < key /\ ~(key < k))
        BY <1>2, <2>5
      <4> QED BY <2>5, <4>1, PassesOn
    <3>3. Depth(tree, next) <= n - 1
      BY <1>2, <3>1
    <3>4. IsClose(tree, key, go[next])
      BY <1>4, <3>1, <3>2, <3>3
    <3> QED BY <2>2, <2>5, <3>4
  <2> QED BY <2>3, <2>4, <2>5
<1>5. \A n \in 0..z : n \in U
  <2> HIDE DEF U, z
  <2> QED BY <1>0, <1>3, <1>4, Upwards
<1>6. \A k \in T!Keys(tree) : Good(k)
  <2> SUFFICES ASSUME NEW k \in T!Keys(tree) PROVE Good(k)
    OBVIOUS
  <2>1. z \in U /\ Depth(tree, k) <= z
    <3> HIDE DEF U
    <3> QED BY <1>0, <1>2, <1>5
  <2> HIDE DEF Good
  <2> QED BY <2>1
<1> QED BY <1>1, <1>6, PassesOn

\* The way up from a node ends at the neighbour on the other side: `side' is
\* left in tree_iter_prev and right in tree_iter_next.
UpAt(up, tree, k, side) ==
    IF T!parent(tree, k) # T!NoNode /\ side[T!parent(tree, k)] = k
    THEN up[T!parent(tree, k)] ELSE T!parent(tree, k)

Climbs(up, tree, side) == up = [k \in T!Keys(tree) |-> UpAt(up, tree, k, side)]

\* The loop that goes up to the root ends.
LEMMA ClimbExists ==
  ASSUME NEW tree, IsTree(tree), NEW side
  PROVE  \E up : Climbs(up, tree, side)
<1> DEFINE K == T!Keys(tree)
           V == Nodes(tree)
           stop == [k \in K |-> ~(T!parent(tree, k) # 0 /\ side[T!parent(tree, k)] = k)]
           base == [k \in K |-> T!parent(tree, k)]
           next == [k \in K |-> IF T!parent(tree, k) # 0 THEN T!parent(tree, k) ELSE k]
           cons == [p \in K \X V |-> p[2]]
           rank == [k \in K |-> T!Place(tree, k)]
<1>1. /\ Len(tree) \in Nat
      /\ \A k \in K : T!Place(tree, k) \in 0..Len(tree) /\ T!parent(tree, k) \in V
      /\ \A k \in K : T!parent(tree, k) # 0 =>
            T!parent(tree, k) \in K /\ T!Place(tree, T!parent(tree, k)) < T!Place(tree, k)
  BY Placed, Around DEF IsTree, Nodes, Before
<1> HIDE DEF K
<1>2. stop \in [K -> BOOLEAN] /\ base \in [K -> V] /\ next \in [K -> K]
  <2> HIDE DEF V
  <2> QED BY <1>1
<1>3. cons \in [K \X V -> V] /\ \A k \in K, v \in V : cons[<<k, v>>] = v
  <2> HIDE DEF V
  <2> QED OBVIOUS
<1>4. rank \in [K -> 0..Len(tree)] /\ \A k \in K : ~stop[k] => rank[next[k]] < rank[k]
  BY <1>1
<1>5. V # {}
  BY DEF Nodes
<1>6. PICK h \in [K -> V] : Descends(h, K, stop, base, next, cons)
  <2> HIDE DEF V, stop, base, next, cons, rank
  <2> QED BY <1>1, <1>2, <1>3, <1>4, <1>5, Descent
<1>7. \A k \in K : (IF stop[k] THEN base[k] ELSE cons[<<k, h[next[k]]>>]) = UpAt(h, tree, k, side)
  <2> SUFFICES ASSUME NEW k \in K
               PROVE  (IF stop[k] THEN base[k] ELSE cons[<<k, h[next[k]]>>]) = UpAt(h, tree, k, side)
    OBVIOUS
  <2>1. next[k] \in K /\ h[next[k]] \in V
    <3> HIDE DEF next, V
    <3> QED BY <1>2
  <2>2. cons[<<k, h[next[k]]>>] = h[next[k]]
    <3> HIDE DEF next, V, cons
    <3> QED BY <1>3, <2>1
  <2>3. ~stop[k] => next[k] = T!parent(tree, k)
    OBVIOUS
  <2> HIDE DEF cons
  <2> QED BY <2>2, <2>3 DEF UpAt, T!NoNode
<1>8. h = [k \in K |-> UpAt(h, tree, k, side)]
  <2> HIDE DEF stop, base, next, cons
  <2> QED BY <1>6, <1>7 DEF Descends
<1> QED BY <1>8, Zenon DEF Climbs, K

\* A claim about the keys holds if it passes from the older ones to the next.
LEMMA ByPlace ==
  ASSUME NEW tree, IsTree(tree), NEW H,
         \A k \in T!Keys(tree) :
            (\A j \in T!Keys(tree) : Before(tree, j, k) => j \in H) => k \in H
  PROVE  T!Keys(tree) \subseteq H
<1> SUFFICES ASSUME NEW x \in T!Keys(tree), x \notin H PROVE FALSE
  OBVIOUS
<1> DEFINE times == {T!Place(tree, k) : k \in T!Keys(tree) \ H}
<1>0. \A k \in T!Keys(tree) : T!Place(tree, k) \in Nat
  BY Around
<1>1. PICK t \in times : \A u \in times : t <= u
  <2>1. times \in SUBSET Nat /\ times # {}
    BY Placed
  <2> HIDE DEF times
  <2> QED BY <2>1, Least
<1>2. PICK k \in T!Keys(tree) \ H : t = T!Place(tree, k)
  BY <1>1
<1>3. PICK j \in T!Keys(tree) \ H : Before(tree, j, k)
  <2>1. k \in T!Keys(tree) /\ k \notin H
    BY <1>2
  <2>2. \E j \in T!Keys(tree) : Before(tree, j, k) /\ j \notin H
    BY <2>1, Zenon
  <2> QED BY <2>2
<1>4. T!Place(tree, j) \in times
  BY Zenon
<1>5. T!Place(tree, j) \in Nat /\ T!Place(tree, k) \in Nat
  BY <1>0, Zenon
<1> HIDE DEF times
<1> QED BY <1>1, <1>2, <1>3, <1>4, <1>5 DEF Before

\* Going up while the node is a left child ends at the next smaller key that was
\* there at the insertion.
LEMMA UpLeft ==
  ASSUME NEW tree, IsTree(tree), NEW up, NEW side,
         \A k \in T!Keys(tree) : side[k] = T!left(tree, k), Climbs(up, tree, side)
  PROVE  \A k \in T!Keys(tree) : up[k] = Lo(tree, k)
<1> DEFINE H == {k \in T!Keys(tree) : up[k] = Lo(tree, k)}
<1>1. ASSUME NEW k \in T!Keys(tree), \A j \in T!Keys(tree) : Before(tree, j, k) => j \in H
      PROVE  up[k] = Lo(tree, k)
  <2> DEFINE p == T!parent(tree, k)
  <2>1. up[k] = IF p # 0 /\ side[p] = k THEN up[p] ELSE p
    BY DEF Climbs, UpAt, T!NoNode
  <2>2. /\ p \in {Lo(tree, k), Hi(tree, k)} /\ (p = 0 \/ p \in T!Keys(tree))
        /\ p # 0 => Before(tree, p, k)
        /\ p = 0 => Lo(tree, k) = 0
        /\ k \in Nat /\ IsHi(tree, k, Hi(tree, k))
    BY Around
  <2>3. CASE p = 0
    BY <2>1, <2>2, <2>3
  <2>4. CASE p # 0 /\ k < p
    <3>1. side[p] = k
      BY <2>2, <2>4, LeftIs
    <3>2. Lo(tree, k) = Lo(tree, p)
      BY <2>2, <2>4, SmallerChild
    <3>3. up[p] = Lo(tree, p)
      BY <1>1, <2>2, <2>4
    <3> HIDE DEF p
    <3> QED BY <2>1, <2>4, <3>1, <3>2, <3>3
  <2>5. CASE p # 0 /\ ~(k < p)
    <3>1. p = Lo(tree, k)
      BY <2>2, <2>5 DEF IsHi
    <3>2. side[p] # k
      <4>1. side[p] = T!left(tree, p) /\ p \in T!Keys(tree)
        BY <2>2, <2>5
      <4>2. k # 0
        BY Placed
      <4>3. T!left(tree, p) = k => k < p
        <5> HIDE DEF p
        <5> QED BY <4>1, <4>2, LeftIs
      <4> HIDE DEF p
      <4> QED BY <2>5, <4>1, <4>3
    <3> HIDE DEF p
    <3> QED BY <2>1, <3>1, <3>2
  <2> QED BY <2>3, <2>4, <2>5
<1>2. T!Keys(tree) \subseteq H
  <2>1. \A k \in T!Keys(tree) :
            (\A j \in T!Keys(tree) : Before(tree, j, k) => j \in H) => k \in H
    BY <1>1
  <2> HIDE DEF H
  <2> QED BY <2>1, ByPlace
<1> QED BY <1>2

\* Going up while the node is a right child ends at the next larger one.
LEMMA UpRight ==
  ASSUME NEW tree, IsTree(tree), NEW up, NEW side,
         \A k \in T!Keys(tree) : side[k] = T!right(tree, k), Climbs(up, tree, side)
  PROVE  \A k \in T!Keys(tree) : up[k] = Hi(tree, k)
<1> DEFINE H == {k \in T!Keys(tree) : up[k] = Hi(tree, k)}
<1>1. ASSUME NEW k \in T!Keys(tree), \A j \in T!Keys(tree) : Before(tree, j, k) => j \in H
      PROVE  up[k] = Hi(tree, k)
  <2> DEFINE p == T!parent(tree, k)
  <2>1. up[k] = IF p # 0 /\ side[p] = k THEN up[p] ELSE p
    BY DEF Climbs, UpAt, T!NoNode
  <2>2. /\ p \in {Lo(tree, k), Hi(tree, k)} /\ (p = 0 \/ p \in T!Keys(tree))
        /\ p # 0 => Before(tree, p, k)
        /\ p = 0 => Hi(tree, k) = 0
        /\ k \in Nat /\ IsLo(tree, k, Lo(tree, k))
    BY Around
  <2>3. CASE p = 0
    BY <2>1, <2>2, <2>3
  <2>4. CASE p # 0 /\ p < k
    <3>1. side[p] = k
      BY <2>2, <2>4, RightIs
    <3>2. Hi(tree, k) = Hi(tree, p)
      <4>1. k > p
        BY <2>2, <2>4, Placed
      <4> QED BY <2>2, <2>4, <4>1, LargerChild
    <3>3. up[p] = Hi(tree, p)
      BY <1>1, <2>2, <2>4
    <3> HIDE DEF p
    <3> QED BY <2>1, <2>4, <3>1, <3>2, <3>3
  <2>5. CASE p # 0 /\ ~(p < k)
    <3>1. p = Hi(tree, k)
      BY <2>2, <2>5 DEF IsLo
    <3>2. side[p] # k
      <4>1. side[p] = T!right(tree, p) /\ p \in T!Keys(tree)
        BY <2>2, <2>5
      <4>2. k # 0
        BY Placed
      <4>3. T!right(tree, p) = k => p < k
        <5> HIDE DEF p
        <5> QED BY <4>1, <4>2, RightIs
      <4> HIDE DEF p
      <4> QED BY <2>5, <4>1, <4>3
    <3> HIDE DEF p
    <3> QED BY <2>1, <3>1, <3>2
  <2> QED BY <2>3, <2>4, <2>5
<1>2. T!Keys(tree) \subseteq H
  <2>1. \A k \in T!Keys(tree) :
            (\A j \in T!Keys(tree) : Before(tree, j, k) => j \in H) => k \in H
    BY <1>1
  <2> HIDE DEF H
  <2> QED BY <2>1, ByPlace
<1> QED BY <1>2

\* tree_iter_prev, of a node without a left child
LEMMA PrevIs ==
  ASSUME NEW tree, IsTree(tree), NEW k \in T!Keys(tree), T!left(tree, k) = 0
  PROVE  T!tree_iter_prev(tree, k) = Lo(tree, k)
<1> DEFINE UpTo(up, j) == IF T!parent(tree, j) # T!NoNode /\ T!left(tree, T!parent(tree, j)) = j
                          THEN up[T!parent(tree, j)] ELSE T!parent(tree, j)
           Ups(up) == up = [j \in T!Keys(tree) |-> UpTo(up, j)]
           side == [j \in T!Keys(tree) |-> T!left(tree, j)]
           c == CHOOSE up : Ups(up)
<1>1. \A up : \A j \in T!Keys(tree) : UpAt(up, tree, j, side) = UpTo(up, j)
  <2> SUFFICES ASSUME NEW up, NEW j \in T!Keys(tree) PROVE UpAt(up, tree, j, side) = UpTo(up, j)
    OBVIOUS
  <2>1. T!parent(tree, j) # 0 => T!parent(tree, j) \in T!Keys(tree)
    BY Around
  <2> QED BY <2>1 DEF UpAt, T!NoNode
<1>2. \A up : Ups(up) <=> Climbs(up, tree, side)
  <2> SUFFICES ASSUME NEW up PROVE Ups(up) <=> Climbs(up, tree, side)
    OBVIOUS
  <2> HIDE DEF UpTo, side
  <2>1. [j \in T!Keys(tree) |-> UpTo(up, j)] = [j \in T!Keys(tree) |-> UpAt(up, tree, j, side)]
    BY <1>1
  <2> QED BY <2>1, Zenon DEF Climbs
<1>3. Climbs(c, tree, side)
  <2> HIDE DEF Ups, side
  <2> QED BY <1>2, ClimbExists, Zenon
<1>4. T!tree_iter_prev(tree, k) = c[k]
  <2>1. k # T!NoNode /\ ~(T!left(tree, k) # T!NoNode)
    BY Placed DEF T!NoNode
  <2> QED BY <2>1, Zenon DEF T!tree_iter_prev
<1>5. \A j \in T!Keys(tree) : side[j] = T!left(tree, j)
  OBVIOUS
<1> HIDE DEF c, side
<1> QED BY <1>3, <1>4, <1>5, UpLeft

\* tree_get_node_le
IsLe(tree, key, le) ==
    /\ le \in Nat /\ le <= key
    /\ le # 0 => le \in T!Keys(tree)
    /\ \A m \in T!Keys(tree) : m <= key => m <= le

\* It finds the greatest key not above the given one.
LEMMA LeFound ==
  ASSUME NEW tree, IsTree(tree), NEW key \in Nat
  PROVE  IsLe(tree, key, T!tree_get_node_le(tree, key))
<1> DEFINE c == T!tree_get_close_node(tree, key)
<1>0. T!tree_get_node_le(tree, key) = IF c = 0 \/ c <= key THEN c ELSE T!tree_iter_prev(tree, c)
  BY DEF T!tree_get_node_le, T!NoNode
<1>1. CASE tree = <<>>
  <2>1. T!root(tree) = 0 /\ T!Keys(tree) = {}
    BY <1>1 DEF T!root, T!NoNode, T!Keys
  <2>2. PICK go : Closer(go, tree, key) /\ T!tree_get_close_node(tree, key) = go[T!root(tree)]
    BY CloserIs
  <2>3. go[0] = CloserAt(go, tree, key, 0)
    BY <2>2 DEF Closer, T!NoNode
  <2>4. c = 0
    BY <2>1, <2>2, <2>3 DEF CloserAt, T!NoNode
  <2> HIDE DEF c
  <2> QED BY <1>0, <2>1, <2>4 DEF IsLe
<1>2. CASE tree # <<>>
  <2>1. IsClose(tree, key, c)
    BY <1>2, CloseFound
  <2>2. c \in T!Keys(tree) /\ c \in Nat /\ c # 0 /\ Passes(tree, key, c) /\ IsLo(tree, c, Lo(tree, c))
    BY <2>1, Around DEF IsClose
  <2> HIDE DEF c
  <2>3. CASE c = key
    BY <1>0, <2>2, <2>3 DEF IsLe
  <2>4. CASE key < c /\ T!left(tree, c) = 0
    <3>1. T!tree_get_node_le(tree, key) = Lo(tree, c)
      BY <1>0, <2>2, <2>4, PrevIs
    <3>2. \A m \in T!Keys(tree) : m <= key => m <= Lo(tree, c)
      BY <2>2, <2>4, PassesOn
    <3> QED BY <2>2, <3>1, <3>2 DEF IsLe, IsLo, Passes
  <2>5. CASE c < key /\ T!right(tree, c) = 0
    <3>1. \A m \in T!Keys(tree) : m <= key => m <= c
      BY <2>2, <2>5, PassesOn
    <3> QED BY <1>0, <2>2, <2>5, <3>1 DEF IsLe
  <2> QED BY <2>1, <2>3, <2>4, <2>5 DEF IsClose
<1> QED BY <1>1, <1>2

\* One step of tree_get_node
GetAt(go, tree, key, node) ==
    IF node = T!NoNode \/ key = node THEN node
    ELSE IF key < node THEN go[T!left(tree, node)] ELSE go[T!right(tree, node)]

Gets(go, tree, key) == go = [node \in T!Keys(tree) \cup {T!NoNode} |-> GetAt(go, tree, key, node)]

\* The loop of tree_get_node ends.
LEMMA GetIs ==
  ASSUME NEW tree, IsTree(tree), NEW key \in Nat
  PROVE  \E go : Gets(go, tree, key) /\ T!tree_get_node(tree, key) = go[T!root(tree)]
<1> DEFINE D == Nodes(tree)
           Way(k) == IF key < k THEN T!left(tree, k) ELSE T!right(tree, k)
           stop == [k \in D |-> k = 0 \/ key = k]
           next == [k \in D |-> IF k = 0 THEN k ELSE Way(k)]
<1>1. \A k \in D : k # 0 => Way(k) \in D /\ Way(k) \in {T!left(tree, k), T!right(tree, k)}
  BY Depths DEF Nodes
<1>2. stop \in [D -> BOOLEAN] /\ next \in [D -> D]
  <2> HIDE DEF Way, D
  <2> QED BY <1>1
<1>3. \A k \in D : ~stop[k] => k # 0 /\ next[k] \in {T!left(tree, k), T!right(tree, k)}
  <2> HIDE DEF Way, D
  <2> QED BY <1>1
<1>4. PICK h : h = [k \in D |-> IF stop[k] THEN k ELSE h[next[k]]]
  <2> HIDE DEF stop, next
  <2> QED BY <1>2, <1>3, WalkDown DEF D
<1>5. \A k \in D : (IF stop[k] THEN k ELSE h[next[k]]) = GetAt(h, tree, key, k)
  BY DEF GetAt, T!NoNode
<1>6. T!Keys(tree) \cup {T!NoNode} = D
  BY DEF Nodes, T!NoNode
<1>7. Gets(h, tree, key)
  <2> HIDE DEF stop, next, D
  <2>1. h = [k \in D |-> GetAt(h, tree, key, k)]
    BY <1>4, <1>5
  <2> QED BY <1>6, <2>1, Zenon DEF Gets
<1> DEFINE c == CHOOSE go : Gets(go, tree, key)
<1>8. Gets(c, tree, key)
  BY <1>7, Zenon
<1>9. T!tree_get_node(tree, key) = c[T!root(tree)]
  BY Zenon DEF T!tree_get_node, Gets, GetAt
<1> QED BY <1>8, <1>9, Zenon

\* A claim about the keys holds if it passes from the children to a node.
LEMMA ByDepth ==
  ASSUME NEW tree, IsTree(tree), NEW H,
         \A k \in T!Keys(tree) :
            (\A j \in {T!left(tree, k), T!right(tree, k)} : j # 0 => j \in H) => k \in H
  PROVE  T!Keys(tree) \subseteq H
<1> SUFFICES ASSUME NEW x \in T!Keys(tree), x \notin H PROVE FALSE
  OBVIOUS
<1> DEFINE depths == {Depth(tree, k) : k \in T!Keys(tree) \ H}
<1>0. \A k \in T!Keys(tree) : Depth(tree, k) \in Nat
  BY Depths DEF Nodes
<1>1. PICK t \in depths : \A u \in depths : t <= u
  <2>1. depths \in SUBSET Nat /\ depths # {}
    BY <1>0
  <2> HIDE DEF depths
  <2> QED BY <2>1, Least
<1>2. PICK k \in T!Keys(tree) \ H : t = Depth(tree, k)
  BY <1>1
<1>3. PICK j \in {T!left(tree, k), T!right(tree, k)} : j # 0 /\ j \notin H
  BY <1>2
<1>4. j \in T!Keys(tree) /\ Depth(tree, j) < Depth(tree, k)
  BY <1>3, Depths DEF Nodes
<1>5. Depth(tree, j) \in depths
  BY <1>3, <1>4
<1> HIDE DEF depths
<1> QED BY <1>0, <1>1, <1>2, <1>4, <1>5

\* tree_get_node finds the key if it is there.
LEMMA GetFound ==
  ASSUME NEW tree, IsTree(tree), NEW key \in Nat
  PROVE  T!tree_get_node(tree, key) = IF key \in T!Keys(tree) THEN key ELSE 0
<1>1. PICK go : Gets(go, tree, key) /\ T!tree_get_node(tree, key) = go[T!root(tree)]
  BY GetIs
<1> DEFINE r == IF key \in T!Keys(tree) THEN key ELSE 0
           H == {k \in T!Keys(tree) : Passes(tree, key, k) => go[k] = r}
<1>2. go[0] = 0
  BY <1>1 DEF Gets, GetAt, T!NoNode
<1>3. ASSUME NEW k \in T!Keys(tree), Passes(tree, key, k),
             \A j \in {T!left(tree, k), T!right(tree, k)} : j # 0 => j \in H
      PROVE  go[k] = r
  <2>1. k \in Nat /\ k # 0 /\ IsLo(tree, k, Lo(tree, k))
    BY Around
  <2>2. go[k] = IF key = k THEN k
                ELSE IF key < k THEN go[T!left(tree, k)] ELSE go[T!right(tree, k)]
    BY <1>1, <2>1 DEF Gets, GetAt, T!NoNode
  <2>3. CASE key = k
    BY <2>2, <2>3
  <2>4. CASE key < k
    <3>1. CASE T!left(tree, k) = 0
      <4>1. \A m \in T!Keys(tree) : m <= key <=> m <= Lo(tree, k)
        BY <1>3, <2>4, <3>1, PassesOn
      <4>2. key \notin T!Keys(tree)
        BY <1>3, <2>1, <4>1, Placed DEF Passes, IsLo
      <4> QED BY <1>2, <2>1, <2>2, <2>4, <3>1, <4>2
    <3>2. CASE T!left(tree, k) # 0
      <4>1. Passes(tree, key, T!left(tree, k)) /\ T!left(tree, k) \in H
        BY <1>3, <2>4, <3>2, PassesOn
      <4> QED BY <2>1, <2>2, <2>4, <4>1
    <3> QED BY <3>1, <3>2
  <2>5. CASE k < key
    <3>0. ~(key < k) /\ key # k
      BY <2>1, <2>5
    <3>1. CASE T!right(tree, k) = 0
      <4>1. \A m \in T!Keys(tree) : m <= key <=> m <= k
        BY <1>3, <2>5, <3>1, PassesOn
      <4>2. key \notin T!Keys(tree)
        BY <2>1, <2>5, <4>1
      <4> QED BY <1>2, <2>2, <3>0, <3>1, <4>2
    <3>2. CASE T!right(tree, k) # 0
      <4>1. Passes(tree, key, T!right(tree, k)) /\ T!right(tree, k) \in H
        BY <1>3, <2>5, <3>2, PassesOn
      <4> QED BY <2>2, <3>0, <4>1
    <3> QED BY <3>1, <3>2
  <2> QED BY <2>1, <2>3, <2>4, <2>5
<1>4. T!Keys(tree) \subseteq H
  <2>1. \A k \in T!Keys(tree) :
            (\A j \in {T!left(tree, k), T!right(tree, k)} : j # 0 => j \in H) => k \in H
    <3> HIDE DEF r
    <3> QED BY <1>3
  <2> HIDE DEF H
  <2> QED BY <2>1, ByDepth
<1>5. CASE tree = <<>>
  <2>1. T!root(tree) = 0 /\ T!Keys(tree) = {}
    BY <1>5 DEF T!root, T!NoNode, T!Keys
  <2> QED BY <1>1, <1>2, <2>1
<1>6. CASE tree # <<>>
  <2>1. T!root(tree) \in T!Keys(tree) /\ Passes(tree, key, T!root(tree))
    BY <1>6, PassesOn
  <2> HIDE DEF r
  <2>2. go[T!root(tree)] = r
    BY <1>4, <2>1
  <2> QED BY <1>1, <2>2 DEF r
<1> QED BY <1>5, <1>6

\* segment_get
LEMMA SegmentFound ==
  ASSUME NEW tree, IsTree(tree), NEW key \in Nat
  PROVE  T!segment_get(tree, [k \in T!Keys(tree) |-> k + 1], key)
           = IF key \in T!Keys(tree) THEN key ELSE 0
<1> DEFINE le == T!tree_get_node_le(tree, key)
<1>1. IsLe(tree, key, le)
  BY LeFound
<1>2. T!segment_get(tree, [k \in T!Keys(tree) |-> k + 1], key)
        = IF le = 0 \/ key >= [k \in T!Keys(tree) |-> k + 1][le] THEN 0 ELSE le
  BY DEF T!segment_get, T!NoNode
<1>3. le # 0 => [k \in T!Keys(tree) |-> k + 1][le] = le + 1
  BY <1>1 DEF IsLe
<1> HIDE DEF le
<1> QED BY <1>1, <1>2, <1>3, Placed DEF IsLe

------------------------------------------------------------------------------
(* Iteration                                                                *)

\* One step of tree_get_min
MinAt(go, tree, node) ==
    IF node = T!NoNode \/ T!left(tree, node) = T!NoNode THEN node ELSE go[T!left(tree, node)]

Mins(go, tree) == go = [node \in T!Keys(tree) \cup {T!NoNode} |-> MinAt(go, tree, node)]

\* The loop of tree_get_min ends.
LEMMA MinIs ==
  ASSUME NEW tree, IsTree(tree)
  PROVE  \E go : Mins(go, tree) /\ \A start : T!tree_get_min(tree, start) = go[start]
<1> DEFINE D == Nodes(tree)
           stop == [k \in D |-> k = 0 \/ T!left(tree, k) = 0]
           next == [k \in D |-> IF k = 0 THEN k ELSE T!left(tree, k)]
<1>1. \A k \in D : k # 0 => T!left(tree, k) \in D
  BY Depths DEF Nodes
<1>2. stop \in [D -> BOOLEAN] /\ next \in [D -> D]
  <2> HIDE DEF D
  <2> QED BY <1>1
<1>3. \A k \in D : ~stop[k] => k # 0 /\ next[k] \in {T!left(tree, k), T!right(tree, k)}
  <2> HIDE DEF D
  <2> QED OBVIOUS
<1>4. PICK h : h = [k \in D |-> IF stop[k] THEN k ELSE h[next[k]]]
  <2> HIDE DEF stop, next
  <2> QED BY <1>2, <1>3, WalkDown DEF D
<1>5. \A k \in D : (IF stop[k] THEN k ELSE h[next[k]]) = MinAt(h, tree, k)
  BY DEF MinAt, T!NoNode
<1>6. T!Keys(tree) \cup {T!NoNode} = D
  BY DEF Nodes, T!NoNode
<1>7. Mins(h, tree)
  <2> HIDE DEF stop, next, D
  <2>1. h = [k \in D |-> MinAt(h, tree, k)]
    BY <1>4, <1>5
  <2> QED BY <1>6, <2>1, Zenon DEF Mins
<1> DEFINE c == CHOOSE go : Mins(go, tree)
<1>8. Mins(c, tree)
  BY <1>7, Zenon
<1>9. ASSUME NEW start PROVE T!tree_get_min(tree, start) = c[start]
  BY Zenon DEF T!tree_get_min, Mins, MinAt
<1> QED BY <1>8, <1>9, Zenon

\* tree_get_min ends at a node without a left child, between the same
\* neighbours on the left.
LEMMA MinFound ==
  ASSUME NEW tree, IsTree(tree)
  PROVE  /\ T!tree_get_min(tree, 0) = 0
         /\ \A k \in T!Keys(tree) : LET c == T!tree_get_min(tree, k)
                                    IN  /\ c \in T!Keys(tree) /\ T!left(tree, c) = 0
                                        /\ Lo(tree, c) = Lo(tree, k)
<1>1. PICK go : Mins(go, tree) /\ \A start : T!tree_get_min(tree, start) = go[start]
  BY MinIs
<1> DEFINE Good(k, c) == c \in T!Keys(tree) /\ T!left(tree, c) = 0 /\ Lo(tree, c) = Lo(tree, k)
           H == {k \in T!Keys(tree) : Good(k, go[k])}
<1>2. go[0] = 0
  BY <1>1 DEF Mins, MinAt, T!NoNode
<1>3. ASSUME NEW k \in T!Keys(tree),
             \A j \in {T!left(tree, k), T!right(tree, k)} : j # 0 => j \in H
      PROVE  Good(k, go[k])
  <2>1. k # 0
    BY Placed
  <2>2. go[k] = IF T!left(tree, k) = 0 THEN k ELSE go[T!left(tree, k)]
    BY <1>1, <2>1 DEF Mins, MinAt, T!NoNode
  <2>3. CASE T!left(tree, k) = 0
    BY <2>2, <2>3
  <2>4. CASE T!left(tree, k) # 0
    <3>1. Lo(tree, T!left(tree, k)) = Lo(tree, k)
      BY <2>4, LeftIs, SmallerChild
    <3>2. T!left(tree, k) \in H
      BY <1>3, <2>4
    <3> QED BY <2>2, <2>4, <3>1, <3>2
  <2> QED BY <2>3, <2>4
<1>4. T!Keys(tree) \subseteq H
  <2>1. \A k \in T!Keys(tree) :
            (\A j \in {T!left(tree, k), T!right(tree, k)} : j # 0 => j \in H) => k \in H
    <3> HIDE DEF Good
    <3> QED BY <1>3
  <2> HIDE DEF H
  <2> QED BY <2>1, ByDepth
<1>5. \A k \in T!Keys(tree) : Good(k, go[k])
  <2> HIDE DEF Good
  <2> QED BY <1>4
<1> QED BY <1>1, <1>2, <1>5

\* The next key after k, or the first one if k is 0; 0 if there is none.
IsNext(tree, k, s) ==
    /\ s \in Nat
    /\ s # 0 => s \in T!Keys(tree) /\ k < s
    /\ \A m \in T!Keys(tree) : k < m => s # 0 /\ s <= m

\* tree_iter_next is the next larger key.
LEMMA NextIs ==
  ASSUME NEW tree, IsTree(tree), NEW k \in T!Keys(tree)
  PROVE  IsNext(tree, k, T!tree_iter_next(tree, k))
<1> DEFINE UpTo(up, j) == IF T!parent(tree, j) # T!NoNode /\ T!right(tree, T!parent(tree, j)) = j
                          THEN up[T!parent(tree, j)] ELSE T!parent(tree, j)
           Ups(up) == up = [j \in T!Keys(tree) |-> UpTo(up, j)]
           side == [j \in T!Keys(tree) |-> T!right(tree, j)]
           c == CHOOSE up : Ups(up)
<1>0. k \in Nat /\ k # 0 /\ IsHi(tree, k, Hi(tree, k))
  BY Around
<1>1. \A up : \A j \in T!Keys(tree) : UpAt(up, tree, j, side) = UpTo(up, j)
  <2> SUFFICES ASSUME NEW up, NEW j \in T!Keys(tree) PROVE UpAt(up, tree, j, side) = UpTo(up, j)
    OBVIOUS
  <2>1. T!parent(tree, j) # 0 => T!parent(tree, j) \in T!Keys(tree)
    BY Around
  <2> QED BY <2>1 DEF UpAt, T!NoNode
<1>2. \A up : Ups(up) <=> Climbs(up, tree, side)
  <2> SUFFICES ASSUME NEW up PROVE Ups(up) <=> Climbs(up, tree, side)
    OBVIOUS
  <2> HIDE DEF UpTo, side
  <2>1. [j \in T!Keys(tree) |-> UpTo(up, j)] = [j \in T!Keys(tree) |-> UpAt(up, tree, j, side)]
    BY <1>1
  <2> QED BY <2>1, Zenon DEF Climbs
<1>3. Climbs(c, tree, side)
  <2> HIDE DEF Ups, side
  <2> QED BY <1>2, ClimbExists, Zenon
<1>4. \A j \in T!Keys(tree) : side[j] = T!right(tree, j)
  OBVIOUS
<1>5. CASE T!right(tree, k) = 0
  <2>1. T!tree_iter_next(tree, k) = c[k]
    <3>1. k # T!NoNode /\ ~(T!right(tree, k) # T!NoNode)
      BY <1>0, <1>5 DEF T!NoNode
    <3> QED BY <3>1, Zenon DEF T!tree_iter_next
  <2> HIDE DEF c, side
  <2>2. c[k] = Hi(tree, k)
    BY <1>3, <1>4, UpRight
  <2> QED BY <1>0, <1>5, <2>1, <2>2, NothingRight DEF IsNext, IsHi
<1>6. CASE T!right(tree, k) # 0
  <2> DEFINE r == T!right(tree, k)
             s == T!tree_get_min(tree, r)
  <2>1. T!tree_iter_next(tree, k) = s
    <3>1. k # T!NoNode /\ T!right(tree, k) # T!NoNode
      BY <1>0, <1>6 DEF T!NoNode
    <3> QED BY <3>1, Zenon DEF T!tree_iter_next
  <2>2. r \in T!Keys(tree) /\ k < r /\ T!parent(tree, r) = k
    BY <1>6, RightIs
  <2>3. Lo(tree, r) = k
    <3>1. r > k
      BY <1>0, <2>2, Placed
    <3> HIDE DEF r
    <3> QED BY <2>2, <3>1, LargerChild
  <2>4. s \in T!Keys(tree) /\ T!left(tree, s) = 0 /\ Lo(tree, s) = k
    <3> HIDE DEF r
    <3> QED BY <2>2, <2>3, MinFound
  <2> HIDE DEF s, r
  <2>5. \A m \in T!Keys(tree) : m < s => m <= k
    BY <2>4, NothingLeft
  <2>6. s \in Nat /\ s # 0 /\ k < s
    BY <2>4, Around DEF IsLo
  <2> QED BY <1>0, <2>1, <2>4, <2>5, <2>6, Placed DEF IsNext
<1> QED BY <1>5, <1>6

\* tree_iter_start is the smallest key.
LEMMA StartIs ==
  ASSUME NEW tree, IsTree(tree)
  PROVE  IsNext(tree, 0, T!tree_iter_start(tree))
<1>1. T!tree_iter_start(tree) = T!tree_get_min(tree, T!root(tree))
  BY DEF T!tree_iter_start
<1>2. CASE tree = <<>>
  <2>1. T!root(tree) = 0 /\ T!Keys(tree) = {}
    BY <1>2 DEF T!root, T!NoNode, T!Keys
  <2> QED BY <1>1, <2>1, MinFound DEF IsNext
<1>3. CASE tree # <<>>
  <2> DEFINE k == T!root(tree)
             s == T!tree_get_min(tree, k)
  <2>1. k \in T!Keys(tree)
    <3>1. 0 \in Nat
      OBVIOUS
    <3> QED BY <1>3, <3>1, PassesOn
  <2>2. Lo(tree, k) = 0
    <3>1. Passes(tree, 0, k)
      <4>1. 0 \in Nat
        OBVIOUS
      <4> QED BY <1>3, <4>1, PassesOn
    <3>2. IsLo(tree, k, Lo(tree, k))
      BY <2>1, Around
    <3> QED BY <3>1, <3>2 DEF Passes, IsLo
  <2>3. s \in T!Keys(tree) /\ T!left(tree, s) = 0 /\ Lo(tree, s) = 0
    <3> HIDE DEF k
    <3> QED BY <2>1, <2>2, MinFound
  <2> HIDE DEF s
  <2>4. \A m \in T!Keys(tree) : m < s => m <= 0
    BY <2>3, NothingLeft
  <2>5. s \in Nat /\ s # 0
    BY <2>3, Placed
  <2>6. \A m \in T!Keys(tree) : s <= m
    BY <2>4, <2>5, Placed
  <2>7. T!tree_iter_start(tree) = s
    BY <1>1 DEF s
  <2> QED BY <2>3, <2>5, <2>6, <2>7 DEF IsNext
<1> QED BY <1>2, <1>3

\* Keys are bounded.
LEMMA KeyBound ==
  ASSUME NEW tree, IsTree(tree)
  PROVE  \E z \in Nat : \A k \in T!Keys(tree) : k <= z
<1> DEFINE l == Len(tree)
           U == {n \in 0..l : \E z \in Nat : \A i \in 1..n : tree[i] <= z}
<1>0. l \in Nat /\ \A i \in 1..l : tree[i] \in Nat
  BY DEF IsTree
<1>1. 0 \in U
  <2>1. \A i \in 1..0 : tree[i] <= 0
    OBVIOUS
  <2> QED BY <1>0, <2>1
<1>2. ASSUME NEW n \in 1..l, n - 1 \in U PROVE n \in U
  <2>1. PICK z \in Nat : \A i \in 1..(n - 1) : tree[i] <= z
    BY <1>2
  <2> DEFINE y == IF tree[n] <= z THEN z ELSE tree[n]
  <2>2. y \in Nat /\ \A i \in 1..n : tree[i] <= y
    BY <1>0, <2>1
  <2>3. \E x \in Nat : \A i \in 1..n : tree[i] <= x
    <3> HIDE DEF y
    <3> QED BY <2>2
  <2>4. n \in 0..l
    BY <1>0
  <2> QED BY <2>3, <2>4
<1>3. l \in U
  <2>1. \A n \in 0..l : n \in U
    <3> HIDE DEF U, l
    <3> QED BY <1>0, <1>1, <1>2, Upwards
  <2> HIDE DEF U
  <2> QED BY <1>0, <2>1
<1>4. PICK z \in Nat : \A i \in 1..l : tree[i] <= z
  BY <1>3
<1>5. \A k \in T!Keys(tree) : k <= z
  BY <1>4 DEF T!Keys
<1> QED BY <1>5

\* The keys from one on, as tree_iter visits them
FromAt(from, tree, node) ==
    IF node = T!NoNode THEN <<>> ELSE <<node>> \o from[T!tree_iter_next(tree, node)]

Visits(from, tree) == from = [node \in T!Keys(tree) \cup {T!NoNode} |-> FromAt(from, tree, node)]

\* An iteration over the whole tree ends.
LEMMA VisitIs ==
  ASSUME NEW tree, IsTree(tree)
  PROVE  \E from : Visits(from, tree) /\ T!tree_iter(tree) = from[T!tree_iter_start(tree)]
<1> DEFINE D == Nodes(tree)
           V == Seq(Nat)
           stop == [k \in D |-> k = 0]
           base == [k \in D |-> <<>>]
           next == [k \in D |-> IF k = 0 THEN k ELSE T!tree_iter_next(tree, k)]
           cons == [p \in D \X V |-> <<p[1]>> \o p[2]]
<1>1. PICK z \in Nat : \A k \in T!Keys(tree) : k <= z
  BY KeyBound
<1> DEFINE rank == [k \in D |-> IF k = 0 THEN 0 ELSE z + 1 - k]
<1>2. \A k \in D : k \in Nat /\ k <= z
  BY <1>1, Placed DEF Nodes
<1>3. \A k \in D : k # 0 => LET s == T!tree_iter_next(tree, k)
                            IN  s \in D /\ (s # 0 => k < s)
  BY NextIs DEF Nodes, IsNext
<1>4. D # {} /\ V # {} /\ <<>> \in V
  <2>1. 0 \in D
    BY DEF Nodes
  <2>2. <<>> \in V
    OBVIOUS
  <2> QED BY <2>1, <2>2
<1> HIDE DEF D
<1>5. /\ stop \in [D -> BOOLEAN] /\ next \in [D -> D]
      /\ rank \in [D -> 0..(z + 1)] /\ \A k \in D : ~stop[k] => rank[next[k]] < rank[k]
  <2> HIDE DEF V
  <2>1. stop \in [D -> BOOLEAN]
    OBVIOUS
  <2>2. next \in [D -> D] /\ \A k \in D : k # 0 => next[k] = T!tree_iter_next(tree, k)
    BY <1>3
  <2>3. rank \in [D -> 0..(z + 1)]
    BY <1>2
  <2>4. ASSUME NEW k \in D, ~stop[k] PROVE rank[next[k]] < rank[k]
    <3>1. k # 0
      BY <2>4
    <3>2. next[k] \in D /\ (next[k] # 0 => k < next[k])
      <4> HIDE DEF next
      <4> QED BY <1>3, <2>2, <3>1
    <3> DEFINE s == next[k]
    <3> HIDE DEF next, s
    <3>3. s \in D /\ (s # 0 => k < s)
      BY <3>2 DEF s
    <3>4. rank[s] < rank[k]
      BY <1>2, <3>1, <3>3
    <3> QED BY <3>4 DEF s
  <2> QED BY <2>1, <2>2, <2>3, <2>4
<1>6. base \in [D -> V]
  BY <1>4
<1>7. \A k \in D, v \in V : <<k>> \o v \in V
  <2>1. \A k \in D : <<k>> \in V
    BY <1>2
  <2> QED BY <2>1, ConcatProperties
<1>8. cons \in [D \X V -> V] /\ \A k \in D, v \in V : cons[<<k, v>>] = <<k>> \o v
  <2> HIDE DEF V
  <2> QED BY <1>7
<1>9. PICK h \in [D -> V] : Descends(h, D, stop, base, next, cons)
  <2> HIDE DEF V, stop, base, next, cons, rank
  <2>1. z + 1 \in Nat
    OBVIOUS
  <2> QED BY <1>4, <1>5, <1>6, <1>8, <2>1, Descent
<1>10. \A k \in D : (IF stop[k] THEN base[k] ELSE cons[<<k, h[next[k]]>>]) = FromAt(h, tree, k)
  <2> SUFFICES ASSUME NEW k \in D
               PROVE  (IF stop[k] THEN base[k] ELSE cons[<<k, h[next[k]]>>]) = FromAt(h, tree, k)
    OBVIOUS
  <2>1. next[k] \in D /\ h[next[k]] \in V
    <3> HIDE DEF next, V
    <3> QED BY <1>5
  <2>2. cons[<<k, h[next[k]]>>] = <<k>> \o h[next[k]]
    <3> HIDE DEF next, V, cons
    <3> QED BY <1>8, <2>1
  <2>3. /\ stop[k] = (k = 0) /\ base[k] = <<>>
        /\ k # 0 => next[k] = T!tree_iter_next(tree, k)
    OBVIOUS
  <2> HIDE DEF cons, stop, base, next
  <2> QED BY <2>2, <2>3 DEF FromAt, T!NoNode
<1>11. T!Keys(tree) \cup {T!NoNode} = D
  BY DEF Nodes, T!NoNode, D
<1>12. Visits(h, tree)
  <2> HIDE DEF stop, base, next, cons
  <2>1. h = [k \in D |-> FromAt(h, tree, k)]
    BY <1>9, <1>10 DEF Descends
  <2> QED BY <1>11, <2>1, Zenon DEF Visits
<1> DEFINE c == CHOOSE from : Visits(from, tree)
<1>13. Visits(c, tree)
  BY <1>12, Zenon
<1>14. T!tree_iter(tree) = c[T!tree_iter_start(tree)]
  BY Zenon DEF T!tree_iter, Visits, FromAt
<1> QED BY <1>13, <1>14, Zenon

\* s lists the keys from k on, in order.
IsList(s, tree, k) ==
    /\ s \in Seq(Nat)
    /\ \A m, n \in 1..Len(s) : m < n => s[m] < s[n]
    /\ \A n \in 1..Len(s) : k # 0 /\ s[n] \in T!Keys(tree) /\ k <= s[n]
    /\ \A j \in T!Keys(tree) : k # 0 /\ k <= j => \E n \in 1..Len(s) : s[n] = j

\* A key in front of the list of the following ones
LEMMA ListOn ==
  ASSUME NEW tree, IsTree(tree), NEW k \in T!Keys(tree), NEW s, IsNext(tree, k, s),
         NEW t, IsList(t, tree, s)
  PROVE  IsList(<<k>> \o t, tree, k)
<1> DEFINE u == <<k>> \o t
<1>0. k \in Nat /\ k # 0 /\ T!Keys(tree) \subseteq Nat
  BY Placed
<1>1. t \in Seq(Nat) /\ Len(t) \in Nat
  BY DEF IsList
<1>2. u \in Seq(Nat) /\ Len(u) = Len(t) + 1 /\ u[1] = k /\ \A n \in 1..Len(t) : u[n + 1] = t[n]
  BY <1>0, <1>1
<1> HIDE DEF u
<1>3. \A n \in 2..Len(u) : n - 1 \in 1..Len(t) /\ u[n] = t[n - 1]
  <2> SUFFICES ASSUME NEW n \in 2..Len(u) PROVE n - 1 \in 1..Len(t) /\ u[n] = t[n - 1]
    OBVIOUS
  <2>1. n - 1 \in 1..Len(t) /\ (n - 1) + 1 = n
    BY <1>1, <1>2
  <2>2. u[(n - 1) + 1] = t[n - 1]
    BY <1>2, <2>1
  <2> QED BY <2>1, <2>2
<1>4. \A n \in 1..Len(t) : t[n] \in T!Keys(tree) /\ t[n] \in Nat /\ k < t[n]
  BY <1>0, <1>1 DEF IsList, IsNext
<1>5. ASSUME NEW m \in 1..Len(u), NEW n \in 1..Len(u), m < n PROVE u[m] < u[n]
  <2>1. n \in 2..Len(u)
    BY <1>1, <1>2, <1>5
  <2>2. CASE m = 1
    BY <1>2, <1>3, <1>4, <2>1, <2>2
  <2>3. CASE m # 1
    <3>1. m \in 2..Len(u) /\ m - 1 < n - 1
      BY <1>1, <1>2, <1>5, <2>3
    <3> QED BY <1>3, <2>1, <3>1 DEF IsList
  <2> QED BY <2>2, <2>3
<1>6. ASSUME NEW n \in 1..Len(u) PROVE u[n] \in T!Keys(tree) /\ k <= u[n]
  <2>1. CASE n = 1
    BY <1>0, <1>2, <2>1
  <2>2. CASE n # 1
    <3>1. n \in 2..Len(u)
      BY <1>1, <1>2, <2>2
    <3> QED BY <1>0, <1>3, <1>4, <3>1
  <2> QED BY <2>1, <2>2
<1>7. ASSUME NEW j \in T!Keys(tree), k <= j PROVE \E n \in 1..Len(u) : u[n] = j
  <2>1. CASE j = k
    <3>1. 1 \in 1..Len(u)
      BY <1>1, <1>2
    <3> QED BY <1>2, <2>1, <3>1
  <2>2. CASE j # k
    <3>1. k < j
      BY <1>0, <1>7, <2>2
    <3>2. s # 0 /\ s <= j
      BY <3>1 DEF IsNext
    <3>3. PICK n \in 1..Len(t) : t[n] = j
      BY <3>2 DEF IsList
    <3>4. n + 1 \in 1..Len(u) /\ u[n + 1] = j
      BY <1>1, <1>2, <3>3
    <3> QED BY <3>4
  <2> QED BY <2>1, <2>2
<1>8. IsList(u, tree, k)
  BY <1>0, <1>2, <1>5, <1>6, <1>7 DEF IsList
<1> QED BY <1>8 DEF u

\* TREE_ITER visits all keys in order.
LEMMA IterFound ==
  ASSUME NEW tree, IsTree(tree)
  PROVE  /\ T!tree_iter(tree) \in Seq(Nat)
         /\ \A m, n \in 1..Len(T!tree_iter(tree)) :
              m < n => T!tree_iter(tree)[m] < T!tree_iter(tree)[n]
         /\ \A n \in 1..Len(T!tree_iter(tree)) : T!tree_iter(tree)[n] \in T!Keys(tree)
         /\ \A j \in T!Keys(tree) :
              \E n \in 1..Len(T!tree_iter(tree)) : T!tree_iter(tree)[n] = j
<1>1. PICK from : Visits(from, tree) /\ T!tree_iter(tree) = from[T!tree_iter_start(tree)]
  BY VisitIs
<1>2. PICK z \in Nat : \A k \in T!Keys(tree) : k <= z
  BY KeyBound
<1> DEFINE U == {n \in 0..z : \A k \in T!Keys(tree) : k + n > z => IsList(from[k], tree, k)}
<1>0. \A k \in T!Keys(tree) : k \in Nat /\ k # 0 /\ k <= z
  BY <1>2, Placed
<1>3. from[0] = <<>>
  BY <1>1 DEF Visits, FromAt, T!NoNode
<1>4. IsList(<<>>, tree, 0)
  BY DEF IsList
<1>5. 0 \in U
  BY <1>0
<1>6. ASSUME NEW n \in 1..z, n - 1 \in U PROVE n \in U
  <2> SUFFICES ASSUME NEW k \in T!Keys(tree), k + n > z PROVE IsList(from[k], tree, k)
    OBVIOUS
  <2> DEFINE s == T!tree_iter_next(tree, k)
  <2>1. IsNext(tree, k, s)
    BY NextIs
  <2>2. from[k] = <<k>> \o from[s]
    BY <1>0, <1>1 DEF Visits, FromAt, T!NoNode
  <2> HIDE DEF s
  <2>3. IsList(from[s], tree, s)
    <3>1. CASE s = 0
      BY <1>3, <1>4, <3>1
    <3>2. CASE s # 0
      <4>1. s \in T!Keys(tree) /\ k < s /\ s \in Nat
        BY <2>1, <3>2 DEF IsNext
      <4>2. s + (n - 1) > z
        BY <1>0, <4>1
      <4> QED BY <1>6, <4>1, <4>2
    <3> QED BY <3>1, <3>2
  <2> QED BY <2>1, <2>2, <2>3, ListOn
<1>7. \A n \in 0..z : n \in U
  <2> HIDE DEF U
  <2> QED BY <1>2, <1>5, <1>6, Upwards
<1>8. \A k \in T!Keys(tree) : IsList(from[k], tree, k)
  <2> SUFFICES ASSUME NEW k \in T!Keys(tree) PROVE IsList(from[k], tree, k)
    OBVIOUS
  <2>1. z \in U /\ k + z > z
    <3> HIDE DEF U
    <3> QED BY <1>0, <1>7
  <2> QED BY <2>1
<1> DEFINE s == T!tree_iter_start(tree)
           t == T!tree_iter(tree)
<1>9. IsNext(tree, 0, s)
  BY StartIs
<1>10. IsList(t, tree, s)
  <2>1. CASE s = 0
    BY <1>1, <1>3, <1>4, <2>1
  <2>2. CASE s # 0
    BY <1>1, <1>8, <1>9, <2>2 DEF IsNext
  <2> QED BY <2>1, <2>2
<1>11. \A j \in T!Keys(tree) : s # 0 /\ s <= j
  BY <1>0, <1>9 DEF IsNext
<1> HIDE DEF s, t
<1>12. /\ t \in Seq(Nat)
       /\ \A m, n \in 1..Len(t) : m < n => t[m] < t[n]
       /\ \A n \in 1..Len(t) : t[n] \in T!Keys(tree)
       /\ \A j \in T!Keys(tree) : \E n \in 1..Len(t) : t[n] = j
  BY <1>10, <1>11 DEF IsList
<1> QED BY <1>12 DEF t

\* tree_size counts the keys.
LEMMA SizeFound ==
  ASSUME NEW tree, IsTree(tree)
  PROVE  T!tree_size(tree) = Cardinality(T!Keys(tree)) /\ T!tree_size(tree) \in Nat
<1> DEFINE s == T!tree_iter(tree)
           K == T!Keys(tree)
           n == Len(s)
<1>1. /\ s \in Seq(Nat) /\ \A i, j \in 1..Len(s) : i < j => s[i] < s[j]
      /\ \A i \in 1..Len(s) : s[i] \in K
      /\ \A j \in K : \E i \in 1..Len(s) : s[i] = j
  BY IterFound
<1> HIDE DEF s, K
<1>2. n \in Nat /\ s \in [1..n -> K]
  BY <1>1
<1>3. \A i, j \in 1..n : s[i] = s[j] => i = j
  <2> SUFFICES ASSUME NEW i \in 1..n, NEW j \in 1..n, s[i] = s[j], i < j PROVE FALSE
    BY <1>2
  <2> QED BY <1>1
<1>4. s \in Injection(1..n, K)
  BY <1>2, <1>3 DEF Injection, IsInjective
<1>5. s \in Surjection(1..n, K)
  BY <1>1, <1>2 DEF Surjection
<1>6. ExistsBijection(1..n, K)
  BY <1>4, <1>5 DEF ExistsBijection, Bijection
<1>7. IsFiniteSet(1..n) /\ Cardinality(1..n) = n
  <2> HIDE DEF n
  <2>1. 1 \in Int /\ n \in Int
    BY <1>2
  <2> QED BY <1>2, <2>1, FS_Interval
<1>8. Cardinality(K) = n
  BY <1>6, <1>7, FS_Bijection
<1> QED BY <1>2, <1>8 DEF T!tree_size, s, K

\* The trees among the inputs
TreeInputs == in.test = "tree" => IsTree(in.tree)

\* A new key makes a tree.
LEMMA Inserted ==
  ASSUME NEW tree, IsTree(tree), NEW k \in (1..MaxKey) \ T!Keys(tree)
  PROVE  IsTree(Append(tree, k))
<1> DEFINE new == Append(tree, k)
           l == Len(tree)
<1>1. tree \in Seq(Nat \ {0}) /\ l \in Nat /\ k \in Nat \ {0}
  BY MaxKeyAssumption DEF IsTree
<1>2. /\ new \in Seq(Nat \ {0}) /\ Len(new) = l + 1 /\ new[l + 1] = k
      /\ \A n \in 1..l : new[n] = tree[n]
  BY <1>1, AppendProperties
<1>3. \A n \in 1..l : tree[n] # k
  BY DEF T!Keys
<1> HIDE DEF new
<1>4. ASSUME NEW m \in 1..Len(new), NEW n \in 1..Len(new), new[m] = new[n] PROVE m = n
  <2>1. (m \in 1..l \/ m = l + 1) /\ (n \in 1..l \/ n = l + 1)
    BY <1>1, <1>2
  <2> QED BY <1>2, <1>3, <1>4, <2>1 DEF IsTree
<1>5. IsTree(new)
  BY <1>2, <1>4 DEF IsTree
<1> QED BY <1>5 DEF new

\* Keys are inserted once.
LEMMA TreeInputsHold == Spec => []TreeInputs
<1>1. Init => TreeInputs
  BY DEF Init, None, TreeInputs
<1>2. TreeInputs /\ [Next]_in => TreeInputs'
  <2> SUFFICES ASSUME TreeInputs, [Next]_in PROVE TreeInputs'
    OBVIOUS
  <2>1. CASE UNCHANGED in
    BY <2>1, Zenon DEF TreeInputs
  <2>2. CASE Next
    <3>1. CASE in' = [test |-> "tree", tree |-> <<>>]
      <4>1. in'.test = "tree" /\ in'.tree = <<>>
        BY <3>1
      <4>2. IsTree(<<>>)
        BY DEF IsTree
      <4> QED BY <4>1, <4>2 DEF TreeInputs
    <3>2. CASE in'.test = "tree" /\ in.test = "tree" /\ Insert
      <4>1. PICK k \in (1..MaxKey) \ T!Keys(in.tree) :
               in' = [test |-> "tree", tree |-> Append(in.tree, k)]
        BY <3>2, Zenon DEF Insert
      <4>2. IsTree(Append(in.tree, k))
        BY <3>2, Inserted, Zenon DEF TreeInputs
      <4>3. in'.tree = Append(in.tree, k)
        BY <4>1
      <4> QED BY <4>2, <4>3, Zenon DEF TreeInputs
    <3>3. CASE in'.test # "tree"
      BY <3>3 DEF TreeInputs
    <3>4. \/ in' = [test |-> "tree", tree |-> <<>>]
          \/ in'.test = "tree" /\ in.test = "tree" /\ Insert
          \/ in'.test # "tree"
      BY <2>2, Inputs
    <3> QED BY <3>1, <3>2, <3>3, <3>4
  <2> QED BY <2>1, <2>2
<1> QED BY <1>1, <1>2, PTL DEF Spec

\* Trees of any size, whatever the order of insertion: searches find what
\* they should and the iteration visits the keys in order (asdd's tree.h).
THEOREM TreesOrdered == Spec => []TreeOrdered
<1>1. TreeInputs => TreeOrdered
  <2> SUFFICES ASSUME TreeInputs, in.test = "tree" PROVE TreeOrdered
    BY Zenon DEF TreeOrdered
  <2> DEFINE tree == in.tree
             keys == T!Keys(tree)
             Le(key) == {k \in keys : k <= key /\ \A j \in keys : j <= key => j <= k}
  <2>1. IsTree(tree)
    BY DEF TreeInputs
  <2> HIDE DEF tree
  <2>2. ASSUME NEW key \in 0..(MaxKey + 1)
        PROVE  /\ T!tree_get_node_le(tree, key)
                    = IF Le(key) = {} THEN T!NoNode ELSE CHOOSE k \in Le(key) : TRUE
               /\ T!tree_get_node(tree, key) = IF key \in keys THEN key ELSE T!NoNode
               /\ T!segment_get(tree, [k \in keys |-> k + 1], key)
                    = IF key \in keys THEN key ELSE T!NoNode
    <3>1. key \in Nat
      BY MaxKeyAssumption
    <3>2. T!tree_get_node(tree, key) = IF key \in keys THEN key ELSE T!NoNode
      BY <2>1, <3>1, GetFound DEF T!NoNode
    <3>3. T!segment_get(tree, [k \in keys |-> k + 1], key) = IF key \in keys THEN key ELSE T!NoNode
      BY <2>1, <3>1, SegmentFound DEF T!NoNode
    <3> DEFINE le == T!tree_get_node_le(tree, key)
    <3>4. IsLe(tree, key, le)
      BY <2>1, <3>1, LeFound
    <3>5. \A k \in keys : k \in Nat /\ k # 0
      BY <2>1, Placed
    <3> HIDE DEF le
    <3>6. Le(key) = IF le = 0 THEN {} ELSE {le}
      BY <3>1, <3>4, <3>5 DEF IsLe
    <3> HIDE DEF Le
    <3>7. le = IF Le(key) = {} THEN T!NoNode ELSE CHOOSE k \in Le(key) : TRUE
      BY <3>6 DEF T!NoNode
    <3> QED BY <3>2, <3>3, <3>7 DEF le
  <2>3. T!tree_size(tree) = Cardinality(keys)
    BY <2>1, SizeFound
  <2>4. \A m, n \in 1..T!tree_size(tree) :
           m < n => T!tree_iter(tree)[m] < T!tree_iter(tree)[n]
    BY <2>1, IterFound DEF T!tree_size
  <2> QED BY <2>2, <2>3, <2>4, Zenon DEF TreeOrdered, tree
<1> QED BY <1>1, TreeInputsHold, PTL

------------------------------------------------------------------------------
(* Memory                                                                   *)

\* The bytes d, at their offsets from the aligned address
Offsets(start, d) == [o \in Span(start, Len(d)) |-> d[o - start + 1]]

\* The part of word k that is written
FirstByte(start, k) == IF k = 0 THEN start ELSE 0
LastByte(to, k) == IF to - 4 * k >= 4 THEN 4 ELSE to - 4 * k

\* One turn of the loop of mem_write_shift
Poke(m, word, address, data, from, to, k) ==
    mem_write_shift_word(m, word, address + 4 * k,
        [o \in {d - 4 * k : d \in DOMAIN data} |-> data[o + 4 * k]],
        FirstByte(from, k), LastByte(to, k))
Turn(before, word, address, data, from, to, k) ==
    LET now == Poke(before.mem, word, address, data, from, to, k)
    IN  IF ~before.go THEN before
        ELSE [mem |-> now.mem, written |-> before.written + now.written,
              go |-> now.written > 0 /\ to - 4 * k > 4]
Begin(mem) == [mem |-> mem, written |-> 0, go |-> TRUE]

Turns(upto, mem, word, address, data, from, to) ==
    upto = [k \in 0..(to \div 4) |->
              Turn(IF k = 0 THEN Begin(mem) ELSE upto[k - 1], word, address, data, from, to, k)]

\* What a word of memory is after a turn
Poked(w, m, Dom, word, base, start, d, k) ==
    LET lo == FirstByte(start, k)
        hi == LastByte(start + Len(d), k)
        at == base + 4 * k
    IN  IF Span(at, word) \subseteq Dom
        THEN /\ w.written = hi - lo
             /\ DOMAIN w.mem = Dom
             /\ \A a \in Dom : w.mem[a] = IF lo <= a - at /\ a - at < hi /\ a - at \in 0..3
                                          THEN d[a - base - start + 1] ELSE m[a]
        ELSE w.written = 0 /\ w.mem = m

\* A turn writes the bytes of its word.
LEMMA Pokes ==
  ASSUME NEW Dom \in SUBSET Int, NEW V, NEW m \in [Dom -> V], NEW word \in Nat, NEW base \in Int,
         NEW start \in 0..3, NEW d \in Seq(V), NEW k \in Nat
  PROVE  LET w == Poke(m, word, base, Offsets(start, d), start, start + Len(d), k)
         IN  /\ w.mem \in [Dom -> V] /\ w.written \in Int
             /\ Poked(w, m, Dom, word, base, start, d, k)
<1> DEFINE lo == FirstByte(start, k)
           hi == LastByte(start + Len(d), k)
           at == base + 4 * k
           data == Offsets(start, d)
           shifted == [o \in {x - 4 * k : x \in DOMAIN data} |-> data[o + 4 * k]]
           value == [o \in {o \in 0..3 : lo <= o /\ o < hi} |-> shifted[o]]
           put == mem_write_masked_word(m, word, at, value)
           w == Poke(m, word, base, data, start, start + Len(d), k)
<1>1. w = [mem |-> put.mem, written |-> IF put.ok THEN hi - lo ELSE 0]
  BY Zenon DEF Poke, mem_write_shift_word
<1>2. Len(d) \in Nat /\ lo \in 0..3 /\ hi \in Int /\ hi <= 4 /\ 4 * k + hi <= start + Len(d)
      /\ (k # 0 => lo = 0) /\ (k = 0 => lo = start)
  <2>1. Len(d) \in Nat
    OBVIOUS
  <2>2. lo \in 0..3 /\ (k # 0 => lo = 0) /\ (k = 0 => lo = start)
    BY DEF FirstByte
  <2>3. ASSUME NEW l \in Nat
        PROVE  /\ LastByte(start + l, k) \in Int /\ LastByte(start + l, k) <= 4
               /\ 4 * k + LastByte(start + l, k) <= start + l
    BY DEF LastByte
  <2> QED BY <2>1, <2>2, <2>3
<1>3. \A o \in 0..3 : lo <= o /\ o < hi => /\ shifted[o] = d[o + 4 * k - start + 1]
                                           /\ o + 4 * k - start + 1 \in 1..Len(d)
  <2> SUFFICES ASSUME NEW o \in 0..3, lo <= o, o < hi
               PROVE  /\ shifted[o] = d[o + 4 * k - start + 1]
                      /\ o + 4 * k - start + 1 \in 1..Len(d)
    OBVIOUS
  <2>1. o + 4 * k \in Span(start, Len(d)) /\ o = (o + 4 * k) - 4 * k
        /\ o + 4 * k - start + 1 \in 1..Len(d)
    <3> HIDE DEF lo, hi
    <3>1. CASE k = 0
      BY <1>2, <3>1 DEF Span
    <3>2. CASE k # 0
      BY <1>2, <3>2 DEF Span
    <3> QED BY <3>1, <3>2
  <2>2. DOMAIN data = Span(start, Len(d)) /\ data[o + 4 * k] = d[o + 4 * k - start + 1]
    BY <2>1 DEF Offsets
  <2>3. o \in {x - 4 * k : x \in DOMAIN data}
    BY <2>1, <2>2
  <2>4. shifted[o] = data[o + 4 * k]
    <3> HIDE DEF data
    <3> QED BY <2>3
  <2> QED BY <2>1, <2>2, <2>4
<1>4. \A o \in 0..3 : lo <= o /\ o < hi => o \in DOMAIN value /\ value[o] = shifted[o]
  <2> HIDE DEF lo, hi, shifted
  <2> QED OBVIOUS
<1>5. \A o \in DOMAIN value : o \in 0..3 /\ lo <= o /\ o < hi
  <2> HIDE DEF lo, hi, shifted
  <2> QED OBVIOUS
<1> HIDE DEF lo, hi, shifted, value
<1>6. CASE Span(at, word) \subseteq Dom
  <2> DEFINE new == [a \in Dom |-> IF a - at \in DOMAIN value THEN value[a - at] ELSE m[a]]
  <2>1. put.ok = TRUE /\ put.mem = new
    BY <1>6 DEF mem_write_masked_word, ptrace_mem_read
  <2> HIDE DEF put
  <2>2. w.written = hi - lo /\ w.mem = new
    <3> HIDE DEF w, new
    <3> QED BY <1>1, <2>1
  <2>3. \A a \in Dom : new[a] = IF lo <= a - at /\ a - at < hi /\ a - at \in 0..3
                                THEN d[a - base - start + 1] ELSE m[a]
    <3> SUFFICES ASSUME NEW a \in Dom
                 PROVE  new[a] = IF lo <= a - at /\ a - at < hi /\ a - at \in 0..3
                                 THEN d[a - base - start + 1] ELSE m[a]
      OBVIOUS
    <3>1. (a - at) + 4 * k - start + 1 = a - base - start + 1
      OBVIOUS
    <3>2. CASE lo <= a - at /\ a - at < hi /\ a - at \in 0..3
      <4> DEFINE o == a - at
      <4> HIDE DEF o
      <4>1. o \in DOMAIN value /\ value[o] = shifted[o] /\ shifted[o] = d[o + 4 * k - start + 1]
        BY <1>3, <1>4, <3>2 DEF o
      <4> QED BY <3>1, <3>2, <4>1 DEF o
    <3>3. CASE ~(lo <= a - at /\ a - at < hi /\ a - at \in 0..3)
      BY <1>5, <3>3
    <3> QED BY <3>2, <3>3
  <2>4. \A a \in Dom : new[a] \in V
    <3> SUFFICES ASSUME NEW a \in Dom PROVE new[a] \in V
      OBVIOUS
    <3>1. CASE a - at \in DOMAIN value
      <4> DEFINE o == a - at
      <4>1. o \in 0..3 /\ lo <= o /\ o < hi
        BY <1>5, <3>1
      <4>2. value[o] = d[o + 4 * k - start + 1] /\ o + 4 * k - start + 1 \in 1..Len(d)
        <5> HIDE DEF o
        <5> QED BY <1>3, <1>4, <4>1
      <4>3. d[o + 4 * k - start + 1] \in V
        <5> HIDE DEF o
        <5> QED BY <4>2
      <4>4. new[a] = value[o]
        BY <3>1
      <4> QED BY <4>2, <4>3, <4>4
    <3>2. CASE a - at \notin DOMAIN value
      BY <3>2
    <3> QED BY <3>1, <3>2
  <2>5. new \in [Dom -> V] /\ DOMAIN new = Dom
    BY <2>4
  <2>6. w.mem \in [Dom -> V] /\ w.written \in Int /\ Poked(w, m, Dom, word, base, start, d, k)
    <3> HIDE DEF new, w
    <3>1. w.written \in Int
      BY <1>2, <2>2
    <3> QED BY <1>6, <2>2, <2>3, <2>5, <3>1, Zenon DEF Poked, lo, hi, at
  <2> QED BY <2>6, Zenon DEF w, data
<1>7. CASE ~(Span(at, word) \subseteq Dom)
  <2>1. put.ok = FALSE /\ put.mem = m
    BY <1>7 DEF mem_write_masked_word, ptrace_mem_read
  <2> HIDE DEF put
  <2>2. w.written = 0 /\ w.mem = m
    <3> HIDE DEF w
    <3> QED BY <1>1, <2>1
  <2>3. w.mem \in [Dom -> V] /\ w.written \in Int /\ Poked(w, m, Dom, word, base, start, d, k)
    <3> HIDE DEF w
    <3>1. w.written \in Int
      BY <2>2
    <3> QED BY <1>7, <2>2, <3>1, Zenon DEF Poked, at
  <2> QED BY <2>3, Zenon DEF w, data
<1> QED BY <1>6, <1>7
\* Memory and progress of a turn
Progress(Dom, V) == [mem : [Dom -> V], written : Int, go : BOOLEAN]

\* A turn keeps them of their types.
LEMMA TurnType ==
  ASSUME NEW Dom \in SUBSET Int, NEW V, NEW before \in Progress(Dom, V), NEW word \in Nat,
         NEW base \in Int, NEW start \in 0..3, NEW d \in Seq(V), NEW k \in Nat
  PROVE  Turn(before, word, base, Offsets(start, d), start, start + Len(d), k) \in Progress(Dom, V)
<1> DEFINE w == Poke(before.mem, word, base, Offsets(start, d), start, start + Len(d), k)
           new == [mem |-> w.mem, written |-> before.written + w.written,
                   go |-> w.written > 0 /\ (start + Len(d)) - 4 * k > 4]
<1>1. w.mem \in [Dom -> V] /\ w.written \in Int
  BY Pokes DEF Progress
<1>2. Turn(before, word, base, Offsets(start, d), start, start + Len(d), k)
        = IF ~before.go THEN before ELSE new
  BY Zenon DEF Turn
<1>3. (w.written > 0 /\ (start + Len(d)) - 4 * k > 4) \in BOOLEAN
  BY Zenon
<1> HIDE DEF w
<1>4. new \in Progress(Dom, V)
  <2> DEFINE go == w.written > 0 /\ (start + Len(d)) - 4 * k > 4
  <2> HIDE DEF go
  <2>1. [mem |-> w.mem, written |-> before.written + w.written, go |-> go] \in Progress(Dom, V)
    BY <1>1, <1>3 DEF Progress, go
  <2> QED BY <2>1 DEF go
<1> HIDE DEF new
<1> QED BY <1>2, <1>4

\* The turns of mem_write_shift, up to the last one
Loop(upto, Dom, V, mem, word, base, start, d) ==
    LET to == start + Len(d)
    IN  /\ upto \in [0..(to \div 4) -> Progress(Dom, V)]
        /\ Turns(upto, mem, word, base, Offsets(start, d), start, to)
        /\ mem_write_shift(mem, word, base, Offsets(start, d), start, to) = upto[to \div 4]

\* The loop ends.
LEMMA ShiftIs ==
  ASSUME NEW Dom \in SUBSET Int, NEW V, NEW mem \in [Dom -> V], NEW word \in Nat,
         NEW base \in Int, NEW start \in 0..3, NEW d \in Seq(V)
  PROVE  \E upto : Loop(upto, Dom, V, mem, word, base, start, d)
<1> DEFINE to == start + Len(d)
           z == to \div 4
           D == 0..z
           data == Offsets(start, d)
           Next1(b, k) == Turn(b, word, base, data, start, to, k)
           stop == [k \in D |-> k = 0]
           base1 == [k \in D |-> Next1(Begin(mem), k)]
           next == [k \in D |-> IF k = 0 THEN 0 ELSE k - 1]
           cons == [p \in D \X Progress(Dom, V) |-> Next1(p[2], p[1])]
           rank == [k \in D |-> k]
<1>1. to \in Nat /\ z \in Nat
  <2>1. to \in Nat
    OBVIOUS
  <2> HIDE DEF to
  <2> QED BY <2>1
<1>2. Begin(mem) \in Progress(Dom, V)
  BY DEF Begin, Progress
<1>3. \A b \in Progress(Dom, V), k \in D : Next1(b, k) \in Progress(Dom, V)
  <2> SUFFICES ASSUME NEW b \in Progress(Dom, V), NEW k \in D PROVE Next1(b, k) \in Progress(Dom, V)
    OBVIOUS
  <2>1. k \in Nat
    BY <1>1
  <2> QED BY <2>1, TurnType
<1> HIDE DEF z, to, data, Next1
<1>4. stop \in [D -> BOOLEAN] /\ next \in [D -> D] /\ rank \in [D -> 0..z]
  BY <1>1
<1>5. base1 \in [D -> Progress(Dom, V)]
  BY <1>2, <1>3
<1>6. cons \in [D \X Progress(Dom, V) -> Progress(Dom, V)]
  BY <1>3
<1>7. \A k \in D : ~stop[k] => rank[next[k]] < rank[k]
  <2> SUFFICES ASSUME NEW k \in D, ~stop[k] PROVE rank[next[k]] < rank[k]
    OBVIOUS
  <2>0. k # 0
    <3>1. stop[k] = (k = 0)
      BY Zenon
    <3> QED BY <3>1, Zenon
  <2>1. k \in 1..z /\ k - 1 \in D
    <3> HIDE DEF stop, next, rank, base1, cons
    <3> QED BY <1>1, <2>0
  <2>2. next[k] = k - 1 /\ rank[k - 1] = k - 1 /\ rank[k] = k
    BY <2>1
  <2> QED BY <2>1, <2>2
<1>8. Progress(Dom, V) # {}
  BY <1>2
<1> HIDE DEF D
<1>9. PICK h \in [D -> Progress(Dom, V)] : Descends(h, D, stop, base1, next, cons)
  <2> HIDE DEF stop, base1, next, cons, rank
  <2> QED BY <1>1, <1>4, <1>5, <1>6, <1>7, <1>8, Descent DEF D
<1>10. \A k \in D : (IF stop[k] THEN base1[k] ELSE cons[<<k, h[next[k]]>>])
                      = Next1(IF k = 0 THEN Begin(mem) ELSE h[k - 1], k)
  <2> SUFFICES ASSUME NEW k \in D
               PROVE  (IF stop[k] THEN base1[k] ELSE cons[<<k, h[next[k]]>>])
                        = Next1(IF k = 0 THEN Begin(mem) ELSE h[k - 1], k)
    OBVIOUS
  <2>1. CASE k = 0
    BY <2>1
  <2>2. CASE k # 0
    <3>1. k - 1 \in D /\ next[k] = k - 1 /\ ~stop[k]
      BY <1>1, <2>2 DEF D
    <3>2. h[k - 1] \in Progress(Dom, V)
      BY <3>1
    <3>3. cons[<<k, h[k - 1]>>] = Next1(h[k - 1], k)
      BY <3>2
    <3> QED BY <2>2, <3>1, <3>3
  <2> QED BY <2>1, <2>2
<1>11. h = [k \in D |-> Next1(IF k = 0 THEN Begin(mem) ELSE h[k - 1], k)]
  <2> HIDE DEF stop, base1, next, cons
  <2> QED BY <1>9, <1>10 DEF Descends
<1>12. Turns(h, mem, word, base, data, start, to)
  BY <1>11, Zenon DEF Turns, Next1, D, z
<1> DEFINE c == CHOOSE upto : Turns(upto, mem, word, base, data, start, to)
<1>13. Turns(c, mem, word, base, data, start, to)
  BY <1>12, Zenon
<1>14. mem_write_shift(mem, word, base, data, start, to) = c[z]
  BY Zenon DEF mem_write_shift, Turns, Turn, Poke, FirstByte, LastByte, Begin, z
<1>15. c \in [D -> Progress(Dom, V)]
  <2>1. c = [k \in D |-> Next1(IF k = 0 THEN Begin(mem) ELSE c[k - 1], k)]
    BY <1>13, Zenon DEF Turns, Next1, D, z
  <2> HIDE DEF c
  <2> DEFINE U == {k \in D : c[k] \in Progress(Dom, V)}
  <2>2. 0 \in D /\ \A m \in 1..z : m \in D /\ m - 1 \in D /\ m # 0
    BY <1>1 DEF D
  <2>3. 0 \in U
    <3>1. c[0] = Next1(Begin(mem), 0)
      BY <2>1, <2>2
    <3> QED BY <1>2, <1>3, <2>2, <3>1
  <2>4. ASSUME NEW m \in 1..z, m - 1 \in U PROVE m \in U
    <3>1. c[m] = Next1(c[m - 1], m)
      BY <2>1, <2>2
    <3> QED BY <1>3, <2>2, <2>4, <3>1
  <2>5. \A m \in 0..z : m \in U
    <3> HIDE DEF U
    <3> QED BY <1>1, <2>3, <2>4, Upwards
  <2> QED BY <2>1, <2>5 DEF D
<1> HIDE DEF c
<1> QED BY <1>13, <1>14, <1>15, Zenon DEF Loop, D, z, to, data
\* m is mem with the first w bytes of d at address.
Holds(m, mem, Dom, address, d, w) ==
    /\ DOMAIN m = Dom
    /\ \A a \in Dom : m[a] = IF a - address \in 0..(w - 1) THEN d[a - address + 1] ELSE mem[a]

\* The turn before k has written its part, if the loop goes on; or the loop
\* ended, with everything written or at a word that is not mapped.
Before4(k, start) == IF k = 0 THEN 0 ELSE 4 * k - start
Written4(r, mem, Dom, word, address, start, d, k) ==
    /\ r.written \in 0..Len(d)
    /\ Holds(r.mem, mem, Dom, address, d, r.written)
    /\ Span(address, r.written) \subseteq Dom
    /\ r.go => r.written = Before4(k, start) /\ 4 * k < start + Len(d)
    /\ ~r.go => \/ r.written = Len(d)
                \/ \E j \in 0..(k - 1) : /\ 4 * j < start + Len(d)
                                         /\ ~(Span(address - start + 4 * j, word) \subseteq Dom)

\* A turn goes on from there.
LEMMA TurnWrites ==
  ASSUME NEW Dom \in SUBSET Int, NEW V, NEW mem \in [Dom -> V], NEW word \in Nat, word >= 4,
         NEW address \in Int, NEW start \in 0..3, NEW d \in Seq(V), Len(d) > 0,
         NEW k \in Nat, NEW r \in Progress(Dom, V), Written4(r, mem, Dom, word, address, start, d, k)
  PROVE  Written4(Turn(r, word, address - start, Offsets(start, d), start, start + Len(d), k),
                  mem, Dom, word, address, start, d, k + 1)
<1> DEFINE base == address - start
           to == start + Len(d)
           w == Poke(r.mem, word, base, Offsets(start, d), start, to, k)
           more == w.written > 0 /\ to - 4 * k > 4
           new == [mem |-> w.mem, written |-> r.written + w.written, go |-> more]
           t == Turn(r, word, base, Offsets(start, d), start, to, k)
<1>1. t = IF ~r.go THEN r ELSE new
  BY Zenon DEF Turn
<1>2. base \in Int /\ Len(d) \in Nat /\ r.mem \in [Dom -> V] /\ r.go \in BOOLEAN
  BY DEF Progress
<1>3. Poked(w, r.mem, Dom, word, base, start, d, k)
  BY <1>2, Pokes
<1> HIDE DEF t, w
<1>4. CASE ~r.go
  <2>1. t = r
    BY <1>1, <1>4
  <2>2. \A j \in 0..(k - 1) : j \in 0..((k + 1) - 1)
    OBVIOUS
  <2>3. \/ r.written = Len(d)
        \/ \E j \in 0..((k + 1) - 1) : /\ 4 * j < to
                                       /\ ~(Span(base + 4 * j, word) \subseteq Dom)
    <3> QED BY <1>4, <2>2, Zenon DEF Written4
  <2>4. Written4(r, mem, Dom, word, address, start, d, k + 1)
    BY <1>4, <2>3, Zenon DEF Written4
  <2> QED BY <2>1, <2>4, Zenon DEF t
<1>5. CASE r.go
  <2>1. t = new
    BY <1>1, <1>5, Zenon
  <2>2. t.mem = w.mem /\ t.written = r.written + w.written /\ t.go = more
    <3> HIDE DEF more
    <3> QED BY <2>1
  <2>3. /\ r.written = Before4(k, start) /\ 4 * k < to
        /\ r.written \in 0..Len(d)
        /\ Holds(r.mem, mem, Dom, address, d, r.written)
        /\ Span(address, r.written) \subseteq Dom
    BY <1>5, Zenon DEF Written4
  <2> DEFINE lo == FirstByte(start, k)
             hi == LastByte(to, k)
             at == base + 4 * k
  <2>4. /\ lo \in Nat /\ hi \in Nat /\ lo < hi /\ hi <= 4
        /\ at + lo = address + r.written
        /\ r.written + (hi - lo) <= Len(d)
        /\ to - 4 * k > 4 => r.written + (hi - lo) = 4 * (k + 1) - start
        /\ ~(to - 4 * k > 4) => r.written + (hi - lo) = Len(d)
    <3>1. ASSUME NEW l \in Nat, r.written = Before4(k, start), r.written <= l, 4 * k < start + l,
                 k = 0 => 0 < l
          PROVE  LET h == LastByte(start + l, k)
                 IN  /\ lo \in Nat /\ h \in Nat /\ lo < h /\ h <= 4
                     /\ at + lo = address + r.written
                     /\ r.written + (h - lo) <= l
                     /\ (start + l) - 4 * k > 4 => r.written + (h - lo) = 4 * (k + 1) - start
                     /\ ~((start + l) - 4 * k > 4) => r.written + (h - lo) = l
      <4>1. CASE k = 0
        BY <3>1, <4>1 DEF FirstByte, LastByte, Before4
      <4>2. CASE k # 0
        BY <3>1, <4>2 DEF FirstByte, LastByte, Before4
      <4> QED BY <4>1, <4>2
    <3>2. r.written <= Len(d) /\ 4 * k < start + Len(d) /\ (k = 0 => 0 < Len(d))
      BY <1>2, <2>3
    <3> QED BY <1>2, <2>3, <3>1, <3>2, Zenon
  <2>5. CASE ~(Span(at, word) \subseteq Dom)
    <3>1. w.written = 0 /\ w.mem = r.mem
      BY <1>3, <2>5 DEF Poked
    <3>2. t.written = r.written /\ t.mem = r.mem /\ ~t.go
      <4>1. ~more
        BY <3>1
      <4>2. r.written + 0 = r.written
        BY <2>3
      <4> HIDE DEF more
      <4> QED BY <2>2, <3>1, <4>1, <4>2
    <3>3. k \in 0..((k + 1) - 1)
      OBVIOUS
    <3> QED BY <2>3, <2>5, <3>2, <3>3 DEF Written4, t
  <2>6. CASE Span(at, word) \subseteq Dom
    <3> HIDE DEF lo, hi
    <3>1. /\ w.written = hi - lo /\ DOMAIN w.mem = Dom
          /\ \A a \in Dom : w.mem[a] = IF lo <= a - at /\ a - at < hi /\ a - at \in 0..3
                                       THEN d[a - base - start + 1] ELSE r.mem[a]
      BY <1>3, <2>6, Zenon DEF Poked, lo, hi
    <3> DEFINE n == r.written + (hi - lo)
    <3>2. n \in 0..Len(d) /\ t.written = n /\ t.mem = w.mem
      BY <1>2, <2>2, <2>3, <2>4, <3>1
    <3>3. t.go <=> to - 4 * k > 4
      <4>1. w.written > 0
        BY <2>4, <3>1
      <4> QED BY <2>2, <4>1, Zenon
    <3>4. Holds(t.mem, mem, Dom, address, d, n)
      <4>1. ASSUME NEW a \in Dom
            PROVE  w.mem[a] = IF a - address \in 0..(n - 1) THEN d[a - address + 1] ELSE mem[a]
        <5>1. /\ r.mem[a] = IF a - address \in 0..(r.written - 1) THEN d[a - address + 1] ELSE mem[a]
              /\ w.mem[a] = IF lo <= a - at /\ a - at < hi /\ a - at \in 0..3
                             THEN d[a - base - start + 1] ELSE r.mem[a]
          BY <2>3, <3>1 DEF Holds
        <5>2. a - base - start + 1 = a - address + 1
          OBVIOUS
        <5> DEFINE inside == lo <= a - at /\ a - at < hi /\ a - at \in 0..3
        <5>3. /\ inside => a - address \in 0..(n - 1)
              /\ ~inside => (a - address \in 0..(r.written - 1) <=> a - address \in 0..(n - 1))
          <6>1. a \in Int /\ at \in Int /\ r.written \in Nat
            BY <1>2, <2>3
          <6>2. lo \in Nat /\ hi \in Nat /\ lo < hi /\ hi <= 4 /\ at + lo = address + r.written
            BY <2>4
          <6> DEFINE v == r.written
          <6> HIDE DEF at, v
          <6> QED BY <6>1, <6>2 DEF v
        <5> HIDE DEF inside, n, at, base
        <5>4. /\ inside => w.mem[a] = d[a - address + 1]
              /\ ~inside => w.mem[a] = r.mem[a]
          BY <5>1, <5>2, Zenon DEF inside
        <5> QED BY <5>1, <5>3, <5>4, Zenon
      <4> HIDE DEF n
      <4> QED BY <3>1, <3>2, <4>1, Zenon DEF Holds
    <3>5. Span(address, n) \subseteq Dom
      <4> SUFFICES ASSUME NEW a \in Span(address, n) PROVE a \in Dom
        OBVIOUS
      <4>1. a \in Span(address, r.written) \/ a \in Span(at, word)
        <5>1. at \in Int /\ r.written \in Nat
          BY <1>2, <2>3
        <5>2. lo \in Nat /\ hi \in Nat /\ lo < hi /\ hi <= 4 /\ at + lo = address + r.written
          BY <2>4
        <5> HIDE DEF at
        <5> QED BY <5>1, <5>2 DEF Span
      <4> QED BY <2>3, <2>6, <4>1
    <3>6. t.go => n = Before4(k + 1, start) /\ 4 * (k + 1) < to
      <4>1. Before4(k + 1, start) = 4 * (k + 1) - start
        BY DEF Before4
      <4>2. to \in Nat
        BY <1>2
      <4>3. to - 4 * k > 4 => n = 4 * (k + 1) - start
        BY <2>4
      <4> HIDE DEF n, to
      <4>4. to - 4 * k > 4 => 4 * (k + 1) < to
        BY <4>2
      <4> QED BY <3>3, <4>1, <4>3, <4>4
    <3>7. ~t.go => n = Len(d)
      BY <2>4, <3>3
    <3> HIDE DEF n, to
    <3> QED BY <3>2, <3>4, <3>5, <3>6, <3>7, Zenon DEF Written4, t, to
  <2> QED BY <2>5, <2>6
<1> QED BY <1>2, <1>4, <1>5

\* What mem_write does, whatever is mapped: `written' bytes are there, nothing
\* else has changed; if it is not all, a word was not mapped.
WritesPart(r, mem, Dom, word, address, d) ==
    /\ r.written \in 0..Len(d)
    /\ Holds(r.mem, mem, Dom, address, d, r.written)
    /\ Span(address, r.written) \subseteq Dom
    /\ r.written = Len(d) \/ \E a \in Span(address, Len(d)) : ~(Span(4 * (a \div 4), word) \subseteq Dom)

\* The loop writes what it says.
LEMMA ShiftWrites ==
  ASSUME NEW Dom \in SUBSET Int, NEW V, NEW mem \in [Dom -> V], NEW word \in Nat, word >= 4,
         NEW address \in Int, NEW d \in Seq(V), Len(d) > 0
  PROVE  LET start == address % 4
             r == mem_write_shift(mem, word, address - start, Offsets(start, d), start,
                                  start + Len(d))
         IN  WritesPart(r, mem, Dom, word, address, d)
<1> DEFINE start == address % 4
           base == address - start
           to == start + Len(d)
           z == to \div 4
           r == mem_write_shift(mem, word, base, Offsets(start, d), start, to)
<1>1. start \in 0..3 /\ base \in Int /\ base = 4 * (address \div 4) /\ address \div 4 \in Int
  OBVIOUS
<1> HIDE DEF start
<1>2. Len(d) \in Nat /\ to \in Nat /\ z \in Nat /\ 4 * (z + 1) > to
  <2>1. Len(d) \in Nat /\ to \in Nat
    BY <1>1
  <2> HIDE DEF to
  <2> QED BY <2>1
<1> HIDE DEF base
<1>3. PICK upto \in [0..z -> Progress(Dom, V)] :
         /\ Turns(upto, mem, word, base, Offsets(start, d), start, to)
         /\ r = upto[z]
  <2>1. base \in Int /\ start \in 0..3
    BY <1>1
  <2>2. \E upto : Loop(upto, Dom, V, mem, word, base, start, d)
    <3> HIDE DEF to, z, r
    <3> QED BY <2>1, ShiftIs
  <2> QED BY <2>2, Zenon DEF Loop
<1> HIDE DEF z, to, r
<1> DEFINE Next1(b, k) == Turn(b, word, base, Offsets(start, d), start, to, k)
           Done(b, k) == Written4(b, mem, Dom, word, address, start, d, k)
           U == {k \in 0..z : Done(upto[k], k + 1)}
<1>4. upto = [k \in 0..z |-> Next1(IF k = 0 THEN Begin(mem) ELSE upto[k - 1], k)]
  BY <1>3, Zenon DEF Turns, z
<1>5. ASSUME NEW b \in Progress(Dom, V), NEW k \in Nat, Done(b, k) PROVE Done(Next1(b, k), k + 1)
  BY <1>1, <1>5, TurnWrites DEF base, to
<1>6. Begin(mem) \in Progress(Dom, V) /\ Done(Begin(mem), 0)
  <2> DEFINE b == Begin(mem)
  <2>1. b \in Progress(Dom, V) /\ b.mem = mem /\ b.written = 0 /\ b.go = TRUE
    BY DEF Begin, Progress
  <2> HIDE DEF b
  <2>2. Holds(mem, mem, Dom, address, d, 0)
    BY DEF Holds
  <2>3. Span(address, 0) \subseteq Dom
    BY DEF Span
  <2>4. 4 * 0 < start + Len(d) /\ 0 = Before4(0, start) /\ 0 \in 0..Len(d)
    BY <1>1, <1>2 DEF Before4
  <2> QED BY <2>1, <2>2, <2>3, <2>4 DEF Written4, b
<1> HIDE DEF Next1, Done
<1>7. 0 \in U
  <2>1. upto[0] = Next1(Begin(mem), 0) /\ 0 \in 0..z
    BY <1>2, <1>4
  <2> QED BY <1>5, <1>6, <2>1
<1>8. ASSUME NEW m \in 1..z, m - 1 \in U PROVE m \in U
  <2>1. m \in 0..z /\ m - 1 \in 0..z /\ m # 0 /\ m \in Nat /\ (m - 1) + 1 = m
    BY <1>2
  <2>2. upto[m] = Next1(upto[m - 1], m) /\ upto[m - 1] \in Progress(Dom, V)
    BY <1>4, <2>1
  <2>3. Done(upto[m - 1], m)
    BY <1>8, <2>1
  <2>4. Done(upto[m], m + 1)
    BY <1>5, <2>1, <2>2, <2>3
  <2> QED BY <2>1, <2>4
<1>9. Done(r, z + 1) /\ r \in Progress(Dom, V)
  <2>1. z \in U
    <3>1. \A m \in 0..z : m \in U
      <4> HIDE DEF U
      <4> QED BY <1>2, <1>7, <1>8, Upwards
    <3> QED BY <1>2, <3>1
  <2> QED BY <1>2, <1>3, <2>1
<1>10. ~r.go
  BY <1>2, <1>9 DEF Done, Written4, to
<1>11. ASSUME NEW j \in 0..z, 4 * j < to, ~(Span(base + 4 * j, word) \subseteq Dom)
       PROVE  \E a \in Span(address, Len(d)) : ~(Span(4 * (a \div 4), word) \subseteq Dom)
  <2> DEFINE a == IF j = 0 THEN address ELSE base + 4 * j
             q == address \div 4
  <2>1. a \in Span(address, Len(d))
    <3>1. j \in Nat /\ address = base + start /\ to = start + Len(d)
      BY <1>1, <1>2 DEF base, to
    <3> QED BY <1>1, <1>2, <1>11, <3>1 DEF Span
  <2>2. 4 * (a \div 4) = base + 4 * j
    <3>0. j \in Nat /\ q \in Int /\ base = 4 * q
      BY <1>1, <1>2
    <3> HIDE DEF q
    <3>1. CASE j = 0
      BY <1>1, <3>0, <3>1 DEF q
    <3>2. CASE j # 0
      <4>1. a = 4 * (q + j)
        BY <3>0, <3>2
      <4>2. \A x \in Int : (4 * x) \div 4 = x
        OBVIOUS
      <4>3. a \div 4 = q + j
        BY <3>0, <4>1, <4>2
      <4> QED BY <3>0, <4>3
    <3> QED BY <3>1, <3>2
  <2> HIDE DEF a
  <2> QED BY <1>11, <2>1, <2>2
<1>12. \A j \in 0..((z + 1) - 1) : j \in 0..z
  BY <1>2
<1>13. /\ r.written \in 0..Len(d)
       /\ Holds(r.mem, mem, Dom, address, d, r.written)
       /\ Span(address, r.written) \subseteq Dom
       /\ \/ r.written = Len(d)
          \/ \E j \in 0..((z + 1) - 1) : /\ 4 * j < to
                                         /\ ~(Span(base + 4 * j, word) \subseteq Dom)
  BY <1>9, <1>10, Zenon DEF Done, Written4, base, to
<1>14. WritesPart(r, mem, Dom, word, address, d)
  BY <1>11, <1>12, <1>13, Zenon DEF WritesPart
<1> QED BY <1>14, Zenon DEF r, to, base, start

\* What is mapped can be read.
LEMMA ReadsMapped ==
  ASSUME NEW Dom \in SUBSET Int, NEW m, DOMAIN m = Dom, NEW address \in Int, NEW size \in Nat,
         Span(address, size) \subseteq Dom
  PROVE  mem_read(m, address, size) = [n \in 1..size |-> m[address + n - 1]]
<1> DEFINE Got(n) == /\ Span(address, n) \subseteq DOMAIN m
                     /\ n = size \/ address + n \notin DOMAIN m
<1>1. Got(size) /\ size \in 0..size
  OBVIOUS
<1>2. \A n \in 0..size : Got(n) => n = size
  <2> SUFFICES ASSUME NEW n \in 0..size, n # size, address + n \notin DOMAIN m PROVE FALSE
    OBVIOUS
  <2>1. address + n \in Span(address, size)
    BY DEF Span
  <2> QED BY <2>1
<1> HIDE DEF Got
<1>3. (CHOOSE n \in 0..size : Got(n)) = size
  BY <1>1, <1>2
<1>4. (CHOOSE n \in 0..size : /\ Span(address, n) \subseteq DOMAIN m
                              /\ n = size \/ address + n \notin DOMAIN m) = size
  BY <1>3, Zenon DEF Got
<1> QED BY <1>4, Zenon DEF mem_read, procfs_mem_read

\* mem_verify confirms bytes that are there.
LEMMA Verifies ==
  ASSUME NEW Dom \in SUBSET Int, NEW V, NEW m, DOMAIN m = Dom, NEW address \in Int,
         NEW d \in Seq(V), Span(address, Len(d)) \subseteq Dom,
         \A n \in 1..Len(d) : m[address + n - 1] = d[n]
  PROVE  mem_verify(m, address, d)
<1> DEFINE l == Len(d)
           Block(b) == SubSeq(d, b * VerifyBlock + 1, Min({Len(d), (b + 1) * VerifyBlock}))
           blocks == {b \in 0..Len(d) : b * VerifyBlock < Len(d)}
<1>0. l \in Nat
  OBVIOUS
<1>1. ASSUME NEW b \in blocks
      PROVE  mem_read(m, address + b * VerifyBlock, Len(Block(b))) = Block(b)
  <2> DEFINE x == b * 2
             y == IF l <= (b + 1) * 2 THEN l ELSE (b + 1) * 2
             s == SubSeq(d, x + 1, y)
  <2>1. b \in Nat /\ x < l /\ x \in Nat
    BY <1>0 DEF VerifyBlock
  <2>2. Block(b) = s
    <3>1. Min({l, (b + 1) * 2}) = y
      <4>1. (b + 1) * 2 \in Int
        BY <2>1
      <4> QED BY <1>0, <4>1, MinOfTwo
    <3> QED BY <3>1 DEF VerifyBlock
  <2>3. y \in Nat /\ x < y /\ y <= l
    <3> HIDE DEF l
    <3> QED BY <1>0, <2>1
  <2> HIDE DEF x, y
  <2>4. s \in Seq(V) /\ Len(s) = y - x /\ \A n \in 1..(y - x) : s[n] = d[x + n]
    <3>1. x + 1 \in 1..(Len(d) + 1) /\ y \in x..Len(d)
      BY <1>0, <2>1, <2>3
    <3>2. /\ s \in Seq(V) /\ Len(s) = y - (x + 1) + 1
          /\ \A n \in 1..(y - (x + 1) + 1) : s[n] = d[(x + 1) + n - 1]
      <4>1. \A n \in (x + 1)..y : d[n] \in V
        BY <2>1, <2>3
      <4> QED BY <1>0, <2>1, <2>3, <4>1, SubSeqProperties
    <3>3. y - (x + 1) + 1 = y - x
      BY <2>1, <2>3
    <3>4. ASSUME NEW n \in 1..(y - x) PROVE (x + 1) + n - 1 = x + n
      BY <2>1, <2>3
    <3> QED BY <3>2, <3>3, <3>4
  <2>5. y - x \in Nat /\ Span(address + x, y - x) \subseteq Dom
    <3>1. \A a \in Span(address + x, y - x) : a \in Span(address, l)
      <4> HIDE DEF l
      <4> QED BY <1>0, <2>1, <2>3 DEF Span
    <3> QED BY <2>1, <2>3, <3>1
  <2>6. mem_read(m, address + x, y - x) = [n \in 1..(y - x) |-> m[address + x + n - 1]]
    <3>1. address + x \in Int
      BY <2>1
    <3> DEFINE p == address + x
               q == y - x
    <3>2. p \in Int /\ q \in Nat /\ Span(p, q) \subseteq Dom
      BY <2>5, <3>1
    <3> HIDE DEF p, q, s, blocks, Block
    <3>3. mem_read(m, p, q) = [n \in 1..q |-> m[p + n - 1]]
      BY <3>2, ReadsMapped
    <3> QED BY <3>3, Zenon DEF p, q
  <2>7. ASSUME NEW n \in 1..(y - x) PROVE m[address + x + n - 1] = s[n]
    <3>1. x + n \in 1..l /\ address + x + n - 1 = address + (x + n) - 1
      <4> HIDE DEF l
      <4> QED BY <1>0, <2>1, <2>3
    <3>2. m[address + (x + n) - 1] = d[x + n]
      BY <3>1
    <3> QED BY <2>4, <3>1, <3>2
  <2>8. s = [n \in 1..(y - x) |-> s[n]]
    <3> HIDE DEF s
    <3>1. s \in [1..(y - x) -> V]
      BY <2>4, LenProperties
    <3> QED BY <3>1
  <2>9. mem_read(m, address + x, y - x) = s
    <3> HIDE DEF s
    <3> QED BY <2>6, <2>7, <2>8
  <2>10. b * VerifyBlock = x
    BY DEF VerifyBlock, x
  <2> HIDE DEF s, Block
  <2> QED BY <2>2, <2>4, <2>9, <2>10
<1> QED BY <1>1, Zenon DEF mem_verify

\* mem_write, for any memory, address and bytes and words of 4 bytes or more:
\* the bytes it reports as written are there, it says so itself, nothing else
\* has changed, and a part is left out only if a word that holds a byte of it
\* is not mapped (procutil/mem.c).
THEOREM WritesReported ==
  ASSUME NEW Dom \in SUBSET Int, NEW V, NEW mem \in [Dom -> V], NEW word \in Nat, word >= 4,
         NEW address \in Int, NEW d \in Seq(V)
  PROVE  LET r == mem_write(mem, word, address, d)
         IN  WritesPart(r, mem, Dom, word, address, d) /\ r.verified
<1> DEFINE start == address % 4
           data == [o \in Span(start, Len(d)) |-> d[o - start + 1]]
           shift == mem_write_shift(mem, word, address - start, data, start, start + Len(d))
           ver == mem_verify(shift.mem, address, SubSeq(d, 1, shift.written))
           r == mem_write(mem, word, address, d)
<1>0. Len(d) \in Nat
  OBVIOUS
<1>1. CASE d = <<>>
  <2>1. r = [mem |-> mem, written |-> 0, verified |-> TRUE]
    BY <1>1, Zenon DEF mem_write
  <2>2. r.mem = mem /\ r.written = 0 /\ r.verified = TRUE
    BY <2>1
  <2>3. Len(d) = 0
    BY <1>1
  <2>4. Holds(mem, mem, Dom, address, d, 0) /\ Span(address, 0) \subseteq Dom /\ 0 \in 0..0
    BY DEF Holds, Span
  <2>5. WritesPart(r, mem, Dom, word, address, d) /\ r.verified
    <3> HIDE DEF r
    <3> QED BY <2>2, <2>3, <2>4 DEF WritesPart
  <2> QED BY <2>5, Zenon DEF r
<1>2. CASE d # <<>>
  <2>1. Len(d) > 0
    BY <1>2, EmptySeq
  <2>2. data = Offsets(start, d)
    BY Zenon DEF Offsets
  <2>3. WritesPart(shift, mem, Dom, word, address, d)
    <3>1. WritesPart(mem_write_shift(mem, word, address - start, Offsets(start, d), start,
                                     start + Len(d)), mem, Dom, word, address, d)
      <4> HIDE DEF data, shift, ver, r
      <4> QED BY <2>1, ShiftWrites, Zenon
    <3> QED BY <2>2, <3>1, Zenon
  <2>4. r = [mem |-> shift.mem, written |-> shift.written, verified |-> ver]
    BY <1>2, Zenon DEF mem_write
  <2> HIDE DEF shift
  <2>5. ver
    <3> DEFINE w == shift.written
               m == shift.mem
               u == SubSeq(d, 1, w)
    <3>1. w \in 0..Len(d) /\ Holds(m, mem, Dom, address, d, w) /\ Span(address, w) \subseteq Dom
      BY <2>3, Zenon DEF WritesPart
    <3>2. w \in Nat /\ w <= Len(d)
      BY <1>0, <3>1
    <3>3. u \in Seq(V) /\ Len(u) = w /\ \A n \in 1..w : u[n] = d[n]
      <4> HIDE DEF w
      <4>1. \A n \in 1..w : d[n] \in V
        BY <1>0, <3>2
      <4>2. /\ u \in Seq(V) /\ Len(u) = IF 1 <= w + 1 THEN w - 1 + 1 ELSE 0
            /\ \A n \in 1..(w - 1 + 1) : u[n] = d[1 + n - 1]
        BY <1>0, <3>2, <4>1, SubSeqProperties
      <4>3. w - 1 + 1 = w /\ 1 <= w + 1
        BY <3>2
      <4>4. ASSUME NEW n \in 1..w PROVE 1 + n - 1 = n
        BY <3>2
      <4> QED BY <4>2, <4>3, <4>4
    <3>4. ASSUME NEW n \in 1..w PROVE m[address + n - 1] = u[n]
      <4>1. address + n - 1 \in Span(address, w)
        BY <3>2 DEF Span
      <4>2. (address + n - 1) - address \in 0..(w - 1) /\ (address + n - 1) - address + 1 = n
        BY <3>2
      <4>3. m[address + n - 1] = d[n]
        <5> DEFINE a == address + n - 1
        <5> HIDE DEF a, m
        <5> QED BY <3>1, <4>1, <4>2 DEF Holds, a
      <4> QED BY <3>3, <4>3
    <3>5. DOMAIN m = Dom
      BY <3>1 DEF Holds
    <3> HIDE DEF m, u, w
    <3>6. mem_verify(m, address, u)
      BY <3>1, <3>3, <3>4, <3>5, Verifies
    <3> QED BY <3>6, Zenon DEF m, u, w
  <2> HIDE DEF ver
  <2>6. r.mem = shift.mem /\ r.written = shift.written /\ r.verified = ver
    <3> HIDE DEF r
    <3> QED BY <2>4
  <2>7. WritesPart(r, mem, Dom, word, address, d) /\ r.verified
    <3> HIDE DEF r
    <3> QED BY <2>3, <2>5, <2>6, Zenon DEF WritesPart
  <2> QED BY <2>7, Zenon DEF r
<1> QED BY <1>1, <1>2
\* g are the first n bytes of d.
Prefix(g, d, n) == g \in Seq(Int) /\ Len(g) = n /\ \A k \in 1..n : g[k] = d[k]

\* Bytes that are there are read.
LEMMA ReadsBack ==
  ASSUME NEW Dom \in SUBSET Int, NEW mem, NEW m, NEW address \in Int, NEW d \in Seq(Int),
         Holds(m, mem, Dom, address, d, Len(d)), Span(address, Len(d)) \subseteq Dom,
         NEW n \in 0..Len(d)
  PROVE  Prefix(mem_read(m, address, n), d, n)
<1>0. Len(d) \in Nat /\ n \in Nat /\ n <= Len(d)
  OBVIOUS
<1>1. DOMAIN m = Dom
  BY DEF Holds
<1>2. Span(address, n) \subseteq Dom
  BY <1>0 DEF Span
<1>3. mem_read(m, address, n) = [k \in 1..n |-> m[address + k - 1]]
  BY <1>0, <1>1, <1>2, ReadsMapped
<1>4. ASSUME NEW k \in 1..n PROVE m[address + k - 1] = d[k] /\ d[k] \in Int
  <2> DEFINE a == address + k - 1
  <2>1. a \in Span(address, n) /\ a - address \in 0..(Len(d) - 1) /\ a - address + 1 = k
        /\ k \in 1..Len(d)
    BY <1>0 DEF Span
  <2>2. a \in Dom
    BY <1>2, <2>1
  <2> HIDE DEF a
  <2>3. m[a] = d[k]
    BY <2>1, <2>2 DEF Holds
  <2> QED BY <2>1, <2>3 DEF a
<1> DEFINE g == mem_read(m, address, n)
<1>5. g = [k \in 1..n |-> d[k]]
  BY <1>3, <1>4
<1>6. g \in [1..n -> Int]
  <2> HIDE DEF g
  <2> QED BY <1>4, <1>5
<1>7. g \in Seq(Int) /\ Len(g) = n
  <2> HIDE DEF g
  <2> QED BY <1>0, <1>6
<1>8. \A k \in 1..n : g[k] = d[k]
  <2> HIDE DEF g
  <2> QED BY <1>5
<1> HIDE DEF g
<1> QED BY <1>7, <1>8 DEF Prefix, g

Halfword == 0..65535
InsnSize(kind) == IF kind = "THUMB" THEN 2 ELSE 4

\* An instruction of a kind: as patch_check_insn accepts it, and a 16-bit
\* Thumb instruction does not begin like a 32-bit one.
IsInsn(kind, i) ==
    /\ kind \in {"ARM", "THUMB", "THUMB2", "A64"}
    /\ \E i1, i2 \in Halfword : i = <<i1, i2>>
    /\ patch_check_insn(kind, i)
    /\ kind = "THUMB" => ~is_thumb2_halfword(i[2])

\* Two bytes make a halfword again.
LEMMA HalfwordOf ==
  ASSUME NEW x \in Halfword
  PROVE  x \in Int /\ (x % 256) + 256 * (x \div 256) = x
BY DEF Halfword

\* The bytes of an instruction
LEMMA StoredIs ==
  ASSUME NEW kind, NEW i, IsInsn(kind, i)
  PROVE  LET d == Stored(kind, i)
             low == i[2] % 256
             top == i[2] \div 256
             low1 == i[1] % 256
             top1 == i[1] \div 256
         IN  /\ d \in Seq(Int) /\ Len(d) = InsnSize(kind)
             /\ kind = "THUMB" => d[1] = low /\ d[2] = top
             /\ kind = "THUMB2" => d[1] = low1 /\ d[2] = top1 /\ d[3] = low /\ d[4] = top
             /\ kind \in {"ARM", "A64"} => d[1] = low /\ d[2] = top /\ d[3] = low1 /\ d[4] = top1
<1> DEFINE low == i[2] % 256
           top == i[2] \div 256
           low1 == i[1] % 256
           top1 == i[1] \div 256
           d == Stored(kind, i)
<1>1. i[1] \in Int /\ i[2] \in Int
  <2>1. PICK i1 \in Halfword, i2 \in Halfword : i = <<i1, i2>>
    BY Zenon DEF IsInsn
  <2>2. i[1] = i1 /\ i[2] = i2
    BY <2>1
  <2> QED BY <2>2, HalfwordOf, Zenon
<1>2. low \in Int /\ top \in Int /\ low1 \in Int /\ top1 \in Int
  BY <1>1
<1> HIDE DEF low, top, low1, top1
<1>3. CASE kind = "THUMB"
  <2>1. d = SubSeq(<<low, top, low1, top1>>, 1, 2)
    BY <1>3 DEF Stored, Bytes, low, top, low1, top1
  <2>2. /\ d \in Seq(Int) /\ Len(d) = 2 /\ d[1] = low /\ d[2] = top
    <3> HIDE DEF d
    <3>1. <<low, top, low1, top1>> \in Seq(Int) /\ Len(<<low, top, low1, top1>>) = 4
      BY <1>2
    <3> QED BY <1>2, <2>1, <3>1
  <2> HIDE DEF d
  <2> QED BY <1>3, <2>2 DEF InsnSize, d, low, top
<1>4. CASE kind = "THUMB2"
  <2>1. d = <<low1, top1, low, top>>
    BY <1>4 DEF Stored, Bytes, thumb2_swap_halfwords, low, top, low1, top1
  <2>2. d \in Seq(Int) /\ Len(d) = 4 /\ d[1] = low1 /\ d[2] = top1 /\ d[3] = low /\ d[4] = top
    <3> HIDE DEF d
    <3> QED BY <1>2, <2>1
  <2> HIDE DEF d
  <2> QED BY <1>4, <2>2 DEF InsnSize, d, low, top, low1, top1
<1>5. CASE kind \in {"ARM", "A64"}
  <2>1. d = <<low, top, low1, top1>>
    BY <1>5 DEF Stored, Bytes, low, top, low1, top1
  <2>2. d \in Seq(Int) /\ Len(d) = 4 /\ d[1] = low /\ d[2] = top /\ d[3] = low1 /\ d[4] = top1
    <3> HIDE DEF d
    <3> QED BY <1>2, <2>1
  <2> HIDE DEF d
  <2> QED BY <1>5, <2>2 DEF InsnSize, d, low, top, low1, top1
<1> QED BY <1>3, <1>4, <1>5 DEF IsInsn

\* patch_read_insn of an instruction of four bytes
LEMMA LongRead ==
  ASSUME NEW m, NEW address, NEW kind, kind # "THUMB", Len(mem_read(m, address, 4)) = 4
  PROVE  patch_read_insn(m, address, kind)
           = [ok |-> TRUE, kind |-> kind,
              i |-> IF kind = "THUMB2" THEN thumb2_swap_halfwords(Unbytes(mem_read(m, address, 4)))
                    ELSE Unbytes(mem_read(m, address, 4))]
<1> DEFINE size == IF kind = "THUMB" THEN 2 ELSE 4
           got == mem_read(m, address, size)
           i == IF size = 2 THEN <<0, got[1] + 256 * got[2]>> ELSE Unbytes(got)
<1>1. size = 4 /\ 4 # 2
  OBVIOUS
<1>2. patch_read_insn(m, address, kind)
        = IF Len(got) # size THEN Unreadable
          ELSE [ok |-> TRUE, kind |-> kind,
                i |-> IF kind = "THUMB2" THEN thumb2_swap_halfwords(i) ELSE i]
  BY DEF patch_read_insn
<1> HIDE DEF size
<1>3. got = mem_read(m, address, 4) /\ i = Unbytes(got)
  BY <1>1
<1> HIDE DEF i
<1> QED BY <1>1, <1>2, <1>3, Zenon

\* An instruction that was written reads back as itself, and its kind is
\* detected (patch_insn and patch_read_insn_detect_kind of both builds).
THEOREM PatchIsRead ==
  ASSUME NEW Dom \in SUBSET Int, NEW mem, NEW m, NEW address \in Int, NEW kind, NEW i,
         IsInsn(kind, i),
         Holds(m, mem, Dom, address, Stored(kind, i), InsnSize(kind)),
         Span(address, InsnSize(kind)) \subseteq Dom
  PROVE  patch_read_insn_detect_kind(m, address, IF kind \in {"ARM", "A64"} THEN kind ELSE "THUMB")
           = [ok |-> TRUE, kind |-> kind, i |-> i]
<1> DEFINE d == Stored(kind, i)
           two == mem_read(m, address, 2)
           four == mem_read(m, address, 4)
<1>1. d \in Seq(Int) /\ Len(d) = InsnSize(kind) /\ InsnSize(kind) \in {2, 4}
  BY StoredIs DEF InsnSize
<1>2. \A n \in 0..InsnSize(kind) : Prefix(mem_read(m, address, n), d, n)
  <2> HIDE DEF d
  <2>1. Holds(m, mem, Dom, address, d, Len(d)) /\ Span(address, Len(d)) \subseteq Dom
    BY <1>1, Zenon DEF d
  <2> QED BY <1>1, <2>1, ReadsBack
<1>3. PICK i1 \in Halfword, i2 \in Halfword : i = <<i1, i2>>
  BY Zenon DEF IsInsn
<1>4. i[1] = i1 /\ i[2] = i2
  BY <1>3
<1>5. Len(two) = 2 /\ two[1] = d[1] /\ two[2] = d[2]
  <2>1. 2 \in 0..InsnSize(kind) /\ 1 \in 1..2 /\ 2 \in 1..2
    BY <1>1
  <2> HIDE DEF d
  <2> QED BY <1>2, <2>1, Zenon DEF Prefix
<1>6. kind # "THUMB" => Len(four) = 4 /\ four[1] = d[1] /\ four[2] = d[2] /\ four[3] = d[3] /\ four[4] = d[4]
  <2>1. kind # "THUMB" => 4 \in 0..InsnSize(kind)
    BY DEF InsnSize
  <2>2. 1 \in 1..4 /\ 2 \in 1..4 /\ 3 \in 1..4 /\ 4 \in 1..4
    OBVIOUS
  <2> HIDE DEF d
  <2> QED BY <1>2, <2>1, <2>2, Zenon DEF Prefix
<1>7. (i1 % 256) + 256 * (i1 \div 256) = i1 /\ (i2 % 256) + 256 * (i2 \div 256) = i2
  BY HalfwordOf
<1> HIDE DEF two, four
<1>8. /\ kind = "THUMB" => d[1] = i2 % 256 /\ d[2] = i2 \div 256
      /\ kind = "THUMB2" => /\ d[1] = i1 % 256 /\ d[2] = i1 \div 256
                            /\ d[3] = i2 % 256 /\ d[4] = i2 \div 256
      /\ kind \in {"ARM", "A64"} => /\ d[1] = i2 % 256 /\ d[2] = i2 \div 256
                                    /\ d[3] = i1 % 256 /\ d[4] = i1 \div 256
  BY <1>4, StoredIs
<1> HIDE DEF d
<1>9. CASE kind \in {"ARM", "A64"}
  <2>0. kind # "THUMB" /\ kind # "THUMB2"
    BY <1>9
  <2>1. four[1] + 256 * four[2] = i2 /\ four[3] + 256 * four[4] = i1 /\ Len(four) = 4
    BY <1>6, <1>7, <1>8, <1>9, <2>0
  <2>2. Unbytes(four) = i
    BY <1>3, <2>1 DEF Unbytes
  <2>3. patch_read_insn(m, address, kind) = [ok |-> TRUE, kind |-> kind, i |-> i]
    BY <2>0, <2>1, <2>2, LongRead, Zenon DEF four
  <2> QED BY <1>9, <2>3, Zenon DEF patch_read_insn_detect_kind
<1>10. CASE kind = "THUMB"
  <2>1. two[1] + 256 * two[2] = i2 /\ i1 = 0
    <3>1. i1 = 0
      BY <1>4, <1>10, Zenon DEF IsInsn, patch_check_insn
    <3> QED BY <1>5, <1>7, <1>8, <1>10, <3>1
  <2>2. patch_read_insn(m, address, "THUMB") = [ok |-> TRUE, kind |-> "THUMB", i |-> i]
    BY <1>3, <1>5, <2>1 DEF patch_read_insn, two
  <2>3. ~is_thumb2_halfword(i2)
    BY <1>4, <1>10, Zenon DEF IsInsn
  <2>4. patch_read_insn(m, address, "THUMB").i = i
    BY <2>2
  <2>5. "THUMB" \notin {"ARM", "A64"}
    OBVIOUS
  <2>6. patch_read_insn_detect_kind(m, address, "THUMB") = patch_read_insn(m, address, "THUMB")
    BY <1>4, <2>3, <2>4, <2>5, Zenon DEF patch_read_insn_detect_kind
  <2> QED BY <1>10, <2>2, <2>5, <2>6, Zenon
<1>11. CASE kind = "THUMB2"
  <2>0. kind # "THUMB" /\ kind \notin {"ARM", "A64"} /\ "THUMB" \notin {"ARM", "A64"}
    BY <1>11
  <2>1. two[1] + 256 * two[2] = i1 /\ Len(four) = 4
        /\ four[1] + 256 * four[2] = i1 /\ four[3] + 256 * four[4] = i2
    BY <1>5, <1>6, <1>7, <1>8, <1>11, <2>0
  <2>2. patch_read_insn(m, address, "THUMB") = [ok |-> TRUE, kind |-> "THUMB", i |-> <<0, i1>>]
    BY <1>5, <2>1 DEF patch_read_insn, two
  <2>3. is_thumb2_halfword(i1)
    <3>1. kind = "THUMB2" /\ kind # "THUMB" /\ kind \notin {"ARM", "A64"}
      BY <1>11, <2>0
    <3> QED BY <1>4, <3>1, Zenon DEF IsInsn, patch_check_insn
  <2>4. thumb2_swap_halfwords(Unbytes(four)) = i
    BY <1>3, <2>1 DEF Unbytes, thumb2_swap_halfwords
  <2>5. patch_read_insn(m, address, kind) = [ok |-> TRUE, kind |-> kind, i |-> i]
    BY <1>11, <2>0, <2>1, <2>4, LongRead, Zenon DEF four
  <2>6. patch_read_insn(m, address, "THUMB").i[2] = i1 /\ patch_read_insn(m, address, "THUMB").ok = TRUE
    BY <2>2
  <2>7. patch_read_insn_detect_kind(m, address, "THUMB") = patch_read_insn(m, address, "THUMB2")
    BY <2>0, <2>3, <2>6, Zenon DEF patch_read_insn_detect_kind
  <2> QED BY <1>11, <2>0, <2>5, <2>7, Zenon
<1> QED BY <1>9, <1>10, <1>11 DEF IsInsn
\* The memories among the inputs
MemoryInputs ==
    in.test \in {"write", "patch"} =>
        /\ in.from \in Int /\ in.to \in Int /\ in.address \in Int /\ in.word \in {4, 8}
        /\ in.test = "write" => in.data \in Seq(Int)
        /\ in.test = "patch" => IsInsn(in.kind, in.i)

\* The breakpoints of all kinds are instructions of their kind, and so is the
\* additional one.
LEMMA Breakpoints ==
  /\ \A k \in {"ARM", "THUMB", "THUMB2"} : IsInsn(k, get_breakpoint_insn(k))
  /\ IsInsn("THUMB2", <<\hE812, \h1234>>)
  /\ IsInsn("A64", get_breakpoint_insn_arm64("A64"))
<1>1. ASSUME NEW i1 \in Halfword, NEW i2 \in Halfword PROVE <<i1, i2>>[1] = i1 /\ <<i1, i2>>[2] = i2
  OBVIOUS
<1>2. ASSUME NEW kind \in {"ARM", "THUMB", "THUMB2", "A64"}, NEW i1 \in Halfword, NEW i2 \in Halfword,
             kind = "THUMB" => i1 = 0 /\ ~is_thumb2_halfword(i2),
             kind = "THUMB2" => is_thumb2_halfword(i1)
      PROVE  IsInsn(kind, <<i1, i2>>)
  <2> DEFINE i == <<i1, i2>>
  <2>1. i[1] = i1 /\ i[2] = i2
    OBVIOUS
  <2>2. i = <<i1, i2>>
    OBVIOUS
  <2> HIDE DEF i
  <2>3. patch_check_insn(kind, i)
    <3>1. CASE kind = "THUMB"
      BY <1>2, <2>1, <3>1, Zenon DEF patch_check_insn
    <3>2. CASE kind = "THUMB2"
      <4>1. "THUMB2" # "THUMB" /\ "THUMB2" \notin {"ARM", "A64"}
        OBVIOUS
      <4> QED BY <1>2, <2>1, <3>2, <4>1, Zenon DEF patch_check_insn
    <3>3. CASE kind \in {"ARM", "A64"}
      <4>1. kind # "THUMB" /\ kind # "THUMB2"
        BY <3>3
      <4> QED BY <3>3, <4>1, Zenon DEF patch_check_insn
    <3> QED BY <3>1, <3>2, <3>3
  <2>4. IsInsn(kind, i)
    BY <1>2, <2>1, <2>2, <2>3, Zenon DEF IsInsn
  <2> QED BY <2>2, <2>4, Zenon
<1>3. IsInsn("THUMB2", <<\hE812, \h1234>>)
  <2>1. \hE812 \in Halfword /\ \h1234 \in Halfword /\ is_thumb2_halfword(\hE812)
    BY DEF Halfword, is_thumb2_halfword
  <2> QED BY <1>2, <2>1
<1>4. IsInsn("A64", get_breakpoint_insn_arm64("A64"))
  <2>1. \hD420 \in Halfword /\ 0 \in Halfword
    BY DEF Halfword
  <2>2. get_breakpoint_insn_arm64("A64") = <<\hD420, 0>>
    BY DEF get_breakpoint_insn_arm64
  <2> QED BY <1>2, <2>1, <2>2
<1>5. IsInsn("ARM", get_breakpoint_insn("ARM"))
  <2>1. \hE120 \in Halfword /\ \h0070 \in Halfword
    BY DEF Halfword
  <2>2. get_breakpoint_insn("ARM") = <<\hE120, \h0070>>
    BY DEF get_breakpoint_insn
  <2> QED BY <1>2, <2>1, <2>2
<1>6. IsInsn("THUMB", get_breakpoint_insn("THUMB"))
  <2>1. 0 \in Halfword /\ \hDE00 \in Halfword /\ ~is_thumb2_halfword(\hDE00)
    BY DEF Halfword, is_thumb2_halfword
  <2>2. get_breakpoint_insn("THUMB") = <<0, \hDE00>>
    BY DEF get_breakpoint_insn
  <2> QED BY <1>2, <2>1, <2>2
<1>7. IsInsn("THUMB2", get_breakpoint_insn("THUMB2"))
  <2>1. \hF7F0 \in Halfword /\ \hA000 \in Halfword /\ is_thumb2_halfword(\hF7F0)
    BY DEF Halfword, is_thumb2_halfword
  <2>2. get_breakpoint_insn("THUMB2") = <<\hF7F0, \hA000>>
    BY DEF get_breakpoint_insn
  <2> QED BY <1>2, <2>1, <2>2
<1> QED BY <1>3, <1>4, <1>5, <1>6, <1>7
\* They are what MemoryInput makes.
LEMMA MemoryInputsHold == Spec => []MemoryInputs
<1>1. Init => MemoryInputs
  BY DEF Init, None, MemoryInputs
<1>2. MemoryInputs /\ [Next]_in => MemoryInputs'
  <2> SUFFICES ASSUME MemoryInputs, [Next]_in PROVE MemoryInputs'
    OBVIOUS
  <2>1. CASE UNCHANGED in
    BY <2>1, Zenon DEF MemoryInputs
  <2>2. CASE Next
    <3>1. CASE in'.test \notin {"write", "patch"}
      BY <3>1, Zenon DEF MemoryInputs
    <3>2. CASE in'.test \in {"write", "patch"} /\ MemoryInput
      <4>1. PICK from \in {16, 20}, to \in 22..32, address \in 16..27, word \in {4, 8} :
              \/ \E size \in 0..6 :
                    in' = [test |-> "write", from |-> from, to |-> to, address |-> address,
                           word |-> word, data |-> [n \in 1..size |-> 100 + n]]
              \/ \E insn \in Patches(word) :
                    /\ arm_check_align(address, insn[1])
                    /\ in' = [test |-> "patch", from |-> from, to |-> to, address |-> address,
                              word |-> word, kind |-> insn[1], i |-> insn[2]]
        BY <3>2, Zenon DEF MemoryInput
      <4>2. from \in Int /\ to \in Int /\ address \in Int
        OBVIOUS
      <4>3. CASE \E size \in 0..6 :
                    in' = [test |-> "write", from |-> from, to |-> to, address |-> address,
                           word |-> word, data |-> [n \in 1..size |-> 100 + n]]
        <5>1. PICK size \in 0..6 :
                    in' = [test |-> "write", from |-> from, to |-> to, address |-> address,
                           word |-> word, data |-> [n \in 1..size |-> 100 + n]]
          BY <4>3
        <5> DEFINE d == [n \in 1..size |-> 100 + n]
        <5>2. d \in Seq(Int)
          OBVIOUS
        <5> HIDE DEF d
        <5>3. /\ in'.test = "write" /\ in'.from = from /\ in'.to = to /\ in'.address = address
              /\ in'.word = word /\ in'.data = d
          BY <5>1 DEF d
        <5>4. "write" # "patch"
          OBVIOUS
        <5> QED BY <4>2, <5>2, <5>3, <5>4, Zenon DEF MemoryInputs
      <4>4. CASE \E insn \in Patches(word) :
                    /\ arm_check_align(address, insn[1])
                    /\ in' = [test |-> "patch", from |-> from, to |-> to, address |-> address,
                              word |-> word, kind |-> insn[1], i |-> insn[2]]
        <5>1. PICK insn \in Patches(word) :
                    /\ arm_check_align(address, insn[1])
                    /\ in' = [test |-> "patch", from |-> from, to |-> to, address |-> address,
                              word |-> word, kind |-> insn[1], i |-> insn[2]]
          BY <4>4
        <5>2. \E k, i : insn = <<k, i>> /\ IsInsn(k, i)
          BY Breakpoints DEF Patches
        <5>3. IsInsn(insn[1], insn[2])
          <6>1. PICK k, i : insn = <<k, i>> /\ IsInsn(k, i)
            BY <5>2
          <6>2. insn[1] = k /\ insn[2] = i
            BY <6>1
          <6> QED BY <6>1, <6>2, Zenon
        <5>4. /\ in'.test = "patch" /\ in'.from = from /\ in'.to = to /\ in'.address = address
              /\ in'.word = word /\ in'.kind = insn[1] /\ in'.i = insn[2]
          BY <5>1
        <5>5. "write" # "patch"
          OBVIOUS
        <5> QED BY <4>2, <5>3, <5>4, <5>5, Zenon DEF MemoryInputs
      <4> QED BY <4>1, <4>3, <4>4
    <3> QED BY <2>2, <3>1, <3>2, Inputs
  <2> QED BY <2>1, <2>2
<1> QED BY <1>1, <1>2, PTL DEF Spec

\* mem_write and patch_insn change the bytes they report as written and no
\* others, and an instruction reads back as itself.
THEOREM WritesAreExact == Spec => []WritesExactly
<1>1. MemoryInputs => WritesExactly
  <2> SUFFICES ASSUME MemoryInputs, in.test \in {"write", "patch"} PROVE WritesExactly
    BY Zenon DEF WritesExactly
  <2> DEFINE d == IF in.test = "write" THEN in.data ELSE Stored(in.kind, in.i)
             Dom == in.from..in.to
             r == mem_write(Mapped, in.word, in.address, d)
  <2>1. /\ in.from \in Int /\ in.to \in Int /\ in.address \in Int /\ in.word \in {4, 8}
        /\ in.test = "write" => in.data \in Seq(Int)
        /\ in.test = "patch" => IsInsn(in.kind, in.i)
    BY Zenon DEF MemoryInputs
  <2>2. "write" # "patch"
    OBVIOUS
  <2>3. d \in Seq(Int) /\ WriteSize = Len(d)
    <3>1. CASE in.test = "write"
      BY <2>1, <2>2, <3>1, Zenon DEF WriteSize
    <3>2. CASE in.test = "patch"
      <4>1. Stored(in.kind, in.i) \in Seq(Int) /\ Len(Stored(in.kind, in.i)) = InsnSize(in.kind)
        BY <2>1, <3>2, StoredIs
      <4> QED BY <2>2, <3>2, <4>1, Zenon DEF WriteSize, InsnSize
    <3> QED BY <3>1, <3>2
  <2>4. Written = r
    <3>1. CASE in.test = "write"
      BY <2>2, <3>1, Zenon DEF Written
    <3>2. CASE in.test = "patch"
      <4>1. in.word = 4 \/ (in.word # 4 /\ in.word = 8)
        BY <2>1
      <4> QED BY <2>2, <3>2, <4>1, Zenon DEF Written, patch_insn, patch_insn_arm64
    <3> QED BY <3>1, <3>2
  <2>5. Dom \in SUBSET Int /\ Mapped \in [Dom -> Int] /\ DOMAIN Mapped = Dom
        /\ in.word \in Nat /\ in.word >= 4
    BY <2>1 DEF Mapped
  <2> HIDE DEF d, Dom, r
  <2>6. WritesPart(r, Mapped, Dom, in.word, in.address, d) /\ r.verified
    BY <2>1, <2>3, <2>5, WritesReported DEF r
  <2>7. /\ r.written \in 0..Len(d)
        /\ Holds(r.mem, Mapped, Dom, in.address, d, r.written)
        /\ Span(in.address, r.written) \subseteq Dom
        /\ \/ r.written = Len(d)
           \/ \E a \in Span(in.address, Len(d)) : ~(Span(4 * (a \div 4), in.word) \subseteq Dom)
    BY <2>6, Zenon DEF WritesPart
  <2>8. WordsMapped => r.written = WriteSize
    BY <2>3, <2>5, <2>7, Zenon DEF WordsMapped
  <2>9. ASSUME NEW a \in Dom, a \notin Span(in.address, r.written) PROVE r.mem[a] = Mapped[a]
    <3>1. a \in Int /\ r.written \in Int
      BY <2>3, <2>5, <2>7
    <3>2. a - in.address \notin 0..(r.written - 1)
      BY <2>1, <2>9, <3>1 DEF Span
    <3> QED BY <2>7, <3>2, Zenon DEF Holds
  <2>10. ASSUME in.test = "patch", r.written = WriteSize
         PROVE  /\ patch_check_insn(in.kind, in.i)
                /\ patch_read_insn_detect_kind(r.mem, in.address,
                       IF in.kind \in {"ARM", "A64"} THEN in.kind ELSE "THUMB")
                     = [ok |-> TRUE, kind |-> in.kind, i |-> in.i]
    <3>1. IsInsn(in.kind, in.i) /\ d = Stored(in.kind, in.i)
      BY <2>1, <2>2, <2>10, Zenon DEF d
    <3>2. r.written = InsnSize(in.kind)
      BY <2>2, <2>10, Zenon DEF WriteSize, InsnSize
    <3>3. Holds(r.mem, Mapped, Dom, in.address, Stored(in.kind, in.i), InsnSize(in.kind))
          /\ Span(in.address, InsnSize(in.kind)) \subseteq Dom
      BY <2>7, <3>1, <3>2, Zenon
    <3>4. patch_check_insn(in.kind, in.i)
      BY <3>1, Zenon DEF IsInsn
    <3> QED BY <2>1, <2>5, <3>1, <3>3, <3>4, PatchIsRead
  <2> QED BY <2>4, <2>5, <2>6, <2>8, <2>9, <2>10, Zenon DEF WritesExactly, patch_read_insn_detect_kind_arm64
<1> QED BY <1>1, MemoryInputsHold, PTL

------------------------------------------------------------------------------
(* Calls                                                                    *)

IsMachine(m) ==
    /\ DOMAIN m = {"dead", "slave", "signo", "regs", "text", "fate", "statuses", "delivered"}
    /\ m.dead \in BOOLEAN /\ m.fate \in Nat /\ m.statuses \in Seq(Statuses)

\* m becomes n: unless the thread dies, with these flags, registers and code.
Becomes(n, m, slave, regs, text) ==
    /\ IsMachine(n) /\ n.statuses = m.statuses
    /\ m.dead => n.dead
    /\ ~n.dead => n.slave = slave /\ n.regs = regs /\ n.text = text

\* Requests
LEMMA Requested ==
  ASSUME NEW m, IsMachine(m)
  PROVE  Becomes(C!Request(m), m, m.slave, m.regs, m.text)
<1>1. CASE m.dead \/ m.fate = 0
  <2> DEFINE n == [m EXCEPT !.dead = TRUE]
  <2>1. C!Request(m) = n
    BY <1>1 DEF C!Request
  <2>2. /\ DOMAIN n = DOMAIN m /\ n.dead = TRUE /\ n.statuses = m.statuses /\ n.fate = m.fate
    BY DEF IsMachine
  <2> HIDE DEF n
  <2> QED BY <2>1, <2>2 DEF IsMachine, Becomes
<1>2. CASE ~(m.dead \/ m.fate = 0)
  <2> DEFINE n == [m EXCEPT !.fate = @ - 1]
  <2>1. C!Request(m) = n
    BY <1>2 DEF C!Request
  <2>2. /\ DOMAIN n = DOMAIN m /\ n.dead = m.dead /\ n.statuses = m.statuses
        /\ n.fate = m.fate - 1 /\ n.slave = m.slave /\ n.regs = m.regs /\ n.text = m.text
    BY DEF IsMachine
  <2>3. m.fate - 1 \in Nat
    BY <1>2 DEF IsMachine
  <2> HIDE DEF n
  <2> QED BY <2>1, <2>2, <2>3 DEF IsMachine, Becomes
<1> QED BY <1>1, <1>2

\* Reading the registers changes nothing.
LEMMA GetRegs ==
  ASSUME NEW m, IsMachine(m)
  PROVE  Becomes(C!thread_get_regs(m), m, m.slave, m.regs, m.text)
BY Requested, Zenon DEF C!thread_get_regs

\* Writing the registers changes nothing else.
LEMMA SetRegs ==
  ASSUME NEW m, IsMachine(m), NEW regs
  PROVE  Becomes(C!thread_set_regs(m, regs), m, m.slave, regs, m.text)
<1> DEFINE n == C!Request(m)
           k == [n EXCEPT !.regs = regs]
<1>1. Becomes(n, m, m.slave, m.regs, m.text)
  BY Requested
<1>2. C!thread_set_regs(m, regs) = IF n.dead THEN n ELSE k
  BY DEF C!thread_set_regs
<1> HIDE DEF n
<1>3. /\ DOMAIN k = DOMAIN n /\ k.dead = n.dead /\ k.statuses = n.statuses /\ k.fate = n.fate
      /\ k.slave = n.slave /\ k.regs = regs /\ k.text = n.text
  BY <1>1 DEF IsMachine, Becomes
<1> HIDE DEF k
<1> QED BY <1>1, <1>2, <1>3 DEF IsMachine, Becomes

\* Writing code changes nothing else.
LEMMA TextPut ==
  ASSUME NEW m, IsMachine(m), NEW text
  PROVE  Becomes(C!PutText(m, text), m, m.slave, m.regs, text)
<1> DEFINE n == C!Request(m)
           k == [n EXCEPT !.text = text]
<1>1. Becomes(n, m, m.slave, m.regs, m.text)
  BY Requested
<1>2. C!PutText(m, text) = IF n.dead THEN n ELSE k
  BY DEF C!PutText
<1> HIDE DEF n
<1>3. /\ DOMAIN k = DOMAIN n /\ k.dead = n.dead /\ k.statuses = n.statuses /\ k.fate = n.fate
      /\ k.slave = n.slave /\ k.regs = n.regs /\ k.text = text
  BY <1>1 DEF IsMachine, Becomes
<1> HIDE DEF k
<1> QED BY <1>1, <1>2, <1>3 DEF IsMachine, Becomes

\* Continuing a thread changes neither its registers nor its code.
LEMMA Continued ==
  ASSUME NEW m, IsMachine(m)
  PROVE  Becomes(C!thread_continue(m), m, m.slave, m.regs, m.text)
<1> DEFINE n == C!Request(m)
           d == IF m.signo = C!NoSignal THEN n.delivered ELSE Append(n.delivered, m.signo)
           k == [n EXCEPT !.signo = C!NoSignal, !.delivered = d]
<1>1. Becomes(n, m, m.slave, m.regs, m.text)
  BY Requested
<1>2. C!thread_continue(m) = IF n.dead THEN n ELSE k
  BY DEF C!thread_continue
<1> HIDE DEF n, d
<1>3. /\ DOMAIN k = DOMAIN n /\ k.dead = n.dead /\ k.statuses = n.statuses /\ k.fate = n.fate
      /\ k.slave = n.slave /\ k.regs = n.regs /\ k.text = n.text
  BY <1>1 DEF IsMachine, Becomes
<1> HIDE DEF k
<1> QED BY <1>1, <1>2, <1>3 DEF IsMachine, Becomes

\* Flags of the server
LEMMA Flagged ==
  ASSUME NEW m, IsMachine(m), NEW slave
  PROVE  /\ Becomes([m EXCEPT !.slave = slave], m, slave, m.regs, m.text)
         /\ [m EXCEPT !.slave = slave].dead = m.dead
<1> DEFINE k == [m EXCEPT !.slave = slave]
<1>1. /\ DOMAIN k = DOMAIN m /\ k.dead = m.dead /\ k.statuses = m.statuses /\ k.fate = m.fate
      /\ k.slave = slave /\ k.regs = m.regs /\ k.text = m.text
  BY DEF IsMachine
<1> HIDE DEF k
<1>2. Becomes(k, m, slave, m.regs, m.text) /\ k.dead = m.dead
  BY <1>1 DEF IsMachine, Becomes
<1> QED BY <1>2 DEF k

\* WaitUntil, for the set of the statuses that end it
Waited(m, ends, deliver) ==
    LET s == m.statuses
        n == C!First(ends)
        passed == [k \in 1..(n - 1) |-> s[k].signo]
    IN  IF m.dead \/ ends = {} \/ n - 1 > m.fate \/ s[n].signo = "DEAD"
        THEN [m EXCEPT !.dead = TRUE]
        ELSE [m EXCEPT !.fate = @ - (n - 1), !.statuses = SubSeq(s, n + 1, Len(s)),
                       !.signo = s[n].signo, !.regs = s[n].regs,
                       !.delivered = IF deliver THEN @ \o passed ELSE @]

\* The thread is dead, or stopped by the first of those statuses.
Stops(n, m, ends) ==
    /\ IsMachine(n)
    /\ m.dead => n.dead
    /\ ~n.dead =>
         /\ n.slave = m.slave /\ n.text = m.text
         /\ \E k \in ends : /\ \A j \in ends : k <= j
                            /\ m.statuses[k].signo # "DEAD"
                            /\ n.regs = m.statuses[k].regs /\ n.signo = m.statuses[k].signo

\* Waiting ends at the first status that the loop waits for, or the thread is dead.
LEMMA WaitStops ==
  ASSUME NEW m, IsMachine(m), NEW ends \in SUBSET (1..Len(m.statuses)), NEW deliver
  PROVE  Stops(Waited(m, ends, deliver), m, ends)
<1> DEFINE s == m.statuses
           k == C!First(ends)
           passed == [j \in 1..(k - 1) |-> s[j].signo]
           dead == m.dead \/ ends = {} \/ k - 1 > m.fate \/ s[k].signo = "DEAD"
<1>1. CASE dead
  <2> DEFINE n == [m EXCEPT !.dead = TRUE]
  <2>1. Waited(m, ends, deliver) = n
    BY <1>1 DEF Waited
  <2>2. /\ DOMAIN n = DOMAIN m /\ n.dead = TRUE /\ n.statuses = m.statuses /\ n.fate = m.fate
    BY DEF IsMachine
  <2> HIDE DEF n
  <2> QED BY <2>1, <2>2 DEF IsMachine, Stops
<1>2. CASE ~dead
  <2>0. s \in Seq(Statuses) /\ Len(s) \in Nat
    BY DEF IsMachine
  <2>1. k \in ends /\ \A j \in ends : k <= j
    <3>1. ends # {} /\ ends \in SUBSET Nat
      BY <1>2, <2>0
    <3>2. \E n \in ends : \A j \in ends : n <= j
      BY <3>1, Least
    <3> QED BY <3>2 DEF C!First
  <2> DEFINE d == IF deliver THEN m.delivered \o passed ELSE m.delivered
             rest == SubSeq(s, k + 1, Len(s))
             n == [m EXCEPT !.fate = @ - (k - 1), !.statuses = rest,
                            !.signo = s[k].signo, !.regs = s[k].regs, !.delivered = d]
  <2>2. Waited(m, ends, deliver) = n
    BY <1>2 DEF Waited
  <2>3. rest \in Seq(Statuses)
    <3>1. k \in 1..Len(s)
      BY <2>1
    <3> HIDE DEF s, k
    <3>2. k + 1 \in Int /\ Len(s) \in Int
      BY <2>0, <3>1
    <3>3. \A i \in (k + 1)..Len(s) : s[i] \in Statuses
      BY <2>0, <3>1
    <3> QED BY <2>0, <3>2, <3>3, SubSeqProperties
  <2>4. m.fate - (k - 1) \in Nat
    <3>1. k \in Nat /\ k - 1 <= m.fate /\ m.fate \in Nat /\ k >= 1
      <4>1. k \in 1..Len(s)
        BY <2>1
      <4>2. ~(k - 1 > m.fate) /\ m.fate \in Nat
        BY <1>2 DEF IsMachine
      <4> HIDE DEF k, s
      <4> QED BY <2>0, <4>1, <4>2
    <3> HIDE DEF k
    <3> QED BY <3>1
  <2>5. ~m.dead /\ s[k].signo # "DEAD"
    BY <1>2
  <2> HIDE DEF k, d, rest
  <2>6. /\ DOMAIN n = DOMAIN m /\ n.dead = m.dead /\ n.statuses = rest
        /\ n.fate = m.fate - (k - 1) /\ n.slave = m.slave /\ n.regs = s[k].regs
        /\ n.text = m.text /\ n.signo = s[k].signo
    BY DEF IsMachine
  <2> HIDE DEF n
  <2>7. IsMachine(n) /\ n.slave = m.slave /\ n.text = m.text /\ n.regs = s[k].regs
        /\ n.signo = s[k].signo
    BY <2>3, <2>4, <2>6 DEF IsMachine
  <2> QED BY <2>1, <2>2, <2>5, <2>7 DEF Stops
<1> QED BY <1>1, <1>2

\* The function whose run these statuses tell returned: nothing but SIGSTOP
\* came before.
ReturnsIn(s) ==
    \E n \in 1..Len(s) :
        /\ s[n].signo = "SIGSEGV" /\ s[n].regs.pc = 0
        /\ \A k \in 1..(n - 1) : s[k].signo = "SIGSTOP"

\* What a call in the machine m promises of its result r
CallOf(r, m) ==
    /\ IsMachine(r.m)
    /\ m.dead => r.m.dead
    /\ ~r.m.dead => ~r.m.slave /\ r.m.regs = m.regs /\ r.m.text = m.text
    /\ ~r.m.dead /\ r.ret => ReturnsIn(m.statuses)

\* Leaving a call without the registers of its own
LEMMA LeavesCall ==
  ASSUME NEW m, IsMachine(m), NEW n, IsMachine(n),
         m.dead => n.dead, ~n.dead => n.regs = m.regs /\ n.text = m.text
  PROVE  CallOf(C!Out(n), m)
<1> DEFINE k == [n EXCEPT !.slave = FALSE]
<1>1. /\ Becomes(k, n, FALSE, n.regs, n.text) /\ k.dead = n.dead
  BY Flagged
<1>2. C!Out(n) = [m |-> k, ret |-> FALSE]
  BY DEF C!Out, C!Result
<1> HIDE DEF k
<1>3. C!Out(n).m = k /\ C!Out(n).ret = FALSE
  BY <1>2
<1> QED BY <1>1, <1>3 DEF Becomes, CallOf

\* Leaving a call by the restoration of the registers
LEMMA RestoresCall ==
  ASSUME NEW m, IsMachine(m), NEW n, IsMachine(n), NEW ret \in BOOLEAN,
         m.dead => n.dead, ~n.dead => n.text = m.text,
         ret => ReturnsIn(m.statuses)
  PROVE  CallOf(C!Restore(n, m.regs, ret), m)
<1> DEFINE j == C!thread_set_regs(n, m.regs)
           k == [j EXCEPT !.slave = FALSE]
<1>1. Becomes(j, n, n.slave, m.regs, n.text)
  BY SetRegs
<1>2. IsMachine(j)
  BY <1>1 DEF Becomes
<1>3. C!Restore(n, m.regs, ret) = [m |-> k, ret |-> ret /\ ~j.dead]
  BY Zenon DEF C!Restore, C!Result
<1> HIDE DEF j
<1>4. /\ Becomes(k, j, FALSE, j.regs, j.text) /\ k.dead = j.dead
  BY <1>2, Flagged
<1> HIDE DEF k
<1>5. C!Restore(n, m.regs, ret).m = k /\ C!Restore(n, m.regs, ret).ret = (ret /\ ~j.dead)
  BY <1>3
<1> QED BY <1>1, <1>4, <1>5 DEF Becomes, CallOf

\* The statuses that end the wait for a function
EndsOf(s) == {n \in 1..Len(s) : s[n].signo = "DEAD" \/ s[n].signo # "SIGSTOP"}

\* A function that ended with SIGSEGV at address 0 returned.
LEMMA EndsReturned ==
  ASSUME NEW s \in Seq(Statuses), NEW k \in EndsOf(s), \A j \in EndsOf(s) : k <= j,
         s[k].signo = "SIGSEGV", s[k].regs.pc = 0
  PROVE  ReturnsIn(s)
<1>0. Len(s) \in Nat /\ k \in 1..Len(s)
  BY DEF EndsOf
<1>1. ASSUME NEW j \in 1..(k - 1), s[j].signo # "SIGSTOP" PROVE FALSE
  <2>1. j \in 1..Len(s) /\ ~(k <= j)
    BY <1>0
  <2>2. j \in EndsOf(s)
    BY <1>1, <2>1 DEF EndsOf
  <2> QED BY <2>1, <2>2
<1>2. \A j \in 1..(k - 1) : s[j].signo = "SIGSTOP"
  BY <1>1
<1> QED BY <1>0, <1>2 DEF ReturnsIn

\* From the registers of the call on
LEMMA FunctionRuns ==
  ASSUME NEW m, IsMachine(m), NEW regs
  PROVE  CallOf(C!RunFunction(m, m.regs, regs), m)
<1> DEFINE m1 == C!thread_set_regs(m, regs)
           m2 == C!thread_continue(m1)
           ends == EndsOf(m.statuses)
           w == Waited(m2, ends, FALSE)
           m3 == [w EXCEPT !.signo = C!NoSignal]
           m4 == C!thread_get_regs(m3)
           ok == w.signo = "SIGSEGV" /\ m3.regs.pc = 0
<1>1. Becomes(m1, m, m.slave, regs, m.text) /\ IsMachine(m1)
  BY SetRegs DEF Becomes
<1>2. Becomes(m2, m1, m1.slave, m1.regs, m1.text) /\ IsMachine(m2)
  BY <1>1, Continued DEF Becomes
<1>3. m2.statuses = m.statuses
  BY <1>1, <1>2 DEF Becomes
<1>4. ends \in SUBSET (1..Len(m2.statuses))
  BY <1>3 DEF EndsOf
<1>5. C!WaitUntil(m2, LAMBDA s : s.signo # "SIGSTOP", FALSE) = w
  BY <1>3, Zenon DEF C!WaitUntil, Waited, EndsOf
<1>6. C!RunFunction(m, m.regs, regs) =
         IF m1.dead \/ m3.dead THEN C!Out(m3)
         ELSE IF m4.dead THEN C!Restore(m4, m.regs, FALSE)
         ELSE C!Restore(m4, m.regs, ok)
  BY <1>5, Zenon DEF C!RunFunction
<1> HIDE DEF m1, m2, ends
<1>7. Stops(w, m2, ends)
  BY <1>2, <1>4, WaitStops
<1> HIDE DEF w
<1>8. IsMachine(w) /\ (m2.dead => w.dead)
  BY <1>7 DEF Stops
<1>9. IsMachine(m3) /\ m3.dead = w.dead /\ m3.regs = w.regs /\ m3.text = w.text
  <2>1. DOMAIN m3 = DOMAIN w /\ m3.dead = w.dead /\ m3.regs = w.regs /\ m3.text = w.text
        /\ m3.fate = w.fate /\ m3.statuses = w.statuses
    BY <1>8 DEF IsMachine
  <2> HIDE DEF m3
  <2> QED BY <1>8, <2>1 DEF IsMachine
<1>10. /\ m.dead => m3.dead
       /\ m1.dead => m3.dead
       /\ ~m3.dead => m3.text = m.text /\ (ok => ReturnsIn(m.statuses))
  <2>1. /\ m.dead => m1.dead
        /\ m1.dead => m2.dead
        /\ m2.dead => m3.dead
    BY <1>1, <1>2, <1>8, <1>9 DEF Becomes
  <2>2. ASSUME ~m3.dead PROVE m3.text = m.text
    <3>1. ~m2.dead /\ ~m1.dead /\ w.text = m2.text
      BY <1>7, <1>9, <2>1, <2>2 DEF Stops
    <3> QED BY <1>1, <1>2, <1>9, <3>1 DEF Becomes
  <2>3. ASSUME ~m3.dead, ok PROVE ReturnsIn(m.statuses)
    <3>1. PICK k \in ends : /\ \A j \in ends : k <= j
                           /\ w.regs = m.statuses[k].regs /\ w.signo = m.statuses[k].signo
      BY <1>3, <1>7, <1>9, <2>3 DEF Stops
    <3>2. m.statuses[k].signo = "SIGSEGV" /\ m.statuses[k].regs.pc = 0
      BY <1>9, <2>3, <3>1
    <3>3. m.statuses \in Seq(Statuses)
      BY DEF IsMachine
    <3> QED BY <3>1, <3>2, <3>3, EndsReturned DEF ends
  <2> QED BY <2>1, <2>2, <2>3
<1> HIDE DEF m3
<1>11. Becomes(m4, m3, m3.slave, m3.regs, m3.text) /\ IsMachine(m4)
  BY <1>9, GetRegs DEF Becomes
<1> HIDE DEF m4
<1>12. ok \in BOOLEAN
  OBVIOUS
<1> HIDE DEF ok
<1>13. CASE m1.dead \/ m3.dead
  <2>1. m3.dead
    BY <1>10, <1>13
  <2>2. CallOf(C!Out(m3), m)
    BY <1>9, <2>1, LeavesCall
  <2> QED BY <1>6, <1>13, <2>2
<1>14. CASE ~(m1.dead \/ m3.dead) /\ m4.dead
  <2>1. CallOf(C!Restore(m4, m.regs, FALSE), m)
    BY <1>11, <1>14, <1>10, RestoresCall
  <2> QED BY <1>6, <1>14, <2>1
<1>15. CASE ~(m1.dead \/ m3.dead) /\ ~m4.dead
  <2>1. m4.text = m.text /\ ~m.dead
    BY <1>10, <1>11, <1>15 DEF Becomes
  <2>2. CallOf(C!Restore(m4, m.regs, ok), m)
    BY <1>10, <1>11, <1>12, <1>15, <2>1, RestoresCall
  <2> QED BY <1>6, <1>15, <2>2
<1> QED BY <1>13, <1>14, <1>15

\* A call that starts with the registers and the code of m
LEMMA CallFrom ==
  ASSUME NEW m, NEW n, NEW slave, Becomes(n, m, slave, m.regs, m.text),
         NEW r, CallOf(r, n)
  PROVE  CallOf(r, m)
BY DEF Becomes, CallOf

\* Both builds begin a call in the same way.
LEMMA CallBegins ==
  ASSUME NEW m, IsMachine(m)
  PROVE  Becomes(C!thread_get_regs([m EXCEPT !.slave = TRUE]), m, TRUE, m.regs, m.text)
<1> DEFINE k == [m EXCEPT !.slave = TRUE]
<1>1. Becomes(k, m, TRUE, m.regs, m.text) /\ k.dead = m.dead
  BY Flagged
<1> HIDE DEF k
<1>2. IsMachine(k)
  BY <1>1 DEF Becomes
<1>3. Becomes(C!thread_get_regs(k), k, k.slave, k.regs, k.text)
  BY <1>2, GetRegs
<1>4. Becomes(C!thread_get_regs(k), m, TRUE, m.regs, m.text)
  BY <1>1, <1>3 DEF Becomes
<1> QED BY <1>4 DEF k

\* fncall_call keeps the promise, whatever is called.
LEMMA CallKeeps ==
  ASSUME NEW m, IsMachine(m), NEW address, NEW context
  PROVE  CallOf(C!fncall_call(m, address, context), m)
<1> DEFINE n == C!thread_get_regs([m EXCEPT !.slave = TRUE])
           regs == [pc |-> address, lr |-> 0, sp |-> C!Pushed(context.stack),
                    r |-> context.registers]
           stuck == context.stack # <<>> /\ ~context.pushable
           r == C!fncall_call(m, address, context)
<1>1. Becomes(n, m, TRUE, m.regs, m.text)
  BY CallBegins
<1>2. IsMachine(n)
  BY <1>1 DEF Becomes
<1>3. r = IF n.dead THEN C!Out(n)
          ELSE IF stuck THEN C!Restore(n, n.regs, FALSE)
          ELSE C!RunFunction(n, n.regs, regs)
  BY Zenon DEF C!fncall_call
<1> HIDE DEF n, regs, stuck, r
<1>4. CallOf(C!Out(n), n) /\ CallOf(C!Restore(n, n.regs, FALSE), n)
  BY <1>2, LeavesCall, RestoresCall
<1>5. CallOf(C!RunFunction(n, n.regs, regs), n)
  BY <1>2, FunctionRuns
<1>6. CallOf(r, n)
  BY <1>3, <1>4, <1>5, Zenon
<1>7. CallOf(r, m)
  BY <1>1, <1>6, CallFrom, Zenon
<1> QED BY <1>7 DEF r

\* fncall_call of the arm64 build, in either mode of the thread
LEMMA CallKeeps64 ==
  ASSUME NEW m, IsMachine(m), NEW address, NEW context, NEW mode32
  PROVE  CallOf(C!fncall_call_arm64(m, address, context, mode32), m)
<1> DEFINE n == C!thread_get_regs([m EXCEPT !.slave = TRUE])
           sp == IF mode32 THEN C!Pushed32(context.stack) ELSE C!Pushed(context.stack)
           regs == [pc |-> address, lr |-> 0, sp |-> sp, r |-> context.registers]
           stuck == context.stack # <<>> /\ ~context.pushable
           r == C!fncall_call_arm64(m, address, context, mode32)
<1>1. Becomes(n, m, TRUE, m.regs, m.text)
  BY CallBegins
<1>2. IsMachine(n)
  BY <1>1 DEF Becomes
<1>3. r = IF n.dead \/ mode32 # context.mode32 THEN C!Out(n)
          ELSE IF stuck THEN C!Restore(n, n.regs, FALSE)
          ELSE C!RunFunction(n, n.regs, regs)
  BY Zenon DEF C!fncall_call_arm64
<1> HIDE DEF n, regs, stuck, r
<1>4. CallOf(C!Out(n), n) /\ CallOf(C!Restore(n, n.regs, FALSE), n)
  BY <1>2, LeavesCall, RestoresCall
<1>5. CallOf(C!RunFunction(n, n.regs, regs), n)
  BY <1>2, FunctionRuns
<1>6. CallOf(r, n)
  BY <1>3, <1>4, <1>5, Zenon
<1>7. CallOf(r, m)
  BY <1>1, <1>6, CallFrom, Zenon
<1> QED BY <1>7 DEF r

\* A call whose result is checked for an error
LEMMA NoErrorKeeps ==
  ASSUME NEW m, NEW call, CallOf(call, m), NEW result
  PROVE  /\ CallOf(C!NoError(call, result), m)
         /\ C!NoError(call, result).ret => call.ret /\ C!fncall_get_errno(result) = 0
<1>1. /\ C!NoError(call, result).m = call.m
      /\ C!NoError(call, result).ret = (call.ret /\ C!fncall_get_errno(result) = 0)
  BY DEF C!NoError, C!Result
<1> QED BY <1>1 DEF CallOf

\* fncall_memop of both builds
LEMMA MemopKeeps ==
  ASSUME NEW m, IsMachine(m), NEW context, NEW result
  PROVE  /\ CallOf(C!fncall_memop(m, 1, context, result), m)
         /\ CallOf(C!fncall_memop_arm64(m, 1, context, result), m)
         /\ \/ C!fncall_memop(m, 1, context, result).ret
            \/ C!fncall_memop_arm64(m, 1, context, result).ret
            => C!fncall_get_errno(result) = 0
<1>1. /\ C!fncall_memop(m, 1, context, result) = C!NoError(C!fncall_call(m, 1, context), result)
      /\ C!fncall_memop_arm64(m, 1, context, result) =
           C!NoError(C!fncall_call_arm64(m, 1, context, FALSE), result)
  BY DEF C!fncall_memop, C!fncall_memop_arm64
<1>2. CallOf(C!fncall_call(m, 1, context), m) /\ CallOf(C!fncall_call_arm64(m, 1, context, FALSE), m)
  BY CallKeeps, CallKeeps64
<1> QED BY <1>1, <1>2, NoErrorKeeps, Zenon

\* fncall_call_mprotect of both builds, for any arguments
LEMMA MprotectKeeps ==
  ASSUME NEW m, IsMachine(m), NEW fn, NEW args, NEW result
  PROVE  /\ CallOf(C!fncall_call_mprotect(m, fn, args, result), m)
         /\ CallOf(C!fncall_call_mprotect_arm64(m, fn, args, result), m)
         /\ \/ C!fncall_call_mprotect(m, fn, args, result).ret
            \/ C!fncall_call_mprotect_arm64(m, fn, args, result).ret
            => C!fncall_get_errno(result) = 0
<1>1. CallOf(C!fncall_call_adbi(m, fn, args), m) /\ CallOf(C!fncall_call_adbi_arm64(m, fn, args), m)
  BY CallKeeps, CallKeeps64, Zenon DEF C!fncall_call_adbi, C!fncall_call_adbi_arm64
<1>2. /\ C!fncall_call_mprotect(m, fn, args, result) = C!NoError(C!fncall_call_adbi(m, fn, args), result)
      /\ C!fncall_call_mprotect_arm64(m, fn, args, result) =
           C!NoError(C!fncall_call_adbi_arm64(m, fn, args), result)
  BY Zenon DEF C!fncall_call_mprotect, C!fncall_call_mprotect_arm64
<1> QED BY <1>1, <1>2, NoErrorKeeps, Zenon

\* What fncall_alloc_load_call promises: the code is back only if the call
\* succeeded.
LoadOf(r, m) ==
    ~r.m.dead =>
        /\ r.m.slave => m.slave
        /\ r.m.regs = m.regs
        /\ r.ret => r.m.text = m.text /\ ReturnsIn(m.statuses)

\* Both fncall_alloc_load_call, given the call they make
LEMMA LoadKeeps ==
  ASSUME NEW m, IsMachine(m), NEW function, NEW call,
         CallOf(call, C!PutText(m, function)), NEW none
  PROVE  LoadOf(IF none \/ m.dead \/ C!PutText(m, function).dead
                THEN C!Result(C!PutText(m, function), FALSE)
                ELSE IF ~call.ret THEN call
                ELSE C!Result(C!PutText(call.m, m.text), TRUE), m)
<1> DEFINE n == C!PutText(m, function)
           k == C!PutText(call.m, m.text)
<1>1. Becomes(n, m, m.slave, m.regs, function)
  BY TextPut
<1>2. IsMachine(call.m)
  BY DEF CallOf
<1>3. Becomes(k, call.m, call.m.slave, call.m.regs, m.text)
  BY <1>2, TextPut
<1> HIDE DEF n, k
<1>4. CallOf(call, n)
  BY DEF n
<1>5. /\ C!Result(n, FALSE).m = n /\ C!Result(n, FALSE).ret = FALSE
      /\ C!Result(k, TRUE).m = k /\ C!Result(k, TRUE).ret = TRUE
  BY DEF C!Result
<1>6. LoadOf(C!Result(n, FALSE), m)
  BY <1>1, <1>5 DEF Becomes, LoadOf
<1>7. ~call.ret => LoadOf(call, m)
  BY <1>1, <1>4 DEF Becomes, CallOf, LoadOf
<1>8. call.ret => LoadOf(C!Result(k, TRUE), m)
  BY <1>1, <1>3, <1>4, <1>5 DEF Becomes, CallOf, LoadOf
<1>9. LoadOf(IF none \/ m.dead \/ n.dead THEN C!Result(n, FALSE)
             ELSE IF ~call.ret THEN call ELSE C!Result(k, TRUE), m)
  BY <1>6, <1>7, <1>8, Zenon
<1> QED BY <1>9 DEF n, k

\* fncall_alloc_load_call of both builds
LEMMA LoadCallKeeps ==
  ASSUME NEW m, IsMachine(m), NEW segments, NEW size, NEW function, NEW context
  PROVE  /\ LoadOf(C!fncall_alloc_load_call(m, segments, size, function, context), m)
         /\ LoadOf(C!fncall_alloc_load_call_arm64(m, segments, size, function, context), m)
<1> DEFINE none == C!inject_find_exec_mem(segments, size) = 0
           n == C!PutText(m, function)
           call == C!fncall_call(n, 1, context)
           call64 == C!fncall_call_arm64(n, 1, context, FALSE)
<1>1. IsMachine(n)
  BY TextPut DEF Becomes
<1>2. CallOf(call, n) /\ CallOf(call64, n)
  BY <1>1, CallKeeps, CallKeeps64
<1>3. /\ C!fncall_alloc_load_call(m, segments, size, function, context) =
           IF none \/ m.dead \/ n.dead THEN C!Result(n, FALSE)
           ELSE IF ~call.ret THEN call ELSE C!Result(C!PutText(call.m, m.text), TRUE)
      /\ C!fncall_alloc_load_call_arm64(m, segments, size, function, context) =
           IF none \/ m.dead \/ n.dead THEN C!Result(n, FALSE)
           ELSE IF ~call64.ret THEN call64 ELSE C!Result(C!PutText(call64.m, m.text), TRUE)
  BY Zenon DEF C!fncall_alloc_load_call, C!fncall_alloc_load_call_arm64
<1> HIDE DEF none, call, call64
<1> QED BY <1>2, <1>3, LoadKeeps, Zenon

\* fncall_restop: a thread that survives has its registers and code back.
LEMMA RestopKeeps ==
  ASSUME NEW m, IsMachine(m), NEW executable
  PROVE  LET r == C!fncall_restop(m, executable)
         IN  ~r.m.dead => ~r.m.slave /\ r.m.regs = m.regs /\ r.m.text = m.text
<1> DEFINE m1 == C!thread_get_regs([m EXCEPT !.slave = TRUE])
           m2 == IF executable THEN C!PutText(m1, "breakpoint") ELSE m1
           mc == C!thread_continue(m2)
           ends == {n \in 1..Len(mc.statuses) :
                       mc.statuses[n].signo = "DEAD" \/ mc.statuses[n].signo \in C!Faults}
           m3 == Waited(mc, ends, TRUE)
           ms == [m3 EXCEPT !.signo = C!NoSignal]
           mg == C!thread_get_regs(ms)
           m4 == C!thread_set_regs(mg, m1.regs)
           m5 == IF executable THEN C!PutText(m4, m.text) ELSE m4
           m6 == [m5 EXCEPT !.slave = FALSE]
           r == C!fncall_restop(m, executable)
<1>1. Becomes(m1, m, TRUE, m.regs, m.text) /\ IsMachine(m1)
  BY CallBegins DEF Becomes
<1>2. /\ IsMachine(m2) /\ (m1.dead => m2.dead)
      /\ ~executable /\ ~m2.dead => m2.text = m1.text
  <2>1. Becomes(C!PutText(m1, "breakpoint"), m1, m1.slave, m1.regs, "breakpoint")
    BY <1>1, TextPut
  <2> HIDE DEF m1
  <2> QED BY <1>1, <2>1 DEF Becomes
<1>3. Becomes(mc, m2, m2.slave, m2.regs, m2.text) /\ IsMachine(mc)
  BY <1>2, Continued DEF Becomes
<1>4. C!WaitUntil(mc, LAMBDA s : s.signo \in C!Faults, TRUE) = m3
  BY Zenon DEF C!WaitUntil, Waited
<1>5. r = IF m4.dead THEN C!Result(m4, FALSE) ELSE C!Result(m6, ~m5.dead)
  BY <1>4, Zenon DEF C!fncall_restop
<1> HIDE DEF m1, m2, mc
<1>6. Stops(m3, mc, ends)
  BY <1>3, WaitStops
<1> HIDE DEF m3
<1>7. IsMachine(m3) /\ (mc.dead => m3.dead) /\ (~m3.dead => m3.text = mc.text)
  BY <1>6 DEF Stops
<1>8. IsMachine(ms) /\ ms.dead = m3.dead /\ ms.text = m3.text
  <2>1. DOMAIN ms = DOMAIN m3 /\ ms.dead = m3.dead /\ ms.text = m3.text
        /\ ms.fate = m3.fate /\ ms.statuses = m3.statuses
    BY <1>7 DEF IsMachine
  <2> HIDE DEF ms
  <2> QED BY <1>7, <2>1 DEF IsMachine
<1> HIDE DEF ms
<1>9. Becomes(mg, ms, ms.slave, ms.regs, ms.text) /\ IsMachine(mg)
  BY <1>8, GetRegs DEF Becomes
<1> HIDE DEF mg
<1>10. Becomes(m4, mg, mg.slave, m1.regs, mg.text) /\ IsMachine(m4)
  BY <1>9, SetRegs DEF Becomes
<1> HIDE DEF m4
<1>11. /\ IsMachine(m5) /\ (m4.dead => m5.dead)
       /\ ~m5.dead => m5.regs = m4.regs /\ m5.text = IF executable THEN m.text ELSE m4.text
  <2>1. Becomes(C!PutText(m4, m.text), m4, m4.slave, m4.regs, m.text)
    BY <1>10, TextPut
  <2> QED BY <1>10, <2>1 DEF Becomes
<1> HIDE DEF m5
<1>12. Becomes(m6, m5, FALSE, m5.regs, m5.text) /\ m6.dead = m5.dead
  BY <1>11, Flagged
<1> HIDE DEF m6
<1>13. /\ C!Result(m4, FALSE).m = m4 /\ C!Result(m6, ~m5.dead).m = m6
  BY DEF C!Result
<1>14. ASSUME ~m6.dead PROVE m6.slave = FALSE /\ m6.regs = m.regs /\ m6.text = m.text
  <2>1. ~m5.dead /\ m6.slave = FALSE /\ m6.regs = m5.regs /\ m6.text = m5.text
    BY <1>12, <1>14 DEF Becomes
  <2>2. ~m4.dead /\ m5.regs = m4.regs /\ (~executable => m5.text = m4.text)
        /\ (executable => m5.text = m.text)
    BY <1>11, <2>1
  <2>3. ~mg.dead /\ m4.regs = m1.regs /\ m4.text = mg.text
    BY <1>10, <2>2 DEF Becomes
  <2>4. ~ms.dead /\ mg.text = ms.text
    BY <1>9, <2>3 DEF Becomes
  <2>5. ~mc.dead /\ ms.text = mc.text
    BY <1>7, <1>8, <2>4
  <2>6. ~m2.dead /\ mc.text = m2.text
    BY <1>3, <2>5 DEF Becomes
  <2>7. ~m1.dead /\ (~executable => m2.text = m1.text)
    BY <1>2, <2>6
  <2>8. m1.regs = m.regs /\ m1.text = m.text
    BY <1>1, <2>7 DEF Becomes
  <2> QED BY <2>1, <2>2, <2>3, <2>4, <2>5, <2>6, <2>7, <2>8, Zenon
<1> HIDE DEF r
<1>15. ~r.m.dead => r.m = m6
  BY <1>5, <1>13, Zenon
<1>16. ~r.m.dead => ~r.m.slave /\ r.m.regs = m.regs /\ r.m.text = m.text
  BY <1>14, <1>15
<1> QED BY <1>16, Zenon DEF r

\* fncall_runtil: a thread that survives is at the address, which has its code
\* back.
LEMMA RuntilKeeps ==
  ASSUME NEW m, IsMachine(m), NEW stopat
  PROVE  LET r == C!fncall_runtil(m, stopat)
         IN  /\ m.dead => r.m.dead
             /\ ~r.m.dead => ~r.m.slave /\ r.ret /\ r.m.regs.pc = stopat /\ r.m.text = m.text
<1> DEFINE ma == [m EXCEPT !.slave = TRUE]
           mb == C!PutText(ma, "breakpoint")
           mc == C!thread_continue(mb)
           ends == {n \in 1..Len(mc.statuses) :
                       \/ mc.statuses[n].signo = "DEAD"
                       \/ mc.statuses[n].signo \in C!Faults /\ mc.statuses[n].regs.pc = stopat}
           m1 == Waited(mc, ends, TRUE)
           m2 == C!PutText(m1, m.text)
           m3 == [m2 EXCEPT !.slave = FALSE, !.signo = C!NoSignal]
           mo == [m2 EXCEPT !.slave = FALSE]
           r == C!fncall_runtil(m, stopat)
<1>1. Becomes(ma, m, TRUE, m.regs, m.text) /\ ma.dead = m.dead /\ IsMachine(ma)
  BY Flagged DEF Becomes
<1>2. C!WaitUntil(mc, LAMBDA s : s.signo \in C!Faults /\ s.regs.pc = stopat, TRUE) = m1
  BY Zenon DEF C!WaitUntil, Waited
<1>3. r = IF m2.dead THEN C!Result(mo, FALSE) ELSE C!Result(m3, TRUE)
  BY <1>2, Zenon DEF C!fncall_runtil, C!Out
<1> HIDE DEF ma
<1>4. Becomes(mb, ma, ma.slave, ma.regs, "breakpoint") /\ IsMachine(mb)
  BY <1>1, TextPut DEF Becomes
<1> HIDE DEF mb
<1>5. Becomes(mc, mb, mb.slave, mb.regs, mb.text) /\ IsMachine(mc)
  BY <1>4, Continued DEF Becomes
<1> HIDE DEF mc
<1>6. Stops(m1, mc, ends)
  BY <1>5, WaitStops
<1> HIDE DEF m1
<1>7. /\ IsMachine(m1) /\ (mc.dead => m1.dead)
      /\ ~m1.dead => m1.regs.pc = stopat
  BY <1>6 DEF Stops
<1>8. Becomes(m2, m1, m1.slave, m1.regs, m.text) /\ IsMachine(m2)
  BY <1>7, TextPut DEF Becomes
<1> HIDE DEF m2
<1>9. /\ m3.dead = m2.dead /\ m3.regs = m2.regs /\ m3.text = m2.text /\ m3.slave = FALSE
      /\ mo.dead = m2.dead
  BY <1>8 DEF IsMachine
<1> HIDE DEF m3, mo
<1>10. /\ C!Result(mo, FALSE).m = mo /\ C!Result(m3, TRUE).m = m3 /\ C!Result(m3, TRUE).ret = TRUE
  BY DEF C!Result
<1> HIDE DEF r
<1> DEFINE there == ~r.m.slave /\ r.ret /\ r.m.regs.pc = stopat /\ r.m.text = m.text
<1>11. m2.dead => r.m.dead
  BY <1>3, <1>9, <1>10
<1>12. ASSUME ~m2.dead PROVE there /\ ~m.dead
  <2>1. r.m = m3 /\ r.ret = TRUE
    BY <1>3, <1>10, <1>12
  <2>2. ~m1.dead /\ m2.regs = m1.regs /\ m2.text = m.text
    BY <1>8, <1>12 DEF Becomes
  <2>3. ~m.dead
    BY <1>1, <1>4, <1>5, <1>7, <2>2 DEF Becomes
  <2> QED BY <1>7, <1>9, <2>1, <2>2, <2>3
<1>13. (m.dead => r.m.dead) /\ (~r.m.dead => there)
  BY <1>11, <1>12
<1> QED BY <1>13, Zenon DEF r

\* fncall_runtil of the arm64 build
LEMMA RuntilKeeps64 ==
  ASSUME NEW m, IsMachine(m), NEW stopat
  PROVE  LET r == C!fncall_runtil_arm64(m, stopat)
         IN  ~r.m.dead => ~r.m.slave /\ r.ret /\ r.m.regs.pc = stopat /\ r.m.text = m.text
<1> DEFINE n == C!thread_get_regs(m)
           r == C!fncall_runtil_arm64(m, stopat)
<1>1. Becomes(n, m, m.slave, m.regs, m.text)
  BY GetRegs
<1>2. IsMachine(n)
  BY <1>1 DEF Becomes
<1>3. r = C!fncall_runtil(n, stopat)
  BY Zenon DEF C!fncall_runtil_arm64
<1> HIDE DEF n, r
<1>4. /\ n.dead => r.m.dead
      /\ ~r.m.dead => ~r.m.slave /\ r.ret /\ r.m.regs.pc = stopat /\ r.m.text = n.text
  BY <1>2, <1>3, RuntilKeeps
<1>5. ~r.m.dead => ~r.m.slave /\ r.ret /\ r.m.regs.pc = stopat /\ r.m.text = m.text
  BY <1>1, <1>4 DEF Becomes
<1> QED BY <1>5, Zenon DEF r

\* What fncall_runtil_seg promises
SegmentOf(r, m) ==
    ~r.m.dead => ~r.m.slave /\ (r.ret => r.m.text = m.text)

\* Their result, from the results of the two calls of mprotect and of the run
\* between them
SegmentResult(m, no, m2, yes) ==
    IF ~no.ret THEN C!Out(no.m)
    ELSE IF m2.dead THEN C!Result(m2, FALSE)
    ELSE IF ~yes.ret THEN yes
    ELSE C!Result([yes.m EXCEPT !.text = m.text], TRUE)

\* Both fncall_runtil_seg, given the two calls of mprotect they make
LEMMA SegmentKeeps ==
  ASSUME NEW m, IsMachine(m), NEW no, CallOf(no, m), NEW m2, NEW yes,
         ~m2.dead => ~m2.slave, CallOf(yes, m2)
  PROVE  SegmentOf(SegmentResult(m, no, m2, yes), m)
<1> DEFINE k == [yes.m EXCEPT !.text = m.text]
           o == [no.m EXCEPT !.slave = FALSE]
<1>0. IsMachine(yes.m) /\ IsMachine(no.m)
  BY DEF CallOf
<1>1. k.dead = yes.m.dead /\ k.slave = yes.m.slave /\ k.text = m.text
  BY <1>0 DEF IsMachine
<1>2. o.dead = no.m.dead /\ o.slave = FALSE
  BY <1>0 DEF IsMachine
<1> HIDE DEF k, o
<1>3. SegmentOf(C!Result(k, TRUE), m)
  BY <1>1 DEF SegmentOf, CallOf, C!Result
<1>4. SegmentOf(C!Out(no.m), m)
  <2>1. C!Out(no.m).m = o /\ C!Out(no.m).ret = FALSE
    BY DEF C!Out, C!Result, o
  <2> QED BY <1>2, <2>1 DEF SegmentOf
<1>5. m2.dead => SegmentOf(C!Result(m2, FALSE), m)
  BY DEF SegmentOf, C!Result
<1>6. ~yes.ret => SegmentOf(yes, m)
  BY DEF SegmentOf, CallOf
<1>7. SegmentOf(IF ~no.ret THEN C!Out(no.m)
                ELSE IF m2.dead THEN C!Result(m2, FALSE)
                ELSE IF ~yes.ret THEN yes ELSE C!Result(k, TRUE), m)
  BY <1>3, <1>4, <1>5, <1>6, Zenon
<1> QED BY <1>7 DEF k, SegmentResult

\* The run up to the segment, between the two calls
SegmentRun(n, inside) ==
    LET In(s) == s.signo \in {"SIGSEGV", "SIGTRAP"} /\ s.regs.pc \in inside
        m1 == [n EXCEPT !.text = "noexec", !.slave = TRUE]
    IN  [C!WaitUntil(C!thread_continue(m1), In, TRUE) EXCEPT !.slave = FALSE]

\* It leaves slave mode.
LEMMA SegmentRuns ==
  ASSUME NEW n, IsMachine(n), NEW inside
  PROVE  IsMachine(SegmentRun(n, inside)) /\ SegmentRun(n, inside).slave = FALSE
<1> DEFINE m1 == [n EXCEPT !.text = "noexec", !.slave = TRUE]
           mc == C!thread_continue(m1)
           ends == {k \in 1..Len(mc.statuses) :
                       \/ mc.statuses[k].signo = "DEAD"
                       \/ mc.statuses[k].signo \in {"SIGSEGV", "SIGTRAP"}
                            /\ mc.statuses[k].regs.pc \in inside}
           w == Waited(mc, ends, TRUE)
           m2 == [w EXCEPT !.slave = FALSE]
<1>1. IsMachine(m1)
  <2>1. DOMAIN m1 = DOMAIN n /\ m1.dead = n.dead /\ m1.fate = n.fate /\ m1.statuses = n.statuses
    BY DEF IsMachine
  <2> HIDE DEF m1
  <2> QED BY <2>1 DEF IsMachine
<1>2. IsMachine(mc)
  BY <1>1, Continued DEF Becomes
<1>3. SegmentRun(n, inside) = m2
  BY Zenon DEF SegmentRun, C!WaitUntil, Waited
<1> HIDE DEF m1, mc
<1>4. IsMachine(w)
  <2>1. Stops(w, mc, ends)
    BY <1>2, WaitStops
  <2> QED BY <2>1 DEF Stops
<1> HIDE DEF w
<1>5. IsMachine(m2) /\ m2.slave = FALSE
  <2>1. Becomes(m2, w, FALSE, w.regs, w.text)
    BY <1>4, Flagged
  <2>2. m2.slave = FALSE
    BY <1>4 DEF IsMachine
  <2> QED BY <2>1, <2>2 DEF Becomes
<1> QED BY <1>3, <1>5, Zenon

\* fncall_runtil_seg of both builds
LEMMA RuntilSegKeeps ==
  ASSUME NEW m, IsMachine(m), NEW inside, NEW result
  PROVE  /\ SegmentOf(C!fncall_runtil_seg(m, inside, result), m)
         /\ SegmentOf(C!fncall_runtil_seg_arm64(m, inside, result), m)
<1> DEFINE args == <<"start", "size", "prot", 0>>
           no == C!fncall_call_mprotect(m, 2, args, result)
           no64 == C!fncall_call_mprotect_arm64(m, 2, args, result)
           m2 == SegmentRun(no.m, inside)
           m64 == SegmentRun(no64.m, inside)
           yes == C!fncall_call_mprotect(m2, 2, args, result)
           yes64 == C!fncall_call_mprotect_arm64(m64, 2, args, result)
<1>1. C!fncall_runtil_seg(m, inside, result) = SegmentResult(m, no, m2, yes)
  BY Zenon DEF C!fncall_runtil_seg, C!RunUntilSegment, SegmentRun,
                SegmentResult
<1>2. C!fncall_runtil_seg_arm64(m, inside, result) = SegmentResult(m, no64, m64, yes64)
  BY Zenon DEF C!fncall_runtil_seg_arm64, C!RunUntilSegment, SegmentRun,
                SegmentResult
<1>3. CallOf(no, m) /\ CallOf(no64, m)
  BY MprotectKeeps
<1>4. IsMachine(no.m) /\ IsMachine(no64.m)
  BY <1>3 DEF CallOf
<1> HIDE DEF no, no64
<1>5. IsMachine(m2) /\ m2.slave = FALSE /\ IsMachine(m64) /\ m64.slave = FALSE
  BY <1>4, SegmentRuns, Zenon
<1> HIDE DEF m2, m64
<1>6. CallOf(yes, m2) /\ CallOf(yes64, m64)
  BY <1>5, MprotectKeeps, Zenon
<1> HIDE DEF yes, yes64
<1>7. ~m2.slave /\ ~m64.slave
  BY <1>5
<1>8. SegmentOf(C!fncall_runtil_seg(m, inside, result), m)
  BY <1>1, <1>3, <1>6, <1>7, SegmentKeeps, Zenon
<1>9. SegmentOf(C!fncall_runtil_seg_arm64(m, inside, result), m)
  BY <1>2, <1>3, <1>6, <1>7, SegmentKeeps, Zenon
<1> QED BY <1>8, <1>9

\* The calls among the inputs
CallInputs ==
    in.test = "call" =>
        /\ DOMAIN in = {"test", "op", "fate", "signo", "pushable", "statuses"}
        /\ in.op \in Calling \cup {"restop", "runtil", "runtil64", "runtil_seg", "runtil_seg64"}
        /\ in.fate \in Nat /\ in.pushable \in BOOLEAN /\ in.statuses \in Seq(Statuses)

\* Statuses are added at the end.
LEMMA CallInputsHold == Spec => []CallInputs
<1>1. Init => CallInputs
  BY DEF Init, None, CallInputs
<1>2. CallInputs /\ [Next]_in => CallInputs'
  <2> SUFFICES ASSUME CallInputs, [Next]_in PROVE CallInputs'
    OBVIOUS
  <2>1. CASE UNCHANGED in
    BY <2>1, Zenon DEF CallInputs
  <2>2. CASE Next
    <3>1. CASE CallInput
      <4>1. PICK op \in Calling \cup {"restop", "runtil", "runtil64", "runtil_seg", "runtil_seg64"},
                 fate \in 0..8, signo \in {C!NoSignal, "SIGUSR2"}, pushable \in BOOLEAN :
               in' = [test |-> "call", op |-> op, fate |-> fate, signo |-> signo,
                      pushable |-> pushable, statuses |-> <<>>]
        BY <3>1 DEF CallInput
      <4>2. in'.op = op /\ in'.fate = fate /\ in'.pushable = pushable /\ in'.statuses = <<>>
            /\ DOMAIN in' = {"test", "op", "fate", "signo", "pushable", "statuses"}
        BY <4>1
      <4>3. fate \in Nat /\ <<>> \in Seq(Statuses)
        OBVIOUS
      <4> QED BY <4>2, <4>3 DEF CallInputs
    <3>2. CASE in.test = "call" /\ Scenario
      <4>1. PICK s \in Statuses : in' = [in EXCEPT !.statuses = Append(@, s)]
        BY <3>2 DEF Scenario
      <4> DEFINE more == Append(in.statuses, s)
                 new == [in EXCEPT !.statuses = more]
      <4>2. in' = new /\ more \in Seq(Statuses)
        BY <3>2, <4>1 DEF CallInputs
      <4> HIDE DEF more
      <4>3. /\ DOMAIN new = DOMAIN in /\ new.statuses = more
            /\ new.op = in.op /\ new.fate = in.fate /\ new.pushable = in.pushable
        BY <3>2 DEF CallInputs
      <4> HIDE DEF new
      <4> QED BY <3>2, <4>2, <4>3 DEF CallInputs
    <3>3. CASE in'.test # "call"
      BY <3>3 DEF CallInputs
    <3>4. \/ CallInput
          \/ in.test = "call" /\ Scenario
          \/ in'.test # "call"
      BY <2>2, Inputs
    <3> QED BY <3>1, <3>2, <3>3, <3>4
  <2> QED BY <2>1, <2>2
<1> QED BY <1>1, <1>2, PTL DEF Spec

\* The machine of a call
LEMMA MachineIs ==
  ASSUME CallInputs, in.test = "call"
  PROVE  /\ IsMachine(Machine) /\ Machine.dead = FALSE /\ Machine.slave = FALSE
         /\ Machine.regs = Registers0 /\ Machine.text = "program"
         /\ Machine.statuses = in.statuses
BY DEF CallInputs, IsMachine, Machine

\* The functions of the base injectable that are called by fncall_memop
LEMMA MemopsKeep ==
  ASSUME NEW m, IsMachine(m), NEW addr, NEW page, NEW size, NEW result, NEW r,
         \/ r = C!fncall_mmap(m, 1, addr, page, size, result)
         \/ r = C!fncall_mmap_arm64(m, 1, addr, page, size, result)
         \/ r = C!fncall_allocate(m, 1, page, size, result)
         \/ r = C!fncall_allocate_arm64(m, 1, page, size, result)
         \/ r = C!fncall_free(m, 1, addr, size, result)
         \/ r = C!fncall_free_arm64(m, 1, addr, size, result)
  PROVE  CallOf(r, m) /\ (r.ret => C!fncall_get_errno(result) = 0)
<1>1. \E context : \/ r = C!fncall_memop(m, 1, context, result)
                  \/ r = C!fncall_memop_arm64(m, 1, context, result)
  BY Zenon DEF C!fncall_mmap, C!fncall_mmap_arm64, C!fncall_allocate, C!fncall_allocate_arm64,
               C!fncall_free, C!fncall_free_arm64
<1> QED BY <1>1, MemopKeeps, Zenon

\* fncall_get_errno finds the error that a function of the model returns.
LEMMA ErrnoFound ==
  ASSUME C!fncall_get_errno(Returns) = 0
  PROVE  Returns = 4096
BY SMT DEF C!fncall_get_errno, Returns

\* What is called, and how
LEMMA OutcomeIs ==
  ASSUME in.test = "call"
  PROVE  /\ in.op = "call" => CallOutcome = C!fncall_call(Machine, 1, Context)
         /\ in.op = "call64" => CallOutcome = C!fncall_call_arm64(Machine, 1, Context, ~in.pushable)
         /\ in.op = "adbi" => CallOutcome = C!fncall_call_adbi(Machine, 1, <<1, 2, 3, 4>>)
         /\ in.op = "mprotect" =>
              CallOutcome = C!fncall_call_mprotect(Machine, 1, <<1, 2, 3, 0>>, Returns)
         /\ in.op = "mprotect64" =>
              CallOutcome = C!fncall_call_mprotect_arm64(Machine, 1, <<1, 2, 3, 0>>, Returns)
         /\ in.op = "load" =>
              CallOutcome = C!fncall_alloc_load_call(Machine, Code, 4, "function", Context)
         /\ in.op = "load64" =>
              CallOutcome = C!fncall_alloc_load_call_arm64(Machine, Code, 4, "function", Context)
         /\ in.op = "restop" => CallOutcome = C!fncall_restop(Machine, in.pushable)
         /\ in.op = "runtil" => CallOutcome = C!fncall_runtil(Machine, 5)
         /\ in.op = "runtil64" => CallOutcome = C!fncall_runtil_arm64(Machine, 5)
         /\ in.op = "runtil_seg" => CallOutcome = C!fncall_runtil_seg(Machine, {5}, Returns)
         /\ in.op = "runtil_seg64" => CallOutcome = C!fncall_runtil_seg_arm64(Machine, {5}, Returns)
         /\ in.op = "mmap" => CallOutcome = C!fncall_mmap(Machine, 1, 0, PageSize, Wanted, Returns)
         /\ in.op = "mmap64" =>
              CallOutcome = C!fncall_mmap_arm64(Machine, 1, 0, PageSize, Wanted, Returns)
         /\ in.op = "allocate" =>
              CallOutcome = C!fncall_allocate(Machine, 1, PageSize, Wanted, Returns)
         /\ in.op = "allocate64" =>
              CallOutcome = C!fncall_allocate_arm64(Machine, 1, PageSize, Wanted, Returns)
         /\ in.op = "free" => CallOutcome = C!fncall_free(Machine, 1, 0, Wanted, Returns)
         /\ in.op = "free64" => CallOutcome = C!fncall_free_arm64(Machine, 1, 0, Wanted, Returns)
BY Zenon DEF CallOutcome

\* Whatever is called, and whatever becomes of the thread
LEMMA CallsKeep ==
  ASSUME CallInputs
  PROVE  CallRestores
<1> DEFINE restored == in.op \in Calling \cup {"restop"} => CallOutcome.m.regs = Registers0
           returned == in.op \in Calling /\ CallOutcome.ret =>
                          Returned /\ (in.op \in Memops => Returns = 4096)
           back == in.op \in {"restop", "runtil", "runtil64"} \/ CallOutcome.ret =>
                      CallOutcome.m.text = "program"
           there == in.op \in {"runtil", "runtil64"} =>
                       CallOutcome.ret /\ CallOutcome.m.regs.pc = 5
<1> SUFFICES ASSUME in.test = "call", ~CallOutcome.m.dead
             PROVE  ~CallOutcome.m.slave /\ restored /\ returned /\ back /\ there
  BY SMT DEF CallRestores
<1>1. /\ IsMachine(Machine) /\ Machine.dead = FALSE /\ Machine.slave = FALSE
      /\ Machine.regs = Registers0 /\ Machine.text = "program" /\ Machine.statuses = in.statuses
  BY MachineIs
<1>2. ReturnsIn(Machine.statuses) => Returned
  BY <1>1, Zenon DEF ReturnsIn, Returned
<1>3. C!fncall_get_errno(Returns) = 0 => Returns = 4096
  BY ErrnoFound
<1>4. CASE in.op \in {"call", "call64", "adbi"}
  <2>1. CallOf(CallOutcome, Machine)
    BY <1>1, <1>4, OutcomeIs, CallKeeps, CallKeeps64, Zenon DEF C!fncall_call_adbi
  <2> QED BY <1>1, <1>2, <1>4, <2>1 DEF CallOf, Memops
<1>5. CASE in.op \in Memops
  <2>1. CallOf(CallOutcome, Machine)
        /\ (CallOutcome.ret => C!fncall_get_errno(Returns) = 0)
    <3>1. CASE in.op \in {"mprotect", "mprotect64"}
      BY <1>1, <3>1, OutcomeIs, MprotectKeeps, Zenon
    <3>2. CASE in.op \in {"mmap", "mmap64", "allocate", "allocate64", "free", "free64"}
      BY <1>1, <3>2, OutcomeIs, MemopsKeep, Zenon
    <3> QED BY <1>5, <3>1, <3>2 DEF Memops
  <2>2. in.op \notin {"restop", "runtil", "runtil64"}
    BY <1>5 DEF Memops
  <2> QED BY <1>1, <1>2, <1>3, <2>1, <2>2 DEF CallOf
<1>6. CASE in.op \in {"load", "load64"}
  <2>1. LoadOf(CallOutcome, Machine)
    BY <1>1, <1>6, OutcomeIs, LoadCallKeeps, Zenon
  <2> QED BY <1>1, <1>2, <1>6, <2>1 DEF LoadOf, Memops
<1>7. CASE in.op = "restop"
  <2>1. CallOutcome = C!fncall_restop(Machine, in.pushable)
    BY <1>7, OutcomeIs
  <2>2. ~CallOutcome.m.slave /\ CallOutcome.m.regs = Machine.regs
        /\ CallOutcome.m.text = Machine.text
    BY <1>1, <2>1, RestopKeeps
  <2> QED BY <1>1, <1>7, <2>2 DEF Calling, Memops
<1>8. CASE in.op \in {"runtil", "runtil64"}
  <2>1. \/ CallOutcome = C!fncall_runtil(Machine, 5)
        \/ CallOutcome = C!fncall_runtil_arm64(Machine, 5)
    BY <1>8, OutcomeIs, Zenon
  <2>2. ~CallOutcome.m.slave /\ CallOutcome.ret /\ CallOutcome.m.regs.pc = 5
        /\ CallOutcome.m.text = Machine.text
    BY <1>1, <2>1, RuntilKeeps, RuntilKeeps64
  <2> QED BY <1>1, <1>8, <2>2 DEF Calling, Memops
<1>9. CASE in.op \in {"runtil_seg", "runtil_seg64"}
  <2>1. SegmentOf(CallOutcome, Machine)
    BY <1>1, <1>9, OutcomeIs, RuntilSegKeeps, Zenon
  <2> QED BY <1>1, <1>9, <2>1 DEF SegmentOf, Calling, Memops
<1> QED BY <1>4, <1>5, <1>6, <1>7, <1>8, <1>9 DEF CallInputs, Calling

\* A call in a thread that survives it gives the thread its registers back and
\* takes it out of slave mode; it reports success only if the function
\* returned, without an error; the code it borrowed is restored by a call that
\* succeeds and by every run up to an address.
THEOREM CallsRestore == Spec => []CallRestores
BY CallInputsHold, CallsKeep, PTL

------------------------------------------------------------------------------
(* Numbers: the results                                                     *)

\* The numbers and formats among the inputs
NumberInputs ==
    /\ in.test = "number" => in.v \in 0..255
    /\ in.test = "format" => in.fmt \in Seq(Chars)

\* They keep their form.
LEMMA NumberInputsHold == Spec => []NumberInputs
<1>1. Init => NumberInputs
  BY DEF Init, None, NumberInputs
<1>2. NumberInputs /\ [Next]_in => NumberInputs'
  <2> SUFFICES ASSUME NumberInputs, [Next]_in PROVE NumberInputs'
    OBVIOUS
  <2>1. CASE UNCHANGED in
    BY <2>1, Zenon DEF NumberInputs
  <2>2. CASE Next
    <3>1. CASE in'.test \in {"number", "format"} /\ Numbers
      <4>1. CASE \E v \in 0..255 : in' = [test |-> "number", v |-> v]
        BY <4>1 DEF NumberInputs
      <4>2. CASE \E fmt \in UNION {[1..n -> {"%", "l", "d", " "}] : n \in 0..5} :
                    in' = [test |-> "format", fmt |-> fmt]
        <5>1. PICK n \in 0..5 : \E fmt \in [1..n -> Chars] : in' = [test |-> "format", fmt |-> fmt]
          BY <4>2, Zenon DEF Chars
        <5>2. PICK fmt \in [1..n -> Chars] : in' = [test |-> "format", fmt |-> fmt]
          BY <5>1
        <5>3. fmt \in Seq(Chars)
          OBVIOUS
        <5>4. in'.test = "format" /\ in'.fmt = fmt
          BY <5>2
        <5> QED BY <5>3, <5>4 DEF NumberInputs
      <4> QED BY <3>1, <4>1, <4>2, Zenon DEF Numbers
    <3>2. CASE in'.test \notin {"number", "format"}
      BY <3>2 DEF NumberInputs
    <3>3. \/ in'.test \in {"number", "format"} /\ Numbers
          \/ in'.test \notin {"number", "format"}
      BY <2>2, Inputs
    <3> QED BY <3>1, <3>2, <3>3
  <2> QED BY <2>1, <2>2
<1> QED BY <1>1, <1>2, PTL DEF Spec

\* What adbi_printf writes stands for its arguments, every conversion takes
\* one and no text is lost; quotients are right where the products of the
\* search do not overflow (inj/adbi/print.c, idk/include/division.h).
THEOREM PrintedRight == Spec => []PrintsRight
<1>1. NumberInputs => PrintsRight
  <2> SUFFICES ASSUME NumberInputs PROVE PrintsRight
    OBVIOUS
  <2>1. ASSUME in.test = "number"
        PROVE  /\ \A low \in 0..255 :
                     LET v == 256 * in.v + low
                     IN  Top(8, v) \/ StandsFor(N!adbi_write_dec_unlocked(8, v), 10, v)
               /\ \A m \in Modifiers :
                     LET longs == Cardinality({n \in 1..Len(m) : m[n] = "l"})
                         width == IF longs - (Len(m) - longs) >= 2 THEN 8 ELSE 4
                         v == in.v % 2^width
                         signed == IF v >= 2^(width - 1) THEN v - 2^width ELSE v
                     IN  /\ StandsFor(N!Convert(4, m, "x", in.v), 16, v)
                         /\ StandsFor(N!Convert(4, m, "o", in.v), 8, v)
                         /\ Top(4, v) \/ StandsFor(N!Convert(4, m, "u", in.v), 10, v)
                         /\ StandsFor(N!Convert(4, m, "d", in.v), 10, signed)
               /\ \A d \in 1..7, again \in BOOLEAN :
                     /\ in.v < 8 => N!div(4, in.v, d) = in.v \div d
                     /\ in.v < 128 /\ d > 1 =>
                          /\ N!divl(4, in.v, d, again) = in.v \div d
                          /\ N!divsl(4, -in.v, d, again) = -(in.v \div d)
                          /\ N!divsl(4, -in.v, -d, again) = in.v \div d
    <3>0. in.v \in 0..255
      BY <2>1 DEF NumberInputs
    <3>1. ASSUME NEW low \in 0..255
          PROVE  LET v == 256 * in.v + low
                 IN  Top(8, v) \/ StandsFor(N!adbi_write_dec_unlocked(8, v), 10, v)
      <4> DEFINE v == 256 * in.v + low
      <4>1. v \in Nat /\ v < 65536
        BY <3>0
      <4>2. N!Long(8) = 65536
        BY SmallPowers DEF N!Long
      <4> HIDE DEF v
      <4>3. 8 \in Nat \ {0} /\ v < N!Long(8)
        BY <4>1, <4>2
      <4>4. Top(8, v) \/ StandsFor(N!adbi_write_dec_unlocked(8, v), 10, v)
        BY <4>1, <4>3, UnsignedStands
      <4> QED BY <4>4 DEF v
    <3>2. ASSUME NEW d \in 1..7, NEW again \in BOOLEAN
          PROVE  /\ in.v < 8 => N!div(4, in.v, d) = in.v \div d
                 /\ in.v < 128 /\ d > 1 =>
                      /\ N!divl(4, in.v, d, again) = in.v \div d
                      /\ N!divsl(4, -in.v, d, again) = -(in.v \div d)
                      /\ N!divsl(4, -in.v, -d, again) = in.v \div d
      BY <3>0, SmallQuotients
    <3>3. ASSUME NEW m \in Modifiers
          PROVE  LET longs == Cardinality({n \in 1..Len(m) : m[n] = "l"})
                     width == IF longs - (Len(m) - longs) >= 2 THEN 8 ELSE 4
                     v == in.v % 2^width
                     signed == IF v >= 2^(width - 1) THEN v - 2^width ELSE v
                 IN  /\ StandsFor(N!Convert(4, m, "x", in.v), 16, v)
                     /\ StandsFor(N!Convert(4, m, "o", in.v), 8, v)
                     /\ Top(4, v) \/ StandsFor(N!Convert(4, m, "u", in.v), 10, v)
                     /\ StandsFor(N!Convert(4, m, "d", in.v), 10, signed)
      BY <3>0, ByteConversions, Zenon
    <3> QED BY <3>1, <3>2, <3>3, Zenon
  <2>2. ASSUME in.test = "format", Simple(in.fmt)
        PROVE  LET pieces == N!adbi_printf(in.fmt)
               IN  /\ Conversions(pieces) = Cardinality({n \in 1..Len(in.fmt) : in.fmt[n] = "%"})
                   /\ Characters(pieces) = Cardinality({n \in 1..Len(in.fmt) : ~Inside(in.fmt, n)})
    <3>1. in.fmt \in Seq(Chars)
      BY <2>2 DEF NumberInputs
    <3> QED BY <2>2, <3>1, FormatCounts, Zenon
  <2> QED BY <2>1, <2>2, Zenon DEF PrintsRight
<1> QED BY <1>1, NumberInputsHold, PTL

------------------------------------------------------------------------------
(* Symbols: the result                                                      *)

\* The inputs of SymbolsLead
LinkNames == {"f", "g", "h"}
InjectableInput ==
    /\ in.test = "symbol" =>
         /\ in.offset \in Nat
         /\ in.file.adbi \in SymbolLists(LinkNames) /\ in.file.exports \in SymbolLists(LinkNames)
         /\ in.file.imports \in SymbolLists(LinkNames) /\ in.file.tpoints \in SymbolLists(LinkNames)
    /\ in.test = "line" => in.addrs \in SUBSET (0..3) /\ in.offset \in Nat
    /\ in.test = "link" =>
         /\ in.arch \in {"arm", "arm64", "arm64 mode32"}
         /\ in.first \in SymbolLists(LinkNames) /\ in.second \in SymbolLists(LinkNames)
         /\ in.names \in [1..2 -> LinkNames]

\* Symbol lists of one and of two symbols
LEMMA ShortLists ==
  ASSUME NEW a \in LinkNames, NEW b \in LinkNames, NEW i \in Nat, NEW j \in Nat
  PROVE  /\ <<Symbol(a, i)>> \in SymbolLists(LinkNames)
         /\ <<Symbol(a, i), Symbol(b, j)>> \in SymbolLists(LinkNames)
<1>1. Symbol(a, i) \in Symbols(LinkNames) /\ Symbol(b, j) \in Symbols(LinkNames)
  BY DEF Symbol, Symbols
<1>2. /\ <<Symbol(a, i)>> \in Seq(Symbols(LinkNames)) /\ <<Symbol(a, i)>> # <<>>
      /\ <<Symbol(a, i), Symbol(b, j)>> \in Seq(Symbols(LinkNames))
      /\ <<Symbol(a, i), Symbol(b, j)>> # <<>>
  BY <1>1
<1> QED BY <1>2 DEF SymbolLists

\* NoList is a list with no symbol of any of the names.
LEMMA NamedOffsets ==
  ASSUME NEW list \in SymbolLists(LinkNames), NEW name \in LinkNames
  PROVE  Exported(list, name)
           = {list[n].offset : n \in {m \in 1..Len(list) : list[m].name = name}}
<1>1. CASE list = J!NoList
  <2>1. Len(list) = 1 /\ list[1] = [name |-> "null", offset |-> -1]
    BY <1>1 DEF J!NoList
  <2>2. list[1].name = "null"
    BY <2>1
  <2>3. {m \in 1..Len(list) : list[m].name = name} = {}
    <3>1. \A m \in 1..Len(list) : m = 1
      BY <2>1
    <3>2. "null" # name
      BY DEF LinkNames
    <3> QED BY <2>2, <3>1, <3>2
  <2>4. Exported(list, name) = {}
    BY <1>1, Zenon DEF Exported
  <2> QED BY <2>3, <2>4
<1>2. CASE list # J!NoList
  BY <1>2, Zenon DEF Exported
<1> QED BY <1>1, <1>2

\* The stubs of a linked injection
LEMMA StubsLinked ==
  ASSUME in.test = "link", InjectableInput
  PROVE  LinkLeads
<1> DEFINE s == Stub
           off(n) == IF in.backwards THEN (2 - n) * s ELSE (n - 1) * s
           imports == [n \in 1..2 |-> Symbol(in.names[n], off(n))]
           injection == [address |-> 100, exports |-> J!NoList, code_size |-> 2 * s,
                         imports |-> imports]
           One == [address |-> 20, exports |-> in.first, imports |-> J!NoList, code_size |-> 4]
           Three == [address |-> 60, exports |-> in.second, imports |-> J!NoList, code_size |-> 4]
           process == <<One, injection, Three>>
           end == 100 + 2 * s - (IF in.mapped THEN 0 ELSE 1)
           mem == [a \in 100..end |-> 7]
           mode32 == in.arch # "arm64"
           words == IF in.arch = "arm" THEN 1 ELSE 2
           after == J!injection_dlink(mem, process, injection, mode32, words)
           p(n) == 100 + off(n) + (IF in.arch = "arm64" THEN 2 ELSE 1)
           Of(base, list, name) ==
             {base + list[n].offset : n \in {m \in 1..Len(list) : list[m].name = name}}
           Addresses(name) == Of(20, in.first, name) \cup Of(60, in.second, name)
<1>1. /\ in.arch \in {"arm", "arm64", "arm64 mode32"}
      /\ in.first \in SymbolLists(LinkNames) /\ in.second \in SymbolLists(LinkNames)
      /\ in.names \in [1..2 -> LinkNames]
  BY DEF InjectableInput
<1>2. (s = 2 \/ s = 4) /\ (in.arch = "arm64" <=> s = 4) /\ s \in Nat
  BY DEF Stub
<1>3. Importing = injection
  BY Zenon DEF Importing
<1>4. Linked.process = process /\ Linked.mem = mem /\ Linked.after = after
  <2>1. Linked = [process |-> process, mem |-> mem, after |-> after]
    <3>1. Linked = [process |-> <<One, Importing, Three>>, mem |-> mem,
                    after |-> J!injection_dlink(mem, <<One, Importing, Three>>, Importing,
                                                mode32, words)]
      BY Zenon DEF Linked
    <3> HIDE DEF One, Three, mem, injection, mode32, words
    <3> QED BY <1>3, <3>1, Zenon
  <2> HIDE DEF process, mem, after
  <2> QED BY <2>1
<1> HIDE DEF s
<1>5. \A n \in 1..2 : imports[n].offset = off(n) /\ imports[n].name = in.names[n]
  BY DEF Symbol
<1>6. Len(imports) = 2 /\ imports # J!NoList /\ imports # <<>>
  <2>1. Len(imports) = 2
    OBVIOUS
  <2>2. Len(J!NoList) = 1 /\ Len(<<>>) = 0
    BY DEF J!NoList
  <2> HIDE DEF imports
  <2> QED BY <2>1, <2>2
<1>7. \A n \in 1..2 : off(n) \in {0, s}
  BY <1>2
<1>8. off(1) + off(2) = s
  BY <1>2
<1>9. injection.address = 100 /\ injection.imports = imports /\ injection.exports = J!NoList
  <2> HIDE DEF imports
  <2> QED OBVIOUS
<1>10. imports = J!injfile_symbol_iter(injection.imports)
  <2> HIDE DEF imports
  <2> QED BY <1>6, <1>9, Zenon DEF J!injfile_symbol_iter
<1>11. \A n \in 1..2 : Place(n) = p(n)
  <2> SUFFICES ASSUME NEW n \in 1..2 PROVE Place(n) = p(n)
    OBVIOUS
  <2>1. Importing.imports[n].offset = off(n)
    <3> HIDE DEF imports, injection, off
    <3> QED BY <1>3, <1>5, <1>9
  <2> HIDE DEF off
  <2> QED BY <2>1, Zenon DEF Place
<1>12. \A n \in 1..2 : StubAt(injection, imports, mode32, n) = p(n)
  <2> SUFFICES ASSUME NEW n \in 1..2 PROVE StubAt(injection, imports, mode32, n) = p(n)
    OBVIOUS
  <2>1. off(n) >= 0 /\ off(n) \in Int
    BY <1>2, <1>7
  <2> HIDE DEF off, injection, imports
  <2>2. J!injection_relocate_address(injection, imports[n].offset) = 100 + off(n)
    BY <1>5, <1>9, <2>1 DEF J!injection_relocate_address
  <2>3. (IF mode32 THEN 1 ELSE 2) = IF in.arch = "arm64" THEN 2 ELSE 1
    OBVIOUS
  <2> HIDE DEF mode32
  <2> QED BY <2>2, <2>3, Zenon DEF StubAt
<1>13. /\ p(1) \in Int /\ p(2) \in Int
       /\ p(1) = p(2) + s \/ p(2) = p(1) + s
       /\ s >= 2
  <2>1. off(1) \in {0, s} /\ off(2) \in {0, s}
    BY <1>7
  <2> HIDE DEF off
  <2> QED BY <1>2, <1>8, <2>1
<1>14. words \in {1, 2} /\ (in.arch = "arm" <=> words = 1)
  OBVIOUS
<1> HIDE DEF p, off, imports, injection, mode32
<1>15. Writable(mem, words)
  <2>1. mem = [a \in DOMAIN mem |-> mem[a]]
    OBVIOUS
  <2> HIDE DEF mem, words
  <2> QED BY <1>14, <2>1 DEF Writable
<1>16. \A n \in 1..2 : StubWords(injection, imports, mode32, words, n)
                         = {p(n)} \cup (IF in.arch = "arm" THEN {} ELSE {p(n) + 1})
  <2> SUFFICES ASSUME NEW n \in 1..2
               PROVE  StubWords(injection, imports, mode32, words, n)
                        = {p(n)} \cup (IF in.arch = "arm" THEN {} ELSE {p(n) + 1})
    OBVIOUS
  <2>1. n = 1 \/ n = 2
    OBVIOUS
  <2>2. p(n) \in Int
    BY <1>13, <2>1
  <2>3. StubWords(injection, imports, mode32, words, n) = p(n)..(p(n) + words - 1)
    BY <1>12, Zenon DEF StubWords
  <2> HIDE DEF words
  <2> QED BY <1>14, <2>2, <2>3
<1>17. Apart(injection, imports, mode32, words)
  <2> SUFFICES ASSUME NEW m \in 1..2, NEW n \in 1..2, m # n
               PROVE  p(n) \notin StubWords(injection, imports, mode32, words, m)
    BY <1>6, <1>12 DEF Apart
  <2>1. (m = 1 /\ n = 2) \/ (m = 2 /\ n = 1)
    OBVIOUS
  <2>2. p(n) # p(m) /\ p(n) # p(m) + 1
    BY <1>13, <1>2, <2>1
  <2> HIDE DEF words
  <2> QED BY <1>16, <2>2
<1>18. Len(process) = 3 /\ process[1] = One /\ process[2] = injection /\ process[3] = Three
  <2> HIDE DEF One, Three
  <2> QED OBVIOUS
<1>19. \A n \in 1..3 : n = 1 \/ n = 2 \/ n = 3
  OBVIOUS
<1>20. J!NoList \in SymbolLists(LinkNames)
  BY DEF SymbolLists
<1>21. /\ One.address = 20 /\ One.exports = in.first /\ One.code_size = 4
       /\ Three.address = 60 /\ Three.exports = in.second /\ Three.code_size = 4
  OBVIOUS
<1> HIDE DEF One, Three, process, mem, words, end
<1>22. Exporters(process, LinkNames)
  <2> SUFFICES ASSUME NEW n \in 1..3
               PROVE  /\ process[n].address \in Nat \ {0}
                      /\ process[n].exports \in SymbolLists(LinkNames)
    BY <1>18 DEF Exporters
  <2>1. CASE n = 1
    <3>1. process[n].address = 20 /\ process[n].exports = in.first
      BY <1>18, <1>21, <2>1, Zenon
    <3>2. in.first \in SymbolLists(LinkNames)
      BY <1>1, Zenon
    <3>3. 20 \in Nat \ {0}
      OBVIOUS
    <3> QED BY <3>1, <3>2, <3>3, Zenon
  <2>2. CASE n = 2
    BY <1>9, <1>18, <1>20, <2>2
  <2>3. CASE n = 3
    <3>1. process[n].address = 60 /\ process[n].exports = in.second
      BY <1>18, <1>21, <2>3, Zenon
    <3>2. in.second \in SymbolLists(LinkNames)
      BY <1>1, Zenon
    <3>3. 60 \in Nat \ {0}
      OBVIOUS
    <3> QED BY <3>1, <3>2, <3>3, Zenon
  <2> QED BY <1>19, <2>1, <2>2, <2>3
<1>23. ASSUME NEW name \in LinkNames PROVE ExportedBy(process, name) = Addresses(name)
  <2> DEFINE By(n) == {process[n].address + o : o \in Exported(process[n].exports, name)}
  <2>1. By(1) = Of(20, in.first, name)
    <3>1. Exported(in.first, name)
            = {in.first[n].offset : n \in {m \in 1..Len(in.first) : in.first[m].name = name}}
      BY <1>1, NamedOffsets
    <3> QED BY <1>18, <1>21, <3>1
  <2>2. By(2) = {}
    <3>1. Exported(J!NoList, name) = {}
      BY Zenon DEF Exported
    <3> QED BY <1>9, <1>18, <3>1
  <2>3. By(3) = Of(60, in.second, name)
    <3>1. Exported(in.second, name)
            = {in.second[n].offset : n \in {m \in 1..Len(in.second) : in.second[m].name = name}}
      BY <1>1, NamedOffsets
    <3> QED BY <1>18, <1>21, <3>1
  <2>4. ExportedBy(process, name) = UNION {By(n) : n \in 1..Len(process)}
    BY Zenon DEF ExportedBy
  <2> HIDE DEF By, Of
  <2>5. UNION {By(n) : n \in 1..Len(process)} = By(1) \cup By(2) \cup By(3)
    BY <1>18, <1>19
  <2> QED BY <2>1, <2>2, <2>3, <2>4, <2>5
<1> HIDE DEF Addresses, Of
<1>24. LinkedRight(after, mem, process, injection, imports, mode32, words)
  <2>1. \A n \in 1..Len(imports) : StubAt(injection, imports, mode32, n) \in Int
    <3>1. \A n \in 1..2 : n = 1 \/ n = 2
      OBVIOUS
    <3> QED BY <1>6, <1>12, <1>13, <3>1
  <2>2. Len(imports) \in Nat
    BY <1>6
  <2> QED BY <1>10, <1>15, <1>17, <1>22, <2>1, <2>2, DlinkLinks, Zenon
<1>25. \A n \in 1..2 : /\ in.names[n] \in LinkNames
                      /\ ExportedBy(process, imports[n].name) = Addresses(in.names[n])
  BY <1>1, <1>5, <1>23
<1> DEFINE places == {p(n) : n \in 1..2}
           uppers == IF in.arch = "arm" THEN {} ELSE {q + 1 : q \in places}
           W(n) == StubWords(injection, imports, mode32, words, n)
<1> HIDE DEF after
<1>26. /\ after.success <=> \A n \in 1..2 : Addresses(in.names[n]) # {} /\ W(n) \subseteq DOMAIN mem
       /\ \A n \in 1..2 : Addresses(in.names[n]) # {} /\ p(n) \in DOMAIN mem
                            => after.mem[p(n)] \in Addresses(in.names[n])
       /\ \A a \in DOMAIN mem : (\A n \in 1..2 : a \notin W(n)) => after.mem[a] = mem[a]
  <2>1. after.success <=> \A n \in 1..2 : Addresses(in.names[n]) # {} /\ W(n) \subseteq DOMAIN mem
    BY <1>6, <1>24, <1>25, Zenon DEF LinkedRight
  <2>2. \A n \in 1..2 : Addresses(in.names[n]) # {} /\ p(n) \in DOMAIN mem
                          => after.mem[p(n)] \in Addresses(in.names[n])
    BY <1>6, <1>12, <1>24, <1>25, Zenon DEF LinkedRight
  <2>3. \A a \in DOMAIN mem : (\A n \in 1..2 : a \notin W(n)) => after.mem[a] = mem[a]
    BY <1>6, <1>24, Zenon DEF LinkedRight
  <2> QED BY <2>1, <2>2, <2>3
<1>27. \A n \in 1..2 : W(n) = {p(n)} \cup (IF in.arch = "arm" THEN {} ELSE {p(n) + 1})
  BY <1>16
<1> HIDE DEF W
<1>28. UNION {W(n) : n \in 1..2} = places \cup uppers
  BY <1>27
<1>29. after.success <=> /\ \A n \in 1..2 : Addresses(in.names[n]) # {}
                         /\ places \cup uppers \subseteq DOMAIN mem
  <2>1. (\A n \in 1..2 : W(n) \subseteq DOMAIN mem) <=> places \cup uppers \subseteq DOMAIN mem
    <3> HIDE DEF places, uppers
    <3> QED BY <1>28
  <2> HIDE DEF places, uppers
  <2> QED BY <1>26, <2>1, Zenon
<1>30. after.success => \A n \in 1..2 : after.mem[p(n)] \in Addresses(in.names[n])
  <2>1. \A n \in 1..2 : p(n) \in W(n)
    BY <1>27
  <2> QED BY <1>26, <2>1
<1>31. \A a \in DOMAIN mem \ (places \cup uppers) : after.mem[a] = 7
  <2>1. \A a \in DOMAIN mem : mem[a] = 7
    BY DEF mem
  <2> HIDE DEF places, uppers
  <2> QED BY <1>26, <1>28, <2>1
<1>32. \A a \in 20..23 : J!injection_get_by_address(process, a) = 1
  <2> SUFFICES ASSUME NEW a \in 20..23 PROVE J!injection_get_by_address(process, a) = 1
    OBVIOUS
  <2> DEFINE Q == {n \in 1..Len(process) : /\ a >= process[n].address
                                          /\ a < process[n].address + process[n].code_size}
  <2>1. Q = {1}
    BY <1>9, <1>18, <1>19, <1>21
  <2>2. J!injection_get_by_address(process, a)
          = IF Q = {} THEN 0 ELSE CHOOSE n \in Q : \A m \in Q : n <= m
    BY Zenon DEF J!injection_get_by_address
  <2> HIDE DEF Q
  <2> QED BY <2>1, <2>2
<1>33. {Place(n) : n \in 1..2} = places
  BY <1>11
<1> HIDE DEF places
<1>34. /\ after.success <=> /\ \A n \in 1..2 : Addresses(in.names[n]) # {}
                            /\ places \cup uppers \subseteq DOMAIN Linked.mem
       /\ after.success => \A n \in 1..2 : after.mem[Place(n)] \in Addresses(in.names[n])
       /\ \A a \in DOMAIN Linked.mem \ (places \cup uppers) : after.mem[a] = 7
       /\ \A a \in 20..23 : J!injection_get_by_address(Linked.process, a) = 1
  <2> HIDE DEF uppers
  <2>1. after.success <=> /\ \A n \in 1..2 : Addresses(in.names[n]) # {}
                          /\ places \cup uppers \subseteq DOMAIN Linked.mem
    BY <1>4, <1>29, Zenon
  <2>2. after.success => \A n \in 1..2 : after.mem[Place(n)] \in Addresses(in.names[n])
    BY <1>11, <1>30, Zenon
  <2> QED BY <1>4, <1>31, <1>32, <2>1, <2>2, Zenon
<1> QED BY <1>4, <1>33, <1>34, Zenon DEF LinkLeads, Addresses, Of

\* The lists among the inputs are symbol lists.
LEMMA ListsAre ==
  Lists \subseteq SymbolLists(LinkNames) /\ Exports \subseteq SymbolLists(LinkNames)
<1>1. J!NoList \in SymbolLists(LinkNames) /\ "f" \in LinkNames /\ "g" \in LinkNames /\ "h" \in LinkNames
  BY DEF SymbolLists, LinkNames
<1>2. ASSUME NEW s \in {<< 0 >>, << 1 >>, << 2 >>, <<0, 1>>, <<2, 1>>}
      PROVE  [n \in 1..Len(s) |-> [name |-> "f", offset |-> s[n]]] \in SymbolLists(LinkNames)
  <2> DEFINE l == [n \in 1..Len(s) |-> [name |-> "f", offset |-> s[n]]]
  <2>1. s \in Seq(Nat) /\ Len(s) > 0
    <3>1. /\ <<0>> \in Seq(Nat) /\ <<1>> \in Seq(Nat) /\ <<2>> \in Seq(Nat)
          /\ <<0, 1>> \in Seq(Nat) /\ <<2, 1>> \in Seq(Nat)
      OBVIOUS
    <3>2. Len(s) > 0
      OBVIOUS
    <3> QED BY <3>1, <3>2, Zenon
  <2>2. Len(s) \in Nat /\ \A n \in 1..Len(s) : s[n] \in Nat
    BY <2>1
  <2>3. \A n \in 1..Len(s) : [name |-> "f", offset |-> s[n]] \in Symbols(LinkNames)
    BY <1>1, <2>2 DEF Symbols
  <2>4. l \in Seq(Symbols(LinkNames)) /\ Len(l) = Len(s)
    BY <2>2, <2>3
  <2> HIDE DEF l
  <2>5. l # <<>>
    <3>1. Len(<<>>) = 0
      OBVIOUS
    <3> QED BY <2>1, <2>4, <3>1
  <2>6. l \in SymbolLists(LinkNames)
    BY <2>4, <2>5 DEF SymbolLists
  <2> QED BY <2>6 DEF l
<1>3. Lists \subseteq SymbolLists(LinkNames)
  BY <1>1, <1>2, Zenon DEF Lists
<1>4. /\ <<Symbol("f", 0)>> \in SymbolLists(LinkNames)
      /\ <<Symbol("f", 1), Symbol("g", 2)>> \in SymbolLists(LinkNames)
      /\ <<Symbol("h", 3)>> \in SymbolLists(LinkNames)
  BY <1>1, ShortLists
<1>5. Exports \subseteq SymbolLists(LinkNames)
  BY <1>1, <1>4, Zenon DEF Exports
<1> QED BY <1>3, <1>5

\* The inputs keep their form.
LEMMA InjectableInputs == Spec => []InjectableInput
<1>1. Init => InjectableInput
  BY DEF Init, None, InjectableInput
<1>2. InjectableInput /\ [Next]_in => InjectableInput'
  <2> SUFFICES ASSUME InjectableInput, [Next]_in PROVE InjectableInput'
    OBVIOUS
  <2>1. CASE UNCHANGED in
    BY <2>1, Zenon DEF InjectableInput
  <2>2. CASE Next
    <3>1. CASE in'.test \in {"symbol", "line", "link"} /\ InjInput
      <4>1. CASE \E adbi, exports, imports, tpoints \in Lists, offset \in 0..3 :
                   in' = [test |-> "symbol", offset |-> offset,
                          file |-> [adbi |-> adbi, exports |-> exports, imports |-> imports,
                                    tpoints |-> tpoints]]
        <5>1. PICK adbi \in Lists, exports \in Lists, imports \in Lists, tpoints \in Lists,
                   offset \in 0..3 :
                   in' = [test |-> "symbol", offset |-> offset,
                          file |-> [adbi |-> adbi, exports |-> exports, imports |-> imports,
                                    tpoints |-> tpoints]]
          BY <4>1
        <5>2. /\ adbi \in SymbolLists(LinkNames) /\ exports \in SymbolLists(LinkNames)
              /\ imports \in SymbolLists(LinkNames) /\ tpoints \in SymbolLists(LinkNames)
          BY ListsAre
        <5>3. /\ in'.test = "symbol" /\ in'.offset = offset
              /\ in'.file.adbi = adbi /\ in'.file.exports = exports
              /\ in'.file.imports = imports /\ in'.file.tpoints = tpoints
          BY <5>1
        <5>4. offset \in Nat
          OBVIOUS
        <5>5. "symbol" # "line" /\ "symbol" # "link"
          OBVIOUS
        <5> QED BY <5>2, <5>3, <5>4, <5>5, Zenon DEF InjectableInput
      <4>2. CASE \E addrs \in SUBSET (0..3), offset \in 0..4 :
                   in' = [test |-> "line", addrs |-> addrs, offset |-> offset]
        <5>1. PICK addrs \in SUBSET (0..3), offset \in 0..4 :
                   in' = [test |-> "line", addrs |-> addrs, offset |-> offset]
          BY <4>2
        <5>2. in'.test = "line" /\ in'.addrs = addrs /\ in'.offset = offset /\ offset \in Nat
          BY <5>1
        <5>3. "line" # "symbol" /\ "line" # "link"
          OBVIOUS
        <5> QED BY <5>2, <5>3, Zenon DEF InjectableInput
      <4>3. CASE \E arch \in {"arm", "arm64", "arm64 mode32"}, first, second \in Exports,
                   names \in [1..2 -> {"f", "g", "h"}], backwards, mapped \in BOOLEAN :
                   in' = [test |-> "link", arch |-> arch, first |-> first, second |-> second,
                          names |-> names, backwards |-> backwards, mapped |-> mapped]
        <5>1. PICK arch \in {"arm", "arm64", "arm64 mode32"}, first \in Exports,
                   second \in Exports, names \in [1..2 -> {"f", "g", "h"}],
                   backwards \in BOOLEAN, mapped \in BOOLEAN :
                   in' = [test |-> "link", arch |-> arch, first |-> first, second |-> second,
                          names |-> names, backwards |-> backwards, mapped |-> mapped]
          BY <4>3, Zenon
        <5>2. /\ in'.test = "link" /\ in'.arch = arch /\ in'.first = first
              /\ in'.second = second /\ in'.names = names
          BY <5>1
        <5>3. first \in SymbolLists(LinkNames) /\ second \in SymbolLists(LinkNames)
          BY ListsAre
        <5>4. "link" # "symbol" /\ "link" # "line"
          OBVIOUS
        <5> QED BY <5>2, <5>3, <5>4, Zenon DEF InjectableInput, LinkNames
      <4> QED BY <3>1, <4>1, <4>2, <4>3, Zenon DEF InjInput
    <3>2. CASE in'.test \notin {"symbol", "line", "link"}
      BY <3>2 DEF InjectableInput
    <3>3. \/ in'.test \in {"symbol", "line", "link"} /\ InjInput
          \/ in'.test \notin {"symbol", "line", "link"}
      BY <2>2, Inputs
    <3> QED BY <3>1, <3>2, <3>3
  <2> QED BY <2>1, <2>2
<1> QED BY <1>1, <1>2, PTL DEF Spec

\* Addresses are described by the nearest symbol, handler or line, and stubs
\* are linked with what is exported.
THEOREM SymbolsDoLead == Spec => []SymbolsLead
<1>1. InjectableInput => SymbolsLead
  <2> SUFFICES ASSUME InjectableInput PROVE SymbolsLead
    OBVIOUS
  <2>1. in.test = "symbol" => Described(in.file, in.offset)
    <3> SUFFICES ASSUME in.test = "symbol" PROVE Described(in.file, in.offset)
      OBVIOUS
    <3>1. /\ in.offset \in Nat
          /\ in.file.adbi \in SymbolLists(LinkNames) /\ in.file.exports \in SymbolLists(LinkNames)
          /\ in.file.imports \in SymbolLists(LinkNames) /\ in.file.tpoints \in SymbolLists(LinkNames)
      BY Zenon DEF InjectableInput
    <3> QED BY <3>1, NearestFound, Zenon
  <2>2. in.test = "line" => LineLeads(in.addrs, in.offset)
    <3> SUFFICES ASSUME in.test = "line" PROVE LineLeads(in.addrs, in.offset)
      OBVIOUS
    <3>1. in.addrs \in SUBSET (0..3) /\ in.offset \in Nat
      BY Zenon DEF InjectableInput
    <3>2. IsFiniteSet(in.addrs)
      <4>1. IsFiniteSet(0..3)
        <5>1. 0 \in Int /\ 3 \in Int
          OBVIOUS
        <5> QED BY <5>1, FS_Interval, Zenon
      <4> QED BY <3>1, <4>1, FS_Subset
    <3>3. in.addrs \in SUBSET Nat
      BY <3>1
    <3> QED BY <3>1, <3>2, <3>3, LinesLead
  <2>3. in.test = "link" => LinkLeads
    BY StubsLinked
  <2> QED BY <2>1, <2>2, <2>3, Zenon DEF SymbolsLead
<1> QED BY <1>1, InjectableInputs, PTL

==============================================================================
