-------------------------- MODULE InjectableProofs ---------------------------
(***************************************************************************)
(* Symbols and numbers of injectables, for lists of any length and words   *)
(* of any width, after the mathematics that all proofs about injections    *)
(* and algorithms share.  Induction and recursion are in a form the        *)
(* provers can use: the library's induction theorems are about a predicate *)
(* P(_), these are about sets and functions.  A claim about all numbers is *)
(* proved by looking at the least counterexample; a recursive function     *)
(* exists when each of its values depends on values of lower rank only; a  *)
(* fold is the last of a sequence of values, each made from the one before *)
(* it.  Then what is needed of sequences, of loops and of quotients,       *)
(* digits and sums.                                                        *)
(***************************************************************************)
EXTENDS InjectableSpec, WellFoundedInduction, NaturalsInduction, SequenceTheorems,
        FiniteSetTheorems, TLAPS

------------------------------------------------------------------------------
(* Induction, recursion and folds                                           *)

\* A set of numbers that is not empty has a least element.
LEMMA Least ==
  ASSUME NEW T \in SUBSET Nat, T # {}
  PROVE  \E x \in T : \A y \in T : x <= y
<1> DEFINE Lt == {ss \in Nat \X Nat : ss[1] < ss[2]}
<1>1. IsWellFoundedOn(Lt, Nat)
  BY NatLessThanWellFounded, Zenon DEF OpToRel
<1>2. \E x \in T : \A y \in T : ~(<<y, x>> \in Lt)
  <2> HIDE DEF Lt
  <2> QED BY <1>1, WFMin
<1>3. \A x, y \in Nat : <<y, x>> \notin Lt => x <= y
  OBVIOUS
<1> HIDE DEF Lt
<1> QED BY <1>2, <1>3

\* A set of numbers that holds 0, and each number up to n whose predecessor it
\* holds, holds the numbers up to n.
LEMMA Upwards ==
  ASSUME NEW n \in Nat, NEW S, 0 \in S,
         \A m \in 1..n : m - 1 \in S => m \in S
  PROVE  \A m \in 0..n : m \in S
<1> SUFFICES ASSUME NEW m \in 0..n, m \notin S PROVE FALSE
  OBVIOUS
<1> DEFINE T == {x \in 0..n : x \notin S}
<1>1. PICK x \in T : \A y \in T : x <= y
  <2>1. T \in SUBSET Nat /\ T # {}
    OBVIOUS
  <2> QED BY <2>1, Least
<1>2. x # 0 /\ x - 1 \notin T
  BY <1>1
<1> QED BY <1>2

\* B[<<h, x>>] depends on the values of h of lower rank than x only.
Grounded(D, T, rank, B) ==
    \A g, h \in [D -> T], x \in D :
        (\A y \in D : rank[y] < rank[x] => g[y] = h[y]) => B[<<g, x>>] = B[<<h, x>>]

\* h is defined by h[x] == B[<<h, x>>].
Solves(h, D, B) == \A x \in D : h[x] = B[<<h, x>>]

\* h does so for what has a rank below n.
SolvesBelow(h, D, rank, B, n) == \A x \in D : rank[x] < n => h[x] = B[<<h, x>>]

\* There is such an h for every n.
LEMMA BelowExists ==
  ASSUME NEW D, NEW T, T # {}, NEW rank \in [D -> Nat],
         NEW B \in [[D -> T] \X D -> T], Grounded(D, T, rank, B), NEW most \in Nat
  PROVE  \E h \in [D -> T] : SolvesBelow(h, D, rank, B, most)
<1> DEFINE Upto(h, n) == \A x \in D : rank[x] < n => h[x] = B[<<h, x>>]
           S == {n \in 0..most : \E h \in [D -> T] : Upto(h, n)}
<1>1. 0 \in S
  <2>0. PICK t \in T : TRUE
    OBVIOUS
  <2> DEFINE h == [x \in D |-> t]
  <2>1. h \in [D -> T] /\ \A x \in D : ~(rank[x] < 0)
    OBVIOUS
  <2>2. Upto(h, 0)
    BY <2>1
  <2>3. \E f \in [D -> T] : Upto(f, 0)
    <3> HIDE DEF Upto, h
    <3> QED BY <2>1, <2>2
  <2> QED BY <2>3
<1>2. ASSUME NEW n \in 1..most, n - 1 \in S PROVE n \in S
  <2>1. PICK h \in [D -> T] : Upto(h, n - 1)
    BY <1>2
  <2> DEFINE g == [x \in D |-> IF rank[x] < n - 1 THEN h[x] ELSE B[<<h, x>>]]
  <2>2. g \in [D -> T]
    OBVIOUS
  <2>3. ASSUME NEW x \in D, rank[x] < n PROVE g[x] = B[<<g, x>>]
    <3>1. \A y \in D : rank[y] < rank[x] => g[y] = h[y]
      BY <2>3
    <3>2. B[<<g, x>>] = B[<<h, x>>]
      BY <3>1, <2>2 DEF Grounded
    <3> QED BY <2>1, <3>2
  <2> HIDE DEF g
  <2> QED BY <2>2, <2>3
<1>3. most \in S
  <2> HIDE DEF S
  <2>1. \A m \in 0..most : m \in S
    BY <1>1, <1>2, Upwards
  <2> QED BY <2>1
<1> QED BY <1>3 DEF SolvesBelow

\* Two of them agree where both do so.
LEMMA BelowUnique ==
  ASSUME NEW D, NEW T, NEW rank \in [D -> Nat], NEW B, Grounded(D, T, rank, B),
         NEW m \in Nat, NEW n \in Nat, NEW g \in [D -> T], NEW h \in [D -> T],
         SolvesBelow(g, D, rank, B, m), SolvesBelow(h, D, rank, B, n)
  PROVE  \A x \in D : rank[x] < m /\ rank[x] < n => g[x] = h[x]
<1> SUFFICES ASSUME NEW x \in D, rank[x] < m, rank[x] < n PROVE g[x] = h[x]
  OBVIOUS
<1> DEFINE S == {k \in 0..rank[x] : \A y \in D : rank[y] <= k => g[y] = h[y]}
<1>1. ASSUME NEW k \in 0..rank[x], \A y \in D : rank[y] < k => g[y] = h[y]
      PROVE  \A y \in D : rank[y] <= k => g[y] = h[y]
  <2> SUFFICES ASSUME NEW y \in D, rank[y] <= k PROVE g[y] = h[y]
    OBVIOUS
  <2>1. \A z \in D : rank[z] < rank[y] => g[z] = h[z]
    BY <1>1
  <2>2. B[<<g, y>>] = B[<<h, y>>]
    BY <2>1 DEF Grounded
  <2> QED BY <2>2 DEF SolvesBelow
<1>2. 0 \in S
  <2>1. \A y \in D : ~(rank[y] < 0)
    OBVIOUS
  <2>2. \A y \in D : rank[y] <= 0 => g[y] = h[y]
    BY <1>1, <2>1
  <2> QED BY <2>2
<1>3. ASSUME NEW k \in 1..rank[x], k - 1 \in S PROVE k \in S
  <2>1. \A y \in D : rank[y] <= k - 1 => g[y] = h[y]
    BY <1>3
  <2>2. \A y \in D : rank[y] < k => g[y] = h[y]
    BY <2>1
  <2>3. \A y \in D : rank[y] <= k => g[y] = h[y]
    BY <1>1, <2>2
  <2> QED BY <2>3
<1>4. rank[x] \in S
  <2> HIDE DEF S
  <2>1. \A k \in 0..rank[x] : k \in S
    BY <1>2, <1>3, Upwards
  <2> QED BY <2>1
<1> QED BY <1>4

\* A function is defined by recursion over a rank.
LEMMA NatRecursion ==
  ASSUME NEW D, NEW T, T # {}, NEW rank \in [D -> Nat],
         NEW B \in [[D -> T] \X D -> T], Grounded(D, T, rank, B)
  PROVE  \E h \in [D -> T] : Solves(h, D, B)
<1> DEFINE Ok(n, g) == g \in [D -> T] /\ SolvesBelow(g, D, rank, B, n)
           pick == [n \in Nat |-> CHOOSE g : Ok(n, g)]
           h == [x \in D |-> pick[rank[x] + 1][x]]
<1>1. ASSUME NEW n \in Nat PROVE Ok(n, pick[n])
  <2>1. \E g : Ok(n, g)
    BY BelowExists
  <2> HIDE DEF Ok
  <2> QED BY <2>1
<1>2. \A x \in D : rank[x] + 1 \in Nat
  OBVIOUS
<1>3. h \in [D -> T]
  <2> HIDE DEF pick
  <2> QED BY <1>1, <1>2
<1>4. ASSUME NEW x \in D PROVE h[x] = B[<<h, x>>]
  <2> DEFINE g == pick[rank[x] + 1]
  <2>1. Ok(rank[x] + 1, g) /\ h[x] = g[x]
    BY <1>1, <1>2
  <2>2. ASSUME NEW y \in D, rank[y] < rank[x] PROVE h[y] = g[y]
    <3> DEFINE f == pick[rank[y] + 1]
    <3>1. Ok(rank[y] + 1, f) /\ h[y] = f[y]
      BY <1>1, <1>2
    <3>2. rank[y] < rank[y] + 1 /\ rank[y] < rank[x] + 1
      BY <2>2
    <3> HIDE DEF pick, h, f, g
    <3>3. f[y] = g[y]
      BY <1>2, <2>1, <3>1, <3>2, BelowUnique
    <3> QED BY <3>1, <3>3
  <2>3. rank[x] < rank[x] + 1
    BY <1>2
  <2> HIDE DEF pick, h, g
  <2>4. g[x] = B[<<g, x>>]
    BY <2>1, <2>3 DEF SolvesBelow
  <2>5. B[<<g, x>>] = B[<<h, x>>]
    BY <1>3, <2>1, <2>2 DEF Grounded
  <2> QED BY <2>1, <2>4, <2>5
<1> HIDE DEF h
<1> QED BY <1>3, <1>4 DEF Solves

\* The same over a bounded rank
LEMMA RankRecursion ==
  ASSUME NEW D, NEW T, T # {}, NEW most \in Nat,
         NEW rank \in [D -> 0..most], NEW B \in [[D -> T] \X D -> T],
         Grounded(D, T, rank, B)
  PROVE  \E h \in [D -> T] : Solves(h, D, B)
<1>1. rank \in [D -> Nat]
  OBVIOUS
<1> QED BY <1>1, NatRecursion

\* The greatest of some numbers
LEMMA MaxIn ==
  ASSUME NEW n \in Nat, NEW S \in SUBSET (1..n), S # {}
  PROVE  Max(S) \in S /\ \A y \in S : Max(S) >= y
<1> DEFINE T == {n - x : x \in S}
<1>1. PICK z \in T : \A y \in T : z <= y
  <2>1. \A x \in S : n - x \in Nat
    OBVIOUS
  <2>2. PICK x \in S : TRUE
    OBVIOUS
  <2>3. n - x \in T
    OBVIOUS
  <2>4. T \in SUBSET Nat
    BY <2>1, Zenon
  <2> HIDE DEF T
  <2>5. T # {}
    BY <2>3
  <2> QED BY <2>4, <2>5, Least
<1>2. PICK x \in S : z = n - x
  BY <1>1
<1>3. ASSUME NEW y \in S PROVE x >= y
  <2>1. n - y \in T
    OBVIOUS
  <2>2. n - x <= n - y
    BY <1>1, <1>2, <2>1
  <2> QED BY <2>2
<1> QED BY <1>3 DEF Max

\* h is the iterator of a fold over 1..n with the step G (see MapThenFoldSet).
Iterates(h, n, base, G) ==
    h = [s \in SUBSET (1..n) |->
            IF s = {} THEN base ELSE G[<<h[s \ {Max(s)}], Max(s)>>]]

\* There is such an iterator.
LEMMA FoldExists ==
  ASSUME NEW n \in Nat, NEW T, NEW base \in T, NEW G \in [T \X (1..n) -> T]
  PROVE  \E h \in [SUBSET (1..n) -> T] : Iterates(h, n, base, G)
<1> DEFINE D == SUBSET (1..n)
           rank == [s \in D |-> IF s = {} THEN 0 ELSE Max(s)]
           B == [x \in [D -> T] \X D |->
                    IF x[2] = {} THEN base
                    ELSE G[<<x[1][x[2] \ {Max(x[2])}], Max(x[2])>>]]
<1>1. rank \in [D -> 0..n]
  <2>1. \A s \in D : s # {} => Max(s) \in 1..n
    BY MaxIn
  <2> QED BY <2>1
<1>2. \A h \in [D -> T], s \in D :
         B[<<h, s>>] = IF s = {} THEN base ELSE G[<<h[s \ {Max(s)}], Max(s)>>]
  OBVIOUS
<1>3. \A s \in D : s # {} =>
         /\ s \ {Max(s)} \in D
         /\ rank[s \ {Max(s)}] < rank[s]
         /\ Max(s) \in 1..n
  <2> SUFFICES ASSUME NEW s \in D, s # {}
               PROVE  /\ s \ {Max(s)} \in D
                      /\ rank[s \ {Max(s)}] < rank[s]
                      /\ Max(s) \in 1..n
    OBVIOUS
  <2> DEFINE u == s \ {Max(s)}
  <2>1. Max(s) \in s /\ \A y \in s : Max(s) >= y
    BY MaxIn
  <2>0. u \in D /\ Max(s) \in 1..n /\ rank[s] = Max(s)
    BY <2>1
  <2>2. CASE u = {}
    <3>1. rank[u] = 0
      BY <2>2
    <3> QED BY <2>0, <3>1
  <2>3. CASE u # {}
    <3>1. Max(u) \in u
      BY <2>3, MaxIn
    <3>2. Max(u) \in s /\ Max(u) # Max(s)
      BY <3>1
    <3>3. Max(u) < Max(s)
      <4> HIDE DEF u
      <4>1. Max(u) \in Int /\ Max(s) \in Int
        <5>1. \A y \in s : y \in Int
          OBVIOUS
        <5> QED BY <2>1, <3>2, <5>1
      <4>2. Max(s) >= Max(u)
        BY <2>1, <3>2
      <4> QED BY <3>2, <4>1, <4>2
    <3>4. rank[u] = Max(u)
      BY <2>0, <2>3
    <3> QED BY <2>0, <3>3, <3>4
  <2> QED BY <2>2, <2>3
<1>4. ASSUME NEW h \in [D -> T], NEW s \in D PROVE B[<<h, s>>] \in T
  BY <1>2, <1>3
<1>5. B \in [[D -> T] \X D -> T]
  BY <1>4
<1>6. Grounded(D, T, rank, B)
  <2> SUFFICES ASSUME NEW g \in [D -> T], NEW h \in [D -> T], NEW x \in D,
                      \A y \in D : rank[y] < rank[x] => g[y] = h[y]
               PROVE  B[<<g, x>>] = B[<<h, x>>]
    BY DEF Grounded
  <2> HIDE DEF D, rank, B
  <2>1. x # {} => g[x \ {Max(x)}] = h[x \ {Max(x)}]
    BY <1>3
  <2> QED BY <1>2, <2>1
<1>7. PICK h \in [D -> T] : Solves(h, D, B)
  <2> HIDE DEF D, rank, B
  <2> QED BY <1>1, <1>5, <1>6, RankRecursion
<1>8. \A s \in D : h[s] = IF s = {} THEN base ELSE G[<<h[s \ {Max(s)}], Max(s)>>]
  BY <1>2, <1>7 DEF Solves
<1> HIDE DEF rank, B
<1> QED BY <1>8 DEF Iterates

\* H begins with base and goes on by G where its values are in T.
Unfolds(H, n, T, base, G) ==
  /\ H[{}] = base
  /\ \A s \in SUBSET (1..n) : s # {} /\ H[s \ {Max(s)}] \in T =>
        H[s] = G[<<H[s \ {Max(s)}], Max(s)>>]

\* f is what a fold with the step G goes through.
IsRun(f, n, T, base, G) ==
    /\ f \in [0..n -> T]
    /\ f[0] = base
    /\ \A k \in 1..n : f[k] = G[<<f[k - 1], k>>]

\* The values of H for the prefixes of 1..n
Along(H, n) == [k \in 0..n |-> H[1..k]]

\* An iterator goes along the prefixes of a sequence.
LEMMA FoldAlong ==
  ASSUME NEW n \in Nat, NEW T, NEW base \in T, NEW G \in [T \X (1..n) -> T], NEW H,
         Unfolds(H, n, T, base, G)
  PROVE  IsRun(Along(H, n), n, T, base, G)
<1> DEFINE f == [k \in 0..n |-> H[1..k]]
           S == {k \in 0..n : f[k] \in T}
<1>1. f[0] = base
  <2>1. 1..0 = {}
    OBVIOUS
  <2> QED BY <2>1 DEF Unfolds
<1>2. ASSUME NEW k \in 1..n, f[k - 1] \in T PROVE f[k] = G[<<f[k - 1], k>>]
  <2>1. Max(1..k) = k
    <3>1. 1..k \in SUBSET (1..n) /\ 1..k # {}
      OBVIOUS
    <3>2. Max(1..k) \in 1..k /\ \A y \in 1..k : Max(1..k) >= y
      BY <3>1, MaxIn
    <3> QED BY <3>2
  <2>2. (1..k) \ {k} = 1..(k - 1)
    OBVIOUS
  <2>3. f[k - 1] = H[1..(k - 1)] /\ f[k] = H[1..k]
    OBVIOUS
  <2>4. 1..k \in SUBSET (1..n) /\ 1..k # {}
    OBVIOUS
  <2> HIDE DEF f
  <2> QED BY <1>2, <2>1, <2>2, <2>3, <2>4 DEF Unfolds
<1>3. \A k \in 0..n : k \in S
  <2>1. 0 \in S
    BY <1>1
  <2>2. ASSUME NEW k \in 1..n, k - 1 \in S PROVE k \in S
    <3>1. f[k - 1] \in T
      BY <2>2
    <3>2. f[k] = G[<<f[k - 1], k>>]
      BY <1>2, <3>1
    <3> HIDE DEF f
    <3> QED BY <3>1, <3>2
  <2> HIDE DEF S
  <2> QED BY <2>1, <2>2, Upwards
<1>4. f \in [0..n -> T]
  BY <1>3
<1>5. \A k \in 1..n : f[k] = G[<<f[k - 1], k>>]
  <2> SUFFICES ASSUME NEW k \in 1..n PROVE f[k] = G[<<f[k - 1], k>>]
    OBVIOUS
  <2>1. k - 1 \in S
    BY <1>3
  <2> QED BY <1>2, <2>1
<1>6. Along(H, n) = f
  BY DEF Along
<1> HIDE DEF f
<1> QED BY <1>1, <1>4, <1>5, <1>6 DEF IsRun

------------------------------------------------------------------------------
(* Sequences, loops and numbers                                             *)

\* What a concatenation has where
LEMMA Joined ==
  ASSUME NEW X, NEW s1 \in Seq(X), NEW s2 \in Seq(X)
  PROVE  /\ s1 \o s2 \in Seq(X)
         /\ Len(s1 \o s2) = Len(s1) + Len(s2)
         /\ \A n \in 1..Len(s1) : (s1 \o s2)[n] = s1[n]
         /\ \A n \in 1..Len(s2) : (s1 \o s2)[Len(s1) + n] = s2[n]
<1> DEFINE s == s1 \o s2
           k == Len(s1)
           m == Len(s2)
<1>1. /\ s \in Seq(X) /\ Len(s) = k + m
      /\ \A n \in 1..(k + m) : s[n] = IF n <= k THEN s1[n] ELSE s2[n - k]
  BY ConcatProperties
<1>2. k \in Nat /\ m \in Nat
  OBVIOUS
<1> HIDE DEF s, k, m
<1>3. ASSUME NEW n \in 1..k PROVE s[n] = s1[n]
  BY <1>1, <1>2
<1>4. ASSUME NEW n \in 1..m PROVE s[k + n] = s2[n]
  <2>1. k + n \in 1..(k + m) /\ ~(k + n <= k) /\ (k + n) - k = n
    BY <1>2
  <2> QED BY <1>1, <2>1
<1> QED BY <1>1, <1>3, <1>4 DEF s, k, m

\* What a piece of a sequence has where
LEMMA Piece ==
  ASSUME NEW X, NEW s \in Seq(X), NEW m \in Nat, NEW n \in Nat, m + n <= Len(s)
  PROVE  /\ SubSeq(s, m + 1, m + n) \in Seq(X)
         /\ Len(SubSeq(s, m + 1, m + n)) = n
         /\ \A i \in 1..n : SubSeq(s, m + 1, m + n)[i] = s[m + i]
<1>0. Len(s) \in Nat
  OBVIOUS
<1> DEFINE a == m + 1
           b == m + n
           sub == SubSeq(s, a, b)
<1>1. \A i \in a..b : s[i] \in X
  <2> SUFFICES ASSUME NEW i \in a..b PROVE s[i] \in X
    OBVIOUS
  <2>1. i \in 1..Len(s)
    BY <1>0
  <2> QED BY <2>1, ElementOfSeq
<1>2. /\ a \in Int /\ b \in Int /\ b - a + 1 = n
      /\ ~(a <= b) => n = 0
      /\ \A i \in 1..n : a + i - 1 = m + i
  OBVIOUS
<1> HIDE DEF a, b
<1>3. /\ sub \in Seq(X)
      /\ Len(sub) = IF a <= b THEN b - a + 1 ELSE 0
      /\ \A i \in 1..(b - a + 1) : sub[i] = s[a + i - 1]
  BY <1>1, <1>2, SubSeqProperties
<1> HIDE DEF sub
<1>4. Len(sub) = n
  BY <1>2, <1>3
<1>5. ASSUME NEW i \in 1..n PROVE sub[i] = s[m + i]
  BY <1>2, <1>3
<1> QED BY <1>3, <1>4, <1>5 DEF sub, a, b

\* The same, of numbers
IsPiece(sub, s, m, n) == sub \in Seq(Nat) /\ Len(sub) = n /\ \A i \in 1..n : sub[i] = s[m + i]

\* SubSeq is such a piece.
LEMMA PieceIs ==
  ASSUME NEW s \in Seq(Nat), NEW m \in Nat, NEW n \in Nat, m + n <= Len(s)
  PROVE  IsPiece(SubSeq(s, m + 1, m + n), s, m, n)
BY Piece DEF IsPiece

\* The growth of the buffer in payload_append_bytes
AllocateAt(allocate, need, n) == IF need > n THEN allocate[2 * n] ELSE n

Allocates(allocate, need) == allocate = [n \in Nat \ {0} |-> AllocateAt(allocate, need, n)]

\* The loop of payload_append_bytes ends, with room for the data.
LEMMA Doubling ==
  ASSUME NEW need \in Nat
  PROVE  /\ \E allocate : Allocates(allocate, need)
         /\ \A allocate : Allocates(allocate, need) =>
              \A n \in Nat \ {0} : allocate[n] \in Nat \ {0} /\ allocate[n] >= need
<1> DEFINE D == Nat \ {0}
           rank == [n \in D |-> IF need > n THEN need - n ELSE 0]
           B == [z \in [D -> D] \X D |-> AllocateAt(z[1], need, z[2])]
<1>1. rank \in [D -> 0..need]
  OBVIOUS
<1>2. \A n \in D : 2 * n \in D /\ (need > n => rank[2 * n] < rank[n])
  OBVIOUS
<1>3. \E allocate : Allocates(allocate, need)
  <2>1. \A h \in [D -> D], n \in D : AllocateAt(h, need, n) \in D
    BY <1>2 DEF AllocateAt
  <2>2. B \in [[D -> D] \X D -> D]
    BY <2>1
  <2>3. \A h \in [D -> D], n \in D : B[<<h, n>>] = AllocateAt(h, need, n)
    OBVIOUS
  <2>4. Grounded(D, D, rank, B)
    <3> SUFFICES ASSUME NEW g \in [D -> D], NEW h \in [D -> D], NEW n \in D,
                        \A y \in D : rank[y] < rank[n] => g[y] = h[y]
                 PROVE  AllocateAt(g, need, n) = AllocateAt(h, need, n)
      BY <2>3 DEF Grounded
    <3> HIDE DEF rank, D
    <3> QED BY <1>2 DEF AllocateAt
  <2>5. PICK h \in [D -> D] : Solves(h, D, B)
    <3>1. 1 \in D
      OBVIOUS
    <3>2. D # {}
      BY <3>1
    <3> HIDE DEF D, rank, B
    <3> QED BY <1>1, <2>2, <2>4, <3>2, RankRecursion
  <2>6. \A n \in D : h[n] = AllocateAt(h, need, n)
    BY <2>3, <2>5 DEF Solves
  <2>7. h = [n \in D |-> AllocateAt(h, need, n)]
    <3> HIDE DEF D
    <3> QED BY <2>6
  <2> QED BY <2>7 DEF Allocates
<1>4. ASSUME NEW f, Allocates(f, need), NEW n \in D PROVE f[n] \in D /\ f[n] >= need
  <2> DEFINE Claim(m) == f[m] \in D /\ f[m] >= need
             Bad == {r \in 0..need : \E m \in D : rank[m] = r /\ ~Claim(m)}
  <2> SUFFICES ASSUME ~Claim(n) PROVE FALSE
    OBVIOUS
  <2>1. rank[n] \in Bad
    BY <1>1
  <2>2. PICK r \in Bad : \A y \in Bad : r <= y
    <3>1. Bad \in SUBSET Nat
      <4> HIDE DEF Claim, rank, D
      <4> QED OBVIOUS
    <3> HIDE DEF Bad
    <3>2. Bad # {}
      BY <2>1
    <3> QED BY <3>1, <3>2, Least
  <2>3. PICK m \in D : rank[m] = r /\ ~Claim(m)
    BY <2>2
  <2>4. f[m] = IF need > m THEN f[2 * m] ELSE m
    BY <1>4 DEF Allocates, AllocateAt
  <2>5. need > m
    BY <2>3, <2>4
  <2>6. 2 * m \in D /\ rank[2 * m] < rank[m] /\ rank[2 * m] \in 0..need
    BY <1>1, <1>2, <2>5
  <2>7. ~Claim(2 * m)
    BY <2>3, <2>4, <2>5
  <2>8. rank[2 * m] \in Bad
    <3> HIDE DEF Claim, rank, D
    <3> QED BY <2>6, <2>7
  <2>9. r <= rank[2 * m] /\ r \in Int
    <3>1. r \in 0..need
      <4> HIDE DEF Claim, rank, D
      <4> QED BY <2>2
    <3> HIDE DEF Bad, rank
    <3>2. r <= rank[2 * m]
      BY <2>2, <2>8, Zenon
    <3> QED BY <3>1, <3>2
  <2> HIDE DEF rank
  <2> QED BY <2>3, <2>6, <2>9
<1> QED BY <1>3, <1>4

\* A function that is either known or made of the value at a place of lower
\* rank: the loops over a tree are such functions.
Descends(h, D, stop, base, next, cons) ==
    h = [x \in D |-> IF stop[x] THEN base[x] ELSE cons[<<x, h[next[x]]>>]]

\* A function that goes from a node to one of lower rank until it stops exists.
LEMMA Descent ==
  ASSUME NEW D, NEW V, V # {}, NEW z \in Nat, NEW rank \in [D -> 0..z],
         NEW stop \in [D -> BOOLEAN], NEW base \in [D -> V], NEW next \in [D -> D],
         NEW cons \in [D \X V -> V],
         \A x \in D : ~stop[x] => rank[next[x]] < rank[x]
  PROVE  \E h \in [D -> V] : Descends(h, D, stop, base, next, cons)
<1> DEFINE Y(h, x) == IF stop[x] THEN base[x] ELSE cons[<<x, h[next[x]]>>]
           B == [p \in [D -> V] \X D |-> Y(p[1], p[2])]
<1>1. \A h \in [D -> V], x \in D : Y(h, x) \in V
  OBVIOUS
<1>2. B \in [[D -> V] \X D -> V] /\ \A h \in [D -> V], x \in D : B[<<h, x>>] = Y(h, x)
  <2> HIDE DEF Y
  <2> QED BY <1>1
<1>3. Grounded(D, V, rank, B)
  <2>1. ASSUME NEW g \in [D -> V], NEW h \in [D -> V], NEW x \in D,
               \A y \in D : rank[y] < rank[x] => g[y] = h[y]
        PROVE  B[<<g, x>>] = B[<<h, x>>]
    <3>1. Y(g, x) = Y(h, x)
      BY <2>1
    <3> HIDE DEF B, Y
    <3> QED BY <1>2, <3>1
  <2> HIDE DEF B
  <2> QED BY <2>1 DEF Grounded
<1> HIDE DEF B
<1>4. PICK h \in [D -> V] : Solves(h, D, B)
  BY <1>2, <1>3, RankRecursion
<1>5. \A x \in D : h[x] = Y(h, x)
  <2> HIDE DEF Y
  <2> QED BY <1>2, <1>4 DEF Solves
<1>6. h = [x \in D |-> Y(h, x)]
  <2> HIDE DEF Y
  <2> QED BY <1>5
<1> QED BY <1>6, Zenon DEF Descends

\* The smaller one of two numbers
LEMMA MinOfTwo ==
  ASSUME NEW x \in Int, NEW y \in Int
  PROVE  Min({x, y}) = IF x <= y THEN x ELSE y
<1> DEFINE z == IF x <= y THEN x ELSE y
<1>1. z \in {x, y} /\ \A u \in {x, y} : z <= u
  OBVIOUS
<1>2. \A v \in {x, y} : (\A u \in {x, y} : v <= u) => v = z
  OBVIOUS
<1> HIDE DEF z
<1>3. Min({x, y}) = z
  BY <1>1, <1>2, Zenon DEF Min
<1> QED BY <1>3 DEF z

\* A quotient is known by its multiple.
LEMMA Quotient ==
  ASSUME NEW x \in Int, NEW m \in Nat \ {0}, NEW q \in Int,
         q * m <= x, x < (q + 1) * m
  PROVE  x \div m = q
<1>1. x \div m \in Int /\ x % m \in 0..(m - 1) /\ x = m * (x \div m) + (x % m)
  OBVIOUS
<1> DEFINE d == x \div m
<1>2. d * m <= x /\ x < (d + 1) * m
  BY <1>1
<1> HIDE DEF d
<1>3. d \in Int
  BY <1>1 DEF d
<1>4. ~(d < q)
  <2> SUFFICES ASSUME d < q PROVE FALSE
    OBVIOUS
  <2>1. (d + 1) * m <= q * m
    BY <1>3
  <2> QED BY <1>2, <1>3, <2>1
<1>5. ~(q < d)
  <2> SUFFICES ASSUME q < d PROVE FALSE
    OBVIOUS
  <2>1. (q + 1) * m <= d * m
    BY <1>3
  <2> QED BY <1>2, <1>3, <2>1
<1>6. d = q
  BY <1>3, <1>4, <1>5
<1> QED BY <1>6 DEF d

\* The factor of div10 is exact enough if it is not too much above a tenth.
LEMMA TenthByFactor ==
  ASSUME NEW m \in Nat, m % 10 \in {2, 4, 6, 8}, NEW v \in Nat, 8 * v < m
  PROVE  (v * (m \div 10 + 1)) \div m = v \div 10
<1> DEFINE f == m \div 10 + 1
           q == v \div 10
           x == v * f
<1>1. f \in Nat /\ 10 * f <= m + 8 /\ m + 2 <= 10 * f
  OBVIOUS
<1>2. q \in Nat /\ 10 * q <= v /\ v <= 10 * q + 9
  OBVIOUS
<1>3. m \in Nat \ {0}
  OBVIOUS
<1> HIDE DEF f, q
<1>4. x \in Nat
  BY <1>1
<1>5. v * m <= 10 * x /\ 10 * x <= v * m + 8 * v
  <2>1. v * (10 * f) = 10 * x
    BY <1>1
  <2>2. v * m <= v * (10 * f) /\ v * (10 * f) <= v * (m + 8)
    BY <1>1
  <2>3. v * (m + 8) = v * m + 8 * v
    OBVIOUS
  <2> QED BY <2>1, <2>2, <2>3
<1>6. 10 * (q * m) <= v * m /\ v * m + m <= 10 * ((q + 1) * m)
  <2>1. (10 * q) * m <= v * m /\ (v + 1) * m <= (10 * q + 10) * m
    BY <1>2
  <2>2. (10 * q) * m = 10 * (q * m) /\ (v + 1) * m = v * m + m
        /\ (10 * q + 10) * m = 10 * ((q + 1) * m)
    BY <1>2
  <2> QED BY <2>1, <2>2
<1> HIDE DEF x
<1>7. q * m \in Int /\ (q + 1) * m \in Int /\ v * m \in Int
  BY <1>2
<1>8. q * m <= x /\ x < (q + 1) * m
  BY <1>4, <1>5, <1>6, <1>7
<1>9. x \div m = q
  BY <1>2, <1>3, <1>4, <1>8, Quotient
<1> QED BY <1>9 DEF x, f, q

\* The sum of the quotients of two halves is right or too large by one.
LEMMA TenthOfHalves ==
  ASSUME NEW n \in Nat \ {0}, NEW h \in Nat, NEW l \in Nat, NEW a \in Nat, NEW b \in Nat,
         a = h \div 10, b = l \div 10, NEW r \in Nat, r = h - a * 10, NEW add \in Nat,
         add = IF r = 0 THEN 0 ELSE (r * n) \div 10 + 1,
         NEW t \in Nat, t = (h * n + l) \div 10
  PROVE  \/ a * n + b + add = t
         \/ a * n + b + add = t + 1 /\ h > 0
<1> DEFINE x == r * n
           y == a * n
<1>1. x \in Nat /\ y \in Nat /\ (r = 0 => x = 0)
  OBVIOUS
<1>2. h * n = 10 * y + x
  <2>1. h = a * 10 + r
    OBVIOUS
  <2>2. (a * 10 + r) * n = 10 * (a * n) + r * n
    OBVIOUS
  <2> QED BY <2>1, <2>2
<1>3. add = IF r = 0 THEN 0 ELSE x \div 10 + 1
  OBVIOUS
<1>4. r > 0 => h > 0
  OBVIOUS
<1> HIDE DEF x, y
<1>5. t = (10 * y + x + l) \div 10
  BY <1>2
<1>6. (10 * y + x + l) \div 10 = y + (x + l) \div 10
  BY <1>1
<1>7. t = y + (x + l) \div 10
  BY <1>5, <1>6
<1>8. CASE r = 0
  BY <1>1, <1>3, <1>7, <1>8 DEF y
<1>9. CASE r # 0
  <2>1. y + b + add = t \/ y + b + add = t + 1
    BY <1>1, <1>3, <1>7, <1>9
  <2> QED BY <1>4, <1>9, <2>1 DEF y
<1> QED BY <1>8, <1>9

\* The sum is corrected if ten times as much does not overflow.
LEMMA Corrected ==
  ASSUME NEW L \in Nat, L % 10 \in {4, 6}, NEW v \in Nat, v < L,
         NEW ret \in Nat, NEW t \in Nat, t = v \div 10, ret = t \/ ret = t + 1,
         NEW res, res = IF (ret * 10) % L > v THEN ret - 1 ELSE ret
  PROVE  res \in {t, ret} /\ (v < L - 6 => res = t)
<1>1. \A x \in Nat : x < L => x % L = x
  OBVIOUS
<1>2. CASE ret = t
  <2>1. ret * 10 \in Nat /\ ret * 10 <= v /\ ret * 10 < L
    BY <1>2
  <2>2. (ret * 10) % L = ret * 10
    BY <1>1, <2>1
  <2> QED BY <1>2, <2>1, <2>2
<1>3. CASE ret = t + 1
  <2>1. res \in {t, ret}
    BY <1>3
  <2>2. ASSUME v < L - 6 PROVE res = t
    <3>1. ret * 10 \in Nat /\ ret * 10 > v /\ ret * 10 < L
      BY <1>3, <2>2
    <3>2. (ret * 10) % L = ret * 10
      BY <1>1, <3>1
    <3> QED BY <1>3, <3>1, <3>2
  <2> QED BY <2>1, <2>2
<1> QED BY <1>2, <1>3

\* The function `value' of NumberOf
Values(value, chars, base) ==
    value = [n \in 0..Len(chars) |-> IF n = 0 THEN 0 ELSE base * value[n - 1] + chars[n]]

\* Digits that stand for v, without leading zeros
Spells(s, base, v) ==
    /\ s \in Seq(0..(base - 1))
    /\ \E f \in [0..Len(s) -> Nat] :
         /\ f[0] = 0
         /\ \A n \in 1..Len(s) : f[n] = base * f[n - 1] + s[n]
         /\ f[Len(s)] = v
    /\ s # <<>> => s[1] # 0

\* No digits stand for 0.
LEMMA SpellsNothing ==
  ASSUME NEW base \in Nat
  PROVE  Spells(<<>>, base, 0)
<1> DEFINE f == [n \in 0..0 |-> 0]
<1>1. Len(<<>>) = 0 /\ <<>> \in Seq(0..(base - 1))
  OBVIOUS
<1>2. f \in [0..0 -> Nat] /\ f[0] = 0
  OBVIOUS
<1> HIDE DEF f
<1> QED BY <1>1, <1>2 DEF Spells

\* One more digit
LEMMA SpellsMore ==
  ASSUME NEW base \in Nat, NEW v \in Nat, NEW s, Spells(s, base, v),
         NEW d \in 0..(base - 1), base * v + d # 0, v # 0 => s # <<>>,
         v = 0 => s = <<>>
  PROVE  Spells(Append(s, d), base, base * v + d) /\ Append(s, d) # <<>>
<1>0. s \in Seq(0..(base - 1)) /\ Len(s) \in Nat /\ (s # <<>> => s[1] # 0)
  BY DEF Spells
<1> DEFINE k == Len(s)
           t == Append(s, d)
<1>1. PICK f \in [0..k -> Nat] :
         /\ f[0] = 0
         /\ \A n \in 1..k : f[n] = base * f[n - 1] + s[n]
         /\ f[k] = v
  BY DEF Spells
<1>2. t \in Seq(0..(base - 1)) /\ Len(t) = k + 1 /\ t[k + 1] = d
      /\ \A n \in 1..k : t[n] = s[n]
  BY <1>0, AppendProperties
<1> DEFINE w == base * v + d
           g == [n \in 0..(k + 1) |-> IF n = k + 1 THEN w ELSE f[n]]
<1>3. w \in Nat
  <2>1. base * v \in Nat
    OBVIOUS
  <2> QED BY <2>1
<1> HIDE DEF t, w
<1>4. g \in [0..(k + 1) -> Nat]
  <2> SUFFICES ASSUME NEW n \in 0..(k + 1), n # k + 1 PROVE f[n] \in Nat
    BY <1>3
  <2>1. n \in 0..k
    BY <1>0
  <2> QED BY <1>1, <2>1
<1>5. g[0] = 0 /\ g[k + 1] = w
  BY <1>0, <1>1
<1>6. ASSUME NEW n \in 1..(k + 1) PROVE g[n] = base * g[n - 1] + t[n]
  <2>1. CASE n = k + 1
    <3>1. n - 1 = k /\ k \in 0..(k + 1) /\ k # k + 1
      BY <1>0, <2>1
    <3>2. g[n - 1] = v
      BY <1>1, <3>1
    <3>3. g[n] = w /\ t[n] = d
      BY <1>2, <1>5, <2>1
    <3> HIDE DEF g
    <3> QED BY <3>2, <3>3 DEF w
  <2>2. CASE n # k + 1
    <3>1. n \in 1..k /\ n \in 0..(k + 1) /\ n - 1 \in 0..(k + 1) /\ n - 1 # k + 1
      BY <1>0, <2>2
    <3>2. g[n] = f[n] /\ g[n - 1] = f[n - 1] /\ t[n] = s[n]
      BY <1>2, <2>2, <3>1
    <3> QED BY <1>1, <3>1, <3>2
  <2> QED BY <2>1, <2>2
<1> HIDE DEF g
<1>7. t[1] # 0
  <2>1. CASE v = 0
    <3>1. k = 0 /\ d # 0
      BY <2>1
    <3> QED BY <1>2, <3>1
  <2>2. CASE v # 0
    <3>1. s # <<>>
      BY <2>2
    <3>2. k >= 1
      BY <1>0, <3>1, EmptySeq
    <3>3. t[1] = s[1]
      BY <1>0, <1>2, <3>2
    <3> QED BY <1>0, <3>1, <3>3
  <2> QED BY <2>1, <2>2
<1>8. t # <<>>
  BY <1>0, <1>2
<1>9. Spells(t, base, w)
  <2> HIDE DEF k
  <2>1. Len(t) = k + 1
    BY <1>2
  <2>2. \E h \in [0..Len(t) -> Nat] :
         /\ h[0] = 0
         /\ \A n \in 1..Len(t) : h[n] = base * h[n - 1] + t[n]
         /\ h[Len(t)] = w
    BY <1>4, <1>5, <1>6, <2>1
  <2> QED BY <1>2, <1>7, <2>2 DEF Spells
<1> QED BY <1>8, <1>9 DEF t, w

\* A number that is not 0 has digits.
LEMMA SpellsSome ==
  ASSUME NEW base \in Nat, NEW v \in Nat, NEW s, Spells(s, base, v)
  PROVE  v # 0 => s # <<>>
<1> SUFFICES ASSUME s = <<>> PROVE v = 0
  OBVIOUS
<1>1. Len(s) = 0
  OBVIOUS
<1> QED BY <1>1 DEF Spells

\* One value of the function `digits' of Digits, and the function
DigitsAt(digits, base, v) == IF v = 0 THEN <<>> ELSE Append(digits[v \div base], v % base)

IsDigits(digits, base) == digits = [v \in Nat |-> DigitsAt(digits, base, v)]

\* The function exists.
LEMMA DigitsExist ==
  ASSUME NEW base \in Nat, base > 1
  PROVE  \E digits : IsDigits(digits, base)
<1> DEFINE V == Seq(Nat)
           rank == [v \in Nat |-> v]
           B == [x \in [Nat -> V] \X Nat |-> DigitsAt(x[1], base, x[2])]
<1>1. rank \in [Nat -> Nat] /\ \A v \in Nat : rank[v] = v
  OBVIOUS
<1>2. \A h \in [Nat -> V], v \in Nat : B[<<h, v>>] = DigitsAt(h, base, v)
  OBVIOUS
<1>3. ASSUME NEW v \in Nat PROVE v \div base \in Nat /\ v % base \in Nat /\ (v # 0 => v \div base < v)
  <2>1. v \div base \in Nat /\ v % base \in Nat /\ v = base * (v \div base) + (v % base)
    OBVIOUS
  <2> DEFINE q == v \div base
             m == v % base
  <2> HIDE DEF q, m
  <2>2. q \in Nat /\ m \in Nat /\ v = base * q + m
    BY <2>1 DEF q, m
  <2>3. base * q >= 2 * q
    BY <2>2
  <2>4. base * q \in Nat
    BY <2>2
  <2>5. v # 0 => q < v
    BY <2>2, <2>3, <2>4
  <2> QED BY <2>1, <2>5 DEF q
<1>4. ASSUME NEW h \in [Nat -> V], NEW v \in Nat PROVE DigitsAt(h, base, v) \in V
  <2>1. h[v \div base] \in V
    BY <1>3
  <2>2. Append(h[v \div base], v % base) \in V
    BY <1>3, <2>1, AppendProperties
  <2>3. <<>> \in V
    BY EmptySeq
  <2> QED BY <2>2, <2>3, Zenon DEF DigitsAt
<1>5. B \in [[Nat -> V] \X Nat -> V]
  BY <1>4
<1>6. V # {}
  BY EmptySeq
<1> HIDE DEF rank, B, V
<1>7. Grounded(Nat, V, rank, B)
  <2> SUFFICES ASSUME NEW g \in [Nat -> V], NEW h \in [Nat -> V], NEW x \in Nat,
                      \A y \in Nat : rank[y] < rank[x] => g[y] = h[y]
               PROVE  B[<<g, x>>] = B[<<h, x>>]
    BY DEF Grounded
  <2>1. x # 0 => g[x \div base] = h[x \div base]
    BY <1>1, <1>3
  <2>2. DigitsAt(g, base, x) = DigitsAt(h, base, x)
    BY <2>1, Zenon DEF DigitsAt
  <2> QED BY <1>2, <2>2
<1>8. PICK h \in [Nat -> V] : Solves(h, Nat, B)
  BY <1>1, <1>5, <1>6, <1>7, NatRecursion
<1>9. IsDigits(h, base)
  BY <1>2, <1>8 DEF Solves, IsDigits
<1> QED BY <1>9

\* The middle of an interval
LEMMA Middle ==
  ASSUME NEW a \in Int, NEW b \in Int, ~(b <= a)
  PROVE  LET m == b \div 2 + a \div 2 IN m \in Int /\ a <= m /\ m < b
OBVIOUS

\* What a multiple says of a quotient
LEMMA AtLeast ==
  ASSUME NEW x \in Nat, NEW d \in Nat \ {0}, NEW q \in Nat, q * d <= x
  PROVE  q <= x \div d
<1> DEFINE e == x \div d
<1>1. e \in Nat /\ x = d * e + (x % d) /\ x % d \in 0..(d - 1)
  OBVIOUS
<1> HIDE DEF e
<1>2. x < (e + 1) * d
  BY <1>1
<1>3. ~(e < q)
  <2> SUFFICES ASSUME e < q PROVE FALSE
    OBVIOUS
  <2>1. (e + 1) * d <= q * d
    BY <1>1
  <2>2. q * d \in Nat /\ (e + 1) * d \in Nat
    BY <1>1
  <2> QED BY <1>2, <2>1, <2>2
<1>4. q <= e
  BY <1>1, <1>3
<1> QED BY <1>4 DEF e

\* The interval that the search begins with
LEMMA Interval ==
  ASSUME NEW x \in Nat, NEW d \in Nat \ {0}, NEW p \in Nat, p <= d, d < 2 * p
  PROVE  /\ x \div d \in Nat /\ x \div p \in Nat /\ x \div (2 * p) \in Nat
         /\ x \div (2 * p) <= x \div d
         /\ x \div d <= x \div p
         /\ (x \div p) * d <= 2 * x
<1>0. p \in Nat \ {0} /\ 2 * p \in Nat \ {0}
  OBVIOUS
<1> DEFINE a == x \div (2 * p)
           q == x \div d
           b == x \div p
<1>1. \A y \in Nat \ {0} : x \div y \in Nat /\ (x \div y) * y <= x
  OBVIOUS
<1>2. a \in Nat /\ a * (2 * p) <= x
  BY <1>0, <1>1
<1>3. q \in Nat /\ q * d <= x
  BY <1>1
<1>4. b \in Nat /\ b * p <= x
  BY <1>0, <1>1
<1> HIDE DEF a, q, b
<1>5. a <= q
  <2>1. a * d <= a * (2 * p)
    BY <1>2
  <2>2. a * d \in Nat /\ a * (2 * p) \in Nat
    BY <1>2
  <2>3. a * d <= x
    BY <1>2, <2>1, <2>2
  <2> QED BY <1>2, <2>3, AtLeast DEF q
<1>6. q <= b
  <2>1. q * p <= q * d
    BY <1>3
  <2>2. q * p \in Nat /\ q * d \in Nat
    BY <1>3
  <2>3. q * p <= x
    BY <1>3, <2>1, <2>2
  <2> QED BY <1>0, <1>3, <2>3, AtLeast DEF b
<1>7. b * d <= 2 * x
  <2>1. b * d <= b * (2 * p) /\ b * (2 * p) = 2 * (b * p)
    BY <1>4
  <2>2. b * d \in Nat /\ b * p \in Nat
    BY <1>4
  <2> QED BY <1>4, <2>1, <2>2
<1> QED BY <1>2, <1>3, <1>4, <1>5, <1>6, <1>7 DEF a, q, b

\* A remainder is known by what it leaves.
LEMMA Remainder ==
  ASSUME NEW x \in Nat, NEW m \in Nat \ {0}, NEW q \in Nat, NEW r \in Nat, r < m, x = q * m + r
  PROVE  x \div m = q /\ x % m = r
<1>1. q * m \in Nat /\ (q + 1) * m = q * m + m
  OBVIOUS
<1>2. q * m <= x /\ x < (q + 1) * m
  BY <1>1
<1>3. x \div m = q
  BY <1>2, Quotient
<1>4. x = m * (x \div m) + (x % m) /\ x % m \in Nat
  OBVIOUS
<1>5. x = m * q + (x % m) /\ m * q = q * m
  BY <1>3, <1>4
<1> QED BY <1>1, <1>3, <1>4, <1>5

\* f adds up the numbers of s.
AddsUp(f, s) ==
    /\ f \in [0..Len(s) -> Nat]
    /\ f[0] = 0
    /\ \A n \in 1..Len(s) : f[n] = f[n - 1] + s[n]

\* Numbers add up.
LEMMA TotalExists ==
  ASSUME NEW s \in Seq(Nat)
  PROVE  \E f : AddsUp(f, s)
<1> DEFINE k == Len(s)
           D == 0..k
           rank == [n \in D |-> n]
           B == [x \in [D -> Nat] \X D |-> IF x[2] = 0 THEN 0 ELSE x[1][x[2] - 1] + s[x[2]]]
<1>0. k \in Nat /\ \A n \in 1..k : s[n] \in Nat
  BY ElementOfSeq
<1> HIDE DEF k
<1>1. rank \in [D -> 0..k] /\ \A n \in D : rank[n] = n
  OBVIOUS
<1>2. \A h \in [D -> Nat], n \in D : B[<<h, n>>] = IF n = 0 THEN 0 ELSE h[n - 1] + s[n]
  OBVIOUS
<1>3. ASSUME NEW h \in [D -> Nat], NEW n \in D PROVE B[<<h, n>>] \in Nat
  <2>1. CASE n = 0
    BY <1>2, <2>1
  <2>2. CASE n # 0
    <3>1. n - 1 \in D /\ n \in 1..k
      BY <1>0, <2>2
    <3>2. h[n - 1] \in Nat /\ s[n] \in Nat
      BY <1>0, <3>1
    <3> HIDE DEF B, D
    <3> QED BY <1>2, <2>2, <3>2
  <2> QED BY <2>1, <2>2
<1>4. B \in [[D -> Nat] \X D -> Nat]
  <2>1. \A x \in [D -> Nat] \X D : x = <<x[1], x[2]>> /\ x[1] \in [D -> Nat] /\ x[2] \in D
    OBVIOUS
  <2>2. \A x \in [D -> Nat] \X D : B[x] \in Nat
    <3> HIDE DEF B, D
    <3> QED BY <1>3, <2>1
  <2>3. B = [x \in [D -> Nat] \X D |-> B[x]]
    OBVIOUS
  <2> HIDE DEF B, D
  <2> QED BY <2>2, <2>3
<1>5. Grounded(D, Nat, rank, B)
  <2> SUFFICES ASSUME NEW g \in [D -> Nat], NEW h \in [D -> Nat], NEW x \in D,
                      \A y \in D : rank[y] < rank[x] => g[y] = h[y]
               PROVE  B[<<g, x>>] = B[<<h, x>>]
    <3> HIDE DEF B, D, rank
    <3> QED BY DEF Grounded
  <2>1. x # 0 => x - 1 \in D /\ rank[x - 1] < rank[x]
    BY <1>0, <1>1
  <2> HIDE DEF B, rank, D
  <2> QED BY <1>2, <2>1
<1>6. PICK h \in [D -> Nat] : Solves(h, D, B)
  <2> HIDE DEF B, rank, D
  <2>1. 0 \in Nat
    OBVIOUS
  <2>2. Nat # {}
    BY <2>1
  <2> QED BY <1>0, <1>1, <1>4, <1>5, <2>2, RankRecursion
<1>7. \A n \in D : h[n] = IF n = 0 THEN 0 ELSE h[n - 1] + s[n]
  <2> HIDE DEF B, D
  <2> QED BY <1>2, <1>6 DEF Solves
<1>8. h[0] = 0 /\ \A n \in 1..k : h[n] = h[n - 1] + s[n]
  BY <1>0, <1>7
<1>9. h \in [0..k -> Nat]
  BY <1>6
<1> QED BY <1>8, <1>9 DEF AddsUp, k

\* Greatest and least numbers
LEMMA MaxMinAre ==
  ASSUME NEW Z \in SUBSET Int, NEW x \in Z
  PROVE  /\ (\A y \in Z : y <= x) => Max(Z) = x
         /\ (\A y \in Z : x <= y) => Min(Z) = x
<1>1. ASSUME \A y \in Z : y <= x PROVE Max(Z) = x
  <2>1. \E a \in Z : \A y \in Z : a >= y
    BY <1>1
  <2>2. Max(Z) \in Z /\ \A y \in Z : Max(Z) >= y
    BY <2>1, Zenon DEF Max
  <2>3. Max(Z) \in Int /\ x \in Int /\ Max(Z) <= x /\ Max(Z) >= x
    BY <1>1, <2>2
  <2> QED BY <2>3
<1>2. ASSUME \A y \in Z : x <= y PROVE Min(Z) = x
  <2>1. \E a \in Z : \A y \in Z : a <= y
    BY <1>2
  <2>2. Min(Z) \in Z /\ \A y \in Z : Min(Z) <= y
    BY <2>1, Zenon DEF Min
  <2>3. Min(Z) \in Int /\ x \in Int /\ Min(Z) <= x /\ x <= Min(Z)
    BY <1>2, <2>2
  <2> QED BY <2>3
<1> QED BY <1>1, <1>2

------------------------------------------------------------------------------
(* Numbers: powers of two                                                   *)

\* p is the function of the powers of two.
Doubles(p) == p = [k \in Nat |-> IF k = 0 THEN 1 ELSE 2 * p[k - 1]]

\* The powers of two double.
LEMMA PowerStep ==
  /\ N!Power \in [Nat -> Nat]
  /\ N!Power[0] = 1
  /\ \A k \in Nat : N!Power[k + 1] = 2 * N!Power[k]
<1> DEFINE rank == [k \in Nat |-> k]
           B == [x \in [Nat -> Nat] \X Nat |-> IF x[2] = 0 THEN 1 ELSE 2 * x[1][x[2] - 1]]
<1>1. rank \in [Nat -> Nat] /\ \A k \in Nat : rank[k] = k
  OBVIOUS
<1>2. \A h \in [Nat -> Nat], k \in Nat : B[<<h, k>>] = IF k = 0 THEN 1 ELSE 2 * h[k - 1]
  OBVIOUS
<1>3. B \in [[Nat -> Nat] \X Nat -> Nat]
  OBVIOUS
<1> HIDE DEF rank, B
<1>4. Grounded(Nat, Nat, rank, B)
  <2> SUFFICES ASSUME NEW g \in [Nat -> Nat], NEW h \in [Nat -> Nat], NEW x \in Nat,
                      \A y \in Nat : rank[y] < rank[x] => g[y] = h[y]
               PROVE  B[<<g, x>>] = B[<<h, x>>]
    BY DEF Grounded
  <2>1. x # 0 => g[x - 1] = h[x - 1]
    BY <1>1
  <2> QED BY <1>2, <2>1
<1>5. PICK h \in [Nat -> Nat] : Solves(h, Nat, B)
  BY <1>1, <1>3, <1>4, NatRecursion
<1>6. Doubles(h)
  BY <1>2, <1>5 DEF Solves, Doubles
<1> DEFINE c == CHOOSE p : Doubles(p)
<1>7. Doubles(c)
  BY <1>6, Zenon
<1>8. N!Power = c
  BY Zenon DEF N!Power, Doubles
<1>9. Doubles(N!Power)
  BY <1>7, <1>8, Zenon
<1> DEFINE p == N!Power
<1> HIDE DEF c, p
<1>10. p = [k \in Nat |-> IF k = 0 THEN 1 ELSE 2 * p[k - 1]]
  BY <1>9, Zenon DEF Doubles, p
<1>11. p[0] = 1 /\ \A k \in Nat : p[k + 1] = 2 * p[k]
  <2>1. \A k \in Nat : k + 1 \in Nat /\ k + 1 # 0 /\ (k + 1) - 1 = k
    OBVIOUS
  <2>2. \A k \in Nat : p[k] = IF k = 0 THEN 1 ELSE 2 * p[k - 1]
    BY <1>10
  <2> QED BY <2>1, <2>2
<1>12. \A k \in Nat : p[k] \in Nat
  <2> SUFFICES ASSUME NEW n \in Nat PROVE p[n] \in Nat
    OBVIOUS
  <2> DEFINE D == {k \in 0..n : p[k] \in Nat}
  <2>1. 0 \in D
    BY <1>11
  <2>2. ASSUME NEW k \in 1..n, k - 1 \in D PROVE k \in D
    <3>1. k - 1 \in Nat /\ (k - 1) + 1 = k
      OBVIOUS
    <3>2. p[k] = 2 * p[k - 1]
      BY <1>11, <3>1
    <3> QED BY <2>2, <3>2
  <2> HIDE DEF D
  <2>3. \A k \in 0..n : k \in D
    BY <2>1, <2>2, Upwards
  <2>4. n \in D
    BY <2>3
  <2> QED BY <2>4 DEF D
<1>13. p \in [Nat -> Nat]
  BY <1>10, <1>12
<1> QED BY <1>11, <1>13 DEF p

\* They are positive and greater than their exponents.
LEMMA PowerPositive ==
  \A k \in Nat : N!Power[k] \in Nat /\ k < N!Power[k]
<1> DEFINE p == N!Power
<1> HIDE DEF p
<1>0. p \in [Nat -> Nat] /\ p[0] = 1 /\ \A k \in Nat : p[k + 1] = 2 * p[k]
  BY PowerStep, Zenon DEF p
<1> SUFFICES ASSUME NEW n \in Nat PROVE p[n] \in Nat /\ n < p[n]
  BY DEF p
<1> DEFINE D == {k \in 0..n : k < p[k]}
<1>1. 0 \in D
  BY <1>0
<1>2. ASSUME NEW k \in 1..n, k - 1 \in D PROVE k \in D
  <2>1. k - 1 \in Nat /\ (k - 1) + 1 = k
    OBVIOUS
  <2>2. p[k] = 2 * p[k - 1] /\ p[k - 1] \in Nat
    BY <1>0, <2>1
  <2> QED BY <1>2, <2>2
<1> HIDE DEF D
<1>3. \A k \in 0..n : k \in D
  BY <1>1, <1>2, Upwards
<1>4. n \in D
  BY <1>3
<1> QED BY <1>0, <1>4 DEF D

\* The powers of a sum are products.
LEMMA PowerSum ==
  ASSUME NEW a \in Nat, NEW b \in Nat
  PROVE  N!Power[a + b] = N!Power[a] * N!Power[b]
<1> DEFINE p == N!Power
<1> HIDE DEF p
<1>0. p \in [Nat -> Nat] /\ p[0] = 1 /\ \A k \in Nat : p[k + 1] = 2 * p[k]
  BY PowerStep, Zenon DEF p
<1> SUFFICES p[a + b] = p[a] * p[b]
  BY DEF p
<1> DEFINE D == {k \in 0..b : p[a + k] = p[a] * p[k]}
<1>1. 0 \in D
  <2>1. p[a] \in Nat /\ a + 0 = a
    BY <1>0
  <2> QED BY <1>0, <2>1
<1>2. ASSUME NEW k \in 1..b, k - 1 \in D PROVE k \in D
  <2>1. k - 1 \in Nat /\ (k - 1) + 1 = k /\ a + (k - 1) \in Nat /\ (a + (k - 1)) + 1 = a + k
    OBVIOUS
  <2>2. p[k] = 2 * p[k - 1] /\ p[k - 1] \in Nat /\ p[a] \in Nat
    BY <1>0, <2>1
  <2>3. p[a + k] = 2 * p[a + (k - 1)]
    BY <1>0, <2>1
  <2>4. p[a + (k - 1)] = p[a] * p[k - 1]
    BY <1>2
  <2>5. p[a + k] = 2 * (p[a] * p[k - 1])
    BY <2>3, <2>4
  <2>6. \A x, y \in Nat : 2 * (x * y) = x * (2 * y)
    OBVIOUS
  <2>7. p[a + k] = p[a] * p[k]
    BY <2>2, <2>5, <2>6
  <2> QED BY <2>7
<1> HIDE DEF D
<1>3. \A k \in 0..b : k \in D
  BY <1>1, <1>2, Upwards
<1>4. b \in D
  BY <1>3
<1> QED BY <1>4 DEF D

\* None but the first is odd or ends in 0.
LEMMA PowerEnds ==
  \A k \in Nat \ {0} : N!Power[k] % 10 \in {2, 4, 6, 8}
<1> DEFINE p == N!Power
<1> HIDE DEF p
<1>0. p \in [Nat -> Nat] /\ p[0] = 1 /\ \A k \in Nat : p[k + 1] = 2 * p[k]
  BY PowerStep, Zenon DEF p
<1> SUFFICES ASSUME NEW n \in Nat \ {0} PROVE p[n] % 10 \in {2, 4, 6, 8}
  BY DEF p
<1> DEFINE D == {0} \cup {k \in 1..n : p[k] % 10 \in {2, 4, 6, 8}}
<1>1. 0 \in D
  OBVIOUS
<1>2. ASSUME NEW k \in 1..n, k - 1 \in D PROVE k \in D
  <2>1. k - 1 \in Nat /\ (k - 1) + 1 = k
    OBVIOUS
  <2>2. p[k] = 2 * p[k - 1] /\ p[k - 1] \in Nat
    BY <1>0, <2>1
  <2>3. CASE k = 1
    <3>1. p[k] = 2
      BY <1>0, <2>2, <2>3
    <3> QED BY <3>1
  <2>4. CASE k # 1
    <3>1. p[k - 1] % 10 \in {2, 4, 6, 8}
      BY <1>2, <2>4
    <3>2. \A x \in Nat : x % 10 \in {2, 4, 6, 8} => (2 * x) % 10 \in {2, 4, 6, 8}
      OBVIOUS
    <3>3. p[k] % 10 \in {2, 4, 6, 8}
      BY <2>2, <3>1, <3>2
    <3> QED BY <3>3
  <2> QED BY <2>3, <2>4
<1> HIDE DEF D
<1>3. \A k \in 0..n : k \in D
  BY <1>1, <1>2, Upwards
<1>4. n \in D
  BY <1>3
<1> QED BY <1>4 DEF D

------------------------------------------------------------------------------
(* Numbers: division by 10, for words of any width                          *)

\* div10, for words of any width
LEMMA Tenth ==
  ASSUME NEW W \in Nat, NEW v \in Nat, v < N!Word(W)
  PROVE  N!div10(W, v) = v \div 10
<1> DEFINE m == N!Power[W + 3]
<1>1. N!Power[3] = 8
  <2>1. N!Power[0 + 1] = 2 * N!Power[0] /\ N!Power[1 + 1] = 2 * N!Power[1]
        /\ N!Power[2 + 1] = 2 * N!Power[2] /\ N!Power[0] = 1
    BY PowerStep
  <2>2. 0 + 1 = 1 /\ 1 + 1 = 2 /\ 2 + 1 = 3
    OBVIOUS
  <2> QED BY <2>1, <2>2
<1>2. m = N!Power[W] * 8
  <2>1. N!Power[W + 3] = N!Power[W] * N!Power[3]
    BY PowerSum
  <2> QED BY <1>1, <2>1, Zenon
<1>3. m \in Nat /\ m % 10 \in {2, 4, 6, 8}
  <2>1. W + 3 \in Nat \ {0}
    OBVIOUS
  <2> QED BY <2>1, PowerEnds, PowerPositive
<1>4. N!Power[W] \in Nat /\ v < N!Power[W]
  BY PowerPositive DEF N!Word
<1>5. 8 * v < m
  BY <1>2, <1>4
<1> HIDE DEF m
<1>6. (v * (m \div 10 + 1)) \div m = v \div 10
  BY <1>3, <1>5, TenthByFactor
<1> QED BY <1>6, Zenon DEF m, N!div10

\* Two words are a long one.
LEMMA Longs ==
  ASSUME NEW W \in Nat
  PROVE  /\ N!Word(W) \in Nat \ {0}
         /\ N!Long(W) = N!Word(W) * N!Word(W)
         /\ N!Long(W) \in Nat \ {0}
         /\ W # 0 => N!Long(W) % 10 \in {4, 6} /\ N!Word(W) >= 2
<1> DEFINE n == N!Power[W]
           L == N!Power[2 * W]
<1>1. n \in Nat /\ W < n
  BY PowerPositive
<1>2. 2 * W = W + W
  OBVIOUS
<1>3. L = n * n
  <2>1. N!Power[W + W] = n * n
    BY PowerSum
  <2> QED BY <1>2, <2>1, Zenon
<1>4. W # 0 => n % 10 \in {2, 4, 6, 8}
  BY PowerEnds
<1> HIDE DEF n, L
<1>5. L \in Nat \ {0}
  <2>1. n * n \in Nat /\ n * n > 0
    BY <1>1
  <2> QED BY <1>3, <2>1
<1>6. ASSUME W # 0 PROVE L % 10 \in {4, 6}
  <2> DEFINE q == n \div 10
             r == n % 10
  <2>1. r \in {2, 4, 6, 8} /\ q \in Nat /\ n = 10 * q + r
    BY <1>1, <1>4, <1>6
  <2> HIDE DEF q, r
  <2>2. n * n = 10 * (10 * (q * q) + 2 * (q * r)) + r * r
    BY <2>1
  <2>3. r * r \in {4, 16, 36, 64}
    BY <2>1
  <2> DEFINE z == 10 * (q * q) + 2 * (q * r)
             y == r * r
  <2>4. z \in Nat /\ L = 10 * z + y
    BY <1>3, <2>1, <2>2
  <2> HIDE DEF z
  <2>5. y \in {4, 16, 36, 64}
    BY <2>3
  <2> HIDE DEF y
  <2> QED BY <2>4, <2>5
<1>7. W # 0 => n >= 2
  BY <1>1
<1>8. n \in Nat \ {0}
  BY <1>1
<1> QED BY <1>3, <1>5, <1>6, <1>7, <1>8 DEF n, L, N!Word, N!Long

\* div10l, for words of any width: right up to the last six values
LEMMA LongTenth ==
  ASSUME NEW W \in Nat \ {0}, NEW v \in Nat, v < N!Long(W)
  PROVE  /\ N!div10l(W, v) \in {v \div 10, v \div 10 + 1}
         /\ N!div10l(W, v) = v \div 10 + 1 => v >= 2
         /\ ~Top(W, v) => N!div10l(W, v) = v \div 10
<1> DEFINE n == N!Word(W)
           L == N!Long(W)
           h == v \div n
           l == v % n
           a == h \div 10
           b == l \div 10
           r == h - a * 10
           add == IF r = 0 THEN 0 ELSE (r * n) \div 10 + 1
           ret == a * n + b + add
           t == v \div 10
           res == IF (ret * 10) % L > v THEN ret - 1 ELSE ret
<1>1. n \in Nat \ {0} /\ L = n * n /\ L \in Nat /\ L % 10 \in {4, 6} /\ n >= 2
  BY Longs
<1>2. N!div10(W, h) = a /\ N!div10(W, l) = b /\ h \in Nat /\ l \in Nat /\ v = h * n + l
      /\ h < n /\ l < n
  <2> HIDE DEF n, L
  <2>1. v < n * n
    BY <1>1 DEF L
  <2>2. h \in Nat /\ l \in Nat /\ l < n /\ v = n * h + l
    BY <1>1
  <2>3. h < n
    <3> HIDE DEF h, l
    <3> SUFFICES ASSUME n <= h PROVE FALSE
      BY <1>1, <2>2
    <3>1. n * n <= n * h
      BY <1>1, <2>2
    <3>2. n * h \in Nat /\ n * n \in Nat
      BY <1>1, <2>2
    <3> QED BY <2>1, <2>2, <3>1, <3>2
  <2> HIDE DEF h, l
  <2>4. N!div10(W, h) = a /\ N!div10(W, l) = b
    BY <2>2, <2>3, Tenth DEF n
  <2>5. n * h = h * n
    BY <1>1, <2>2
  <2> QED BY <2>2, <2>3, <2>4, <2>5
<1>3. N!rest_add(W, r) = add
  BY Zenon DEF N!rest_add
<1>4. N!div10l(W, v) = res
  <2> HIDE DEF a, b
  <2>1. h = v \div N!Word(W) /\ l = v % N!Word(W)
    OBVIOUS
  <2> HIDE DEF add
  <2> QED BY <1>2, <1>3, Zenon DEF N!div10l
<1> HIDE DEF n, L, h, l
<1>5. a \in Nat /\ b \in Nat /\ r \in Nat
  BY <1>2
<1>6. add \in Nat
  <2> HIDE DEF r
  <2>1. r * n \in Nat
    BY <1>1, <1>5
  <2> QED BY <2>1
<1>7. t \in Nat /\ t = (h * n + l) \div 10
  BY <1>2
<1>8. ret = t \/ (ret = t + 1 /\ h > 0)
  <2>1. a = h \div 10 /\ b = l \div 10 /\ r = h - a * 10
    OBVIOUS
  <2>2. add = IF r = 0 THEN 0 ELSE (r * n) \div 10 + 1
    OBVIOUS
  <2> HIDE DEF a, b, r, add, t
  <2>3. \/ a * n + b + add = t
        \/ a * n + b + add = t + 1 /\ h > 0
    BY <1>1, <1>2, <1>5, <1>6, <1>7, <2>1, <2>2, TenthOfHalves
  <2> QED BY <2>3
<1> HIDE DEF a, b, r, add
<1>9. ret \in Nat
  <2>1. a * n \in Nat
    BY <1>1, <1>5
  <2> QED BY <1>5, <1>6, <2>1
<1>10. h > 0 => v >= 2
  <2> SUFFICES ASSUME h > 0 PROVE v >= 2
    OBVIOUS
  <2>1. h * n >= n
    BY <1>1, <1>2
  <2>2. h * n \in Nat
    BY <1>1, <1>2
  <2> QED BY <1>1, <1>2, <2>1, <2>2
<1>11. v < L
  BY DEF L
<1> HIDE DEF ret
<1>12. res \in {t, ret} /\ (v < L - 6 => res = t)
  <2>1. t = v \div 10
    OBVIOUS
  <2>2. ret = t \/ ret = t + 1
    BY <1>8
  <2>3. res = IF (ret * 10) % L > v THEN ret - 1 ELSE ret
    OBVIOUS
  <2> HIDE DEF t, res
  <2> QED BY <1>1, <1>7, <1>9, <1>11, <2>1, <2>2, <2>3, Corrected
<1> HIDE DEF res
<1>13. ~Top(W, v) => v < L - 6
  BY <1>1 DEF Top, L
<1>14. res = t + 1 => v >= 2
  BY <1>7, <1>8, <1>10, <1>12
<1>15. res \in {t, t + 1}
  BY <1>8, <1>12
<1> QED BY <1>4, <1>12, <1>13, <1>14, <1>15

------------------------------------------------------------------------------
(* Numbers: digits and conversions                                          *)

\* They do so in the sense of NumberOf.
LEMMA SpellsNumber ==
  ASSUME NEW base \in Nat, NEW v \in Nat, NEW s, Spells(s, base, v)
  PROVE  NumberOf(s, base) = v
<1>0. s \in Seq(0..(base - 1)) /\ Len(s) \in Nat
  BY DEF Spells
<1> DEFINE D == 0..Len(s)
<1>1. PICK f \in [D -> Nat] :
         /\ f[0] = 0
         /\ \A n \in 1..Len(s) : f[n] = base * f[n - 1] + s[n]
         /\ f[Len(s)] = v
  BY DEF Spells
<1>2. Values(f, s, base)
  <2>1. \A n \in D : f[n] = IF n = 0 THEN 0 ELSE base * f[n - 1] + s[n]
    BY <1>0, <1>1
  <2> QED BY <2>1 DEF Values
<1> DEFINE c == CHOOSE value : Values(value, s, base)
<1>3. Values(c, s, base)
  BY <1>2, Zenon
<1>4. \A n \in 1..Len(s) : s[n] \in 0..(base - 1)
  BY <1>0, ElementOfSeq
<1>5. NumberOf(s, base) = c[Len(s)]
  BY <1>4, Zenon DEF NumberOf, Values
<1> HIDE DEF c
<1>6. \A n \in D : c[n] = IF n = 0 THEN 0 ELSE base * c[n - 1] + s[n]
  BY <1>3 DEF Values
<1> DEFINE K == {n \in D : c[n] = f[n]}
<1>7. 0 \in K
  BY <1>0, <1>1, <1>6
<1>8. ASSUME NEW n \in 1..Len(s), n - 1 \in K PROVE n \in K
  <2>1. n \in D /\ n # 0
    BY <1>0
  <2>2. c[n] = base * c[n - 1] + s[n] /\ c[n - 1] = f[n - 1]
    BY <1>6, <1>8, <2>1
  <2>3. c[n] = f[n]
    BY <1>1, <2>2
  <2> QED BY <2>1, <2>3
<1> HIDE DEF K
<1>9. \A n \in 0..Len(s) : n \in K
  BY <1>0, <1>7, <1>8, Upwards
<1>10. c[Len(s)] = f[Len(s)]
  BY <1>0, <1>9 DEF K
<1> QED BY <1>1, <1>5, <1>10

\* As a conversion writes them
LEMMA SpellsStand ==
  ASSUME NEW base \in Nat, base > 1, NEW v \in Nat, NEW s, v # 0 => Spells(s, base, v)
  PROVE  StandsFor(IF v = 0 THEN N!Zero ELSE s, base, v)
<1>1. CASE v = 0
  <2> DEFINE z == <<0>>
             f == [n \in 0..1 |-> 0]
  <2>1. z \in Seq(0..(base - 1)) /\ Len(z) = 1 /\ z[1] = 0
    OBVIOUS
  <2>2. f \in [0..1 -> Nat] /\ f[0] = 0 /\ f[1] = 0
    OBVIOUS
  <2> DEFINE c == CHOOSE value : Values(value, z, base)
  <2>3. Values(f, z, base)
    <3>1. \A n \in 0..1 : f[n] = IF n = 0 THEN 0 ELSE base * f[n - 1] + z[n]
      BY <2>1, <2>2
    <3> HIDE DEF z
    <3> QED BY <2>1, <3>1 DEF Values
  <2>4. Values(c, z, base)
    BY <2>3, Zenon
  <2>5. \A n \in 1..Len(z) : z[n] \in 0..(base - 1)
    BY <2>1
  <2> HIDE DEF z
  <2>6. NumberOf(z, base) = c[Len(z)]
    BY <2>5, Zenon DEF NumberOf, Values
  <2> HIDE DEF c
  <2>7. c[0] = 0 /\ c[1] = base * c[1 - 1] + z[1]
    BY <2>1, <2>4 DEF Values
  <2>8. c[1] = 0
    BY <2>1, <2>7
  <2>9. NumberOf(z, base) = 0
    BY <2>1, <2>6, <2>8
  <2>10. N!Zero = z
    BY DEF N!Zero, z
  <2>11. ~(0 < 0) /\ ~(Len(z) > 1)
    BY <2>1
  <2>12. StandsFor(z, base, 0)
    BY <2>9, <2>11, Zenon DEF StandsFor
  <2> QED BY <1>1, <2>10, <2>12, Zenon
<1>2. CASE v # 0
  <2>1. NumberOf(s, base) = v
    BY <1>2, SpellsNumber
  <2>2. s \in Seq(0..(base - 1)) /\ s # <<>> /\ s[1] # 0
    BY <1>2, SpellsSome DEF Spells
  <2>3. Head(s) = s[1]
    BY <2>2
  <2>4. ~(v < 0) /\ Head(s) # 0
    BY <2>2, <2>3
  <2>5. StandsFor(s, base, v)
    BY <2>1, <2>4, Zenon DEF StandsFor
  <2> QED BY <1>2, <2>5, Zenon
<1> QED BY <1>1, <1>2

\* Digits in base 8 or 16 stand for the number.
LEMMA DigitsSpell ==
  ASSUME NEW base \in Nat, base > 1, NEW val \in Nat
  PROVE  Spells(N!Digits(val, base), base, val)
<1> DEFINE c == CHOOSE digits : IsDigits(digits, base)
<1>1. IsDigits(c, base)
  BY DigitsExist, Zenon
<1>2. N!Digits(val, base) = c[val]
  BY Zenon DEF N!Digits, IsDigits, DigitsAt
<1> HIDE DEF c
<1>3. \A v \in Nat : c[v] = DigitsAt(c, base, v)
  BY <1>1 DEF IsDigits
<1> DEFINE Good(v) == Spells(c[v], base, v) /\ (v = 0 => c[v] = <<>>)
           K == {n \in 0..val : \A v \in 0..n : Good(v)}
<1>4. Good(0)
  <2>1. c[0] = <<>>
    BY <1>3, Zenon DEF DigitsAt
  <2> QED BY <2>1, SpellsNothing
<1>5. 0 \in K
  <2>1. \A v \in 0..0 : v = 0
    OBVIOUS
  <2> HIDE DEF Good
  <2> QED BY <1>4, <2>1
<1>6. ASSUME NEW n \in 1..val, n - 1 \in K PROVE n \in K
  <2> DEFINE q == n \div base
             m == n % base
  <2>1. q \in Nat /\ m \in 0..(base - 1) /\ n = base * q + m
    OBVIOUS
  <2> HIDE DEF q, m
  <2>2. q < n
    <3>1. base * q >= 2 * q
      BY <2>1
    <3>2. base * q \in Nat
      BY <2>1
    <3> QED BY <2>1, <3>1, <3>2
  <2>3. Good(q)
    <3>1. q \in 0..(n - 1)
      BY <2>1, <2>2
    <3> HIDE DEF Good
    <3> QED BY <1>6, <3>1
  <2>4. c[n] = Append(c[q], m)
    <3>1. n # 0 /\ n \in Nat
      OBVIOUS
    <3> QED BY <1>3, <3>1, Zenon DEF DigitsAt, q, m
  <2>5. q # 0 => c[q] # <<>>
    BY <2>1, <2>3, SpellsSome
  <2>6. base * q + m # 0
    BY <2>1
  <2>7. Spells(Append(c[q], m), base, base * q + m)
    BY <2>1, <2>3, <2>5, <2>6, SpellsMore
  <2>8. Spells(c[n], base, n)
    BY <2>1, <2>4, <2>7, Zenon
  <2>9. Good(n)
    <3>1. n # 0
      OBVIOUS
    <3> QED BY <2>8, <3>1, Zenon
  <2> HIDE DEF Good
  <2>10. \A v \in 0..n : v \in 0..(n - 1) \/ v = n
    OBVIOUS
  <2>11. \A v \in 0..(n - 1) : Good(v)
    BY <1>6
  <2>12. \A v \in 0..n : Good(v)
    BY <2>9, <2>10, <2>11, Zenon
  <2> QED BY <2>12
<1> HIDE DEF K
<1>7. \A n \in 0..val : n \in K
  BY <1>5, <1>6, Upwards
<1>8. Good(val)
  <2>1. val \in K /\ val \in 0..val
    BY <1>7
  <2> HIDE DEF Good
  <2> QED BY <2>1 DEF K
<1> QED BY <1>2, <1>8, Zenon

\* The same for the function `decimal' of Decimal
DecimalAt(decimal, W, v) ==
    IF v = 0 THEN <<>>
    ELSE Append(decimal[N!div10l(W, v)], (v - N!div10l(W, v) * 10) % N!Long(W))

IsDecimal(decimal, W) == decimal = [v \in 0..(N!Long(W) - 1) |-> DecimalAt(decimal, W, v)]

\* The function exists.
LEMMA DecimalExists ==
  ASSUME NEW W \in Nat \ {0}
  PROVE  \E decimal : IsDecimal(decimal, W)
<1> DEFINE L == N!Long(W)
           D == 0..(L - 1)
           V == Seq(Nat)
           rank == [v \in D |-> v]
           B == [x \in [D -> V] \X D |-> DecimalAt(x[1], W, x[2])]
<1>0. L \in Nat \ {0}
  BY Longs
<1>1. rank \in [D -> Nat] /\ \A v \in D : rank[v] = v
  OBVIOUS
<1>2. \A h \in [D -> V], v \in D : B[<<h, v>>] = DecimalAt(h, W, v)
  OBVIOUS
<1>3. ASSUME NEW v \in D, v # 0 PROVE N!div10l(W, v) \in D /\ N!div10l(W, v) < v
  <2> DEFINE t == N!div10l(W, v)
  <2>1. v \in Nat /\ v < N!Long(W)
    BY <1>0
  <2>2. t \in {v \div 10, v \div 10 + 1} /\ (t = v \div 10 + 1 => v >= 2)
    BY <2>1, LongTenth
  <2> HIDE DEF t
  <2>3. t \in Nat /\ t < v
    BY <1>3, <2>1, <2>2
  <2>4. t \in D
    BY <1>0, <2>3
  <2> QED BY <2>3, <2>4 DEF t
<1>4. ASSUME NEW h \in [D -> V], NEW v \in D PROVE DecimalAt(h, W, v) \in V
  <2>1. CASE v = 0
    BY <2>1, EmptySeq, Zenon DEF DecimalAt
  <2>2. CASE v # 0
    <3> DEFINE t == N!div10l(W, v)
    <3>1. t \in D /\ h[t] \in V
      BY <1>3, <2>2
    <3> HIDE DEF t
    <3>2. v - t * 10 \in Int
      BY <1>0, <3>1
    <3>3. (v - t * 10) % L \in Nat
      <4> DEFINE z == v - t * 10
      <4> HIDE DEF z, L
      <4> QED BY <1>0, <3>2 DEF z
    <3> DEFINE d == (v - t * 10) % L
    <3>5. d \in Nat
      BY <3>3
    <3>6. Append(h[t], d) \in V
      <4> HIDE DEF d
      <4> QED BY <3>1, <3>5, AppendProperties
    <3> QED BY <2>2, <3>6, Zenon DEF DecimalAt, t
  <2> QED BY <2>1, <2>2
<1>5. B \in [[D -> V] \X D -> V]
  BY <1>4
<1>6. V # {}
  BY EmptySeq
<1> HIDE DEF rank, B, V, D
<1>7. Grounded(D, V, rank, B)
  <2> SUFFICES ASSUME NEW g \in [D -> V], NEW h \in [D -> V], NEW x \in D,
                      \A y \in D : rank[y] < rank[x] => g[y] = h[y]
               PROVE  B[<<g, x>>] = B[<<h, x>>]
    BY DEF Grounded
  <2>1. x # 0 => g[N!div10l(W, x)] = h[N!div10l(W, x)]
    BY <1>1, <1>3
  <2>2. DecimalAt(g, W, x) = DecimalAt(h, W, x)
    BY <2>1, Zenon DEF DecimalAt
  <2> QED BY <1>2, <2>2
<1>8. PICK h \in [D -> V] : Solves(h, D, B)
  BY <1>1, <1>5, <1>6, <1>7, NatRecursion
<1>9. h = [v \in D |-> DecimalAt(h, W, v)]
  BY <1>2, <1>8 DEF Solves
<1> QED BY <1>9 DEF IsDecimal, D, L

\* Decimal digits stand for the number, up to the last six values.
LEMMA DecimalSpells ==
  ASSUME NEW W \in Nat \ {0}, NEW val \in Nat, val < N!Long(W), ~Top(W, val)
  PROVE  Spells(N!Decimal(W, val), 10, val)
<1> DEFINE c == CHOOSE decimal : IsDecimal(decimal, W)
           L == N!Long(W)
<1>0. L \in Nat \ {0}
  BY Longs
<1>1. IsDecimal(c, W)
  BY DecimalExists, Zenon
<1>2. N!Decimal(W, val) = c[val]
  BY Zenon DEF N!Decimal, IsDecimal, DecimalAt
<1> HIDE DEF c
<1>3. \A v \in 0..(L - 1) : c[v] = DecimalAt(c, W, v)
  BY <1>1 DEF IsDecimal
<1> DEFINE Good(v) == Spells(c[v], 10, v) /\ (v = 0 => c[v] = <<>>)
           K == {n \in 0..val : \A v \in 0..n : Good(v)}
<1>4. Good(0)
  <2>0. 0 \in 0..(L - 1)
    BY <1>0
  <2>1. c[0] = <<>>
    BY <1>3, <2>0, Zenon DEF DecimalAt
  <2>2. 10 \in Nat
    OBVIOUS
  <2> QED BY <2>1, <2>2, SpellsNothing
<1>5. 0 \in K
  <2>1. \A v \in 0..0 : v = 0
    OBVIOUS
  <2> HIDE DEF Good
  <2> QED BY <1>4, <2>1
<1>6. ASSUME NEW n \in 1..val, n - 1 \in K PROVE n \in K
  <2> DEFINE q == n \div 10
             m == n % 10
  <2>0. n \in Nat /\ n < N!Long(W) /\ ~Top(W, n) /\ n \in 0..(L - 1) /\ n # 0
    BY <1>0 DEF Top
  <2>1. N!div10l(W, n) = q
    BY <2>0, LongTenth
  <2>2. q \in Nat /\ m \in 0..9 /\ n = 10 * q + m /\ q < n /\ n - q * 10 = m
    OBVIOUS
  <2> HIDE DEF q, m
  <2>3. m % L = m
    <3>1. m < L
      BY <2>0, <2>2, <1>0
    <3> HIDE DEF L
    <3> QED BY <1>0, <2>2, <3>1
  <2>4. Good(q)
    <3>1. q \in 0..(n - 1)
      BY <2>2
    <3> HIDE DEF Good
    <3> QED BY <1>6, <3>1
  <2>5. c[n] = Append(c[q], m)
    <3>1. c[n] = Append(c[N!div10l(W, n)], (n - N!div10l(W, n) * 10) % L)
      BY <1>3, <2>0, Zenon DEF DecimalAt
    <3>2. c[n] = Append(c[q], (n - q * 10) % L)
      BY <2>1, <3>1, Zenon
    <3> QED BY <2>2, <2>3, <3>2, Zenon
  <2>6. q # 0 => c[q] # <<>>
    BY <2>2, <2>4, SpellsSome
  <2>7. 10 * q + m # 0 /\ 10 \in Nat /\ m \in 0..(10 - 1)
    BY <2>2
  <2>8. Spells(Append(c[q], m), 10, 10 * q + m)
    BY <2>2, <2>4, <2>6, <2>7, SpellsMore
  <2>9. Spells(c[n], 10, n)
    BY <2>2, <2>5, <2>8, Zenon
  <2>10. Good(n)
    BY <2>0, <2>9, Zenon
  <2> HIDE DEF Good
  <2>11. \A v \in 0..n : v \in 0..(n - 1) \/ v = n
    OBVIOUS
  <2>12. \A v \in 0..(n - 1) : Good(v)
    BY <1>6
  <2>13. \A v \in 0..n : Good(v)
    BY <2>10, <2>11, <2>12, Zenon
  <2> QED BY <2>13
<1> HIDE DEF K
<1>7. \A n \in 0..val : n \in K
  BY <1>5, <1>6, Upwards
<1>8. Good(val)
  <2>1. val \in K /\ val \in 0..val
    BY <1>7
  <2> HIDE DEF Good
  <2> QED BY <2>1 DEF K
<1> QED BY <1>2, <1>8, Zenon

\* Powers grow.
LEMMA PowerGrows ==
  ASSUME NEW a \in Nat, NEW b \in Nat, a <= b
  PROVE  N!Power[a] <= N!Power[b]
<1>1. b - a \in Nat /\ a + (b - a) = b
  OBVIOUS
<1>2. N!Power[a + (b - a)] = N!Power[a] * N!Power[b - a]
  BY <1>1, PowerSum
<1> DEFINE x == N!Power[a]
           y == N!Power[b - a]
<1>3. x \in Nat /\ y \in Nat /\ y >= 1
  BY <1>1, PowerPositive
<1>4. N!Power[b] = x * y
  BY <1>1, <1>2, Zenon
<1> HIDE DEF x, y
<1>5. x <= x * y
  BY <1>3
<1>6. x <= N!Power[b]
  BY <1>4, <1>5, Zenon
<1> QED BY <1>6 DEF x

\* Unsigned values, of any width, are printed right up to the last six.
LEMMA UnsignedStands ==
  ASSUME NEW W \in Nat \ {0}, NEW val \in Nat, val < N!Long(W), ~Top(W, val)
  PROVE  StandsFor(N!adbi_write_dec_unlocked(W, val), 10, val)
<1>1. val # 0 => Spells(N!Decimal(W, val), 10, val)
  BY DecimalSpells
<1>2. 10 \in Nat /\ 10 > 1
  OBVIOUS
<1>3. StandsFor(IF val = 0 THEN N!Zero ELSE N!Decimal(W, val), 10, val)
  BY <1>1, <1>2, SpellsStand
<1> QED BY <1>3, Zenon DEF N!adbi_write_dec_unlocked

\* So are values in base 8 and 16.
LEMMA DigitsStand ==
  ASSUME NEW val \in Nat
  PROVE  /\ StandsFor(N!adbi_write_oct_unlocked(val), 8, val)
         /\ StandsFor(N!adbi_write_hex_unlocked(val), 16, val)
<1>1. 8 \in Nat /\ 8 > 1 /\ 16 \in Nat /\ 16 > 1
  OBVIOUS
<1>2. Spells(N!Digits(val, 8), 8, val) /\ Spells(N!Digits(val, 16), 16, val)
  BY <1>1, DigitsSpell
<1>3. /\ StandsFor(IF val = 0 THEN N!Zero ELSE N!Digits(val, 8), 8, val)
      /\ StandsFor(IF val = 0 THEN N!Zero ELSE N!Digits(val, 16), 16, val)
  BY <1>1, <1>2, SpellsStand
<1> QED BY <1>3, Zenon DEF N!adbi_write_oct_unlocked, N!adbi_write_hex_unlocked

\* Signed values are printed right without exception.
LEMMA SignedStands ==
  ASSUME NEW W \in Nat, W > 1, NEW half \in Nat, half = N!Power[2 * W - 1],
         NEW val \in Int, -half <= val, val <= half
  PROVE  StandsFor(N!adbi_write_signed_dec_unlocked(W, val), 10, val)
<1> DEFINE u == N!Abs(val)
           s == N!Decimal(W, u)
           L == N!Long(W)
<1>1. u \in Nat /\ u <= half /\ (val < 0 => u = -val) /\ (~(val < 0) => u = val)
  BY DEF N!Abs
<1>2. L = 2 * half
  <2>1. 2 * W - 1 \in Nat /\ (2 * W - 1) + 1 = 2 * W
    OBVIOUS
  <2>2. N!Power[(2 * W - 1) + 1] = 2 * N!Power[2 * W - 1]
    BY <2>1, PowerStep
  <2>3. N!Power[2 * W] = 2 * N!Power[2 * W - 1]
    BY <2>1, <2>2, Zenon
  <2> QED BY <2>3, Zenon DEF N!Long
<1>3. half > 6
  <2>1. N!Power[3] = 8
    <3>1. N!Power[0 + 1] = 2 * N!Power[0] /\ N!Power[1 + 1] = 2 * N!Power[1]
          /\ N!Power[2 + 1] = 2 * N!Power[2] /\ N!Power[0] = 1
      BY PowerStep
    <3>2. 0 + 1 = 1 /\ 1 + 1 = 2 /\ 2 + 1 = 3
      OBVIOUS
    <3> QED BY <3>1, <3>2
  <2>2. 3 \in Nat /\ 2 * W - 1 \in Nat /\ 3 <= 2 * W - 1
    OBVIOUS
  <2>3. N!Power[3] <= N!Power[2 * W - 1]
    BY <2>2, PowerGrows
  <2> QED BY <2>1, <2>3
<1> HIDE DEF u
<1>4. u < L /\ ~Top(W, u)
  BY <1>1, <1>2, <1>3 DEF Top, L
<1>5. Spells(s, 10, u)
  <2>1. W \in Nat \ {0} /\ u < N!Long(W)
    BY <1>4
  <2> QED BY <1>1, <1>4, <2>1, DecimalSpells
<1> HIDE DEF s
<1>6. 10 \in Nat /\ 10 > 1
  OBVIOUS
<1>7. CASE val < 0
  <2> DEFINE c == <<"-">> \o s
             X == {"-"} \cup Nat
  <2>1. s \in Seq(X) /\ <<"-">> \in Seq(X) /\ Len(<<"-">>) = 1 /\ <<"-">>[1] = "-"
    <3>1. s \in Seq(0..9) /\ 0..9 \subseteq X
      BY <1>5 DEF Spells
    <3>2. s \in Seq(X)
      BY <3>1, SeqMonotonic
    <3> QED BY <3>2
  <2>2. c \in Seq(X) /\ Len(c) = 1 + Len(s) /\ c[1] = "-"
        /\ \A n \in 1..Len(s) : c[n + 1] = s[n]
    <3> HIDE DEF X
    <3>1. Len(s) \in Nat
      BY <2>1
    <3>2. c \in Seq(X) /\ Len(c) = 1 + Len(s)
          /\ \A n \in 1..(1 + Len(s)) : c[n] = IF n <= 1 THEN <<"-">>[n] ELSE s[n - 1]
      BY <2>1, ConcatProperties
    <3> HIDE DEF c
    <3>3. 1 \in 1..(1 + Len(s))
      BY <3>1
    <3>4. c[1] = "-"
      BY <2>1, <3>2, <3>3
    <3>5. ASSUME NEW n \in 1..Len(s) PROVE c[n + 1] = s[n]
      <4>1. n + 1 \in 1..(1 + Len(s)) /\ ~(n + 1 <= 1) /\ (n + 1) - 1 = n
        BY <3>1
      <4> QED BY <3>2, <4>1
    <3> QED BY <3>2, <3>4, <3>5
  <2> HIDE DEF c, X
  <2>3. c # <<>> /\ Len(s) \in Nat
    BY <2>1, <2>2
  <2>4. Head(c) = "-"
    BY <2>2, <2>3
  <2>5. Tail(c) = s
    <3>1. Tail(c) \in Seq(X) /\ Len(Tail(c)) = Len(c) - 1
          /\ \A n \in 1..Len(Tail(c)) : Tail(c)[n] = c[n + 1]
      BY <2>2, <2>3, HeadTailProperties
    <3>2. Len(Tail(c)) = Len(s)
      BY <2>2, <2>3, <3>1
    <3>3. \A n \in 1..Len(Tail(c)) : Tail(c)[n] = s[n]
      BY <2>2, <3>1, <3>2
    <3> QED BY <2>1, <3>1, <3>2, <3>3, SeqEqual
  <2>6. NumberOf(s, 10) = u
    BY <1>1, <1>5, <1>6, SpellsNumber
  <2>7. StandsFor(c, 10, val)
    <3>1. NumberOf(Tail(c), 10) = -val
      BY <1>1, <1>7, <2>5, <2>6
    <3> QED BY <1>7, <2>4, <3>1, Zenon DEF StandsFor
  <2>8. val # 0
    BY <1>7
  <2> QED BY <1>7, <2>7, <2>8, Zenon DEF N!adbi_write_signed_dec_unlocked, c, s, u
<1>8. CASE ~(val < 0)
  <2>1. u = val
    BY <1>1, <1>8
  <2>2. StandsFor(IF u = 0 THEN N!Zero ELSE s, 10, u)
    BY <1>1, <1>5, <1>6, SpellsStand
  <2>3. <<>> \o s = s
    <3>1. s \in Seq(0..9)
      BY <1>5 DEF Spells
    <3> QED BY <3>1, ConcatEmptySeq
  <2>4. N!adbi_write_signed_dec_unlocked(W, val) = IF u = 0 THEN N!Zero ELSE s
    <3>1. N!adbi_write_signed_dec_unlocked(W, val)
             = IF val = 0 THEN N!Zero ELSE (IF val < 0 THEN <<"-">> ELSE <<>>) \o s
      BY Zenon DEF N!adbi_write_signed_dec_unlocked, s, u
    <3>2. N!adbi_write_signed_dec_unlocked(W, val) = IF val = 0 THEN N!Zero ELSE <<>> \o s
      BY <1>8, <3>1, Zenon
    <3> QED BY <2>1, <2>3, <3>2, Zenon
  <2> QED BY <2>1, <2>2, <2>4, Zenon
<1> QED BY <1>7, <1>8

\* "l" and "h" are counted apart.
LEMMA Apiece ==
  ASSUME NEW m \in Seq({"l", "h"})
  PROVE  /\ N!Count(m, "l") \in Nat /\ N!Count(m, "h") \in Nat
         /\ N!Count(m, "h") = Len(m) - N!Count(m, "l")
<1> DEFINE D == 1..Len(m)
           A == {n \in D : m[n] = "l"}
           B == {n \in D : m[n] = "h"}
<1>0. Len(m) \in Nat
  OBVIOUS
<1>1. IsFiniteSet(D) /\ Cardinality(D) = Len(m)
  <2>1. 1 \in Int /\ Len(m) \in Int
    BY <1>0
  <2>2. IsFiniteSet(1..Len(m)) /\ Cardinality(1..Len(m)) = IF 1 > Len(m) THEN 0 ELSE Len(m) - 1 + 1
    BY <2>1, FS_Interval
  <2> QED BY <1>0, <2>2
<1>2. \A n \in D : m[n] \in {"l", "h"}
  BY ElementOfSeq
<1>3. A \cup B = D /\ A \cap B = {} /\ A \subseteq D /\ B \subseteq D
  BY <1>2
<1> HIDE DEF A, B, D
<1>4. IsFiniteSet(A) /\ IsFiniteSet(B)
  BY <1>1, <1>3, FS_Subset
<1>5. Cardinality(A) \in Nat /\ Cardinality(B) \in Nat
  BY <1>4, FS_CardinalityType
<1>6. Cardinality(A \cup B) = Cardinality(A) + Cardinality(B) - Cardinality(A \cap B)
  BY <1>4, FS_Union
<1>7. Cardinality(A \cap B) = 0
  BY <1>3, FS_EmptySet
<1>8. Cardinality(A) + Cardinality(B) = Len(m)
  <2>1. Cardinality(A \cup B) = Len(m)
    BY <1>1, <1>3, Zenon
  <2> QED BY <1>0, <1>5, <1>6, <1>7, <2>1
<1>9. N!Count(m, "l") = Cardinality(A) /\ N!Count(m, "h") = Cardinality(B)
  <2>1. N!Cardinality(A) = Cardinality(A) /\ N!Cardinality(B) = Cardinality(B)
    BY Zenon DEF N!Cardinality, Cardinality
  <2> QED BY <2>1, Zenon DEF N!Count, A, B, D
<1> QED BY <1>0, <1>5, <1>8, <1>9

\* The bits of an argument that a conversion with the modifiers m takes
BitsOf(W, m) == IF N!Count(m, "l") - (Len(m) - N!Count(m, "l")) >= 2 THEN 2 * W ELSE W

\* A word as a signed number
AsSigned(v, nb) == IF v >= N!Power[nb - 1] THEN v - N!Power[nb] ELSE v

\* Conversions, for words of any width, print the argument they take.
THEOREM ConversionStands ==
  ASSUME NEW W \in Nat, W > 1, NEW m \in Seq({"l", "h"}), NEW arg \in Nat,
         NEW v, v = arg % N!Power[BitsOf(W, m)]
  PROVE  /\ StandsFor(N!Convert(W, m, "x", arg), 16, v)
         /\ StandsFor(N!Convert(W, m, "o", arg), 8, v)
         /\ Top(W, v) \/ StandsFor(N!Convert(W, m, "u", arg), 10, v)
         /\ StandsFor(N!Convert(W, m, "d", arg), 10, AsSigned(v, BitsOf(W, m)))
<1> DEFINE nb == BitsOf(W, m)
           value(letter) == N!Taken(arg, nb, letter \in {"i", "d"})
<1>1. nb = IF 3 + N!Count(m, "l") - N!Count(m, "h") >= 5 THEN 2 * W ELSE W
  <2>1. N!Count(m, "l") \in Nat /\ N!Count(m, "h") = Len(m) - N!Count(m, "l") /\ Len(m) \in Nat
    BY Apiece
  <2> DEFINE a == N!Count(m, "l")
  <2>2. 3 + a - (Len(m) - a) >= 5 <=> a - (Len(m) - a) >= 2
    <3> HIDE DEF a
    <3>1. a \in Nat
      BY <2>1 DEF a
    <3> QED BY <2>1, <3>1
  <2>3. 3 + a - N!Count(m, "h") >= 5 <=> a - (Len(m) - a) >= 2
    BY <2>1, <2>2, Zenon
  <2> QED BY <2>3, Zenon DEF BitsOf
<1>2. nb \in Nat \ {0} /\ nb <= 2 * W
  BY DEF BitsOf
<1> HIDE DEF nb
<1>3. /\ N!Convert(W, m, "x", arg) = N!adbi_write_hex_unlocked(value("x"))
      /\ N!Convert(W, m, "o", arg) = N!adbi_write_oct_unlocked(value("o"))
      /\ N!Convert(W, m, "u", arg) = N!adbi_write_dec_unlocked(W, value("u"))
      /\ N!Convert(W, m, "d", arg) = N!adbi_write_signed_dec_unlocked(W, value("d"))
  BY <1>1 DEF N!Convert
<1>4. N!Power[nb] \in Nat \ {0} /\ N!Power[nb - 1] \in Nat /\ N!Power[nb] = 2 * N!Power[nb - 1]
  <2>1. nb - 1 \in Nat /\ (nb - 1) + 1 = nb
    BY <1>2
  <2>2. N!Power[(nb - 1) + 1] = 2 * N!Power[nb - 1]
    BY <2>1, PowerStep
  <2> QED BY <1>2, <2>1, <2>2, PowerPositive
<1>5. v \in Nat /\ v < N!Power[nb] /\ v = arg % N!Power[nb]
  <2> DEFINE p == N!Power[nb]
  <2>1. v = arg % p
    BY DEF nb
  <2> HIDE DEF p
  <2>2. p \in Nat \ {0}
    BY <1>4 DEF p
  <2> QED BY <2>1, <2>2 DEF p
<1>6. value("x") = v /\ value("o") = v /\ value("u") = v
  <2>1. "x" \notin {"i", "d"} /\ "o" \notin {"i", "d"} /\ "u" \notin {"i", "d"}
    OBVIOUS
  <2> QED BY <1>5, <2>1, Zenon DEF N!Taken
<1>7. value("d") = AsSigned(v, nb)
  <2>1. "d" \in {"i", "d"}
    OBVIOUS
  <2> QED BY <1>5, <2>1, Zenon DEF N!Taken, AsSigned
<1>8. N!Power[nb] <= N!Long(W) /\ N!Power[nb - 1] <= N!Power[2 * W - 1] /\ N!Power[2 * W - 1] \in Nat
  <2>1. 2 * W \in Nat /\ 2 * W - 1 \in Nat /\ nb - 1 \in Nat /\ nb - 1 <= 2 * W - 1
    BY <1>2
  <2> QED BY <1>2, <2>1, PowerGrows, PowerPositive DEF N!Long
<1> HIDE DEF value
<1>9. StandsFor(N!Convert(W, m, "x", arg), 16, v) /\ StandsFor(N!Convert(W, m, "o", arg), 8, v)
  <2>1. StandsFor(N!adbi_write_hex_unlocked(v), 16, v) /\ StandsFor(N!adbi_write_oct_unlocked(v), 8, v)
    BY <1>5, DigitsStand
  <2> QED BY <1>3, <1>6, <2>1, Zenon
<1>10. ASSUME ~Top(W, v) PROVE StandsFor(N!Convert(W, m, "u", arg), 10, v)
  <2>1. W \in Nat \ {0} /\ v < N!Long(W)
    <3>1. N!Long(W) \in Nat
      BY Longs
    <3> QED BY <1>4, <1>5, <1>8, <3>1
  <2>2. StandsFor(N!adbi_write_dec_unlocked(W, v), 10, v)
    BY <1>5, <1>10, <2>1, UnsignedStands
  <2> QED BY <1>3, <1>6, <2>2, Zenon
<1>11. StandsFor(N!Convert(W, m, "d", arg), 10, AsSigned(v, nb))
  <2> DEFINE s == AsSigned(v, nb)
             half == N!Power[2 * W - 1]
             p == N!Power[nb - 1]
  <2>1. s = IF v >= p THEN v - 2 * p ELSE v
    BY <1>4, Zenon DEF AsSigned
  <2>2. p \in Nat /\ half \in Nat /\ p <= half /\ v < 2 * p
    BY <1>4, <1>5, <1>8
  <2> HIDE DEF s, p
  <2>3. half \in Nat /\ half = N!Power[2 * W - 1]
    BY <1>8
  <2> HIDE DEF half
  <2>4. s \in Int /\ -half <= s /\ s <= half
    BY <1>5, <2>1, <2>2
  <2>5. StandsFor(N!adbi_write_signed_dec_unlocked(W, s), 10, s)
    BY <2>3, <2>4, SignedStands
  <2> QED BY <1>3, <1>7, <2>5, Zenon DEF s
<1> QED BY <1>9, <1>10, <1>11, Zenon DEF nb

------------------------------------------------------------------------------
(* Numbers: division                                                        *)

\* One value of the function `search' of Search, and the function
SearchAt(search, n, dividend, divisor, i) ==
    LET a == i[1]
        b == i[2]
        quotient == b \div 2 + a \div 2
        q == (quotient * divisor) % n
    IN  IF b <= a THEN a
        ELSE IF q > dividend THEN search[<<a, quotient - 1>>]
        ELSE IF dividend - q < divisor THEN quotient
        ELSE search[<<quotient + 1, b>>]

IsSearch(search, n, dividend, divisor) ==
    search = [i \in Int \X Int |-> SearchAt(search, n, dividend, divisor, i)]

\* The function exists.
LEMMA SearchExists ==
  ASSUME NEW n, NEW dividend, NEW divisor
  PROVE  \E search : IsSearch(search, n, dividend, divisor)
<1> DEFINE D == Int \X Int
           rank == [x \in D |-> IF x[2] <= x[1] THEN 0 ELSE x[2] - x[1]]
           At(h, x) == SearchAt(h, n, dividend, divisor, x)
           B == [y \in [D -> Int] \X D |-> At(y[1], y[2])]
<1>1. rank \in [D -> Nat]
      /\ \A a, b \in Int : <<a, b>> \in D /\ rank[<<a, b>>] = IF b <= a THEN 0 ELSE b - a
  OBVIOUS
<1>2. \A h \in [D -> Int], x \in D : B[<<h, x>>] = At(h, x)
  OBVIOUS
<1>3. ASSUME NEW a \in Int, NEW b \in Int, ~(b <= a)
      PROVE  LET m == b \div 2 + a \div 2
             IN  /\ m \in Int
                 /\ <<a, m - 1>> \in D /\ rank[<<a, m - 1>>] < rank[<<a, b>>]
                 /\ <<m + 1, b>> \in D /\ rank[<<m + 1, b>>] < rank[<<a, b>>]
  <2> DEFINE m == b \div 2 + a \div 2
  <2>1. m \in Int /\ a <= m /\ m < b
    BY <1>3, Middle
  <2> HIDE DEF m, rank, D
  <2>2. m - 1 \in Int /\ m + 1 \in Int
    BY <2>1
  <2>3. rank[<<a, m - 1>>] < rank[<<a, b>>] /\ rank[<<m + 1, b>>] < rank[<<a, b>>]
    BY <1>1, <1>3, <2>1, <2>2
  <2> QED BY <1>1, <2>1, <2>2, <2>3, Zenon DEF m
<1>4. ASSUME NEW h \in [D -> Int], NEW a \in Int, NEW b \in Int
      PROVE  SearchAt(h, n, dividend, divisor, <<a, b>>) \in Int
  <2> DEFINE m == b \div 2 + a \div 2
             i == <<a, b>>
  <2>0. i[1] = a /\ i[2] = b
    OBVIOUS
  <2> HIDE DEF i
  <2>1. CASE b <= a
    BY <2>0, <2>1, Zenon DEF SearchAt, i
  <2>2. CASE ~(b <= a)
    <3>1. m \in Int /\ <<a, m - 1>> \in D /\ <<m + 1, b>> \in D
      BY <1>3, <2>2
    <3> HIDE DEF m, D
    <3>2. h[<<a, m - 1>>] \in Int /\ h[<<m + 1, b>>] \in Int
      BY <3>1
    <3>3. SearchAt(h, n, dividend, divisor, i) \in Int
      BY <2>0, <2>2, <3>1, <3>2, Zenon DEF SearchAt, m
    <3> QED BY <3>3, Zenon DEF i
  <2> QED BY <2>1, <2>2
<1>5. B \in [[D -> Int] \X D -> Int]
  <2>1. ASSUME NEW h \in [D -> Int], NEW x \in D PROVE At(h, x) \in Int
    <3>1. x[1] \in Int /\ x[2] \in Int /\ x = <<x[1], x[2]>>
      OBVIOUS
    <3> HIDE DEF D
    <3>2. SearchAt(h, n, dividend, divisor, <<x[1], x[2]>>) \in Int
      BY <1>4, <3>1
    <3> QED BY <3>1, <3>2, Zenon
  <2> HIDE DEF At, D
  <2> QED BY <2>1
<1>6. Grounded(D, Int, rank, B)
  <2> SUFFICES ASSUME NEW g \in [D -> Int], NEW h \in [D -> Int], NEW x \in D,
                      \A y \in D : rank[y] < rank[x] => g[y] = h[y]
               PROVE  At(g, x) = At(h, x)
    <3> HIDE DEF At, B, D, rank
    <3> QED BY <1>2 DEF Grounded
  <2> DEFINE a == x[1]
             b == x[2]
             m == b \div 2 + a \div 2
  <2>0. a \in Int /\ b \in Int /\ x = <<a, b>>
    OBVIOUS
  <2> HIDE DEF rank, D, a, b
  <2>1. ~(b <= a) => g[<<a, m - 1>>] = h[<<a, m - 1>>] /\ g[<<m + 1, b>>] = h[<<m + 1, b>>]
    BY <1>3, <2>0
  <2>2. SearchAt(g, n, dividend, divisor, x) = SearchAt(h, n, dividend, divisor, x)
    BY <2>1, Zenon DEF SearchAt, a, b
  <2> QED BY <2>2, Zenon
<1>7. PICK h \in [D -> Int] : Solves(h, D, B)
  <2>1. 0 \in Int
    OBVIOUS
  <2>2. Int # {}
    BY <2>1
  <2> HIDE DEF rank, B, D
  <2> QED BY <1>1, <1>5, <1>6, <2>2, NatRecursion
<1>8. \A x \in D : h[x] = At(h, x)
  <2> HIDE DEF B, D, At
  <2> QED BY <1>2, <1>7 DEF Solves
<1>9. h = [x \in D |-> At(h, x)]
  <2> HIDE DEF D, At
  <2> QED BY <1>8
<1>10. IsSearch(h, n, dividend, divisor)
  BY <1>9, Zenon DEF IsSearch
<1> QED BY <1>10

\* The binary search finds the quotient if it is in the interval and no
\* product overflows.
LEMMA SearchFinds ==
  ASSUME NEW n \in Nat \ {0}, NEW dividend \in Nat, NEW divisor \in Nat \ {0},
         NEW from \in Nat, NEW to \in Nat, NEW quot \in Nat, quot = dividend \div divisor,
         from <= quot, quot <= to, to * divisor < n
  PROVE  N!Search(n, dividend, divisor, from, to) = quot
<1> DEFINE c == CHOOSE search : IsSearch(search, n, dividend, divisor)
<1>1. IsSearch(c, n, dividend, divisor)
  BY SearchExists, Zenon
<1>2. N!Search(n, dividend, divisor, from, to) = c[<<from, to>>]
  BY Zenon DEF N!Search, IsSearch, SearchAt
<1> HIDE DEF c
<1>3. \A i \in Int \X Int : c[i] = SearchAt(c, n, dividend, divisor, i)
  BY <1>1 DEF IsSearch
<1>4. dividend = divisor * quot + (dividend % divisor) /\ dividend % divisor \in 0..(divisor - 1)
  OBVIOUS
<1>5. quot * divisor <= dividend /\ dividend < (quot + 1) * divisor
  BY <1>4
<1> DEFINE Found(a, b) == 0 <= a /\ a <= quot /\ quot <= b /\ b <= to
           K == {k \in 0..(to - from) : \A a, b \in Int :
                    Found(a, b) /\ b - a <= k => c[<<a, b>>] = quot}
<1>6. ASSUME NEW a \in Int, NEW b \in Int, Found(a, b), b <= a PROVE c[<<a, b>>] = quot
  <2> DEFINE i == <<a, b>>
  <2>1. i \in Int \X Int /\ i[1] = a /\ i[2] = b
    OBVIOUS
  <2>2. a = quot
    BY <1>6
  <2> HIDE DEF i
  <2>3. c[i] = a
    BY <1>3, <1>6, <2>1, Zenon DEF SearchAt
  <2> QED BY <2>2, <2>3 DEF i
<1>7. 0 \in K
  <2>1. ASSUME NEW a \in Int, NEW b \in Int, Found(a, b), b - a <= 0 PROVE c[<<a, b>>] = quot
    <3>1. b <= a
      BY <2>1
    <3> HIDE DEF Found
    <3> QED BY <1>6, <2>1, <3>1
  <2>2. 0 \in 0..(to - from)
    OBVIOUS
  <2> HIDE DEF Found
  <2> QED BY <2>1, <2>2
<1>8. ASSUME NEW k \in 1..(to - from), k - 1 \in K PROVE k \in K
  <2>1. ASSUME NEW a \in Int, NEW b \in Int, Found(a, b), b - a <= k, ~(b <= a)
        PROVE  c[<<a, b>>] = quot
    <3> DEFINE i == <<a, b>>
               m == b \div 2 + a \div 2
               q == (m * divisor) % n
    <3>1. i \in Int \X Int /\ i[1] = a /\ i[2] = b
      OBVIOUS
    <3>2. m \in Int /\ a <= m /\ m < b
      BY <2>1, Middle
    <3> HIDE DEF m
    <3>3. m \in Nat /\ m <= to
      BY <2>1, <3>2
    <3>4. m * divisor \in Nat /\ m * divisor <= to * divisor
      BY <3>3
    <3>5. q = m * divisor
      <4> DEFINE z == m * divisor
      <4>1. z \in Nat /\ z < n
        BY <3>4
      <4> HIDE DEF z
      <4>2. z % n = z
        BY <4>1
      <4> QED BY <4>2 DEF z
    <3> HIDE DEF q, i
    <3>6. c[i] = IF q > dividend THEN c[<<a, m - 1>>]
                 ELSE IF dividend - q < divisor THEN m ELSE c[<<m + 1, b>>]
      BY <1>3, <2>1, <3>1, Zenon DEF SearchAt, m, q
    <3>7. CASE q > dividend
      <4>1. quot < m
        <5> SUFFICES ASSUME m <= quot PROVE FALSE
          BY <3>3
        <5>1. m * divisor <= quot * divisor
          BY <3>3
        <5> QED BY <1>5, <3>4, <3>5, <3>7, <5>1
      <4>2. m - 1 \in Int /\ Found(a, m - 1) /\ (m - 1) - a <= k - 1
        BY <2>1, <3>2, <3>3, <4>1
      <4> HIDE DEF Found
      <4>3. c[<<a, m - 1>>] = quot
        BY <1>8, <4>2
      <4> QED BY <3>6, <3>7, <4>3 DEF i
    <3>8. CASE ~(q > dividend)
      <4>0. q \in Nat /\ q <= dividend
        BY <3>4, <3>5, <3>8
      <4>1. CASE dividend - q < divisor
        <5>1. (m + 1) * divisor = m * divisor + divisor
          BY <3>3
        <5>2. m * divisor <= dividend /\ dividend < (m + 1) * divisor
          BY <3>4, <3>5, <4>0, <4>1, <5>1
        <5>3. dividend \div divisor = m
          BY <3>3, <5>2, Quotient
        <5> QED BY <3>6, <3>8, <4>1, <5>3 DEF i
      <4>2. CASE ~(dividend - q < divisor)
        <5>1. m < quot
          <6> SUFFICES ASSUME quot <= m PROVE FALSE
            BY <3>3
          <6>1. (quot + 1) * divisor <= (m + 1) * divisor
            BY <3>3
          <6>2. (m + 1) * divisor = m * divisor + divisor
            BY <3>3
          <6> QED BY <1>5, <3>4, <3>5, <4>0, <4>2, <6>1, <6>2
        <5>2. m + 1 \in Int /\ Found(m + 1, b) /\ b - (m + 1) <= k - 1
          BY <2>1, <3>2, <3>3, <5>1
        <5> HIDE DEF Found
        <5>3. c[<<m + 1, b>>] = quot
          BY <1>8, <5>2
        <5> QED BY <3>6, <3>8, <4>2, <5>3 DEF i
      <4> QED BY <4>1, <4>2
    <3> QED BY <3>7, <3>8
  <2> HIDE DEF Found
  <2>2. \A a, b \in Int : Found(a, b) /\ b - a <= k => c[<<a, b>>] = quot
    BY <1>6, <2>1
  <2>3. k \in 0..(to - from)
    OBVIOUS
  <2> QED BY <2>2, <2>3
<1> HIDE DEF K
<1>9. to - from \in Nat
  OBVIOUS
<1>10. \A k \in 0..(to - from) : k \in K
  BY <1>7, <1>8, <1>9, Upwards
<1>11. to - from \in K
  BY <1>9, <1>10
<1>12. Found(from, to) /\ from \in Int /\ to \in Int /\ to - from <= to - from
  OBVIOUS
<1> HIDE DEF Found
<1>13. c[<<from, to>>] = quot
  BY <1>11, <1>12 DEF K
<1> QED BY <1>2, <1>13

\* The shift is the number of bits of the divisor.
LEMMA DivisorBits ==
  ASSUME NEW d \in Nat \ {0}, NEW top \in Nat, NEW most \in Nat, most <= top,
         d < N!Power[most]
  PROVE  LET s == N!First({k \in 0..(top - 1) : N!Power[k] > d} \cup {top})
         IN  /\ s \in 1..most
             /\ N!Power[s - 1] \in Nat /\ N!Power[s] = 2 * N!Power[s - 1]
             /\ N!Power[s - 1] <= d /\ d < 2 * N!Power[s - 1]
<1> DEFINE Z == {k \in 0..(top - 1) : N!Power[k] > d} \cup {top}
           s == N!First(Z)
<1>1. Z \in SUBSET Nat /\ Z # {}
  OBVIOUS
<1>2. \A k \in Nat : N!Power[k] \in Nat
  BY PowerPositive
<1>3. most \in Z
  BY <1>2
<1>4. \A k \in Z : k = top \/ N!Power[k] > d
  OBVIOUS
<1>5. \A k \in Nat : k < top /\ k \notin Z => N!Power[k] <= d
  BY <1>2
<1> HIDE DEF Z
<1>6. s \in Z /\ \A k \in Z : s <= k
  <2>1. \E x \in Z : \A y \in Z : x <= y
    BY <1>1, Least
  <2> QED BY <2>1, Zenon DEF N!First
<1> HIDE DEF s
<1>7. s \in Nat /\ s <= most
  BY <1>1, <1>3, <1>6
<1>8. N!Power[s] > d
  <2>1. CASE s = top
    <3>1. s = most
      BY <1>7, <2>1
    <3> QED BY <1>2, <3>1
  <2>2. CASE s # top
    BY <1>4, <1>6, <2>2
  <2> QED BY <2>1, <2>2
<1>9. s # 0
  <2> SUFFICES ASSUME s = 0 PROVE FALSE
    OBVIOUS
  <2>1. N!Power[0] = 1
    BY PowerStep
  <2> QED BY <1>8, <2>1
<1>10. s - 1 \in Nat /\ s - 1 < top /\ s - 1 \notin Z /\ (s - 1) + 1 = s
  BY <1>6, <1>7, <1>9
<1>11. N!Power[s - 1] <= d
  BY <1>5, <1>10
<1>12. N!Power[s] = 2 * N!Power[s - 1]
  <2>1. N!Power[(s - 1) + 1] = 2 * N!Power[s - 1]
    BY <1>10, PowerStep
  <2> QED BY <1>10, <2>1, Zenon
<1>13. s \in 1..most /\ N!Power[s - 1] \in Nat /\ d < 2 * N!Power[s - 1]
  BY <1>2, <1>7, <1>8, <1>9, <1>10, <1>12
<1> QED BY <1>11, <1>12, <1>13 DEF s, Z

\* div, for words of any width: right for numbers below the highest bit
LEMMA DivRight ==
  ASSUME NEW W \in Nat \ {0}, NEW x \in Nat, NEW d \in Nat \ {0},
         x < N!Power[W - 1], d < N!Power[W - 1]
  PROVE  N!div(W, x, d) = x \div d
<1> DEFINE s == N!First({k \in 0..(W - 1) : N!Power[k] > d} \cup {W})
           p == N!Power[s - 1]
           a == x \div N!Power[s]
           b == x \div p
<1>1. W - 1 \in Nat /\ W - 1 <= W
  OBVIOUS
<1>2. s \in 1..(W - 1) /\ p \in Nat /\ N!Power[s] = 2 * p /\ p <= d /\ d < 2 * p
  BY <1>1, DivisorBits
<1>3. N!div(W, x, d) = N!Search(N!Word(W), x, d, a, b)
  <2>1. s < W
    BY <1>2
  <2> HIDE DEF s
  <2> QED BY <2>1, Zenon DEF N!div, s, p, a, b
<1>4. a = x \div (2 * p)
  BY <1>2, Zenon
<1> HIDE DEF s, p, a
<1>5. /\ x \div d \in Nat /\ b \in Nat /\ a \in Nat
      /\ a <= x \div d /\ x \div d <= b /\ b * d <= 2 * x
  BY <1>2, <1>4, Interval
<1>6. N!Word(W) \in Nat \ {0} /\ N!Word(W) = 2 * N!Power[W - 1] /\ N!Power[W - 1] \in Nat
  <2>1. (W - 1) + 1 = W
    OBVIOUS
  <2>2. N!Power[(W - 1) + 1] = 2 * N!Power[W - 1]
    BY <1>1, PowerStep
  <2>3. N!Power[W] = 2 * N!Power[W - 1]
    BY <2>1, <2>2, Zenon
  <2>4. N!Power[W - 1] \in Nat
    BY <1>1, PowerPositive
  <2> QED BY <2>3, <2>4, Longs DEF N!Word
<1> HIDE DEF b
<1>7. b * d < N!Word(W)
  <2>1. b * d \in Nat
    BY <1>5
  <2> QED BY <1>5, <1>6, <2>1
<1> DEFINE q == x \div d
<1>8. q \in Nat /\ q = x \div d /\ a <= q /\ q <= b
  BY <1>5
<1> HIDE DEF q
<1>9. N!Search(N!Word(W), x, d, a, b) = q
  BY <1>5, <1>6, <1>7, <1>8, SearchFinds
<1> QED BY <1>3, <1>8, <1>9

------------------------------------------------------------------------------
(* Numbers: shifts of two words                                             *)

\* The lowest k + 1 bits of a number
LEMMA LowBits ==
  ASSUME NEW x \in Nat, NEW k \in Nat
  PROVE  /\ N!Bit(x, k) \in {0, 1}
         /\ x % N!Power[k + 1] = (x % N!Power[k]) + (IF N!Bit(x, k) = 1 THEN N!Power[k] ELSE 0)
<1> DEFINE p == N!Power[k]
           y == x \div p
           r == x % p
           z == y \div 2
           b == y % 2
<1>1. p \in Nat \ {0} /\ N!Power[k + 1] = 2 * p
  BY PowerPositive, PowerStep
<1> HIDE DEF p
<1>2. y \in Nat /\ r \in Nat /\ r < p /\ x = p * y + r
  BY <1>1
<1> HIDE DEF y, r
<1>3. z \in Nat /\ b \in {0, 1} /\ y = 2 * z + b
  BY <1>2
<1>4. N!Bit(x, k) = b
  BY Zenon DEF N!Bit, b, y, p
<1> HIDE DEF z, b
<1> DEFINE t == r + (IF b = 1 THEN p ELSE 0)
<1>5. t \in Nat /\ t < 2 * p
  BY <1>1, <1>2
<1>6. x = z * (2 * p) + t
  <2>1. p * (2 * z + b) = z * (2 * p) + p * b
    BY <1>1, <1>3
  <2>2. p * b = IF b = 1 THEN p ELSE 0
    BY <1>1, <1>3
  <2>3. x = (z * (2 * p) + p * b) + r
    BY <1>2, <1>3, <2>1
  <2>4. z * (2 * p) \in Nat
    BY <1>1, <1>3
  <2> QED BY <1>1, <1>2, <2>2, <2>3, <2>4
<1> HIDE DEF t
<1>7. x % (2 * p) = t
  <2>1. 2 * p \in Nat \ {0}
    BY <1>1
  <2> QED BY <1>3, <1>5, <1>6, <2>1, Remainder
<1>8. x % N!Power[k + 1] = t
  BY <1>1, <1>7, Zenon
<1>9. t = r + (IF N!Bit(x, k) = 1 THEN p ELSE 0)
  BY <1>4, Zenon DEF t
<1> QED BY <1>3, <1>4, <1>8, <1>9, Zenon DEF p, r

\* One value of the function `or' of BitOr, and the function
OrAt(or, m, n, k) ==
    IF k = 0 THEN 0
    ELSE or[k - 1] + IF N!Bit(m, k - 1) = 1 \/ N!Bit(n, k - 1) = 1 THEN N!Power[k - 1] ELSE 0

IsOr(or, W, m, n) == or = [k \in 0..W |-> OrAt(or, m, n, k)]

\* Numbers without a common bit are added.
LEMMA OrAdds ==
  ASSUME NEW W \in Nat, NEW m \in Nat, NEW n \in Nat, m < N!Power[W], n < N!Power[W],
         \A k \in 0..(W - 1) : N!Bit(m, k) = 0 \/ N!Bit(n, k) = 0
  PROVE  N!BitOr(W, m, n) = m + n
<1> DEFINE f == [k \in 0..W |-> (m % N!Power[k]) + (n % N!Power[k])]
<1>1. \A k \in 0..W : f[k] = (m % N!Power[k]) + (n % N!Power[k])
  OBVIOUS
<1>2. f[0] = 0
  <2>1. N!Power[0] = 1 /\ m % 1 = 0 /\ n % 1 = 0
    BY PowerStep
  <2> QED BY <1>1, <2>1
<1>3. DOMAIN f = 0..W
  OBVIOUS
<1> HIDE DEF f
<1>4. ASSUME NEW k \in 1..W PROVE f[k] = OrAt(f, m, n, k)
  <2> DEFINE j == k - 1
             p == N!Power[j]
             x == m % p
             y == n % p
  <2>1. j \in Nat /\ j + 1 = k /\ j \in 0..(W - 1) /\ j \in 0..W /\ k \in 0..W
    OBVIOUS
  <2>2. p \in Nat \ {0}
    BY <2>1, PowerPositive
  <2>3. x \in Nat /\ y \in Nat
    <3> HIDE DEF p
    <3> QED BY <2>2
  <2>4. /\ m % N!Power[j + 1] = x + (IF N!Bit(m, j) = 1 THEN p ELSE 0)
        /\ n % N!Power[j + 1] = y + (IF N!Bit(n, j) = 1 THEN p ELSE 0)
    BY <2>1, LowBits
  <2>5. /\ m % N!Power[k] = x + (IF N!Bit(m, j) = 1 THEN p ELSE 0)
        /\ n % N!Power[k] = y + (IF N!Bit(n, j) = 1 THEN p ELSE 0)
    BY <2>1, <2>4, Zenon
  <2>6. f[k] = (m % N!Power[k]) + (n % N!Power[k]) /\ f[j] = x + y
    BY <1>1, <2>1
  <2>7. N!Bit(m, j) \in {0, 1} /\ N!Bit(n, j) \in {0, 1} /\ (N!Bit(m, j) = 0 \/ N!Bit(n, j) = 0)
    BY <2>1, LowBits
  <2> HIDE DEF p, x, y, j
  <2>8. f[k] = f[j] + (IF N!Bit(m, j) = 1 \/ N!Bit(n, j) = 1 THEN p ELSE 0)
    BY <2>2, <2>3, <2>5, <2>6, <2>7
  <2>9. k # 0
    OBVIOUS
  <2> QED BY <2>8, <2>9, Zenon DEF OrAt, j, p
<1>5. IsOr(f, W, m, n)
  <2>1. \A k \in 0..W : k = 0 \/ k \in 1..W
    OBVIOUS
  <2>2. OrAt(f, m, n, 0) = 0
    BY Zenon DEF OrAt
  <2>3. \A k \in 0..W : f[k] = OrAt(f, m, n, k)
    BY <1>2, <1>4, <2>1, <2>2
  <2>4. f = [k \in 0..W |-> f[k]]
    BY DEF f
  <2> QED BY <2>3, <2>4 DEF IsOr
<1> DEFINE c == CHOOSE or : IsOr(or, W, m, n)
<1>6. IsOr(c, W, m, n)
  BY <1>5, Zenon
<1>7. N!BitOr(W, m, n) = c[W]
  BY Zenon DEF N!BitOr, IsOr, OrAt
<1> HIDE DEF c
<1>8. \A k \in 0..W : c[k] = OrAt(c, m, n, k)
  BY <1>6 DEF IsOr
<1> DEFINE K == {k \in 0..W : c[k] = f[k]}
<1>9. 0 \in K
  <2>1. 0 \in 0..W /\ c[0] = 0
    BY <1>8 DEF OrAt
  <2> QED BY <1>2, <2>1
<1>10. ASSUME NEW k \in 1..W, k - 1 \in K PROVE k \in K
  <2>1. k \in 0..W /\ k # 0 /\ c[k - 1] = f[k - 1]
    BY <1>10
  <2>2. OrAt(c, m, n, k) = OrAt(f, m, n, k)
    BY <2>1, Zenon DEF OrAt
  <2> QED BY <1>4, <1>8, <2>1, <2>2
<1> HIDE DEF K
<1>11. \A k \in 0..W : k \in K
  BY <1>9, <1>10, Upwards
<1>12. c[W] = f[W]
  BY <1>11 DEF K
<1>13. f[W] = m + n
  <2>1. \A x, p \in Nat : x < p => x % p = x
    OBVIOUS
  <2>2. N!Power[W] \in Nat
    BY PowerPositive
  <2>3. m % N!Power[W] = m /\ n % N!Power[W] = n
    BY <2>1, <2>2
  <2> QED BY <1>1, <2>3
<1> QED BY <1>7, <1>12, <1>13

\* Bits of a number that is small, and of a multiple of a power
LEMMA NoBits ==
  ASSUME NEW x \in Nat, NEW k \in Nat
  PROVE  /\ x < N!Power[k] => N!Bit(x, k) = 0
         /\ \A j, z \in Nat : k < j /\ x = z * N!Power[j] => N!Bit(x, k) = 0
<1> DEFINE p == N!Power[k]
<1>0. p \in Nat \ {0} /\ N!Power[k + 1] = 2 * p
  BY PowerPositive, PowerStep
<1>1. ASSUME x < p PROVE N!Bit(x, k) = 0
  <2>0. p = N!Power[k]
    OBVIOUS
  <2> HIDE DEF p
  <2>1. 0 * p <= x /\ x < (0 + 1) * p
    BY <1>0, <1>1
  <2>2. x \div p = 0
    BY <1>0, <2>1, Quotient
  <2>3. 0 % 2 = 0
    OBVIOUS
  <2> QED BY <2>0, <2>2, <2>3, Zenon DEF N!Bit
<1>2. ASSUME NEW j \in Nat, NEW z \in Nat, k < j, x = z * N!Power[j] PROVE N!Bit(x, k) = 0
  <2> DEFINE e == N!Power[j - (k + 1)]
             y == z * e
  <2>1. j - (k + 1) \in Nat /\ k + 1 \in Nat /\ (k + 1) + (j - (k + 1)) = j
    BY <1>2
  <2>2. N!Power[(k + 1) + (j - (k + 1))] = N!Power[k + 1] * e
    BY <2>1, PowerSum
  <2>3. e \in Nat
    BY <2>1, PowerPositive
  <2>4. N!Power[j] = (2 * p) * e
    BY <1>0, <2>1, <2>2, Zenon
  <2>5. p = N!Power[k]
    OBVIOUS
  <2> HIDE DEF p, e
  <2>6. y \in Nat /\ x = (2 * y) * p + 0
    <3>1. x = z * ((2 * p) * e)
      BY <1>2, <2>4
    <3>2. z * ((2 * p) * e) = (2 * (z * e)) * p
      BY <1>0, <2>3
    <3>3. (2 * (z * e)) * p \in Nat /\ z * e \in Nat
      BY <1>0, <2>3
    <3> QED BY <3>1, <3>2, <3>3
  <2> HIDE DEF y
  <2>7. 2 * y \in Nat /\ 0 \in Nat /\ 0 < p
    BY <1>0, <2>6
  <2>8. x \div p = 2 * y
    BY <1>0, <2>6, <2>7, Remainder
  <2>9. (2 * y) % 2 = 0
    BY <2>6
  <2> QED BY <2>5, <2>8, <2>9, Zenon DEF N!Bit
<1> QED BY <1>1, <1>2 DEF p

\* llsr shifts, by 1 up to the width of a word.
LEMMA ShiftsRight ==
  ASSUME NEW W \in Nat, NEW x \in Nat, NEW s \in 1..W, NEW again
  PROVE  N!llsr(W, x, s, again) = x \div N!Power[s]
<1> DEFINE n == N!Word(W)
           p == N!Power[s]
           u == N!Power[W - s]
           lo == x % n
           hi == x \div n
           h == hi \div p
           g == hi % p
           l == lo \div p
           e == lo % p
<1>1. W - s \in Nat /\ s \in Nat /\ s # 0 /\ (W - s) + s = W
  OBVIOUS
<1>2. p \in Nat \ {0} /\ u \in Nat \ {0} /\ n \in Nat \ {0}
  BY <1>1, PowerPositive, Longs
<1>3. n = u * p
  <2>1. N!Power[(W - s) + s] = u * p
    BY <1>1, PowerSum
  <2> QED BY <1>1, <2>1, Zenon DEF N!Word
<1>4. N!llsr(W, x, s, again) = N!BitOr(W, l, (hi * u) % n) + n * h
  BY <1>1, Zenon DEF N!llsr
<1>5. N!Word(W) = N!Power[W]
  BY DEF N!Word
<1> HIDE DEF n, p, u
<1>6. lo \in Nat /\ lo < n /\ hi \in Nat /\ x = n * hi + lo
  BY <1>2
<1> HIDE DEF lo, hi
<1>7. h \in Nat /\ g \in Nat /\ g < p /\ hi = p * h + g
  BY <1>2, <1>6
<1>8. l \in Nat /\ e \in Nat /\ e < p /\ lo = p * l + e
  BY <1>2, <1>6
<1> HIDE DEF h, g, l, e
<1>9. l < u
  <2> SUFFICES ASSUME u <= l PROVE FALSE
    BY <1>2, <1>8
  <2>1. u * p <= l * p
    BY <1>2, <1>8
  <2>2. l * p = p * l /\ l * p \in Nat /\ u * p \in Nat
    BY <1>2, <1>8
  <2> QED BY <1>2, <1>3, <1>6, <1>8, <2>1, <2>2
<1> DEFINE up == g * u
<1>10. up \in Nat /\ up < n /\ up + u <= n
  <2>1. (g + 1) * u <= p * u
    BY <1>2, <1>7
  <2>2. (g + 1) * u = up + u /\ p * u = u * p /\ up \in Nat
    BY <1>2, <1>7
  <2> QED BY <1>2, <1>3, <2>1, <2>2
<1>11. hi * u = h * n + up
  <2>1. (p * h + g) * u = h * (u * p) + g * u
    BY <1>2, <1>7
  <2> QED BY <1>3, <1>7, <2>1
<1> HIDE DEF up
<1>12. (hi * u) % n = up
  <2> DEFINE y == hi * u
  <2>1. y \in Nat /\ y = h * n + up
    BY <1>2, <1>6, <1>11
  <2> HIDE DEF y
  <2>2. y % n = up
    BY <1>2, <1>7, <1>10, <2>1, Remainder
  <2> QED BY <2>2 DEF y
<1>13. N!BitOr(W, l, up) = l + up
  <2>1. l < N!Power[W] /\ up < N!Power[W]
    <3>1. l < n
      BY <1>2, <1>8, <1>9, <1>10
    <3> QED BY <1>5, <1>10, <3>1 DEF n
  <2>2. ASSUME NEW k \in 0..(W - 1) PROVE N!Bit(l, k) = 0 \/ N!Bit(up, k) = 0
    <3>0. k \in Nat /\ N!Power[k] \in Nat
      BY PowerPositive
    <3>1. CASE k < W - s
      <4>1. up = g * N!Power[W - s]
        BY DEF up, u
      <4>2. N!Bit(up, k) = 0
        BY <1>1, <1>7, <1>10, <3>0, <3>1, <4>1, NoBits
      <4> QED BY <4>2
    <3>2. CASE W - s <= k
      <4>1. N!Power[W - s] <= N!Power[k]
        BY <1>1, <3>0, <3>2, PowerGrows
      <4>2. u <= N!Power[k]
        BY <4>1 DEF u
      <4>3. l < N!Power[k]
        BY <1>2, <1>8, <1>9, <3>0, <4>2
      <4>4. N!Bit(l, k) = 0
        BY <1>8, <3>0, <4>3, NoBits
      <4> QED BY <4>4
    <3> QED BY <1>1, <3>0, <3>1, <3>2
  <2> QED BY <1>8, <1>10, <2>1, <2>2, OrAdds
<1> DEFINE r == (l + up) + n * h
<1>14. N!llsr(W, x, s, again) = r
  BY <1>4, <1>12, <1>13, Zenon
<1>15. r \in Nat /\ x = r * p + e
  <2>1. n * h \in Nat
    BY <1>2, <1>7
  <2>2. r \in Nat
    BY <1>8, <1>10, <2>1
  <2>3. r = l + hi * u
    <3>1. n * h = h * n
      BY <1>2, <1>7
    <3>2. hi * u \in Nat
      BY <1>2, <1>6
    <3> QED BY <1>8, <1>10, <1>11, <2>1, <3>1, <3>2
  <2>4. (l + hi * u) * p = p * l + (u * p) * hi
    BY <1>2, <1>6, <1>8
  <2>5. r * p = p * l + n * hi
    BY <1>3, <2>3, <2>4
  <2>6. p * l \in Nat /\ n * hi \in Nat
    BY <1>2, <1>6, <1>8
  <2> HIDE DEF r
  <2>7. x = r * p + e
    BY <1>6, <1>8, <2>5, <2>6
  <2> QED BY <2>2, <2>7
<1> HIDE DEF r
<1>16. x \div p = r
  BY <1>2, <1>8, <1>15, Remainder
<1> QED BY <1>14, <1>16 DEF p

\* divl, for words of any width: right for dividends below the highest bit
\* and divisors that are ints above 1
LEMMA LongDivRight ==
  ASSUME NEW W \in Nat \ {0}, NEW x \in Nat, NEW d \in Nat, d > 1, NEW again,
         x < N!Power[2 * W - 1], d < N!Power[W - 1]
  PROVE  N!divl(W, x, d, again) = x \div d
<1> DEFINE s == N!First({k \in 0..(W - 2) : N!Power[k] > d} \cup {W - 1})
           p == N!Power[s - 1]
           a == x \div N!Power[s]
           b == x \div p
<1>1. W - 1 \in Nat /\ W - 1 <= W - 1 /\ (W - 1) - 1 = W - 2 /\ d \in Nat \ {0}
  OBVIOUS
<1>2. s \in 1..(W - 1) /\ p \in Nat /\ N!Power[s] = 2 * p /\ p <= d /\ d < 2 * p
  <2> DEFINE t == N!First({k \in 0..((W - 1) - 1) : N!Power[k] > d} \cup {W - 1})
  <2>1. /\ t \in 1..(W - 1)
        /\ N!Power[t - 1] \in Nat /\ N!Power[t] = 2 * N!Power[t - 1]
        /\ N!Power[t - 1] <= d /\ d < 2 * N!Power[t - 1]
    BY <1>1, DivisorBits
  <2>2. t = s
    BY <1>1, Zenon
  <2> HIDE DEF t, s
  <2> QED BY <2>1, <2>2
<1> HIDE DEF s
<1>3. s # 1
  <2> SUFFICES ASSUME s = 1 PROVE FALSE
    OBVIOUS
  <2>1. N!Power[0] = 1 /\ s - 1 = 0
    BY PowerStep
  <2>2. p = 1
    BY <2>1
  <2> QED BY <1>2, <2>2
<1>4. s \in 1..W /\ s - 1 \in 1..W
  BY <1>2, <1>3
<1>5. N!llsr(W, x, s, again) = a /\ N!llsr(W, x, s - 1, again) = b
  BY <1>4, ShiftsRight
<1>6. N!divl(W, x, d, again) = N!Search(N!Long(W), x, d, a, b)
  <2>1. N!divl(W, x, d, again) = N!Search(N!Long(W), x, d, N!llsr(W, x, s, again), N!llsr(W, x, s - 1, again))
    BY Zenon DEF N!divl, s
  <2> QED BY <1>5, <2>1, Zenon
<1>7. a = x \div (2 * p)
  BY <1>2, Zenon
<1> HIDE DEF p, a
<1>8. /\ x \div d \in Nat /\ b \in Nat /\ a \in Nat
      /\ a <= x \div d /\ x \div d <= b /\ b * d <= 2 * x
  BY <1>1, <1>2, <1>7, Interval
<1>9. N!Long(W) \in Nat \ {0} /\ N!Long(W) = 2 * N!Power[2 * W - 1] /\ N!Power[2 * W - 1] \in Nat
  <2>1. (2 * W - 1) + 1 = 2 * W /\ 2 * W - 1 \in Nat
    OBVIOUS
  <2>2. N!Power[(2 * W - 1) + 1] = 2 * N!Power[2 * W - 1]
    BY <2>1, PowerStep
  <2>3. N!Power[2 * W] = 2 * N!Power[2 * W - 1]
    BY <2>1, <2>2, Zenon
  <2>4. N!Power[2 * W - 1] \in Nat
    BY <2>1, PowerPositive
  <2> QED BY <2>3, <2>4, Longs DEF N!Long
<1> HIDE DEF b
<1>10. b * d < N!Long(W)
  <2>1. b * d \in Nat
    BY <1>8
  <2> QED BY <1>8, <1>9, <2>1
<1> DEFINE q == x \div d
<1>11. q \in Nat /\ q = x \div d /\ a <= q /\ q <= b
  BY <1>8
<1> HIDE DEF q
<1>12. N!Search(N!Long(W), x, d, a, b) = q
  BY <1>1, <1>8, <1>9, <1>10, <1>11, SearchFinds
<1> QED BY <1>6, <1>11, <1>12

\* divsl rounds towards zero.
LEMMA SignedDivRight ==
  ASSUME NEW W \in Nat \ {0}, NEW x \in Nat, NEW d \in Nat, d > 1, NEW again,
         x < N!Power[2 * W - 1], d < N!Power[W - 1]
  PROVE  /\ N!divsl(W, -x, d, again) = -(x \div d)
         /\ N!divsl(W, -x, -d, again) = x \div d
<1> DEFINE q == x \div d
<1>1. N!divl(W, x, d, again) = q
  BY LongDivRight
<1>2. q \in Nat /\ (x = 0 => q = 0)
  BY Quotient
<1> HIDE DEF q
<1>3. N!Abs(-x) = x /\ N!Abs(d) = d /\ N!Abs(-d) = d
  BY DEF N!Abs
<1>4. /\ N!divsl(W, -x, d, again) = N!Signed(-x, N!Signed(d, q))
      /\ N!divsl(W, -x, -d, again) = N!Signed(-x, N!Signed(-d, q))
  BY <1>1, <1>3, Zenon DEF N!divsl
<1>5. N!Signed(d, q) = q /\ N!Signed(-d, q) = -q
  BY <1>2 DEF N!Signed
<1>6. N!Signed(-x, q) = -q /\ N!Signed(-x, -q) = q
  BY <1>2 DEF N!Signed
<1> QED BY <1>4, <1>5, <1>6 DEF q

------------------------------------------------------------------------------
(* Numbers: formats                                                         *)

\* The function `total' of Total
IsTotal(total, nums) ==
    total = [n \in 0..Len(nums) |-> IF n = 0 THEN 0 ELSE total[n - 1] + nums[n]]

\* What adds up is the total.
LEMMA TotalOf ==
  ASSUME NEW s \in Seq(Nat), NEW f, AddsUp(f, s)
  PROVE  Total(s) = f[Len(s)]
<1>0. Len(s) \in Nat
  OBVIOUS
<1>1. /\ f \in [0..Len(s) -> Nat]
      /\ f[0] = 0
      /\ \A n \in 1..Len(s) : f[n] = f[n - 1] + s[n]
  BY DEF AddsUp
<1>2. IsTotal(f, s)
  <2>1. \A n \in 0..Len(s) : f[n] = IF n = 0 THEN 0 ELSE f[n - 1] + s[n]
    BY <1>0, <1>1
  <2> QED BY <1>1, <2>1 DEF IsTotal
<1> DEFINE c == CHOOSE total : IsTotal(total, s)
<1>3. IsTotal(c, s)
  BY <1>2, Zenon
<1>4. Total(s) = c[Len(s)]
  BY Zenon DEF Total, IsTotal
<1> HIDE DEF c
<1>5. \A n \in 0..Len(s) : c[n] = IF n = 0 THEN 0 ELSE c[n - 1] + s[n]
  BY <1>3 DEF IsTotal
<1> DEFINE K == {n \in 0..Len(s) : c[n] = f[n]}
<1>6. 0 \in K
  BY <1>0, <1>1, <1>5
<1>7. ASSUME NEW n \in 1..Len(s), n - 1 \in K PROVE n \in K
  <2>1. n \in 0..Len(s) /\ n # 0
    BY <1>0
  <2>2. c[n] = c[n - 1] + s[n] /\ c[n - 1] = f[n - 1]
    BY <1>5, <1>7, <2>1
  <2>3. c[n] = f[n]
    BY <1>1, <2>2
  <2> QED BY <2>1, <2>3
<1> HIDE DEF K
<1>8. \A n \in 0..Len(s) : n \in K
  BY <1>0, <1>6, <1>7, Upwards
<1>9. c[Len(s)] = f[Len(s)]
  BY <1>0, <1>8 DEF K
<1> QED BY <1>4, <1>9

\* Totals of a concatenation
LEMMA TotalJoined ==
  ASSUME NEW s \in Seq(Nat), NEW t \in Seq(Nat)
  PROVE  /\ Total(s) \in Nat
         /\ Total(s \o t) = Total(s) + Total(t)
<1> DEFINE k == Len(s)
           m == Len(t)
           u == s \o t
<1>0. k \in Nat /\ m \in Nat
  OBVIOUS
<1>1. u \in Seq(Nat) /\ Len(u) = k + m
      /\ \A n \in 1..(k + m) : u[n] = IF n <= k THEN s[n] ELSE t[n - k]
  BY ConcatProperties
<1>2. PICK f : AddsUp(f, s)
  BY TotalExists
<1>3. PICK g : AddsUp(g, t)
  BY TotalExists
<1>4. Total(s) = f[k] /\ Total(t) = g[m]
  BY <1>2, <1>3, TotalOf
<1>5. f \in [0..k -> Nat] /\ f[0] = 0 /\ \A n \in 1..k : f[n] = f[n - 1] + s[n]
  BY <1>2 DEF AddsUp
<1>6. g \in [0..m -> Nat] /\ g[0] = 0 /\ \A n \in 1..m : g[n] = g[n - 1] + t[n]
  BY <1>3 DEF AddsUp
<1> DEFINE h == [n \in 0..(k + m) |-> IF n <= k THEN f[n] ELSE f[k] + g[n - k]]
<1> HIDE DEF k, m, u
<1>7. f[k] \in Nat
  BY <1>0, <1>5
<1>8. \A n \in 0..(k + m) : h[n] = IF n <= k THEN f[n] ELSE f[k] + g[n - k]
  OBVIOUS
<1>9. ASSUME NEW n \in 0..(k + m) PROVE h[n] \in Nat
  <2>1. CASE n <= k
    <3>1. n \in 0..k
      BY <1>0, <2>1
    <3> QED BY <1>5, <1>8, <2>1, <3>1
  <2>2. CASE ~(n <= k)
    <3>1. n - k \in 0..m
      BY <1>0, <2>2
    <3>2. g[n - k] \in Nat
      BY <1>6, <3>1
    <3> HIDE DEF h
    <3> QED BY <1>7, <1>8, <2>2, <3>2
  <2> QED BY <2>1, <2>2
<1>10. h \in [0..(k + m) -> Nat]
  BY <1>9
<1> HIDE DEF h
<1>11. h[0] = 0
  <2>1. 0 \in 0..(k + m) /\ 0 <= k
    BY <1>0
  <2> QED BY <1>5, <1>8, <2>1
<1>12. ASSUME NEW n \in 1..(k + m) PROVE h[n] = h[n - 1] + u[n]
  <2>0. n \in 0..(k + m) /\ n - 1 \in 0..(k + m)
    BY <1>0
  <2>1. CASE n <= k
    <3>1. n \in 1..k /\ n - 1 <= k
      BY <1>0, <2>1
    <3>2. h[n] = f[n] /\ h[n - 1] = f[n - 1] /\ u[n] = s[n]
      BY <1>1, <1>8, <2>0, <2>1, <3>1
    <3> QED BY <1>5, <3>1, <3>2
  <2>2. CASE n = k + 1
    <3>1. n - 1 = k /\ n - k = 1 /\ ~(n <= k) /\ 1 \in 1..m /\ k <= k /\ k \in 0..(k + m)
      BY <1>0, <2>2
    <3>2. h[n] = f[k] + g[1] /\ h[n - 1] = f[k] /\ u[n] = t[1]
      BY <1>1, <1>8, <2>0, <3>1
    <3>3. g[1] = g[1 - 1] + t[1] /\ 1 - 1 = 0
      BY <1>6, <3>1
    <3>4. t[1] \in Nat
      BY <3>1, ElementOfSeq DEF m
    <3>5. g[1] = t[1]
      BY <1>6, <3>3, <3>4
    <3> QED BY <3>2, <3>5
  <2>3. CASE n > k + 1
    <3>1. ~(n <= k) /\ ~(n - 1 <= k) /\ n - k \in 1..m /\ (n - 1) - k = (n - k) - 1 /\ (n - k) - 1 \in 0..m
      BY <1>0, <2>3
    <3>2. h[n] = f[k] + g[n - k] /\ h[n - 1] = f[k] + g[(n - k) - 1] /\ u[n] = t[n - k]
      BY <1>1, <1>8, <2>0, <3>1
    <3>3. g[n - k] = g[(n - k) - 1] + t[n - k]
      BY <1>6, <3>1
    <3>4. g[(n - k) - 1] \in Nat /\ t[n - k] \in Nat
      BY <1>6, <3>1, ElementOfSeq DEF m
    <3> QED BY <1>7, <3>2, <3>3, <3>4
  <2> QED BY <1>0, <2>1, <2>2, <2>3
<1>13. AddsUp(h, u)
  BY <1>1, <1>10, <1>11, <1>12 DEF AddsUp
<1>14. Total(u) = h[k + m]
  BY <1>1, <1>13, TotalOf
<1>15. h[k + m] = f[k] + g[m]
  <2>1. k + m \in 0..(k + m)
    BY <1>0
  <2>2. CASE m = 0
    <3>1. k + m <= k /\ k + m = k
      BY <1>0, <2>2
    <3>2. h[k + m] = f[k]
      BY <1>8, <2>1, <3>1
    <3> QED BY <1>6, <1>7, <2>2, <3>2
  <2>3. CASE m # 0
    <3>1. ~(k + m <= k) /\ (k + m) - k = m
      BY <1>0, <2>3
    <3> QED BY <1>8, <2>1, <3>1
  <2> QED BY <2>2, <2>3
<1> QED BY <1>4, <1>7, <1>14, <1>15 DEF u

\* Totals of no number and of one
LEMMA TotalSmall ==
  /\ Total(<<>>) = 0
  /\ \A a \in Nat : Total(<<a>>) = a
<1>1. Total(<<>>) = 0
  <2> DEFINE f == [n \in 0..0 |-> 0]
             s == <<>>
  <2>1. s \in Seq(Nat) /\ Len(s) = 0
    OBVIOUS
  <2>2. f \in [0..0 -> Nat] /\ f[0] = 0
    OBVIOUS
  <2> HIDE DEF f, s
  <2>3. AddsUp(f, s)
    BY <2>1, <2>2 DEF AddsUp
  <2>4. Total(s) = f[Len(s)]
    BY <2>1, <2>3, TotalOf
  <2> QED BY <2>1, <2>2, <2>4 DEF s
<1>2. ASSUME NEW a \in Nat PROVE Total(<<a>>) = a
  <2> DEFINE f == [n \in 0..1 |-> IF n = 0 THEN 0 ELSE a]
             s == <<a>>
  <2>1. s \in Seq(Nat) /\ Len(s) = 1 /\ s[1] = a
    OBVIOUS
  <2>2. f \in [0..1 -> Nat] /\ f[0] = 0 /\ f[1] = a
    OBVIOUS
  <2> HIDE DEF f, s
  <2>3. AddsUp(f, s)
    <3>1. \A n \in 1..Len(s) : n = 1 /\ n - 1 = 0
      BY <2>1
    <3>2. \A n \in 1..Len(s) : f[n] = f[n - 1] + s[n]
      BY <2>1, <2>2, <3>1
    <3> QED BY <2>1, <2>2, <3>2 DEF AddsUp
  <2>4. Total(s) = f[Len(s)]
    BY <2>1, <2>3, TotalOf
  <2> QED BY <2>1, <2>2, <2>4 DEF s
<1> QED BY <1>1, <1>2

\* The characters of a format, its pieces, and what each counts
Chars == {"%", "l", "d", " "}
Pieces == [letter : Chars \cup {"none"}, text : Seq(Chars)]
AsConversions(pieces) == [n \in 1..Len(pieces) |-> IF pieces[n].letter = "none" THEN 0 ELSE 1]
AsCharacters(pieces) ==
    [n \in 1..Len(pieces) |-> IF pieces[n].letter = "none" THEN Len(pieces[n].text) ELSE 0]

\* They are sequences of numbers, and concatenation is kept.
LEMMA AsNumbers ==
  ASSUME NEW s \in Seq(Pieces), NEW t \in Seq(Pieces)
  PROVE  /\ AsConversions(s) \in Seq(Nat) /\ AsCharacters(s) \in Seq(Nat)
         /\ AsConversions(s \o t) = AsConversions(s) \o AsConversions(t)
         /\ AsCharacters(s \o t) = AsCharacters(s) \o AsCharacters(t)
<1>1. ASSUME NEW x \in Seq(Pieces)
      PROVE  /\ AsConversions(x) \in Seq(Nat) /\ Len(AsConversions(x)) = Len(x)
             /\ AsCharacters(x) \in Seq(Nat) /\ Len(AsCharacters(x)) = Len(x)
             /\ \A n \in 1..Len(x) :
                  /\ AsConversions(x)[n] = IF x[n].letter = "none" THEN 0 ELSE 1
                  /\ AsCharacters(x)[n] = IF x[n].letter = "none" THEN Len(x[n].text) ELSE 0
  <2>0. Len(x) \in Nat
    OBVIOUS
  <2>1. ASSUME NEW n \in 1..Len(x) PROVE Len(x[n].text) \in Nat
    <3>1. x[n] \in Pieces
      BY ElementOfSeq
    <3>2. x[n].text \in Seq(Chars)
      BY <3>1 DEF Pieces
    <3> QED BY <3>2
  <2>2. AsConversions(x) \in [1..Len(x) -> Nat] /\ AsCharacters(x) \in [1..Len(x) -> Nat]
    BY <2>1 DEF AsConversions, AsCharacters
  <2>3. \A n \in 1..Len(x) :
           /\ AsConversions(x)[n] = IF x[n].letter = "none" THEN 0 ELSE 1
           /\ AsCharacters(x)[n] = IF x[n].letter = "none" THEN Len(x[n].text) ELSE 0
    BY Zenon DEF AsConversions, AsCharacters
  <2>4. \A y \in [1..Len(x) -> Nat] : y \in Seq(Nat) /\ Len(y) = Len(x)
    BY <2>0
  <2> QED BY <2>2, <2>3, <2>4
<1> DEFINE u == s \o t
<1>0. Len(s) \in Nat /\ Len(t) \in Nat
  OBVIOUS
<1>2. u \in Seq(Pieces) /\ Len(u) = Len(s) + Len(t)
      /\ \A n \in 1..(Len(s) + Len(t)) : u[n] = IF n <= Len(s) THEN s[n] ELSE t[n - Len(s)]
  BY ConcatProperties
<1> HIDE DEF u
<1>3. \A n \in 1..(Len(s) + Len(t)) : (n <= Len(s) => n \in 1..Len(s)) /\ (~(n <= Len(s)) => n - Len(s) \in 1..Len(t))
  BY <1>0
<1>4. AsConversions(u) = AsConversions(s) \o AsConversions(t)
  <2> DEFINE a == AsConversions(s)
             b == AsConversions(t)
             c == AsConversions(u)
  <2>1. /\ a \in Seq(Nat) /\ Len(a) = Len(s) /\ b \in Seq(Nat) /\ Len(b) = Len(t)
        /\ c \in Seq(Nat) /\ Len(c) = Len(s) + Len(t)
        /\ \A n \in 1..Len(s) : a[n] = IF s[n].letter = "none" THEN 0 ELSE 1
        /\ \A n \in 1..Len(t) : b[n] = IF t[n].letter = "none" THEN 0 ELSE 1
        /\ \A n \in 1..(Len(s) + Len(t)) : c[n] = IF u[n].letter = "none" THEN 0 ELSE 1
    <3>1. /\ a \in Seq(Nat) /\ Len(a) = Len(s)
          /\ \A n \in 1..Len(s) : a[n] = IF s[n].letter = "none" THEN 0 ELSE 1
      BY <1>1, Zenon
    <3>2. /\ b \in Seq(Nat) /\ Len(b) = Len(t)
          /\ \A n \in 1..Len(t) : b[n] = IF t[n].letter = "none" THEN 0 ELSE 1
      BY <1>1, Zenon
    <3>3. /\ c \in Seq(Nat) /\ Len(c) = Len(u)
          /\ \A n \in 1..Len(u) : c[n] = IF u[n].letter = "none" THEN 0 ELSE 1
      BY <1>1, <1>2, Zenon
    <3>4. Len(u) = Len(s) + Len(t)
      BY <1>2
    <3> HIDE DEF a, b, c
    <3> QED BY <3>1, <3>2, <3>3, <3>4, Zenon
  <2> HIDE DEF a, b, c
  <2>2. /\ a \o b \in Seq(Nat) /\ Len(a \o b) = Len(s) + Len(t)
        /\ \A n \in 1..(Len(s) + Len(t)) : (a \o b)[n] = IF n <= Len(s) THEN a[n] ELSE b[n - Len(s)]
    <3>1. a \in Seq(Nat) /\ b \in Seq(Nat)
      BY <2>1
    <3>2. /\ a \o b \in Seq(Nat) /\ Len(a \o b) = Len(a) + Len(b)
          /\ \A n \in 1..(Len(a) + Len(b)) : (a \o b)[n] = IF n <= Len(a) THEN a[n] ELSE b[n - Len(a)]
      BY <3>1, ConcatProperties
    <3>3. Len(a) = Len(s) /\ Len(b) = Len(t)
      BY <2>1
    <3> QED BY <3>2, <3>3, Zenon
  <2>3. \A n \in 1..(Len(s) + Len(t)) : c[n] = (a \o b)[n]
    <3> SUFFICES ASSUME NEW n \in 1..(Len(s) + Len(t)) PROVE c[n] = (a \o b)[n]
      OBVIOUS
    <3>1. CASE n <= Len(s)
      <4>1. n \in 1..Len(s) /\ u[n] = s[n] /\ (a \o b)[n] = a[n]
        BY <1>2, <1>3, <2>2, <3>1
      <4> QED BY <2>1, <4>1
    <3>2. CASE ~(n <= Len(s))
      <4>1. n - Len(s) \in 1..Len(t) /\ u[n] = t[n - Len(s)] /\ (a \o b)[n] = b[n - Len(s)]
        BY <1>2, <1>3, <2>2, <3>2
      <4> QED BY <2>1, <4>1
    <3> QED BY <3>1, <3>2
  <2>4. c = a \o b
    BY <2>1, <2>2, <2>3, SeqEqual
  <2> QED BY <2>4 DEF a, b, c
<1>5. AsCharacters(u) = AsCharacters(s) \o AsCharacters(t)
  <2> DEFINE a == AsCharacters(s)
             b == AsCharacters(t)
             c == AsCharacters(u)
  <2>1. /\ a \in Seq(Nat) /\ Len(a) = Len(s) /\ b \in Seq(Nat) /\ Len(b) = Len(t)
        /\ c \in Seq(Nat) /\ Len(c) = Len(s) + Len(t)
        /\ \A n \in 1..Len(s) : a[n] = IF s[n].letter = "none" THEN Len(s[n].text) ELSE 0
        /\ \A n \in 1..Len(t) : b[n] = IF t[n].letter = "none" THEN Len(t[n].text) ELSE 0
        /\ \A n \in 1..(Len(s) + Len(t)) : c[n] = IF u[n].letter = "none" THEN Len(u[n].text) ELSE 0
    <3>1. /\ a \in Seq(Nat) /\ Len(a) = Len(s)
          /\ \A n \in 1..Len(s) : a[n] = IF s[n].letter = "none" THEN Len(s[n].text) ELSE 0
      BY <1>1, Zenon
    <3>2. /\ b \in Seq(Nat) /\ Len(b) = Len(t)
          /\ \A n \in 1..Len(t) : b[n] = IF t[n].letter = "none" THEN Len(t[n].text) ELSE 0
      BY <1>1, Zenon
    <3>3. /\ c \in Seq(Nat) /\ Len(c) = Len(u)
          /\ \A n \in 1..Len(u) : c[n] = IF u[n].letter = "none" THEN Len(u[n].text) ELSE 0
      BY <1>1, <1>2, Zenon
    <3>4. Len(u) = Len(s) + Len(t)
      BY <1>2
    <3> HIDE DEF a, b, c
    <3> QED BY <3>1, <3>2, <3>3, <3>4, Zenon
  <2> HIDE DEF a, b, c
  <2>2. /\ a \o b \in Seq(Nat) /\ Len(a \o b) = Len(s) + Len(t)
        /\ \A n \in 1..(Len(s) + Len(t)) : (a \o b)[n] = IF n <= Len(s) THEN a[n] ELSE b[n - Len(s)]
    <3>1. a \in Seq(Nat) /\ b \in Seq(Nat)
      BY <2>1
    <3>2. /\ a \o b \in Seq(Nat) /\ Len(a \o b) = Len(a) + Len(b)
          /\ \A n \in 1..(Len(a) + Len(b)) : (a \o b)[n] = IF n <= Len(a) THEN a[n] ELSE b[n - Len(a)]
      BY <3>1, ConcatProperties
    <3>3. Len(a) = Len(s) /\ Len(b) = Len(t)
      BY <2>1
    <3> QED BY <3>2, <3>3, Zenon
  <2>3. \A n \in 1..(Len(s) + Len(t)) : c[n] = (a \o b)[n]
    <3> SUFFICES ASSUME NEW n \in 1..(Len(s) + Len(t)) PROVE c[n] = (a \o b)[n]
      OBVIOUS
    <3>1. CASE n <= Len(s)
      <4>1. n \in 1..Len(s) /\ u[n] = s[n] /\ (a \o b)[n] = a[n]
        BY <1>2, <1>3, <2>2, <3>1
      <4> QED BY <2>1, <4>1
    <3>2. CASE ~(n <= Len(s))
      <4>1. n - Len(s) \in 1..Len(t) /\ u[n] = t[n - Len(s)] /\ (a \o b)[n] = b[n - Len(s)]
        BY <1>2, <1>3, <2>2, <3>2
      <4> QED BY <2>1, <4>1
    <3> QED BY <3>1, <3>2
  <2>4. c = a \o b
    BY <2>1, <2>2, <2>3, SeqEqual
  <2> QED BY <2>4 DEF a, b, c
<1> QED BY <1>1, <1>4, <1>5 DEF u

\* What pieces count, piece by piece
LEMMA PiecesCount ==
  /\ Conversions(<<>>) = 0 /\ Characters(<<>>) = 0
  /\ \A x \in Pieces :
       /\ Conversions(<<x>>) = IF x.letter = "none" THEN 0 ELSE 1
       /\ Characters(<<x>>) = IF x.letter = "none" THEN Len(x.text) ELSE 0
  /\ \A s, t \in Seq(Pieces) :
       /\ Conversions(s) \in Nat /\ Characters(s) \in Nat
       /\ Conversions(s \o t) = Conversions(s) + Conversions(t)
       /\ Characters(s \o t) = Characters(s) + Characters(t)
<1>0. \A s : Conversions(s) = Total(AsConversions(s)) /\ Characters(s) = Total(AsCharacters(s))
  BY Zenon DEF Conversions, Characters, AsConversions, AsCharacters
<1>1. Conversions(<<>>) = 0 /\ Characters(<<>>) = 0
  <2>1. AsConversions(<<>>) = <<>> /\ AsCharacters(<<>>) = <<>>
    BY DEF AsConversions, AsCharacters
  <2> QED BY <1>0, <2>1, TotalSmall
<1>2. ASSUME NEW x \in Pieces
      PROVE  /\ Conversions(<<x>>) = IF x.letter = "none" THEN 0 ELSE 1
             /\ Characters(<<x>>) = IF x.letter = "none" THEN Len(x.text) ELSE 0
  <2> DEFINE a == IF x.letter = "none" THEN 0 ELSE 1
             b == IF x.letter = "none" THEN Len(x.text) ELSE 0
             s == <<x>>
  <2>0. Len(s) = 1 /\ s[1] = x
    OBVIOUS
  <2>1. a \in Nat /\ b \in Nat
    <3>1. x.text \in Seq(Chars)
      BY DEF Pieces
    <3>2. Len(x.text) \in Nat
      BY <3>1
    <3> QED BY <3>2
  <2> HIDE DEF s
  <2>2. AsConversions(s) = [n \in 1..1 |-> a] /\ AsCharacters(s) = [n \in 1..1 |-> b]
    <3>1. \A n \in 1..1 : s[n] = x
      BY <2>0
    <3>2. 1..Len(s) = 1..1
      BY <2>0
    <3> QED BY <3>1, <3>2 DEF AsConversions, AsCharacters
  <2> HIDE DEF a, b
  <2>3. [n \in 1..1 |-> a] = <<a>> /\ [n \in 1..1 |-> b] = <<b>>
    OBVIOUS
  <2>4. Total(<<a>>) = a /\ Total(<<b>>) = b
    BY <2>1, TotalSmall
  <2>5. Conversions(s) = a /\ Characters(s) = b
    BY <1>0, <2>2, <2>3, <2>4, Zenon
  <2> QED BY <2>5 DEF a, b, s
<1>3. ASSUME NEW s \in Seq(Pieces), NEW t \in Seq(Pieces)
      PROVE  /\ Conversions(s) \in Nat /\ Characters(s) \in Nat
             /\ Conversions(s \o t) = Conversions(s) + Conversions(t)
             /\ Characters(s \o t) = Characters(s) + Characters(t)
  <2>1. /\ AsConversions(s) \in Seq(Nat) /\ AsCharacters(s) \in Seq(Nat)
        /\ AsConversions(t) \in Seq(Nat) /\ AsCharacters(t) \in Seq(Nat)
        /\ AsConversions(s \o t) = AsConversions(s) \o AsConversions(t)
        /\ AsCharacters(s \o t) = AsCharacters(s) \o AsCharacters(t)
    BY AsNumbers
  <2>2. /\ Total(AsConversions(s)) \in Nat
        /\ Total(AsConversions(s) \o AsConversions(t)) = Total(AsConversions(s)) + Total(AsConversions(t))
    BY <2>1, TotalJoined
  <2>3. /\ Total(AsCharacters(s)) \in Nat
        /\ Total(AsCharacters(s) \o AsCharacters(t)) = Total(AsCharacters(s)) + Total(AsCharacters(t))
    BY <2>1, TotalJoined
  <2> QED BY <1>0, <2>1, <2>2, <2>3, Zenon
<1> QED BY <1>1, <1>2, <1>3

\* The parts of a format and the function `print' of adbi_printf
TextPiece(s) == IF s = <<>> THEN <<>> ELSE <<[letter |-> "none", text |-> s]>>
Percents(fmt, at) == {n \in at..Len(fmt) : fmt[n] = "%"}
Letterings(fmt, p) == {n \in (p + 1)..Len(fmt) : fmt[n] \in N!Letters}
Outside(fmt, at) == {n \in at..Len(fmt) : ~Inside(fmt, n)}
ConversionPiece(fmt, p, e) == [letter |-> fmt[e], text |-> SubSeq(fmt, p + 1, e - 1)]

PrintAt(print, fmt, at) ==
    LET p == N!First(Percents(fmt, at))
        e == N!First(Letterings(fmt, p))
    IN  IF Percents(fmt, at) = {} THEN TextPiece(SubSeq(fmt, at, Len(fmt)))
        ELSE TextPiece(SubSeq(fmt, at, p - 1))
               \o IF Letterings(fmt, p) = {} THEN <<>>
                  ELSE <<ConversionPiece(fmt, p, e)>> \o print[e + 1]

IsPrint(print, fmt) == print = [at \in 1..(Len(fmt) + 1) |-> PrintAt(print, fmt, at)]

\* The first of some numbers
LEMMA FirstOf ==
  ASSUME NEW Z \in SUBSET Nat, Z # {}
  PROVE  N!First(Z) \in Z /\ N!First(Z) = Min(Z) /\ \A k \in Z : N!First(Z) <= k
<1>1. \E x \in Z : \A y \in Z : x <= y
  BY Least
<1>2. N!First(Z) \in Z /\ \A k \in Z : N!First(Z) <= k
  BY <1>1, Zenon DEF N!First
<1>3. N!First(Z) = Min(Z)
  BY Zenon DEF N!First, Min
<1> QED BY <1>2, <1>3

\* Where the parts of a format are
LEMMA PartsAt ==
  ASSUME NEW fmt \in Seq(Chars), NEW at \in 1..(Len(fmt) + 1)
  PROVE  /\ Percents(fmt, at) # {} =>
              LET p == N!First(Percents(fmt, at))
              IN  /\ p \in at..Len(fmt) /\ fmt[p] = "%"
                  /\ \A k \in at..(p - 1) : fmt[k] # "%"
         /\ \A p \in 1..Len(fmt) :
              /\ Letterings(fmt, p) = Ends(fmt, p)
              /\ Letterings(fmt, p) # {} =>
                   LET e == N!First(Letterings(fmt, p))
                   IN  /\ e \in (p + 1)..Len(fmt) /\ fmt[e] = "d"
                       /\ Min(Ends(fmt, p)) = e
<1>0. Len(fmt) \in Nat /\ \A n \in 1..Len(fmt) : fmt[n] \in Chars
  BY ElementOfSeq
<1>1. ASSUME Percents(fmt, at) # {}
      PROVE  LET p == N!First(Percents(fmt, at))
             IN  /\ p \in at..Len(fmt) /\ fmt[p] = "%"
                 /\ \A k \in at..(p - 1) : fmt[k] # "%"
  <2> DEFINE p == N!First(Percents(fmt, at))
  <2>1. Percents(fmt, at) \in SUBSET Nat
    BY <1>0 DEF Percents
  <2>2. p \in Percents(fmt, at) /\ \A k \in Percents(fmt, at) : p <= k
    BY <1>1, <2>1, FirstOf
  <2> HIDE DEF p
  <2>3. p \in at..Len(fmt) /\ fmt[p] = "%"
    BY <2>2 DEF Percents
  <2>4. \A k \in at..(p - 1) : fmt[k] # "%"
    <3> SUFFICES ASSUME NEW k \in at..(p - 1), fmt[k] = "%" PROVE FALSE
      OBVIOUS
    <3>1. k \in Percents(fmt, at)
      BY <1>0, <2>3 DEF Percents
    <3>2. p <= k
      BY <2>2, <3>1
    <3> QED BY <1>0, <2>3, <3>2
  <2> QED BY <2>3, <2>4 DEF p
<1>2. ASSUME NEW p \in 1..Len(fmt)
      PROVE  /\ Letterings(fmt, p) = Ends(fmt, p)
             /\ Letterings(fmt, p) # {} =>
                   LET e == N!First(Letterings(fmt, p))
                   IN  /\ e \in (p + 1)..Len(fmt) /\ fmt[e] = "d"
                       /\ Min(Ends(fmt, p)) = e
  <2>1. \A n \in (p + 1)..Len(fmt) : fmt[n] \in N!Letters <=> fmt[n] = "d"
    <3> SUFFICES ASSUME NEW n \in (p + 1)..Len(fmt) PROVE fmt[n] \in N!Letters <=> fmt[n] = "d"
      OBVIOUS
    <3>1. fmt[n] \in Chars
      <4>1. n \in 1..Len(fmt)
        BY <1>0
      <4> QED BY <1>0, <4>1
    <3> QED BY <3>1 DEF Chars, N!Letters
  <2>2. Letterings(fmt, p) = Ends(fmt, p)
    BY <2>1 DEF Letterings, Ends
  <2>3. Ends(fmt, p) \in SUBSET Nat
    BY <1>0 DEF Ends
  <2>4. ASSUME Letterings(fmt, p) # {}
        PROVE  LET e == N!First(Letterings(fmt, p))
               IN  /\ e \in (p + 1)..Len(fmt) /\ fmt[e] = "d"
                   /\ Min(Ends(fmt, p)) = e
    <3> DEFINE e == N!First(Ends(fmt, p))
    <3>1. e \in Ends(fmt, p) /\ e = Min(Ends(fmt, p))
      BY <2>2, <2>3, <2>4, FirstOf
    <3> HIDE DEF e
    <3>2. e \in (p + 1)..Len(fmt) /\ fmt[e] = "d"
      BY <3>1 DEF Ends
    <3>3. e = N!First(Letterings(fmt, p))
      BY <2>2, Zenon DEF e
    <3> QED BY <3>1, <3>2, <3>3
  <2> QED BY <2>2, <2>4
<1> QED BY <1>1, <1>2

\* A stretch of text
LEMMA TextCounts ==
  ASSUME NEW fmt \in Seq(Chars), NEW m \in 1..(Len(fmt) + 1), NEW n \in 0..Len(fmt), m <= n + 1
  PROVE  /\ SubSeq(fmt, m, n) \in Seq(Chars)
         /\ TextPiece(SubSeq(fmt, m, n)) \in Seq(Pieces)
         /\ Conversions(TextPiece(SubSeq(fmt, m, n))) = 0
         /\ Characters(TextPiece(SubSeq(fmt, m, n))) = (n + 1) - m
<1>0. Len(fmt) \in Nat /\ \A k \in 1..Len(fmt) : fmt[k] \in Chars
  BY ElementOfSeq
<1> DEFINE s == SubSeq(fmt, m, n)
<1>1. \A k \in m..n : fmt[k] \in Chars
  BY <1>0
<1>2. m \in Int /\ n \in Int
  BY <1>0
<1>3. s \in Seq(Chars) /\ Len(s) = (n + 1) - m
  <2>1. s \in Seq(Chars) /\ Len(s) = IF m <= n THEN n - m + 1 ELSE 0
    BY <1>1, <1>2, SubSeqProperties
  <2> HIDE DEF s
  <2> QED BY <1>2, <2>1
<1> HIDE DEF s
<1>4. CASE s = <<>>
  <2>1. Len(s) = 0
    BY <1>4
  <2>2. TextPiece(s) = <<>>
    BY <1>4 DEF TextPiece
  <2>3. <<>> \in Seq(Pieces)
    BY EmptySeq
  <2>4. Conversions(<<>>) = 0 /\ Characters(<<>>) = 0
    BY PiecesCount
  <2> QED BY <1>3, <2>1, <2>2, <2>3, <2>4 DEF s
<1>5. CASE s # <<>>
  <2> DEFINE x == [letter |-> "none", text |-> s]
  <2>1. x \in Pieces /\ x.letter = "none" /\ x.text = s
    BY <1>3 DEF Pieces
  <2>2. TextPiece(s) = <<x>>
    BY <1>5, Zenon DEF TextPiece
  <2> HIDE DEF x
  <2>3. <<x>> \in Seq(Pieces)
    BY <2>1
  <2>4. Conversions(<<x>>) = 0 /\ Characters(<<x>>) = Len(s)
    BY <2>1, PiecesCount
  <2> QED BY <1>3, <2>2, <2>3, <2>4 DEF s
<1> QED BY <1>4, <1>5

\* What the loop prints are pieces.
LEMMA PrintsPieces ==
  ASSUME NEW fmt \in Seq(Chars), NEW at \in 1..(Len(fmt) + 1), NEW print,
         \A k \in 1..(Len(fmt) + 1) : k > at => print[k] \in Seq(Pieces)
  PROVE  PrintAt(print, fmt, at) \in Seq(Pieces)
<1>0. Len(fmt) \in Nat /\ \A k \in 1..Len(fmt) : fmt[k] \in Chars
  BY ElementOfSeq
<1>1. CASE Percents(fmt, at) = {}
  <2>1. Len(fmt) \in 0..Len(fmt) /\ at <= Len(fmt) + 1
    BY <1>0
  <2>2. TextPiece(SubSeq(fmt, at, Len(fmt))) \in Seq(Pieces)
    BY <2>1, TextCounts
  <2> QED BY <1>1, <2>2, Zenon DEF PrintAt
<1>2. CASE Percents(fmt, at) # {}
  <2> DEFINE p == N!First(Percents(fmt, at))
             e == N!First(Letterings(fmt, p))
             a == TextPiece(SubSeq(fmt, at, p - 1))
  <2>1. p \in at..Len(fmt)
    BY <1>2, PartsAt
  <2>2. Letterings(fmt, p) # {} => e \in (p + 1)..Len(fmt)
    <3> HIDE DEF p
    <3>1. p \in 1..Len(fmt)
      BY <1>0, <2>1
    <3> QED BY <3>1, PartsAt
  <2>3. a \in Seq(Pieces)
    <3> HIDE DEF p
    <3>1. p - 1 \in 0..Len(fmt) /\ at <= (p - 1) + 1
      BY <1>0, <2>1
    <3> QED BY <3>1, TextCounts
  <2> HIDE DEF p, e, a
  <2>4. CASE Letterings(fmt, p) = {}
    <3>1. PrintAt(print, fmt, at) = a \o <<>>
      BY <1>2, <2>4, Zenon DEF PrintAt, p, a
    <3>2. <<>> \in Seq(Pieces)
      BY EmptySeq
    <3>3. a \o <<>> \in Seq(Pieces)
      BY <2>3, <3>2, ConcatProperties
    <3> QED BY <3>1, <3>3
  <2>5. CASE Letterings(fmt, p) # {}
    <3> DEFINE x == ConversionPiece(fmt, p, e)
    <3>1. PrintAt(print, fmt, at) = a \o (<<x>> \o print[e + 1])
      BY <1>2, <2>5, Zenon DEF PrintAt, p, a, e
    <3>2. x \in Pieces
      <4>1. e \in 1..Len(fmt) /\ fmt[e] \in Chars
        BY <1>0, <2>1, <2>2, <2>5
      <4>2. SubSeq(fmt, p + 1, e - 1) \in Seq(Chars)
        <5>1. p + 1 \in 1..(Len(fmt) + 1) /\ e - 1 \in 0..Len(fmt) /\ p + 1 <= (e - 1) + 1
          BY <1>0, <2>1, <2>2, <2>5
        <5> QED BY <5>1, TextCounts
      <4> QED BY <4>1, <4>2 DEF Pieces, ConversionPiece
    <3>3. print[e + 1] \in Seq(Pieces)
      <4>1. e + 1 \in 1..(Len(fmt) + 1) /\ e + 1 > at
        BY <1>0, <2>1, <2>2, <2>5
      <4> QED BY <4>1
    <3> HIDE DEF x
    <3>4. <<x>> \in Seq(Pieces)
      BY <3>2
    <3>5. <<x>> \o print[e + 1] \in Seq(Pieces)
      BY <3>3, <3>4, ConcatProperties
    <3>6. a \o (<<x>> \o print[e + 1]) \in Seq(Pieces)
      BY <2>3, <3>5, ConcatProperties
    <3> QED BY <3>1, <3>6
  <2> QED BY <2>4, <2>5
<1> QED BY <1>1, <1>2

\* The function exists.
LEMMA PrintExists ==
  ASSUME NEW fmt \in Seq(Chars)
  PROVE  \E print : IsPrint(print, fmt)
<1> DEFINE k == Len(fmt)
           D == 1..(k + 1)
           V == Seq(Pieces)
           rank == [at \in D |-> (k + 1) - at]
           B == [x \in [D -> V] \X D |-> PrintAt(x[1], fmt, x[2])]
<1>0. k \in Nat
  OBVIOUS
<1>1. rank \in [D -> Nat] /\ \A at \in D : rank[at] = (k + 1) - at
  <2> HIDE DEF k
  <2> QED BY <1>0
<1>2. \A h \in [D -> V], at \in D : B[<<h, at>>] = PrintAt(h, fmt, at)
  OBVIOUS
<1>3. ASSUME NEW h \in [D -> V], NEW at \in D PROVE PrintAt(h, fmt, at) \in V
  <2>1. \A n \in 1..(Len(fmt) + 1) : h[n] \in V
    OBVIOUS
  <2> QED BY <2>1, PrintsPieces
<1>4. B \in [[D -> V] \X D -> V]
  <2> HIDE DEF D, V
  <2> QED BY <1>3
<1>5. V # {}
  BY EmptySeq
<1>6. ASSUME NEW g, NEW h, NEW x \in D, \A y \in D : y > x => g[y] = h[y]
      PROVE  PrintAt(g, fmt, x) = PrintAt(h, fmt, x)
  <2> DEFINE p == N!First(Percents(fmt, x))
             e == N!First(Letterings(fmt, p))
  <2>1. Percents(fmt, x) # {} => p \in x..k
    BY PartsAt
  <2>2. Percents(fmt, x) # {} /\ Letterings(fmt, p) # {} => e \in (p + 1)..k
    <3> HIDE DEF p
    <3>1. Percents(fmt, x) # {} => p \in 1..k
      BY <1>0, <2>1
    <3> QED BY <3>1, PartsAt
  <2> HIDE DEF p, e
  <2>3. Percents(fmt, x) # {} /\ Letterings(fmt, p) # {} => g[e + 1] = h[e + 1]
    <3> HIDE DEF k
    <3>1. Percents(fmt, x) # {} /\ Letterings(fmt, p) # {} => e + 1 \in D /\ e + 1 > x
      BY <1>0, <2>1, <2>2
    <3> QED BY <1>6, <3>1
  <2> QED BY <2>3, Zenon DEF PrintAt, p, e
<1> HIDE DEF V, B
<1>7. Grounded(D, V, rank, B)
  <2> HIDE DEF D, rank
  <2> SUFFICES ASSUME NEW g \in [D -> V], NEW h \in [D -> V], NEW x \in D,
                      \A y \in D : rank[y] < rank[x] => g[y] = h[y]
               PROVE  B[<<g, x>>] = B[<<h, x>>]
    BY DEF Grounded
  <2>1. \A y \in D : y > x => rank[y] < rank[x]
    <3> HIDE DEF k
    <3> QED BY <1>0, <1>1 DEF D
  <2>2. \A y \in D : y > x => g[y] = h[y]
    BY <2>1
  <2>3. PrintAt(g, fmt, x) = PrintAt(h, fmt, x)
    BY <1>6, <2>2
  <2> QED BY <1>2, <2>3
<1> HIDE DEF D, rank
<1>8. PICK h \in [D -> V] : Solves(h, D, B)
  BY <1>1, <1>4, <1>5, <1>7, NatRecursion
<1>9. h = [at \in D |-> PrintAt(h, fmt, at)]
  BY <1>2, <1>8 DEF Solves
<1> QED BY <1>9 DEF IsPrint, D, k

\* No conversion that begins before `at' ends after it.
Fresh(fmt, at) == \A k \in 1..(at - 1) : fmt[k] = "%" => Min(Ends(fmt, k)) < at

\* Sets of places are finite.
LEMMA PlacesFinite ==
  ASSUME NEW fmt \in Seq(Chars), NEW at \in 1..(Len(fmt) + 1)
  PROVE  /\ IsFiniteSet(Percents(fmt, at)) /\ IsFiniteSet(Outside(fmt, at))
         /\ Cardinality(Percents(fmt, at)) \in Nat /\ Cardinality(Outside(fmt, at)) \in Nat
<1>0. at \in Int /\ Len(fmt) \in Int
  OBVIOUS
<1>1. IsFiniteSet(at..Len(fmt))
  BY <1>0, FS_Interval
<1>2. Percents(fmt, at) \in SUBSET (at..Len(fmt)) /\ Outside(fmt, at) \in SUBSET (at..Len(fmt))
  BY DEF Percents, Outside
<1>3. IsFiniteSet(Percents(fmt, at)) /\ IsFiniteSet(Outside(fmt, at))
  BY <1>1, <1>2, FS_Subset
<1> QED BY <1>3, FS_CardinalityType

\* A conversion of a simple format has its end.
LEMMA EndOf ==
  ASSUME NEW fmt \in Seq(Chars), Simple(fmt), NEW p \in 1..Len(fmt), fmt[p] = "%"
  PROVE  /\ Letterings(fmt, p) # {} /\ N!First(Letterings(fmt, p)) = Min(Ends(fmt, p))
         /\ Min(Ends(fmt, p)) \in (p + 1)..Len(fmt) /\ fmt[Min(Ends(fmt, p))] = "d"
         /\ \A k \in (p + 1)..Min(Ends(fmt, p)) : fmt[k] # "%"
<1>1. Ends(fmt, p) # {} /\ \A k \in (p + 1)..Min(Ends(fmt, p)) : fmt[k] # "%"
  BY DEF Simple
<1>2. 1 \in 1..(Len(fmt) + 1)
  OBVIOUS
<1>3. Letterings(fmt, p) = Ends(fmt, p)
  BY <1>2, PartsAt
<1>4. Letterings(fmt, p) # {}
  BY <1>1, <1>3, Zenon
<1> DEFINE e == N!First(Letterings(fmt, p))
<1>5. e \in (p + 1)..Len(fmt) /\ fmt[e] = "d" /\ Min(Ends(fmt, p)) = e
  BY <1>2, <1>4, PartsAt
<1> HIDE DEF e
<1> QED BY <1>1, <1>4, <1>5, Zenon DEF e

\* Text before the first conversion is outside.
LEMMA OutsideBefore ==
  ASSUME NEW fmt \in Seq(Chars), Simple(fmt), NEW at \in 1..(Len(fmt) + 1), Fresh(fmt, at),
         NEW n \in at..Len(fmt), \A k \in at..n : fmt[k] # "%"
  PROVE  ~Inside(fmt, n)
<1> SUFFICES ASSUME Inside(fmt, n) PROVE FALSE
  OBVIOUS
<1>0. Len(fmt) \in Nat
  OBVIOUS
<1>1. PICK k \in 1..n : fmt[k] = "%" /\ n <= Min(Ends(fmt, k))
  BY DEF Inside
<1>2. k < at
  BY <1>0, <1>1
<1>3. Min(Ends(fmt, k)) < at
  <2>1. k \in 1..(at - 1)
    BY <1>0, <1>2
  <2> QED BY <1>1, <2>1 DEF Fresh
<1>4. Min(Ends(fmt, k)) \in (k + 1)..Len(fmt)
  <2>1. k \in 1..Len(fmt)
    BY <1>0
  <2> QED BY <1>1, <2>1, EndOf
<1> QED BY <1>0, <1>1, <1>3, <1>4

\* The places from `at', split at the first conversion
LEMMA PlacesSplit ==
  ASSUME NEW fmt \in Seq(Chars), Simple(fmt), NEW at \in 1..(Len(fmt) + 1), Fresh(fmt, at),
         NEW p \in at..Len(fmt), fmt[p] = "%", \A k \in at..(p - 1) : fmt[k] # "%",
         NEW e, e = Min(Ends(fmt, p))
  PROVE  /\ Fresh(fmt, e + 1)
         /\ Cardinality(Percents(fmt, at)) = Cardinality(Percents(fmt, e + 1)) + 1
         /\ Cardinality(Outside(fmt, at)) = (p - at) + Cardinality(Outside(fmt, e + 1))
<1>0. Len(fmt) \in Nat /\ p \in 1..Len(fmt)
  OBVIOUS
<1>1. e \in (p + 1)..Len(fmt) /\ \A k \in (p + 1)..e : fmt[k] # "%"
  BY <1>0, EndOf
<1>2. e + 1 \in 1..(Len(fmt) + 1)
  BY <1>0, <1>1
<1>3. Fresh(fmt, e + 1)
  <2> SUFFICES ASSUME NEW k \in 1..((e + 1) - 1), fmt[k] = "%"
               PROVE  Min(Ends(fmt, k)) < e + 1
    BY DEF Fresh
  <2>1. CASE k < at
    <3>1. k \in 1..(at - 1)
      BY <2>1
    <3>2. Min(Ends(fmt, k)) < at
      BY <3>1 DEF Fresh
    <3>3. k \in 1..Len(fmt)
      BY <1>0, <1>1
    <3>4. Min(Ends(fmt, k)) \in (k + 1)..Len(fmt)
      BY <3>3, EndOf
    <3> QED BY <1>0, <1>1, <3>2, <3>4
  <2>2. CASE k >= at
    <3>1. k = p
      BY <1>0, <1>1, <2>2
    <3> QED BY <1>0, <1>1, <3>1
  <2> QED BY <1>1, <2>1, <2>2
<1>4. Percents(fmt, at) = Percents(fmt, e + 1) \cup {p}
  <2>1. ASSUME NEW n \in Percents(fmt, at) PROVE n \in Percents(fmt, e + 1) \cup {p}
    <3>1. n \in at..Len(fmt) /\ fmt[n] = "%"
      BY DEF Percents
    <3>2. n = p \/ n \in (e + 1)..Len(fmt)
      BY <1>0, <1>1, <3>1
    <3> QED BY <3>1, <3>2 DEF Percents
  <2>2. ASSUME NEW n \in Percents(fmt, e + 1) \cup {p} PROVE n \in Percents(fmt, at)
    <3>1. n \in at..Len(fmt) /\ fmt[n] = "%"
      <4>1. CASE n = p
        BY <4>1
      <4>2. CASE n \in Percents(fmt, e + 1)
        BY <1>0, <1>1, <4>2 DEF Percents
      <4> QED BY <4>1, <4>2
    <3> QED BY <3>1 DEF Percents
  <2> QED BY <2>1, <2>2
<1>5. p \notin Percents(fmt, e + 1)
  BY <1>0, <1>1 DEF Percents
<1>6. Outside(fmt, at) = (at..(p - 1)) \cup Outside(fmt, e + 1)
  <2>1. ASSUME NEW n \in Outside(fmt, at) PROVE n \in (at..(p - 1)) \cup Outside(fmt, e + 1)
    <3>1. n \in at..Len(fmt) /\ ~Inside(fmt, n)
      BY DEF Outside
    <3>2. ~(n \in p..e)
      <4> SUFFICES ASSUME n \in p..e PROVE FALSE
        OBVIOUS
      <4>1. p \in 1..n /\ n <= Min(Ends(fmt, p))
        BY <1>0, <1>1
      <4>2. Inside(fmt, n)
        BY <4>1 DEF Inside
      <4> QED BY <3>1, <4>2
    <3>3. n \in at..(p - 1) \/ n \in (e + 1)..Len(fmt)
      BY <1>0, <1>1, <3>1, <3>2
    <3> QED BY <3>1, <3>3 DEF Outside
  <2>2. ASSUME NEW n \in (at..(p - 1)) \cup Outside(fmt, e + 1) PROVE n \in Outside(fmt, at)
    <3>1. CASE n \in at..(p - 1)
      <4>1. n \in at..Len(fmt) /\ \A k \in at..n : k \in at..(p - 1)
        BY <1>0, <3>1
      <4>2. ~Inside(fmt, n)
        BY <4>1, OutsideBefore
      <4> QED BY <4>1, <4>2 DEF Outside
    <3>2. CASE n \in Outside(fmt, e + 1)
      <4>1. n \in (e + 1)..Len(fmt) /\ ~Inside(fmt, n)
        BY <3>2 DEF Outside
      <4>2. n \in at..Len(fmt)
        BY <1>0, <1>1, <4>1
      <4> QED BY <4>1, <4>2 DEF Outside
    <3> QED BY <3>1, <3>2
  <2> QED BY <2>1, <2>2
<1>7. (at..(p - 1)) \cap Outside(fmt, e + 1) = {}
  BY <1>0, <1>1 DEF Outside
<1>8. Cardinality(Percents(fmt, at)) = Cardinality(Percents(fmt, e + 1)) + 1
  <2>1. IsFiniteSet(Percents(fmt, e + 1))
    BY <1>2, PlacesFinite
  <2>2. Cardinality(Percents(fmt, e + 1) \cup {p}) = Cardinality(Percents(fmt, e + 1)) + 1
    BY <1>5, <2>1, FS_AddElement
  <2> QED BY <1>4, <2>2, Zenon
<1>9. Cardinality(Outside(fmt, at)) = (p - at) + Cardinality(Outside(fmt, e + 1))
  <2>1. at \in Int /\ p - 1 \in Int
    BY <1>0
  <2>2. IsFiniteSet(at..(p - 1)) /\ Cardinality(at..(p - 1)) = IF at > p - 1 THEN 0 ELSE (p - 1) - at + 1
    BY <2>1, FS_Interval
  <2>3. Cardinality(at..(p - 1)) = p - at
    BY <1>0, <2>2
  <2>4. IsFiniteSet(Outside(fmt, e + 1)) /\ Cardinality(Outside(fmt, e + 1)) \in Nat
    BY <1>2, PlacesFinite
  <2> DEFINE X == at..(p - 1)
             Y == Outside(fmt, e + 1)
  <2>5. IsFiniteSet(X) /\ IsFiniteSet(Y) /\ X \cap Y = {}
    BY <1>7, <2>2, <2>4
  <2> HIDE DEF X, Y
  <2>6. Cardinality(X \cup Y) = Cardinality(X) + Cardinality(Y) - Cardinality(X \cap Y)
    BY <2>5, FS_Union
  <2>7. Cardinality(X \cap Y) = 0
    BY <2>5, FS_EmptySet
  <2>8. Cardinality(X) = p - at /\ Cardinality(Y) \in Nat
    BY <2>3, <2>4 DEF X, Y
  <2>9. Cardinality(X \cup Y) = (p - at) + Cardinality(Y)
    BY <1>0, <2>6, <2>7, <2>8
  <2> QED BY <1>6, <2>9, Zenon DEF X, Y
<1> QED BY <1>3, <1>8, <1>9

\* What is printed from `at' counts right.
CountsRight(print, fmt, at) ==
    /\ print[at] \in Seq(Pieces)
    /\ Fresh(fmt, at) =>
         /\ Conversions(print[at]) = Cardinality(Percents(fmt, at))
         /\ Characters(print[at]) = Cardinality(Outside(fmt, at))

\* One step of the loop
LEMMA PrintStep ==
  ASSUME NEW fmt \in Seq(Chars), Simple(fmt), NEW print, IsPrint(print, fmt),
         NEW at \in 1..(Len(fmt) + 1),
         \A k \in 1..(Len(fmt) + 1) : k > at => CountsRight(print, fmt, k)
  PROVE  CountsRight(print, fmt, at)
<1>0. Len(fmt) \in Nat
  OBVIOUS
<1>1. print[at] = PrintAt(print, fmt, at)
  BY DEF IsPrint
<1>2. print[at] \in Seq(Pieces)
  <2>1. \A k \in 1..(Len(fmt) + 1) : k > at => print[k] \in Seq(Pieces)
    BY DEF CountsRight
  <2>2. PrintAt(print, fmt, at) \in Seq(Pieces)
    BY <2>1, PrintsPieces
  <2> QED BY <1>1, <2>2
<1>3. ASSUME Fresh(fmt, at), Percents(fmt, at) = {}
      PROVE  /\ Conversions(print[at]) = Cardinality(Percents(fmt, at))
             /\ Characters(print[at]) = Cardinality(Outside(fmt, at))
  <2>1. print[at] = TextPiece(SubSeq(fmt, at, Len(fmt)))
    BY <1>1, <1>3, Zenon DEF PrintAt
  <2>2. Len(fmt) \in 0..Len(fmt) /\ at <= Len(fmt) + 1
    BY <1>0
  <2>3. Conversions(print[at]) = 0 /\ Characters(print[at]) = (Len(fmt) + 1) - at
    BY <2>1, <2>2, TextCounts
  <2>4. Cardinality(Percents(fmt, at)) = 0
    BY <1>3, FS_EmptySet
  <2>5. \A n \in at..Len(fmt) : fmt[n] # "%"
    BY <1>3 DEF Percents
  <2>6. ASSUME NEW n \in at..Len(fmt) PROVE ~Inside(fmt, n)
    <3>1. \A k \in at..n : fmt[k] # "%"
      BY <1>0, <2>5
    <3> QED BY <1>3, <3>1, OutsideBefore
  <2>7. Outside(fmt, at) = at..Len(fmt)
    BY <2>6 DEF Outside
  <2>8. at \in Int /\ Len(fmt) \in Int
    BY <1>0
  <2>9. Cardinality(at..Len(fmt)) = IF at > Len(fmt) THEN 0 ELSE Len(fmt) - at + 1
    BY <2>8, FS_Interval
  <2>10. Cardinality(Outside(fmt, at)) = IF at > Len(fmt) THEN 0 ELSE Len(fmt) - at + 1
    BY <2>7, <2>9, Zenon
  <2>11. (Len(fmt) + 1) - at = IF at > Len(fmt) THEN 0 ELSE Len(fmt) - at + 1
    BY <1>0
  <2> QED BY <2>3, <2>4, <2>10, <2>11, Zenon
<1>4. ASSUME Fresh(fmt, at), Percents(fmt, at) # {}
      PROVE  /\ Conversions(print[at]) = Cardinality(Percents(fmt, at))
             /\ Characters(print[at]) = Cardinality(Outside(fmt, at))
  <2> DEFINE p == N!First(Percents(fmt, at))
             e == N!First(Letterings(fmt, p))
             a == TextPiece(SubSeq(fmt, at, p - 1))
             x == ConversionPiece(fmt, p, e)
             r == print[e + 1]
  <2>1. p \in at..Len(fmt) /\ fmt[p] = "%" /\ \A k \in at..(p - 1) : fmt[k] # "%"
    BY <1>4, PartsAt
  <2>2. Letterings(fmt, p) # {} /\ e = Min(Ends(fmt, p)) /\ e \in (p + 1)..Len(fmt) /\ fmt[e] = "d"
    <3> HIDE DEF p
    <3>1. p \in 1..Len(fmt)
      BY <1>0, <2>1
    <3> QED BY <2>1, <3>1, EndOf
  <2>3. print[at] = a \o (<<x>> \o r)
    BY <1>1, <1>4, <2>2, Zenon DEF PrintAt
  <2> HIDE DEF p, e
  <2>4. a \in Seq(Pieces) /\ Conversions(a) = 0 /\ Characters(a) = p - at
    <3>1. p - 1 \in 0..Len(fmt) /\ at <= (p - 1) + 1
      BY <1>0, <2>1
    <3>2. a \in Seq(Pieces) /\ Conversions(a) = 0 /\ Characters(a) = ((p - 1) + 1) - at
      BY <3>1, TextCounts
    <3> HIDE DEF a
    <3> QED BY <1>0, <2>1, <3>2
  <2>5. x \in Pieces /\ x.letter = "d"
    <3>1. SubSeq(fmt, p + 1, e - 1) \in Seq(Chars)
      <4>1. p + 1 \in 1..(Len(fmt) + 1) /\ e - 1 \in 0..Len(fmt) /\ p + 1 <= (e - 1) + 1
        BY <1>0, <2>1, <2>2
      <4> QED BY <4>1, TextCounts
    <3> QED BY <2>2, <3>1 DEF Pieces, ConversionPiece, Chars
  <2> HIDE DEF a, x
  <2>6. <<x>> \in Seq(Pieces) /\ Conversions(<<x>>) = 1 /\ Characters(<<x>>) = 0
    <3>1. <<x>> \in Seq(Pieces)
      BY <2>5
    <3>2. x.letter # "none"
      BY <2>5
    <3> QED BY <2>5, <3>1, <3>2, PiecesCount
  <2>7. e + 1 \in 1..(Len(fmt) + 1) /\ e + 1 > at
    BY <1>0, <2>1, <2>2
  <2>8. CountsRight(print, fmt, e + 1)
    BY <2>7
  <2>9. /\ Fresh(fmt, e + 1)
        /\ Cardinality(Percents(fmt, at)) = Cardinality(Percents(fmt, e + 1)) + 1
        /\ Cardinality(Outside(fmt, at)) = (p - at) + Cardinality(Outside(fmt, e + 1))
    BY <1>4, <2>1, <2>2, PlacesSplit
  <2>10. /\ r \in Seq(Pieces)
         /\ Conversions(r) = Cardinality(Percents(fmt, e + 1))
         /\ Characters(r) = Cardinality(Outside(fmt, e + 1))
    BY <2>8, <2>9, Zenon DEF CountsRight
  <2>11. Cardinality(Percents(fmt, e + 1)) \in Nat /\ Cardinality(Outside(fmt, e + 1)) \in Nat
    BY <2>7, PlacesFinite
  <2> HIDE DEF r
  <2>12. /\ <<x>> \o r \in Seq(Pieces)
         /\ Conversions(<<x>> \o r) = Conversions(<<x>>) + Conversions(r)
         /\ Characters(<<x>> \o r) = Characters(<<x>>) + Characters(r)
    <3>1. <<x>> \o r \in Seq(Pieces)
      BY <2>6, <2>10, ConcatProperties
    <3> QED BY <2>6, <2>10, <3>1, PiecesCount
  <2>13. /\ Conversions(a \o (<<x>> \o r)) = Conversions(a) + Conversions(<<x>> \o r)
         /\ Characters(a \o (<<x>> \o r)) = Characters(a) + Characters(<<x>> \o r)
    BY <2>4, <2>12, PiecesCount
  <2> DEFINE c1 == Conversions(a \o (<<x>> \o r))
             c2 == Characters(a \o (<<x>> \o r))
  <2>14. c1 = Cardinality(Percents(fmt, e + 1)) + 1
    BY <2>4, <2>6, <2>10, <2>11, <2>12, <2>13
  <2>15. c2 = (p - at) + Cardinality(Outside(fmt, e + 1))
    BY <1>0, <2>1, <2>4, <2>6, <2>10, <2>11, <2>12, <2>13
  <2> QED BY <2>3, <2>9, <2>14, <2>15, Zenon
<1> QED BY <1>2, <1>3, <1>4, Zenon DEF CountsRight

\* adbi_printf takes one argument for every conversion of a simple format,
\* and writes every character that is outside of them.
THEOREM FormatCounts ==
  ASSUME NEW fmt \in Seq(Chars), Simple(fmt)
  PROVE  LET pieces == N!adbi_printf(fmt)
         IN  /\ Conversions(pieces) = Cardinality({n \in 1..Len(fmt) : fmt[n] = "%"})
             /\ Characters(pieces) = Cardinality({n \in 1..Len(fmt) : ~Inside(fmt, n)})
<1> DEFINE k == Len(fmt)
           c == CHOOSE print : IsPrint(print, fmt)
<1>0. k \in Nat
  OBVIOUS
<1>1. IsPrint(c, fmt)
  BY PrintExists, Zenon
<1>2. N!adbi_printf(fmt) = c[1]
  BY Zenon DEF N!adbi_printf, IsPrint, PrintAt, Percents, Letterings, TextPiece, ConversionPiece
<1> HIDE DEF c
<1> DEFINE K == {j \in 0..k : \A at \in 1..(k + 1) : at >= (k + 1) - j => CountsRight(c, fmt, at)}
<1>3. 0 \in K
  <2>1. ASSUME NEW at \in 1..(k + 1), at >= (k + 1) - 0 PROVE CountsRight(c, fmt, at)
    <3>1. \A m \in 1..(Len(fmt) + 1) : m > at => CountsRight(c, fmt, m)
      BY <1>0, <2>1
    <3> QED BY <1>1, <3>1, PrintStep
  <2> HIDE DEF k
  <2> QED BY <1>0, <2>1
<1>4. ASSUME NEW j \in 1..k, j - 1 \in K PROVE j \in K
  <2>0. \A at \in 1..(k + 1) : at >= (k + 1) - (j - 1) => CountsRight(c, fmt, at)
    BY <1>4
  <2>1. ASSUME NEW at \in 1..(k + 1), at >= (k + 1) - j PROVE CountsRight(c, fmt, at)
    <3>1. \A m \in 1..(Len(fmt) + 1) : m > at => CountsRight(c, fmt, m)
      <4> SUFFICES ASSUME NEW m \in 1..(Len(fmt) + 1), m > at PROVE CountsRight(c, fmt, m)
        OBVIOUS
      <4>1. m >= (k + 1) - (j - 1)
        BY <1>0, <2>1
      <4> QED BY <2>0, <4>1
    <3> QED BY <1>1, <3>1, PrintStep
  <2> HIDE DEF k
  <2> QED BY <1>0, <2>1
<1> HIDE DEF K
<1>5. \A j \in 0..k : j \in K
  <2> HIDE DEF k
  <2> QED BY <1>0, <1>3, <1>4, Upwards
<1>6. CountsRight(c, fmt, 1)
  <2> HIDE DEF k
  <2>1. k \in K
    BY <1>0, <1>5
  <2>2. 1 \in 1..(k + 1) /\ 1 >= (k + 1) - k
    BY <1>0
  <2> QED BY <2>1, <2>2 DEF K
<1>7. Fresh(fmt, 1)
  BY DEF Fresh
<1>8. Conversions(c[1]) = Cardinality(Percents(fmt, 1)) /\ Characters(c[1]) = Cardinality(Outside(fmt, 1))
  BY <1>6, <1>7, Zenon DEF CountsRight
<1> QED BY <1>2, <1>8, Zenon DEF Percents, Outside

------------------------------------------------------------------------------
(* Numbers: small words                                                     *)

\* Division, for words of any width: div is right where dividend and divisor
\* are below the highest bit; divl where the dividend is and the divisor is a
\* positive int but not 1, whatever a shift by 0 gives; divsl rounds towards
\* zero (idk/include/division.h).
THEOREM QuotientsRight ==
  ASSUME NEW W \in Nat \ {0}, NEW x \in Nat, NEW d \in Nat \ {0}, NEW again, d < N!Power[W - 1]
  PROVE  /\ x < N!Power[W - 1] => N!div(W, x, d) = x \div d
         /\ x < N!Power[2 * W - 1] /\ d # 1 =>
              /\ N!divl(W, x, d, again) = x \div d
              /\ N!divsl(W, -x, d, again) = -(x \div d)
              /\ N!divsl(W, -x, -d, again) = x \div d
<1>1. d # 1 => d \in Nat /\ d > 1
  OBVIOUS
<1> QED BY <1>1, DivRight, LongDivRight, SignedDivRight

\* The powers that words of 4 and of 8 bits need
LEMMA SmallPowers ==
  /\ N!Power[3] = 8 /\ N!Power[4] = 16 /\ N!Power[7] = 128 /\ N!Power[8] = 256
  /\ N!Power[16] = 65536
<1> DEFINE p == N!Power
<1> HIDE DEF p
<1>0. p[0] = 1 /\ \A k \in Nat : p[k + 1] = 2 * p[k]
  BY PowerStep, Zenon DEF p
<1>1. p[0 + 1] = 2 /\ p[1 + 1] = 4 /\ p[2 + 1] = 8 /\ p[3 + 1] = 16
  BY <1>0
<1>2. p[4] = 16 /\ p[3] = 8
  BY <1>1
<1>3. p[4 + 1] = 32 /\ p[5 + 1] = 64 /\ p[6 + 1] = 128 /\ p[7 + 1] = 256
  BY <1>0, <1>2
<1>4. p[7] = 128 /\ p[8] = 256
  BY <1>3
<1>5. p[8 + 1] = 512 /\ p[9 + 1] = 1024 /\ p[10 + 1] = 2048 /\ p[11 + 1] = 4096
  BY <1>0, <1>4
<1>6. p[12] = 4096
  BY <1>5
<1>7. p[12 + 1] = 8192 /\ p[13 + 1] = 16384 /\ p[14 + 1] = 32768 /\ p[15 + 1] = 65536
  BY <1>0, <1>6
<1>8. p[16] = 65536
  BY <1>7
<1> QED BY <1>2, <1>4, <1>8 DEF p

\* Quotients of a byte, with words of 4 bits
LEMMA SmallQuotients ==
  ASSUME NEW x \in 0..255, NEW d \in 1..7, NEW again \in BOOLEAN
  PROVE  /\ x < 8 => N!div(4, x, d) = x \div d
         /\ x < 128 /\ d > 1 =>
              /\ N!divl(4, x, d, again) = x \div d
              /\ N!divsl(4, -x, d, again) = -(x \div d)
              /\ N!divsl(4, -x, -d, again) = x \div d
<1> DEFINE W == 4
<1>1. W \in Nat \ {0} /\ x \in Nat /\ d \in Nat \ {0}
  OBVIOUS
<1>2. N!Power[W - 1] = 8 /\ N!Power[2 * W - 1] = 128
  BY SmallPowers
<1> HIDE DEF W
<1>3. d < N!Power[W - 1]
  BY <1>2
<1>4. /\ x < N!Power[W - 1] => N!div(W, x, d) = x \div d
      /\ x < N!Power[2 * W - 1] /\ d # 1 =>
           /\ N!divl(W, x, d, again) = x \div d
           /\ N!divsl(W, -x, d, again) = -(x \div d)
           /\ N!divsl(W, -x, -d, again) = x \div d
  <2>1. x < N!Power[W - 1] => N!div(W, x, d) = x \div d
    BY <1>1, <1>3, DivRight
  <2>2. x < N!Power[2 * W - 1] /\ d > 1 => N!divl(W, x, d, again) = x \div d
    BY <1>1, <1>3, LongDivRight
  <2>3. x < N!Power[2 * W - 1] /\ d > 1 =>
           /\ N!divsl(W, -x, d, again) = -(x \div d)
           /\ N!divsl(W, -x, -d, again) = x \div d
    BY <1>1, <1>3, SignedDivRight
  <2>4. d # 1 => d > 1
    OBVIOUS
  <2> QED BY <2>1, <2>2, <2>3, <2>4, Zenon
<1>5. d > 1 => d # 1
  OBVIOUS
<1>6. /\ x < 8 => N!div(W, x, d) = x \div d
      /\ x < 128 /\ d > 1 =>
           /\ N!divl(W, x, d, again) = x \div d
           /\ N!divsl(W, -x, d, again) = -(x \div d)
           /\ N!divsl(W, -x, -d, again) = x \div d
  BY <1>2, <1>4, <1>5, Zenon
<1> QED BY <1>6, Zenon DEF W

\* Conversions of a byte, with words of 4 bits
LEMMA ByteConversions ==
  ASSUME NEW arg \in 0..255, NEW m \in Modifiers
  PROVE  LET longs == Cardinality({n \in 1..Len(m) : m[n] = "l"})
             width == IF longs - (Len(m) - longs) >= 2 THEN 8 ELSE 4
             v == arg % 2^width
             signed == IF v >= 2^(width - 1) THEN v - 2^width ELSE v
         IN  /\ StandsFor(N!Convert(4, m, "x", arg), 16, v)
             /\ StandsFor(N!Convert(4, m, "o", arg), 8, v)
             /\ Top(4, v) \/ StandsFor(N!Convert(4, m, "u", arg), 10, v)
             /\ StandsFor(N!Convert(4, m, "d", arg), 10, signed)
<1>1. m \in Seq({"l", "h"})
  <2>1. PICK n \in 0..3 : m \in [1..n -> {"l", "h"}]
    BY Zenon DEF Modifiers
  <2> QED BY <2>1
<1> DEFINE places == {n \in 1..Len(m) : m[n] = "l"}
           longs == Cardinality(places)
           width == IF longs - (Len(m) - longs) >= 2 THEN 8 ELSE 4
           v == arg % 2^width
           signed == IF v >= 2^(width - 1) THEN v - 2^width ELSE v
           u == arg % N!Power[BitsOf(4, m)]
<1>2. longs = N!Count(m, "l")
  <2>1. N!Cardinality(places) = Cardinality(places)
    <3> HIDE DEF places
    <3> QED BY Zenon DEF N!Cardinality, Cardinality
  <2> QED BY <2>1, Zenon DEF N!Count
<1> HIDE DEF longs
<1>3. width = BitsOf(4, m) /\ (width = 8 \/ width = 4)
  BY <1>2 DEF BitsOf
<1>4. u = v /\ AsSigned(u, BitsOf(4, m)) = signed
  <2>1. CASE width = 8
    <3>1. BitsOf(4, m) = 8
      BY <1>3, <2>1
    <3>2. 2^width = 256 /\ 2^(width - 1) = 128
      <4> HIDE DEF width
      <4> QED BY <2>1
    <3>3. N!Power[BitsOf(4, m)] = 256 /\ N!Power[BitsOf(4, m) - 1] = 128
      BY <3>1, SmallPowers
    <3> HIDE DEF width
    <3> QED BY <3>2, <3>3 DEF AsSigned
  <2>2. CASE width = 4
    <3>1. BitsOf(4, m) = 4
      BY <1>3, <2>2
    <3>2. 2^width = 16 /\ 2^(width - 1) = 8
      <4> HIDE DEF width
      <4> QED BY <2>2
    <3>3. N!Power[BitsOf(4, m)] = 16 /\ N!Power[BitsOf(4, m) - 1] = 8
      BY <3>1, SmallPowers
    <3> HIDE DEF width
    <3> QED BY <3>2, <3>3 DEF AsSigned
  <2> QED BY <1>3, <2>1, <2>2
<1>5. /\ StandsFor(N!Convert(4, m, "x", arg), 16, u)
      /\ StandsFor(N!Convert(4, m, "o", arg), 8, u)
      /\ Top(4, u) \/ StandsFor(N!Convert(4, m, "u", arg), 10, u)
      /\ StandsFor(N!Convert(4, m, "d", arg), 10, AsSigned(u, BitsOf(4, m)))
  <2>1. 4 \in Nat /\ 4 > 1 /\ arg \in Nat
    OBVIOUS
  <2> HIDE DEF u
  <2>2. u = arg % N!Power[BitsOf(4, m)]
    BY Zenon DEF u
  <2> QED BY <1>1, <2>1, <2>2, ConversionStands
<1> HIDE DEF u, v, signed
<1>6. /\ StandsFor(N!Convert(4, m, "x", arg), 16, v)
      /\ StandsFor(N!Convert(4, m, "o", arg), 8, v)
      /\ Top(4, v) \/ StandsFor(N!Convert(4, m, "u", arg), 10, v)
      /\ StandsFor(N!Convert(4, m, "d", arg), 10, signed)
  BY <1>4, <1>5, Zenon
<1> QED BY <1>6, Zenon DEF v, signed, longs

------------------------------------------------------------------------------
(* Symbols: the nearest one                                                 *)

\* Symbols, what the search for the nearest has found so far, and lists
SymbolTypes == {"NONE", "ADBI", "EXPORT", "IMPORT", "TPOINT"}
Symbols(Names) == [name : Names, offset : Nat]
Nearest(Names) == [type : SymbolTypes, offset : Int, name : Names \cup {J!Empty}]
SymbolLists(Names) == {J!NoList} \cup {s \in Seq(Symbols(Names)) : s # <<>>}

\* One value of the function `over' of Better, and the function
OverAt(over, best, type, list, offset, n) ==
    IF n = 0 THEN best
    ELSE LET b == over[n - 1]
         IN  IF list[n].offset <= offset /\ list[n].offset > b.offset
             THEN [type |-> type, offset |-> list[n].offset, name |-> list[n].name]
             ELSE b

IsOver(over, best, type, list, offset) ==
    over = [n \in 0..Len(list) |-> OverAt(over, best, type, list, offset, n)]

\* The function exists.
LEMMA OverExists ==
  ASSUME NEW Names, NEW best \in Nearest(Names), NEW type \in SymbolTypes, NEW list \in Seq(Symbols(Names)), NEW offset \in Nat
  PROVE  \E over : IsOver(over, best, type, list, offset)
<1> DEFINE k == Len(list)
           D == 0..k
           V == Nearest(Names)
           rank == [n \in D |-> n]
           B == [x \in [D -> V] \X D |-> OverAt(x[1], best, type, list, offset, x[2])]
<1>0. k \in Nat /\ \A n \in 1..k : list[n] \in Symbols(Names)
  BY ElementOfSeq
<1> HIDE DEF k
<1>1. rank \in [D -> Nat] /\ \A n \in D : rank[n] = n
  OBVIOUS
<1>2. \A h \in [D -> V], n \in D : B[<<h, n>>] = OverAt(h, best, type, list, offset, n)
  OBVIOUS
<1>3. \A n \in D : n # 0 => n - 1 \in D /\ n - 1 < n /\ n \in 1..k
  BY <1>0
<1> HIDE DEF D
<1>4. ASSUME NEW h \in [D -> V], NEW n \in D PROVE OverAt(h, best, type, list, offset, n) \in V
  <2>1. CASE n = 0
    BY <2>1 DEF OverAt
  <2>2. CASE n # 0
    <3>1. h[n - 1] \in Nearest(Names) /\ list[n] \in Symbols(Names)
      BY <1>0, <1>3, <2>2
    <3>2. list[n].offset \in Int /\ list[n].name \in Names
      BY <3>1 DEF Symbols
    <3>3. [type |-> type, offset |-> list[n].offset, name |-> list[n].name] \in Nearest(Names)
      BY <3>2 DEF Nearest
    <3> QED BY <2>2, <3>1, <3>3, Zenon DEF OverAt
  <2> QED BY <2>1, <2>2
<1>5. B \in [[D -> V] \X D -> V]
  BY <1>4
<1>6. V # {}
  OBVIOUS
<1> HIDE DEF V, B, rank
<1>7. Grounded(D, V, rank, B)
  <2> SUFFICES ASSUME NEW g \in [D -> V], NEW h \in [D -> V], NEW x \in D,
                      \A y \in D : rank[y] < rank[x] => g[y] = h[y]
               PROVE  B[<<g, x>>] = B[<<h, x>>]
    BY DEF Grounded
  <2>1. x # 0 => g[x - 1] = h[x - 1]
    BY <1>1, <1>3
  <2>2. OverAt(g, best, type, list, offset, x) = OverAt(h, best, type, list, offset, x)
    BY <2>1, Zenon DEF OverAt
  <2> QED BY <1>2, <2>2
<1>8. PICK h \in [D -> V] : Solves(h, D, B)
  BY <1>1, <1>5, <1>6, <1>7, NatRecursion
<1>9. h = [n \in D |-> OverAt(h, best, type, list, offset, n)]
  BY <1>2, <1>8 DEF Solves
<1> QED BY <1>9 DEF IsOver, D, k

\* r is what a list with the offsets H makes of the best symbol so far.
Improves(Names, r, best, type, H) ==
    /\ r \in Nearest(Names)
    /\ best.offset <= r.offset
    /\ \A o \in H : o <= r.offset
    /\ r = best \/ (r.type = type /\ r.offset \in H /\ best.offset < r.offset)

\* One loop of str_injection_offset
LEMMA BetterIs ==
  ASSUME NEW Names, NEW best \in Nearest(Names), NEW type \in SymbolTypes, NEW list \in Seq(Symbols(Names)), NEW offset \in Nat
  PROVE  Improves(Names, J!Better(best, type, list, offset), best, type,
                  {o \in {list[n].offset : n \in 1..Len(list)} : o <= offset})
<1> DEFINE k == Len(list)
           c == CHOOSE over : IsOver(over, best, type, list, offset)
           H(n) == {o \in {list[m].offset : m \in 1..n} : o <= offset}
           K == {n \in 0..k : Improves(Names, c[n], best, type, H(n))}
<1>0. k \in Nat /\ \A n \in 1..k : list[n] \in Symbols(Names)
  BY ElementOfSeq
<1>1. IsOver(c, best, type, list, offset)
  BY OverExists, Zenon
<1>2. J!Better(best, type, list, offset) = c[k]
  BY Zenon DEF J!Better, IsOver, OverAt
<1> HIDE DEF c, k
<1>3. \A n \in 0..k : c[n] = OverAt(c, best, type, list, offset, n)
  BY <1>1 DEF IsOver, k
<1>4. best.offset \in Int
  BY DEF Nearest
<1>5. 0 \in K
  <2>0. 0 \in 0..k
    BY <1>0
  <2>1. c[0] = best
    BY <1>3, <2>0, Zenon DEF OverAt
  <2>2. H(0) = {}
    OBVIOUS
  <2> HIDE DEF H
  <2>3. Improves(Names, c[0], best, type, H(0))
    BY <1>4, <2>1, <2>2 DEF Improves
  <2> QED BY <2>0, <2>3, Zenon
<1>6. ASSUME NEW n \in 1..k, n - 1 \in K PROVE n \in K
  <2> DEFINE b == c[n - 1]
             o == list[n].offset
             x == [type |-> type, offset |-> o, name |-> list[n].name]
  <2>1. Improves(Names, b, best, type, H(n - 1))
    <3> HIDE DEF H
    <3> QED BY <1>6
  <2>2. n \in 0..k /\ n # 0
    BY <1>0
  <2>3. c[n] = IF o <= offset /\ o > b.offset THEN x ELSE b
    BY <1>3, <2>2, Zenon DEF OverAt
  <2>4. o \in Nat /\ list[n].name \in Names
    BY <1>0 DEF Symbols
  <2>5. x \in Nearest(Names) /\ x.type = type /\ x.offset = o
    BY <2>4 DEF Nearest
  <2>6. H(n) = H(n - 1) \cup (IF o <= offset THEN {o} ELSE {})
    <3>1. 1..n = 1..(n - 1) \cup {n}
      BY <1>0
    <3> QED BY <3>1
  <2>7. b \in Nearest(Names) /\ b.offset \in Int
    BY <2>1 DEF Improves, Nearest
  <2>8. \A y \in H(n - 1) : y \in Int
    <3>1. \A m \in 1..(n - 1) : list[m].offset \in Int
      <4>1. \A m \in 1..(n - 1) : list[m] \in Symbols(Names)
        BY <1>0
      <4> QED BY <4>1 DEF Symbols
    <3> QED BY <3>1
  <2> HIDE DEF H, b, o, x
  <2>9. Improves(Names, c[n], best, type, H(n))
    <3>1. CASE o <= offset /\ o > b.offset
      <4>1. c[n] = x
        BY <2>3, <3>1
      <4> QED BY <1>4, <2>1, <2>4, <2>5, <2>6, <2>7, <2>8, <3>1, <4>1 DEF Improves
    <3>2. CASE ~(o <= offset /\ o > b.offset)
      <4>1. c[n] = b
        BY <2>3, <3>2
      <4>2. o <= offset => o <= b.offset
        BY <2>4, <2>7, <3>2
      <4> QED BY <2>1, <2>6, <4>1, <4>2 DEF Improves
    <3> QED BY <3>1, <3>2
  <2> QED BY <2>2, <2>9
<1> HIDE DEF K
<1>7. \A n \in 0..k : n \in K
  BY <1>0, <1>5, <1>6, Upwards
<1>8. Improves(Names, c[k], best, type, H(k))
  <2>1. k \in K
    BY <1>0, <1>7
  <2> HIDE DEF H
  <2> QED BY <2>1 DEF K
<1> QED BY <1>2, <1>8, Zenon DEF k

\* The same for a list as a file has it
LEMMA ListImproves ==
  ASSUME NEW Names, NEW best \in Nearest(Names), NEW type \in SymbolTypes, NEW list \in SymbolLists(Names), NEW offset \in Nat
  PROVE  Improves(Names, J!Better(best, type, J!injfile_symbol_iter(list), offset), best, type,
                  {o \in Entries(list) : o <= offset})
<1> DEFINE s == J!injfile_symbol_iter(list)
           W == {o \in {s[n].offset : n \in 1..Len(s)} : o <= offset}
           V == {o \in Entries(list) : o <= offset}
<1>1. s \in Seq(Symbols(Names)) /\ V = W
  <2>1. CASE list = J!NoList
    <3>1. s = <<>> /\ Entries(list) = {}
      BY <2>1, Zenon DEF J!injfile_symbol_iter, Entries
    <3> HIDE DEF s
    <3>2. s \in Seq(Symbols(Names)) /\ 1..Len(s) = {}
      BY <3>1
    <3> QED BY <3>1, <3>2
  <2>2. CASE list # J!NoList
    <3>1. list \in Seq(Symbols(Names)) /\ list # <<>>
      BY <2>2 DEF SymbolLists
    <3>2. s = list /\ Entries(list) = {list[n].offset : n \in 1..Len(list)}
      BY <2>2, <3>1, Zenon DEF J!injfile_symbol_iter, Entries
    <3> HIDE DEF s
    <3> QED BY <3>1, <3>2
  <2> QED BY <2>1, <2>2
<1> HIDE DEF s
<1>2. Improves(Names, J!Better(best, type, s, offset), best, type, W)
  BY <1>1, BetterIs
<1> HIDE DEF V, W
<1>3. Improves(Names, J!Better(best, type, s, offset), best, type, V)
  BY <1>1, <1>2
<1> QED BY <1>3 DEF s, V

\* Offsets of lists
LEMMA EntriesAre ==
  ASSUME NEW Names, NEW list \in SymbolLists(Names)
  PROVE  Entries(list) \in SUBSET Nat
<1>1. CASE list = J!NoList
  BY <1>1, Zenon DEF Entries
<1>2. CASE list # J!NoList
  <2>1. list \in Seq(Symbols(Names))
    BY <1>2 DEF SymbolLists
  <2>2. \A n \in 1..Len(list) : list[n] \in Symbols(Names)
    BY <2>1, ElementOfSeq
  <2>3. \A n \in 1..Len(list) : list[n].offset \in Nat
    BY <2>2 DEF Symbols
  <2>4. Entries(list) = {list[n].offset : n \in 1..Len(list)}
    BY <1>2, Zenon DEF Entries
  <2> QED BY <2>3, <2>4
<1> QED BY <1>1, <1>2

\* str_injection_offset, for lists of any length: the nearest symbol or
\* handler at or below the offset, of the first list that has one there.
THEOREM NearestFound ==
  ASSUME NEW Names, NEW file, NEW offset \in Nat,
         file.adbi \in SymbolLists(Names), file.exports \in SymbolLists(Names),
         file.imports \in SymbolLists(Names), file.tpoints \in SymbolLists(Names)
  PROVE  Described(file, offset)
<1> DEFINE H1 == {o \in Entries(file.adbi) : o <= offset}
           H2 == {o \in Entries(file.exports) : o <= offset}
           H3 == {o \in Entries(file.imports) : o <= offset}
           H4 == {o \in Entries(file.tpoints) : o <= offset}
           r0 == J!NoSymbol
           r1 == J!Better(r0, "ADBI", J!injfile_symbol_iter(file.adbi), offset)
           r2 == J!Better(r1, "EXPORT", J!injfile_symbol_iter(file.exports), offset)
           r3 == J!Better(r2, "IMPORT", J!injfile_symbol_iter(file.imports), offset)
           r4 == J!Better(r3, "TPOINT", J!injfile_symbol_iter(file.tpoints), offset)
           order == <<"adbi", "exports", "imports", "tpoints">>
           types == <<"ADBI", "EXPORT", "IMPORT", "TPOINT">>
           Here(n) == {o \in Entries(file[order[n]]) : o <= offset}
           Z == {-1} \cup UNION {Here(n) : n \in 1..4}
           best == Max(Z)
           lists == {n \in 1..4 : best \in Here(n)}
<1>1. /\ H1 \in SUBSET Nat /\ H2 \in SUBSET Nat /\ H3 \in SUBSET Nat /\ H4 \in SUBSET Nat
  BY EntriesAre
<1>0. /\ "ADBI" \in SymbolTypes /\ "EXPORT" \in SymbolTypes /\ "IMPORT" \in SymbolTypes /\ "TPOINT" \in SymbolTypes
      /\ "NONE" \in SymbolTypes
  BY DEF SymbolTypes
<1>2. r0 \in Nearest(Names) /\ r0.offset = -1 /\ r0.type = "NONE"
  <2>1. -1 \in Int
    OBVIOUS
  <2>2. r0 = [type |-> "NONE", offset |-> -1, name |-> J!Empty]
    BY Zenon DEF J!NoSymbol
  <2> QED BY <1>0, <2>1, <2>2 DEF Nearest
<1>3. Here(1) = H1 /\ Here(2) = H2 /\ Here(3) = H3 /\ Here(4) = H4
  OBVIOUS
<1>4. J!str_injection_offset(file, offset) = r4
  BY Zenon DEF J!str_injection_offset
<1>b. \A b \in Nearest(Names), t \in SymbolTypes, l \in SymbolLists(Names) :
         Improves(Names, J!Better(b, t, J!injfile_symbol_iter(l), offset), b, t,
                  {o \in Entries(l) : o <= offset})
  BY ListImproves
<1> HIDE DEF r0
<1>5. Improves(Names, r1, r0, "ADBI", H1)
  BY <1>0, <1>2, <1>b, Zenon
<1>6. r1 \in Nearest(Names)
  <2> HIDE DEF r1, H1
  <2> QED BY <1>5 DEF Improves
<1> HIDE DEF r1
<1>7. Improves(Names, r2, r1, "EXPORT", H2)
  BY <1>0, <1>6, <1>b, Zenon
<1>8. r2 \in Nearest(Names)
  <2> HIDE DEF r2, H2
  <2> QED BY <1>7 DEF Improves
<1> HIDE DEF r2
<1>9. Improves(Names, r3, r2, "IMPORT", H3)
  BY <1>0, <1>8, <1>b, Zenon
<1>10. r3 \in Nearest(Names)
  <2> HIDE DEF r3, H3
  <2> QED BY <1>9 DEF Improves
<1> HIDE DEF r3
<1>11. Improves(Names, r4, r3, "TPOINT", H4)
  BY <1>0, <1>10, <1>b, Zenon
<1>12. r4 \in Nearest(Names)
  <2> HIDE DEF r4, H4
  <2> QED BY <1>11 DEF Improves
<1> HIDE DEF r4, H1, H2, H3, H4
<1>13. Z = {-1} \cup H1 \cup H2 \cup H3 \cup H4
  <2>1. 1..4 = {1, 2, 3, 4}
    OBVIOUS
  <2>2. UNION {Here(n) : n \in {1, 2, 3, 4}} = Here(1) \cup Here(2) \cup Here(3) \cup Here(4)
    <3> HIDE DEF Here
    <3> QED OBVIOUS
  <2>3. Z = {-1} \cup (Here(1) \cup Here(2) \cup Here(3) \cup Here(4))
    <3> HIDE DEF Here
    <3> QED BY <2>1, <2>2, Zenon
  <2> HIDE DEF Z, Here
  <2> QED BY <1>3, <2>3
<1> DEFINE o0 == r0.offset
           o1 == r1.offset
           o2 == r2.offset
           o3 == r3.offset
           o4 == r4.offset
<1>14. o1 \in Int /\ o2 \in Int /\ o3 \in Int /\ o4 \in Int /\ o0 = -1
  BY <1>2, <1>6, <1>8, <1>10, <1>12 DEF Nearest
<1>15. /\ o0 <= o1 /\ (\A o \in H1 : o <= o1)
       /\ (o1 = o0 /\ r1 = r0) \/ (r1.type = "ADBI" /\ o1 \in H1)
  BY <1>5 DEF Improves
<1>16. /\ o1 <= o2 /\ (\A o \in H2 : o <= o2)
       /\ (o2 = o1 /\ r2 = r1) \/ (r2.type = "EXPORT" /\ o2 \in H2 /\ o1 < o2)
  BY <1>7 DEF Improves
<1>17. /\ o2 <= o3 /\ (\A o \in H3 : o <= o3)
       /\ (o3 = o2 /\ r3 = r2) \/ (r3.type = "IMPORT" /\ o3 \in H3 /\ o2 < o3)
  BY <1>9 DEF Improves
<1>18. /\ o3 <= o4 /\ (\A o \in H4 : o <= o4)
       /\ (o4 = o3 /\ r4 = r3) \/ (r4.type = "TPOINT" /\ o4 \in H4 /\ o3 < o4)
  BY <1>11 DEF Improves
<1> HIDE DEF o0, o1, o2, o3, o4
<1>19. o4 = best
  <2>1. o4 \in Z
    <3> HIDE DEF Z
    <3> QED BY <1>13, <1>14, <1>15, <1>16, <1>17, <1>18
  <2>2. \A o \in Z : o <= o4
    <3> HIDE DEF Z
    <3> QED BY <1>1, <1>13, <1>14, <1>15, <1>16, <1>17, <1>18
  <2>3. Z \in SUBSET Int
    <3> HIDE DEF Z
    <3> QED BY <1>1, <1>13
  <2> HIDE DEF Z
  <2> QED BY <2>1, <2>2, <2>3, MaxMinAre
<1>20. lists = {n \in 1..4 : o4 \in Here(n)}
  <2> HIDE DEF best, Here
  <2> QED BY <1>19
<1> HIDE DEF best, lists
<1>21. \A n \in lists : n \in Int
  BY <1>20
<1>22. \A n \in 1..4 : n = 1 \/ n = 2 \/ n = 3 \/ n = 4
  OBVIOUS
<1>23. /\ 1 \in lists <=> o4 \in H1
       /\ 2 \in lists <=> o4 \in H2
       /\ 3 \in lists <=> o4 \in H3
       /\ 4 \in lists <=> o4 \in H4
  <2> HIDE DEF Here
  <2> QED BY <1>3, <1>20
<1>24. \A n \in lists : n \in 1..4
  BY <1>20
<1>25. \A n \in 1..4 : n \in lists /\ (\A m \in 1..(n - 1) : m \notin lists) => Min(lists) = n
  <2> SUFFICES ASSUME NEW n \in 1..4, n \in lists, \A m \in 1..(n - 1) : m \notin lists
               PROVE  Min(lists) = n
    OBVIOUS
  <2>1. \A m \in lists : n <= m
    BY <1>24
  <2>2. lists \in SUBSET Int
    BY <1>21
  <2> QED BY <2>1, <2>2, MaxMinAre
<1>26. r4.type = IF o4 = -1 THEN "NONE" ELSE types[Min(lists)]
  <2>0. types[1] = "ADBI" /\ types[2] = "EXPORT" /\ types[3] = "IMPORT" /\ types[4] = "TPOINT"
    OBVIOUS
  <2> HIDE DEF types
  <2>1. CASE r4.type = "TPOINT" /\ o4 \in H4 /\ o3 < o4
    <3>1. o4 \notin H1 /\ o4 \notin H2 /\ o4 \notin H3
      BY <1>14, <1>15, <1>16, <1>17, <2>1
    <3>2. Min(lists) = 4
      BY <1>22, <1>23, <1>25, <2>1, <3>1
    <3>3. o4 # -1
      BY <1>1, <2>1
    <3> QED BY <2>0, <2>1, <3>2, <3>3
  <2>2. CASE o4 = o3 /\ r4 = r3 /\ r3.type = "IMPORT" /\ o3 \in H3 /\ o2 < o3
    <3>1. o4 \notin H1 /\ o4 \notin H2 /\ o4 \in H3
      BY <1>14, <1>15, <1>16, <2>2
    <3>2. Min(lists) = 3
      BY <1>22, <1>23, <1>25, <3>1
    <3>3. o4 # -1
      BY <1>1, <2>2
    <3> QED BY <2>0, <2>2, <3>2, <3>3
  <2>3. CASE o4 = o2 /\ r4 = r2 /\ r2.type = "EXPORT" /\ o2 \in H2 /\ o1 < o2
    <3>1. o4 \notin H1 /\ o4 \in H2
      BY <1>14, <1>15, <2>3
    <3>2. Min(lists) = 2
      BY <1>22, <1>23, <1>25, <3>1
    <3>3. o4 # -1
      BY <1>1, <2>3
    <3> QED BY <2>0, <2>3, <3>2, <3>3
  <2>4. CASE o4 = o1 /\ r4 = r1 /\ r1.type = "ADBI" /\ o1 \in H1
    <3>1. o4 \in H1
      BY <2>4
    <3>2. Min(lists) = 1
      BY <1>22, <1>23, <1>25, <3>1
    <3>3. o4 # -1
      BY <1>1, <2>4
    <3> QED BY <2>0, <2>4, <3>2, <3>3
  <2>5. CASE o4 = o0 /\ r4 = r0
    BY <1>2, <1>14, <2>5
  <2> QED BY <1>15, <1>16, <1>17, <1>18, <2>1, <2>2, <2>3, <2>4, <2>5
<1>27. r4.offset = best /\ r4.type = IF best = -1 THEN "NONE" ELSE types[Min(lists)]
  BY <1>19, <1>26 DEF o4
<1> QED BY <1>4, <1>27, Zenon DEF Described, best, lists

------------------------------------------------------------------------------
(* Symbols: lines                                                           *)

\* The number of the last line entry at or below an offset leads to `found'.
LastBelow(found, lines, offset) ==
    \/ found = J!NoLine /\ \A n \in 1..Len(lines) : lines[n].addr > offset
    \/ \E n \in 1..Len(lines) :
          /\ lines[n].addr <= offset
          /\ \A m \in 1..Len(lines) : lines[m].addr <= offset => m <= n
          /\ found = [file |-> lines[n].file, line |-> lines[n].line]

\* injfile_addr2line, for a list of any length that is in the order of the
\* addresses: the last entry at or below the offset.
THEOREM LineFound ==
  ASSUME NEW lines, NEW offset \in Nat, lines # J!NoList, Len(lines) \in Nat,
         \A n \in 1..Len(lines) : lines[n].addr \in Nat,
         \A m, n \in 1..Len(lines) : m < n => lines[m].addr <= lines[n].addr
  PROVE  LastBelow(J!injfile_addr2line(lines, offset), lines, offset)
<1> DEFINE k == Len(lines)
           Stop(n) == /\ n = k + 1 \/ lines[n].addr > offset
                      /\ \A m \in 1..(n - 1) : lines[m].addr <= offset
           stop == CHOOSE n \in 1..(k + 1) : Stop(n)
           Q == {n \in 1..(k + 1) : n = k + 1 \/ lines[n].addr > offset}
<1>1. PICK x \in Q : \A y \in Q : x <= y
  <2>1. Q \in SUBSET Nat /\ k + 1 \in Q
    OBVIOUS
  <2> HIDE DEF Q
  <2> QED BY <2>1, Least
<1>2. x \in 1..(k + 1) /\ Stop(x)
  BY <1>1
<1>3. stop \in 1..(k + 1) /\ Stop(stop)
  <2> HIDE DEF Stop
  <2> QED BY <1>2
<1>4. J!injfile_addr2line(lines, offset)
        = IF stop = 1 THEN J!NoLine
          ELSE [file |-> lines[stop - 1].file, line |-> lines[stop - 1].line]
  BY Zenon DEF J!injfile_addr2line
<1> HIDE DEF stop
<1>5. \A m \in 1..k : m >= stop => lines[m].addr > offset
  BY <1>3
<1>6. CASE stop = 1
  BY <1>4, <1>5, <1>6 DEF LastBelow
<1>7. CASE stop # 1
  <2> DEFINE n == stop - 1
  <2>1. n \in 1..k /\ lines[n].addr <= offset
    BY <1>3, <1>7
  <2>2. \A m \in 1..k : lines[m].addr <= offset => m <= n
    BY <1>3, <1>5
  <2>3. J!injfile_addr2line(lines, offset) = [file |-> lines[n].file, line |-> lines[n].line]
    BY <1>4, <1>7
  <2> HIDE DEF n
  <2> QED BY <2>1, <2>2, <2>3 DEF LastBelow
<1> QED BY <1>6, <1>7

\* A finite set of numbers is the list of its elements, in their order.
LEMMA NthAre ==
  ASSUME NEW A \in SUBSET Nat, IsFiniteSet(A)
  PROVE  /\ Cardinality(A) \in Nat
         /\ \A n \in 1..Cardinality(A) : Nth(A, n) \in A
         /\ \A m, n \in 1..Cardinality(A) : m < n => Nth(A, m) < Nth(A, n)
         /\ \A a \in A : \E n \in 1..Cardinality(A) : Nth(A, n) = a
<1> DEFINE Below(a) == {b \in A : b < a}
           Lower(a) == Cardinality(Below(a))
           k == Cardinality(A)
           rank == [a \in A |-> Lower(a) + 1]
<1>1. k \in Nat /\ \A a \in A : a \in Nat
  BY FS_CardinalityType
<1>2. ASSUME NEW a \in A PROVE IsFiniteSet(Below(a)) /\ Lower(a) \in Nat /\ Lower(a) < k
  <2>1. Below(a) \in SUBSET A /\ a \notin Below(a)
    OBVIOUS
  <2> HIDE DEF Below
  <2>2. IsFiniteSet(Below(a)) /\ Lower(a) <= k /\ (k = Lower(a) => A = Below(a))
    BY <2>1, FS_Subset
  <2>3. Lower(a) \in Nat
    BY <2>2, FS_CardinalityType
  <2> QED BY <1>1, <2>1, <2>2, <2>3
<1>3. ASSUME NEW a \in A, NEW b \in A, a < b PROVE Lower(a) < Lower(b)
  <2>0. a \in Int /\ b \in Int /\ \A x \in A : x \in Int
    BY <1>1
  <2>1. Below(a) \in SUBSET Below(b) /\ a \in Below(b) /\ a \notin Below(a)
    <3>1. \A x \in A : x < a => x < b
      BY <1>3, <2>0
    <3>2. ~(a < a)
      BY <2>0
    <3> QED BY <1>3, <3>1, <3>2
  <2>2. IsFiniteSet(Below(b)) /\ Lower(a) \in Nat /\ Lower(b) \in Nat
    BY <1>2
  <2> HIDE DEF Below
  <2>3. Lower(a) <= Lower(b) /\ (Lower(b) = Lower(a) => Below(b) = Below(a))
    BY <2>1, <2>2, FS_Subset
  <2> QED BY <2>1, <2>2, <2>3
<1>r. \A a \in A : Lower(a) \in Nat /\ Lower(a) < k
  BY <1>2
<1>s. \A a, b \in A : a < b => Lower(a) < Lower(b)
  BY <1>3
<1> HIDE DEF Lower, Below
<1>4. \A a, b \in A : Lower(a) = Lower(b) => a = b
  <2> SUFFICES ASSUME NEW a \in A, NEW b \in A, a # b PROVE Lower(a) # Lower(b)
    OBVIOUS
  <2>1. a < b \/ b < a
    BY <1>1
  <2> QED BY <1>r, <1>s, <2>1
<1> HIDE DEF k
<1>5. rank \in Injection(A, 1..k)
  <2>1. rank \in [A -> 1..k]
    <3>1. \A a \in A : Lower(a) + 1 \in 1..k
      BY <1>1, <1>r
    <3> QED BY <3>1
  <2>2. \A a, b \in A : rank[a] = rank[b] => a = b
    BY <1>r, <1>4
  <2> HIDE DEF rank
  <2> QED BY <2>1, <2>2, Zenon DEF Injection, IsInjective
<1>6. rank \in Surjection(A, 1..k)
  <2>1. IsFiniteSet(1..k) /\ Cardinality(1..k) = k
    BY <1>1, FS_Interval
  <2> HIDE DEF rank
  <2> QED BY <1>5, <2>1, FS_Injection DEF k
<1>7. \A n \in 1..k : \E a \in A : Lower(a) = n - 1
  <2> SUFFICES ASSUME NEW n \in 1..k PROVE \E a \in A : Lower(a) = n - 1
    OBVIOUS
  <2>1. PICK a \in A : rank[a] = n
    BY <1>6, Zenon DEF Surjection
  <2>2. Lower(a) \in Nat /\ rank[a] = Lower(a) + 1
    BY <1>r
  <2> QED BY <2>1, <2>2
<1>8. ASSUME NEW n \in 1..k PROVE Nth(A, n) \in A /\ Lower(Nth(A, n)) = n - 1
  <2>1. Nth(A, n) = CHOOSE a \in A : Lower(a) = n - 1
    BY Zenon DEF Nth, Lower, Below
  <2> QED BY <1>7, <2>1
<1>9. ASSUME NEW m \in 1..k, NEW n \in 1..k, m < n PROVE Nth(A, m) < Nth(A, n)
  <2> DEFINE a == Nth(A, m)
             b == Nth(A, n)
  <2>1. a \in A /\ b \in A /\ Lower(a) = m - 1 /\ Lower(b) = n - 1
    BY <1>8
  <2> HIDE DEF a, b
  <2>2. a # b /\ ~(b < a)
    BY <1>s, <1>9, <2>1
  <2>3. a \in Nat /\ b \in Nat
    BY <1>1, <2>1
  <2>4. a < b
    BY <2>2, <2>3
  <2> QED BY <2>4 DEF a, b
<1>10. ASSUME NEW a \in A PROVE \E n \in 1..k : Nth(A, n) = a
  <2> DEFINE n == Lower(a) + 1
  <2>1. n \in 1..k /\ Lower(a) = n - 1
    BY <1>1, <1>r
  <2> HIDE DEF n
  <2>2. Nth(A, n) = a
    BY <1>4, <1>8, <2>1
  <2> QED BY <2>1, <2>2
<1> QED BY <1>1, <1>8, <1>9, <1>10 DEF k

\* The lines lead right for any finite set of addresses.
LEMMA LinesLead ==
  ASSUME NEW A \in SUBSET Nat, IsFiniteSet(A), NEW offset \in Nat
  PROVE  LineLeads(A, offset)
<1> DEFINE below == {a \in A : a <= offset}
           k == Cardinality(A)
           lines == [n \in 1..k |-> [addr |-> Nth(A, n), file |-> 0, line |-> 10 + Nth(A, n)]]
<1>1. J!NoLine.line = -1
  BY DEF J!NoLine
<1>2. CASE A = {}
  <2>1. J!injfile_addr2line(J!NoList, offset) = J!NoLine
    BY Zenon DEF J!injfile_addr2line
  <2>2. below = {}
    BY <1>2
  <2>3. J!injfile_addr2line(J!NoList, offset).line = IF below = {} THEN -1 ELSE 10 + Max(below)
    BY <1>1, <2>1, <2>2
  <2> HIDE DEF below
  <2> QED BY <1>2, <2>3, Zenon DEF LineLeads, below
<1>3. CASE A # {}
  <2> DEFINE r == J!injfile_addr2line(lines, offset)
  <2>1. /\ k \in Nat
        /\ \A n \in 1..k : Nth(A, n) \in A
        /\ \A m, n \in 1..k : m < n => Nth(A, m) < Nth(A, n)
        /\ \A a \in A : \E n \in 1..k : Nth(A, n) = a
    BY NthAre
  <2> HIDE DEF k
  <2>2. Len(lines) = k /\ \A n \in 1..k : lines[n].addr = Nth(A, n) /\ lines[n].line = 10 + Nth(A, n)
    BY <2>1
  <2>3. lines # J!NoList
    <3>1. 1 \in 1..k
      <4>1. PICK a \in A : TRUE
        BY <1>3
      <4>2. PICK n \in 1..k : Nth(A, n) = a
        BY <2>1
      <4> QED BY <2>1
    <3>2. DOMAIN lines[1] = {"addr", "file", "line"}
      BY <3>1
    <3>3. J!NoList[1] = [name |-> "null", offset |-> -1]
      BY DEF J!NoList
    <3>4. DOMAIN J!NoList[1] = {"name", "offset"}
      BY <3>3
    <3>5. "addr" \in DOMAIN lines[1] /\ "addr" \notin DOMAIN J!NoList[1]
      BY <3>2, <3>4
    <3> HIDE DEF lines
    <3> QED BY <3>5, Zenon
  <2>4. LineLeads(A, offset) <=> r.line = IF below = {} THEN -1 ELSE 10 + Max(below)
    <3> HIDE DEF below
    <3> QED BY <1>3, Zenon DEF LineLeads, below, k, Nth
  <2> HIDE DEF lines
  <2>5. /\ \A n \in 1..k : Nth(A, n) \in Nat
        /\ \A a \in A : a \in Int
    <3>1. \A a \in A : a \in Nat
      OBVIOUS
    <3>2. \A n \in 1..k : Nth(A, n) \in A
      BY <2>1
    <3>3. \A n \in 1..k : Nth(A, n) \in Nat
      BY <3>1, <3>2, Zenon
    <3> QED BY <3>1, <3>3
  <2>6. LastBelow(r, lines, offset)
    <3>1. \A n \in 1..Len(lines) : lines[n].addr \in Nat
      BY <2>2, <2>5
    <3>2. \A m, n \in 1..Len(lines) : m < n => lines[m].addr <= lines[n].addr
      BY <2>1, <2>2, <2>5
    <3>3. Len(lines) \in Nat
      BY <2>1, <2>2
    <3> QED BY <2>3, <3>1, <3>2, <3>3, LineFound
  <2> HIDE DEF r
  <2>7. CASE r = J!NoLine /\ \A n \in 1..Len(lines) : lines[n].addr > offset
    <3>1. \A n \in 1..k : Nth(A, n) > offset
      BY <2>2, <2>7
    <3>2. \A a \in A : ~(a <= offset)
      <4>1. SUFFICES ASSUME NEW a \in A PROVE ~(a <= offset)
        OBVIOUS
      <4>2. PICK n \in 1..k : Nth(A, n) = a
        BY <2>1
      <4> QED BY <2>5, <3>1, <4>2
    <3>3. below = {}
      BY <3>2
    <3> HIDE DEF below
    <3> QED BY <1>1, <2>4, <2>7, <3>3
  <2>8. CASE \E n \in 1..Len(lines) :
               /\ lines[n].addr <= offset
               /\ \A m \in 1..Len(lines) : lines[m].addr <= offset => m <= n
               /\ r = [file |-> lines[n].file, line |-> lines[n].line]
    <3>1. PICK n \in 1..k : /\ Nth(A, n) <= offset
                            /\ \A m \in 1..k : Nth(A, m) <= offset => m <= n
                            /\ r.line = 10 + Nth(A, n)
      BY <2>2, <2>8
    <3> DEFINE x == Nth(A, n)
    <3>2. x \in below /\ below \in SUBSET Int
      BY <2>1, <2>5, <3>1
    <3>3. ASSUME NEW y \in below PROVE y <= x
      <4>1. PICK m \in 1..k : Nth(A, m) = y
        BY <2>1
      <4>2. m <= n
        BY <3>1, <4>1
      <4> QED BY <2>1, <2>5, <4>1, <4>2
    <3> HIDE DEF below, x
    <3>4. Max(below) = x
      BY <3>2, <3>3, MaxMinAre
    <3>5. r.line = 10 + x /\ below # {}
      BY <3>1, <3>2 DEF x
    <3> QED BY <2>4, <3>4, <3>5
  <2> QED BY <2>6, <2>7, <2>8 DEF LastBelow
<1> QED BY <1>2, <1>3

------------------------------------------------------------------------------
(* Symbols: exports                                                         *)

\* The offsets of a name in a list
Exported(list, name) ==
    IF list = J!NoList THEN {}
    ELSE {list[n].offset : n \in {m \in 1..Len(list) : list[m].name = name}}

\* The addresses of a name in the injections of a process
ExportedBy(process, name) ==
    UNION {{process[n].address + o : o \in Exported(process[n].exports, name)} :
             n \in 1..Len(process)}

\* injfile_get_symbol finds a symbol of the name if the list has one.
LEMMA SymbolGot ==
  ASSUME NEW Names, NEW list \in SymbolLists(Names), NEW name
  PROVE  /\ Exported(list, name) \in SUBSET Nat
         /\ IF Exported(list, name) = {} THEN J!injfile_get_symbol(list, name) = -1
            ELSE J!injfile_get_symbol(list, name) \in Exported(list, name)
<1>1. CASE list = J!NoList
  <2> DEFINE s == J!injfile_iter_symbols(list)
             W == {n \in 1..Len(s) : s[n].name = name}
  <2>1. s = <<>> /\ Exported(list, name) = {}
    BY <1>1, Zenon DEF J!injfile_iter_symbols, Exported
  <2>2. J!injfile_get_symbol(list, name)
          = IF W = {} THEN -1 ELSE s[CHOOSE n \in W : \A m \in W : n <= m].offset
    BY Zenon DEF J!injfile_get_symbol
  <2> HIDE DEF s
  <2>3. W = {}
    BY <2>1
  <2> QED BY <2>1, <2>2, <2>3
<1>2. CASE list # J!NoList
  <2> DEFINE W == {n \in 1..Len(list) : list[n].name = name}
             x == CHOOSE n \in W : \A m \in W : n <= m
  <2>1. list \in Seq(Symbols(Names))
    BY <1>2 DEF SymbolLists
  <2>2. \A n \in 1..Len(list) : list[n].offset \in Nat
    <3>1. \A n \in 1..Len(list) : list[n] \in Symbols(Names)
      BY <2>1, ElementOfSeq
    <3> QED BY <3>1 DEF Symbols
  <2>3. Exported(list, name) = {list[n].offset : n \in W}
    BY <1>2, Zenon DEF Exported
  <2>4. J!injfile_get_symbol(list, name) = IF W = {} THEN -1 ELSE list[x].offset
    <3> DEFINE s == J!injfile_iter_symbols(list)
               O == {n \in 1..Len(s) : s[n].name = name}
    <3>1. s = list
      BY <1>2, Zenon DEF J!injfile_iter_symbols
    <3>2. J!injfile_get_symbol(list, name)
            = IF O = {} THEN -1 ELSE s[CHOOSE n \in O : \A m \in O : n <= m].offset
      BY Zenon DEF J!injfile_get_symbol
    <3> HIDE DEF s
    <3> QED BY <3>1, <3>2, Zenon
  <2>5. W \in SUBSET Nat
    OBVIOUS
  <2>6. \A n \in W : list[n].offset \in Nat
    BY <2>2
  <2>7. W # {} => x \in W
    <3> HIDE DEF W
    <3> QED BY <2>5, Least
  <2> HIDE DEF W, x
  <2> QED BY <2>3, <2>4, <2>6, <2>7
<1> QED BY <1>1, <1>2

\* Injections with their addresses and what they export
Exporters(process, Names) ==
    /\ Len(process) \in Nat
    /\ \A n \in 1..Len(process) :
         process[n].address \in Nat \ {0} /\ process[n].exports \in SymbolLists(Names)

\* injection_find_export finds an address of the symbol if any injection
\* exports it.
LEMMA ExportFound ==
  ASSUME NEW Names, NEW process, Exporters(process, Names), NEW name
  PROVE  IF ExportedBy(process, name) = {} THEN J!injection_find_export(process, name) = 0
         ELSE J!injection_find_export(process, name) \in ExportedBy(process, name) \ {0}
<1> DEFINE k == Len(process)
           X(n) == Exported(process[n].exports, name)
           Of(n) == {process[n].address + o : o \in X(n)}
           A(n) == J!injection_get_exported_symbol_address(process[n], name)
           Q == {n \in 1..k : A(n) # 0}
           x == CHOOSE n \in Q : \A m \in Q : n <= m
<1>0. k \in Nat
  BY DEF Exporters
<1>1. ASSUME NEW n \in 1..k
      PROVE  IF Of(n) = {} THEN A(n) = 0 ELSE A(n) # 0 /\ A(n) \in Of(n)
  <2> DEFINE g == J!injfile_get_symbol(process[n].exports, name)
             b == process[n].address
  <2>1. b \in Nat \ {0} /\ process[n].exports \in SymbolLists(Names)
    BY DEF Exporters
  <2>2. X(n) \in SUBSET Nat /\ IF X(n) = {} THEN g = -1 ELSE g \in X(n)
    BY <2>1, SymbolGot
  <2>3. A(n) = IF g < 0 THEN 0 ELSE b + g
    BY Zenon DEF J!injection_get_exported_symbol_address, J!injection_relocate_address
  <2> HIDE DEF X, g, b, A
  <2>4. CASE X(n) = {}
    <3>1. Of(n) = {}
      BY <2>4
    <3>2. A(n) = 0
      BY <2>2, <2>3, <2>4
    <3> QED BY <3>1, <3>2
  <2>5. CASE X(n) # {}
    <3>1. g \in X(n) /\ g \in Nat
      BY <2>2, <2>5
    <3>2. A(n) = b + g /\ A(n) # 0
      BY <2>1, <2>3, <3>1
    <3>3. b + g \in Of(n)
      BY <3>1 DEF b
    <3> HIDE DEF Of
    <3> QED BY <3>2, <3>3
  <2> QED BY <2>4, <2>5
<1>2. ExportedBy(process, name) = UNION {Of(n) : n \in 1..k}
  BY Zenon DEF ExportedBy
<1>3. J!injection_find_export(process, name) = IF Q = {} THEN 0 ELSE A(x)
  BY Zenon DEF J!injection_find_export
<1> HIDE DEF Of, A
<1>4. Q # {} => x \in Q
  <2>1. Q \in SUBSET Nat
    OBVIOUS
  <2> HIDE DEF Q
  <2> QED BY <2>1, Least
<1> HIDE DEF x
<1>5. CASE Q = {}
  <2>1. \A n \in 1..k : A(n) = 0
    BY <1>5
  <2>2. \A n \in 1..k : Of(n) = {}
    BY <1>1, <2>1
  <2>3. ExportedBy(process, name) = {}
    BY <1>2, <2>2
  <2> HIDE DEF Q
  <2> QED BY <1>3, <1>5, <2>3
<1>6. CASE Q # {}
  <2>1. x \in 1..k /\ A(x) # 0
    BY <1>4, <1>6
  <2>2. A(x) \in Of(x)
    BY <1>1, <2>1
  <2>3. A(x) \in ExportedBy(process, name)
    BY <1>2, <2>1, <2>2
  <2> HIDE DEF Q
  <2> QED BY <1>3, <1>6, <2>1, <2>3
<1> QED BY <1>5, <1>6

------------------------------------------------------------------------------
(* Symbols: dynamic linking                                                 *)

\* Where injection_dlink puts the address of import n, and the address
StubAt(injection, imports, mode32, n) ==
    J!injection_relocate_address(injection, imports[n].offset) + (IF mode32 THEN 1 ELSE 2)
StubTo(process, imports, n) == J!injection_find_export(process, imports[n].name)

\* One value of the function `link' of injection_dlink, and the function
LinkAt(link, mem, process, injection, imports, mode32, words, n) ==
    IF n = 0 THEN mem
    ELSE IF StubTo(process, imports, n) = 0 THEN link[n - 1]
    ELSE J!WriteAddress(link[n - 1], StubAt(injection, imports, mode32, n), words,
                        StubTo(process, imports, n))

IsLink(link, mem, process, injection, imports, mode32, words) ==
    link = [n \in 0..Len(imports) |->
              LinkAt(link, mem, process, injection, imports, mode32, words, n)]

\* Memory of a process
Writable(mem, words) == mem = [a \in DOMAIN mem |-> mem[a]] /\ words \in {1, 2}

\* The function exists.
LEMMA LinkExists ==
  ASSUME NEW mem, NEW words, Writable(mem, words), NEW process, NEW injection, NEW imports,
         Len(imports) \in Nat, NEW mode32
  PROVE  \E link : IsLink(link, mem, process, injection, imports, mode32, words)
<1> DEFINE k == Len(imports)
           D == 0..k
           M == DOMAIN mem
           To(n) == StubTo(process, imports, n)
           At(n) == StubAt(injection, imports, mode32, n)
           W == {mem[a] : a \in M} \cup {0} \cup {To(n) : n \in 1..k}
           V == [M -> W]
           Step(h, n) == LinkAt(h, mem, process, injection, imports, mode32, words, n)
           rank == [n \in D |-> n]
           B == [x \in [D -> V] \X D |-> Step(x[1], x[2])]
<1>0. k \in Nat
  OBVIOUS
<1> HIDE DEF k
<1>1. rank \in [D -> Nat] /\ \A n \in D : rank[n] = n
  OBVIOUS
<1>2. \A h \in [D -> V], n \in D : B[<<h, n>>] = Step(h, n)
  <2> HIDE DEF V, D, Step
  <2> QED OBVIOUS
<1>3. \A n \in D : n # 0 => n - 1 \in D /\ n - 1 < n /\ n \in 1..k
  BY <1>0
<1>4. mem \in V
  <2>1. mem = [a \in M |-> mem[a]]
    BY DEF Writable
  <2>2. \A a \in M : mem[a] \in W
    OBVIOUS
  <2> HIDE DEF M, W
  <2> QED BY <2>1, <2>2
<1>w. 0 \in W /\ \A n \in 1..k : To(n) \in W
  OBVIOUS
<1> HIDE DEF D, To, At, W
<1>5. ASSUME NEW h \in [D -> V], NEW n \in D PROVE Step(h, n) \in V
  <2>1. CASE n = 0
    BY <1>4, <2>1, Zenon DEF LinkAt
  <2>2. CASE n # 0
    <3>1. h[n - 1] \in V /\ To(n) \in W
      BY <1>3, <1>w, <2>2
    <3> DEFINE g == h[n - 1]
    <3>2. g \in [M -> W]
      BY <3>1
    <3> HIDE DEF g
    <3>3. DOMAIN g = M /\ \A a \in M : g[a] \in W
      BY <3>2
    <3>4. [a \in DOMAIN g |-> IF a = At(n) THEN To(n)
                              ELSE IF words = 2 /\ a = At(n) + 1 THEN 0 ELSE g[a]] \in V
      BY <1>w, <3>1, <3>3
    <3>5. J!WriteAddress(g, At(n), words, To(n)) \in V
      BY <3>4, Zenon DEF J!WriteAddress
    <3>6. Step(h, n) = IF To(n) = 0 THEN g ELSE J!WriteAddress(g, At(n), words, To(n))
      BY <2>2, Zenon DEF LinkAt, To, At, g
    <3> HIDE DEF Step, V
    <3> QED BY <3>1, <3>5, <3>6, Zenon DEF g
  <2> QED BY <2>1, <2>2
<1> HIDE DEF V, Step
<1>6. B \in [[D -> V] \X D -> V]
  BY <1>5
<1> HIDE DEF B, rank
<1>7. Grounded(D, V, rank, B)
  <2> SUFFICES ASSUME NEW g \in [D -> V], NEW h \in [D -> V], NEW x \in D,
                      \A y \in D : rank[y] < rank[x] => g[y] = h[y]
               PROVE  B[<<g, x>>] = B[<<h, x>>]
    BY DEF Grounded
  <2>1. x # 0 => g[x - 1] = h[x - 1]
    BY <1>1, <1>3
  <2>2. Step(g, x) = Step(h, x)
    BY <2>1, Zenon DEF LinkAt, Step
  <2> QED BY <1>2, <2>2
<1>8. V # {}
  BY <1>4
<1>9. PICK h \in [D -> V] : Solves(h, D, B)
  BY <1>1, <1>6, <1>7, <1>8, NatRecursion
<1>10. h = [n \in D |-> Step(h, n)]
  BY <1>2, <1>9 DEF Solves
<1> QED BY <1>10 DEF IsLink, D, k, Step

\* The words of import n
StubWords(injection, imports, mode32, words, n) ==
    StubAt(injection, imports, mode32, n)..(StubAt(injection, imports, mode32, n) + words - 1)

\* No stub has its address where the address of another one is written.
Apart(injection, imports, mode32, words) ==
    \A m, n \in 1..Len(imports) :
        m # n => StubAt(injection, imports, mode32, n)
                   \notin StubWords(injection, imports, mode32, words, m)

\* What dynamic linking is to do
LinkedRight(after, mem, process, injection, imports, mode32, words) ==
    /\ after.success <=>
         \A n \in 1..Len(imports) :
            /\ ExportedBy(process, imports[n].name) # {}
            /\ StubWords(injection, imports, mode32, words, n) \subseteq DOMAIN mem
    /\ DOMAIN after.mem = DOMAIN mem
    /\ \A n \in 1..Len(imports) :
         LET at == StubAt(injection, imports, mode32, n)
         IN  ExportedBy(process, imports[n].name) # {} /\ at \in DOMAIN mem
               => after.mem[at] \in ExportedBy(process, imports[n].name)
    /\ \A a \in DOMAIN mem :
         (\A n \in 1..Len(imports) : a \notin StubWords(injection, imports, mode32, words, n))
           => after.mem[a] = mem[a]

\* injection_dlink, for any number of imports and of injections: it succeeds
\* exactly if every import is exported by an injection and its stub can be
\* written; each stub then has an address of a symbol of that name, also if
\* others failed, and nothing but stubs is written.
THEOREM DlinkLinks ==
  ASSUME NEW Names, NEW process, Exporters(process, Names), NEW injection, NEW imports,
         imports = J!injfile_symbol_iter(injection.imports), Len(imports) \in Nat,
         NEW mode32, NEW mem, NEW words, Writable(mem, words),
         \A n \in 1..Len(imports) : StubAt(injection, imports, mode32, n) \in Int,
         Apart(injection, imports, mode32, words)
  PROVE  LinkedRight(J!injection_dlink(mem, process, injection, mode32, words),
                     mem, process, injection, imports, mode32, words)
<1> DEFINE k == Len(imports)
           c == CHOOSE link : IsLink(link, mem, process, injection, imports, mode32, words)
           To(n) == StubTo(process, imports, n)
           At(n) == StubAt(injection, imports, mode32, n)
           By(n) == ExportedBy(process, imports[n].name)
           M == DOMAIN mem
           F(n) == J!injection_find_export(process, imports[n].name)
           after == J!injection_dlink(mem, process, injection, mode32, words)
           Window(n) == At(n)..(At(n) + words - 1)
           K == {n \in 0..k : /\ DOMAIN c[n] = M
                              /\ \A m \in 1..n : To(m) # 0 /\ At(m) \in M => c[n][At(m)] = To(m)
                              /\ \A a \in M : (\A m \in 1..n : a \notin Window(m)) => c[n][a] = mem[a]}
<1>1. \A n \in 1..k : At(n) \in Int
  OBVIOUS
<1>2. \A n \in 1..k : IF By(n) = {} THEN To(n) = 0 ELSE To(n) # 0 /\ To(n) \in By(n)
  <2> SUFFICES ASSUME NEW n \in 1..k
               PROVE  IF By(n) = {} THEN To(n) = 0 ELSE To(n) # 0 /\ To(n) \in By(n)
    OBVIOUS
  <2>1. IF By(n) = {} THEN F(n) = 0 ELSE F(n) \in By(n) \ {0}
    BY ExportFound, Zenon
  <2>2. To(n) = F(n)
    BY Zenon DEF StubTo
  <2> HIDE DEF By, To, F
  <2> QED BY <2>1, <2>2
<1>3. IsLink(c, mem, process, injection, imports, mode32, words)
  BY LinkExists, Zenon
<1>4. after = [mem |-> c[k],
               success |-> \A n \in 1..k : To(n) # 0 /\ Window(n) \subseteq M]
  <2> DEFINE i == J!injfile_symbol_iter(injection.imports)
             d == CHOOSE link : IsLink(link, mem, process, injection, i, mode32, words)
  <2>1. after = [mem |-> d[Len(i)],
                 success |-> \A n \in 1..Len(i) :
                                /\ StubTo(process, i, n) # 0
                                /\ StubWords(injection, i, mode32, words, n) \subseteq M]
    BY Zenon DEF J!injection_dlink, IsLink, LinkAt, StubTo, StubAt, StubWords
  <2> HIDE DEF after, i
  <2>2. i = imports
    BY DEF i
  <2> QED BY <2>1, <2>2, Zenon DEF StubWords
<1>5. (after.success <=> \A n \in 1..k : To(n) # 0 /\ Window(n) \subseteq M) /\ after.mem = c[k]
  <2> HIDE DEF after, c, To, Window
  <2> QED BY <1>4
<1>6. \A n \in 0..k : c[n] = LinkAt(c, mem, process, injection, imports, mode32, words, n)
  <2> HIDE DEF c
  <2> QED BY <1>3 DEF IsLink
<1>7. \A m, n \in 1..k : m # n => At(n) \notin Window(m)
  BY Zenon DEF Apart, StubWords
<1>8. words = 1 \/ words = 2
  BY DEF Writable
<1>9. LinkedRight(after, mem, process, injection, imports, mode32, words) <=>
        /\ after.success <=> \A n \in 1..k : By(n) # {} /\ Window(n) \subseteq M
        /\ DOMAIN after.mem = M
        /\ \A n \in 1..k : By(n) # {} /\ At(n) \in M => after.mem[At(n)] \in By(n)
        /\ \A a \in M : (\A n \in 1..k : a \notin Window(n)) => after.mem[a] = mem[a]
  <2> HIDE DEF after
  <2> QED BY Zenon DEF LinkedRight, StubWords
<1> HIDE DEF after, c, To, At, By, M, k
<1>k. k \in Nat
  BY DEF k
<1>10. \A n \in 1..k : c[n] = IF To(n) = 0 THEN c[n - 1]
                               ELSE J!WriteAddress(c[n - 1], At(n), words, To(n))
  <2> SUFFICES ASSUME NEW n \in 1..k
               PROVE  c[n] = IF To(n) = 0 THEN c[n - 1]
                             ELSE J!WriteAddress(c[n - 1], At(n), words, To(n))
    OBVIOUS
  <2>1. n \in 0..k /\ n # 0
    BY <1>k
  <2> QED BY <1>6, <2>1, Zenon DEF LinkAt, To, At
<1>11. 0 \in K
  <2>1. 0 \in 0..k
    BY <1>k
  <2>2. c[0] = mem
    BY <1>6, <2>1, Zenon DEF LinkAt
  <2>3. DOMAIN c[0] = M
    BY <2>2 DEF M
  <2> QED BY <2>1, <2>2, <2>3
<1>12. ASSUME NEW n \in 1..k, n - 1 \in K PROVE n \in K
  <2> DEFINE g == c[n - 1]
             w == J!WriteAddress(g, At(n), words, To(n))
  <2>0. n \in 0..k /\ (\A m \in 1..n : m # n => m \in 1..(n - 1)) /\ \A m \in 1..n : m \in 1..k
    BY <1>k
  <2>1. /\ DOMAIN g = M
        /\ \A m \in 1..(n - 1) : To(m) # 0 /\ At(m) \in M => g[At(m)] = To(m)
        /\ \A a \in M : (\A m \in 1..(n - 1) : a \notin Window(m)) => g[a] = mem[a]
    BY <1>12
  <2>2. \A m \in 1..(n - 1) : m \in 1..n /\ m \in 1..k /\ m # n
    BY <1>k
  <2>3. c[n] = IF To(n) = 0 THEN g ELSE w
    BY <1>10
  <2>4. DOMAIN w = M /\ \A a \in M : w[a] = IF a = At(n) THEN To(n)
                                           ELSE IF words = 2 /\ a = At(n) + 1 THEN 0 ELSE g[a]
    BY <2>1 DEF J!WriteAddress
  <2>5. At(n) \in Window(n) /\ (words = 2 => At(n) + 1 \in Window(n))
    BY <1>1, <1>8
  <2> HIDE DEF g, w, Window
  <2>6. DOMAIN c[n] = M
    BY <2>1, <2>3, <2>4
  <2>7. ASSUME NEW m \in 1..n, To(m) # 0, At(m) \in M PROVE c[n][At(m)] = To(m)
    <3>1. CASE m = n
      BY <2>3, <2>4, <2>7, <3>1
    <3>2. CASE m # n
      <4>1. g[At(m)] = To(m)
        BY <2>0, <2>1, <2>7, <3>2
      <4>2. At(m) \notin Window(n)
        BY <1>7, <2>0, <3>2
      <4> QED BY <2>3, <2>4, <2>5, <2>7, <4>1, <4>2
    <3> QED BY <3>1, <3>2
  <2>8. ASSUME NEW a \in M, \A m \in 1..n : a \notin Window(m) PROVE c[n][a] = mem[a]
    <3>1. g[a] = mem[a]
      BY <2>1, <2>2, <2>8
    <3>2. a \notin Window(n)
      <4>1. n \in 1..n
        OBVIOUS
      <4> QED BY <2>8, <4>1
    <3> QED BY <2>3, <2>4, <2>5, <3>1, <3>2
  <2> QED BY <2>0, <2>6, <2>7, <2>8
<1> HIDE DEF K
<1>13. k \in K
  <2>1. \A n \in 0..k : n \in K
    BY <1>k, <1>11, <1>12, Upwards
  <2> QED BY <1>k, <2>1
<1>14. /\ DOMAIN c[k] = M
       /\ \A m \in 1..k : To(m) # 0 /\ At(m) \in M => c[k][At(m)] = To(m)
       /\ \A a \in M : (\A m \in 1..k : a \notin Window(m)) => c[k][a] = mem[a]
  <2> HIDE DEF Window
  <2> QED BY <1>13 DEF K
<1> HIDE DEF Window
<1>15. after.success <=> \A n \in 1..k : By(n) # {} /\ Window(n) \subseteq M
  BY <1>2, <1>5
<1>16. \A n \in 1..k : By(n) # {} /\ At(n) \in M => after.mem[At(n)] \in By(n)
  BY <1>2, <1>5, <1>14
<1>17. /\ DOMAIN after.mem = M
       /\ \A a \in M : (\A n \in 1..k : a \notin Window(n)) => after.mem[a] = mem[a]
  BY <1>5, <1>14
<1>18. LinkedRight(after, mem, process, injection, imports, mode32, words)
  BY <1>9, <1>15, <1>16, <1>17, Zenon
<1> QED BY <1>18 DEF after

=============================================================================
