--------------------------- MODULE InjectionProofs ---------------------------
(***************************************************************************)
(* No pointer to an injection or to an injectable dangles, and a segment   *)
(* has its injection as soon as everything it needs is loaded, for any     *)
(* injectables, imports, segments and processes.  The reference counts of  *)
(* injections are exact, for any injectables whose libraries import        *)
(* nothing themselves (with deeper imports they are not: what a library    *)
(* gives back is given back twice).                                        *)
(***************************************************************************)
EXTENDS Injection, InjectableProofs, SequenceTheorems, FiniteSetTheorems

------------------------------------------------------------------------------
(* Folds and recursion of the model                                        *)

\* One level of Walk
Dependencies(ld, i, walk) ==
    FoldLeft(LAMBDA acc, d : IF d \in Imports[i] THEN acc \o walk[d] \o <<d>> ELSE acc,
             <<>>, ld)

\* The step of Dependencies
Path(acc, d, i, walk) == IF d \in Imports[i] THEN acc \o walk[d] \o <<d>> ELSE acc

\* The list of dependencies grows along the loaded injectables.
LEMMA DependenciesRun ==
  ASSUME NEW ld \in Seq(Injectables), NEW i \in Injectables,
         NEW walk, \A d \in Imports[i] : walk[d] \in Seq(Injectables)
  PROVE  \E f \in [0..Len(ld) -> Seq(Injectables)] :
            /\ f[0] = <<>>
            /\ \A k \in 1..Len(ld) : f[k] = Path(f[k - 1], ld[k], i, walk)
            /\ Dependencies(ld, i, walk) = f[Len(ld)]
<1> DEFINE n == Len(ld)
           T == Seq(Injectables)
           base == <<>>
           G == [x \in T \X (1..n) |-> Path(x[1], ld[x[2]], i, walk)]
           Q(h) == h = [s \in SUBSET DOMAIN ld |->
                           IF s = {} THEN <<>>
                           ELSE Path(h[s \ {Max(s)}], ld[Max(s)], i, walk)]
           H == CHOOSE h : Q(h)
<1>1. DOMAIN ld = 1..n /\ n \in Nat /\ \A k \in 1..n : ld[k] \in Injectables
  OBVIOUS
<1>2. \A a \in T, d \in Injectables : Path(a, d, i, walk) \in T
  BY DEF Path
<1>3. G \in [T \X (1..n) -> T]
  BY <1>1, <1>2
<1>4. \A a \in T, k \in 1..n : G[<<a, k>>] = Path(a, ld[k], i, walk)
  OBVIOUS
<1>5. base \in T
  OBVIOUS
<1>6. PICK h \in [SUBSET (1..n) -> T] : Iterates(h, n, base, G)
  <2> HIDE DEF G, T, n, base
  <2> QED BY <1>1, <1>3, <1>5, FoldExists
<1>7. ASSUME NEW s \in SUBSET (1..n), s # {} PROVE Max(s) \in 1..n /\ s \ {Max(s)} \in SUBSET (1..n)
  BY <1>1, <1>7, MaxIn
<1>8. Q(h)
  <2>1. \A s \in SUBSET (1..n) : s # {} =>
           G[<<h[s \ {Max(s)}], Max(s)>>] = Path(h[s \ {Max(s)}], ld[Max(s)], i, walk)
    <3> HIDE DEF G, T
    <3> QED BY <1>4, <1>7
  <2> HIDE DEF G, T
  <2> QED BY <1>1, <1>6, <2>1 DEF Iterates
<1>9. Q(H)
  BY <1>8
<1>10. Dependencies(ld, i, walk) = H[DOMAIN ld]
  BY DEF Dependencies, FoldLeft, MapThenFoldSet, Path
<1>11. H[{}] = base
  <2> HIDE DEF H
  <2> QED BY <1>9
<1>12. Unfolds(H, n, T, base, G)
  <2> HIDE DEF H, G, T, base
  <2> QED BY <1>1, <1>4, <1>7, <1>9, <1>11 DEF Unfolds
<1> DEFINE f == Along(H, n)
<1>13. IsRun(f, n, T, base, G)
  <2> HIDE DEF H, G, T, n, base
  <2> QED BY <1>1, <1>3, <1>5, <1>12, FoldAlong
<1>14. \A k \in 1..n : f[k] = Path(f[k - 1], ld[k], i, walk)
  <2> HIDE DEF G, T, n, f
  <2>1. \A k \in 1..n : f[k - 1] \in T
    BY <1>1, <1>13 DEF IsRun
  <2> QED BY <1>4, <1>13, <2>1 DEF IsRun
<1>15. H[DOMAIN ld] = f[n]
  <2> HIDE DEF H, n
  <2> QED BY <1>1 DEF Along
<1> HIDE DEF G, H, f
<1> QED BY <1>1, <1>10, <1>13, <1>14, <1>15 DEF IsRun

\* Dependencies looks at the walks of imports only.
LEMMA DependenciesCongruent ==
  ASSUME NEW ld \in Seq(Injectables), NEW i \in Injectables,
         NEW g, NEW h, \A d \in Imports[i] : h[d] \in Seq(Injectables) /\ g[d] = h[d]
  PROVE  Dependencies(ld, i, g) = Dependencies(ld, i, h)
<1> DEFINE n == Len(ld)
<1>1. PICK f \in [0..n -> Seq(Injectables)] :
         /\ f[0] = <<>>
         /\ \A k \in 1..n : f[k] = Path(f[k - 1], ld[k], i, g)
         /\ Dependencies(ld, i, g) = f[n]
  BY DependenciesRun
<1>2. PICK e \in [0..n -> Seq(Injectables)] :
         /\ e[0] = <<>>
         /\ \A k \in 1..n : e[k] = Path(e[k - 1], ld[k], i, h)
         /\ Dependencies(ld, i, h) = e[n]
  BY DependenciesRun
<1> DEFINE S == {k \in 0..n : f[k] = e[k]}
<1>3. n \in Nat
  OBVIOUS
<1> HIDE DEF n
<1>4. 0 \in S
  BY <1>1, <1>2, <1>3
<1>5. ASSUME NEW k \in 1..n, k - 1 \in S PROVE k \in S
  <2>1. f[k - 1] = e[k - 1]
    BY <1>5
  <2>2. Path(f[k - 1], ld[k], i, g) = Path(e[k - 1], ld[k], i, h)
    BY <2>1, Zenon DEF Path
  <2>3. f[k] = e[k]
    BY <1>1, <1>2, <2>2
  <2> QED BY <1>3, <2>3
<1>6. \A k \in 0..n : k \in S
  <2> HIDE DEF S
  <2> QED BY <1>3, <1>4, <1>5, Upwards
<1> QED BY <1>1, <1>2, <1>3, <1>6

\* The elements of two lists
LEMMA ToSetConcat ==
  ASSUME NEW X, NEW s \in Seq(X), NEW t \in Seq(X)
  PROVE  ToSet(s \o t) = ToSet(s) \cup ToSet(t)
<1>1. ASSUME NEW k \in DOMAIN (s \o t) PROVE (s \o t)[k] \in ToSet(s) \cup ToSet(t)
  BY DEF ToSet
<1>2. ASSUME NEW k \in DOMAIN s PROVE s[k] \in ToSet(s \o t)
  BY DEF ToSet
<1>3. ASSUME NEW k \in DOMAIN t PROVE t[k] \in ToSet(s \o t)
  <2>1. k + Len(s) \in DOMAIN (s \o t) /\ (s \o t)[k + Len(s)] = t[k]
    OBVIOUS
  <2> QED BY <2>1 DEF ToSet
<1> QED BY <1>1, <1>2, <1>3 DEF ToSet

\* The imports of i that are loaded, and what their walks list
Reached(ld, i, walk) ==
    {x \in Injectables : \E d \in Imports[i] \cap ToSet(ld) : x = d \/ x \in ToSet(walk[d])}

\* What Dependencies lists
LEMMA DependenciesSet ==
  ASSUME NEW ld \in Seq(Injectables), NEW i \in Injectables,
         NEW walk, \A d \in Imports[i] : walk[d] \in Seq(Injectables)
  PROVE  /\ Dependencies(ld, i, walk) \in Seq(Injectables)
         /\ ToSet(Dependencies(ld, i, walk)) = Reached(ld, i, walk)
<1> DEFINE n == Len(ld)
           From(x, k) == \E j \in 1..k : /\ ld[j] \in Imports[i]
                                         /\ x = ld[j] \/ x \in ToSet(walk[ld[j]])
<1>1. PICK f \in [0..n -> Seq(Injectables)] :
         /\ f[0] = <<>>
         /\ \A k \in 1..n : f[k] = Path(f[k - 1], ld[k], i, walk)
         /\ Dependencies(ld, i, walk) = f[n]
  BY DependenciesRun
<1> DEFINE S == {k \in 0..n : ToSet(f[k]) = {x \in Injectables : From(x, k)}}
<1>2. n \in Nat /\ DOMAIN ld = 1..n /\ \A k \in 1..n : ld[k] \in Injectables
  OBVIOUS
<1> HIDE DEF n
<1>3. 0 \in S
  BY <1>1, <1>2 DEF ToSet
<1>4. ASSUME NEW k \in 1..n, k - 1 \in S PROVE k \in S
  <2>1. /\ f[k - 1] \in Seq(Injectables)
        /\ ToSet(f[k - 1]) = {x \in Injectables : From(x, k - 1)}
        /\ f[k] = Path(f[k - 1], ld[k], i, walk)
    BY <1>1, <1>2, <1>4
  <2>3. \A x \in Injectables :
           From(x, k) <=> \/ From(x, k - 1)
                          \/ ld[k] \in Imports[i] /\ (x = ld[k] \/ x \in ToSet(walk[ld[k]]))
    <3>1. 1..k = 1..(k - 1) \cup {k}
      BY <1>2
    <3> QED BY <3>1, Zenon
  <2>4. CASE ld[k] \in Imports[i]
    <3>0. walk[ld[k]] \in Seq(Injectables)
      BY <2>4
    <3>2. ToSet(walk[ld[k]]) \subseteq Injectables
      BY <3>0 DEF ToSet
    <3>1. ToSet(f[k]) = ToSet(f[k - 1]) \cup ToSet(walk[ld[k]]) \cup {ld[k]}
      <4> DEFINE a == f[k - 1] \o walk[ld[k]]
                 b == <<ld[k]>>
      <4>1. f[k] = a \o b
        BY <2>1, <2>4 DEF Path
      <4>2. a \in Seq(Injectables) /\ b \in Seq(Injectables)
        BY <1>2, <2>1, <3>0
      <4>3. ToSet(b) = {ld[k]}
        BY DEF ToSet
      <4>4. ToSet(f[k]) = ToSet(a) \cup ToSet(b)
        <5> HIDE DEF a, b
        <5> QED BY <4>1, <4>2, ToSetConcat
      <4>5. ToSet(a) = ToSet(f[k - 1]) \cup ToSet(walk[ld[k]])
        BY <2>1, <3>0, ToSetConcat
      <4> QED BY <4>3, <4>4, <4>5
    <3> HIDE DEF From
    <3> QED BY <1>2, <2>1, <2>3, <2>4, <3>1, <3>2
  <2>5. CASE ld[k] \notin Imports[i]
    <3>1. f[k] = f[k - 1]
      BY <2>1, <2>5 DEF Path
    <3> HIDE DEF From
    <3> QED BY <1>2, <2>1, <2>3, <2>5, <3>1
  <2> QED BY <2>4, <2>5
<1>5. n \in S
  <2> HIDE DEF S
  <2>1. \A k \in 0..n : k \in S
    BY <1>2, <1>3, <1>4, Upwards
  <2> QED BY <1>2, <2>1
<1>6. \A x : From(x, n) <=> \E d \in Imports[i] \cap ToSet(ld) : x = d \/ x \in ToSet(walk[d])
  BY <1>2 DEF ToSet
<1>7. ToSet(f[n]) = {x \in Injectables : From(x, n)}
  BY <1>5
<1> HIDE DEF From
<1> QED BY <1>1, <1>2, <1>6, <1>7 DEF Reached

\* How far imports lead
Rank == CHOOSE rank \in [Injectables -> 0..Cardinality(Injectables)] :
            \A i \in Injectables : \A d \in Imports[i] : rank[d] < rank[i]

\* Imports lead to injectables of lower rank only.
LEMMA RankFact ==
  /\ Cardinality(Injectables) \in Nat
  /\ Rank \in [Injectables -> 0..Cardinality(Injectables)]
  /\ \A i \in Injectables : Imports[i] \subseteq Injectables
  /\ \A i \in Injectables : \A d \in Imports[i] : Rank[d] < Rank[i]
<1>1. Cardinality(Injectables) \in Nat
  BY AcyclicAssumption, FS_CardinalityType
<1>2. /\ Rank \in [Injectables -> 0..Cardinality(Injectables)]
      /\ \A i \in Injectables : \A d \in Imports[i] : Rank[d] < Rank[i]
  BY AcyclicAssumption, Zenon DEF Rank
<1>3. \A i \in Injectables : Imports[i] \subseteq Injectables
  BY ImportsAssumption DEF Injectables
<1> QED BY <1>1, <1>2, <1>3

\* Walk is well defined.
LEMMA WalkFact ==
  ASSUME NEW ld \in Seq(Injectables)
  PROVE  /\ Walk(ld) \in [Injectables -> Seq(Injectables)]
         /\ \A i \in Injectables : Walk(ld)[i] = Dependencies(ld, i, Walk(ld))
<1> DEFINE T == Seq(Injectables)
           B == [x \in [Injectables -> T] \X Injectables |-> Dependencies(ld, x[2], x[1])]
           W(h) == h = [i \in Injectables |-> Dependencies(ld, i, h)]
           C == Cardinality(Injectables)
<1>1. \A h \in [Injectables -> T], i \in Injectables :
         B[<<h, i>>] = Dependencies(ld, i, h) /\ Dependencies(ld, i, h) \in T
  <2>1. \A h \in [Injectables -> T], i \in Injectables : \A d \in Imports[i] : h[d] \in T
    BY RankFact
  <2> QED BY <2>1, DependenciesSet
<1>2. B \in [[Injectables -> T] \X Injectables -> T]
  BY <1>1
<1>3. Grounded(Injectables, T, Rank, B)
  <2> SUFFICES ASSUME NEW g \in [Injectables -> T], NEW h \in [Injectables -> T],
                      NEW x \in Injectables,
                      \A y \in Injectables : Rank[y] < Rank[x] => g[y] = h[y]
               PROVE  B[<<g, x>>] = B[<<h, x>>]
    BY DEF Grounded
  <2>1. \A d \in Imports[x] : h[d] \in T /\ g[d] = h[d]
    BY RankFact
  <2>2. Dependencies(ld, x, g) = Dependencies(ld, x, h)
    BY <2>1, DependenciesCongruent
  <2> HIDE DEF B
  <2> QED BY <1>1, <2>2
<1>4. PICK h \in [Injectables -> T] : Solves(h, Injectables, B)
  <2>1. T # {}
    OBVIOUS
  <2>2. C \in Nat /\ Rank \in [Injectables -> 0..C]
    BY RankFact
  <2> HIDE DEF B, T, C
  <2> QED BY <1>2, <1>3, <2>1, <2>2, RankRecursion
<1>5. W(h)
  <2> HIDE DEF B, T
  <2> QED BY <1>1, <1>4 DEF Solves
<1>6. Walk(ld) = CHOOSE w : W(w)
  BY DEF Walk, Dependencies
<1> DEFINE w == Walk(ld)
<1>7. W(w)
  BY <1>5, <1>6
<1> DEFINE S == {n \in 0..(C + 1) : \A i \in Injectables : Rank[i] < n => w[i] = h[i]}
<1>8. C + 1 \in S
  <2>1. 0 \in S
    BY RankFact
  <2>2. ASSUME NEW n \in 1..(C + 1), n - 1 \in S PROVE n \in S
    <3> SUFFICES ASSUME NEW i \in Injectables, Rank[i] < n PROVE w[i] = h[i]
      BY RankFact
    <3>1. \A d \in Imports[i] : h[d] \in T /\ w[d] = h[d]
      BY <2>2, RankFact
    <3>2. Dependencies(ld, i, w) = Dependencies(ld, i, h)
      <4> HIDE DEF w
      <4> QED BY <3>1, DependenciesCongruent
    <3> HIDE DEF w
    <3> QED BY <1>5, <1>7, <3>2
  <2>3. C + 1 \in Nat
    BY RankFact
  <2> HIDE DEF S, C
  <2>4. \A m \in 0..(C + 1) : m \in S
    BY <2>1, <2>2, <2>3, Upwards
  <2> QED BY <2>3, <2>4
<1>9. \A i \in Injectables : w[i] = h[i]
  BY <1>8, RankFact
<1>10. w \in [Injectables -> T] /\ \A i \in Injectables : w[i] = Dependencies(ld, i, w)
  <2> HIDE DEF w
  <2> QED BY <1>7, <1>9
<1> QED BY <1>10

\* A walk lists the imports that are loaded and what their walks list.
LEMMA WalkSet ==
  ASSUME NEW ld \in Seq(Injectables), NEW i \in Injectables
  PROVE  /\ Walk(ld)[i] \in Seq(Injectables)
         /\ ToSet(Walk(ld)[i]) = Reached(ld, i, Walk(ld))
<1> DEFINE w == Walk(ld)
<1>1. w \in [Injectables -> Seq(Injectables)] /\ w[i] = Dependencies(ld, i, w)
  BY WalkFact
<1>2. \A d \in Imports[i] : w[d] \in Seq(Injectables)
  BY <1>1, RankFact
<1> HIDE DEF w
<1>3. ToSet(w[i]) = Reached(ld, i, w)
  BY <1>1, <1>2, DependenciesSet
<1> QED BY <1>1, <1>3 DEF w

\* What a walk lists is loaded, and is a library or the base injectable.
LEMMA WalkLoaded ==
  ASSUME NEW ld \in Seq(Injectables), NEW i \in Injectables
  PROVE  ToSet(Walk(ld)[i]) \subseteq ToSet(ld) \cap (Libs \cup {Adbi})
<1> DEFINE C == Cardinality(Injectables)
           L == ToSet(ld) \cap (Libs \cup {Adbi})
           S == {n \in 0..(C + 1) : \A j \in Injectables :
                    Rank[j] < n => ToSet(Walk(ld)[j]) \subseteq L}
<1>1. 0 \in S
  BY RankFact
<1>2. ASSUME NEW n \in 1..(C + 1), n - 1 \in S PROVE n \in S
  <2> SUFFICES ASSUME NEW j \in Injectables, Rank[j] < n
               PROVE  ToSet(Walk(ld)[j]) \subseteq L
    BY RankFact
  <2>1. \A d \in Imports[j] : d \in Injectables /\ ToSet(Walk(ld)[d]) \subseteq L
    BY <1>2, RankFact
  <2>2. \A x \in ToSet(Walk(ld)[j]) : \E d \in Imports[j] \cap ToSet(ld) :
           x = d \/ x \in ToSet(Walk(ld)[d])
    <3>1. ToSet(Walk(ld)[j]) = Reached(ld, j, Walk(ld))
      BY WalkSet
    <3> QED BY <3>1 DEF Reached
  <2>3. Imports[j] \cap ToSet(ld) \subseteq L
    BY ImportsAssumption
  <2> HIDE DEF L
  <2> QED BY <2>1, <2>2, <2>3
<1>3. C + 1 \in S
  <2>1. C + 1 \in Nat
    BY RankFact
  <2> HIDE DEF S, C
  <2>2. \A m \in 0..(C + 1) : m \in S
    BY <1>1, <1>2, <2>1, Upwards
  <2> QED BY <2>1, <2>2
<1> QED BY <1>3, RankFact

------------------------------------------------------------------------------
(* Injecting                                                               *)

\* n is r with some injections of L more.
Grown(r, n, L) ==
    /\ n \in Process
    /\ n.st = r.st /\ n.mapped = r.mapped /\ n.bound = r.bound
    /\ r.has \subseteq n.has /\ n.has \subseteq r.has \cup L

\* inject adds at most the injection asked for.
LEMMA InjectGrows ==
  ASSUME NEW r \in Process, NEW i \in Injectables, NEW fail
  PROVE  Grown(r, inject(r, i, fail), {i})
<1>1. CASE Adbi \notin r.has
  BY <1>1 DEF inject, Abort, Grown, Process, Bugs
<1>2. CASE Adbi \in r.has /\ i \in fail
  BY <1>2 DEF inject, Grown
<1>3. CASE Adbi \in r.has /\ i \notin fail
  <2> DEFINE n == [r EXCEPT !.has = @ \cup {i}, !.refs[i] = 0]
  <2>1. n \in Process
    <3> DEFINE c == [r.refs EXCEPT ![i] = 0]
    <3>1. c \in [Injectables -> Int]
      BY DEF Process
    <3>2. n = [r EXCEPT !.has = @ \cup {i}, !.refs = c]
      OBVIOUS
    <3> HIDE DEF c
    <3> QED BY <3>1, <3>2 DEF Process
  <2>2. n.has = r.has \cup {i} /\ n.st = r.st /\ n.mapped = r.mapped /\ n.bound = r.bound
    BY DEF Process
  <2>3. inject(r, i, fail) = n
    BY <1>3 DEF inject
  <2> HIDE DEF n
  <2> QED BY <2>1, <2>2, <2>3 DEF Grown
<1> QED BY <1>1, <1>2, <1>3

\* inject_dependency adds at most the library.
LEMMA DependencyGrows ==
  ASSUME NEW r \in Process, NEW d \in Injectables, NEW fail
  PROVE  Grown(r, inject_dependency(r, d, fail), {d})
<1> DEFINE n == IF d \in r.has THEN r ELSE inject(r, d, fail)
<1>1. Grown(r, n, {d})
  BY InjectGrows DEF Grown
<1>2. inject_dependency(r, d, fail) =
         IF n.bug # "none" THEN n
         ELSE IF d \notin n.has THEN Abort(n, "null")
         ELSE [n EXCEPT !.refs[d] = @ + 1]
  BY DEF inject_dependency
<1> HIDE DEF n
<1> QED BY <1>1, <1>2 DEF Grown, Abort, Process, Bugs

\* The step of inject_dependencies
Inject(acc, d, fail) == IF acc.bug # "none" THEN acc ELSE inject_dependency(acc, d, fail)

\* So does the step of inject_dependencies, which stops after an abort.
LEMMA InjectStepGrows ==
  ASSUME NEW r \in Process, NEW d \in Injectables, NEW fail
  PROVE  Grown(r, Inject(r, d, fail), {d})
BY DependencyGrows DEF Inject, Grown

\* inject_dependencies for the list w
InjectAll(r, w, fail) ==
    FoldLeft(LAMBDA acc, d : IF acc.bug # "none" THEN acc
                             ELSE inject_dependency(acc, d, fail), r, w)

\* f is what inject_dependencies goes through for the list w.
Injects(f, r, w, fail) ==
    /\ f \in [0..Len(w) -> Process]
    /\ f[0] = r
    /\ \A k \in 1..Len(w) : f[k] = Inject(f[k - 1], w[k], fail)
    /\ InjectAll(r, w, fail) = f[Len(w)]

\* Dependencies are injected one after the other.
LEMMA InjectRun ==
  ASSUME NEW r \in Process, NEW w \in Seq(Injectables), NEW fail
  PROVE  \E f : Injects(f, r, w, fail)
<1> DEFINE n == Len(w)
           T == Process
           b == r
           G == [x \in T \X (1..n) |-> Inject(x[1], w[x[2]], fail)]
           Q(h) == h = [s \in SUBSET DOMAIN w |->
                           IF s = {} THEN b
                           ELSE Inject(h[s \ {Max(s)}], w[Max(s)], fail)]
           H == CHOOSE h : Q(h)
<1>1. DOMAIN w = 1..n /\ n \in Nat /\ b \in T
  OBVIOUS
<1>2. \A a \in T, k \in 1..n : Inject(a, w[k], fail) \in T
  BY InjectStepGrows DEF Grown
<1>3. G \in [T \X (1..n) -> T]
  BY <1>2
<1>4. \A a \in T, k \in 1..n : G[<<a, k>>] = Inject(a, w[k], fail)
  OBVIOUS
<1>5. PICK h \in [SUBSET (1..n) -> T] : Iterates(h, n, b, G)
  <2> HIDE DEF G, T, n, b
  <2> QED BY <1>1, <1>3, FoldExists
<1>6. ASSUME NEW s \in SUBSET (1..n), s # {}
      PROVE  Max(s) \in 1..n /\ s \ {Max(s)} \in SUBSET (1..n)
  <2> HIDE DEF n
  <2> QED BY <1>1, <1>6, MaxIn
<1>7. Q(h)
  <2>1. \A s \in SUBSET (1..n) : s # {} =>
           G[<<h[s \ {Max(s)}], Max(s)>>] = Inject(h[s \ {Max(s)}], w[Max(s)], fail)
    <3> HIDE DEF G, T, n
    <3> QED BY <1>4, <1>6
  <2> HIDE DEF G, T, n, b
  <2> QED BY <1>1, <1>5, <2>1 DEF Iterates
<1>8. Q(H)
  BY <1>7
<1>9. InjectAll(r, w, fail) = H[DOMAIN w]
  BY DEF InjectAll, Inject, FoldLeft, MapThenFoldSet
<1>10. Unfolds(H, n, T, b, G)
  <2> HIDE DEF H, G, T, n, b
  <2> QED BY <1>1, <1>4, <1>6, <1>8 DEF Unfolds
<1> DEFINE f == Along(H, n)
<1>11. IsRun(f, n, T, b, G)
  <2> HIDE DEF H, G, T, n, b
  <2> QED BY <1>1, <1>3, <1>10, FoldAlong
<1>12. \A k \in 1..n : f[k] = Inject(f[k - 1], w[k], fail)
  <2> HIDE DEF G, T, n, f
  <2>1. \A k \in 1..n : f[k - 1] \in T
    BY <1>1, <1>11 DEF IsRun
  <2> QED BY <1>4, <1>11, <2>1 DEF IsRun
<1>13. H[DOMAIN w] = f[n]
  <2> HIDE DEF H, n
  <2> QED BY <1>1 DEF Along
<1> HIDE DEF G, H, f
<1> QED BY <1>9, <1>11, <1>12, <1>13 DEF IsRun, Injects

\* inject_dependencies adds loaded libraries only and binds no segment.
LEMMA DependenciesGrow ==
  ASSUME NEW r \in Process, NEW ld \in Seq(Injectables), NEW i \in Injectables, NEW fail
  PROVE  Grown(r, inject_dependencies(r, ld, i, fail), ToSet(ld))
<1> DEFINE w == Walk(ld)[i]
           n == Len(w)
<1>1. w \in Seq(Injectables) /\ ToSet(w) \subseteq ToSet(ld)
  BY WalkSet, WalkLoaded
<1>2. PICK f : Injects(f, r, w, fail)
  <2> HIDE DEF w
  <2> QED BY <1>1, InjectRun
<1>0. inject_dependencies(r, ld, i, fail) = InjectAll(r, w, fail)
  BY DEF inject_dependencies, InjectAll
<1>3. n \in Nat /\ \A k \in 1..n : w[k] \in Injectables \cap ToSet(ld)
  <2> HIDE DEF w
  <2> QED BY <1>1 DEF ToSet
<1> DEFINE S == {k \in 0..n : Grown(r, f[k], ToSet(ld))}
<1>7. /\ f \in [0..n -> Process] /\ f[0] = r /\ InjectAll(r, w, fail) = f[n]
      /\ \A k \in 1..n : f[k] = Inject(f[k - 1], w[k], fail)
  BY <1>2 DEF Injects
<1> HIDE DEF w, n
<1>4. 0 \in S
  BY <1>3, <1>7 DEF Grown
<1>5. ASSUME NEW k \in 1..n, k - 1 \in S PROVE k \in S
  <2>1. f[k - 1] \in Process /\ f[k] = Inject(f[k - 1], w[k], fail)
    BY <1>3, <1>7
  <2>2. Grown(f[k - 1], f[k], {w[k]})
    BY <1>3, <2>1, InjectStepGrows
  <2>3. Grown(r, f[k - 1], ToSet(ld))
    BY <1>5
  <2>4. Grown(r, f[k], ToSet(ld))
    BY <1>3, <2>2, <2>3 DEF Grown
  <2> QED BY <1>3, <2>4
<1>6. n \in S
  <2> HIDE DEF S
  <2>1. \A k \in 0..n : k \in S
    BY <1>3, <1>4, <1>5, Upwards
  <2> QED BY <1>3, <2>1
<1> QED BY <1>0, <1>6, <1>7

\* n is r with more injections, and with segments of S that have one.
Served(r, n, L, S) ==
    /\ n \in Process
    /\ n.st = r.st /\ n.mapped = r.mapped
    /\ r.has \subseteq n.has /\ n.has \subseteq r.has \cup L
    /\ r.bound \subseteq n.bound /\ n.bound \subseteq r.bound \cup S
    /\ \A s \in n.bound \ r.bound : Layout[s] \in n.has

\* injections_init adds loaded injectables, and binds a segment only to an
\* injection that is there.
LEMMA InitServes ==
  ASSUME NEW r \in Process, NEW ld \in Seq(Injectables), NEW s \in Segs, NEW fail
  PROVE  Served(r, injections_init(r, ld, s, fail), ToSet(ld), {s})
<1> DEFINE i == Layout[s]
           d == inject_dependencies(r, ld, i, fail)
           n == IF i \in r.has \/ Unresolved(ld, i) THEN r
                ELSE IF d.bug # "none" THEN d
                ELSE inject(d, i, fail)
           m == injections_init(r, ld, s, fail)
<1>0. i \in Injectables
  BY HeapAssumption DEF Segs, Injectables
<1>1. m = IF r.bug # "none" \/ s \in r.bound \/ i \notin ToSet(ld) THEN r
          ELSE IF n.bug # "none" \/ i \notin n.has THEN n
          ELSE [n EXCEPT !.bound = @ \cup {s}, !.refs[i] = @ + 1]
  BY DEF injections_init
<1>2. Grown(r, d, ToSet(ld))
  BY <1>0, DependenciesGrow
<1>3. Grown(d, inject(d, i, fail), {i})
  BY <1>0, <1>2, InjectGrows DEF Grown
<1>4. i \in ToSet(ld) => Grown(r, n, ToSet(ld))
  <2> HIDE DEF i, d
  <2> QED BY <1>2, <1>3 DEF Grown
<1>5. CASE r.bug # "none" \/ s \in r.bound \/ i \notin ToSet(ld)
  <2>1. m = r
    BY <1>1, <1>5
  <2> QED BY <2>1 DEF Served
<1>6. CASE /\ ~(r.bug # "none" \/ s \in r.bound \/ i \notin ToSet(ld))
           /\ n.bug # "none" \/ i \notin n.has
  <2>1. m = n
    BY <1>1, <1>6
  <2> HIDE DEF n
  <2> QED BY <1>4, <1>6, <2>1 DEF Served, Grown
<1>7. CASE i \in ToSet(ld) /\ i \in n.has /\ m = [n EXCEPT !.bound = @ \cup {s}, !.refs[i] = @ + 1]
  <2> DEFINE o == [n EXCEPT !.bound = @ \cup {s}, !.refs[i] = @ + 1]
  <2>1. Grown(r, n, ToSet(ld))
    BY <1>4, <1>7
  <2>2. n \in Process
    BY <2>1 DEF Grown
  <2> HIDE DEF n, i
  <2>3. o \in Process
    <3> DEFINE c == [n.refs EXCEPT ![i] = @ + 1]
    <3>1. c \in [Injectables -> Int]
      BY <1>0, <2>2 DEF Process
    <3>2. o = [n EXCEPT !.bound = @ \cup {s}, !.refs = c]
      OBVIOUS
    <3> HIDE DEF c
    <3> QED BY <2>2, <3>1, <3>2 DEF Process
  <2>4. o.has = n.has /\ o.st = n.st /\ o.mapped = n.mapped /\ o.bound = n.bound \cup {s}
    BY <2>2 DEF Process
  <2>5. m = o
    BY <1>7
  <2> HIDE DEF o
  <2> QED BY <1>7, <2>1, <2>3, <2>4, <2>5 DEF Served, Grown, i
<1> HIDE DEF n, d
<1> QED BY <1>1, <1>5, <1>6, <1>7

\* The step of InitSegments
Serve(acc, r, ld, s, fail) ==
    IF s \in r.mapped THEN injections_init(acc, ld, s, fail) ELSE acc

\* The segments by address
Addresses == [s \in DOMAIN Layout |-> s]

\* So does the step of InitSegments, for mapped segments only.
LEMMA ServeServes ==
  ASSUME NEW a \in Process, NEW r \in Process, NEW ld \in Seq(Injectables), NEW s \in Segs,
         NEW fail
  PROVE  Served(a, Serve(a, r, ld, s, fail), ToSet(ld), {s} \cap r.mapped)
<1>1. CASE s \in r.mapped
  BY <1>1, InitServes DEF Served, Serve
<1>2. CASE s \notin r.mapped
  BY <1>2 DEF Served, Serve
<1> QED BY <1>1, <1>2

\* f is what InitSegments goes through.
Serves(f, r, ld, fail) ==
    /\ f \in [0..Len(Layout) -> Process]
    /\ f[0] = r
    /\ \A k \in 1..Len(Layout) : f[k] = Serve(f[k - 1], r, ld, Addresses[k], fail)
    /\ InitSegments(r, ld, fail) = f[Len(Layout)]

\* Segments are served one after the other.
LEMMA ServeRun ==
  ASSUME NEW r \in Process, NEW ld \in Seq(Injectables), NEW fail
  PROVE  \E f : Serves(f, r, ld, fail)
<1> DEFINE n == Len(Layout)
           T == Process
           b == r
           G == [x \in T \X (1..n) |-> Serve(x[1], r, ld, Addresses[x[2]], fail)]
           Q(h) == h = [s \in SUBSET DOMAIN Addresses |->
                           IF s = {} THEN b
                           ELSE Serve(h[s \ {Max(s)}], r, ld, Addresses[Max(s)], fail)]
           H == CHOOSE h : Q(h)
<1>1. DOMAIN Addresses = 1..n /\ n \in Nat /\ b \in T
  BY HeapAssumption DEF Addresses
<1>2. \A a \in T, k \in 1..n : Serve(a, r, ld, Addresses[k], fail) \in T
  <2>1. \A k \in 1..n : Addresses[k] \in Segs
    BY HeapAssumption DEF Addresses, Segs
  <2> QED BY <2>1, ServeServes DEF Served
<1>3. G \in [T \X (1..n) -> T]
  BY <1>2
<1>4. \A a \in T, k \in 1..n : G[<<a, k>>] = Serve(a, r, ld, Addresses[k], fail)
  OBVIOUS
<1>5. PICK h \in [SUBSET (1..n) -> T] : Iterates(h, n, b, G)
  <2> HIDE DEF G, T, n, b
  <2> QED BY <1>1, <1>3, FoldExists
<1>6. ASSUME NEW s \in SUBSET (1..n), s # {}
      PROVE  Max(s) \in 1..n /\ s \ {Max(s)} \in SUBSET (1..n)
  <2> HIDE DEF n
  <2> QED BY <1>1, <1>6, MaxIn
<1>7. Q(h)
  <2>1. \A s \in SUBSET (1..n) : s # {} =>
           G[<<h[s \ {Max(s)}], Max(s)>>] = Serve(h[s \ {Max(s)}], r, ld, Addresses[Max(s)], fail)
    <3> HIDE DEF G, T, n
    <3> QED BY <1>4, <1>6
  <2> HIDE DEF G, T, n, b
  <2> QED BY <1>1, <1>5, <2>1 DEF Iterates
<1>8. Q(H)
  BY <1>7
<1>9. InitSegments(r, ld, fail) = H[DOMAIN Addresses]
  BY DEF InitSegments, Serve, Addresses, FoldLeftDomain, FoldLeft, MapThenFoldSet
<1>10. Unfolds(H, n, T, b, G)
  <2> HIDE DEF H, G, T, n, b
  <2> QED BY <1>1, <1>4, <1>6, <1>8 DEF Unfolds
<1> DEFINE f == Along(H, n)
<1>11. IsRun(f, n, T, b, G)
  <2> HIDE DEF H, G, T, n, b
  <2> QED BY <1>1, <1>3, <1>10, FoldAlong
<1>12. \A k \in 1..n : f[k] = Serve(f[k - 1], r, ld, Addresses[k], fail)
  <2> HIDE DEF G, T, n, f
  <2>1. \A k \in 1..n : f[k - 1] \in T
    BY <1>1, <1>11 DEF IsRun
  <2> QED BY <1>4, <1>11, <2>1 DEF IsRun
<1>13. H[DOMAIN Addresses] = f[n]
  <2> HIDE DEF H, n
  <2> QED BY <1>1 DEF Along
<1> HIDE DEF G, H, f
<1> QED BY <1>9, <1>11, <1>12, <1>13 DEF IsRun, Serves

\* InitSegments gives injections of loaded injectables to mapped segments.
LEMMA SegmentsServe ==
  ASSUME NEW r \in Process, NEW ld \in Seq(Injectables), NEW fail
  PROVE  Served(r, InitSegments(r, ld, fail), ToSet(ld), r.mapped)
<1> DEFINE n == Len(Layout)
<1>0. PICK f : Serves(f, r, ld, fail)
  BY ServeRun
<1>1. /\ f \in [0..n -> Process] /\ f[0] = r /\ InitSegments(r, ld, fail) = f[n]
      /\ \A k \in 1..n : f[k] = Serve(f[k - 1], r, ld, Addresses[k], fail)
  BY <1>0 DEF Serves
<1>2. n \in Nat /\ \A k \in 1..n : Addresses[k] = k /\ k \in Segs
  BY HeapAssumption DEF Addresses, Segs
<1> DEFINE S == {k \in 0..n : Served(r, f[k], ToSet(ld), r.mapped)}
<1> HIDE DEF n
<1>3. 0 \in S
  BY <1>1, <1>2 DEF Served
<1>4. ASSUME NEW k \in 1..n, k - 1 \in S PROVE k \in S
  <2>1. f[k - 1] \in Process /\ f[k] = Serve(f[k - 1], r, ld, k, fail)
    BY <1>1, <1>2
  <2>2. Served(f[k - 1], f[k], ToSet(ld), {k} \cap r.mapped)
    BY <1>2, <2>1, ServeServes
  <2>3. Served(r, f[k - 1], ToSet(ld), r.mapped)
    BY <1>4
  <2>4. Served(r, f[k], ToSet(ld), r.mapped)
    BY <2>2, <2>3 DEF Served
  <2> QED BY <1>2, <2>4
<1>5. n \in S
  <2> HIDE DEF S
  <2>1. \A k \in 0..n : k \in S
    BY <1>2, <1>3, <1>4, Upwards
  <2> QED BY <1>2, <2>1
<1> QED BY <1>1, <1>5

------------------------------------------------------------------------------
(* Removing                                                                *)

\* n is r without i, and perhaps without some libraries.
Shrunk(r, n, i) ==
    /\ n \in Process
    /\ n.st = r.st /\ n.mapped = r.mapped /\ n.bound = r.bound
    /\ n.has \subseteq r.has /\ r.has \ n.has \subseteq Libs \cup {i}
    /\ n.bug = "none" => i \notin n.has

\* n is r, perhaps without some libraries.
Thinned(r, n) ==
    /\ n \in Process
    /\ n.st = r.st /\ n.mapped = r.mapped /\ n.bound = r.bound
    /\ n.has \subseteq r.has /\ r.has \ n.has \subseteq Libs

\* uninject_dependencies for the list w
UninjectAll(r, w, detach) ==
    FoldLeft(LAMBDA acc, d : uninject_dependency(acc, d, detach), r, w)

\* r with one reference less to d
Less(r, d) == [r EXCEPT !.refs[d] = @ - 1]

\* Giving a reference back changes nothing but the count.
LEMMA LessType ==
  ASSUME NEW r \in Process, NEW d \in Injectables
  PROVE  /\ Less(r, d) \in Process
         /\ Less(r, d).st = r.st /\ Less(r, d).mapped = r.mapped
         /\ Less(r, d).bound = r.bound /\ Less(r, d).has = r.has
BY DEF Less, Process

\* An assertion that fails changes nothing else.
LEMMA AbortType ==
  ASSUME NEW r \in Process, NEW why \in Bugs
  PROVE  /\ Abort(r, why) \in Process
         /\ Abort(r, why).st = r.st /\ Abort(r, why).mapped = r.mapped
         /\ Abort(r, why).bound = r.bound /\ Abort(r, why).has = r.has
         /\ Abort(r, why).bug = why
BY DEF Abort, Process

\* uninject_dependency leaves a process, if injection_detach_single does.
LEMMA UninjectType ==
  ASSUME NEW r \in Process, NEW d \in Injectables, NEW detach,
         \A q \in Process : detach[<<q, d>>] \in Process
  PROVE  uninject_dependency(r, d, detach) \in Process
<1>1. uninject_dependency(r, d, detach) =
         IF r.bug # "none" THEN r
         ELSE IF d \notin r.has THEN Abort(r, "null")
         ELSE IF Less(r, d).refs[d] = 0 /\ d # Adbi THEN detach[<<Less(r, d), d>>]
         ELSE Less(r, d)
  BY DEF uninject_dependency, Less
<1>2. "null" \in Bugs
  BY DEF Bugs
<1> QED BY <1>1, <1>2, LessType, AbortType

\* f is what uninject_dependencies goes through for the list w.
Uninjects(f, r, w, detach) ==
    /\ f \in [0..Len(w) -> Process]
    /\ f[0] = r
    /\ \A k \in 1..Len(w) : f[k] = uninject_dependency(f[k - 1], w[k], detach)
    /\ UninjectAll(r, w, detach) = f[Len(w)]

\* Dependencies are given back one after the other.
LEMMA UninjectRun ==
  ASSUME NEW r \in Process, NEW w \in Seq(Injectables), NEW detach,
         \A q \in Process, d \in ToSet(w) : detach[<<q, d>>] \in Process
  PROVE  \E f : Uninjects(f, r, w, detach)
<1> DEFINE n == Len(w)
           T == Process
           b == r
           G == [x \in T \X (1..n) |-> uninject_dependency(x[1], w[x[2]], detach)]
           Q(h) == h = [s \in SUBSET DOMAIN w |->
                           IF s = {} THEN b
                           ELSE uninject_dependency(h[s \ {Max(s)}], w[Max(s)], detach)]
           H == CHOOSE h : Q(h)
<1>1. DOMAIN w = 1..n /\ n \in Nat /\ b \in T
  OBVIOUS
<1>2. \A a \in T, k \in 1..n : uninject_dependency(a, w[k], detach) \in T
  <2>1. \A k \in 1..n : w[k] \in Injectables /\ w[k] \in ToSet(w)
    BY DEF ToSet
  <2> QED BY <2>1, UninjectType
<1>3. G \in [T \X (1..n) -> T]
  BY <1>2
<1>4. \A a \in T, k \in 1..n : G[<<a, k>>] = uninject_dependency(a, w[k], detach)
  OBVIOUS
<1>5. PICK h \in [SUBSET (1..n) -> T] : Iterates(h, n, b, G)
  <2> HIDE DEF G, T, n, b
  <2> QED BY <1>1, <1>3, FoldExists
<1>6. ASSUME NEW s \in SUBSET (1..n), s # {}
      PROVE  Max(s) \in 1..n /\ s \ {Max(s)} \in SUBSET (1..n)
  <2> HIDE DEF n
  <2> QED BY <1>1, <1>6, MaxIn
<1>7. Q(h)
  <2>1. \A s \in SUBSET (1..n) : s # {} =>
           G[<<h[s \ {Max(s)}], Max(s)>>] = uninject_dependency(h[s \ {Max(s)}], w[Max(s)], detach)
    <3> HIDE DEF G, T, n
    <3> QED BY <1>4, <1>6
  <2> HIDE DEF G, T, n, b
  <2> QED BY <1>1, <1>5, <2>1 DEF Iterates
<1>8. Q(H)
  BY <1>7
<1>9. UninjectAll(r, w, detach) = H[DOMAIN w]
  BY DEF UninjectAll, FoldLeft, MapThenFoldSet
<1>10. Unfolds(H, n, T, b, G)
  <2> HIDE DEF H, G, T, n, b
  <2> QED BY <1>1, <1>4, <1>6, <1>8 DEF Unfolds
<1> DEFINE f == Along(H, n)
<1>11. IsRun(f, n, T, b, G)
  <2> HIDE DEF H, G, T, n, b
  <2> QED BY <1>1, <1>3, <1>10, FoldAlong
<1>12. \A k \in 1..n : f[k] = uninject_dependency(f[k - 1], w[k], detach)
  <2> HIDE DEF G, T, n, f
  <2>1. \A k \in 1..n : f[k - 1] \in T
    BY <1>1, <1>11 DEF IsRun
  <2> QED BY <1>4, <1>11, <2>1 DEF IsRun
<1>13. H[DOMAIN w] = f[n]
  <2> HIDE DEF H, n
  <2> QED BY <1>1 DEF Along
<1> HIDE DEF G, H, f
<1> QED BY <1>9, <1>11, <1>12, <1>13 DEF IsRun, Uninjects

\* uninject_dependencies looks at detach for the listed dependencies only.
LEMMA UninjectCongruent ==
  ASSUME NEW r \in Process, NEW w \in Seq(Injectables), NEW g, NEW h,
         \A q \in Process, d \in ToSet(w) :
            h[<<q, d>>] \in Process /\ g[<<q, d>>] = h[<<q, d>>]
  PROVE  UninjectAll(r, w, g) = UninjectAll(r, w, h)
<1> DEFINE n == Len(w)
<1>0. \A q \in Process, d \in ToSet(w) : g[<<q, d>>] \in Process
  OBVIOUS
<1>7. PICK f : Uninjects(f, r, w, g)
  BY <1>0, UninjectRun
<1>8. PICK e : Uninjects(e, r, w, h)
  BY UninjectRun
<1>1. /\ f \in [0..n -> Process] /\ f[0] = r /\ UninjectAll(r, w, g) = f[n]
      /\ \A k \in 1..n : f[k] = uninject_dependency(f[k - 1], w[k], g)
  BY <1>7 DEF Uninjects
<1>2. /\ e \in [0..n -> Process] /\ e[0] = r /\ UninjectAll(r, w, h) = e[n]
      /\ \A k \in 1..n : e[k] = uninject_dependency(e[k - 1], w[k], h)
  BY <1>8 DEF Uninjects
<1>3. n \in Nat /\ \A k \in 1..n : w[k] \in Injectables /\ w[k] \in ToSet(w)
  BY DEF ToSet
<1> DEFINE S == {k \in 0..n : f[k] = e[k]}
<1> HIDE DEF n
<1>4. 0 \in S
  BY <1>1, <1>2, <1>3
<1>5. ASSUME NEW k \in 1..n, k - 1 \in S PROVE k \in S
  <2>1. f[k - 1] = e[k - 1] /\ f[k - 1] \in Process
    BY <1>1, <1>3, <1>5
  <2>2. g[<<Less(f[k - 1], w[k]), w[k]>>] = h[<<Less(f[k - 1], w[k]), w[k]>>]
    BY <1>3, <2>1, LessType
  <2>3. uninject_dependency(f[k - 1], w[k], g) = uninject_dependency(f[k - 1], w[k], h)
    BY <2>2, Zenon DEF uninject_dependency, Less
  <2>4. f[k] = e[k]
    BY <1>1, <1>2, <2>1, <2>3
  <2> QED BY <1>3, <2>4
<1>6. n \in S
  <2> HIDE DEF S
  <2>1. \A k \in 0..n : k \in S
    BY <1>3, <1>4, <1>5, Upwards
  <2> QED BY <1>3, <2>1
<1> QED BY <1>1, <1>2, <1>6

\* If detaching a library takes it and other libraries away, giving back
\* dependencies takes libraries away only.
LEMMA UninjectThins ==
  ASSUME NEW r \in Process, NEW w \in Seq(Injectables), NEW detach,
         ToSet(w) \subseteq Libs \cup {Adbi},
         \A q \in Process, d \in ToSet(w) : Shrunk(q, detach[<<q, d>>], d)
  PROVE  Thinned(r, UninjectAll(r, w, detach))
<1> DEFINE n == Len(w)
<1>0. PICK f : Uninjects(f, r, w, detach)
  <2>1. \A q \in Process, d \in ToSet(w) : detach[<<q, d>>] \in Process
    BY DEF Shrunk
  <2> QED BY <2>1, UninjectRun
<1>1. /\ f \in [0..n -> Process] /\ f[0] = r /\ UninjectAll(r, w, detach) = f[n]
      /\ \A k \in 1..n : f[k] = uninject_dependency(f[k - 1], w[k], detach)
  BY <1>0 DEF Uninjects
<1>2. n \in Nat /\ \A k \in 1..n : w[k] \in Injectables /\ w[k] \in ToSet(w)
  BY DEF ToSet
<1> DEFINE S == {k \in 0..n : Thinned(r, f[k])}
<1> HIDE DEF n
<1>3. 0 \in S
  BY <1>1, <1>2 DEF Thinned
<1>4. ASSUME NEW k \in 1..n, k - 1 \in S PROVE k \in S
  <2> DEFINE q == f[k - 1]
             d == w[k]
  <2>1. q \in Process /\ Thinned(r, q) /\ d \in Injectables /\ d \in ToSet(w)
    BY <1>1, <1>2, <1>4
  <2>2. f[k] = IF q.bug # "none" THEN q
               ELSE IF d \notin q.has THEN Abort(q, "null")
               ELSE IF Less(q, d).refs[d] = 0 /\ d # Adbi THEN detach[<<Less(q, d), d>>]
               ELSE Less(q, d)
    BY <1>1 DEF uninject_dependency, Less
  <2> HIDE DEF q, d
  <2>3. Thinned(q, Abort(q, "null")) /\ Thinned(q, Less(q, d)) /\ Thinned(q, q)
    <3>1. "null" \in Bugs
      BY DEF Bugs
    <3> QED BY <2>1, <3>1, AbortType, LessType DEF Thinned
  <2>4. d # Adbi => Thinned(q, detach[<<Less(q, d), d>>])
    <3>1. Shrunk(Less(q, d), detach[<<Less(q, d), d>>], d)
      BY <2>1, LessType
    <3>2. d # Adbi => d \in Libs
      BY <2>1
    <3>3. Less(q, d).st = q.st /\ Less(q, d).mapped = q.mapped
          /\ Less(q, d).bound = q.bound /\ Less(q, d).has = q.has
      BY <2>1, LessType
    <3> QED BY <3>1, <3>2, <3>3 DEF Shrunk, Thinned
  <2>5. Thinned(q, f[k])
    BY <2>2, <2>3, <2>4
  <2>6. Thinned(r, f[k])
    BY <2>1, <2>5 DEF Thinned
  <2> QED BY <1>2, <2>6
<1>5. n \in S
  <2> HIDE DEF S
  <2>1. \A k \in 0..n : k \in S
    BY <1>2, <1>3, <1>4, Upwards
  <2> QED BY <1>2, <2>1
<1> QED BY <1>1, <1>5

\* What a walk lists has lower rank.
LEMMA WalkRank ==
  ASSUME NEW ld \in Seq(Injectables), NEW i \in Injectables
  PROVE  \A d \in ToSet(Walk(ld)[i]) : d \in Injectables /\ Rank[d] < Rank[i]
<1> DEFINE C == Cardinality(Injectables)
           Below(j) == \A d \in ToSet(Walk(ld)[j]) : d \in Injectables /\ Rank[d] < Rank[j]
           S == {n \in 0..(C + 1) : \A j \in Injectables : Rank[j] < n => Below(j)}
<1>1. 0 \in S
  BY RankFact
<1>2. ASSUME NEW n \in 1..(C + 1), n - 1 \in S PROVE n \in S
  <2> SUFFICES ASSUME NEW j \in Injectables, Rank[j] < n,
                      NEW x \in ToSet(Walk(ld)[j])
               PROVE  x \in Injectables /\ Rank[x] < Rank[j]
    BY RankFact
  <2>1. ToSet(Walk(ld)[j]) = Reached(ld, j, Walk(ld))
    BY WalkSet
  <2>2. PICK d \in Imports[j] : x = d \/ x \in ToSet(Walk(ld)[d])
    BY <2>1 DEF Reached
  <2>3. d \in Injectables /\ Rank[d] < Rank[j]
    BY RankFact
  <2>4. Below(d)
    BY <1>2, <2>3, RankFact
  <2>5. x \in Injectables /\ (x = d \/ Rank[x] < Rank[d])
    BY <2>2, <2>3, <2>4
  <2> HIDE DEF Below
  <2> QED BY <2>3, <2>5, RankFact
<1>3. C + 1 \in S
  <2>1. C + 1 \in Nat
    BY RankFact
  <2> HIDE DEF S, C
  <2>2. \A m \in 0..(C + 1) : m \in S
    BY <1>1, <1>2, <2>1, Upwards
  <2> QED BY <2>1, <2>2
<1> QED BY <1>3, RankFact

\* One level of Detach
DetachOnce(ld, r, i, detach) ==
    LET n == UninjectAll(r, Walk(ld)[i], detach)
    IN  IF r.refs[i] # 0 THEN Abort(r, "refs")
        ELSE IF n.bug # "none" THEN n
        ELSE [n EXCEPT !.has = @ \ {i}]

\* One level of Detach leaves a process, if the levels below do.
LEMMA DetachOnceType ==
  ASSUME NEW ld \in Seq(Injectables), NEW r \in Process, NEW i \in Injectables,
         NEW detach \in [Process \X Injectables -> Process]
  PROVE  DetachOnce(ld, r, i, detach) \in Process
<1> DEFINE w == Walk(ld)[i]
           n == UninjectAll(r, w, detach)
<1>1. w \in Seq(Injectables)
  BY WalkSet
<1>2. ToSet(w) \subseteq Injectables
  BY WalkRank
<1>3. \A q \in Process, d \in ToSet(w) : detach[<<q, d>>] \in Process
  BY <1>2
<1>4. n \in Process
  <2> HIDE DEF w
  <2>1. PICK f : Uninjects(f, r, w, detach)
    BY <1>1, <1>3, UninjectRun
  <2>2. Len(w) \in Nat
    BY <1>1
  <2> QED BY <2>1, <2>2 DEF Uninjects
<1>5. [n EXCEPT !.has = @ \ {i}] \in Process
  <2> HIDE DEF n
  <2> QED BY <1>4 DEF Process
<1>6. Abort(r, "refs") \in Process
  BY AbortType DEF Bugs
<1>7. DetachOnce(ld, r, i, detach) \in {Abort(r, "refs"), n, [n EXCEPT !.has = @ \ {i}]}
  BY DEF DetachOnce
<1> HIDE DEF n
<1> QED BY <1>4, <1>5, <1>6, <1>7

\* Detach is well defined.
LEMMA DetachFact ==
  ASSUME NEW ld \in Seq(Injectables), NEW r \in Process, NEW i \in Injectables
  PROVE  Detach(ld)[<<r, i>>] = DetachOnce(ld, r, i, Detach(ld))
<1> DEFINE D == Process \X Injectables
           B == [x \in [D -> Process] \X D |-> DetachOnce(ld, x[2][1], x[2][2], x[1])]
           rank == [x \in D |-> Rank[x[2]]]
           W(h) == h = [x \in D |-> DetachOnce(ld, x[1], x[2], h)]
           C == Cardinality(Injectables)
<1>1. \A h \in [D -> Process], x \in D :
         B[<<h, x>>] = DetachOnce(ld, x[1], x[2], h) /\ DetachOnce(ld, x[1], x[2], h) \in Process
  BY DetachOnceType
<1>2. B \in [[D -> Process] \X D -> Process]
  BY <1>1
<1>3. C \in Nat /\ rank \in [D -> 0..C]
  BY RankFact
<1>4. Grounded(D, Process, rank, B)
  <2> SUFFICES ASSUME NEW g \in [D -> Process], NEW h \in [D -> Process], NEW x \in D,
                      \A y \in D : rank[y] < rank[x] => g[y] = h[y]
               PROVE  B[<<g, x>>] = B[<<h, x>>]
    BY DEF Grounded
  <2> DEFINE w == Walk(ld)[x[2]]
  <2>1. w \in Seq(Injectables) /\ \A d \in ToSet(w) : d \in Injectables /\ Rank[d] < Rank[x[2]]
    BY WalkSet, WalkRank
  <2>2. \A q \in Process, d \in ToSet(w) :
           h[<<q, d>>] \in Process /\ g[<<q, d>>] = h[<<q, d>>]
    <3> SUFFICES ASSUME NEW q \in Process, NEW d \in ToSet(w)
                 PROVE  h[<<q, d>>] \in Process /\ g[<<q, d>>] = h[<<q, d>>]
      OBVIOUS
    <3>1. <<q, d>> \in D /\ rank[<<q, d>>] < rank[x]
      BY <2>1
    <3> HIDE DEF D, rank
    <3> QED BY <3>1
  <2>3. UninjectAll(x[1], w, g) = UninjectAll(x[1], w, h)
    <3>1. x[1] \in Process
      OBVIOUS
    <3> HIDE DEF w
    <3> QED BY <2>1, <2>2, <3>1, UninjectCongruent
  <2>4. DetachOnce(ld, x[1], x[2], g) = DetachOnce(ld, x[1], x[2], h)
    BY <2>3, Zenon DEF DetachOnce
  <2> HIDE DEF B, D
  <2> QED BY <1>1, <2>4
<1>5. PICK h \in [D -> Process] : Solves(h, D, B)
  <2>1. Process # {}
    OBVIOUS
  <2> HIDE DEF B, D, C, rank
  <2> QED BY <1>2, <1>3, <1>4, <2>1, RankRecursion
<1>6. W(h)
  <2> HIDE DEF B, D
  <2> QED BY <1>1, <1>5 DEF Solves
<1>7. Detach(ld) = CHOOSE w : W(w)
  BY DEF Detach, DetachOnce, uninject_dependencies, UninjectAll
<1>8. W(Detach(ld))
  BY <1>6, <1>7
<1> DEFINE e == Detach(ld)
<1> HIDE DEF e
<1>9. e = [x \in D |-> DetachOnce(ld, x[1], x[2], e)]
  BY <1>8 DEF e
<1>10. e[<<r, i>>] = DetachOnce(ld, r, i, e)
  BY <1>9
<1> QED BY <1>10 DEF e

\* injection_detach_single takes away the injection and libraries nobody needs.
LEMMA DetachShrinks ==
  ASSUME NEW ld \in Seq(Injectables), NEW r \in Process, NEW i \in Injectables
  PROVE  Shrunk(r, injection_detach_single(r, ld, i), i)
<1> DEFINE C == Cardinality(Injectables)
           Good(j) == \A q \in Process : Shrunk(q, Detach(ld)[<<q, j>>], j)
           S == {n \in 0..(C + 1) : \A j \in Injectables : Rank[j] < n => Good(j)}
<1>1. 0 \in S
  BY RankFact
<1>2. ASSUME NEW n \in 1..(C + 1), n - 1 \in S PROVE n \in S
  <2> SUFFICES ASSUME NEW j \in Injectables, Rank[j] < n, NEW q \in Process
               PROVE  Shrunk(q, Detach(ld)[<<q, j>>], j)
    BY RankFact
  <2> DEFINE w == Walk(ld)[j]
             m == UninjectAll(q, w, Detach(ld))
  <2>1. w \in Seq(Injectables) /\ ToSet(w) \subseteq Libs \cup {Adbi}
    BY WalkSet, WalkLoaded
  <2>2. \A d \in ToSet(w) : Good(d)
    <3>1. \A d \in ToSet(w) : d \in Injectables /\ Rank[d] < Rank[j]
      BY WalkRank
    <3> HIDE DEF w, Good
    <3> QED BY <1>2, <3>1, RankFact
  <2>3. Thinned(q, m)
    <3> HIDE DEF w
    <3> QED BY <2>1, <2>2, UninjectThins
  <2>4. Detach(ld)[<<q, j>>] =
           IF q.refs[j] # 0 THEN Abort(q, "refs")
           ELSE IF m.bug # "none" THEN m
           ELSE [m EXCEPT !.has = @ \ {j}]
    BY DetachFact DEF DetachOnce
  <2> HIDE DEF m
  <2>5. CASE q.refs[j] # 0
    <3>1. "refs" \in Bugs
      BY DEF Bugs
    <3> QED BY <2>4, <2>5, <3>1, AbortType DEF Shrunk
  <2>6. CASE q.refs[j] = 0 /\ m.bug # "none"
    BY <2>3, <2>4, <2>6 DEF Shrunk, Thinned
  <2>7. CASE q.refs[j] = 0 /\ m.bug = "none"
    <3> DEFINE o == [m EXCEPT !.has = @ \ {j}]
    <3>1. m \in Process
      BY <2>3 DEF Thinned
    <3>2. /\ o \in Process /\ o.st = m.st /\ o.mapped = m.mapped /\ o.bound = m.bound
          /\ o.has = m.has \ {j}
      BY <3>1 DEF Process
    <3>3. Detach(ld)[<<q, j>>] = o
      BY <2>4, <2>7
    <3> HIDE DEF o
    <3> QED BY <2>3, <3>2, <3>3 DEF Shrunk, Thinned
  <2> QED BY <2>5, <2>6, <2>7
<1>3. C + 1 \in S
  <2>1. C + 1 \in Nat
    BY RankFact
  <2> HIDE DEF S, C
  <2>2. \A m \in 0..(C + 1) : m \in S
    BY <1>1, <1>2, <2>1, Upwards
  <2> QED BY <2>1, <2>2
<1>4. Good(i)
  <2> HIDE DEF Good
  <2> QED BY <1>3, RankFact
<1> QED BY <1>4 DEF injection_detach_single

\* The state of the loop of injection_detach
Visits == [saw : SUBSET Injectables, r : Process]

\* The body of the loop
Visit(acc, ld, i) ==
    IF acc.r.bug # "none" \/ i \notin acc.saw THEN acc
    ELSE IF i \notin acc.r.has
    THEN [acc EXCEPT !.r = Abort(@, "freed")]
    ELSE [saw |-> acc.r.has,
          r |-> IF i \in Bindings THEN injection_detach_single(acc.r, ld, i) ELSE acc.r]

VisitAll(r, ld) ==
    LET visit(acc, i) ==
            IF acc.r.bug # "none" \/ i \notin acc.saw THEN acc
            ELSE IF i \notin acc.r.has
            THEN [acc EXCEPT !.r = Abort(@, "freed")]
            ELSE [saw |-> acc.r.has,
                  r |-> IF i \in Bindings THEN injection_detach_single(acc.r, ld, i)
                        ELSE acc.r]
    IN  FoldLeft(visit, [saw |-> r.has, r |-> r], Heap)

\* Visiting one injection keeps the type.
LEMMA VisitType ==
  ASSUME NEW acc \in Visits, NEW ld \in Seq(Injectables), NEW i \in Injectables
  PROVE  Visit(acc, ld, i) \in Visits
<1>1. acc.r \in Process
  BY DEF Visits
<1>2. Abort(acc.r, "freed") \in Process
  BY <1>1, AbortType DEF Bugs
<1>3. injection_detach_single(acc.r, ld, i) \in Process
  BY <1>1, DetachShrinks DEF Shrunk
<1>4. acc.r.has \in SUBSET Injectables
  BY <1>1 DEF Process
<1> QED BY <1>1, <1>2, <1>3, <1>4 DEF Visit, Visits

\* f is what the loop of injection_detach goes through.
Iterated(f, r, ld) ==
    /\ f \in [0..Len(Heap) -> Visits]
    /\ f[0] = [saw |-> r.has, r |-> r]
    /\ \A k \in 1..Len(Heap) : f[k] = Visit(f[k - 1], ld, Heap[k])
    /\ VisitAll(r, ld) = f[Len(Heap)]

\* Injections are visited one after the other.
LEMMA VisitRun ==
  ASSUME NEW r \in Process, NEW ld \in Seq(Injectables)
  PROVE  \E f : Iterated(f, r, ld)
<1> DEFINE n == Len(Heap)
           T == Visits
           b == [saw |-> r.has, r |-> r]
           G == [x \in T \X (1..n) |-> Visit(x[1], ld, Heap[x[2]])]
           Q(h) == h = [s \in SUBSET DOMAIN Heap |->
                           IF s = {} THEN b
                           ELSE Visit(h[s \ {Max(s)}], ld, Heap[Max(s)])]
           H == CHOOSE h : Q(h)
<1>1. DOMAIN Heap = 1..n /\ n \in Nat /\ b \in T
  BY HeapAssumption DEF Visits, Process
<1>2. \A a \in T, k \in 1..n : Visit(a, ld, Heap[k]) \in T
  <2>1. \A k \in 1..n : Heap[k] \in Injectables
    BY HeapAssumption
  <2> QED BY <2>1, VisitType
<1>3. G \in [T \X (1..n) -> T]
  BY <1>2
<1>4. \A a \in T, k \in 1..n : G[<<a, k>>] = Visit(a, ld, Heap[k])
  OBVIOUS
<1>5. PICK h \in [SUBSET (1..n) -> T] : Iterates(h, n, b, G)
  <2> HIDE DEF G, T, n, b
  <2> QED BY <1>1, <1>3, FoldExists
<1>6. ASSUME NEW s \in SUBSET (1..n), s # {}
      PROVE  Max(s) \in 1..n /\ s \ {Max(s)} \in SUBSET (1..n)
  <2> HIDE DEF n
  <2> QED BY <1>1, <1>6, MaxIn
<1>7. Q(h)
  <2>1. \A s \in SUBSET (1..n) : s # {} =>
           G[<<h[s \ {Max(s)}], Max(s)>>] = Visit(h[s \ {Max(s)}], ld, Heap[Max(s)])
    <3> HIDE DEF G, T, n
    <3> QED BY <1>4, <1>6
  <2> HIDE DEF G, T, n, b
  <2> QED BY <1>1, <1>5, <2>1 DEF Iterates
<1>8. Q(H)
  BY <1>7
<1>9. VisitAll(r, ld) = H[DOMAIN Heap]
  BY DEF VisitAll, Visit, FoldLeft, MapThenFoldSet
<1>10. Unfolds(H, n, T, b, G)
  <2> HIDE DEF H, G, T, n, b
  <2> QED BY <1>1, <1>4, <1>6, <1>8 DEF Unfolds
<1> DEFINE f == Along(H, n)
<1>11. IsRun(f, n, T, b, G)
  <2> HIDE DEF H, G, T, n, b
  <2> QED BY <1>1, <1>3, <1>10, FoldAlong
<1>12. \A k \in 1..n : f[k] = Visit(f[k - 1], ld, Heap[k])
  <2> HIDE DEF G, T, n, f
  <2>1. \A k \in 1..n : f[k - 1] \in T
    BY <1>1, <1>11 DEF IsRun
  <2> QED BY <1>4, <1>11, <2>1 DEF IsRun
<1>13. H[DOMAIN Heap] = f[n]
  <2> HIDE DEF H, n
  <2> QED BY <1>1 DEF Along
<1> HIDE DEF G, H, f
<1> QED BY <1>9, <1>11, <1>12, <1>13 DEF IsRun, Iterated

\* The loop keeps the type.
LEMMA VisitAllType ==
  ASSUME NEW r \in Process, NEW ld \in Seq(Injectables)
  PROVE  VisitAll(r, ld) \in Visits
<1>1. PICK f : Iterated(f, r, ld)
  BY VisitRun
<1>2. Len(Heap) \in Nat
  BY HeapAssumption
<1> QED BY <1>1, <1>2 DEF Iterated

\* injection_detach leaves a process, whatever fails.
LEMMA InjectionDetachType ==
  ASSUME NEW r \in Process, NEW ld \in Seq(Injectables), NEW fail
  PROVE  injection_detach(r, ld, fail) \in Process
<1> DEFINE q == VisitAll(r, ld).r
<1>1. q \in Process
  BY VisitAllType DEF Visits
<1>2. injection_detach(r, ld, fail) = uninject_adbi(q, fail)
  BY DEF injection_detach, VisitAll
<1> HIDE DEF q
<1>3. Abort(q, "no_adbi") \in Process /\ Abort(q, "refs") \in Process
  BY <1>1, AbortType DEF Bugs
<1>4. [q EXCEPT !.refs[Adbi] = 0, !.has = @ \ {Adbi}] \in Process
  <2> DEFINE c == [q.refs EXCEPT ![Adbi] = 0]
  <2>0. q.refs \in [Injectables -> Int]
    BY <1>1 DEF Process
  <2>1. c \in [Injectables -> Int]
    <3>1. Adbi \in Injectables
      BY DEF Injectables
    <3> QED BY <2>0, <3>1
  <2>2. [q EXCEPT !.refs[Adbi] = 0, !.has = @ \ {Adbi}] = [q EXCEPT !.refs = c, !.has = @ \ {Adbi}]
    OBVIOUS
  <2> HIDE DEF c
  <2> QED BY <1>1, <2>1, <2>2 DEF Process
<1>5. uninject_adbi(q, fail) \in
         {q, Abort(q, "no_adbi"), Abort(q, "refs"), [q EXCEPT !.refs[Adbi] = 0, !.has = @ \ {Adbi}]}
  BY DEF uninject_adbi
<1> QED BY <1>1, <1>2, <1>3, <1>4, <1>5

------------------------------------------------------------------------------
(* Segments                                                                *)

\* Segments can be counted.
LEMMA CountType ==
  ASSUME NEW C \in SUBSET Segs
  PROVE  Cardinality(C) \in Nat
<1>1. C \subseteq 1..Len(Layout) /\ Len(Layout) \in Nat
  BY HeapAssumption DEF Segs
<1>2. IsFiniteSet(1..Len(Layout))
  BY <1>1, FS_Interval
<1>3. IsFiniteSet(C)
  BY <1>1, <1>2, FS_Subset
<1> QED BY <1>3, FS_CardinalityType

\* Releasing segments takes them from bound and changes nothing else but
\* counts.
LEMMA ReleaseShape ==
  ASSUME NEW r \in Process, NEW S
  PROVE  /\ Release(r, S) \in Process
         /\ Release(r, S).st = r.st /\ Release(r, S).mapped = r.mapped
         /\ Release(r, S).bound = r.bound \ S /\ Release(r, S).has = r.has
         /\ Release(r, S).bug = r.bug
<1> DEFINE c == [i \in Injectables |->
                    r.refs[i] - Cardinality({s \in S \cap r.bound : Layout[s] = i})]
<1>1. c \in [Injectables -> Int]
  <2>1. \A i \in Injectables : r.refs[i] \in Int
    BY DEF Process
  <2>2. ASSUME NEW i \in Injectables
        PROVE  r.refs[i] - Cardinality({s \in S \cap r.bound : Layout[s] = i}) \in Int
    <3> DEFINE C == {s \in S \cap r.bound : Layout[s] = i}
    <3>1. C \in SUBSET Segs
      BY DEF Process
    <3> HIDE DEF C
    <3>2. Cardinality(C) \in Nat
      BY <3>1, CountType
    <3>3. r.refs[i] - Cardinality(C) \in Int
      BY <2>1, <3>2
    <3> QED BY <3>3 DEF C
  <2> QED BY <2>2
<1>2. Release(r, S) = [r EXCEPT !.bound = @ \ S, !.refs = c]
  BY DEF Release
<1> HIDE DEF c
<1> QED BY <1>1, <1>2 DEF Process

\* The child differs from the parent in its counts only.
LEMMA ForkShape ==
  ASSUME NEW r \in Process
  PROVE  LET n == segment_fork(injection_fork(r))
         IN  /\ n \in Process
             /\ n.st = r.st /\ n.mapped = r.mapped /\ n.bound = r.bound
             /\ n.has = r.has /\ n.bug = r.bug
<1> DEFINE b == [i \in Injectables |->
                    IF i = Adbi THEN IF Adbi \in r.has THEN 1 ELSE 0
                    ELSE IF i \in Libs THEN r.refs[i]
                    ELSE 0]
           q == [r EXCEPT !.refs = b]
           c == [i \in Injectables |->
                    q.refs[i] + Cardinality({s \in q.bound : Layout[s] = i})]
<1>1. b \in [Injectables -> Int]
  BY DEF Process
<1>2. injection_fork(r) = q
  BY DEF injection_fork
<1>3. /\ q \in Process /\ q.st = r.st /\ q.mapped = r.mapped /\ q.bound = r.bound
      /\ q.has = r.has /\ q.bug = r.bug
  <2> HIDE DEF b
  <2> QED BY <1>1 DEF Process
<1> HIDE DEF q
<1>4. c \in [Injectables -> Int]
  <2>1. \A i \in Injectables : q.refs[i] \in Int
    BY <1>3 DEF Process
  <2>2. ASSUME NEW i \in Injectables
        PROVE  q.refs[i] + Cardinality({s \in q.bound : Layout[s] = i}) \in Int
    <3> DEFINE C == {s \in q.bound : Layout[s] = i}
    <3>1. C \in SUBSET Segs
      BY <1>3 DEF Process
    <3> HIDE DEF C
    <3>2. Cardinality(C) \in Nat
      BY <3>1, CountType
    <3>3. q.refs[i] + Cardinality(C) \in Int
      BY <2>1, <3>2
    <3> QED BY <3>3 DEF C
  <2> QED BY <2>2
<1>5. segment_fork(q) = [q EXCEPT !.refs = c]
  BY DEF segment_fork
<1> HIDE DEF c
<1> QED BY <1>2, <1>3, <1>4, <1>5 DEF Process

\* What a rescan leaves
LEMMA RescanShape ==
  ASSUME NEW r \in Process, NEW ld \in Seq(Injectables), NEW S \in SUBSET Segs, NEW fail
  PROVE  LET n == segment_rescan(r, ld, S, fail)
         IN  /\ n \in Process
             /\ n.st = r.st /\ n.mapped = S
             /\ r.has \subseteq n.has /\ n.has \subseteq r.has \cup ToSet(ld)
             /\ r.bound \ (r.mapped \ S) \subseteq n.bound
             /\ n.bound \subseteq (r.bound \ (r.mapped \ S)) \cup (S \ r.mapped)
             /\ \A s \in n.bound \ r.bound : Layout[s] \in n.has
<1> DEFINE kept == Release(r, r.mapped \ S)
           new == [kept EXCEPT !.mapped = S \ r.mapped]
           q == InitSegments(new, ld, fail)
           n == [q EXCEPT !.mapped = S]
<1>1. segment_rescan(r, ld, S, fail) = n
  BY DEF segment_rescan
<1>2. /\ kept \in Process /\ kept.st = r.st /\ kept.has = r.has
      /\ kept.bound = r.bound \ (r.mapped \ S)
  BY ReleaseShape
<1>3. /\ new \in Process /\ new.st = r.st /\ new.has = r.has
      /\ new.bound = r.bound \ (r.mapped \ S) /\ new.mapped = S \ r.mapped
  <2> HIDE DEF kept
  <2> QED BY <1>2 DEF Process
<1>4. Served(new, q, ToSet(ld), S \ r.mapped)
  <2> HIDE DEF new
  <2> QED BY <1>3, SegmentsServe
<1>5. /\ n \in Process /\ n.st = q.st /\ n.has = q.has /\ n.bound = q.bound /\ n.mapped = S
  <2> HIDE DEF q
  <2> QED BY <1>4 DEF Process, Served
<1> HIDE DEF new, q, n
<1>6. \A s \in q.bound \ r.bound : s \in q.bound \ new.bound
  BY <1>3
<1> QED BY <1>1, <1>3, <1>4, <1>5, <1>6 DEF Served

------------------------------------------------------------------------------
(* Every segment is tried                                                  *)

\* i and all that it needs is loaded.
Ready(ld, i) == i \in ToSet(ld) /\ ~Unresolved(ld, i)

\* Where nothing fails, injections_init gives the segment its injection or
\* the server stops.
LEMMA InitBinds ==
  ASSUME NEW r \in Process, NEW ld \in Seq(Injectables), NEW s \in Segs,
         injections_init(r, ld, s, {}).bug = "none", Ready(ld, Layout[s])
  PROVE  s \in injections_init(r, ld, s, {}).bound
<1> DEFINE i == Layout[s]
           d == inject_dependencies(r, ld, i, {})
           n == IF i \in r.has \/ Unresolved(ld, i) THEN r
                ELSE IF d.bug # "none" THEN d
                ELSE inject(d, i, {})
           m == injections_init(r, ld, s, {})
<1>0. i \in Injectables
  BY HeapAssumption DEF Segs, Injectables
<1>1. m = IF r.bug # "none" \/ s \in r.bound \/ i \notin ToSet(ld) THEN r
          ELSE IF n.bug # "none" \/ i \notin n.has THEN n
          ELSE [n EXCEPT !.bound = @ \cup {s}, !.refs[i] = @ + 1]
  BY DEF injections_init
<1>2. d \in Process
  BY <1>0, DependenciesGrow DEF Grown
<1>3. inject(d, i, {}).bug # "none" \/ i \in inject(d, i, {}).has
  <2> HIDE DEF d, i
  <2> QED BY <1>2 DEF inject, Abort, Process
<1>4. n \in Process /\ (n.bug # "none" \/ i \in n.has)
  <2>1. inject(d, i, {}) \in Process
    BY <1>0, <1>2, InjectGrows DEF Grown
  <2>2. ~Unresolved(ld, i)
    BY DEF Ready
  <2> HIDE DEF d, i
  <2> QED BY <1>2, <1>3, <2>1, <2>2
<1>5. r.bug = "none" /\ m.bug = "none" /\ i \in ToSet(ld)
  <2> HIDE DEF n
  <2> QED BY <1>1 DEF Ready
<1> DEFINE o == [n EXCEPT !.bound = @ \cup {s}, !.refs[i] = @ + 1]
<1>6. s \in o.bound
  <2> HIDE DEF n, i
  <2> QED BY <1>4 DEF Process
<1> HIDE DEF n
<1>7. CASE s \in r.bound
  BY <1>1, <1>5, <1>7
<1>8. CASE s \notin r.bound
  <2>1. n.bug = "none" => m = o
    BY <1>1, <1>4, <1>5, <1>8
  <2>2. n.bug # "none" => m = n
    BY <1>1, <1>5, <1>8
  <2> HIDE DEF o
  <2> QED BY <1>5, <1>6, <2>1, <2>2
<1> QED BY <1>7, <1>8

\* So does InitSegments for each of the segments.
LEMMA SegmentsBind ==
  ASSUME NEW r \in Process, NEW ld \in Seq(Injectables),
         InitSegments(r, ld, {}).bug = "none"
  PROVE  \A s \in r.mapped : Ready(ld, Layout[s]) => s \in InitSegments(r, ld, {}).bound
<1> DEFINE n == Len(Layout)
<1>0. PICK f : Serves(f, r, ld, {})
  BY ServeRun
<1>1. /\ f \in [0..n -> Process] /\ f[0] = r /\ InitSegments(r, ld, {}) = f[n]
      /\ \A k \in 1..n : f[k] = Serve(f[k - 1], r, ld, Addresses[k], {})
  BY <1>0 DEF Serves
<1>2. n \in Nat /\ Segs = 1..n /\ \A k \in 1..n : Addresses[k] = k
  BY HeapAssumption DEF Addresses, Segs
<1> DEFINE S == {k \in 0..n : f[k].bug = "none" =>
                    \A s \in r.mapped : s <= k /\ Ready(ld, Layout[s]) => s \in f[k].bound}
<1>3. r.mapped \subseteq 1..n
  BY <1>2 DEF Process
<1> HIDE DEF n
<1>4. 0 \in S
  BY <1>2, <1>3
<1>5. ASSUME NEW k \in 1..n, k - 1 \in S PROVE k \in S
  <2> SUFFICES ASSUME f[k].bug = "none", NEW s \in r.mapped, s <= k, Ready(ld, Layout[s])
               PROVE  s \in f[k].bound
    BY <1>2
  <2>1. f[k - 1] \in Process /\ k \in Segs /\ f[k] = Serve(f[k - 1], r, ld, k, {})
    BY <1>1, <1>2
  <2>2. f[k - 1].bound \subseteq f[k].bound
    BY <2>1, ServeServes DEF Served
  <2>3. CASE s = k
    <3>1. f[k] = injections_init(f[k - 1], ld, s, {})
      BY <2>1, <2>3 DEF Serve
    <3> QED BY <2>1, <2>3, <3>1, InitBinds
  <2>4. CASE s # k
    <3>1. f[k - 1].bug = "none"
      BY <2>1 DEF Serve, injections_init
    <3>2. s <= k - 1
      BY <1>2, <1>3, <2>4
    <3>3. s \in f[k - 1].bound
      BY <1>5, <3>1, <3>2
    <3> QED BY <2>2, <3>3
  <2> QED BY <2>3, <2>4
<1>6. n \in S
  <2> HIDE DEF S
  <2>1. \A k \in 0..n : k \in S
    BY <1>2, <1>4, <1>5, Upwards
  <2> QED BY <1>2, <2>1
<1>7. \A s \in r.mapped : s <= n
  BY <1>2, <1>3
<1> QED BY <1>1, <1>6, <1>7

\* What is resolved stays resolved when more is loaded.
LEMMA ReadyGrows ==
  ASSUME NEW ld \in Seq(Injectables), NEW more \in Seq(Injectables),
         ToSet(ld) \subseteq ToSet(more), NEW i \in Injectables, ~Unresolved(ld, i)
  PROVE  ~Unresolved(more, i)
<1> DEFINE C == Cardinality(Injectables)
           Same(j) == ~Unresolved(ld, j) => ToSet(Walk(more)[j]) \subseteq ToSet(Walk(ld)[j])
           S == {n \in 0..(C + 1) : \A j \in Injectables : Rank[j] < n => Same(j)}
<1>1. 0 \in S
  BY RankFact
<1>2. ASSUME NEW n \in 1..(C + 1), n - 1 \in S PROVE n \in S
  <2> SUFFICES ASSUME NEW j \in Injectables, Rank[j] < n PROVE Same(j)
    <3> HIDE DEF Same
    <3> QED BY RankFact
  <2> SUFFICES ASSUME ~Unresolved(ld, j), NEW x \in ToSet(Walk(more)[j])
               PROVE  x \in ToSet(Walk(ld)[j])
    OBVIOUS
  <2>1. /\ ToSet(Walk(more)[j]) = Reached(more, j, Walk(more))
        /\ ToSet(Walk(ld)[j]) = Reached(ld, j, Walk(ld))
    BY WalkSet
  <2>2. PICK d \in Imports[j] : x = d \/ x \in ToSet(Walk(more)[d])
    BY <2>1 DEF Reached
  <2>3. d \in Injectables /\ Rank[d] < Rank[j] /\ d \in ToSet(ld)
    BY RankFact DEF Unresolved
  <2>4. ToSet(Walk(ld)[d]) \subseteq Injectables
    BY <2>3, WalkRank
  <2>5. {d} \cup ToSet(Walk(ld)[d]) \subseteq ToSet(Walk(ld)[j])
    BY <2>1, <2>3, <2>4 DEF Reached
  <2>6. ~Unresolved(ld, d)
    BY <2>5 DEF Unresolved
  <2>7. Same(d)
    <3> HIDE DEF Same
    <3> QED BY <1>2, <2>3, RankFact
  <2> QED BY <2>2, <2>5, <2>6, <2>7
<1>3. C + 1 \in S
  <2>1. C + 1 \in Nat
    BY RankFact
  <2> HIDE DEF S, C
  <2>2. \A m \in 0..(C + 1) : m \in S
    BY <1>1, <1>2, <2>1, Upwards
  <2> QED BY <2>1, <2>2
<1>4. Same(i)
  <2> HIDE DEF Same
  <2> QED BY <1>3, RankFact
<1> QED BY <1>4 DEF Unresolved

------------------------------------------------------------------------------
(* What every process keeps to                                             *)

\* NoDangling for one process, where L is loaded
Sound(r, L) ==
    /\ \A s \in r.bound : s \in r.mapped /\ Layout[s] \in r.has
    /\ r.has \subseteq L

\* SegmentsServed for one process
Complete(r, ld) == \A s \in r.mapped : Ready(ld, Layout[s]) => s \in r.bound

\* The base injectable is loaded first and never unloaded; SegmentsServed is
\* promised as long as no injection failed.
Inv ==
    /\ TypeOK
    /\ Adbi \in ToSet(loaded)
    /\ NoDangling
    /\ fails = 0 => SegmentsServed

\* The injectable of a segment is neither a library nor the base.
LEMMA SegmentFile ==
  ASSUME NEW s \in Segs
  PROVE  Layout[s] \in Bindings /\ Layout[s] \in Injectables /\ Layout[s] \notin Libs \cup {Adbi}
BY HeapAssumption, KindsAssumption DEF Segs, Injectables

\* segment_rescan releases what is gone before it binds what is new.
LEMMA RescanSound ==
  ASSUME NEW r \in Process, NEW ld \in Seq(Injectables), NEW S \in SUBSET Segs, NEW fail,
         Sound(r, ToSet(ld))
  PROVE  Sound(segment_rescan(r, ld, S, fail), ToSet(ld))
<1> DEFINE n == segment_rescan(r, ld, S, fail)
<1>1. /\ n.mapped = S
      /\ r.has \subseteq n.has /\ n.has \subseteq r.has \cup ToSet(ld)
      /\ n.bound \subseteq (r.bound \ (r.mapped \ S)) \cup (S \ r.mapped)
      /\ \A s \in n.bound \ r.bound : Layout[s] \in n.has
  BY RescanShape
<1> HIDE DEF n
<1>2. Sound(n, ToSet(ld))
  BY <1>1 DEF Sound
<1> QED BY <1>2 DEF n

\* Where nothing fails, a rescan leaves no segment out.
LEMMA RescanComplete ==
  ASSUME NEW r \in Process, NEW ld \in Seq(Injectables), NEW S \in SUBSET Segs,
         Complete(r, ld), segment_rescan(r, ld, S, {}).bug = "none"
  PROVE  Complete(segment_rescan(r, ld, S, {}), ld)
<1> DEFINE kept == Release(r, r.mapped \ S)
           new == [kept EXCEPT !.mapped = S \ r.mapped]
           q == InitSegments(new, ld, {})
           n == [q EXCEPT !.mapped = S]
<1>1. segment_rescan(r, ld, S, {}) = n
  BY DEF segment_rescan
<1>2. /\ kept \in Process /\ kept.bound = r.bound \ (r.mapped \ S)
  BY ReleaseShape
<1>3. /\ new \in Process /\ new.mapped = S \ r.mapped
      /\ new.bound = r.bound \ (r.mapped \ S)
  <2> HIDE DEF kept
  <2> QED BY <1>2 DEF Process
<1>4. q \in Process /\ new.bound \subseteq q.bound
  <2> HIDE DEF new
  <2> QED BY <1>3, SegmentsServe DEF Served
<1>5. n.bound = q.bound /\ n.mapped = S /\ n.bug = q.bug
  <2> HIDE DEF q
  <2> QED BY <1>4 DEF Process
<1>6. \A s \in new.mapped : Ready(ld, Layout[s]) => s \in q.bound
  <2>1. q.bug = "none"
    BY <1>1, <1>5
  <2> HIDE DEF new
  <2> QED BY <1>3, <2>1, SegmentsBind
<1> HIDE DEF new, q, n
<1> QED BY <1>1, <1>3, <1>4, <1>5, <1>6 DEF Complete

\* What process_attach and thread_exec leave
LEMMA AttachedSound ==
  ASSUME TypeOK, Adbi \in ToSet(loaded), NEW S \in SUBSET Segs, NEW fail
  PROVE  /\ Attached(S, fail) \in Process
         /\ Sound(Attached(S, fail), ToSet(loaded))
         /\ fail = {} /\ Attached(S, fail).bug = "none" => Complete(Attached(S, fail), loaded)
<1> DEFINE e == [NoProcess EXCEPT !.st = "traced"]
           r == inject_adbi(e, fail)
<1>1. Adbi \in Injectables /\ "none" \in Bugs
  BY DEF Injectables, Bugs
<1>2. /\ e \in Process /\ e.mapped = {} /\ e.bound = {} /\ e.has = {}
  BY <1>1 DEF NoProcess, Process
<1>3. r \in Process /\ r.mapped = {} /\ r.bound = {} /\ r.has \subseteq {Adbi}
  <2> DEFINE c == [e.refs EXCEPT ![Adbi] = 1]
  <2>1. r = IF Adbi \in fail THEN e ELSE [e EXCEPT !.has = @ \cup {Adbi}, !.refs = c]
    BY DEF inject_adbi
  <2>2. c \in [Injectables -> Int]
    <3>1. e.refs \in [Injectables -> Int]
      BY <1>2 DEF Process
    <3> HIDE DEF e
    <3> QED BY <1>1, <3>1
  <2> HIDE DEF e, c, r
  <2> QED BY <1>1, <1>2, <2>1, <2>2 DEF Process
<1>4. loaded \in Seq(Injectables)
  BY DEF TypeOK
<1>5. Attached(S, fail) = segment_rescan(r, loaded, S, fail)
  BY DEF Attached
<1> HIDE DEF r
<1>6. Sound(r, ToSet(loaded)) /\ Complete(r, loaded)
  BY <1>3 DEF Sound, Complete
<1>7. segment_rescan(r, loaded, S, fail) \in Process
  BY <1>3, <1>4, RescanShape
<1>8. Sound(segment_rescan(r, loaded, S, fail), ToSet(loaded))
  BY <1>3, <1>4, <1>6, RescanSound
<1>9. fail = {} /\ segment_rescan(r, loaded, S, fail).bug = "none"
         => Complete(segment_rescan(r, loaded, S, fail), loaded)
  BY <1>3, <1>4, <1>6, RescanComplete
<1> QED BY <1>5, <1>7, <1>8, <1>9

\* Inv is about one process at a time.
LEMMA InvOf ==
  Inv /\ Alive =>
     \A p \in Traced : /\ proc[p] \in Process
                       /\ Sound(proc[p], ToSet(loaded))
                       /\ fails = 0 => Complete(proc[p], loaded)
BY DEF Inv, NoDangling, SegmentsServed, Sound, Complete, Ready, Traced, TypeOK

\* Inv follows from what each process keeps to.
LEMMA AllKeep ==
  ASSUME proc' \in [Procs -> Process], loaded' \in Seq(Injectables), IsInjective(loaded'),
         Adbi \in ToSet(loaded'), fails' \in 0..MaxFails,
         \A p \in Procs : proc'[p].st = "traced" /\ proc'[p].bug = "none" =>
            /\ Sound(proc'[p], ToSet(loaded'))
            /\ fails' = 0 => Complete(proc'[p], loaded')
  PROVE  Inv'
<1>1. TypeOK'
  BY DEF TypeOK
<1>2. NoDangling'
  BY DEF NoDangling, Alive, Traced, Sound
<1>3. (fails = 0 => SegmentsServed)'
  BY DEF SegmentsServed, Alive, Traced, Complete, Ready
<1> QED BY <1>1, <1>2, <1>3 DEF Inv

\* Inv stays when one process changes and keeps to it.
LEMMA OneKeeps ==
  ASSUME Inv, Alive, UNCHANGED loaded, fails' \in 0..MaxFails, fails' = 0 => fails = 0,
         NEW p \in Procs, NEW r \in Process, proc' = [proc EXCEPT ![p] = r],
         r.st = "traced" /\ r.bug = "none" =>
            Sound(r, ToSet(loaded)) /\ (fails' = 0 => Complete(r, loaded))
  PROVE  Inv'
<1>1. proc \in [Procs -> Process] /\ loaded \in Seq(Injectables) /\ IsInjective(loaded)
      /\ Adbi \in ToSet(loaded)
  BY DEF Inv, TypeOK
<1>2. proc' \in [Procs -> Process]
  BY <1>1
<1>3. \A x \in Procs : proc'[x].st = "traced" /\ proc'[x].bug = "none" =>
            /\ Sound(proc'[x], ToSet(loaded'))
            /\ fails' = 0 => Complete(proc'[x], loaded')
  BY <1>1, InvOf DEF Traced
<1> QED BY <1>1, <1>2, <1>3, AllKeep

\* A handler without failures so far is one in which nothing fails.
LEMMA FailingType ==
  ASSUME Inv, NEW fail, Failing(fail)
  PROVE  fails' \in 0..MaxFails /\ (fails' = 0 => fails = 0 /\ fail = {})
BY MaxFailsAssumption DEF Inv, TypeOK, Failing

------------------------------------------------------------------------------
(* The list of loaded injectables                                          *)

\* Loading adds the injectable to the list.
LEMMA AppendFact ==
  ASSUME NEW ld \in Seq(Injectables), IsInjective(ld), NEW i \in Injectables \ ToSet(ld)
  PROVE  /\ Append(ld, i) \in Seq(Injectables) /\ IsInjective(Append(ld, i))
         /\ ToSet(Append(ld, i)) = ToSet(ld) \cup {i}
<1> DEFINE m == Append(ld, i)
<1>1. m \in Seq(Injectables) /\ DOMAIN m = 1..(Len(ld) + 1) /\ Len(ld) \in Nat
  OBVIOUS
<1>2. \A k \in 1..Len(ld) : m[k] = ld[k]
  OBVIOUS
<1>3. m[Len(ld) + 1] = i /\ DOMAIN ld = 1..Len(ld)
  OBVIOUS
<1> HIDE DEF m
<1>4. \A k \in DOMAIN m : k \in DOMAIN ld \/ k = Len(ld) + 1
  BY <1>1, <1>3
<1>5. ToSet(m) = ToSet(ld) \cup {i}
  BY <1>1, <1>2, <1>3, <1>4 DEF ToSet
<1>6. IsInjective(m)
  BY <1>1, <1>2, <1>3, <1>4 DEF IsInjective, ToSet
<1> QED BY <1>1, <1>5, <1>6 DEF m

\* Unloading takes it out and keeps the others.
LEMMA RemoveFact ==
  ASSUME NEW ld \in Seq(Injectables), IsInjective(ld), NEW n \in DOMAIN ld
  PROVE  /\ RemoveAt(ld, n) \in Seq(Injectables) /\ IsInjective(RemoveAt(ld, n))
         /\ ToSet(RemoveAt(ld, n)) = ToSet(ld) \ {ld[n]}
<1> DEFINE a == SubSeq(ld, 1, n - 1)
           b == SubSeq(ld, n + 1, Len(ld))
           m == a \o b
           l == Len(ld)
<1>1. l \in Nat /\ DOMAIN ld = 1..l /\ n \in 1..l
  OBVIOUS
<1>2. a \in Seq(Injectables) /\ Len(a) = n - 1 /\ \A k \in 1..(n - 1) : a[k] = ld[k]
  OBVIOUS
<1>3. b \in Seq(Injectables) /\ Len(b) = l - n /\ \A k \in 1..(l - n) : b[k] = ld[k + n]
  OBVIOUS
<1> HIDE DEF a, b, l
<1>4. m \in Seq(Injectables) /\ DOMAIN m = 1..(l - 1)
  BY <1>1, <1>2, <1>3
<1>5. \A k \in 1..(l - 1) : m[k] = IF k < n THEN ld[k] ELSE ld[k + 1]
  <2> SUFFICES ASSUME NEW k \in 1..(l - 1) PROVE m[k] = IF k < n THEN ld[k] ELSE ld[k + 1]
    OBVIOUS
  <2>1. CASE k < n
    BY <1>1, <1>2, <1>3, <2>1
  <2>2. CASE ~(k < n)
    <3>1. k - (n - 1) \in 1..(l - n) /\ k - (n - 1) + n = k + 1
      BY <1>1, <2>2
    <3>2. m[k] = b[k - (n - 1)]
      BY <1>1, <1>2, <1>3, <2>2
    <3> QED BY <1>3, <2>2, <3>1, <3>2
  <2> QED BY <2>1, <2>2
<1> HIDE DEF m
<1>6. IsInjective(m)
  <2> SUFFICES ASSUME NEW x \in 1..(l - 1), NEW y \in 1..(l - 1), m[x] = m[y] PROVE x = y
    BY <1>4 DEF IsInjective
  <2> DEFINE at(k) == IF k < n THEN k ELSE k + 1
  <2>1. at(x) \in DOMAIN ld /\ at(y) \in DOMAIN ld
    BY <1>1
  <2>2. ld[at(x)] = ld[at(y)]
    BY <1>5
  <2>3. at(x) = at(y)
    <3> HIDE DEF at
    <3> QED BY <2>1, <2>2 DEF IsInjective
  <2> QED BY <1>1, <2>3
<1>7. ToSet(m) = ToSet(ld) \ {ld[n]}
  <2>1. ASSUME NEW k \in 1..(l - 1) PROVE m[k] \in ToSet(ld) /\ m[k] # ld[n]
    <3> DEFINE x == IF k < n THEN k ELSE k + 1
    <3>1. x \in DOMAIN ld /\ x # n /\ m[k] = ld[x]
      BY <1>1, <1>5
    <3> HIDE DEF x
    <3> QED BY <3>1 DEF ToSet, IsInjective
  <2>2. ASSUME NEW x \in DOMAIN ld, x # n PROVE ld[x] \in ToSet(m)
    <3> DEFINE k == IF x < n THEN x ELSE x - 1
    <3>1. k \in 1..(l - 1) /\ m[k] = ld[x]
      BY <1>1, <1>5, <2>2
    <3> HIDE DEF k
    <3> QED BY <1>4, <3>1 DEF ToSet
  <2> QED BY <1>4, <2>1, <2>2 DEF ToSet
<1> QED BY <1>4, <1>6, <1>7 DEF m, a, b, l, RemoveAt

------------------------------------------------------------------------------
(* The handlers                                                            *)

\* A new address space is scanned with the base injection in place.
LEMMA AttachInv ==
  ASSUME Inv, NEW p \in Procs, process_attach(p) \/ thread_exec(p)
  PROVE  Inv'
<1>1. PICK S \in SUBSET Segs, fail \in SUBSET ToSet(loaded) :
         Failing(fail) /\ proc' = [proc EXCEPT ![p] = Attached(S, fail)]
  BY DEF process_attach, thread_exec
<1>2. Alive /\ UNCHANGED loaded
  BY DEF process_attach, thread_exec
<1>3. /\ Attached(S, fail) \in Process
      /\ Sound(Attached(S, fail), ToSet(loaded))
      /\ fail = {} /\ Attached(S, fail).bug = "none" => Complete(Attached(S, fail), loaded)
  BY AttachedSound DEF Inv
<1>4. fails' \in 0..MaxFails /\ (fails' = 0 => fails = 0 /\ fail = {})
  BY <1>1, FailingType
<1> QED BY <1>1, <1>2, <1>3, <1>4, OneKeeps

\* The dynamic linker's changes are followed by a rescan.
LEMMA NotifyInv ==
  ASSUME Inv, NEW p \in Procs, linker_notify(p)
  PROVE  Inv'
<1>1. PICK S \in SUBSET Segs, fail \in SUBSET ToSet(loaded) :
         Failing(fail) /\ proc' = [proc EXCEPT ![p] = segment_rescan(@, loaded, S, fail)]
  BY DEF linker_notify
<1>2. Alive /\ UNCHANGED loaded /\ p \in Traced
  BY DEF linker_notify
<1> DEFINE r == proc[p]
           n == segment_rescan(r, loaded, S, fail)
<1>3. /\ r \in Process /\ Sound(r, ToSet(loaded)) /\ loaded \in Seq(Injectables)
      /\ fails = 0 => Complete(r, loaded)
  BY <1>2, InvOf DEF Inv, TypeOK
<1>4. proc' = [proc EXCEPT ![p] = n]
  BY <1>1
<1> HIDE DEF r
<1>5. n \in Process /\ Sound(n, ToSet(loaded))
  BY <1>3, RescanShape, RescanSound
<1>6. fails = 0 /\ fail = {} /\ n.bug = "none" => Complete(n, loaded)
  BY <1>3, RescanComplete
<1>7. fails' \in 0..MaxFails /\ (fails' = 0 => fails = 0 /\ fail = {})
  BY <1>1, FailingType
<1> HIDE DEF n
<1> QED BY <1>2, <1>4, <1>5, <1>6, <1>7, OneKeeps

\* The child has what the parent has.
LEMMA ForkedInv ==
  ASSUME Inv, NEW p \in Procs, NEW c \in Procs, process_forked(p, c)
  PROVE  Inv'
<1> DEFINE r == proc[p]
           n == segment_fork(injection_fork(r))
<1>1. Alive /\ UNCHANGED <<loaded, fails>> /\ p \in Traced /\ proc' = [proc EXCEPT ![c] = n]
  BY DEF process_forked
<1>2. /\ r \in Process /\ Sound(r, ToSet(loaded))
      /\ fails = 0 => Complete(r, loaded)
  BY <1>1, InvOf
<1>3. /\ n \in Process /\ n.mapped = r.mapped /\ n.bound = r.bound /\ n.has = r.has
  <2> HIDE DEF r
  <2> QED BY <1>2, ForkShape
<1> HIDE DEF r, n
<1>4. Sound(n, ToSet(loaded)) /\ (fails = 0 => Complete(n, loaded))
  BY <1>2, <1>3 DEF Sound, Complete
<1>5. fails' \in 0..MaxFails /\ fails' = fails
  BY <1>1 DEF Inv, TypeOK
<1> QED BY <1>1, <1>3, <1>4, <1>5, OneKeeps

\* A process that is gone has nothing left to point to.
LEMMA FreeInv ==
  ASSUME Inv, NEW p \in Procs, process_free(p)
  PROVE  Inv'
<1>1. Alive /\ UNCHANGED <<loaded, fails>> /\ proc' = [proc EXCEPT ![p] = NoProcess]
  BY DEF process_free
<1>2. NoProcess \in Process /\ NoProcess.st # "traced"
  BY DEF NoProcess, Process, Bugs
<1>3. fails' \in 0..MaxFails /\ fails' = fails
  BY <1>1 DEF Inv, TypeOK
<1> QED BY <1>1, <1>2, <1>3, OneKeeps

\* A process that is detached is the server's no more.
LEMMA DetachInv ==
  ASSUME Inv, NEW p \in Procs, process_detach(p)
  PROVE  Inv'
<1>1. PICK fail \in SUBSET {Adbi} :
         LET r == injection_detach(Release(proc[p], Segs), loaded, fail) IN
         /\ Failing(fail)
         /\ proc' = [proc EXCEPT ![p] =
                 [NoProcess EXCEPT !.st = "left", !.has = r.has, !.bug = r.bug]]
  BY DEF process_detach
<1> DEFINE q == Release(proc[p], Segs)
           r == injection_detach(q, loaded, fail)
           n == [NoProcess EXCEPT !.st = "left", !.has = r.has, !.bug = r.bug]
<1>2. Alive /\ UNCHANGED loaded /\ p \in Traced
  BY DEF process_detach
<1>3. proc[p] \in Process /\ loaded \in Seq(Injectables)
  BY <1>2, InvOf DEF Inv, TypeOK
<1>4. q \in Process
  BY <1>3, ReleaseShape
<1>5. r \in Process
  <2> HIDE DEF q
  <2> QED BY <1>3, <1>4, InjectionDetachType
<1>6. n \in Process /\ n.st # "traced"
  <2>1. NoProcess \in Process
    BY DEF NoProcess, Process, Bugs
  <2>2. r.has \in SUBSET Injectables /\ r.bug \in Bugs
    BY <1>5 DEF Process
  <2> HIDE DEF r
  <2> QED BY <2>1, <2>2 DEF Process
<1>7. fails' \in 0..MaxFails /\ (fails' = 0 => fails = 0 /\ fail = {})
  BY <1>1, FailingType
<1>8. proc' = [proc EXCEPT ![p] = n]
  BY <1>1
<1> HIDE DEF n
<1> QED BY <1>2, <1>6, <1>7, <1>8, OneKeeps

\* INJL tries every mapped segment of every process again.
LEMMA LoadInv ==
  ASSUME Inv, NEW i \in Injectables, injectable_load(i)
  PROVE  Inv'
<1> DEFINE ld == Append(loaded, i)
           R(p, fail) == InitSegments(proc[p], ld, fail)
<1>1. Alive /\ i \in Injectables \ ToSet(loaded) /\ loaded' = ld
  BY DEF injectable_load
<1>2. PICK fail \in SUBSET ToSet(ld) :
         /\ Failing(fail)
         /\ proc' = [p \in Procs |-> IF p \in Traced THEN R(p, fail) ELSE proc[p]]
  BY DEF injectable_load
<1>3. /\ proc \in [Procs -> Process] /\ loaded \in Seq(Injectables) /\ IsInjective(loaded)
      /\ Adbi \in ToSet(loaded)
  BY DEF Inv, TypeOK
<1>4. ld \in Seq(Injectables) /\ IsInjective(ld) /\ ToSet(ld) = ToSet(loaded) \cup {i}
  BY <1>1, <1>3, AppendFact
<1> HIDE DEF ld
<1>5. fails' \in 0..MaxFails /\ (fails' = 0 => fails = 0 /\ fail = {})
  BY <1>2, FailingType
<1>6. ASSUME NEW p \in Traced
      PROVE  /\ R(p, fail) \in Process /\ Sound(R(p, fail), ToSet(ld))
             /\ R(p, fail).bug = "none" /\ fail = {} => Complete(R(p, fail), ld)
  <2> DEFINE r == proc[p]
             n == InitSegments(r, ld, fail)
  <2>1. r \in Process /\ Sound(r, ToSet(loaded))
    BY <1>1, InvOf
  <2> HIDE DEF r
  <2>2. Served(r, n, ToSet(ld), r.mapped)
    BY <1>4, <2>1, SegmentsServe
  <2>3. n.bug = "none" /\ fail = {} =>
           \A s \in r.mapped : Ready(ld, Layout[s]) => s \in n.bound
    BY <1>4, <2>1, SegmentsBind
  <2>4. R(p, fail) = n
    BY DEF r
  <2> HIDE DEF n, R
  <2>5. Sound(n, ToSet(ld))
    BY <1>4, <2>1, <2>2 DEF Sound, Served
  <2>6. n.bug = "none" /\ fail = {} => Complete(n, ld)
    BY <2>2, <2>3 DEF Complete, Served
  <2> QED BY <2>2, <2>4, <2>5, <2>6 DEF Served
<1> HIDE DEF R
<1>7. proc' \in [Procs -> Process]
  BY <1>2, <1>3, <1>6
<1>8. ASSUME NEW p \in Procs, proc'[p].st = "traced", proc'[p].bug = "none"
      PROVE  Sound(proc'[p], ToSet(ld)) /\ (fails' = 0 => Complete(proc'[p], ld))
  <2>1. p \in Traced
    BY <1>2, <1>8 DEF Traced
  <2>2. proc'[p] = R(p, fail)
    BY <1>2, <2>1
  <2> QED BY <1>5, <1>6, <1>8, <2>1, <2>2
<1> QED BY <1>1, <1>3, <1>4, <1>5, <1>7, <1>8, AllKeep

\* The injection goes from every process, and no segment is left with it.
LEMMA DetachInjectable ==
  ASSUME NEW r \in Process, NEW ld \in Seq(Injectables), NEW more \in Seq(Injectables),
         NEW i \in Injectables, ToSet(ld) = ToSet(more) \ {i}, Sound(r, ToSet(more))
  PROVE  LET n == process_detach_injectable(r, more, i)
         IN  /\ n \in Process
             /\ n.bug = "none" => Sound(n, ToSet(ld))
             /\ Complete(r, more) => Complete(n, ld)
<1> DEFINE n == process_detach_injectable(r, more, i)
           F == {s \in Segs : Layout[s] = i}
           q == Release(r, F)
           o == injection_detach_single(q, more, i)
<1>1. n = IF i \in r.has THEN o ELSE r
  BY DEF process_detach_injectable, segment_detach_injectable
<1>2. /\ q \in Process /\ q.mapped = r.mapped /\ q.bound = r.bound \ F /\ q.has = r.has
  BY ReleaseShape
<1>3. Shrunk(q, o, i)
  <2> HIDE DEF q
  <2> QED BY <1>2, DetachShrinks
<1>4. r.bound \subseteq Segs /\ r.mapped \subseteq Segs
  BY DEF Process
<1>5. \A s \in Segs : Layout[s] \in Injectables /\ Layout[s] \notin Libs
  BY SegmentFile
<1>6. \A s \in Segs : Ready(ld, Layout[s]) => Ready(more, Layout[s]) /\ s \notin F
  <2> SUFFICES ASSUME NEW s \in Segs, Ready(ld, Layout[s])
               PROVE  Ready(more, Layout[s]) /\ s \notin F
    OBVIOUS
  <2>1. Layout[s] \in ToSet(ld) /\ ~Unresolved(ld, Layout[s])
    BY DEF Ready
  <2>2. ~Unresolved(more, Layout[s])
    BY <1>5, <2>1, ReadyGrows
  <2> QED BY <2>1, <2>2 DEF Ready
<1> HIDE DEF n, q, o
<1>7. CASE i \in r.has
  <2>1. /\ n \in Process /\ n.mapped = r.mapped /\ n.bound = r.bound \ F
        /\ n.has \subseteq r.has /\ r.has \ n.has \subseteq Libs \cup {i}
        /\ n.bug = "none" => i \notin n.has
    BY <1>1, <1>2, <1>3, <1>7 DEF Shrunk
  <2>2. n.bug = "none" => Sound(n, ToSet(ld))
    BY <1>4, <1>5, <2>1 DEF Sound
  <2>3. Complete(r, more) => Complete(n, ld)
    <3> HIDE DEF F
    <3> QED BY <1>4, <1>6, <2>1 DEF Complete
  <2> QED BY <2>1, <2>2, <2>3 DEF n
<1>8. CASE i \notin r.has
  <2>1. n = r
    BY <1>1, <1>8
  <2>2. Sound(r, ToSet(ld))
    BY <1>8 DEF Sound
  <2>3. Complete(r, more) => Complete(r, ld)
    <3> HIDE DEF F
    <3> QED BY <1>4, <1>6 DEF Complete
  <2> QED BY <2>1, <2>2, <2>3 DEF n
<1> QED BY <1>7, <1>8

\* INJU removes the injection everywhere before the injectable is freed.
LEMMA UnloadInv ==
  ASSUME Inv, NEW i \in Injectables, injectable_unload(i)
  PROVE  Inv'
<1> DEFINE R(p) == process_detach_injectable(proc[p], loaded, i)
<1>1. Alive /\ i # Adbi /\ UNCHANGED fails
  BY DEF injectable_unload
<1>2. PICK n \in DOMAIN loaded : loaded[n] = i /\ loaded' = RemoveAt(loaded, n)
  BY DEF injectable_unload
<1>3. proc' = [p \in Procs |-> IF p \in Traced THEN R(p) ELSE proc[p]]
  BY DEF injectable_unload
<1>4. /\ proc \in [Procs -> Process] /\ loaded \in Seq(Injectables) /\ IsInjective(loaded)
      /\ Adbi \in ToSet(loaded) /\ fails \in 0..MaxFails
  BY DEF Inv, TypeOK
<1>5. /\ loaded' \in Seq(Injectables) /\ IsInjective(loaded')
      /\ ToSet(loaded') = ToSet(loaded) \ {i}
  BY <1>2, <1>4, RemoveFact
<1>6. ASSUME NEW p \in Traced
      PROVE  /\ R(p) \in Process
             /\ R(p).bug = "none" => Sound(R(p), ToSet(loaded'))
             /\ fails = 0 => Complete(R(p), loaded')
  <2> DEFINE r == proc[p]
  <2>1. /\ r \in Process /\ Sound(r, ToSet(loaded))
        /\ fails = 0 => Complete(r, loaded)
    BY <1>1, InvOf
  <2> HIDE DEF r
  <2>2. LET m == process_detach_injectable(r, loaded, i)
        IN  /\ m \in Process
            /\ m.bug = "none" => Sound(m, ToSet(loaded'))
            /\ Complete(r, loaded) => Complete(m, loaded')
    BY <1>4, <1>5, <2>1, DetachInjectable
  <2> QED BY <2>1, <2>2 DEF r
<1> HIDE DEF R
<1>7. proc' \in [Procs -> Process]
  BY <1>3, <1>4, <1>6
<1>8. ASSUME NEW p \in Procs, proc'[p].st = "traced", proc'[p].bug = "none"
      PROVE  Sound(proc'[p], ToSet(loaded')) /\ (fails' = 0 => Complete(proc'[p], loaded'))
  <2>1. p \in Traced
    BY <1>3, <1>8 DEF Traced
  <2>2. proc'[p] = R(p)
    BY <1>3, <2>1
  <2> QED BY <1>1, <1>6, <1>8, <2>1, <2>2
<1>9. fails' \in 0..MaxFails /\ Adbi \in ToSet(loaded')
  BY <1>1, <1>4, <1>5
<1> QED BY <1>5, <1>7, <1>8, <1>9, AllKeep

\* At first only the base injectable is loaded and nothing is traced.
LEMMA InitInv ==
  Init => Inv
<1> SUFFICES ASSUME Init PROVE Inv
  OBVIOUS
<1>1. NoProcess \in Process /\ NoProcess.st = "none"
  BY DEF NoProcess, Process, Bugs
<1>2. loaded \in Seq(Injectables) /\ IsInjective(loaded) /\ Adbi \in ToSet(loaded)
  BY DEF Init, Injectables, IsInjective, ToSet
<1>3. proc = [p \in Procs |-> NoProcess] /\ fails = 0
  BY DEF Init
<1>4. TypeOK
  BY <1>1, <1>2, <1>3, MaxFailsAssumption DEF TypeOK
<1>5. Traced = {}
  BY <1>1, <1>3 DEF Traced
<1> QED BY <1>2, <1>4, <1>5 DEF Inv, NoDangling, SegmentsServed

\* Every step keeps Inv.
LEMMA NextInv ==
  Inv /\ [Next]_vars => Inv'
<1> SUFFICES ASSUME Inv, [Next]_vars PROVE Inv'
  OBVIOUS
<1>1. CASE UNCHANGED vars
  BY <1>1 DEF vars, Inv, TypeOK, NoDangling, SegmentsServed, Alive, Traced
<1>2. ASSUME NEW p \in Procs, process_attach(p) PROVE Inv'
  BY <1>2, AttachInv
<1>3. ASSUME NEW p \in Procs, thread_exec(p) PROVE Inv'
  BY <1>3, AttachInv
<1>4. ASSUME NEW p \in Procs, linker_notify(p) PROVE Inv'
  BY <1>4, NotifyInv
<1>5. ASSUME NEW p \in Procs, process_free(p) PROVE Inv'
  BY <1>5, FreeInv
<1>6. ASSUME NEW p \in Procs, process_detach(p) PROVE Inv'
  BY <1>6, DetachInv
<1>7. ASSUME NEW p \in Procs, NEW c \in Procs, process_forked(p, c) PROVE Inv'
  BY <1>7, ForkedInv
<1>8. ASSUME NEW i \in Injectables, injectable_load(i) PROVE Inv'
  BY <1>8, LoadInv
<1>9. ASSUME NEW i \in Injectables, injectable_unload(i) PROVE Inv'
  BY <1>9, UnloadInv
<1> QED BY <1>1, <1>2, <1>3, <1>4, <1>5, <1>6, <1>7, <1>8, <1>9 DEF Next

\* Every handler of injectable.c and injection.c keeps the state well formed:
\* references are numbers, no injectable is listed twice, and a recursion over
\* the imports always has a result.
THEOREM TypeCorrect == Spec => []TypeOK
<1>1. Inv => TypeOK
  BY DEF Inv
<1> QED BY <1>1, InitInv, NextInv, PTL DEF Spec

\* segment->injection and injection->injectable never point to what was
\* freed: through any order of loading, unloading, mapping, exec and fork,
\* with failing injections and libraries that import libraries.
THEOREM Pointers == Spec => []NoDangling
<1>1. Inv => NoDangling
  BY DEF Inv
<1> QED BY <1>1, InitInv, NextInv, PTL DEF Spec

\* In whatever order they come, a segment, its injectable and the libraries
\* it needs are brought together by the last of them, as long as no injection
\* failed: what failed is not tried again by segment_rescan.
THEOREM Service == Spec => [](fails = 0 => SegmentsServed)
<1>1. Inv => (fails = 0 => SegmentsServed)
  BY DEF Inv
<1> QED BY <1>1, InitInv, NextInv, PTL DEF Spec

------------------------------------------------------------------------------
(* Reference counts                                                         *)

\* Imports have depth one.
Shallow == \A l \in Libs : Imports[l] = {}

\* injection_fork gives the base injection of the child one reference, whoever
\* else imports it.
ForkCounts == "fork" \in Ops => \A i \in Injectables : Adbi \notin Imports[i]

------------------------------------------------------------------------------
(* Walks of depth one                                                      *)

\* Libraries and the base injectable depend on nothing.
LEMMA WalkNone ==
  ASSUME Shallow, NEW ld \in Seq(Injectables), NEW d \in Libs \cup {Adbi}
  PROVE  Walk(ld)[d] = <<>>
<1>1. d \in Injectables /\ Imports[d] = {}
  BY ImportsAssumption DEF Shallow, Injectables
<1> DEFINE w == Walk(ld)[d]
<1>2. w \in Seq(Injectables) /\ ToSet(w) = {}
  <2>1. w \in Seq(Injectables) /\ ToSet(w) = Reached(ld, d, Walk(ld))
    BY <1>1, WalkSet
  <2>2. Reached(ld, d, Walk(ld)) = {}
    BY <1>1 DEF Reached
  <2> QED BY <2>1, <2>2
<1> HIDE DEF w
<1>3. Len(w) \in Nat /\ DOMAIN w = 1..Len(w)
  BY <1>2
<1>4. DOMAIN w = {}
  BY <1>2 DEF ToSet
<1>5. Len(w) = 0
  BY <1>3, <1>4
<1>6. w = <<>>
  BY <1>2, <1>5
<1> QED BY <1>6 DEF w

\* The walk of an injectable lists each of its imports that is loaded, once.
LEMMA WalkFlat ==
  ASSUME Shallow, NEW ld \in Seq(Injectables), IsInjective(ld), NEW i \in Injectables
  PROVE  /\ Walk(ld)[i] \in Seq(Injectables) /\ IsInjective(Walk(ld)[i])
         /\ ToSet(Walk(ld)[i]) = Imports[i] \cap ToSet(ld)
<1> DEFINE n == Len(ld)
           walk == Walk(ld)
           Seen(k) == {ld[m] : m \in 1..k}
<1>1. walk \in [Injectables -> Seq(Injectables)] /\ walk[i] = Dependencies(ld, i, walk)
  BY WalkFact
<1>2. \A d \in Imports[i] : walk[d] = <<>>
  BY ImportsAssumption, WalkNone
<1> HIDE DEF walk
<1>3. PICK f \in [0..n -> Seq(Injectables)] :
         /\ f[0] = <<>>
         /\ \A k \in 1..n : f[k] = Path(f[k - 1], ld[k], i, walk)
         /\ Dependencies(ld, i, walk) = f[n]
  <2>1. \A d \in Imports[i] : walk[d] \in Seq(Injectables)
    BY <1>1, RankFact
  <2> QED BY <2>1, DependenciesRun
<1>4. n \in Nat /\ DOMAIN ld = 1..n /\ \A k \in 1..n : ld[k] \in Injectables
  OBVIOUS
<1> DEFINE S == {k \in 0..n : ToSet(f[k]) = Seen(k) \cap Imports[i] /\ IsInjective(f[k])}
<1> HIDE DEF n
<1>5. 0 \in S
  BY <1>3, <1>4 DEF ToSet, IsInjective
<1>6. ASSUME NEW k \in 1..n, k - 1 \in S PROVE k \in S
  <2>1. /\ f[k - 1] \in Seq(Injectables) /\ f[k] = Path(f[k - 1], ld[k], i, walk)
        /\ ToSet(f[k - 1]) = Seen(k - 1) \cap Imports[i] /\ IsInjective(f[k - 1])
    BY <1>3, <1>4, <1>6
  <2>2. Seen(k) = Seen(k - 1) \cup {ld[k]}
    <3>1. 1..k = 1..(k - 1) \cup {k}
      BY <1>4
    <3> QED BY <3>1, Zenon
  <2>3. ld[k] \notin Seen(k - 1)
    <3>1. ASSUME NEW m \in 1..(k - 1) PROVE ld[m] # ld[k]
      <4>1. m \in DOMAIN ld /\ k \in DOMAIN ld /\ m # k
        BY <1>4
      <4> QED BY <4>1 DEF IsInjective
    <3> QED BY <3>1
  <2> HIDE DEF Seen
  <2>4. CASE ld[k] \in Imports[i]
    <3>1. f[k] = Append(f[k - 1], ld[k])
      <4>1. f[k] = f[k - 1] \o <<>> \o <<ld[k]>>
        BY <1>2, <2>1, <2>4 DEF Path
      <4> QED BY <1>4, <2>1, <4>1
    <3>2. ld[k] \in Injectables \ ToSet(f[k - 1])
      BY <1>4, <2>1, <2>3
    <3>3. ToSet(f[k]) = ToSet(f[k - 1]) \cup {ld[k]} /\ IsInjective(f[k])
      BY <2>1, <3>1, <3>2, AppendFact
    <3> QED BY <1>4, <2>1, <2>2, <2>4, <3>3
  <2>5. CASE ld[k] \notin Imports[i]
    <3>1. f[k] = f[k - 1]
      BY <2>1, <2>5 DEF Path
    <3> QED BY <1>4, <2>1, <2>2, <2>5, <3>1
  <2> QED BY <2>4, <2>5
<1>7. n \in S
  <2> HIDE DEF S
  <2>1. \A k \in 0..n : k \in S
    BY <1>4, <1>5, <1>6, Upwards
  <2> QED BY <1>4, <2>1
<1>8. Seen(n) = ToSet(ld)
  BY <1>4 DEF ToSet
<1> HIDE DEF Seen
<1>9. walk[i] = f[n] /\ ToSet(f[n]) = ToSet(ld) \cap Imports[i] /\ IsInjective(f[n])
  BY <1>1, <1>3, <1>7, <1>8
<1> QED BY <1>1, <1>9 DEF walk

------------------------------------------------------------------------------
(* Counting                                                                *)

\* The segments of the process r that are bound to i
SegmentsOf(r, i) == {s \in r.bound : Layout[s] = i}

\* The injections of the process r that import i
UsersOf(r, i) == {j \in r.has \cap Bindings : i \in Imports[j]}

\* How often the injection of i is needed
Count(r, i) ==
    Cardinality(SegmentsOf(r, i)) + Cardinality(UsersOf(r, i)) + (IF i = Adbi THEN 1 ELSE 0)

\* Both are finite.
LEMMA CountFinite ==
  ASSUME NEW r \in Process, NEW i
  PROVE  /\ IsFiniteSet(SegmentsOf(r, i)) /\ IsFiniteSet(UsersOf(r, i))
         /\ Cardinality(SegmentsOf(r, i)) \in Nat /\ Cardinality(UsersOf(r, i)) \in Nat
         /\ Count(r, i) \in Nat
<1>1. IsFiniteSet(Segs)
  <2>1. Segs = 1..Len(Layout) /\ Len(Layout) \in Nat
    BY HeapAssumption DEF Segs
  <2> QED BY <2>1, FS_Interval
<1>2. SegmentsOf(r, i) \in SUBSET Segs /\ UsersOf(r, i) \in SUBSET Injectables
  BY DEF SegmentsOf, UsersOf, Process
<1>3. IsFiniteSet(SegmentsOf(r, i)) /\ IsFiniteSet(UsersOf(r, i))
  BY <1>1, <1>2, AcyclicAssumption, FS_Subset
<1>4. Cardinality(SegmentsOf(r, i)) \in Nat /\ Cardinality(UsersOf(r, i)) \in Nat
  BY <1>3, FS_CardinalityType
<1> QED BY <1>3, <1>4 DEF Count

\* A list without repetitions lists i once or not at all.
LEMMA OccursOnce ==
  ASSUME NEW w \in Seq(Injectables), IsInjective(w), NEW i
  PROVE  Occurrences(i, w) = IF i \in ToSet(w) THEN 1 ELSE 0
<1> DEFINE O == {n \in DOMAIN w : w[n] = i}
<1>1. CASE i \in ToSet(w)
  <2>1. PICK n \in DOMAIN w : w[n] = i
    BY <1>1 DEF ToSet
  <2>2. O = {n}
    BY <2>1 DEF IsInjective
  <2>3. Cardinality(O) = 1
    BY <2>2, FS_Singleton
  <2> QED BY <1>1, <2>3 DEF Occurrences
<1>2. CASE i \notin ToSet(w)
  <2>1. O = {}
    BY <1>2 DEF ToSet
  <2>2. Cardinality(O) = 0
    BY <2>1, FS_EmptySet
  <2> QED BY <1>2, <2>2 DEF Occurrences
<1> QED BY <1>1, <1>2

\* The paths from the injectables of S to i
Paths(ld, i, S) ==
    LET paths(j) == Occurrences(i, Walk(ld)[j])
    IN  MapThenSumSet(paths, S)

\* Where imports have depth one there is one path from each user.
LEMMA PathsFlat ==
  ASSUME Shallow, NEW ld \in Seq(Injectables), IsInjective(ld), NEW i,
         NEW S \in SUBSET Injectables
  PROVE  Paths(ld, i, S) = Cardinality({j \in S : i \in Imports[j] \cap ToSet(ld)})
<1> DEFINE P(s) == {j \in s : i \in Imports[j] \cap ToSet(ld)}
           g == [s \in SUBSET S |-> Cardinality(P(s))]
           Q(h) == h = [s \in SUBSET S |->
                           IF s = {} THEN 0
                           ELSE LET x == CHOOSE y \in s : TRUE
                                IN  Occurrences(i, Walk(ld)[x]) + h[s \ {x}]]
           H == CHOOSE h : Q(h)
<1>1. Paths(ld, i, S) = H[S]
  BY DEF Paths, MapThenSumSet, MapThenFoldSet
<1>2. \A j \in S : Occurrences(i, Walk(ld)[j]) = IF i \in Imports[j] \cap ToSet(ld) THEN 1 ELSE 0
  BY WalkFlat, OccursOnce
<1>3. IsFiniteSet(S) /\ Cardinality(S) \in Nat
  BY AcyclicAssumption, FS_Subset, FS_CardinalityType
<1>4. \A s \in SUBSET S : /\ IsFiniteSet(s) /\ Cardinality(s) \in Nat
                          /\ IsFiniteSet(P(s)) /\ Cardinality(P(s)) \in Nat
  <2> SUFFICES ASSUME NEW s \in SUBSET S
               PROVE  /\ IsFiniteSet(s) /\ Cardinality(s) \in Nat
                      /\ IsFiniteSet(P(s)) /\ Cardinality(P(s)) \in Nat
    OBVIOUS
  <2>1. P(s) \in SUBSET s
    OBVIOUS
  <2> HIDE DEF P
  <2>2. IsFiniteSet(s)
    BY <1>3, FS_Subset
  <2>3. IsFiniteSet(P(s))
    BY <2>1, <2>2, FS_Subset
  <2> QED BY <2>2, <2>3, FS_CardinalityType
<1>5. ASSUME NEW s \in SUBSET S, NEW x \in s
      PROVE  g[s] = Occurrences(i, Walk(ld)[x]) + g[s \ {x}]
  <2>1. P(s \ {x}) = P(s) \ {x} /\ (x \in P(s) <=> i \in Imports[x] \cap ToSet(ld))
    OBVIOUS
  <2>2. g[s] = Cardinality(P(s)) /\ g[s \ {x}] = Cardinality(P(s \ {x}))
    OBVIOUS
  <2> HIDE DEF P, g
  <2>3. Cardinality(P(s) \ {x}) = IF x \in P(s) THEN Cardinality(P(s)) - 1 ELSE Cardinality(P(s))
    BY <1>4, FS_RemoveElement
  <2>4. Cardinality(P(s)) \in Nat
    BY <1>4
  <2>5. Occurrences(i, Walk(ld)[x]) = IF x \in P(s) THEN 1 ELSE 0
    BY <1>2, <2>1
  <2>6. g[s \ {x}] = Cardinality(P(s) \ {x})
    BY <2>1, <2>2, Zenon
  <2> DEFINE c == Cardinality(P(s))
             e == Cardinality(P(s) \ {x})
             o == Occurrences(i, Walk(ld)[x])
  <2>7. c \in Nat /\ (e = IF x \in P(s) THEN c - 1 ELSE c) /\ (o = IF x \in P(s) THEN 1 ELSE 0)
    BY <2>3, <2>4, <2>5
  <2> HIDE DEF c, e, o
  <2>8. c = o + e
    BY <2>7
  <2> QED BY <2>2, <2>6, <2>8, Zenon DEF c, e, o
<1>6. g[{}] = 0
  <2>1. P({}) = {}
    OBVIOUS
  <2>2. g[{}] = Cardinality(P({}))
    OBVIOUS
  <2> QED BY <2>1, <2>2, FS_EmptySet
<1>7. Q(g)
  <2>1. ASSUME NEW s \in SUBSET S, s # {}
        PROVE  g[s] = LET x == CHOOSE y \in s : TRUE
                      IN  Occurrences(i, Walk(ld)[x]) + g[s \ {x}]
    <3> DEFINE x == CHOOSE y \in s : TRUE
    <3>1. x \in s
      BY <2>1
    <3> HIDE DEF x, g
    <3>2. g[s] = Occurrences(i, Walk(ld)[x]) + g[s \ {x}]
      BY <1>5, <3>1
    <3> QED BY <3>2 DEF x
  <2>2. g = [s \in SUBSET S |-> g[s]]
    OBVIOUS
  <2> HIDE DEF g
  <2> QED BY <1>6, <2>1, <2>2, Zenon
<1>8. Q(H)
  <2> HIDE DEF g
  <2> QED BY <1>7
<1> HIDE DEF H, P
<1> DEFINE C(s) == Cardinality(s)
           Same(s) == H[s] = g[s]
           size == C(S)
           A == {n \in 0..size : \A s \in SUBSET S : C(s) = n => Same(s)}
<1>9. size \in Nat /\ \A s \in SUBSET S : C(s) \in Nat /\ (C(s) = 0 <=> s = {})
  BY <1>3, <1>4, FS_EmptySet
<1>10. Same({})
  BY <1>6, <1>8
<1>11. ASSUME NEW s \in SUBSET S, s # {}
       PROVE  \E x \in s : C(s \ {x}) = C(s) - 1 /\ (Same(s \ {x}) => Same(s))
  <2> DEFINE x == CHOOSE y \in s : TRUE
  <2>1. x \in s /\ H[s] = Occurrences(i, Walk(ld)[x]) + H[s \ {x}]
    BY <1>8, <1>11
  <2> HIDE DEF x, g
  <2>2. C(s \ {x}) = C(s) - 1
    BY <1>4, <2>1, FS_RemoveElement
  <2>3. g[s] = Occurrences(i, Walk(ld)[x]) + g[s \ {x}]
    BY <1>5, <2>1
  <2>4. Same(s \ {x}) => Same(s)
    BY <2>1, <2>3
  <2> HIDE DEF C, Same
  <2> QED BY <2>1, <2>2, <2>4
<1>12. Same(S)
  <2> HIDE DEF C, Same, size
  <2>1. 0 \in A
    <3>1. \A s \in SUBSET S : C(s) = 0 => Same(s)
      BY <1>9, <1>10, Zenon
    <3> QED BY <1>9, <3>1
  <2>2. ASSUME NEW n \in 1..size, n - 1 \in A PROVE n \in A
    <3> SUFFICES ASSUME NEW s \in SUBSET S, C(s) = n PROVE Same(s)
      BY <1>9
    <3>1. PICK x \in s : C(s \ {x}) = C(s) - 1 /\ (Same(s \ {x}) => Same(s))
      BY <1>9, <1>11
    <3> QED BY <2>2, <3>1
  <2>3. size \in A
    <3> HIDE DEF A
    <3>1. \A m \in 0..size : m \in A
      BY <1>9, <2>1, <2>2, Upwards
    <3> QED BY <1>9, <3>1
  <2> QED BY <2>3 DEF size
<1>13. g[S] = Cardinality(P(S))
  OBVIOUS
<1> HIDE DEF g
<1> QED BY <1>1, <1>12, <1>13 DEF P

------------------------------------------------------------------------------
(* What holds of every process                                             *)

\* What an injection or a segment points to is there.
Kept(r) ==
    /\ \A s \in r.bound : Layout[s] \in r.has
    /\ \A j \in r.has \cap Bindings : Imports[j] \subseteq r.has

\* Counts are never too low; if exact, they are never too high.
Counted(r, exact) ==
    \A i \in r.has : /\ r.refs[i] >= Count(r, i)
                     /\ exact => r.refs[i] = Count(r, i)

\* The base injection is there, and every library is there for somebody.
Used(r) == Adbi \in r.has /\ \A l \in r.has \cap Libs : UsersOf(r, l) # {}

Tally(r, exact) == Kept(r) /\ Counted(r, exact) /\ (exact => Used(r))

\* Tally where counts are exact
Exact(r) == Kept(r) /\ Used(r) /\ \A i \in r.has : r.refs[i] = Count(r, i)

\* Exact is what Tally says if nothing failed.
LEMMA ExactTally ==
  ASSUME NEW r \in Process, NEW exact \in BOOLEAN, exact
  PROVE  Tally(r, exact) <=> Exact(r)
<1>1. \A i : Count(r, i) \in Nat
  BY CountFinite
<1> QED BY <1>1 DEF Tally, Counted, Exact

\* Count is what RefsExact says an injection is needed for.
LEMMA NeededIsCount ==
  ASSUME Shallow, TypeOK, NEW r \in Process, Kept(r), r.has \subseteq ToSet(loaded), NEW i
  PROVE  Needed(r, i) = Count(r, i)
<1> DEFINE B == r.has \cap Bindings
<1>1. Needed(r, i) = Cardinality(SegmentsOf(r, i)) + Paths(loaded, i, B)
                        + (IF i = Adbi THEN 1 ELSE 0)
  BY DEF Needed, SegmentsOf, Paths
<1>2. loaded \in Seq(Injectables) /\ IsInjective(loaded) /\ B \in SUBSET Injectables
  BY DEF TypeOK, Process
<1>3. {j \in B : i \in Imports[j] \cap ToSet(loaded)} = UsersOf(r, i)
  BY DEF UsersOf, Kept
<1> HIDE DEF B
<1>4. Paths(loaded, i, B) = Cardinality({j \in B : i \in Imports[j] \cap ToSet(loaded)})
  BY <1>2, PathsFlat
<1>5. Paths(loaded, i, B) = Cardinality(UsersOf(r, i))
  BY <1>3, <1>4, Zenon
<1> QED BY <1>1, <1>5 DEF Count

\* Nobody needs an injection that is not there.
LEMMA Absent ==
  ASSUME NEW r \in Process, Kept(r), NEW i, i \notin r.has
  PROVE  /\ SegmentsOf(r, i) = {} /\ UsersOf(r, i) = {}
         /\ Count(r, i) = IF i = Adbi THEN 1 ELSE 0
<1>1. SegmentsOf(r, i) = {} /\ UsersOf(r, i) = {}
  BY DEF Kept, SegmentsOf, UsersOf
<1>2. Cardinality(SegmentsOf(r, i)) = 0 /\ Cardinality(UsersOf(r, i)) = 0
  BY <1>1, FS_EmptySet
<1> QED BY <1>1, <1>2 DEF Count

------------------------------------------------------------------------------
(* Injecting                                                               *)

\* n is r after inject_dependency for each of the libraries W.
Supplied(r, n, W) ==
    /\ n \in Process /\ n.bug = "none"
    /\ n.bound = r.bound /\ n.has = r.has \cup W
    /\ \A k \in W \ r.has : k # Adbi
    /\ \A k \in n.has : n.refs[k] = (IF k \in r.has THEN r.refs[k] ELSE 0)
                                       + (IF k \in W THEN 1 ELSE 0)

\* inject_dependency counts one use.
LEMMA SupplyOne ==
  ASSUME NEW r \in Process, NEW d \in Injectables, NEW fail,
         inject_dependency(r, d, fail).bug = "none"
  PROVE  Supplied(r, inject_dependency(r, d, fail), {d})
<1> DEFINE m == IF d \in r.has THEN r ELSE inject(r, d, fail)
           n == inject_dependency(r, d, fail)
           o == [m EXCEPT !.refs[d] = @ + 1]
<1>1. n = IF m.bug # "none" THEN m
          ELSE IF d \notin m.has THEN Abort(m, "null")
          ELSE o
  BY DEF inject_dependency
<1>2. n \in Process /\ n.bound = r.bound
  BY DependencyGrows DEF Grown
<1>3. m \in Process
  BY InjectGrows DEF Grown
<1>4. m.bug = "none" /\ d \in m.has => /\ m.has = r.has \cup {d}
                                       /\ d \notin r.has => d # Adbi
                                       /\ \A k \in Injectables : m.refs[k] =
                                             IF k = d /\ d \notin r.has THEN 0 ELSE r.refs[k]
  <2>1. CASE d \in r.has
    BY <2>1
  <2>2. CASE d \notin r.has /\ Adbi \notin r.has
    <3>1. m.bug = "no_adbi"
      BY <2>2 DEF inject, Abort, Process
    <3> QED BY <3>1
  <2>3. CASE d \notin r.has /\ Adbi \in r.has /\ d \in fail
    BY <2>3 DEF inject
  <2>4. CASE d \notin r.has /\ Adbi \in r.has /\ d \notin fail
    <3> DEFINE c == [r.refs EXCEPT ![d] = 0]
    <3>1. m = [r EXCEPT !.has = @ \cup {d}, !.refs = c]
      BY <2>4 DEF inject
    <3>2. \A k \in Injectables : c[k] = IF k = d THEN 0 ELSE r.refs[k]
      BY DEF Process
    <3> HIDE DEF c
    <3>3. m.has = r.has \cup {d} /\ m.refs = c
      BY <3>1 DEF Process
    <3> QED BY <2>4, <3>2, <3>3
  <2> QED BY <2>1, <2>2, <2>3, <2>4
<1> HIDE DEF m
<1>5. m.bug = "none" /\ d \in m.has
  <2>1. Abort(m, "null").bug = "null"
    BY <1>3 DEF Abort, Process
  <2> QED BY <1>1, <2>1
<1>6. n = o
  BY <1>1, <1>5
<1>7. o.has = m.has /\ \A k \in Injectables : o.refs[k] = m.refs[k] + (IF k = d THEN 1 ELSE 0)
  <2> DEFINE c == [m.refs EXCEPT ![d] = @ + 1]
  <2>1. o = [m EXCEPT !.refs = c]
    OBVIOUS
  <2>2. \A k \in Injectables : m.refs[k] \in Int /\ c[k] = m.refs[k] + (IF k = d THEN 1 ELSE 0)
    BY <1>3 DEF Process
  <2> HIDE DEF c
  <2>3. o.has = m.has /\ o.refs = c
    BY <1>3, <2>1 DEF Process
  <2> QED BY <2>2, <2>3
<1> HIDE DEF n, o
<1>8. \A k \in n.has : k \in Injectables
  BY <1>2 DEF Process
<1>9. \A k \in n.has : n.refs[k] = (IF k \in r.has THEN r.refs[k] ELSE 0) + (IF k \in {d} THEN 1 ELSE 0)
  <2> SUFFICES ASSUME NEW k \in n.has
               PROVE  n.refs[k] = (IF k \in r.has THEN r.refs[k] ELSE 0)
                                     + (IF k \in {d} THEN 1 ELSE 0)
    OBVIOUS
  <2>1. k \in Injectables /\ (k \in r.has \/ k = d)
    BY <1>4, <1>5, <1>6, <1>7, <1>8
  <2>2. n.refs[k] = m.refs[k] + (IF k = d THEN 1 ELSE 0)
    BY <1>6, <1>7, <2>1
  <2>3. m.refs[k] = IF k = d /\ d \notin r.has THEN 0 ELSE r.refs[k]
    BY <1>4, <1>5, <2>1
  <2> QED BY <2>1, <2>2, <2>3
<1>10. n.has = r.has \cup {d} /\ \A k \in {d} \ r.has : k # Adbi
  BY <1>4, <1>5, <1>6, <1>7
<1>11. n.bug = "none"
  BY DEF n
<1> QED BY <1>2, <1>9, <1>10, <1>11 DEF Supplied, n

\* One library more
LEMMA SupplyMore ==
  ASSUME NEW r \in Process, NEW a, NEW b, NEW W \in SUBSET Injectables,
         NEW d \in Injectables \ W, Supplied(r, a, W), Supplied(a, b, {d})
  PROVE  Supplied(r, b, W \cup {d})
<1>1. /\ a.has = r.has \cup W /\ b.has = a.has \cup {d}
      /\ \A k \in W \ r.has : k # Adbi
      /\ \A k \in {d} \ a.has : k # Adbi
  BY DEF Supplied
<1>2. \A k \in b.has : b.refs[k] = (IF k \in r.has THEN r.refs[k] ELSE 0)
                                       + (IF k \in W \cup {d} THEN 1 ELSE 0)
  <2> SUFFICES ASSUME NEW k \in b.has
               PROVE  b.refs[k] = (IF k \in r.has THEN r.refs[k] ELSE 0)
                                     + (IF k \in W \cup {d} THEN 1 ELSE 0)
    OBVIOUS
  <2>1. b.refs[k] = (IF k \in a.has THEN a.refs[k] ELSE 0) + (IF k \in {d} THEN 1 ELSE 0)
    BY DEF Supplied
  <2>2. k \in a.has => a.refs[k] = (IF k \in r.has THEN r.refs[k] ELSE 0)
                                      + (IF k \in W THEN 1 ELSE 0)
    BY DEF Supplied
  <2>3. k \in r.has => r.refs[k] \in Int
    BY DEF Process
  <2> QED BY <1>1, <2>1, <2>2, <2>3
<1> QED BY <1>1, <1>2 DEF Supplied

\* inject_dependencies counts one use of each library of the list.
LEMMA SupplyAll ==
  ASSUME NEW r \in Process, NEW w \in Seq(Injectables), IsInjective(w), NEW fail,
         InjectAll(r, w, fail).bug = "none"
  PROVE  Supplied(r, InjectAll(r, w, fail), ToSet(w))
<1> DEFINE n == Len(w)
           Seen(k) == {w[m] : m \in 1..k}
<1>0. PICK f : Injects(f, r, w, fail)
  BY InjectRun
<1>1. /\ f \in [0..n -> Process] /\ f[0] = r /\ InjectAll(r, w, fail) = f[n]
      /\ \A k \in 1..n : f[k] = Inject(f[k - 1], w[k], fail)
  BY <1>0 DEF Injects
<1>2. n \in Nat /\ DOMAIN w = 1..n /\ \A k \in 1..n : w[k] \in Injectables
  OBVIOUS
<1> DEFINE S == {k \in 0..n : f[k].bug = "none" => Supplied(r, f[k], Seen(k))}
<1> HIDE DEF n
<1>3. 0 \in S
  <2>1. Seen(0) = {}
    OBVIOUS
  <2>2. \A k \in r.has : r.refs[k] \in Int
    BY DEF Process
  <2>3. r.bug = "none" => Supplied(r, r, {})
    BY <2>2 DEF Supplied
  <2> HIDE DEF Seen
  <2>4. f[0].bug = "none" => Supplied(r, f[0], Seen(0))
    BY <1>1, <2>1, <2>3, Zenon
  <2> QED BY <1>2, <2>4
<1>4. ASSUME NEW k \in 1..n, k - 1 \in S PROVE k \in S
  <2> SUFFICES ASSUME f[k].bug = "none" PROVE Supplied(r, f[k], Seen(k))
    BY <1>2
  <2>1. f[k - 1] \in Process /\ f[k] = Inject(f[k - 1], w[k], fail) /\ w[k] \in Injectables
    BY <1>1, <1>2
  <2>2. f[k - 1].bug = "none" /\ f[k] = inject_dependency(f[k - 1], w[k], fail)
    BY <2>1 DEF Inject
  <2>3. Supplied(r, f[k - 1], Seen(k - 1))
    BY <1>4, <2>2
  <2>4. Supplied(f[k - 1], f[k], {w[k]})
    BY <2>1, <2>2, SupplyOne
  <2>5. Seen(k) = Seen(k - 1) \cup {w[k]}
    <3>1. 1..k = 1..(k - 1) \cup {k}
      BY <1>2
    <3> QED BY <3>1, Zenon
  <2>6. w[k] \notin Seen(k - 1)
    <3>1. ASSUME NEW m \in 1..(k - 1) PROVE w[m] # w[k]
      <4>1. m \in DOMAIN w /\ k \in DOMAIN w /\ m # k
        BY <1>2
      <4> QED BY <4>1 DEF IsInjective
    <3> QED BY <3>1
  <2>7. Seen(k - 1) \in SUBSET Injectables
    BY <1>2
  <2> HIDE DEF Seen
  <2> QED BY <2>1, <2>3, <2>4, <2>5, <2>6, <2>7, SupplyMore
<1>5. n \in S
  <2> HIDE DEF S
  <2>1. \A k \in 0..n : k \in S
    BY <1>2, <1>3, <1>4, Upwards
  <2> QED BY <1>2, <2>1
<1>6. Seen(n) = ToSet(w)
  BY <1>2 DEF ToSet
<1> HIDE DEF Seen
<1> QED BY <1>1, <1>5, <1>6

\* A segment that is bound to an injection is counted.
LEMMA TallyBind ==
  ASSUME NEW r \in Process, NEW exact \in BOOLEAN, Tally(r, exact),
         NEW s \in Segs \ r.bound, Layout[s] \in r.has
  PROVE  Tally([r EXCEPT !.bound = @ \cup {s}, !.refs[Layout[s]] = @ + 1], exact)
<1> DEFINE i == Layout[s]
           c == [r.refs EXCEPT ![i] = @ + 1]
           n == [r EXCEPT !.bound = @ \cup {s}, !.refs = c]
<1>1. n = [r EXCEPT !.bound = @ \cup {s}, !.refs[Layout[s]] = @ + 1]
  OBVIOUS
<1>2. \A k \in Injectables : r.refs[k] \in Int /\ c[k] = r.refs[k] + (IF k = i THEN 1 ELSE 0)
  BY DEF Process
<1> HIDE DEF c
<1>3. n.bound = r.bound \cup {s} /\ n.has = r.has /\ n.refs = c /\ r.has \subseteq Injectables
  BY DEF Process
<1> HIDE DEF n
<1>4. ASSUME NEW k PROVE Count(n, k) = Count(r, k) + (IF k = i THEN 1 ELSE 0)
  <2>1. UsersOf(n, k) = UsersOf(r, k)
    BY <1>3 DEF UsersOf
  <2>2. SegmentsOf(n, k) = IF k = i THEN SegmentsOf(r, k) \cup {s} ELSE SegmentsOf(r, k)
    BY <1>3 DEF SegmentsOf
  <2>3. s \notin SegmentsOf(r, k) /\ IsFiniteSet(SegmentsOf(r, k))
    BY CountFinite DEF SegmentsOf
  <2>4. Cardinality(SegmentsOf(r, k) \cup {s}) = Cardinality(SegmentsOf(r, k)) + 1
    BY <2>3, FS_AddElement
  <2>5. Cardinality(SegmentsOf(n, k)) = Cardinality(SegmentsOf(r, k)) + (IF k = i THEN 1 ELSE 0)
    <3>1. CASE k = i
      BY <2>2, <2>4, <3>1
    <3>2. CASE k # i
      BY <2>2, <3>2, CountFinite
    <3> QED BY <3>1, <3>2
  <2>6. Cardinality(SegmentsOf(r, k)) \in Nat /\ Cardinality(UsersOf(r, k)) \in Nat
    BY CountFinite
  <2> QED BY <2>1, <2>5, <2>6 DEF Count
<1>5. Counted(n, exact)
  <2> SUFFICES ASSUME NEW k \in r.has
               PROVE  n.refs[k] >= Count(n, k) /\ (exact => n.refs[k] = Count(n, k))
    BY <1>3 DEF Counted
  <2>1. r.refs[k] >= Count(r, k) /\ (exact => r.refs[k] = Count(r, k))
    BY DEF Tally, Counted
  <2>2. Count(r, k) \in Nat
    BY CountFinite
  <2> QED BY <1>2, <1>3, <1>4, <2>1, <2>2
<1>6. Kept(n)
  BY <1>3 DEF Kept, Tally
<1>7. exact => Used(n)
  <2>1. \A k : UsersOf(n, k) = UsersOf(r, k)
    BY <1>3 DEF UsersOf
  <2> QED BY <1>3, <2>1 DEF Tally, Used
<1> QED BY <1>1, <1>5, <1>6, <1>7 DEF Tally

\* Libraries are counted too often if the injection they were injected for
\* fails.
LEMMA TallySupply ==
  ASSUME NEW r \in Process, Tally(r, FALSE), NEW W \in SUBSET (Libs \cup {Adbi}),
         NEW n, Supplied(r, n, W)
  PROVE  Tally(n, FALSE)
<1>1. n.bound = r.bound /\ n.has = r.has \cup W
  BY DEF Supplied
<1>2. n.has \cap Bindings = r.has \cap Bindings
  BY <1>1, KindsAssumption
<1>3. Kept(n)
  BY <1>1, <1>2 DEF Tally, Kept
<1>4. \A k : Count(n, k) = Count(r, k)
  BY <1>1, <1>2 DEF Count, UsersOf, SegmentsOf
<1>5. ASSUME NEW k \in n.has PROVE n.refs[k] >= Count(r, k)
  <2>1. n.refs[k] = (IF k \in r.has THEN r.refs[k] ELSE 0) + (IF k \in W THEN 1 ELSE 0)
    BY DEF Supplied
  <2>2. k \in r.has => r.refs[k] >= Count(r, k) /\ r.refs[k] \in Int
    BY DEF Tally, Counted, Process
  <2>3. Count(r, k) \in Nat
    BY CountFinite
  <2>4. k \notin r.has => k \in W /\ k # Adbi
    BY <1>1 DEF Supplied
  <2>5. k \notin r.has => Count(r, k) = 0
    BY <2>4, Absent DEF Tally
  <2> QED BY <2>1, <2>2, <2>3, <2>4, <2>5
<1>6. Counted(n, FALSE)
  BY <1>4, <1>5 DEF Counted
<1> QED BY <1>3, <1>6 DEF Tally

\* The new injection is a user of its libraries.
LEMMA TallyInject ==
  ASSUME NEW r \in Process, NEW exact \in BOOLEAN, Tally(r, exact),
         NEW i \in Bindings \ r.has, NEW d, Supplied(r, d, Imports[i]), Adbi \in d.has
  PROVE  Tally([d EXCEPT !.has = @ \cup {i}, !.refs[i] = 0], exact)
<1> DEFINE W == Imports[i]
           c == [d.refs EXCEPT ![i] = 0]
           n == [d EXCEPT !.has = @ \cup {i}, !.refs = c]
<1>0. i \in Injectables /\ W \subseteq Libs \cup {Adbi} /\ i \notin Libs \cup {Adbi}
  BY ImportsAssumption, KindsAssumption DEF Injectables
<1>1. n = [d EXCEPT !.has = @ \cup {i}, !.refs[i] = 0]
  OBVIOUS
<1>2. /\ d \in Process /\ d.bound = r.bound /\ d.has = r.has \cup W
      /\ \A k \in W \ r.has : k # Adbi
  BY DEF Supplied
<1>3. \A k \in Injectables : c[k] = IF k = i THEN 0 ELSE d.refs[k]
  BY <1>2 DEF Process
<1> HIDE DEF c
<1>4. n.bound = r.bound /\ n.has = r.has \cup W \cup {i} /\ n.refs = c
  BY <1>2 DEF Process
<1> HIDE DEF n
<1>5. n.has \cap Bindings = (r.has \cap Bindings) \cup {i}
  BY <1>0, <1>4, KindsAssumption
<1>6. \A k : UsersOf(n, k) = IF k \in W THEN UsersOf(r, k) \cup {i} ELSE UsersOf(r, k)
  BY <1>5 DEF UsersOf
<1> HIDE DEF W
<1>7. ASSUME NEW k PROVE Count(n, k) = Count(r, k) + (IF k \in W THEN 1 ELSE 0)
  <2>1. SegmentsOf(n, k) = SegmentsOf(r, k)
    BY <1>4 DEF SegmentsOf
  <2>2. i \notin UsersOf(r, k) /\ IsFiniteSet(UsersOf(r, k))
    BY CountFinite DEF UsersOf
  <2>3. Cardinality(UsersOf(r, k) \cup {i}) = Cardinality(UsersOf(r, k)) + 1
    BY <2>2, FS_AddElement
  <2>4. Cardinality(UsersOf(n, k)) = Cardinality(UsersOf(r, k)) + (IF k \in W THEN 1 ELSE 0)
    <3>1. CASE k \in W
      BY <1>6, <2>3, <3>1
    <3>2. CASE k \notin W
      BY <1>6, <3>2, CountFinite
    <3> QED BY <3>1, <3>2
  <2>5. Cardinality(SegmentsOf(r, k)) \in Nat /\ Cardinality(UsersOf(r, k)) \in Nat
    BY CountFinite
  <2> QED BY <2>1, <2>4, <2>5 DEF Count
<1>8. Counted(n, exact)
  <2> SUFFICES ASSUME NEW k \in n.has
               PROVE  n.refs[k] >= Count(n, k) /\ (exact => n.refs[k] = Count(n, k))
    BY DEF Counted
  <2>1. Count(r, k) \in Nat /\ k \in Injectables
    BY <1>0, <1>2, <1>4, CountFinite DEF Process
  <2>2. CASE k = i
    <3>1. Count(r, k) = 0
      BY <1>0, <2>2, Absent DEF Tally
    <3>2. Count(n, k) = 0
      BY <1>0, <1>7, <2>2, <3>1
    <3>3. n.refs[k] = 0
      BY <1>3, <1>4, <2>1, <2>2
    <3> QED BY <3>2, <3>3
  <2>3. CASE k # i
    <3>1. k \in d.has /\ n.refs[k] = d.refs[k]
      BY <1>2, <1>3, <1>4, <2>1, <2>3
    <3>2. d.refs[k] = (IF k \in r.has THEN r.refs[k] ELSE 0) + (IF k \in W THEN 1 ELSE 0)
      BY <3>1 DEF Supplied, W
    <3>3. k \in r.has => /\ r.refs[k] \in Int /\ r.refs[k] >= Count(r, k)
                         /\ exact => r.refs[k] = Count(r, k)
      BY DEF Tally, Counted, Process
    <3>4. k \notin r.has => k \in W /\ k # Adbi
      BY <1>2, <3>1
    <3>5. k \notin r.has => Count(r, k) = 0
      BY <3>4, Absent DEF Tally
    <3> QED BY <1>7, <2>1, <3>1, <3>2, <3>3, <3>4, <3>5
  <2> QED BY <2>2, <2>3
<1>9. Kept(n)
  BY <1>4, <1>5 DEF Tally, Kept, W
<1>10. exact => Used(n)
  <2> SUFFICES ASSUME exact PROVE Used(n)
    OBVIOUS
  <2>1. Adbi \in n.has
    BY <1>2, <1>4
  <2>2. ASSUME NEW l \in n.has \cap Libs PROVE UsersOf(n, l) # {}
    <3>1. CASE l \in W
      BY <1>6, <3>1
    <3>2. CASE l \notin W
      <4>1. l \in r.has
        BY <1>0, <1>4, <3>2
      <4>2. UsersOf(r, l) # {}
        BY <4>1 DEF Tally, Used
      <4> QED BY <1>6, <3>2, <4>2
    <3> QED BY <3>1, <3>2
  <2> QED BY <2>1, <2>2 DEF Used
<1> QED BY <1>1, <1>8, <1>9, <1>10 DEF Tally

\* injections_init keeps the counts right, and exact where nothing fails.
LEMMA InitTally ==
  ASSUME Shallow, NEW r \in Process, NEW exact \in BOOLEAN, Tally(r, exact),
         NEW ld \in Seq(Injectables), IsInjective(ld), NEW s \in Segs,
         NEW fail, exact => fail = {}, injections_init(r, ld, s, fail).bug = "none"
  PROVE  Tally(injections_init(r, ld, s, fail), exact)
<1> DEFINE i == Layout[s]
           w == Walk(ld)[i]
           d == inject_dependencies(r, ld, i, fail)
           j == inject(d, i, fail)
           n == IF i \in r.has \/ Unresolved(ld, i) THEN r
                ELSE IF d.bug # "none" THEN d
                ELSE j
           m == injections_init(r, ld, s, fail)
           Bound(q) == [q EXCEPT !.bound = @ \cup {s}, !.refs[i] = @ + 1]
<1>0. i \in Injectables /\ i \in Bindings /\ i \notin Libs \cup {Adbi}
  BY SegmentFile
<1>1. m = IF r.bug # "none" \/ s \in r.bound \/ i \notin ToSet(ld) THEN r
          ELSE IF n.bug # "none" \/ i \notin n.has THEN n
          ELSE Bound(n)
  BY DEF injections_init
<1>2. CASE r.bug # "none" \/ s \in r.bound \/ i \notin ToSet(ld)
  <2>1. m = r
    BY <1>1, <1>2
  <2> QED BY <2>1
<1>3. CASE s \notin r.bound /\ i \in r.has /\ m = Bound(n)
  <2>1. m = Bound(r)
    BY <1>3
  <2>2. Tally(Bound(r), exact)
    BY <1>3, TallyBind
  <2> HIDE DEF Bound, n
  <2> QED BY <2>1, <2>2
<1>4. CASE i \notin r.has /\ Unresolved(ld, i)
  <2>1. n = r
    BY <1>4
  <2>2. m = r
    BY <1>1, <1>4, <2>1
  <2> QED BY <2>2
<1>5. CASE /\ r.bug = "none" /\ s \notin r.bound /\ i \in ToSet(ld)
           /\ i \notin r.has /\ ~Unresolved(ld, i)
  <2>1. n = IF d.bug # "none" THEN d ELSE j
    BY <1>5
  <2>2. m = IF n.bug # "none" \/ i \notin n.has THEN n ELSE Bound(n)
    BY <1>1, <1>5
  <2>3. d.bug = "none"
    <3> HIDE DEF d, j, n
    <3> QED BY <2>1, <2>2
  <2>4. w \in Seq(Injectables) /\ IsInjective(w) /\ ToSet(w) = Imports[i] \cap ToSet(ld)
    BY <1>0, WalkFlat
  <2>5. Imports[i] \subseteq ToSet(ld)
    BY <1>5 DEF Unresolved
  <2>6. ToSet(w) = Imports[i]
    BY <2>4, <2>5
  <2>7. d = InjectAll(r, w, fail)
    BY DEF inject_dependencies, InjectAll
  <2>8. Supplied(r, d, Imports[i])
    <3> HIDE DEF w, d
    <3> QED BY <2>3, <2>4, <2>6, <2>7, SupplyAll
  <2>9. Imports[i] \subseteq Libs \cup {Adbi} /\ d \in Process /\ i \notin d.has /\ d.bound = r.bound
    BY <1>0, <1>5, <2>8, ImportsAssumption DEF Supplied
  <2> HIDE DEF d, w, i
  <2>10. Adbi \in d.has
    <3> SUFFICES ASSUME Adbi \notin d.has PROVE FALSE
      OBVIOUS
    <3>1. j.bug = "no_adbi"
      BY <2>9 DEF inject, Abort, Process
    <3> HIDE DEF j, n
    <3> QED BY <2>1, <2>2, <2>3, <3>1
  <2>11. CASE i \in fail
    <3>1. j = d /\ ~exact
      BY <2>10, <2>11 DEF inject
    <3>2. m = d
      BY <2>1, <2>2, <2>3, <2>9, <3>1
    <3>3. Tally(r, FALSE)
      BY DEF Tally, Counted
    <3>4. Tally(d, FALSE)
      BY <2>8, <2>9, <3>3, TallySupply
    <3>5. exact = FALSE
      BY <3>1
    <3> QED BY <3>2, <3>4, <3>5
  <2>12. CASE i \notin fail
    <3>1. j = [d EXCEPT !.has = @ \cup {i}, !.refs[i] = 0]
      BY <2>10, <2>12 DEF inject
    <3>2. Tally(j, exact)
      <4>1. i \in Bindings \ r.has
        BY <1>0, <1>5
      <4>2. Tally([d EXCEPT !.has = @ \cup {i}, !.refs[i] = 0], exact)
        BY <2>8, <2>10, <4>1, TallyInject
      <4> QED BY <3>1, <4>2, Zenon
    <3>3. j \in Process /\ j.bound = r.bound
      BY <1>0, <2>9, InjectGrows DEF Grown
    <3>4. i \in j.has /\ j.bug = "none"
      BY <2>3, <2>9, <3>1 DEF Process
    <3> HIDE DEF j
    <3>5. m = Bound(j)
      BY <2>1, <2>2, <2>3, <3>4
    <3>6. Tally(Bound(j), exact)
      BY <1>5, <3>2, <3>3, <3>4, TallyBind DEF i
    <3> QED BY <3>5, <3>6
  <2> QED BY <2>11, <2>12
<1>6. CASE r.bug = "none" /\ s \notin r.bound /\ i \in ToSet(ld) /\ i \in r.has
  <2>1. n = r
    BY <1>6
  <2>2. m = Bound(n)
    BY <1>1, <1>6, <2>1
  <2> QED BY <1>3, <1>6, <2>2
<1> HIDE DEF n, m
<1> QED BY <1>2, <1>4, <1>5, <1>6 DEF m

\* So does InitSegments.
LEMMA SegmentsTally ==
  ASSUME Shallow, NEW r \in Process, NEW exact \in BOOLEAN, Tally(r, exact),
         NEW ld \in Seq(Injectables), IsInjective(ld),
         NEW fail, exact => fail = {}, InitSegments(r, ld, fail).bug = "none"
  PROVE  Tally(InitSegments(r, ld, fail), exact)
<1> DEFINE n == Len(Layout)
<1>0. PICK f : Serves(f, r, ld, fail)
  BY ServeRun
<1>1. /\ f \in [0..n -> Process] /\ f[0] = r /\ InitSegments(r, ld, fail) = f[n]
      /\ \A k \in 1..n : f[k] = Serve(f[k - 1], r, ld, Addresses[k], fail)
  BY <1>0 DEF Serves
<1>2. n \in Nat /\ Segs = 1..n /\ \A k \in 1..n : Addresses[k] = k
  BY HeapAssumption DEF Addresses, Segs
<1> DEFINE S == {k \in 0..n : f[k].bug = "none" => Tally(f[k], exact)}
<1> HIDE DEF n
<1>3. 0 \in S
  BY <1>1, <1>2
<1>4. ASSUME NEW k \in 1..n, k - 1 \in S PROVE k \in S
  <2> SUFFICES ASSUME f[k].bug = "none" PROVE Tally(f[k], exact)
    BY <1>2
  <2>1. f[k - 1] \in Process /\ k \in Segs /\ f[k] = Serve(f[k - 1], r, ld, k, fail)
    BY <1>1, <1>2
  <2>2. f[k - 1].bug = "none"
    BY <2>1 DEF Serve, injections_init
  <2>3. Tally(f[k - 1], exact)
    BY <1>4, <2>2
  <2>4. f[k] = f[k - 1] \/ f[k] = injections_init(f[k - 1], ld, k, fail)
    BY <2>1 DEF Serve
  <2> QED BY <2>1, <2>3, <2>4, InitTally
<1>5. n \in S
  <2> HIDE DEF S
  <2>1. \A k \in 0..n : k \in S
    BY <1>2, <1>3, <1>4, Upwards
  <2> QED BY <1>2, <2>1
<1> QED BY <1>1, <1>5

------------------------------------------------------------------------------
(* Where nothing fails, injecting does not stop the server                 *)

\* The process goes on, with the base injection.
Going(r) == r.bug = "none" /\ Adbi \in r.has

\* inject_dependency finds the injection it asked for.
LEMMA DependencyGoes ==
  ASSUME NEW r \in Process, Going(r), NEW d \in Injectables
  PROVE  Going(inject_dependency(r, d, {}))
<1> DEFINE m == IF d \in r.has THEN r ELSE inject(r, d, {})
<1>1. m \in Process /\ r.has \subseteq m.has
  BY InjectGrows DEF Grown
<1>2. m.bug = "none" /\ d \in m.has
  BY DEF inject, Going, Process
<1>3. inject_dependency(r, d, {}) =
         IF m.bug # "none" THEN m
         ELSE IF d \notin m.has THEN Abort(m, "null")
         ELSE [m EXCEPT !.refs[d] = @ + 1]
  BY DEF inject_dependency
<1> HIDE DEF m
<1> QED BY <1>1, <1>2, <1>3 DEF Going, Process

\* So does each of them.
LEMMA DependenciesGo ==
  ASSUME NEW r \in Process, Going(r), NEW w \in Seq(Injectables)
  PROVE  Going(InjectAll(r, w, {}))
<1> DEFINE n == Len(w)
<1>0. PICK f : Injects(f, r, w, {})
  BY InjectRun
<1>1. /\ f \in [0..n -> Process] /\ f[0] = r /\ InjectAll(r, w, {}) = f[n]
      /\ \A k \in 1..n : f[k] = Inject(f[k - 1], w[k], {})
  BY <1>0 DEF Injects
<1>2. n \in Nat /\ \A k \in 1..n : w[k] \in Injectables
  OBVIOUS
<1> DEFINE S == {k \in 0..n : Going(f[k])}
<1> HIDE DEF n
<1>3. 0 \in S
  BY <1>1, <1>2
<1>4. ASSUME NEW k \in 1..n, k - 1 \in S PROVE k \in S
  <2>1. f[k - 1] \in Process /\ Going(f[k - 1]) /\ f[k] = Inject(f[k - 1], w[k], {})
    BY <1>1, <1>2, <1>4
  <2>2. f[k] = inject_dependency(f[k - 1], w[k], {})
    BY <2>1 DEF Inject, Going
  <2>3. Going(f[k])
    BY <1>2, <2>1, <2>2, DependencyGoes
  <2> QED BY <1>2, <2>3
<1>5. n \in S
  <2> HIDE DEF S
  <2>1. \A k \in 0..n : k \in S
    BY <1>2, <1>3, <1>4, Upwards
  <2> QED BY <1>2, <2>1
<1> QED BY <1>1, <1>5

\* injections_init goes on.
LEMMA InitGoes ==
  ASSUME NEW r \in Process, Going(r), NEW ld \in Seq(Injectables), NEW s \in Segs
  PROVE  Going(injections_init(r, ld, s, {}))
<1> DEFINE i == Layout[s]
           w == Walk(ld)[i]
           d == inject_dependencies(r, ld, i, {})
           n == IF i \in r.has \/ Unresolved(ld, i) THEN r
                ELSE IF d.bug # "none" THEN d
                ELSE inject(d, i, {})
           m == injections_init(r, ld, s, {})
<1>0. i \in Injectables
  BY SegmentFile
<1>1. m = IF r.bug # "none" \/ s \in r.bound \/ i \notin ToSet(ld) THEN r
          ELSE IF n.bug # "none" \/ i \notin n.has THEN n
          ELSE [n EXCEPT !.bound = @ \cup {s}, !.refs[i] = @ + 1]
  BY DEF injections_init
<1>2. d = InjectAll(r, w, {}) /\ w \in Seq(Injectables)
  BY <1>0, WalkSet DEF inject_dependencies, InjectAll
<1>3. d \in Process /\ Going(d)
  <2>1. d \in Process
    BY <1>0, DependenciesGrow DEF Grown
  <2> HIDE DEF w
  <2> QED BY <1>2, <2>1, DependenciesGo
<1> HIDE DEF d
<1>4. inject(d, i, {}) \in Process
  BY <1>0, <1>3, InjectGrows DEF Grown
<1>5. Going(inject(d, i, {}))
  <2> HIDE DEF i
  <2> QED BY <1>3 DEF inject, Going, Process
<1>6. n \in Process /\ Going(n)
  BY <1>3, <1>4, <1>5
<1> HIDE DEF n, i
<1>7. Going([n EXCEPT !.bound = @ \cup {s}, !.refs[i] = @ + 1])
  BY <1>6 DEF Going, Process
<1>8. m = r \/ m = n \/ m = [n EXCEPT !.bound = @ \cup {s}, !.refs[i] = @ + 1]
  BY <1>1
<1> HIDE DEF m
<1> QED BY <1>6, <1>7, <1>8 DEF m

\* InitSegments goes on.
LEMMA SegmentsGo ==
  ASSUME NEW r \in Process, Going(r), NEW ld \in Seq(Injectables)
  PROVE  Going(InitSegments(r, ld, {}))
<1> DEFINE n == Len(Layout)
<1>0. PICK f : Serves(f, r, ld, {})
  BY ServeRun
<1>1. /\ f \in [0..n -> Process] /\ f[0] = r /\ InitSegments(r, ld, {}) = f[n]
      /\ \A k \in 1..n : f[k] = Serve(f[k - 1], r, ld, Addresses[k], {})
  BY <1>0 DEF Serves
<1>2. n \in Nat /\ Segs = 1..n /\ \A k \in 1..n : Addresses[k] = k
  BY HeapAssumption DEF Addresses, Segs
<1> DEFINE S == {k \in 0..n : Going(f[k])}
<1> HIDE DEF n
<1>3. 0 \in S
  BY <1>1, <1>2
<1>4. ASSUME NEW k \in 1..n, k - 1 \in S PROVE k \in S
  <2>1. /\ f[k - 1] \in Process /\ Going(f[k - 1]) /\ k \in Segs
        /\ f[k] = Serve(f[k - 1], r, ld, k, {})
    BY <1>1, <1>2, <1>4
  <2>2. Going(f[k])
    BY <2>1, InitGoes DEF Serve
  <2> QED BY <1>2, <2>2
<1>5. n \in S
  <2> HIDE DEF S
  <2>1. \A k \in 0..n : k \in S
    BY <1>2, <1>3, <1>4, Upwards
  <2> QED BY <1>2, <2>1
<1> QED BY <1>1, <1>5

------------------------------------------------------------------------------
(* Segments that go, and fork                                              *)

\* Segments that are released are counted no more.
LEMMA ReleaseTally ==
  ASSUME NEW r \in Process, NEW exact \in BOOLEAN, Tally(r, exact), NEW S
  PROVE  Tally(Release(r, S), exact)
<1> DEFINE Gone(k) == {s \in S \cap r.bound : Layout[s] = k}
           c == [k \in Injectables |-> r.refs[k] - Cardinality(Gone(k))]
           n == Release(r, S)
<1>1. n.bound = r.bound \ S /\ n.has = r.has
  BY ReleaseShape
<1>2. n.refs = c /\ r.has \subseteq Injectables
  BY DEF Release, Process
<1>3. \A k : Gone(k) = SegmentsOf(r, k) \cap S /\ SegmentsOf(n, k) = SegmentsOf(r, k) \ S
  BY <1>1 DEF SegmentsOf
<1>4. \A k : UsersOf(n, k) = UsersOf(r, k)
  BY <1>1 DEF UsersOf
<1> HIDE DEF n
<1>5. ASSUME NEW k PROVE Count(n, k) = Count(r, k) - Cardinality(Gone(k)) /\ Cardinality(Gone(k)) \in Nat
  <2>1. /\ IsFiniteSet(SegmentsOf(r, k)) /\ Cardinality(SegmentsOf(r, k)) \in Nat
        /\ Cardinality(UsersOf(r, k)) \in Nat
    BY CountFinite
  <2>2. Cardinality(SegmentsOf(r, k) \ S) =
           Cardinality(SegmentsOf(r, k)) - Cardinality(SegmentsOf(r, k) \cap S)
    BY <2>1, FS_Difference
  <2>3. IsFiniteSet(SegmentsOf(r, k) \cap S)
    BY <2>1, FS_Subset
  <2>4. Cardinality(SegmentsOf(r, k) \cap S) \in Nat
    BY <2>3, FS_CardinalityType
  <2>5. /\ Cardinality(Gone(k)) = Cardinality(SegmentsOf(r, k) \cap S)
        /\ Cardinality(SegmentsOf(n, k)) = Cardinality(SegmentsOf(r, k) \ S)
        /\ Cardinality(UsersOf(n, k)) = Cardinality(UsersOf(r, k))
    BY <1>3, <1>4, Zenon
  <2> HIDE DEF Gone
  <2> QED BY <2>1, <2>2, <2>4, <2>5 DEF Count
<1>6. \A k \in Injectables : c[k] = r.refs[k] - Cardinality(Gone(k))
  OBVIOUS
<1> HIDE DEF c, Gone
<1>7. Counted(n, exact)
  <2> SUFFICES ASSUME NEW k \in r.has
               PROVE  n.refs[k] >= Count(n, k) /\ (exact => n.refs[k] = Count(n, k))
    BY <1>1 DEF Counted
  <2>1. r.refs[k] \in Int /\ r.refs[k] >= Count(r, k) /\ (exact => r.refs[k] = Count(r, k))
    BY <1>2 DEF Tally, Counted, Process
  <2>2. n.refs[k] = r.refs[k] - Cardinality(Gone(k))
    BY <1>2, <1>6
  <2>3. Count(r, k) \in Nat
    BY CountFinite
  <2> QED BY <1>5, <2>1, <2>2, <2>3
<1>8. Kept(n)
  BY <1>1 DEF Tally, Kept
<1>9. exact => Used(n)
  BY <1>1, <1>4 DEF Tally, Used
<1> QED BY <1>7, <1>8, <1>9 DEF Tally, n

\* A rescan keeps the counts right.
LEMMA RescanTally ==
  ASSUME Shallow, NEW r \in Process, NEW exact \in BOOLEAN, Tally(r, exact),
         NEW ld \in Seq(Injectables), IsInjective(ld), NEW S \in SUBSET Segs,
         NEW fail, exact => fail = {}
  PROVE  LET n == segment_rescan(r, ld, S, fail)
         IN  /\ n.bug = "none" => Tally(n, exact)
             /\ exact /\ r.bug = "none" => n.bug = "none"
<1> DEFINE kept == Release(r, r.mapped \ S)
           new == [kept EXCEPT !.mapped = S \ r.mapped]
           q == InitSegments(new, ld, fail)
           n == [q EXCEPT !.mapped = S]
<1>1. segment_rescan(r, ld, S, fail) = n
  BY DEF segment_rescan
<1>2. kept \in Process /\ Tally(kept, exact) /\ kept.bug = r.bug
  BY ReleaseShape, ReleaseTally
<1> HIDE DEF kept
<1>3. /\ new \in Process /\ new.bug = r.bug /\ new.bound = kept.bound
      /\ new.has = kept.has /\ new.refs = kept.refs
  BY <1>2 DEF Process
<1> HIDE DEF new
<1>4. Tally(new, exact)
  BY <1>2, <1>3 DEF Tally, Kept, Counted, Used, Count, UsersOf, SegmentsOf
<1>5. q \in Process
  BY <1>3, SegmentsServe DEF Served
<1>6. q.bug = "none" => Tally(q, exact)
  BY <1>3, <1>4, SegmentsTally
<1>7. exact /\ r.bug = "none" => q.bug = "none"
  <2> SUFFICES ASSUME exact, r.bug = "none" PROVE q.bug = "none"
    OBVIOUS
  <2>1. Going(new) /\ fail = {}
    BY <1>3, <1>4 DEF Going, Tally, Used
  <2>2. Going(InitSegments(new, ld, {}))
    BY <1>3, <2>1, SegmentsGo
  <2> QED BY <2>1, <2>2 DEF Going
<1> HIDE DEF q
<1>8. n.bug = q.bug /\ n.bound = q.bound /\ n.has = q.has /\ n.refs = q.refs
  BY <1>5 DEF Process
<1> HIDE DEF n
<1>9. Tally(q, exact) => Tally(n, exact)
  BY <1>8 DEF Tally, Kept, Counted, Used, Count, UsersOf, SegmentsOf
<1> QED BY <1>1, <1>6, <1>7, <1>8, <1>9

\* The child counts its segments again and keeps the counts of libraries.
LEMMA ForkTally ==
  ASSUME "fork" \in Ops, ForkCounts, NEW r \in Process, NEW exact \in BOOLEAN, Tally(r, exact)
  PROVE  Tally(segment_fork(injection_fork(r)), exact)
<1> DEFINE n == segment_fork(injection_fork(r))
           Base(k) == IF k = Adbi THEN IF Adbi \in r.has THEN 1 ELSE 0
                      ELSE IF k \in Libs THEN r.refs[k]
                      ELSE 0
           b == [k \in Injectables |-> Base(k)]
           q == [r EXCEPT !.refs = b]
           c == [k \in Injectables |-> q.refs[k] + Cardinality({s \in q.bound : Layout[s] = k})]
<1>1. n.bound = r.bound /\ n.has = r.has
  BY ForkShape
<1>2. injection_fork(r) = q
  BY DEF injection_fork
<1>3. q.refs = b /\ q.bound = r.bound
  <2> HIDE DEF b
  <2> QED BY DEF Process
<1>4. n = [q EXCEPT !.refs = c]
  BY <1>2 DEF segment_fork
<1>5. n.refs = c
  <2>1. DOMAIN q = DOMAIN r /\ "refs" \in DOMAIN r
    BY DEF Process
  <2> HIDE DEF c, q, n
  <2> QED BY <1>4, <2>1
<1>6. \A k \in Injectables : c[k] = Base(k) + Cardinality(SegmentsOf(r, k))
  <2>1. \A k \in Injectables : q.refs[k] = Base(k)
    BY <1>3
  <2>2. \A k : {s \in q.bound : Layout[s] = k} = SegmentsOf(r, k)
    BY <1>3 DEF SegmentsOf
  <2> HIDE DEF q, Base
  <2> QED BY <2>1, <2>2
<1> HIDE DEF n, c, q, b
<1>7. \A k : /\ UsersOf(n, k) = UsersOf(r, k) /\ Count(n, k) = Count(r, k)
  BY <1>1 DEF UsersOf, SegmentsOf, Count
<1>8. Counted(n, exact)
  <2> SUFFICES ASSUME NEW k \in r.has
               PROVE  n.refs[k] >= Count(r, k) /\ (exact => n.refs[k] = Count(r, k))
    BY <1>1, <1>7 DEF Counted
  <2>1. k \in Injectables
    BY DEF Process
  <2>2. n.refs[k] = Base(k) + Cardinality(SegmentsOf(r, k))
    BY <1>5, <1>6, <2>1
  <2>3. Cardinality(SegmentsOf(r, k)) \in Nat /\ Cardinality(UsersOf(r, k)) \in Nat
    BY CountFinite
  <2>4. Count(r, k) = Cardinality(SegmentsOf(r, k)) + Cardinality(UsersOf(r, k))
                         + (IF k = Adbi THEN 1 ELSE 0)
    BY DEF Count
  <2>5. k \notin Libs => Cardinality(UsersOf(r, k)) = 0
    <3>1. k \notin Libs => UsersOf(r, k) = {}
      BY ImportsAssumption DEF UsersOf, ForkCounts, Injectables
    <3> QED BY <3>1, FS_EmptySet
  <2>6. k \in Libs => Cardinality(SegmentsOf(r, k)) = 0
    <3>1. k \in Libs => SegmentsOf(r, k) = {}
      BY SegmentFile DEF SegmentsOf, Process
    <3> QED BY <3>1, FS_EmptySet
  <2>7. r.refs[k] \in Int /\ r.refs[k] >= Count(r, k) /\ (exact => r.refs[k] = Count(r, k))
    BY <2>1 DEF Tally, Counted, Process
  <2>8. CASE k = Adbi
    <3>1. Base(k) = 1 /\ k \notin Libs
      BY <2>8, KindsAssumption
    <3> QED BY <2>2, <2>3, <2>4, <2>5, <2>8, <3>1
  <2>9. CASE k # Adbi /\ k \in Libs
    BY <2>2, <2>3, <2>4, <2>6, <2>7, <2>9
  <2>10. CASE k # Adbi /\ k \notin Libs
    BY <2>2, <2>3, <2>4, <2>5, <2>10
  <2> QED BY <2>8, <2>9, <2>10
<1>9. Kept(n)
  BY <1>1 DEF Tally, Kept
<1>10. exact => Used(n)
  BY <1>1, <1>7 DEF Tally, Used
<1> QED BY <1>8, <1>9, <1>10 DEF Tally, n

------------------------------------------------------------------------------
(* Removing                                                                *)

\* n is r after uninject_dependency for each of the dependencies W.
Returned(r, n, W) ==
    /\ n \in Process /\ n.bug = "none" /\ n.bound = r.bound
    /\ n.has = r.has \ {k \in W : r.refs[k] = 1 /\ k # Adbi}
    /\ \A k \in Injectables : n.refs[k] = r.refs[k] - (IF k \in W THEN 1 ELSE 0)

\* The last reference takes the library away.
LEMMA ReturnOne ==
  ASSUME Shallow, NEW r \in Process, r.bug = "none", NEW ld \in Seq(Injectables),
         NEW d \in Libs \cup {Adbi}, d \in r.has
  PROVE  Returned(r, uninject_dependency(r, d, Detach(ld)), {d})
<1> DEFINE q == Less(r, d)
           n == uninject_dependency(r, d, Detach(ld))
           o == [q EXCEPT !.has = @ \ {d}]
<1>0. d \in Injectables
  BY DEF Process
<1>1. n = IF q.refs[d] = 0 /\ d # Adbi THEN Detach(ld)[<<q, d>>] ELSE q
  BY DEF uninject_dependency, Less
<1>2. q \in Process /\ q.bound = r.bound /\ q.has = r.has /\ q.bug = "none"
  <2>1. q.bug = r.bug
    BY DEF Less, Process
  <2> QED BY <1>0, <2>1, LessType
<1>3. \A k \in Injectables : r.refs[k] \in Int /\ q.refs[k] = r.refs[k] - (IF k \in {d} THEN 1 ELSE 0)
  <2> DEFINE c == [r.refs EXCEPT ![d] = @ - 1]
  <2>1. q = [r EXCEPT !.refs = c]
    BY DEF Less
  <2>2. \A k \in Injectables : r.refs[k] \in Int /\ c[k] = r.refs[k] - (IF k \in {d} THEN 1 ELSE 0)
    BY <1>0 DEF Process
  <2> HIDE DEF c
  <2>3. q.refs = c
    BY <2>1 DEF Process
  <2> HIDE DEF q
  <2> QED BY <2>2, <2>3
<1> HIDE DEF q
<1>4. q.refs[d] = 0 => Detach(ld)[<<q, d>>] = o
  <2> SUFFICES ASSUME q.refs[d] = 0 PROVE Detach(ld)[<<q, d>>] = o
    OBVIOUS
  <2> DEFINE w == Walk(ld)[d]
             m == UninjectAll(q, w, Detach(ld))
  <2>1. Detach(ld)[<<q, d>>] = IF m.bug # "none" THEN m ELSE [m EXCEPT !.has = @ \ {d}]
    BY <1>0, <1>2, DetachFact DEF DetachOnce
  <2>2. w = <<>>
    BY WalkNone
  <2>3. m = q
    <3>1. w \in Seq(Injectables) /\ Len(w) = 0 /\ ToSet(w) = {}
      BY <2>2 DEF ToSet
    <3> HIDE DEF w
    <3>2. PICK f : Uninjects(f, q, w, Detach(ld))
      BY <1>2, <3>1, UninjectRun
    <3> QED BY <3>1, <3>2 DEF Uninjects
  <2> HIDE DEF m
  <2> QED BY <1>2, <2>1, <2>3
<1>5. /\ o \in Process /\ o.bug = "none" /\ o.bound = r.bound /\ o.has = r.has \ {d}
      /\ o.refs = q.refs
  BY <1>2 DEF Process
<1> HIDE DEF n, o
<1>6. CASE q.refs[d] = 0 /\ d # Adbi
  <2>1. n = o /\ r.refs[d] = 1
    BY <1>0, <1>1, <1>3, <1>4, <1>6
  <2>2. n.has = r.has \ {k \in {d} : r.refs[k] = 1 /\ k # Adbi}
    BY <1>5, <1>6, <2>1
  <2>3. n.refs = q.refs
    BY <1>5, <2>1
  <2> QED BY <1>3, <1>5, <2>1, <2>2, <2>3 DEF Returned, n
<1>7. CASE ~(q.refs[d] = 0 /\ d # Adbi)
  <2>1. n = q /\ (r.refs[d] # 1 \/ d = Adbi)
    BY <1>0, <1>1, <1>3, <1>7
  <2>2. n.has = r.has \ {k \in {d} : r.refs[k] = 1 /\ k # Adbi}
    BY <1>2, <2>1
  <2> QED BY <1>2, <1>3, <2>1, <2>2 DEF Returned, n
<1> QED BY <1>6, <1>7

\* One dependency more
LEMMA ReturnMore ==
  ASSUME NEW r \in Process, NEW a, NEW b, NEW W \in SUBSET Injectables,
         NEW d \in Injectables \ W, Returned(r, a, W), Returned(a, b, {d})
  PROVE  Returned(r, b, W \cup {d})
<1>1. \A k \in Injectables : r.refs[k] \in Int
  BY DEF Process
<1>2. \A k \in Injectables : a.refs[k] = r.refs[k] - (IF k \in W THEN 1 ELSE 0)
  BY DEF Returned
<1>3. \A k \in Injectables : b.refs[k] = a.refs[k] - (IF k \in {d} THEN 1 ELSE 0)
  BY DEF Returned
<1>4. \A k \in Injectables : b.refs[k] = r.refs[k] - (IF k \in W \cup {d} THEN 1 ELSE 0)
  <2> SUFFICES ASSUME NEW k \in Injectables
               PROVE  b.refs[k] = r.refs[k] - (IF k \in W \cup {d} THEN 1 ELSE 0)
    OBVIOUS
  <2> QED BY <1>1, <1>2, <1>3
<1>5. a.refs[d] = r.refs[d]
  BY <1>1, <1>2
<1>6. b.has = r.has \ {k \in W \cup {d} : r.refs[k] = 1 /\ k # Adbi}
  <2>1. a.has = r.has \ {k \in W : r.refs[k] = 1 /\ k # Adbi}
    BY DEF Returned
  <2>2. b.has = a.has \ {k \in {d} : a.refs[k] = 1 /\ k # Adbi}
    BY DEF Returned
  <2> QED BY <1>5, <2>1, <2>2
<1> QED BY <1>4, <1>6 DEF Returned

\* uninject_dependencies gives one reference of each dependency back.
LEMMA ReturnAll ==
  ASSUME Shallow, NEW r \in Process, r.bug = "none", NEW ld \in Seq(Injectables),
         NEW w \in Seq(Injectables), IsInjective(w), ToSet(w) \subseteq r.has \cap (Libs \cup {Adbi})
  PROVE  Returned(r, UninjectAll(r, w, Detach(ld)), ToSet(w))
<1> DEFINE n == Len(w)
           Seen(k) == {w[m] : m \in 1..k}
<1>0. PICK f : Uninjects(f, r, w, Detach(ld))
  <2>1. \A q \in Process, d \in Injectables : Detach(ld)[<<q, d>>] \in Process
    BY DetachShrinks DEF Shrunk, injection_detach_single
  <2>2. ToSet(w) \subseteq Injectables
    BY DEF ToSet
  <2> QED BY <2>1, <2>2, UninjectRun
<1>1. /\ f \in [0..n -> Process] /\ f[0] = r /\ UninjectAll(r, w, Detach(ld)) = f[n]
      /\ \A k \in 1..n : f[k] = uninject_dependency(f[k - 1], w[k], Detach(ld))
  BY <1>0 DEF Uninjects
<1>2. n \in Nat /\ DOMAIN w = 1..n /\ \A k \in 1..n : w[k] \in Injectables
  OBVIOUS
<1> DEFINE S == {k \in 0..n : Returned(r, f[k], Seen(k))}
<1> HIDE DEF n
<1>3. 0 \in S
  <2>1. Seen(0) = {}
    OBVIOUS
  <2>2. \A k \in Injectables : r.refs[k] \in Int
    BY DEF Process
  <2>3. Returned(r, r, {})
    BY <2>2 DEF Returned
  <2> HIDE DEF Seen
  <2>4. Returned(r, f[0], Seen(0))
    BY <1>1, <2>1, <2>3, Zenon
  <2> QED BY <1>2, <2>4
<1>4. ASSUME NEW k \in 1..n, k - 1 \in S PROVE k \in S
  <2> DEFINE q == f[k - 1]
             d == w[k]
  <2>1. /\ q \in Process /\ f[k] = uninject_dependency(q, d, Detach(ld)) /\ d \in Injectables
        /\ Returned(r, q, Seen(k - 1))
    BY <1>1, <1>2, <1>4
  <2>2. Seen(k) = Seen(k - 1) \cup {w[k]}
    <3>1. 1..k = 1..(k - 1) \cup {k}
      BY <1>2
    <3> QED BY <3>1, Zenon
  <2>3. w[k] \notin Seen(k - 1)
    <3>1. ASSUME NEW m \in 1..(k - 1) PROVE w[m] # w[k]
      <4>1. m \in DOMAIN w /\ k \in DOMAIN w /\ m # k
        BY <1>2
      <4> QED BY <4>1 DEF IsInjective
    <3> QED BY <3>1
  <2>4. Seen(k - 1) \in SUBSET Injectables
    BY <1>2
  <2>5. d \in r.has /\ d \in Libs \cup {Adbi}
    BY <1>2 DEF ToSet
  <2> HIDE DEF Seen, q, d
  <2>6. d \notin Seen(k - 1) /\ Seen(k) = Seen(k - 1) \cup {d}
    BY <2>2, <2>3 DEF d
  <2>7. d \in q.has /\ q.bug = "none"
    BY <2>1, <2>5, <2>6 DEF Returned
  <2>8. Returned(q, f[k], {d})
    BY <2>1, <2>5, <2>7, ReturnOne
  <2>9. Returned(r, f[k], Seen(k))
    BY <2>1, <2>4, <2>6, <2>8, ReturnMore
  <2> QED BY <1>2, <2>9
<1>5. n \in S
  <2> HIDE DEF S
  <2>1. \A k \in 0..n : k \in S
    BY <1>2, <1>3, <1>4, Upwards
  <2> QED BY <1>2, <2>1
<1>6. Seen(n) = ToSet(w)
  BY <1>2 DEF ToSet
<1> HIDE DEF Seen
<1> QED BY <1>1, <1>5, <1>6

\* injection_detach_single keeps the counts right: a library goes with its last
\* user.  Where counts are exact, the assertion on references holds.
LEMMA DetachTally ==
  ASSUME Shallow, NEW r \in Process, r.bug = "none", NEW exact \in BOOLEAN, Tally(r, exact),
         NEW ld \in Seq(Injectables), IsInjective(ld), r.has \subseteq ToSet(ld),
         NEW i \in Bindings, i \in r.has, SegmentsOf(r, i) = {}
  PROVE  LET n == injection_detach_single(r, ld, i)
         IN  /\ n.bug = "none" => /\ Tally(n, exact)
                                  /\ n.has \cap Bindings = (r.has \cap Bindings) \ {i}
             /\ exact => n.bug = "none"
<1> DEFINE n == injection_detach_single(r, ld, i)
           W == Imports[i]
           w == Walk(ld)[i]
           m == UninjectAll(r, w, Detach(ld))
           o == [m EXCEPT !.has = @ \ {i}]
           Gone == {k \in W : r.refs[k] = 1 /\ k # Adbi}
<1>0. i \in Injectables /\ W \subseteq Libs \cup {Adbi} /\ i \notin Libs \cup {Adbi}
  BY ImportsAssumption, KindsAssumption DEF Injectables
<1>1. n = IF r.refs[i] # 0 THEN Abort(r, "refs") ELSE IF m.bug # "none" THEN m ELSE o
  BY <1>0, DetachFact DEF injection_detach_single, DetachOnce
<1>2. Returned(r, m, W)
  <2>1. W \subseteq r.has
    BY DEF Tally, Kept
  <2>2. w \in Seq(Injectables) /\ IsInjective(w) /\ ToSet(w) = W
    BY <1>0, <2>1, WalkFlat
  <2> HIDE DEF w, W
  <2>3. ToSet(w) \subseteq r.has \cap (Libs \cup {Adbi})
    BY <1>0, <2>1, <2>2
  <2>4. Returned(r, m, ToSet(w))
    BY <2>2, <2>3, ReturnAll
  <2> QED BY <2>2, <2>4
<1> HIDE DEF m, w
<1>3. m \in Process /\ m.bug = "none" /\ m.bound = r.bound /\ m.has = r.has \ Gone
  BY <1>2 DEF Returned
<1>4. /\ o \in Process /\ o.bug = "none" /\ o.bound = r.bound /\ o.has = (r.has \ Gone) \ {i}
      /\ o.refs = m.refs
  BY <1>3 DEF Process
<1>5. exact => r.refs[i] = 0
  <2>1. UsersOf(r, i) = {}
    BY <1>0, ImportsAssumption DEF UsersOf, Injectables
  <2>2. Count(r, i) = 0
    BY <1>0, <2>1, FS_EmptySet DEF Count
  <2> QED BY <2>2 DEF Tally, Counted
<1>6. n.bug = "none" => n = o
  <2>1. Abort(r, "refs").bug = "refs"
    BY AbortType DEF Bugs
  <2> HIDE DEF n, o
  <2> QED BY <1>1, <1>3, <2>1
<1>7. exact => n.bug = "none"
  <2> HIDE DEF o, n
  <2> QED BY <1>1, <1>3, <1>4, <1>5
<1> HIDE DEF n, o
<1>8. Gone \subseteq Libs /\ Gone \cap Bindings = {}
  BY <1>0, KindsAssumption
<1>9. o.has \cap Bindings = (r.has \cap Bindings) \ {i}
  BY <1>4, <1>8
<1>10. \A k : UsersOf(o, k) = UsersOf(r, k) \ {i} /\ (i \in UsersOf(r, k) <=> k \in W)
  BY <1>9 DEF UsersOf
<1>11. \A k : SegmentsOf(o, k) = SegmentsOf(r, k)
  BY <1>4 DEF SegmentsOf
<1> HIDE DEF W
<1>12. ASSUME NEW k
       PROVE  Count(o, k) = Count(r, k) - (IF k \in W THEN 1 ELSE 0) /\ Count(r, k) \in Nat
  <2>1. /\ Cardinality(SegmentsOf(r, k)) \in Nat /\ IsFiniteSet(UsersOf(r, k))
        /\ Cardinality(UsersOf(r, k)) \in Nat
    BY CountFinite
  <2>2. Cardinality(UsersOf(o, k)) = Cardinality(UsersOf(r, k)) - (IF k \in W THEN 1 ELSE 0)
    <3>1. Cardinality(UsersOf(r, k) \ {i}) = IF i \in UsersOf(r, k) THEN Cardinality(UsersOf(r, k)) - 1
                                            ELSE Cardinality(UsersOf(r, k))
      BY <2>1, FS_RemoveElement
    <3>2. Cardinality(UsersOf(o, k)) = Cardinality(UsersOf(r, k) \ {i})
      BY <1>10, Zenon
    <3> QED BY <1>10, <2>1, <3>1, <3>2
  <2>3. Cardinality(SegmentsOf(o, k)) = Cardinality(SegmentsOf(r, k))
    BY <1>11, Zenon
  <2> QED BY <2>1, <2>2, <2>3 DEF Count
<1>13. \A k \in r.has : /\ k \in Injectables /\ r.refs[k] \in Int /\ r.refs[k] >= Count(r, k)
                        /\ exact => r.refs[k] = Count(r, k)
  BY DEF Tally, Counted, Process
<1>14. Counted(o, exact)
  <2> SUFFICES ASSUME NEW k \in o.has
               PROVE  o.refs[k] >= Count(o, k) /\ (exact => o.refs[k] = Count(o, k))
    BY DEF Counted
  <2>1. k \in r.has
    BY <1>4
  <2>2. o.refs[k] = r.refs[k] - (IF k \in W THEN 1 ELSE 0)
    BY <1>2, <1>4, <1>13, <2>1 DEF Returned
  <2> QED BY <1>12, <1>13, <2>1, <2>2
<1>15. Kept(o)
  <2>1. ASSUME NEW s \in o.bound PROVE Layout[s] \in o.has
    <3>1. s \in r.bound /\ Layout[s] \in r.has /\ Layout[s] # i
      BY <1>4 DEF Tally, Kept, SegmentsOf
    <3>2. Layout[s] \in Bindings
      BY <3>1, HeapAssumption DEF Process, Segs
    <3> QED BY <1>4, <1>8, <3>1, <3>2
  <2>2. ASSUME NEW j \in o.has \cap Bindings, NEW d \in Imports[j] PROVE d \in o.has
    <3>1. j \in r.has \cap Bindings /\ d \in r.has
      BY <1>4 DEF Tally, Kept
    <3>2. d \in Libs \cup {Adbi}
      BY ImportsAssumption DEF Injectables
    <3>3. d # i
      BY <1>0, <3>2
    <3>4. d \notin Gone
      <4> SUFFICES ASSUME d \in W, r.refs[d] = 1 PROVE FALSE
        OBVIOUS
      <4>1. Count(o, d) <= 0
        BY <1>12, <1>13, <3>1
      <4>2. IsFiniteSet(UsersOf(o, d)) /\ Cardinality(UsersOf(o, d)) \in Nat
            /\ Cardinality(SegmentsOf(o, d)) \in Nat
        BY <1>4, CountFinite
      <4>3. Cardinality(UsersOf(o, d)) = 0
        BY <4>1, <4>2 DEF Count
      <4>4. UsersOf(o, d) = {}
        BY <4>2, <4>3, FS_EmptySet
      <4>5. j \in UsersOf(o, d)
        BY DEF UsersOf
      <4> QED BY <4>4, <4>5
    <3> QED BY <1>4, <3>1, <3>3, <3>4
  <2> QED BY <2>1, <2>2 DEF Kept
<1>16. exact => Used(o)
  <2> SUFFICES ASSUME exact PROVE Used(o)
    OBVIOUS
  <2>1. Adbi \in o.has
    BY <1>0, <1>4 DEF Tally, Used
  <2>2. ASSUME NEW l \in o.has \cap Libs PROVE UsersOf(o, l) # {}
    <3>1. l \in r.has \cap Libs /\ l \notin Gone
      BY <1>4
    <3>2. UsersOf(r, l) # {}
      BY <3>1 DEF Tally, Used
    <3>3. CASE l \notin W
      BY <1>10, <3>2, <3>3
    <3>4. CASE l \in W
      <4> SUFFICES ASSUME UsersOf(o, l) = {} PROVE FALSE
        OBVIOUS
      <4>1. SegmentsOf(o, l) = {}
        BY <1>4, SegmentFile DEF SegmentsOf, Process
      <4>2. l # Adbi
        BY KindsAssumption
      <4>3. Count(o, l) = 0
        BY <4>1, <4>2, FS_EmptySet DEF Count
      <4>4. r.refs[l] = 1
        BY <1>12, <1>13, <3>1, <3>4, <4>3
      <4> QED BY <3>1, <3>4, <4>2, <4>4
    <3> QED BY <3>3, <3>4
  <2> QED BY <2>1, <2>2 DEF Used
<1>17. Tally(o, exact)
  BY <1>14, <1>15, <1>16 DEF Tally
<1>18. n.bug = "none" => Tally(n, exact) /\ n.has \cap Bindings = (r.has \cap Bindings) \ {i}
  BY <1>6, <1>9, <1>17
<1> QED BY <1>7, <1>18 DEF n

\* INJU keeps the counts of a process right.
LEMMA UnloadTally ==
  ASSUME Shallow, NEW r \in Process, r.bug = "none", NEW exact \in BOOLEAN, Tally(r, exact),
         NEW ld \in Seq(Injectables), IsInjective(ld), r.has \subseteq ToSet(ld),
         NEW i \in Injectables \ {Adbi}, i \in Libs => i \notin r.has
  PROVE  LET n == process_detach_injectable(r, ld, i)
         IN  /\ n.bug = "none" => Tally(n, exact)
             /\ exact => n.bug = "none"
<1> DEFINE n == process_detach_injectable(r, ld, i)
           q == Release(r, {s \in Segs : Layout[s] = i})
           o == injection_detach_single(q, ld, i)
<1>1. n = IF i \in r.has THEN o ELSE r
  BY DEF process_detach_injectable, segment_detach_injectable
<1>2. CASE i \in r.has
  <2>1. i \in Bindings
    BY <1>2 DEF Injectables
  <2>2. q \in Process /\ q.has = r.has /\ q.bug = "none" /\ Tally(q, exact)
    BY ReleaseShape, ReleaseTally
  <2>3. SegmentsOf(q, i) = {}
    <3>1. q.bound = r.bound \ {s \in Segs : Layout[s] = i} /\ r.bound \subseteq Segs
      BY ReleaseShape DEF Process
    <3> HIDE DEF q
    <3> QED BY <3>1 DEF SegmentsOf
  <2> HIDE DEF q
  <2>4. (o.bug = "none" => Tally(o, exact)) /\ (exact => o.bug = "none")
    BY <1>2, <2>1, <2>2, <2>3, DetachTally
  <2> HIDE DEF n, o
  <2> QED BY <1>1, <1>2, <2>4 DEF n
<1>3. CASE i \notin r.has
  <2> HIDE DEF n
  <2> QED BY <1>1, <1>3 DEF n
<1> QED BY <1>2, <1>3

------------------------------------------------------------------------------
(* Detaching from a process                                                *)

\* In process->injections, ordered by address, the libraries come before what
\* uses them.
LibsFirst ==
    \A x, y \in DOMAIN Heap : Heap[x] \in Libs /\ Heap[y] \in Bindings => x < y

\* The loop of injection_detach has seen the first k injectables: what used
\* to be injected of them is gone, if it was bound, and the nodes of the tree
\* that are still to come are there.
Halfway(acc, r, k) ==
    /\ acc.r.bug = "none" /\ acc.r.bound = {} /\ Exact(acc.r)
    /\ acc.r.has \subseteq r.has
    /\ \A x \in 1..k : Heap[x] \in Bindings => Heap[x] \notin acc.r.has
    /\ \A x \in (k + 1)..Len(Heap) : Heap[x] \in acc.saw <=> Heap[x] \in acc.r.has

\* One injection more
LEMMA VisitTally ==
  ASSUME Shallow, LibsFirst, NEW r \in Process, NEW ld \in Seq(Injectables), IsInjective(ld),
         r.has \subseteq ToSet(ld), NEW k \in 1..Len(Heap), NEW acc \in Visits,
         Halfway(acc, r, k - 1)
  PROVE  Halfway(Visit(acc, ld, Heap[k]), r, k)
<1> DEFINE n == Len(Heap)
           i == Heap[k]
           q == acc.r
           o == injection_detach_single(q, ld, i)
           v == Visit(acc, ld, i)
<1>1. /\ n \in Nat /\ DOMAIN Heap = 1..n /\ \A x \in 1..n : Heap[x] \in Injectables
      /\ \A x, y \in 1..n : Heap[x] = Heap[y] => x = y
  BY HeapAssumption DEF IsInjective
<1>2. q \in Process
  BY DEF Visits
<1>3. /\ q.bug = "none" /\ q.bound = {} /\ Exact(q) /\ q.has \subseteq r.has
      /\ \A x \in 1..(k - 1) : Heap[x] \in Bindings => Heap[x] \notin q.has
      /\ \A x \in k..n : Heap[x] \in acc.saw <=> Heap[x] \in q.has
  <2>1. (k - 1) + 1 = k
    BY <1>1
  <2> HIDE DEF q
  <2> QED BY <2>1 DEF Halfway, q
<1>4. v = IF i \notin q.has THEN acc
          ELSE [saw |-> q.has, r |-> IF i \in Bindings THEN o ELSE q]
  <2>1. i \in acc.saw <=> i \in q.has
    BY <1>1, <1>3
  <2> HIDE DEF i
  <2> QED BY <1>3, <2>1 DEF Visit
<1>5. k \in 1..n /\ 1..k = 1..(k - 1) \cup {k} /\ (k + 1)..n \subseteq k..n /\ k..n \subseteq 1..n
  BY <1>1
<1> HIDE DEF n
<1>6. CASE i \notin q.has
  <2>1. v = acc
    BY <1>4, <1>6
  <2>2. \A x \in 1..k : Heap[x] \in Bindings => Heap[x] \notin q.has
    BY <1>3, <1>5, <1>6
  <2> HIDE DEF v
  <2>3. Halfway(v, r, k)
    BY <1>3, <1>5, <2>1, <2>2 DEF Halfway, n
  <2> QED BY <2>3 DEF v
<1>7. CASE i \in q.has /\ i \notin Bindings
  <2>1. v = [saw |-> q.has, r |-> q]
    BY <1>4, <1>7
  <2>2. \A x \in 1..k : Heap[x] \in Bindings => Heap[x] \notin q.has
    BY <1>3, <1>5, <1>7
  <2>3. v.saw = q.has /\ v.r = q
    BY <2>1
  <2> HIDE DEF v
  <2>4. Halfway(v, r, k)
    BY <1>3, <2>2, <2>3 DEF Halfway
  <2> QED BY <2>4 DEF v
<1>8. CASE i \in q.has /\ i \in Bindings
  <2>1. v = [saw |-> q.has, r |-> o]
    BY <1>4, <1>8
  <2>2. v.saw = q.has /\ v.r = o
    BY <2>1
  <2>3. SegmentsOf(q, i) = {}
    BY <1>3 DEF SegmentsOf
  <2>4. Shrunk(q, o, i)
    BY <1>1, <1>2, DetachShrinks
  <2> HIDE DEF v, q, i
  <2>5. o.bug = "none" /\ Exact(o) /\ o.has \cap Bindings = (q.has \cap Bindings) \ {i}
    <3>1. q.has \subseteq ToSet(ld)
      BY <1>3
    <3>2. PICK exact \in BOOLEAN : exact
      OBVIOUS
    <3>3. Tally(q, exact)
      BY <1>2, <1>3, <3>2, ExactTally
    <3>4. /\ o.bug = "none" => Tally(o, exact) /\ o.has \cap Bindings = (q.has \cap Bindings) \ {i}
          /\ exact => o.bug = "none"
      BY <1>2, <1>3, <1>8, <2>3, <3>1, <3>3, DetachTally
    <3>5. o \in Process
      BY <2>4 DEF Shrunk
    <3> HIDE DEF o
    <3> QED BY <3>2, <3>4, <3>5, ExactTally
  <2> HIDE DEF o
  <2>6. o.bound = {} /\ o.has \subseteq r.has /\ q.has \ o.has \subseteq Libs \cup {i}
    BY <1>3, <2>4 DEF Shrunk
  <2>7. \A x \in 1..k : Heap[x] \in Bindings => Heap[x] \notin o.has
    <3>1. \A x \in 1..(k - 1) : Heap[x] \in Bindings => Heap[x] \notin o.has
      BY <1>3, <2>5
    <3>2. Heap[k] \notin o.has
      BY <1>8, <2>5 DEF i
    <3> QED BY <1>5, <3>1, <3>2
  <2>8. ASSUME NEW x \in (k + 1)..n PROVE Heap[x] \in q.has <=> Heap[x] \in o.has
    <3>1. x \in 1..n /\ x # k /\ ~(x < k)
      BY <1>1, <1>5
    <3>2. Heap[x] # i
      BY <1>1, <1>5, <3>1 DEF i
    <3>3. Heap[x] \notin Libs
      BY <1>1, <1>5, <1>8, <3>1 DEF LibsFirst, i
    <3>4. o.has \subseteq q.has
      BY <2>4 DEF Shrunk
    <3> QED BY <2>6, <3>2, <3>3, <3>4
  <2>9. Halfway(v, r, k)
    BY <2>2, <2>5, <2>6, <2>7, <2>8 DEF Halfway, n
  <2> QED BY <2>9 DEF v, i
<1> QED BY <1>6, <1>7, <1>8

\* Where counts are exact, injection_detach removes every injection: no
\* assertion fails, and no freed node of the tree is used.
LEMMA DetachCleans ==
  ASSUME Shallow, LibsFirst, NEW r \in Process, r.bug = "none", r.bound = {}, Exact(r),
         NEW ld \in Seq(Injectables), IsInjective(ld), r.has \subseteq ToSet(ld)
  PROVE  /\ injection_detach(r, ld, {}).bug = "none"
         /\ injection_detach(r, ld, {}).has = {}
<1> DEFINE n == Len(Heap)
<1>0. PICK f : Iterated(f, r, ld)
  BY VisitRun
<1>1. /\ f \in [0..n -> Visits] /\ f[0] = [saw |-> r.has, r |-> r]
      /\ \A k \in 1..n : f[k] = Visit(f[k - 1], ld, Heap[k])
      /\ VisitAll(r, ld) = f[n]
  BY <1>0 DEF Iterated
<1>2. n \in Nat /\ DOMAIN Heap = 1..n
  BY HeapAssumption
<1> DEFINE S == {k \in 0..n : Halfway(f[k], r, k)}
<1>3. 0 \in S
  <2>1. f[0].saw = r.has /\ f[0].r = r
    BY <1>1
  <2>2. \A x \in 1..0 : FALSE
    OBVIOUS
  <2>3. Halfway(f[0], r, 0)
    BY <2>1, <2>2 DEF Halfway
  <2> QED BY <1>2, <2>3
<1>4. ASSUME NEW k \in 1..n, k - 1 \in S PROVE k \in S
  <2>1. f[k - 1] \in Visits /\ Halfway(f[k - 1], r, k - 1) /\ f[k] = Visit(f[k - 1], ld, Heap[k])
    BY <1>1, <1>2, <1>4
  <2>2. Halfway(f[k], r, k)
    BY <2>1, VisitTally
  <2> QED BY <1>2, <2>2
<1>5. n \in S
  <2> HIDE DEF S, n
  <2>1. \A k \in 0..n : k \in S
    BY <1>2, <1>3, <1>4, Upwards
  <2> QED BY <1>2, <2>1
<1> DEFINE q == f[n].r
           o == injection_detach(r, ld, {})
<1>6. q \in Process /\ q.bug = "none" /\ q.bound = {} /\ Exact(q)
  BY <1>1, <1>2, <1>5 DEF Halfway, Visits
<1>7. q.has \cap Bindings = {}
  <2>1. \A x \in 1..n : Heap[x] \in Bindings => Heap[x] \notin q.has
    BY <1>5 DEF Halfway
  <2>2. \A b \in Bindings : \E x \in 1..n : Heap[x] = b
    BY <1>2, HeapAssumption DEF ToSet, Injectables
  <2> HIDE DEF n, q
  <2> QED BY <2>1, <2>2
<1>8. o = uninject_adbi(q, {})
  <2>1. o = uninject_adbi(VisitAll(r, ld).r, {})
    BY DEF injection_detach, VisitAll
  <2> QED BY <1>1, <2>1
<1> HIDE DEF q, o
<1>9. \A k : UsersOf(q, k) = {} /\ SegmentsOf(q, k) = {}
  BY <1>6, <1>7 DEF UsersOf, SegmentsOf
<1>10. q.has = {Adbi}
  BY <1>6, <1>7, <1>9 DEF Exact, Used, Process, Injectables
<1>11. q.refs[Adbi] = 1
  <2>1. Cardinality(UsersOf(q, Adbi)) = 0 /\ Cardinality(SegmentsOf(q, Adbi)) = 0
    BY <1>9, FS_EmptySet
  <2>2. Count(q, Adbi) = 1
    BY <2>1 DEF Count
  <2> QED BY <1>6, <1>10, <2>2 DEF Exact
<1>12. o = [q EXCEPT !.refs[Adbi] = 0, !.has = @ \ {Adbi}]
  BY <1>6, <1>8, <1>10, <1>11 DEF uninject_adbi
<1>13. o.bug = "none" /\ o.has = {}
  <2> DEFINE c == [q.refs EXCEPT ![Adbi] = 0]
  <2>1. o = [q EXCEPT !.refs = c, !.has = @ \ {Adbi}]
    BY <1>12
  <2> HIDE DEF c
  <2> QED BY <1>6, <1>10, <2>1 DEF Process
<1> QED BY <1>13 DEF o

------------------------------------------------------------------------------
(* The invariant                                                           *)

\* What RefsExact says of one process, after f handlers with a failure
Right(r, f) ==
    /\ Kept(r)
    /\ \A i \in r.has : r.refs[i] >= Count(r, i)
    /\ f = 0 => Exact(r)

Counts == Alive => \A p \in Traced : Right(proc[p], fails)

\* The server goes on, and what it has left is clean.
Spotless(r) == r.bug = "none" /\ (r.st = "left" => r.has = {})

Clean == fails = 0 => \A p \in Procs : Spotless(proc[p])

\* Right is Tally.
LEMMA RightTally ==
  ASSUME NEW r \in Process, NEW exact \in BOOLEAN, NEW f
  PROVE  /\ (exact => f = 0) /\ Right(r, f) => Tally(r, exact)
         /\ (f = 0 => exact) /\ Tally(r, exact) => Right(r, f)
<1>1. exact => (Tally(r, exact) <=> Exact(r))
  BY ExactTally
<1>2. (exact => f = 0) /\ Right(r, f) => Tally(r, exact)
  <2>1. CASE exact
    BY <1>1, <2>1 DEF Right
  <2>2. CASE ~exact
    BY <2>2 DEF Right, Tally, Counted
  <2> QED BY <2>1, <2>2
<1>3. (f = 0 => exact) /\ Tally(r, exact) => Right(r, f)
  BY <1>1 DEF Right, Tally, Counted
<1> QED BY <1>2, <1>3

\* Counts and Clean follow from what each process keeps to.
LEMMA AllCount ==
  ASSUME proc' \in [Procs -> Process], NEW exact \in BOOLEAN, exact <=> fails' = 0,
         \A p \in Procs : proc'[p].st = "traced" /\ proc'[p].bug = "none" => Tally(proc'[p], exact)
  PROVE  /\ Counts'
         /\ (\A p \in Procs : exact => Spotless(proc'[p])) => Clean'
<1>1. \A p \in Procs : proc'[p].st = "traced" /\ proc'[p].bug = "none" => Right(proc'[p], fails')
  BY RightTally
<1>2. Counts'
  BY <1>1 DEF Counts, Alive, Traced
<1>3. (\A p \in Procs : exact => Spotless(proc'[p])) => Clean'
  BY DEF Clean
<1> QED BY <1>2, <1>3

\* So does what each process keeps to from Counts and Clean.
LEMMA CountOf ==
  ASSUME Inv, Counts, Alive, NEW exact \in BOOLEAN, exact => fails = 0, NEW p \in Traced
  PROVE  /\ proc[p] \in Process /\ Tally(proc[p], exact) /\ proc[p].bug = "none"
         /\ proc[p].st = "traced" /\ proc[p].has \subseteq ToSet(loaded)
<1>1. proc[p] \in Process /\ Right(proc[p], fails)
  BY DEF Inv, TypeOK, Counts, Traced
<1>2. Tally(proc[p], exact)
  BY <1>1, RightTally
<1>3. proc[p].has \subseteq ToSet(loaded)
  BY InvOf DEF Sound
<1> QED BY <1>1, <1>2, <1>3 DEF Alive, Traced

\* One process changes.
LEMMA OneCounts ==
  ASSUME Inv, Counts, Alive, NEW exact \in BOOLEAN, exact <=> fails' = 0, exact => fails = 0,
         NEW p \in Procs, NEW r \in Process, proc' = [proc EXCEPT ![p] = r],
         r.st = "traced" /\ r.bug = "none" => Tally(r, exact)
  PROVE  /\ Counts'
         /\ Clean /\ (exact => Spotless(r)) => Clean'
<1>1. proc \in [Procs -> Process]
  BY DEF Inv, TypeOK
<1>2. proc' \in [Procs -> Process] /\ \A x \in Procs : proc'[x] = IF x = p THEN r ELSE proc[x]
  BY <1>1
<1>3. ASSUME NEW x \in Procs, proc'[x].st = "traced", proc'[x].bug = "none"
      PROVE  Tally(proc'[x], exact)
  <2>1. CASE x = p
    BY <1>2, <1>3, <2>1
  <2>2. CASE x # p
    <3>1. proc'[x] = proc[x]
      BY <1>2, <2>2
    <3>2. x \in Traced
      BY <1>3, <3>1 DEF Traced
    <3> QED BY <3>1, <3>2, CountOf
  <2> QED BY <2>1, <2>2
<1>4. /\ Counts'
      /\ (\A x \in Procs : exact => Spotless(proc'[x])) => Clean'
  BY <1>2, <1>3, AllCount
<1>5. Clean /\ (exact => Spotless(r)) => \A x \in Procs : exact => Spotless(proc'[x])
  BY <1>2 DEF Clean
<1> QED BY <1>4, <1>5

\* Every process changes for itself.
LEMMA EachCounts ==
  ASSUME Inv, Counts, Alive, NEW exact \in BOOLEAN, exact <=> fails' = 0, exact => fails = 0,
         NEW R, proc' = [p \in Procs |-> IF p \in Traced THEN R[p] ELSE proc[p]],
         \A p \in Traced : /\ R[p] \in Process
                           /\ R[p].bug = "none" => Tally(R[p], exact)
                           /\ exact => R[p].bug = "none"
                           /\ R[p].st = "traced"
  PROVE  Counts' /\ (Clean => Clean')
<1>1. proc \in [Procs -> Process] /\ Traced \subseteq Procs
  BY DEF Inv, TypeOK, Traced
<1>2. /\ proc' \in [Procs -> Process]
      /\ \A p \in Procs : proc'[p] = IF p \in Traced THEN R[p] ELSE proc[p]
  BY <1>1
<1>3. \A p \in Procs : proc'[p].st = "traced" /\ proc'[p].bug = "none" => Tally(proc'[p], exact)
  BY <1>2 DEF Traced
<1>4. /\ Counts'
      /\ (\A p \in Procs : exact => Spotless(proc'[p])) => Clean'
  BY <1>2, <1>3, AllCount
<1>5. Clean => \A p \in Procs : exact => Spotless(proc'[p])
  BY <1>2 DEF Clean, Spotless
<1> QED BY <1>4, <1>5

------------------------------------------------------------------------------
(* The handlers                                                            *)

\* A new address space holds the base injection, for the server.
LEMMA AttachedTally ==
  ASSUME Shallow, Inv, NEW exact \in BOOLEAN, NEW S \in SUBSET Segs, NEW fail, exact => fail = {}
  PROVE  /\ Attached(S, fail) \in Process /\ Attached(S, fail).st = "traced"
         /\ Attached(S, fail).bug = "none" => Tally(Attached(S, fail), exact)
         /\ exact => Attached(S, fail).bug = "none"
<1> DEFINE e == [NoProcess EXCEPT !.st = "traced"]
           r == inject_adbi(e, fail)
           c == [e.refs EXCEPT ![Adbi] = 1]
<1>1. Adbi \in Injectables /\ "none" \in Bugs /\ Adbi \notin Libs \cup Bindings
  BY KindsAssumption DEF Injectables, Bugs
<1>2. /\ e \in Process /\ e.mapped = {} /\ e.bound = {} /\ e.has = {} /\ e.bug = "none"
      /\ e.st = "traced"
  BY <1>1 DEF NoProcess, Process
<1>3. r = IF Adbi \in fail THEN e ELSE [e EXCEPT !.has = @ \cup {Adbi}, !.refs = c]
  BY DEF inject_adbi
<1>4. c \in [Injectables -> Int] /\ c[Adbi] = 1
  <2>1. e.refs \in [Injectables -> Int]
    BY <1>2 DEF Process
  <2> HIDE DEF e
  <2> QED BY <1>1, <2>1
<1> HIDE DEF e, c, r
<1>5. /\ r \in Process /\ r.bound = {} /\ r.has \subseteq {Adbi} /\ r.bug = "none"
      /\ r.st = "traced"
      /\ Adbi \in r.has => r.refs[Adbi] = 1
      /\ exact => Adbi \in r.has
  BY <1>1, <1>2, <1>3, <1>4 DEF Process
<1>6. Tally(r, exact)
  <2>1. SegmentsOf(r, Adbi) = {} /\ UsersOf(r, Adbi) = {}
    BY <1>1, <1>5 DEF SegmentsOf, UsersOf
  <2>2. Count(r, Adbi) = 1
    BY <2>1, FS_EmptySet DEF Count
  <2> QED BY <1>1, <1>5, <2>2 DEF Tally, Kept, Counted, Used
<1>7. Attached(S, fail) = segment_rescan(r, loaded, S, fail)
  BY DEF Attached, r, e
<1>8. loaded \in Seq(Injectables) /\ IsInjective(loaded)
  BY DEF Inv, TypeOK
<1> DEFINE n == segment_rescan(r, loaded, S, fail)
<1>9. n \in Process /\ n.st = "traced"
  <2>0. r \in Process /\ loaded \in Seq(Injectables)
    BY <1>5, <1>8
  <2>1. n \in Process /\ n.st = r.st
    BY <2>0, RescanShape
  <2> HIDE DEF n
  <2> QED BY <1>5, <2>1
<1>10. /\ n.bug = "none" => Tally(n, exact)
       /\ exact /\ r.bug = "none" => n.bug = "none"
  BY <1>5, <1>6, <1>8, RescanTally
<1> HIDE DEF n
<1>11. Attached(S, fail) = n
  BY <1>7 DEF n
<1> QED BY <1>5, <1>9, <1>10, <1>11

\* process_attach and thread_exec
LEMMA AttachCounts ==
  ASSUME Shallow, Inv, Counts, NEW p \in Procs, process_attach(p) \/ thread_exec(p)
  PROVE  Counts' /\ (Clean => Clean')
<1>1. PICK S \in SUBSET Segs, fail \in SUBSET ToSet(loaded) :
         Failing(fail) /\ proc' = [proc EXCEPT ![p] = Attached(S, fail)]
  BY DEF process_attach, thread_exec
<1>2. Alive
  BY DEF process_attach, thread_exec
<1>3. PICK exact \in BOOLEAN : exact <=> fails' = 0
  OBVIOUS
<1>4. exact => fails = 0 /\ fail = {}
  BY <1>1, <1>3, FailingType
<1> DEFINE n == Attached(S, fail)
<1>5. /\ n \in Process /\ n.st = "traced" /\ (n.bug = "none" => Tally(n, exact))
      /\ exact => n.bug = "none"
  BY <1>4, AttachedTally
<1>6. proc' = [proc EXCEPT ![p] = n]
  BY <1>1
<1> HIDE DEF n
<1>7. exact => Spotless(n)
  BY <1>5 DEF Spotless
<1> QED BY <1>2, <1>3, <1>4, <1>5, <1>6, <1>7, OneCounts

\* linker_notify
LEMMA NotifyCounts ==
  ASSUME Shallow, Inv, Counts, NEW p \in Procs, linker_notify(p)
  PROVE  Counts' /\ (Clean => Clean')
<1>1. PICK S \in SUBSET Segs, fail \in SUBSET ToSet(loaded) :
         Failing(fail) /\ proc' = [proc EXCEPT ![p] = segment_rescan(@, loaded, S, fail)]
  BY DEF linker_notify
<1>2. Alive /\ p \in Traced
  BY DEF linker_notify
<1>3. PICK exact \in BOOLEAN : exact <=> fails' = 0
  OBVIOUS
<1>4. exact => fails = 0 /\ fail = {}
  BY <1>1, <1>3, FailingType
<1> DEFINE r == proc[p]
           n == segment_rescan(r, loaded, S, fail)
<1>5. r \in Process /\ Tally(r, exact) /\ r.bug = "none" /\ r.st = "traced"
  BY <1>2, <1>4, CountOf
<1>6. loaded \in Seq(Injectables) /\ IsInjective(loaded)
  BY DEF Inv, TypeOK
<1>7. proc' = [proc EXCEPT ![p] = n]
  BY <1>1
<1> HIDE DEF r
<1>8. n \in Process /\ n.st = "traced"
  <2>0. r \in Process /\ loaded \in Seq(Injectables)
    BY <1>5, <1>6
  <2>1. n \in Process /\ n.st = r.st
    BY <2>0, RescanShape
  <2> HIDE DEF n
  <2> QED BY <1>5, <2>1
<1>9. /\ n.bug = "none" => Tally(n, exact)
      /\ exact /\ r.bug = "none" => n.bug = "none"
  BY <1>4, <1>5, <1>6, RescanTally
<1> HIDE DEF n
<1>10. exact => Spotless(n)
  BY <1>5, <1>8, <1>9 DEF Spotless
<1> QED BY <1>2, <1>3, <1>4, <1>7, <1>8, <1>9, <1>10, OneCounts

\* process_forked
LEMMA ForkedCounts ==
  ASSUME ForkCounts, Inv, Counts, NEW p \in Procs, NEW c \in Procs, process_forked(p, c)
  PROVE  Counts' /\ (Clean => Clean')
<1> DEFINE r == proc[p]
           n == segment_fork(injection_fork(r))
<1>1. "fork" \in Ops /\ Alive /\ UNCHANGED fails /\ p \in Traced /\ proc' = [proc EXCEPT ![c] = n]
  BY DEF process_forked
<1>2. PICK exact \in BOOLEAN : exact <=> fails' = 0
  OBVIOUS
<1>3. r \in Process /\ Tally(r, exact) /\ r.bug = "none" /\ r.st = "traced"
  BY <1>1, <1>2, CountOf
<1> HIDE DEF r
<1>4. n \in Process /\ n.st = "traced" /\ n.bug = "none"
  BY <1>3, ForkShape
<1>5. Tally(n, exact)
  BY <1>1, <1>3, ForkTally
<1> HIDE DEF n
<1>6. Spotless(n)
  BY <1>4 DEF Spotless
<1> QED BY <1>1, <1>2, <1>4, <1>5, <1>6, OneCounts

\* process_free
LEMMA FreeCounts ==
  ASSUME Inv, Counts, NEW p \in Procs, process_free(p)
  PROVE  Counts' /\ (Clean => Clean')
<1>1. Alive /\ UNCHANGED fails /\ proc' = [proc EXCEPT ![p] = NoProcess]
  BY DEF process_free
<1>2. PICK exact \in BOOLEAN : exact <=> fails' = 0
  OBVIOUS
<1>3. NoProcess \in Process /\ NoProcess.st = "none" /\ Spotless(NoProcess)
  BY DEF NoProcess, Process, Bugs, Spotless
<1> QED BY <1>1, <1>2, <1>3, OneCounts

\* process_detach
LEMMA DetachCounts ==
  ASSUME Shallow, Inv, Counts, NEW p \in Procs, process_detach(p)
  PROVE  Counts' /\ (LibsFirst /\ Clean => Clean')
<1>1. PICK fail \in SUBSET {Adbi} :
         LET r == injection_detach(Release(proc[p], Segs), loaded, fail) IN
         /\ Failing(fail)
         /\ proc' = [proc EXCEPT ![p] =
                 [NoProcess EXCEPT !.st = "left", !.has = r.has, !.bug = r.bug]]
  BY DEF process_detach
<1> DEFINE q == Release(proc[p], Segs)
           r == injection_detach(q, loaded, fail)
           n == [NoProcess EXCEPT !.st = "left", !.has = r.has, !.bug = r.bug]
<1>2. Alive /\ p \in Traced
  BY DEF process_detach
<1>3. PICK exact \in BOOLEAN : exact <=> fails' = 0
  OBVIOUS
<1>4. exact => fails = 0 /\ fail = {}
  BY <1>1, <1>3, FailingType
<1>5. /\ proc[p] \in Process /\ Tally(proc[p], exact) /\ proc[p].bug = "none"
      /\ proc[p].has \subseteq ToSet(loaded)
  BY <1>2, <1>4, CountOf
<1>6. loaded \in Seq(Injectables) /\ IsInjective(loaded)
  BY DEF Inv, TypeOK
<1>7. /\ q \in Process /\ q.bug = "none" /\ q.bound = {} /\ q.has \subseteq ToSet(loaded)
      /\ Tally(q, exact)
  <2>1. q.bound = proc[p].bound \ Segs /\ proc[p].bound \subseteq Segs
    BY <1>5, ReleaseShape DEF Process
  <2> QED BY <1>5, <2>1, ReleaseShape, ReleaseTally
<1> HIDE DEF q
<1>8. r \in Process
  BY <1>6, <1>7, InjectionDetachType
<1>9. LibsFirst /\ exact => r.bug = "none" /\ r.has = {}
  <2> SUFFICES ASSUME LibsFirst, exact PROVE r.bug = "none" /\ r.has = {}
    OBVIOUS
  <2>1. Exact(q) /\ fail = {}
    BY <1>4, <1>7, ExactTally
  <2> QED BY <1>6, <1>7, <2>1, DetachCleans
<1> HIDE DEF r
<1>10. n \in Process /\ n.st = "left" /\ n.has = r.has /\ n.bug = r.bug
  <2>1. NoProcess \in Process
    BY DEF NoProcess, Process, Bugs
  <2>2. r.has \in SUBSET Injectables /\ r.bug \in Bugs
    BY <1>8 DEF Process
  <2> QED BY <2>1, <2>2 DEF Process
<1>11. proc' = [proc EXCEPT ![p] = n]
  BY <1>1 DEF r, q
<1> HIDE DEF n
<1>12. LibsFirst /\ exact => Spotless(n)
  BY <1>9, <1>10 DEF Spotless
<1>13. Counts' /\ (Clean /\ (exact => Spotless(n)) => Clean')
  BY <1>2, <1>3, <1>4, <1>10, <1>11, OneCounts
<1> QED BY <1>12, <1>13

\* injectable_load
LEMMA LoadCounts ==
  ASSUME Shallow, Inv, Counts, NEW i \in Injectables, injectable_load(i)
  PROVE  Counts' /\ (Clean => Clean')
<1> DEFINE ld == Append(loaded, i)
<1>1. Alive /\ i \in Injectables \ ToSet(loaded) /\ loaded' = ld
  BY DEF injectable_load
<1>2. PICK fail \in SUBSET ToSet(ld) :
         /\ Failing(fail)
         /\ proc' = [p \in Procs |-> IF p \in Traced THEN InitSegments(proc[p], ld, fail)
                                     ELSE proc[p]]
  BY DEF injectable_load
<1>3. loaded \in Seq(Injectables) /\ IsInjective(loaded)
  BY DEF Inv, TypeOK
<1>4. ld \in Seq(Injectables) /\ IsInjective(ld)
  BY <1>1, <1>3, AppendFact
<1> HIDE DEF ld
<1>5. PICK exact \in BOOLEAN : exact <=> fails' = 0
  OBVIOUS
<1>6. exact => fails = 0 /\ fail = {}
  BY <1>2, <1>5, FailingType
<1> DEFINE R == [p \in Traced |-> InitSegments(proc[p], ld, fail)]
<1>7. proc' = [p \in Procs |-> IF p \in Traced THEN R[p] ELSE proc[p]]
  BY <1>2
<1>8. ASSUME NEW p \in Traced
      PROVE  /\ R[p] \in Process
             /\ R[p].bug = "none" => Tally(R[p], exact)
             /\ exact => R[p].bug = "none"
             /\ R[p].st = "traced"
  <2> DEFINE r == proc[p]
             n == InitSegments(r, ld, fail)
  <2>1. r \in Process /\ Tally(r, exact) /\ r.bug = "none" /\ r.st = "traced"
    BY <1>1, <1>6, CountOf
  <2>2. R[p] = n
    OBVIOUS
  <2> HIDE DEF r
  <2>3. n \in Process /\ n.st = r.st
    BY <1>4, <2>1, SegmentsServe DEF Served
  <2>4. n.bug = "none" => Tally(n, exact)
    BY <1>4, <1>6, <2>1, SegmentsTally
  <2>5. exact => n.bug = "none"
    <3> SUFFICES ASSUME exact PROVE n.bug = "none"
      OBVIOUS
    <3>1. Going(r) /\ fail = {}
      BY <1>6, <2>1 DEF Going, Tally, Used
    <3>2. Going(InitSegments(r, ld, {}))
      BY <1>4, <2>1, <3>1, SegmentsGo
    <3> QED BY <3>1, <3>2 DEF Going
  <2> HIDE DEF n, R
  <2> QED BY <2>1, <2>2, <2>3, <2>4, <2>5
<1> HIDE DEF R
<1> QED BY <1>1, <1>5, <1>6, <1>7, <1>8, EachCounts

\* injectable_unload: a library that is not refused is in no process.
LEMMA UnloadCounts ==
  ASSUME Shallow, Inv, Counts, NEW i \in Injectables, injectable_unload(i)
  PROVE  Counts' /\ (Clean => Clean')
<1>1. Alive /\ i # Adbi /\ UNCHANGED fails /\ (i \in Libs => References(i) = 0)
  BY DEF injectable_unload
<1>2. proc' = [p \in Procs |-> IF p \in Traced THEN process_detach_injectable(proc[p], loaded, i)
                               ELSE proc[p]]
  BY DEF injectable_unload
<1>3. loaded \in Seq(Injectables) /\ IsInjective(loaded)
  BY DEF Inv, TypeOK
<1>4. PICK exact \in BOOLEAN : exact <=> fails' = 0
  OBVIOUS
<1>5. exact => fails = 0
  BY <1>1, <1>4
<1>6. i \in Libs => \A p \in Traced : i \notin proc[p].has
  <2> DEFINE U == {p \in Traced : i \in proc[p].has}
  <2>1. U \subseteq Procs
    BY DEF Traced
  <2>2. IsFiniteSet(U)
    <3> HIDE DEF U
    <3> QED BY <2>1, ProcsAssumption, FS_Subset
  <2>3. i \in Libs => Cardinality(U) = 0
    BY <1>1 DEF References
  <2>4. i \in Libs => U = {}
    <3> HIDE DEF U
    <3> QED BY <2>2, <2>3, FS_EmptySet
  <2> QED BY <2>4
<1> DEFINE R == [p \in Traced |-> process_detach_injectable(proc[p], loaded, i)]
<1>7. proc' = [p \in Procs |-> IF p \in Traced THEN R[p] ELSE proc[p]]
  BY <1>2
<1>8. ASSUME NEW p \in Traced
      PROVE  /\ R[p] \in Process
             /\ R[p].bug = "none" => Tally(R[p], exact)
             /\ exact => R[p].bug = "none"
             /\ R[p].st = "traced"
  <2> DEFINE r == proc[p]
             n == process_detach_injectable(r, loaded, i)
             q == Release(r, {s \in Segs : Layout[s] = i})
  <2>1. /\ r \in Process /\ Tally(r, exact) /\ r.bug = "none" /\ r.st = "traced"
        /\ r.has \subseteq ToSet(loaded)
    BY <1>1, <1>5, CountOf
  <2>2. R[p] = n /\ (i \in Libs => i \notin r.has)
    BY <1>6
  <2> HIDE DEF r
  <2>3. n = r \/ n = injection_detach_single(q, loaded, i)
    BY DEF process_detach_injectable, segment_detach_injectable
  <2>4. q \in Process /\ q.st = r.st
    BY <2>1, ReleaseShape
  <2> HIDE DEF q
  <2>5. Shrunk(q, injection_detach_single(q, loaded, i), i)
    BY <1>3, <2>4, DetachShrinks
  <2>6. (n.bug = "none" => Tally(n, exact)) /\ (exact => n.bug = "none")
    BY <1>1, <1>3, <2>1, <2>2, UnloadTally
  <2> HIDE DEF n, R
  <2>7. n \in Process /\ n.st = "traced"
    BY <2>1, <2>3, <2>4, <2>5 DEF Shrunk
  <2> QED BY <2>2, <2>6, <2>7
<1> HIDE DEF R
<1> QED BY <1>1, <1>4, <1>5, <1>7, <1>8, EachCounts

\* At first there is nothing to count.
LEMMA InitCounts ==
  Init => Counts /\ Clean
<1> SUFFICES ASSUME Init PROVE Counts /\ Clean
  OBVIOUS
<1>1. \A p \in Procs : proc[p] = NoProcess
  BY DEF Init
<1>2. NoProcess.st = "none" /\ Spotless(NoProcess)
  BY DEF NoProcess, Spotless
<1> QED BY <1>1, <1>2 DEF Counts, Clean, Traced

\* Every step keeps the counts right.
LEMMA NextCounts ==
  ASSUME Shallow, ForkCounts, Inv, Counts, [Next]_vars
  PROVE  Counts' /\ (LibsFirst /\ Clean => Clean')
<1>1. CASE UNCHANGED vars
  BY <1>1 DEF vars, Counts, Clean, Alive, Traced
<1>2. ASSUME NEW p \in Procs, process_attach(p) \/ thread_exec(p)
      PROVE  Counts' /\ (LibsFirst /\ Clean => Clean')
  BY <1>2, AttachCounts
<1>3. ASSUME NEW p \in Procs, linker_notify(p)
      PROVE  Counts' /\ (LibsFirst /\ Clean => Clean')
  BY <1>3, NotifyCounts
<1>4. ASSUME NEW p \in Procs, process_free(p)
      PROVE  Counts' /\ (LibsFirst /\ Clean => Clean')
  BY <1>4, FreeCounts
<1>5. ASSUME NEW p \in Procs, process_detach(p)
      PROVE  Counts' /\ (LibsFirst /\ Clean => Clean')
  BY <1>5, DetachCounts
<1>6. ASSUME NEW p \in Procs, NEW c \in Procs, process_forked(p, c)
      PROVE  Counts' /\ (LibsFirst /\ Clean => Clean')
  BY <1>6, ForkedCounts
<1>7. ASSUME NEW i \in Injectables, injectable_load(i)
      PROVE  Counts' /\ (LibsFirst /\ Clean => Clean')
  BY <1>7, LoadCounts
<1>8. ASSUME NEW i \in Injectables, injectable_unload(i)
      PROVE  Counts' /\ (LibsFirst /\ Clean => Clean')
  BY <1>8, UnloadCounts
<1> QED BY <1>1, <1>2, <1>3, <1>4, <1>5, <1>6, <1>7, <1>8 DEF Next

\* The invariant gives RefsExact.
LEMMA CountsExact ==
  ASSUME Shallow, Inv, Counts
  PROVE  RefsExact
<1> SUFFICES ASSUME Alive, NEW p \in Traced, NEW i \in proc[p].has
             PROVE  /\ proc[p].refs[i] >= Needed(proc[p], i)
                    /\ fails = 0 => proc[p].refs[i] = Needed(proc[p], i)
  BY DEF RefsExact
<1> DEFINE r == proc[p]
<1>1. r \in Process /\ r.has \subseteq ToSet(loaded) /\ TypeOK
  BY InvOf DEF Inv, Sound
<1>2. Right(r, fails)
  BY DEF Counts
<1> HIDE DEF r
<1>3. Needed(r, i) = Count(r, i)
  BY <1>1, <1>2, NeededIsCount DEF Right
<1>4. i \in r.has
  BY DEF r
<1>5. /\ r.refs[i] >= Needed(r, i)
      /\ fails = 0 => r.refs[i] = Needed(r, i)
  BY <1>2, <1>3, <1>4 DEF Right, Exact
<1> QED BY <1>5 DEF r

\* injection->references counts exactly what needs the injection, for any
\* number of processes, segments and injectables, in any order of loading,
\* unloading, mapping, exec and fork; after an injection that failed it is
\* never too low.  It holds where libraries import nothing and, if processes
\* fork, nobody imports the base injectable.
THEOREM ReferencesExact ==
  ASSUME Shallow, ForkCounts
  PROVE  Spec => []RefsExact
<1>1. Init => Inv /\ Counts
  BY InitInv, InitCounts
<1>2. Inv /\ Counts /\ [Next]_vars => Inv' /\ Counts'
  BY NextInv, NextCounts
<1>3. Inv /\ Counts => RefsExact
  BY CountsExact
<1> QED BY <1>1, <1>2, <1>3, PTL DEF Spec

\* As long as no injection failed, no assertion of injection.c on reference
\* counts fails, no missing injection is used, and injection_detach frees no
\* node that its loop goes on from: this last where the addresses of libraries
\* are below those of what uses them.
THEOREM ServerGoesOn ==
  ASSUME Shallow, ForkCounts, LibsFirst
  PROVE  Spec => [](fails = 0 => NoAbort)
<1>1. Init => Inv /\ Counts /\ Clean
  BY InitInv, InitCounts
<1>2. Inv /\ Counts /\ Clean /\ [Next]_vars => Inv' /\ Counts' /\ Clean'
  BY NextInv, NextCounts
<1>3. Clean => (fails = 0 => NoAbort)
  BY DEF Clean, Spotless, NoAbort, Alive
<1> QED BY <1>1, <1>2, <1>3, PTL DEF Spec

\* As long as no injection failed, a process that the server detached from
\* holds none of its code: every library went with its last user, and the base
\* injection last.
THEOREM DetachIsClean ==
  ASSUME Shallow, ForkCounts, LibsFirst
  PROVE  Spec => [](fails = 0 => CleanDetach)
<1>1. Init => Inv /\ Counts /\ Clean
  BY InitInv, InitCounts
<1>2. Inv /\ Counts /\ Clean /\ [Next]_vars => Inv' /\ Counts' /\ Clean'
  BY NextInv, NextCounts
<1>3. Clean => (fails = 0 => CleanDetach)
  BY DEF Clean, Spotless, CleanDetach
<1> QED BY <1>1, <1>2, <1>3, PTL DEF Spec

==============================================================================
