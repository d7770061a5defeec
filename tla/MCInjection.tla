----------------------------- MODULE MCInjection -----------------------------
(* Model checking of Injection: small dependency graphs and memory layouts. *)
EXTENDS Injection

CONSTANTS A, B, L, M

\* L is a library of its own; A and B use it, B also the base injectable.
Flat == (A :> {L}) @@ (B :> {L, Adbi}) @@ (L :> {}) @@ (Adbi :> {})

\* As Flat, without a use of the base injectable.
FlatNoAdbi == (A :> {L}) @@ (B :> {L}) @@ (L :> {}) @@ (Adbi :> {})

\* One injectable and its library.
Small == (A :> {L}) @@ (L :> {}) @@ (Adbi :> {})

\* A library that uses the base injectable, as libraries that log do.
Chain == (A :> {L}) @@ (L :> {Adbi}) @@ (Adbi :> {})

\* A library that uses another one.
DeepChain == (A :> {L}) @@ (L :> {M}) @@ (M :> {}) @@ (Adbi :> {})

\* injectable_t of a library below or above those of the bound injectables
LibFirst == <<Adbi, L, A, B>>
LibLast == <<Adbi, A, L>>
ChainHeap == <<Adbi, L, A>>
DeepHeap == <<Adbi, M, L, A>>

\* A's file is mapped twice, B's once.
TwoFiles == <<A, B, A>>
OneFile == <<A>>

\* Processes are interchangeable.
Symmetry == Permutations(Procs)
==============================================================================
