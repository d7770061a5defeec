----------------------------- MODULE MCAlgorithms -----------------------------
(* Model checking of Algorithms; the constants are in the .cfg files.       *)
EXTENDS Algorithms
==============================================================================
