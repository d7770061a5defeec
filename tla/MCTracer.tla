------------------------------- MODULE MCTracer -------------------------------
(* Model checking of Tracer; the constants are in the .cfg files.           *)
EXTENDS Tracer, TLC

\* The threads that do not exist yet are interchangeable.
Symmetry == Permutations(Tids \ {Leader})
==============================================================================
