---------------------------- MODULE MCTracepoints ----------------------------
(* Model checking of Tracepoints; the constants are in the .cfg files.      *)
EXTENDS Tracepoints, TLC
==============================================================================
