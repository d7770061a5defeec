------------------------------- MODULE MCAttach -------------------------------
(* Model checking of Attach; the constants are in the .cfg files.           *)
EXTENDS Attach, TLC
==============================================================================
