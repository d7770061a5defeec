------------------------------- MODULE MCMutex -------------------------------
(* Model checking of Mutex; the constants are in the .cfg file.             *)
EXTENDS Mutex
==============================================================================
