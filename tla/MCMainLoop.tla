----------------------------- MODULE MCMainLoop -----------------------------
(* Model checking of MainLoop; the constants are in the .cfg file.          *)
EXTENDS MainLoop
==============================================================================
