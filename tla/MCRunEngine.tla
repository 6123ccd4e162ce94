----------------------------- MODULE MCRunEngine -----------------------------
(* RunEngine for TLC.  Two engines: one, and the one that executes the same  *)
(* run after it.  The model values are named in the configurations.          *)
EXTENDS RunEngine

CONSTANTS e1, e2
=============================================================================
