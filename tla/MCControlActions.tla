--------------------------- MODULE MCControlActions ---------------------------
(* ControlActions for TLC: the model value the configurations name. *)
EXTENDS ControlActions

CONSTANT a1

=============================================================================
