--------------------------- MODULE MCCloakDeposit ---------------------------
(* Instances of CloakDeposit for TLC: the values are those of the .cfg. *)
EXTENDS CloakDeposit
=============================================================================
