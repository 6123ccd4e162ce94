----------------------------- MODULE MCBilling -----------------------------
(* Instances of Billing for TLC. *)
EXTENDS Billing, TLC

(* Neither users nor requests are told apart. *)
Symmetry == Permutations(Users) \cup Permutations(Requests)
=============================================================================
