-------------------------- MODULE MCDeviceSessions --------------------------
(* DeviceSessions for TLC: its users and requests are model values. *)
EXTENDS DeviceSessions, TLC

Symmetry == Permutations(Users) \cup Permutations(Requests)

ASSUME Cardinality(Users) > 1
=============================================================================
