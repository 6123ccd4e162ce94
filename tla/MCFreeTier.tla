---------------------------- MODULE MCFreeTier ----------------------------
(* Instances of FreeTier for TLC. *)
EXTENDS FreeTier, TLC

SmallLimits == [k \in Keys |-> 1]

ShortWindows == [k \in Keys |-> 2]

(* Calls are not told apart. *)
Symmetry == Permutations(Calls)
=============================================================================
