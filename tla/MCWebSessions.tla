--------------------------- MODULE MCWebSessions ---------------------------
(* Instances of WebSessions for TLC. *)
EXTENDS WebSessions, TLC

(* Neither browsers nor calls are told apart. *)
Symmetry == Permutations(Browsers) \cup Permutations(Requests)
=============================================================================
