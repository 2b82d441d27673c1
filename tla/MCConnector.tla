---------------------------- MODULE MCConnector -----------------------------
(* The whole server, for TLC. *)
EXTENDS RConnector, TLC

Symmetry == Permutations(UUID) \cup Permutations(Supervisor) \cup Permutations(Pid)
=============================================================================
