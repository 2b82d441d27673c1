------------------------------ MODULE MCMaster ------------------------------
(* The master alone, for TLC: nobody empties the mailboxes of the workers. *)
EXTENDS RServeMaster, TLC

Symmetry == Permutations(UUID) \cup Permutations(Supervisor) \cup Permutations(Client)
=============================================================================
