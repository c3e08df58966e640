---------------------------- MODULE MCUserAccess ----------------------------
(* Small instances of UserAccess. *)
EXTENDS UserAccess, TLC

Symmetry == Permutations(Squads) \cup Permutations(Admins) \cup Permutations(Workers)

=============================================================================
