---------------------------- MODULE MCMemberships ----------------------------
(* Instances of Memberships for TLC. *)
EXTENDS Memberships, TLC

Symmetry == Permutations(Users) \cup Permutations(Groups) \cup Permutations(Requests)
==============================================================================
