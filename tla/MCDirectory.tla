----------------------------- MODULE MCDirectory -----------------------------
(* Instances of Directory for TLC. *)
EXTENDS Directory, TLC

Symmetry == Permutations(Accounts) \cup Permutations(Requests)
==============================================================================
