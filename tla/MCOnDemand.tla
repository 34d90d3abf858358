------------------------------ MODULE MCOnDemand ------------------------------
(* Instances of OnDemand for TLC. *)
EXTENDS OnDemand, TLC

Symmetry == Permutations(Keys) \cup Permutations(Values) \cup Permutations(Tokens)
              \cup Permutations(Certs) \cup Permutations(Requests)
===============================================================================
