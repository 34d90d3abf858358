----------------------------- MODULE MCOidcTokens -----------------------------
(* Instances of OidcTokens for TLC. *)
EXTENDS OidcTokens, TLC

Symmetry == Permutations(Users) \cup Permutations(Grants) \cup Permutations(Tokens)
              \cup Permutations(Requests)
==============================================================================
