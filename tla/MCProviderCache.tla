-------------------------- MODULE MCProviderCache --------------------------
(* Small instances of ProviderCache for TLC. *)
EXTENDS ProviderCache, TLC

\* Secrets, keys and request slots are interchangeable.
Symmetry == Permutations(Secret) \cup Permutations(Key) \cup Permutations(Request)
=============================================================================
