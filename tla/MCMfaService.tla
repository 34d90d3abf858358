---------------------------- MODULE MCMfaService ----------------------------
(* Small instances of MfaService for TLC. *)
EXTENDS MfaService, TLC

\* Nothing distinguishes the row ids, the codes, the challenges or the request
\* slots from each other.
Symmetry == Permutations(Method) \cup Permutations(Code) \cup Permutations(Passkey)
              \cup Permutations(Nonce) \cup Permutations(Request)
=============================================================================
