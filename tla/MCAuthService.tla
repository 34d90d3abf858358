--------------------------- MODULE MCAuthService ---------------------------
(* Instances of AuthService for TLC.                                       *)
EXTENDS AuthService, TLC

\* Users and passwords, requests, sessions and tokens are interchangeable when
\* every user or none is in the directory.
Symmetry ==
  Permutations(User) \cup Permutations(Password) \cup Permutations(Challenge)
    \cup Permutations(Session) \cup Permutations(Request)
=============================================================================
