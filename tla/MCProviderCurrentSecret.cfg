\* Expected to be violated: a token request that presents the secret of the row after its rotation.
SPECIFICATION Spec
CONSTANTS
  Secret = {s1, s2}
  Key = {k1, k2}
  Request = {r1, r2}
  None = None
PROPERTIES CurrentSecretAccepted
