\* Two overlapping requests, two secrets, two keys: creation, a rotation of
\* the secret, rotations and insertions of keys, updates, removal, restarts.
SPECIFICATION Spec
CONSTANTS
  Secret = {s1, s2}
  Key = {k1, k2}
  Request = {r1, r2}
  None = None
SYMMETRY Symmetry
INVARIANTS TypeOK SignedByPersistedKey UnovertakenIsCurrent
PROPERTIES TokensJustified
