CONSTANTS
  None = None
  Users = {u1}
  Grants = {g1}
  Tokens = {t1, t2, t3}
  Requests = {r1, r2}
SPECIFICATION Spec
SYMMETRY Symmetry
INVARIANTS
  TypeOK
  LeftoversExplained
PROPERTIES
  ImplementsGrantLife
  GrantsOnlyForAssigned
  NothingForRemovedUsers
