CONSTANTS
  None = None
  Accounts = {a1, a2}
  Externals = {x1}
  Roles = {"SUPER_ADMIN", "ORG_ADMIN", "READ_ONLY_ADMIN"}
  Requests = {r1, r2}
SPECIFICATION Spec
SYMMETRY Symmetry
INVARIANTS
  TypeOK
  TopRankClosed
  SuperAdminsStand
  IdentityOfOrigin
PROPERTIES
  StatusAsAsked
