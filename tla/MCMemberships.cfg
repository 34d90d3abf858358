CONSTANTS
  Users = {u1, u2}
  Groups = {g1}
  Apps = {a1}
  Requests = {r1, r2}
SPECIFICATION Spec
SYMMETRY Symmetry
CHECK_DEADLOCK FALSE
INVARIANTS
  TypeOK
  Settled
PROPERTIES
  RemovalHitsTheRowFound
