CONSTANTS
  Keys = {k1, k2}
  Values = {v1, v2}
  Tokens = {t1, t2, t3}
  Certs = {c1, c2}
  Requests = {r1, r2}
  None = None
SPECIFICATION Spec
SYMMETRY Symmetry
INVARIANTS
  TypeOK
  OldTokensDieUnlessTwins
  MetadataStands
PROPERTIES
  SettingsLostOnlyByOverlap
  ChosenPolicyStays
