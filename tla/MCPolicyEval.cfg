CONSTANTS
  None = None
  NaN = NaN
  Policies <- MCPolicies
  Zones <- MCZones
  Queries <- MCQueries
  MaxRows = 3
  OctetBits = 1
SPECIFICATION Spec
INVARIANTS
  TypeOK
  DenyOverrides
  MatchedPolicyExplains
  TrustedByPrefix
  SilenceEvadesOnlyEqualities
