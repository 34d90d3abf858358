\* Two enrolments of an authenticator app, two batches of two codes, a passkey
\* and two challenges, two overlapping requests.
SPECIFICATION Spec
CONSTANTS
  Method = {m1, m2}
  Code = {k1, k2, k3, k4}
  Batch = 2
  Passkey = {w1}
  Nonce = {n1, n2}
  Request = {r1, r2}
  Handlers = {"enrollTotp", "verifyTotpEnrollment", "verifyTotpCode", "verifyBackupCode", "regenerateBackupCodes", "enrollPasskey", "verifyPasskeyAuth"}
  None = None
SYMMETRY Symmetry
INVARIANTS TypeOK MfaHasMethod
PROPERTIES SpentCodesStayDead SpentNoncesStayDead LockoutOnlyByLateVerification
