\* Two overlapping sign-ins with one backup code.
SPECIFICATION Spec
CONSTANTS
  Method = {m1, m2}
  Code = {k1, k2, k3, k4}
  Batch = 2
  Passkey = {}
  Nonce = {}
  Request = {r1, r2}
  Handlers = {"enrollTotp", "verifyTotpEnrollment", "verifyTotpCode", "verifyBackupCode", "regenerateBackupCodes"}
  None = None
SYMMETRY Symmetry
INVARIANT BackupCodeSingleUse
