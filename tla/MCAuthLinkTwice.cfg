\* Expected to be violated: two overlapping requests present the same link.
SPECIFICATION Spec
CONSTANTS
  User = {u1}
  LdapUser = {u1}
  Password = {p1}
  Challenge = {c1}
  Session = {s1, s2}
  Request = {r1, r2}
  Handlers = {"requestMagicLink", "verifyMagicLink", "requestPasswordReset", "resetPassword", "ldapLogin"}
  None = None
SYMMETRY Symmetry
INVARIANT LinkSingleUse
