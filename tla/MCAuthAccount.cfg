\* Every handler, two at a time, on one account that is in the directory, has or
\* gets one of two passwords, and is sent one link of either kind.
SPECIFICATION Spec
CONSTANTS
  User = {u1}
  LdapUser = {u1}
  Password = {p1, p2}
  Challenge = {c1}
  Session = {s1}
  Request = {r1, r2}
  Handlers = {"requestMagicLink", "requestPasswordReset", "verifyMagicLink", "loginWithPassword", "ldapLogin", "registerWithPassword", "resetPassword", "changePassword", "verifyChallenge", "createUser"}
  None = None
SYMMETRY Symmetry
INVARIANTS TypeOK RequestsEstablished
PROPERTIES PasswordGrantsJustified PasswordWritesJustified SecondFactorRespected LinkGrantsJustified SpentLinksStayDead
