\* Liveness, without symmetry: every handler, one request at a time while
\* users are added and deleted and links and sessions expire around it.
SPECIFICATION FairSpec
CONSTANTS
  User = {u1, u2}
  LdapUser = {u1}
  Password = {p1}
  Challenge = {c1}
  Session = {s1}
  Request = {r1}
  Handlers = {"requestMagicLink", "requestPasswordReset", "verifyMagicLink", "loginWithPassword", "ldapLogin", "registerWithPassword", "resetPassword", "changePassword", "verifyChallenge", "createUser"}
  None = None
PROPERTIES RequestsReturn
