---------------------------- MODULE AuthService ----------------------------
(***************************************************************************)
(* The sign-in service of the backend, modules/auth/services/              *)
(* auth.service.ts: magic links, passwords, the LDAP sign-in, password     *)
(* resets, and the sessions they open.                                     *)
(*                                                                         *)
(* The backend is one Node process.  Every `await` on the database, on     *)
(* bcrypt or on the directory lets another request run, and no handler of  *)
(* this service opens a transaction, so a handler is a sequence of steps   *)
(* and req[r].pc names the one that comes next.  What a handler read       *)
(* before an await and uses after it stays in req[r]: of the user row that *)
(* is mfaEnabled, the other columns being checked on the spot.  An early   *)
(* return or a throw before the first write changes nothing and is not a   *)
(* step of the model.                                                      *)
(***************************************************************************)
EXTENDS Naturals, FiniteSets

CONSTANTS
  User,       \* primary keys of User rows, one for each e-mail address
  LdapUser,   \* the users whose credentials the LDAP directory accepts
  Password,   \* the passwords people choose
  Challenge,  \* tokens of AuthChallenge rows: magic links and reset links
  Session,    \* slots for sessions that are neither revoked nor expired
  Request,    \* slots for requests in progress at the same time
  Handlers,   \* the handlers clients call, a subset of Op
  None

ASSUME AuthAssumption ==
  /\ LdapUser \subseteq User
  /\ None \notin User \cup Password \cup Challenge

VARIABLES
  user,           \* the User table
  authChallenge,  \* the AuthChallenge table
  session,        \* the owner of each live session, None for a free slot
  mfaToken,       \* the users for whom an unexpired mfa_challenge JWT exists
  req,            \* the requests in progress
  seen,           \* history: what was true of the user row since r's first read
  uses            \* history: how many handlers went through with a challenge

vars == <<user, authChallenge, session, mfaToken, req, seen, uses>>

-----------------------------------------------------------------------------
(* Types.  "absent" and "removed" stand for the row that is not there yet  *)
(* and for the one that was deleted; DELETED, which no code writes, and    *)
(* SUSPENDED differ from ACTIVE in the same way.                           *)

Status == {"ACTIVE", "SUSPENDED"}

UserRow == [status       : Status \cup {"absent", "removed"},
            passwordHash : Password \cup {None},
            mfaEnabled   : BOOLEAN]

ChallengeType == {"MAGIC_LINK", "PASSWORD_RESET"}

ChallengeRow == [type     : ChallengeType \cup {"unissued", "removed"},
                 userId   : User \cup {None},
                 verified : BOOLEAN,
                 expired  : BOOLEAN]

Op == {"requestMagicLink", "requestPasswordReset", "verifyMagicLink",
       "loginWithPassword", "ldapLogin", "registerWithPassword",
       "resetPassword", "changePassword", "verifyChallenge", "createUser"}

PC == {"issue", "mark", "create", "write", "compare", "touch", "open"}

RequestState == [pc : PC, op : Op, userId : User,
                 challenge : Challenge \cup {None},
                 password : Password \cup {None},
                 current : Password \cup {None},
                 mfaEnabled : BOOLEAN]

Evidence == {"accepted", "acceptedWithoutMfa", "withoutMfa",
             "noPassword", "currentPassword"}

Idle == [pc |-> "idle"]

AbsentRow  == [status |-> "absent", passwordHash |-> None, mfaEnabled |-> FALSE]
RemovedRow == [status |-> "removed", passwordHash |-> None, mfaEnabled |-> FALSE]

\* A row inserted by the code: the defaults of the schema.
NewRowNoDefault(hash) == [status |-> "ACTIVE", passwordHash |-> hash, mfaEnabled |-> None]

NewRow(hash) == [status |-> "ACTIVE", passwordHash |-> hash, mfaEnabled |-> FALSE]

Unissued == [type |-> "unissued", userId |-> None,
             verified |-> FALSE, expired |-> FALSE]

Present(u) == user[u].status \in Status
Issued(c)  == authChallenge[c].type \in ChallengeType

TypeOK ==
  /\ user \in [User -> UserRow]
  /\ authChallenge \in [Challenge -> ChallengeRow]
  /\ \A c \in Challenge : Issued(c) => authChallenge[c].userId \in User
  /\ session \in [Session -> User \cup {None}]
  /\ mfaToken \in SUBSET User
  /\ req \in [Request -> RequestState \cup {Idle}]
  /\ seen \in [Request -> SUBSET Evidence]
  /\ uses \in [Challenge -> Nat]

Init ==
  /\ user \in [User -> {AbsentRow, NewRow(None)}]
  /\ authChallenge = [c \in Challenge |-> Unissued]
  /\ session = [s \in Session |-> None]
  /\ mfaToken = {}
  /\ req = [r \in Request |-> Idle]
  /\ seen = [r \in Request |-> {}]
  /\ uses = [c \in Challenge |-> 0]

-----------------------------------------------------------------------------
(* Helpers.                                                                *)

Active(r) == req[r] # Idle

\* The checks a presented link must pass: not expired, not already verified.
RedeemableTwice(c) ==
  /\ Issued(c)
  /\ ~authChallenge[c].expired

Redeemable(c) ==
  /\ Issued(c)
  /\ ~authChallenge[c].expired
  /\ ~authChallenge[c].verified

\* The link r carries, while its handler is between the check and its effect.
Holds(r, c) == Active(r) /\ req[r].challenge = c

\* What loginWithPassword requires of the row it read.
PasswordAcceptedAnyStatus(row, p) == row.passwordHash = p

PasswordAccepted(row, p) ==
  /\ row.status = "ACTIVE"
  /\ row.passwordHash = p

\* What the row tells that matters to a request q of that handler.
EvidenceFor(q, row) ==
  CASE q.op = "loginWithPassword" ->
         IF row.status # "ACTIVE" \/ row.passwordHash # q.password THEN {}
         ELSE {"accepted"} \cup IF row.mfaEnabled THEN {} ELSE {"acceptedWithoutMfa"}
    [] q.op \in {"verifyMagicLink", "ldapLogin"} ->
         IF row.mfaEnabled THEN {} ELSE {"withoutMfa"}
    [] q.op \in {"registerWithPassword", "createUser"} ->
         IF row.passwordHash = None THEN {"noPassword"} ELSE {}
    [] q.op = "changePassword" ->
         IF row.passwordHash = q.current THEN {"currentPassword"} ELSE {}
    [] OTHER -> {}

\* History: every request in progress collects the evidence that comes by from
\* its first read to its last step.
Observe ==
  seen' = [r \in Request |->
             IF req'[r] = Idle THEN {}
             ELSE EvidenceFor(req'[r], user'[req'[r].userId])
                    \cup IF req[r] = Idle THEN {} ELSE seen[r]]

\* The arguments of a call that its handler keeps: a link, a new password, the
\* password to be replaced.
Args(c, p, cur) == [challenge |-> c, password |-> p, current |-> cur]

NoArgs == Args(None, None, None)

\* A handler's first read has been done and its checks passed.
Start(r, pc, op, u, args) ==
  /\ req[r] = Idle
  /\ op \in Handlers
  /\ req' = [req EXCEPT ![r] =
               [pc |-> pc, op |-> op, userId |-> u, mfaEnabled |-> user[u].mfaEnabled,
                challenge |-> args.challenge, password |-> args.password,
                current |-> args.current]]

At(r, pc, op) == Active(r) /\ req[r].pc = pc /\ req[r].op = op
Goto(r, pc)   == req' = [req EXCEPT ![r].pc = pc]
Return(r)     == req' = [req EXCEPT ![r] = Idle]

-----------------------------------------------------------------------------
(* Asking for a link.  The token is drawn before the insert, so the row    *)
(* appears only with the second step; the mail goes out after it and its   *)
(* failure is swallowed.                                                   *)

RequestLink(r, u, c, op) ==
  /\ user[u].status = "ACTIVE"
  /\ authChallenge[c] = Unissued
  /\ \A q \in Request : ~Holds(q, c)
  /\ Start(r, "issue", op, u, Args(c, None, None))
  /\ UNCHANGED <<user, authChallenge, session, mfaToken, uses>>
  /\ Observe

RequestMagicLink(r, u, c)     == RequestLink(r, u, c, "requestMagicLink")
RequestPasswordReset(r, u, c) == RequestLink(r, u, c, "requestPasswordReset")

\* The insert fails on its foreign key when the user was deleted meanwhile.
Issue(r, op, type) ==
  /\ At(r, "issue", op)
  /\ authChallenge' =
       IF Present(req[r].userId)
       THEN [authChallenge EXCEPT ![req[r].challenge] =
               [type |-> type, userId |-> req[r].userId,
                verified |-> FALSE, expired |-> FALSE]]
       ELSE authChallenge
  /\ Return(r)
  /\ UNCHANGED <<user, session, mfaToken, uses>>
  /\ Observe

IssueMagicLink(r)     == Issue(r, "requestMagicLink", "MAGIC_LINK")
IssuePasswordReset(r) == Issue(r, "requestPasswordReset", "PASSWORD_RESET")

-----------------------------------------------------------------------------
(* Presenting a link.  verifyMagicLink looks the token up without a        *)
(* condition on its type; resetPassword requires PASSWORD_RESET.           *)

VerifyMagicLink(r, c) ==
  /\ Redeemable(c)
  /\ Start(r, "mark", "verifyMagicLink", authChallenge[c].userId,
           Args(c, None, None))
  /\ UNCHANGED <<user, authChallenge, session, mfaToken, uses>>
  /\ Observe

ResetPasswordAnyType(r, c, p) ==
  /\ Redeemable(c)
  /\ Start(r, "mark", "resetPassword", authChallenge[c].userId,
           Args(c, p, None))
  /\ UNCHANGED <<user, authChallenge, session, mfaToken, uses>>
  /\ Observe

ResetPassword(r, c, p) ==
  /\ authChallenge[c].type = "PASSWORD_RESET"
  /\ Redeemable(c)
  /\ Start(r, "mark", "resetPassword", authChallenge[c].userId,
           Args(c, p, None))
  /\ UNCHANGED <<user, authChallenge, session, mfaToken, uses>>
  /\ Observe

\* update({ where: { id } }) has no condition on `verified`, so it succeeds
\* for the second of two overlapping handlers too; it throws when the row was
\* deleted with its user.
Mark(r, op, next) ==
  /\ At(r, "mark", op)
  /\ IF Issued(req[r].challenge)
     THEN /\ authChallenge' = [authChallenge EXCEPT ![req[r].challenge].verified = TRUE]
          /\ Goto(r, next)
     ELSE /\ Return(r)
          /\ UNCHANGED authChallenge
  /\ UNCHANGED <<user, session, mfaToken, uses>>
  /\ Observe

MarkMagicLinkUnsaved(r) ==
  /\ At(r, "mark", "verifyMagicLink")
  /\ Goto(r, "touch")
  /\ UNCHANGED <<user, authChallenge, session, mfaToken, uses>>
  /\ Observe

MarkMagicLink(r) == Mark(r, "verifyMagicLink", "touch")
MarkResetLink(r) == Mark(r, "resetPassword", "write")

-----------------------------------------------------------------------------
(* Signing in with a password.                                             *)

\* The local branch.  It goes on from the row read here: with MFA on it only
\* issues an MFA token, otherwise it stamps lastLoginAt and opens a session.
LoginWithPassword(r, u, p) ==
  /\ PasswordAccepted(user[u], p)
  /\ Start(r, IF user[u].mfaEnabled THEN "open" ELSE "touch",
           "loginWithPassword", u, Args(None, p, None))
  /\ UNCHANGED <<user, authChallenge, session, mfaToken, uses>>
  /\ Observe

\* The directory accepted the credentials; ensureUserForEmail looks the row
\* up, whatever its status, and inserts it when there is none.
LdapLogin(r, u) ==
  /\ u \in LdapUser
  /\ user[u].status # "removed"
  /\ Start(r, IF Present(u) THEN "touch" ELSE "create", "ldapLogin", u, NoArgs)
  /\ UNCHANGED <<user, authChallenge, session, mfaToken, uses>>
  /\ Observe

RegisterWithPassword(r, u, p) ==
  /\ user[u].status # "removed"
  /\ user[u].passwordHash = None
  /\ Start(r, IF Present(u) THEN "write" ELSE "create", "registerWithPassword",
           u, Args(None, p, None))
  /\ UNCHANGED <<user, authChallenge, session, mfaToken, uses>>
  /\ Observe

\* The insert of a row that was absent: it throws on the unique e-mail when
\* another request inserted it first.
Create(r, op, hash, next) ==
  /\ At(r, "create", op)
  /\ IF user[req[r].userId].status = "absent"
     THEN /\ user' = [user EXCEPT ![req[r].userId] = NewRow(hash)]
          /\ req' = [req EXCEPT ![r].pc = next, ![r].mfaEnabled = FALSE]
     ELSE /\ Return(r)
          /\ UNCHANGED user
  /\ UNCHANGED <<authChallenge, session, mfaToken, uses>>
  /\ Observe

CreateLdapUser(r)       == Create(r, "ldapLogin", None, "touch")
CreateRegisteredUser(r) == Create(r, "registerWithPassword", req[r].password, "open")

\* An administrator adds a user; with TEMP_PASSWORD onboarding the password is
\* a second, unconditional update.
CreateUser(r, u, p) ==
  /\ user[u].status = "absent"
  /\ Start(r, "create", "createUser", u, Args(None, p, None))
  /\ UNCHANGED <<user, authChallenge, session, mfaToken, uses>>
  /\ Observe

CreateAddedUser(r) == Create(r, "createUser", None, "write")

-----------------------------------------------------------------------------
(* Writing a password hash.  Each handler hashed the new password (an      *)
(* await) after its checks; the update names the row by id alone and       *)
(* throws when it is gone.                                                 *)

\* JwtAuthGuard, getUserFromToken: the session row exists, is not revoked and
\* has not expired.  The user's status plays no part.
Authenticated(u) == \E s \in Session : session[s] = u

ChangePassword(r, u, cur, p) ==
  /\ Authenticated(u)
  /\ Start(r, "compare", "changePassword", u,
           Args(None, p, cur))
  /\ UNCHANGED <<user, authChallenge, session, mfaToken, uses>>
  /\ Observe

CompareNothing(r) ==
  /\ At(r, "compare", "changePassword")
  /\ Goto(r, "write")
  /\ UNCHANGED <<user, authChallenge, session, mfaToken, uses>>
  /\ Observe

Compare(r) ==
  /\ At(r, "compare", "changePassword")
  /\ IF Present(req[r].userId) /\ user[req[r].userId].passwordHash = req[r].current
     THEN Goto(r, "write")
     ELSE Return(r)
  /\ UNCHANGED <<user, authChallenge, session, mfaToken, uses>>
  /\ Observe

WritePassword(r, op) ==
  /\ At(r, "write", op)
  /\ user' = IF Present(req[r].userId)
             THEN [user EXCEPT ![req[r].userId].passwordHash = req[r].password]
             ELSE user
  /\ UNCHANGED <<authChallenge, session, mfaToken>>

WriteReset(r) ==
  /\ WritePassword(r, "resetPassword")
  /\ Return(r)
  /\ uses' = IF Present(req[r].userId)
             THEN [uses EXCEPT ![req[r].challenge] = @ + 1] ELSE uses
  /\ Observe

WriteChanged(r) ==
  /\ WritePassword(r, "changePassword")
  /\ Return(r)
  /\ UNCHANGED uses
  /\ Observe

WriteTemporary(r) ==
  /\ WritePassword(r, "createUser")
  /\ Return(r)
  /\ UNCHANGED uses
  /\ Observe

\* MAGIC_LINK onboarding writes no password; the link is a request of its own.  A
\* temporary password that is missing or too short ends the request here as well.
SkipTemporary(r) ==
  /\ At(r, "write", "createUser")
  /\ Return(r)
  /\ UNCHANGED <<user, authChallenge, session, mfaToken, uses>>
  /\ Observe

WriteRegistered(r) ==
  /\ WritePassword(r, "registerWithPassword")
  /\ IF Present(req[r].userId)
     THEN Goto(r, "open")
     ELSE Return(r)
  /\ UNCHANGED uses
  /\ Observe

-----------------------------------------------------------------------------
(* Ending a sign-in.                                                       *)

\* lastLoginAt (and emailVerified) carry nothing the properties tell apart,
\* but the update throws when the user is gone, and LDAP's sets the status.
Touch(r, op, row) ==
  /\ At(r, "touch", op)
  /\ IF Present(req[r].userId)
     THEN /\ user' = [user EXCEPT ![req[r].userId] = row]
          /\ Goto(r, "open")
     ELSE /\ Return(r)
          /\ UNCHANGED user
  /\ UNCHANGED <<authChallenge, session, mfaToken, uses>>
  /\ Observe

TouchMagicLink(r) == Touch(r, "verifyMagicLink", user[req[r].userId])
TouchPassword(r)  == Touch(r, "loginWithPassword", user[req[r].userId])
TouchMfa(r)       == Touch(r, "verifyChallenge", user[req[r].userId])
TouchLdap(r)      ==
  Touch(r, "ldapLogin", [user[req[r].userId] EXCEPT !.status = "ACTIVE"])

\* The sign-ins that stop at an MFA token when the row they read has MFA on.
\* registerWithPassword opens its session without looking.
FirstFactorOps == {"verifyMagicLink", "loginWithPassword", "ldapLogin"}

NeedsSecondFactorLocalOnly(r) ==
  req[r].op \in {"verifyMagicLink", "loginWithPassword"} /\ req[r].mfaEnabled

NeedsSecondFactor(r) == req[r].op \in FirstFactorOps /\ req[r].mfaEnabled

\* History: a link that led to a session or an MFA token has been used.
CountUse(r) ==
  uses' = IF req[r].op = "verifyMagicLink"
          THEN [uses EXCEPT ![req[r].challenge] = @ + 1] ELSE uses

CreateMfaToken(r) ==
  /\ Active(r) /\ req[r].pc = "open"
  /\ NeedsSecondFactor(r)
  /\ mfaToken' = mfaToken \cup {req[r].userId}
  /\ CountUse(r)
  /\ Return(r)
  /\ UNCHANGED <<user, authChallenge, session>>
  /\ Observe

CreateSessionUnhandled(r) ==
  /\ Active(r) /\ req[r].pc = "open"
  /\ ~NeedsSecondFactor(r)
  /\ Present(req[r].userId)
  /\ \E s \in Session : /\ session[s] = None
                         /\ session' = [session EXCEPT ![s] = req[r].userId]
  /\ CountUse(r)
  /\ Return(r)
  /\ UNCHANGED <<user, authChallenge, mfaToken>>
  /\ Observe

CreateSession(r) ==
  /\ Active(r) /\ req[r].pc = "open"
  /\ ~NeedsSecondFactor(r)
  /\ IF Present(req[r].userId)
     THEN /\ \E s \in Session : /\ session[s] = None
                                /\ session' = [session EXCEPT ![s] = req[r].userId]
          /\ CountUse(r)
     ELSE UNCHANGED <<session, uses>>
  /\ Return(r)
  /\ UNCHANGED <<user, authChallenge, mfaToken>>
  /\ Observe

\* mfa/verify-challenge and mfa/passkey/auth: the token is a JWT that any
\* number of requests may present until it expires.  Whether the code or the
\* passkey is right is for MfaService.
VerifyChallenge(r, u) ==
  /\ u \in mfaToken
  /\ Present(u)
  /\ Start(r, "touch", "verifyChallenge", u, NoArgs)
  /\ UNCHANGED <<user, authChallenge, session, mfaToken, uses>>
  /\ Observe

RevokeSession(s) ==
  /\ session[s] # None
  /\ session' = [session EXCEPT ![s] = None]
  /\ UNCHANGED <<user, authChallenge, mfaToken, req, uses>>
  /\ Observe

-----------------------------------------------------------------------------
(* Time, and the other services that write User rows.                      *)

ExpireChallenge(c) ==
  /\ Issued(c) /\ ~authChallenge[c].expired
  /\ authChallenge' = [authChallenge EXCEPT ![c].expired = TRUE]
  /\ UNCHANGED <<user, session, mfaToken, req, uses>>
  /\ Observe

ExpireSession(s) == RevokeSession(s)

ExpireMfaToken(u) ==
  /\ u \in mfaToken
  /\ mfaToken' = mfaToken \ {u}
  /\ UNCHANGED <<user, authChallenge, session, req, uses>>
  /\ Observe

SetUser(u, row) ==
  /\ Present(u)
  /\ user' = [user EXCEPT ![u] = row]
  /\ user' # user
  /\ UNCHANGED <<authChallenge, session, mfaToken, req, uses>>
  /\ Observe

UpdateStatus(u, status) == SetUser(u, [user[u] EXCEPT !.status = status])
EnableMfa(u)  == SetUser(u, [user[u] EXCEPT !.mfaEnabled = TRUE])
DisableMfa(u) == SetUser(u, [user[u] EXCEPT !.mfaEnabled = FALSE])

\* Deleting the row takes the user's challenges and sessions with it (onDelete:
\* Cascade).  An administrator cannot delete himself.
RemoveUser(u) ==
  /\ Present(u)
  /\ \E admin \in User \ {u} : Present(admin)
  /\ user' = [user EXCEPT ![u] = RemovedRow]
  /\ authChallenge' = [c \in Challenge |->
                         IF authChallenge[c].userId = u
                         THEN [authChallenge[c] EXCEPT !.type = "removed"]
                         ELSE authChallenge[c]]
  /\ session' = [s \in Session |-> IF session[s] = u THEN None ELSE session[s]]
  /\ UNCHANGED <<mfaToken, req, uses>>
  /\ Observe

-----------------------------------------------------------------------------
\* A client's call arrives and the handler does its first read.
Call(r) ==
  \/ \E u \in User, c \in Challenge : RequestMagicLink(r, u, c)
  \/ \E u \in User, c \in Challenge : RequestPasswordReset(r, u, c)
  \/ \E c \in Challenge : VerifyMagicLink(r, c)
  \/ \E c \in Challenge, p \in Password : ResetPassword(r, c, p)
  \/ \E u \in User, p \in Password : LoginWithPassword(r, u, p)
  \/ \E u \in User : LdapLogin(r, u)
  \/ \E u \in User, p \in Password : RegisterWithPassword(r, u, p)
  \/ \E u \in User, p \in Password : CreateUser(r, u, p)
  \/ \E u \in User, cur, p \in Password : ChangePassword(r, u, cur, p)
  \/ \E u \in User : VerifyChallenge(r, u)

\* A handler goes on after an await.
Resume(r) ==
  \/ IssueMagicLink(r)
  \/ IssuePasswordReset(r)
  \/ MarkMagicLink(r)
  \/ MarkResetLink(r)
  \/ CreateLdapUser(r)
  \/ CreateRegisteredUser(r)
  \/ CreateAddedUser(r)
  \/ Compare(r)
  \/ WriteReset(r)
  \/ WriteChanged(r)
  \/ WriteTemporary(r)
  \/ SkipTemporary(r)
  \/ WriteRegistered(r)
  \/ TouchMagicLink(r)
  \/ TouchPassword(r)
  \/ TouchMfa(r)
  \/ TouchLdap(r)
  \/ CreateMfaToken(r)
  \/ CreateSession(r)

Environment ==
  \/ \E s \in Session : RevokeSession(s)
  \/ \E s \in Session : ExpireSession(s)
  \/ \E c \in Challenge : ExpireChallenge(c)
  \/ \E u \in User : ExpireMfaToken(u)
  \/ \E u \in User, st \in Status : UpdateStatus(u, st)
  \/ \E u \in User : EnableMfa(u)
  \/ \E u \in User : DisableMfa(u)
  \/ \E u \in User : RemoveUser(u)

Next == (\E r \in Request : Call(r) \/ Resume(r)) \/ Environment

Spec == Init /\ [][Next]_vars

\* The event loop runs every handler on; sessions expire after thirty days.
\* Nothing makes a client call or an administrator act.
Fairness ==
  /\ \A r \in Request : WF_vars(Resume(r))
  /\ \A s \in Session : WF_vars(ExpireSession(s))

FairSpec == Spec /\ Fairness

-----------------------------------------------------------------------------
(* Properties.                                                             *)

\* The last step of request r opens a session for u, or gives u an MFA token.
Ends(r, u) == Active(r) /\ req[r].userId = u /\ req'[r] = Idle

OpensSession(r, u) ==
  Ends(r, u) /\ \E s \in Session : session[s] = None /\ session'[s] = u

GetsToken(r, u) == Ends(r, u) /\ u \in mfaToken' \ mfaToken

\* A local sign-in that goes through rests on one state of the user row inside
\* the request's lifetime in which the account was ACTIVE, the password
\* presented was the account's and, for a session, MFA was off.  Writes of
\* other requests between the steps may outdate that state, but the handler
\* never mixes two of them (auth.service.ts:478-573).
PasswordGrantsJustified ==
  [][\A r \in Request, u \in User :
       req[r] # Idle /\ req[r].op = "loginWithPassword" =>
         /\ OpensSession(r, u) => "acceptedWithoutMfa" \in seen[r]
         /\ GetsToken(r, u) => "accepted" \in seen[r]]_vars

\* Nothing is granted on a link before the link is marked used, and only to
\* the link's own user (auth.service.ts:88-165).
LinkGrantsJustified ==
  [][\A r \in Request, u \in User :
       /\ req[r] # Idle /\ req[r].op = "verifyMagicLink"
       /\ OpensSession(r, u) \/ GetsToken(r, u)
       => /\ authChallenge[req[r].challenge].verified
          /\ authChallenge[req[r].challenge].userId = u]_vars

\* A first factor alone opens a session only if the user's MFA was off at some
\* moment while the request ran: an MFA that was on from the request's first
\* read to its end is never skipped (auth.service.ts:125-165, 423-475,
\* 509-573).  registerWithPassword is not held to it, it never asks.
SecondFactorRespected ==
  [][\A r \in Request, u \in User :
       /\ req[r] # Idle /\ req[r].op \in FirstFactorOps
       /\ OpensSession(r, u)
       => seen[r] \cap {"withoutMfa", "acceptedWithoutMfa"} # {}]_vars

\* A password hash is replaced only by a handler entitled to: a reset whose
\* link is marked used and belongs to the user, a change whose current
\* password was the account's while the request ran, a registration or an
\* administrator's temporary password on an account that had none while the
\* request ran (auth.service.ts:251-283, 613-681; users.service.ts:164-178).
PasswordWritesJustified ==
  [][\A u \in User :
       user'[u].passwordHash # user[u].passwordHash
         /\ user'[u].status # "removed" =>
       \E r \in Request :
         /\ Active(r) /\ req[r].userId = u
         /\ user'[u].passwordHash = req[r].password
         /\ CASE req[r].op = "resetPassword" ->
                   /\ authChallenge[req[r].challenge].verified
                   /\ authChallenge[req[r].challenge].userId = u
                   /\ authChallenge[req[r].challenge].type = "PASSWORD_RESET"
              [] req[r].op = "changePassword" -> "currentPassword" \in seen[r]
              [] req[r].op \in {"registerWithPassword", "createUser"} -> "noPassword" \in seen[r]
              [] OTHER -> FALSE]_vars

\* A link that was used or has expired, and that no request in progress has
\* already accepted, is dead: it never opens a session, yields an MFA token or
\* sets a password again, whatever its type (auth.service.ts:99-106, 624-631).
\* Only requests that overlap can go through with the same link.
Spent(c) ==
  /\ authChallenge[c].type # "unissued"
  /\ authChallenge[c].verified \/ authChallenge[c].expired
  /\ \A r \in Request : ~Holds(r, c)

SpentLinksStayDead ==
  [][\A c \in Challenge : Spent(c) => Spent(c)' /\ uses'[c] = uses[c]]_vars

\* What a handler established before an await still holds, or is on record,
\* when it goes on: the token it drew is nobody else's and not in the table,
\* the link it accepted is its user's, of the right type and marked used before
\* anything is done on it, and the row it read said what it acts upon.  This is
\* the inductive invariant behind the properties above.
Established(r) ==
  LET q == req[r]
      link == authChallenge[q.challenge]
  IN /\ q.pc = "issue" =>
          /\ q.challenge \in Challenge
          /\ link = Unissued
          /\ \A other \in Request \ {r} : ~Holds(other, q.challenge)
     /\ q.op \in {"verifyMagicLink", "resetPassword"} =>
          /\ q.challenge \in Challenge
          /\ link.type # "unissued"
          /\ link.userId = q.userId
          /\ q.pc # "mark" => link.verified
     /\ q.op = "resetPassword" => link.type \in {"PASSWORD_RESET", "removed"}
     /\ q.op = "loginWithPassword" =>
          /\ "accepted" \in seen[r]
          /\ ~q.mfaEnabled => "acceptedWithoutMfa" \in seen[r]
     /\ q.op \in {"verifyMagicLink", "ldapLogin"} /\ ~q.mfaEnabled =>
          "withoutMfa" \in seen[r]
     /\ q.op \in {"registerWithPassword", "createUser"} => "noPassword" \in seen[r]
     /\ q.op = "changePassword" /\ q.pc = "write" => "currentPassword" \in seen[r]

\* A row not yet inserted is empty, and a deleted challenge is one of
\* a deleted user.
RowsConsistent ==
  /\ \A u \in User : user[u].status = "absent" => user[u] = AbsentRow
  /\ \A c \in Challenge : authChallenge[c].type = "removed" =>
       authChallenge[c].userId \in {u \in User : user[u].status = "removed"}

RequestsEstablished ==
  RowsConsistent /\ \A r \in Request : Active(r) => Established(r)

\* A handler that got past its checks always returns, whatever was deleted or
\* created under it: every update, insert and grant has an error path.
RequestsReturn == \A r \in Request : Active(r) ~> ~Active(r)

\* "Magic link has already been used", "Reset link has already been used"
\* (auth.service.ts:105, 630): a link leads to at most one session, MFA token or
\* password.
LinkSingleUse == \A c \in Challenge : uses[c] <= 1
=============================================================================
