# A TLA+ verification of SutraID's backend

SutraID is an identity provider: a NestJS backend over PostgreSQL (through
Prisma) and a Next.js frontend.  This directory holds TLA+ modules that model
parts of the backend, the TLC configurations that check them on small
instances, and theorems about them that TLAPS proves for instances of any size.

Source paths below are relative to `src/apps/backend/src/modules/` unless they
start with `src/`; the schema is `src/apps/backend/prisma/schema.prisma`.

## How the program runs, and what that means for the models

The backend is one Node.js process.  Handlers run on one thread and give way to
each other only where they await: the database, bcrypt, the mail server, a
directory, the WebAuthn library.  Every query is atomic, a `$transaction` is one
step, and almost nothing else is: a handler typically reads a row, awaits
something slow, and writes on the strength of what it read.  So in every module

- a *request* is a slot holding a program counter and the handler's local
  variables; a handler's first step does everything up to its last read, with
  its early returns as the guards, and every later step ends at an await;
- steps of different requests interleave in every way;
- a request that never goes on stands for a process that died in the middle
  (only the liveness run assumes that requests go on); modules whose component
  keeps state in memory, or whose properties ask which requests are in progress,
  also have a `Restart`;
- history variables (`seen`, `uses`, `stood`, `signed`, `announced`, `drawn`, `issued`)
  record what happened for the properties, and no guard of a program step reads
  them except to draw fresh random values or present drawn ones (so do `met`,
  `left`, `may`, `ceiling`, `elders`, `published`, `latest`, `twins` and `doubled`
  of the later modules).

## Inventory

| Component | State | Operations | What is hard | Correct when | Status |
|---|---|---|---|---|---|
| Authentication `auth/services/auth.service.ts` | `User`, `AuthChallenge`, `Session` rows; MFA tokens (stateless JWTs) | request and verify magic links, register, sign in by password or LDAP, forgot/reset/change password, sessions | read-await-write in every handler; links used twice; users suspended or deleted under a handler | nothing is granted or written on a state that never held during the request; used links are dead | modelled |
| Second factors `auth/services/mfa.service.ts` | `MfaMethod` rows, `User.mfaEnabled`, in-memory `challengeStore` | enrol, verify, disable TOTP; backup codes; passkeys | list read, compared by bcrypt, written back; challenges overwritten; enrolments overlapping | codes and challenges are spent once; MFA on only with a working method | modelled |
| Guards `auth/guards`, `application/guards` | none (throttler's counters) | JWT and session check, MFA enforcement, rate limits | session revoked under a request | a request acts for a live session | partly: AuthService, Directory |
| Users `organization/users/users.service.ts` | `User`, assignments | create, update, remove, assign | role hierarchy checked on rows read earlier; the last SUPER_ADMIN | nobody acts above his role | Directory, Memberships, AuthService |
| OIDC provider `sso/services/oidc-idp.service.ts`, `oidc-config.service.ts` | map of provider instances; `OidcSigningKey`, `OidcTokenPolicy` | build and cache an instance, clear it, generate keys, dispatch | cache filled across awaits while it is cleared; a policy made by two first requests | what instances issue beyond the row is known, and they sign with persisted keys; chosen policies stay | partly: ProviderCache, OnDemand |
| Applications `application/application.service.ts`, `oauth.controller.ts` | `Application`, assignments | create, update, rotate secret and keys, remove, assign; token, introspect, revoke | writes that must reach the cache | secrets, grants and keys in force are the row's | partly: ProviderCache, Memberships, OidcTokens |
| OIDC token adapter (`oidc-idp.service.ts:280-405`) | `OidcToken` (no foreign keys) | upsert, find, consume, destroy, revokeByGrantId | refresh tokens exchanged twice, revoked during an exchange | a revoked or expired grant yields nothing to a request that begins later | OidcTokens, GrantLife |
| OIDC interactions `sso/controllers/oidc-idp.controller.ts` | oidc-provider's interactions | authorize, autoConfirm, confirmInteraction | assignment changed during the flow | only assigned users get a code | OidcTokens |
| Groups and assignments `organization/groups/groups.service.ts` | `Group`, `GroupMember`, application assignments | set, add, remove members and applications | deleteMany then createMany without a transaction | each link is what one of the last overlapping writers wanted | Memberships |
| SCIM `directory/services/scim.service.ts` | `User`, `Group`, `GroupMember`, `DirectoryConfig` | provision, patch, deactivate, groups, token | lists computed from a read, written later | statuses are written only as asked; one token is valid | partly: Directory, Memberships, OnDemand |
| LDAP `directory/services/ldap.service.ts` | `DirectoryConfig` | bind, configure | slow answers | see Authentication | partly: AuthService, Directory |
| Policies `policy/policy.service.ts` | `Policy`, `NetworkZone`, `PasswordPolicy` | evaluate, defaults, CRUD | 32-bit shifts, windows, precedence | evaluation is deny-overrides over the enabled policies | partly: PolicyEval |
| Roles `rbac/` | constants | permission check | table against use | a role has its permissions and no more | partly: Directory |
| SSO relying party `sso/services/oidc-client.service.ts`, `saml-sp.service.ts`, `sso-auth.controller.ts` | `SsoProvider`, `SsoIdentity`, browser session | login, callback, ACS, provision | two first logins; an address an account has already | one account per external identity, its own | partly: Directory |
| SAML provider `sso/services/saml-idp.service.ts` | map of IdP instances, certificate columns | build, certificate on demand, sign | certificate race, cache never cleared | metadata names the certificate of the row | partly: OnDemand |
| Onboarding, settings `onboard/`, `app-config/` | `AppConfig` | onboard (disabled: always 403), update settings | read, merge, write | no setting is lost | partly: OnDemand |
| Audit `audit/` | `AuditLog` | append, list | none: failures are caught, nothing reads it back | - | not modelled |
| AI agents, DPoP, guides, metrics, stats | none | checks and reports | stateless or read-only | - | not modelled |
| Web frontend `src/apps/web`, shared types, examples, scripts | browser only | pages over the API | - | - | not modelled |

Interactions: the sign-in handlers read `mfaEnabled` and hand over to the MFA
controller through an MFA token; guards check the `Session` rows; users,
SCIM and LDAP write the `User` rows sign-ins read; applications call
`clearProviderCache` of the OIDC provider; POST /oauth/token checks
the `Application` row and then passes the request to the cached provider, the
provider's own endpoint passes it on unchecked; the OIDC
interaction asks the assignments that groups, users, applications and SCIM write.

The hazards, one by one with their lines, are in `PROJECT.json`.

## Modules

### AuthService (auth.service.ts, and what users.service.ts and the MFA controller do to the same rows)

State: `user` (the row: status, password, `mfaEnabled`), `authChallenge` (both
kinds of link), `session`, `mfaToken` (who holds a token that has not expired),
`req`, and the histories `seen` (which entitling states of the row a request met
since its first read) and `uses` (how often a link led to something).

| Handler | Steps |
|---|---|
| requestMagicLink / requestPasswordReset | `RequestMagicLink`/`RequestPasswordReset`, `Issue...` |
| verifyMagicLink | `VerifyMagicLink`, `MarkMagicLink`, `TouchMagicLink`, `CreateMfaToken` or `CreateSession` |
| resetPassword | `ResetPassword` (up to the end of bcrypt), `MarkResetLink`, `WriteReset` |
| loginWithPassword, local | `LoginWithPassword`, `CreateMfaToken` or `TouchPassword`, `CreateSession` |
| loginWithPassword, directory | `LdapLogin`, `CreateLdapUser`, `TouchLdap`, then as above |
| registerWithPassword | `RegisterWithPassword`, `CreateRegisteredUser` or `WriteRegistered`, `CreateSession` |
| changePassword | `ChangePassword`, `Compare`, `WriteChanged` |
| users.create | `CreateUser`, `CreateAddedUser`, `WriteTemporary` or `SkipTemporary` |
| verify-challenge, passkey/auth | `VerifyChallenge`, `TouchMfa`, `CreateSession` |
| at once | `RevokeSession`, `UpdateStatus`, `EnableMfa`, `DisableMfa`, `RemoveUser`, expiries |

Abstractions: passwords and hashes are one value; `emailVerified`,
`lastLoginAt`, `mustChangePassword`, profiles, mails and audit rows are left
out; the answer of the MFA policy and of the directory is any boolean; session
slots are used again after a session ends, ids of deleted users are not; the
enrolment behind `EnableMfa` is MfaService's.  `registerWithPassword` opens a
session without asking for a second factor or the account's status, as the code
does, and `SecondFactorRespected` says that it leaves it out.

### MfaService (mfa.service.ts)

One account, since every query and key carries the user id.  State:
`mfaEnabled`, the TOTP rows `totp`, the passkeys, the two entries of
`challengeStore`, `req`, and histories.  `enrollTotp` is three steps (check,
`ClearPending`, `CreatePending`), `verifyBackupCode` two (`VerifyBackupCode`
reads and compares, `Splice` writes the shortened copy), and so on; the two
`$transaction`s are single steps.  Left out: the codes of the authenticator app
(a caller has a right one or none; one code can be used again in its window),
names, the WebAuthn signature counter, the uniqueness of credentials between
users.

### ProviderCache (oidc-idp.service.ts, application.service.ts, oauth.controller.ts, oidc-idp.controller.ts)

One confidential application: its row, its signing keys, the cached instance,
and what each request that is filling the cache has read so far.
`getProviderInstance` is `LookUp`, `ReadApplication`, `ReadKeys`,
`GenerateAndPersistSigningKey`, `Build`; `clearProviderCache` is
`ClearProviderCache`, which update and rotateSigningKey reach one step after
their write.  A token by client credentials can be asked for in two places.  `Token` is POST
/oauth/token, which checks secret and grant against the row and replaces the
secret by its hash.  `ProviderToken` is POST sso/oidc-idp/:appId/token
(oidc-idp.controller.ts:141-155), which goes to the provider without reading the
row; the client sends the hash.  `Dispatch` stands for the other routes that go
there, which fill the cache and yield no such token.
`allowClientCredentials` stands for the grant settings.  What
oidc-provider does at the token endpoint (client authentication, grant check,
signing) is external: `Grants` and `Serve`.

### OidcTokens and GrantLife (oidc-idp.service.ts:280-425, 500-550, oidc-idp.controller.ts)

One application: its `OidcToken` rows (`grant` for the Grants, `token` for
codes, access and refresh tokens), the users, who is assigned, and the requests.

| Handler | Steps |
|---|---|
| GET authorize, auto-confirm or confirm, resume | `Authorize`, `AutoConfirm` or `Deny`, `SaveGrant`, `Resume`, `SaveCode` |
| POST token with a code | `Exchange`, `Consume`, `FindAccount`, `SaveToken` (once or twice) |
| POST token with a refresh token | `Exchange`, `FindAccount`, `Consume` when it is rotated, `SaveToken` |
| revocation, end-session | `RevokeToken`, `Destroy`, or `EndSession`; then `RevokeByGrantId` once per type, in any order |
| DELETE application | `RemoveTokens`, `RemoveApplication` |
| around them | `Assign`, `Unassign`, `RemoveUser`, expiries, `Restart` |

The adapter's methods are the code's; the order in which oidc-provider calls
them is that library's and external.  Under it, two facts of the code show:
`find` answers with the payload and never asks the column `consumed`, so an
exchange of a consumed code is not refused here; and after DELETE an instance
that was cached keeps answering until the process ends (`provider`).

`GrantLife` is what this is for: a grant is given once, ends once, and yields
new tokens only to requests that began while it was live.  `ImplementsGrantLife`
is the refinement, under the mapping of a row's state to the grant's phase.  It
says nothing of a token that a request still yields after the revocation
overtook it; those stay in the table, and `LeftoversExplained` accounts for
every one of them.

### Memberships (groups, users, application and SCIM services)

The three link tables as one set of pairs.  A handler has an owner and a scope,
the links it deletes or looks at, and a list, the links it wants in it:
`Replace` (setUsers, setApplications, assignGroups, assignApplications,
setAssignedUsers, setAssignedGroups), `CreateGroup` and `PatchGroup` of SCIM,
then `SyncGroupMembers`, `DeleteMany`, `CreateMany`; `AddMembers`,
`FindExisting`, `Insert`; `RemoveMember`, `Unlink`; `RemoveUser`,
`LeaveGroups`, `DropUser`; `Remove`.  Foreign keys make inserts fail and deletes
cascade.  Two handlers may write one row from different ends (a group's members,
a user's groups), and `Settled` says what may come of it: `may[l]` is what the
writers that overlapped last wanted the link to be.  Several operations in one
SCIM patch are one list; the model has patches of one operation.

### Directory (users.service.ts, scim.service.ts, getOrCreateSsoIdentity, rbac/)

The user table by email address: `state`, `role`, `status`, and for the
properties `origin`.  An administrator's request is `CreateUser`, `UpdateUser`
or `RemoveUser` (the guards, with the actor's role of that moment), `FindTarget`,
`FindActor` (the hierarchy, on the rows read so far), and `Create`, `Write` or
`Delete`; SCIM, directory sign-ins and external sign-ins are `FindOrCreate`,
`ScimUpdate`, `SsoSignIn`, then `WriteStatus` or `Provision`.  Addresses are not
used twice and SCIM's renames are left out.  `ceiling` ends, and with it what
`TopRankClosed` and `SuperAdminsStand` claim, when a SUPER_ADMIN begins a
request, and when a request goes on whose actor has been deleted: the code then
takes the actor for a SUPER_ADMIN (users.service.ts:134, 198, 240).

### PolicyEval (policy.service.ts)

`evaluate` and `isIpTrusted` read their table in one statement and are pure from
there on, so the state is the two tables and everything else an operator:
`MatchesResource`, `MatchesConditions` (`equals` are the conditions on keys of the
context that have no case of their own), `IsIpInRange` on integers of
`4 * OctetBits` bits with JavaScript's signed `~` and `<<` (`&` is `BitAnd`, a
sum over the bits that both numbers have), `Round` for one turn of the loop and
`Loop` for all of them, `Evaluate` for the set of answers (rows of equal priority
come in any order).  What the code does in a loop, a `reduce` or an expression is
a recursive function here.  The reference definitions are the properties: sets of
policies without an order, prefixes bit by bit; and, in the proofs, patterns laid
over texts (`Spelling`).

The endpoint takes any text for a zone's range; the zones here hold well-formed
ones (`ZonesAssumption`), since the property says what a range means.  The
address of a question may be malformed.  A `?` in a pattern, which the code does
not escape, and a line end in a resource, which `.*` does not match, are left out.

### OnDemand (app-config, scim token, token policy, saml-idp.service.ts)

Four rows that are made the first time somebody needs them, with what guards
them against a second request doing the same: `AppConfig` and `OidcTokenPolicy`
have a unique key (the loser's request fails), `DirectoryConfig` and the SAML
certificate have nothing (two rows, two certificates).  `late` marks a request
that read before another wrote.  `ldap.service.ts:43-66` is the SCIM token's
idiom again and is not modelled a second time.

## Runs

All runs bound the model by the sizes of the constant sets only; no action is
disabled to make a run small except by `Handlers`, which picks the handlers
that clients call.

| Run | Instance | Checks | Shows |
|---|---|---|---|
| `auth_account` | all ten handlers, two at a time, on 1 account that is in the directory, 2 passwords, 1 link | `TypeOK`, `RequestsEstablished`, `PasswordGrantsJustified`, `PasswordWritesJustified`, `SecondFactorRespected`, `LinkGrantsJustified`, `SpentLinksStayDead` | what is granted or written for a password or a link was entitled by a state of the row within the request; MFA on throughout a request is not skipped; a spent link is dead |
| `auth_returns` | 2 users, 1 request, all handlers, fair | `RequestsReturn` | no order of deletions leaves a handler hanging |
| `link_single_use` | 1 link, 2 sessions, 2 requests | `LinkSingleUse` **violated** | two overlapping clicks on one link, two sessions or two new passwords |
| `mfa_factors` | 2 enrolments, 4 codes in batches of 2, 1 passkey, 2 challenges, 2 requests | `TypeOK`, `MfaHasMethod`, `SpentCodesStayDead`, `SpentNoncesStayDead`, `LockoutOnlyByLateVerification` | MFA is on only with a method that worked; spent codes come back only while a request holds the list; exactly one step can lock a user out |
| `backup_code_single_use` | as above, handlers of codes | `BackupCodeSingleUse` **violated** | two overlapping sign-ins with one code |
| `provider_cache` | 2 secrets, 2 keys, 2 requests | `TypeOK`, `SignedByPersistedKey`, `UnovertakenIsCurrent`, `TokensJustified` | signatures stay verifiable; POST /oauth/token never exceeds the row, and the provider's own endpoint only where `Outlived` says; staleness of grants only by an overtaken fill |
| `rotated_secret` | as above | `CurrentSecretAccepted` **violated** | no overlap needed: the cached provider refuses the new secret |
| `oidc_tokens` | 1 user, 1 grant, 3 tokens, 2 requests | `TypeOK`, `LeftoversExplained`, `ImplementsGrantLife`, `GrantsOnlyForAssigned`, `NothingForRemovedUsers` | the adapter implements GrantLife; no code without an assignment, no token without an account within the request; what outlives a grant is explained |
| `memberships` | 2 users, 1 group, 1 application, 2 requests | `TypeOK`, `Settled`, `RemovalHitsTheRowFound` | links settle as one of the last overlapping writers wanted; a removal hits the row it found |
| `directory` | 2 accounts, 1 external subject, 3 roles, 2 requests | `TypeOK`, `TopRankClosed`, `SuperAdminsStand`, `StatusAsAsked`, `IdentityOfOrigin` | stale roles do not lift anybody to the top or a SUPER_ADMIN off it; no write-back of a status; a subject keeps to its own account |
| `policy_eval` | 3 rows of 24 policies and 14 zones, 54 questions, octets of 1 bit | `TypeOK`, `DenyOverrides`, `MatchedPolicyExplains`, `TrustedByPrefix`, `SilenceEvadesOnlyEqualities` | deny-overrides whatever the priorities; masks are prefixes; saying less evades the policies that ask for the address or the location by equality, and no others |
| `on_demand` | 2 keys, 2 values, 3 tokens, 2 certificates, 2 requests | `TypeOK`, `OldTokensDieUnlessTwins`, `MetadataStands`, `SettingsLostOnlyByOverlap`, `ChosenPolicyStays` | only overlapping first requests leave two tokens or certificates; settings are lost only to an overlap |

What else was met, and has no run:

- Applications of type SAML are never served: create stores the placeholder of
  `application.utils.ts:46-53`, which is no encrypted key, getOrCreateIdpCertificate
  finds the columns filled and decryptPrivateKey fails on it, so the metadata that
  `src/apps/web/src/app/docs/api-data/saml-provider.ts:13` promises is answered with
  400.  Only an application of another type gets a certificate on demand (and its
  AuthnRequests are refused, since verifyUserAccess asks for the type).
- A fill of the provider cache that an update's clear overtook stores an instance
  with the old grant settings, which stays (oidc-idp.service.ts:251;
  `application.service.spec.ts:333` says 'should invalidate provider cache when
  grant settings change').  `UnovertakenIsCurrent` excepts exactly this.
- The provider's own token endpoint goes by the cached instance alone
  (oidc-idp.controller.ts:141-155).  A client that sends the hash of its secret
  there gets tokens after rotateSecret, after DELETE of the application, and after
  its grant was withdrawn if a clear overtook the instance or is still to come:
  "invalidating the previous one"
  (`src/apps/web/src/app/docs/api-data/applications.ts:802`) does not hold of this
  endpoint until the cache is cleared for another reason.  `Outlived` in
  `TokensJustified` lists these cases, and the run shows that there are no others.
- A condition on a key without a case of its own is compared with the context
  whatever the key (policy.service.ts:272-273): a DENY with `geoLocation` or
  `ipAddress` among its conditions, where the documentation's examples have
  `geoLocations` and `ipRange`, is evaded by not telling it.
  `SilenceEvadesOnlyEqualities` says that only such a policy is.
- Two overlapping TOTP enrolments can both end up active although `enrollTotp`
  refuses a second one (mfa.service.ts:60-66, 88), and a fill of the provider cache
  can generate a key "if none exist" when create or another fill has just inserted
  one (oidc-idp.service.ts:61-66).
- `consumed` is asked by POST /oauth/introspect only, so a code or a rotated
  refresh token that was exchanged can be exchanged again, and DELETE of an
  application leaves its cached instance answering (OidcTokens).
- POST /oauth/revoke, the revocation endpoint that the discovery documents name,
  writes that same column, of the row whose id a JWT carries, and answers
  "revoked" (oauth.controller.ts:216-232).  Of a refresh token, which is no JWT,
  it changes nothing, and the column does not stop an exchange either: the token
  goes on working, where `src/apps/web/src/app/docs/api-data/applications.ts:1670`
  says "Immediately revoke an access token or refresh token".  `RevokeToken` is
  the revocation endpoint of the provider itself.
- isUserAuthorizedForApp asks two questions; a user who is moved from a group's
  assignment to one of his own between them is refused.
- USER_ADMIN and ORG_ADMIN may suspend a SUPER_ADMIN, since only a change of role
  compares ranks (users.service.ts:200-205).
- A SCIM "replace" without a path, also one that only renames the group, empties
  the group (scim.service.ts:435-439; `PatchGroup` has it).
- An address that is no IPv4 address counts as 0.0.0.0 in a range, and a time
  window over midnight is empty (policy.service.ts:291-306).
- `MfaEnforcementGuard`, `clearIdpCache`, `isIpTrusted` and `ensureDefaults` have
  no caller.

Two overlapping requests are the smallest number with a race, and each property
relates at most two.  Two accounts, two enrolments, two batches, two secrets and
two keys give each operation an old and a new value: create's key or one that a
fill generates when create was cut off, and that of a rotation in between.  The
theorems below lift the properties of every passing run but `auth_returns` to
any numbers, so there the bounds limit only the search for counterexamples; that
a link's owner is not mixed up with another user, which one account cannot show,
is `LinkGrantsAreJustified` for any number of users, and `GrantLifeImplemented`
holds for any number of grants beside each other.

In the other modules: a grant's rows carry its id and never meet another
grant's, so one grant is enough for `oidc_tokens`; its three tokens are a code
and the two that a request yields.  One group and one application give links of
all three tables, two users a list with more than one element, and the two
requests every pair of handlers (`memberships`).  Two accounts are an actor and a
target that may change places, three roles one above all, one that may
administer and one that may not (`directory`).  A decision rests on at most two
policies that disagree and a third with their priorities or between them
(`MaxRows`); octets of one bit keep the sign bit, every boundary between octets
and every prefix length in integers of four bits, and the theorem has octets of
any number of bits, so the code's eight (`policy_eval`).  Two requests,
two keys and two values are the smallest overlap that can lose a setting, a third
token a generation after two rows exist (`on_demand`).

`CHECK_DEADLOCK FALSE` stands in `memberships` only, where everything may have
been removed.

Symmetry is used in the runs that check safety only; `auth_returns` has none,
nor has `policy_eval`, whose rows are records.

Fairness (`AuthService!Fairness`): weak fairness of every request's next step,
because the event loop resumes every handler whose awaited promise settles, and
of the expiry of sessions, which time brings about, so that the model's few
session slots are freed.  Nothing makes clients or administrators act.

## Proofs

`AuthServiceProofs` proves `TypeCorrect` (`Spec => []TypeOK`) and, resting on it,

- `HandlersEstablished`: `Spec => []RequestsEstablished`, the inductive
  invariant.  None of the properties is inductive: each speaks of the last step
  of a handler and depends on what earlier steps read.  `Established(r)` says,
  per program counter, what a handler that is waiting has on record: the link it
  accepted is its user's and, past the mark, marked; the token it drew is nobody
  else's; the row it read was entitling (in `seen`, which only grows while the
  request runs).  The rest of the proof is that other requests' steps and the
  environment cannot take that away (`OthersEstablished`), one lemma for calls,
  one for resumed steps, one for the environment;
- from it, the action properties `PasswordGrantsAreJustified`,
  `LinkGrantsAreJustified`, `SecondFactorIsRespected`,
  `PasswordWritesAreJustified` and `SpentLinksAreDead`, each by finding the one
  action that can do what the property speaks of.

`MfaServiceProofs` has three invariants, each proved once for calls, once for
resumed steps and once for the steps without a request:

- `MethodInv`: a handler that enrols holds a row that is not inserted and that
  no other request knows (`HandOf`), the other TOTP handlers hold inserted rows,
  and `EnableMfa` waits only after a passkey was inserted.  Without it
  `CreatePending` could overwrite the verified row MFA rests on.  It gives
  `TypeCorrect`, `MethodBehindMfa` and `LockoutCause`.
- `CodeInv`: every backup code belongs to one row: lists of different rows, and
  the lists that handlers of different rows hold, are disjoint.  So the list a
  `Splice` writes back can revive codes of its own row only, and those the
  handler had in hand: `SpentCodesAreDead`.
- `NonceInv`: a challenge a handler holds is not in the entry of the other kind,
  and once it was verified not in its own: `SpentNoncesAreDead`.

`ProviderCacheProofs` has one invariant, `Inv`: what each request in progress
holds is `Sound`.  Its keys are rows, and unless a clear overtook it, its grant
settings are the row's (or a clear is pending) and its keys include every
announced one.  This is claimed until the request has answered, since the
provider's own endpoint asks nothing else.  An overtaken instance is excepted
because it may hold anything old, as described above.  What an instance grants
`stood` in the row (`GrantStood`), and the histories know of the row as it is
(`Met`).  So of a token that `ProviderToken` yields for the secret of the row, from
an instance that was not overtaken and with no clear pending, the grant is the
row's too, and the request is entitled (`GrantIsJustified`).  It gives `TypeCorrect`,
`SigningKeysPersist`, `StaleOnlyWhenOvertaken` and `TokensAreJustified`.

`OidcTokensProofs` has one invariant, `IInv`.  To `TypeOK` and
`LeftoversExplained`, which is not inductive by itself, it adds what a request
may rely on where it stands (`Sound`: a browser's request has met its
assignment; an exchange holds a token that was saved, and the token it is about
to answer for is used up unless it is a refresh token that is kept), that a row
that is there has a type and a grant (`RowsSound`), and what a revocation under
way has passed over (`RevocationsSound`: a row of a type it has ticked off was
saved meanwhile and is marked so).  Without the last, nothing says
that the rows which remain when the last type is ticked off are only those that
`LeftoversExplained` accounts for.  It gives `TypeCorrect`,
`LeftoversAlwaysExplained`, `GrantsOnlyEverForAssigned` and
`NothingEverForRemovedUsers`.  `GrantLifeImplemented` is the refinement: the
initial states map to GrantLife's, and of every action one lemma says which step
of GrantLife, or which stutter, it maps to; the invariant is what shows that a
request that yields a token began while the grant it names was live.

`DirectoryProofs` has one invariant of three layers.  `RequestsSound` says what
a request is about.  `CeilingSound`: while no SUPER_ADMIN acts no account is
above the `ceiling` of the start, no actor under way is a SUPER_ADMIN, and the
role about to be written is below the ceiling (the check was made with an actor's
role that may have changed since, but not to more than the ceiling).
`EldersSound`: a request about one who was SUPER_ADMIN knows so before it is
allowed, and is not allowed a change of role or a removal.  `TopRankClosed` and
`SuperAdminsStand` speak of rows only and do not follow from themselves: the
harm would be done by a write that was allowed earlier.  `StatusAlwaysAsAsked`
and `IdentityAlwaysOfOrigin` need the first layer.

`OnDemandProofs` has one invariant.  `ReadSound(r)` is what the mark `late` is
worth: a request that is not late finds what it read, the settings it merged
into, no row for SCIM, no certificate.  `CacheSound(r)`: until two certificates
were stored, the one a request is about to cache is the row's.  `OneToken`:
until twins, there is at most one row for SCIM and its token is the latest, of
which `OldTokensDieUnlessTwins` alone would not survive an update of a second
row.  The proof is that a write makes all late that read before it
(`WroteEffect`, `SoundKept`), and that a store that is not late is the first
(`NoneNamed`).  `ChosenPolicyAlwaysStays` needs no invariant but the unique key
in the guard.

`MembershipsProofs` has one invariant.  `Settled` speaks only of links nobody is
working on; `LinkSound(l)` says what holds before: what each writer wants is in
the history (`Voiced`), and either the link is what some writer wanted (`Holds`)
or one of the writers has yet to decide it (`Owes`).  It is not enough to ask
that every writer has: an `addMembers` that found the member there owes nothing,
and a `setUsers` may have deleted the row since; then it is `setUsers` that owes
the answer, and creates the row or fails.  It is claimed of links that are
`Alive`, whose ends exist or may still come, since a SCIM group may be created
while another handler's scope already includes it, and a link with an end that
was deleted never matters again.  `PlaceSound(r)` adds that the users a SCIM
request lists cannot come later, and that a row found is there
(`FoundRowsAlwaysStand`), so that `RemovalAlwaysHitsTheRowFound` speaks of real
rows.

`PolicyEvalProofs` proves what the state says by an invariant and what the
operators compute by lemmas about them.

- `TablesFinite` is the inductive invariant: `TypeOK` bounds the number of rows,
  and a number of rows that grows by one takes a set that is finite.  What is said
  of answers rests on it too, since only a finite table has an order.
- Recursive functions: a lemma that quantifies over operators cannot be cited, so
  `Induction`, `LeastNumber` and `RecursionExists` (a function that satisfies its
  equations exists) are stated for sets and functions, and proved from the
  library's well-foundedness of the numbers.
- `DenyAlwaysOverrides` and `MatchedAlwaysExplains`: `Explains` is what the loop
  knows after so many turns (the answer names a row with its effect and the highest
  priority of those that apply, and no DENY was passed over), `LoopExplains` that
  every turn keeps it, and `OrderCoversRows` that an order of the rows has all of
  them.
- `SilenceEvadesThose`: `ipRange` and `geoLocations` hold of a question without an
  address and a location, and nothing else in a policy looks at them but an
  equality, which cannot hold of what is not told.
- `TrustedAlwaysByPrefix`: two numbers are the same to `&` when their remainders
  are (`SameBits`), so an address is its four octets as digits, whatever sign `<<`
  gave it (`IpToNumSameBits`); a mask has the high bits and no others
  (`MaskBits`); so two masked numbers agree just when the high bits do (`SameAnd`),
  and a digit's bits are the octet's (`ValueBits`).  Powers of two have no library
  of their own: they count the subsets of an interval (`PowerCounts`).
- `ResourceMatchesBySpelling`: that a pattern can be laid over a text satisfies
  the equations of matchesResource (`SpellingEquations`), which have one solution
  (`EquationsDecide`, by what is left of the two texts).

The inductive invariants of these last five modules hold in TLC on the instances
of their runs too; `RequestsEstablished` is one that a run checks by itself.

Assumptions, which TLC evaluates in every run: `None` (null) is none of the data
(`AuthAssumption`, `MfaAssumption`, `ProviderAssumption`, `OidcAssumption`,
`OnDemandAssumption`; in `DirectoryAssumption` also no weight of a role, since
`ceiling` holds one or the other); directory users are users, a batch has at
least one code, and codes are not challenges; READ_ONLY_ADMIN, which SCIM and
sign-ins give, is among the roles; a map of settings is not null and no
certificate is one of the words that stand for none in `pair`; users, groups and
applications have different ids (`MembershipsAssumption`); null and NaN are no
numbers and null no policy, an octet has at least one bit (`PolicyEvalAssumption`);
a policy allows or denies, has an integer priority and asks by equality for fields
of the context, for values that are not null, and a question has its six fields
(`RowsAssumption`); a zone's ranges are well-formed (`ZonesAssumption`).

Only model-checked: liveness (`RequestsReturn`), which needs ENABLED, and the three
violations, whose counterexamples TLC gives.

## Not modelled

- The web frontend, its documentation pages and the shared types, some 35,000 of
  the repository's 50,000 lines: pages and forms over the API without state the
  backend relies on.  The share of lines the modules account for is therefore
  small, and of the backend's services that keep state, large.
- Audit, security metrics, statistics, guides: they append or read, and no handler
  depends on them.  AI agents, DPoP and the rate limits check one request's
  headers, or are the throttler's.
- Protocol messages (OIDC, SAML, WebAuthn, LDAP) are their libraries'; their
  answers are any value of their kind.
- Configuration edits that write one row unread (scopes, claims, SSO providers,
  password policies, names), listings, mails.
- Introspection, which only reads, POST /oauth/revoke, whose mark only
  introspection asks, and the password grant, which is passed to oidc-provider.
- onboard.service, which no request reaches.

## Plan

What is left to compose: Memberships under OidcTokens' `assigned`, with the two
queries of isUserAuthorizedForApp as steps.
