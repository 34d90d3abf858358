--------------------------- MODULE ProviderCache ---------------------------
(***************************************************************************)
(* One OIDC application as the identity provider sees it: its row and      *)
(* signing keys in the database, and the oidc-provider instance built from *)
(* them and kept in memory, modules/sso/services/oidc-idp.service.ts.  The *)
(* administrators' operations are those of                                 *)
(* modules/application/application.service.ts, the clients' the token      *)
(* endpoint of oauth.controller.ts, which checks the row, and those of     *)
(* oidc-idp.controller.ts, which dispatch to the provider as it is, its    *)
(* token endpoint too.  Applications share nothing in this, so one stands  *)
(* for all; it is a confidential client.                                   *)
(*                                                                         *)
(* Filling the cache takes several awaits; clearing it takes none, and     *)
(* comes some time after the write it is for.                              *)
(***************************************************************************)
EXTENDS Naturals, FiniteSets

CONSTANTS
  Secret,    \* client secrets; a secret and its SHA-256 hash are one
  Key,       \* signing keys
  Request,   \* slots for requests in progress at the same time
  None

ASSUME ProviderAssumption == None \notin Secret \cup Key

VARIABLES
  app,        \* the Application row
  keys,       \* its OidcSigningKey rows
  cache,      \* providerInstances: the instance, or None
  req,        \* the requests in progress
  drawn,      \* history: the secrets and keys already drawn
  announced,  \* history: the keys whose rotation was reported successful
  signed,     \* history: the keys that signed a token
  seen,       \* history: the requests that met a state entitling them to a token
  stood       \* history: the secrets that stood in the row with the grant allowed

vars == <<app, keys, cache, req, drawn, announced, signed, seen, stood>>

-----------------------------------------------------------------------------
(* allowClientCredentials stands for the grant settings, the ones update   *)
(* clears the cache for.                                                   *)

NoRow(status) == [status |-> status, clientSecretHash |-> None,
                  allowClientCredentials |-> FALSE]

AppRow == [status : {"ACTIVE"}, clientSecretHash : Secret, allowClientCredentials : BOOLEAN]
            \cup {NoRow("absent"), NoRow("removed")}

\* What an instance captured when it was built; overtaken is history: the cache
\* was cleared while a request had this instance in hand.
Instance == [clientSecretHash : Secret \cup {None},
             allowClientCredentials : BOOLEAN,
             jwks : SUBSET Key,
             overtaken : BOOLEAN]

Op == {"create", "update", "rotateSigningKey", "token", "providerToken", "dispatch"}

\* The two endpoints that answer with a token.
TokenOps == {"token", "providerToken"}

PC == {"key", "write", "clear", "demote", "provider", "fill", "keys", "generate",
       "build", "serve"}

RequestState == [pc : PC, op : Op,
                 value : BOOLEAN,
                 secret : Secret \cup {None},
                 key : Key \cup {None},
                 instance : Instance]

Idle == [pc |-> "idle"]

NoInstance == [clientSecretHash |-> None, allowClientCredentials |-> FALSE,
               jwks |-> {}, overtaken |-> FALSE]

TypeOK ==
  /\ app \in AppRow
  /\ keys \subseteq Key
  /\ cache \in Instance \cup {None}
  /\ req \in [Request -> RequestState \cup {Idle}]
  /\ drawn \subseteq Secret \cup Key
  /\ announced \subseteq Key
  /\ signed \subseteq Key
  /\ seen \subseteq Request
  /\ stood \subseteq Secret

Init ==
  /\ app = NoRow("absent")
  /\ keys = {}
  /\ cache = None
  /\ req = [r \in Request |-> Idle]
  /\ drawn = {}
  /\ announced = {}
  /\ signed = {}
  /\ seen = {}
  /\ stood = {}

-----------------------------------------------------------------------------
(* Helpers.                                                                *)

Active(r)  == req[r] # Idle
At(r, pc)  == Active(r) /\ req[r].pc = pc
Present    == app.status = "ACTIVE"

Start(r, pc, op, value, secret, key) ==
  /\ req[r] = Idle
  /\ req' = [req EXCEPT ![r] = [pc |-> pc, op |-> op, value |-> value, secret |-> secret,
                                key |-> key, instance |-> NoInstance]]

\* r goes on with the instance it has read so far.
Holding(r, pc, instance) ==
  [pc |-> pc, op |-> req[r].op, value |-> req[r].value, secret |-> req[r].secret,
   key |-> req[r].key, instance |-> instance]

Carry(r, pc, instance) == req' = [req EXCEPT ![r] = Holding(r, pc, instance)]

Goto(r, pc) == Carry(r, pc, req[r].instance)
Return(r)   == req' = [req EXCEPT ![r] = Idle]

SettingsOf(row) ==
  [clientSecretHash |-> row.clientSecretHash,
   allowClientCredentials |-> row.allowClientCredentials,
   jwks |-> {}, overtaken |-> FALSE]

WithKeys(instance, jwks) ==
  [clientSecretHash |-> instance.clientSecretHash,
   allowClientCredentials |-> instance.allowClientCredentials,
   jwks |-> jwks, overtaken |-> instance.overtaken]

Overtaken(instance) ==
  [clientSecretHash |-> instance.clientSecretHash,
   allowClientCredentials |-> instance.allowClientCredentials,
   jwks |-> instance.jwks, overtaken |-> TRUE]

\* The requests with an instance in hand: they build it from what they read, or
\* are about to answer with it.
InHand(r) == Active(r) /\ req[r].pc \in {"keys", "generate", "build", "serve"}

\* The row entitles r to a token by client credentials.
Entitled(r) ==
  /\ Active(r) /\ req[r].op \in TokenOps
  /\ Present
  /\ req[r].secret = app.clientSecretHash
  /\ app.allowClientCredentials

\* A write of a grant setting, or a rotation, that is still to clear the cache.
ClearPending == \E r \in Request : At(r, "clear")

\* History: every request collects what it meets from its first read on.
Observe ==
  /\ seen' = {r \in Request : Active(r)' /\ ((Active(r) /\ r \in seen) \/ Entitled(r)')}
  /\ stood' = stood \cup IF Present' /\ app'.allowClientCredentials
                          THEN {app'.clientSecretHash} ELSE {}

-----------------------------------------------------------------------------
(* The administrators.                                                     *)

CreateApplication(r, s) ==
  /\ app.status = "absent"
  /\ s \notin drawn
  /\ Start(r, "key", "create", FALSE, None, None)
  /\ \E grant \in BOOLEAN :
       app' = [status |-> "ACTIVE", clientSecretHash |-> s, allowClientCredentials |-> grant]
  /\ drawn' = drawn \cup {s}
  /\ UNCHANGED <<keys, cache, announced, signed>>
  /\ Observe

\* The key is generated; its insert fails on the foreign key when the application
\* was removed.
InsertKey(r, k) ==
  /\ At(r, "key")
  /\ k \notin drawn
  /\ keys' = IF Present THEN keys \cup {k} ELSE keys
  /\ drawn' = drawn \cup {k}
  /\ Return(r)
  /\ UNCHANGED <<app, cache, announced, signed>>
  /\ Observe

Update(r, grant) ==
  /\ Present
  /\ Start(r, "write", "update", grant, None, None)
  /\ UNCHANGED <<app, keys, cache, drawn, announced, signed>>
  /\ Observe

\* The update throws when the row is gone.
WriteOnly(r) ==
  /\ At(r, "write")
  /\ app' = IF Present THEN [app EXCEPT !.allowClientCredentials = req[r].value] ELSE app
  /\ Return(r)
  /\ UNCHANGED <<keys, cache, drawn, announced, signed>>
  /\ Observe

WriteAnyRow(r) ==
  /\ At(r, "write")
  /\ app' = [app EXCEPT !.allowClientCredentials = req[r].value]
  /\ Goto(r, "clear")
  /\ UNCHANGED <<keys, cache, drawn, announced, signed>>
  /\ Observe

WriteSettings(r) ==
  /\ At(r, "write")
  /\ IF Present
     THEN /\ app' = [app EXCEPT !.allowClientCredentials = req[r].value]
          /\ Goto(r, "clear")
     ELSE UNCHANGED app /\ Return(r)
  /\ UNCHANGED <<keys, cache, drawn, announced, signed>>
  /\ Observe

\* Deleting the entry also marks, as history, the instances in hand.
ClearProviderCache(r) ==
  /\ At(r, "clear")
  /\ cache' = None
  /\ req' = [q \in Request |->
               CASE q = r -> Idle
                 [] InHand(q) -> Holding(q, req[q].pc, Overtaken(req[q].instance))
                 [] OTHER -> req[q]]
  /\ announced' = IF req[r].op = "rotateSigningKey" THEN announced \cup {req[r].key}
                  ELSE announced
  /\ UNCHANGED <<app, keys, drawn, signed>>
  /\ Observe

\* The old rows stop being the default, which nothing the provider does reads.
RotateSigningKey(r, k) ==
  /\ Present
  /\ k \notin drawn
  /\ Start(r, "demote", "rotateSigningKey", FALSE, None, k)
  /\ drawn' = drawn \cup {k}
  /\ UNCHANGED <<app, keys, cache, announced, signed>>
  /\ Observe

InsertAfterClearing(r) ==
  /\ At(r, "demote")
  /\ Goto(r, "clear")
  /\ cache' = None
  /\ UNCHANGED <<app, keys, drawn, announced, signed>>
  /\ Observe

InsertRotatedKey(r) ==
  /\ At(r, "demote")
  /\ IF Present
     THEN /\ keys' = keys \cup {req[r].key}
          /\ Goto(r, "clear")
     ELSE UNCHANGED keys /\ Return(r)
  /\ UNCHANGED <<app, cache, drawn, announced, signed>>
  /\ Observe

\* One write after the existence check; the cache is left as it is.
RotateSecret(s) ==
  /\ Present
  /\ s \notin drawn
  /\ app' = [app EXCEPT !.clientSecretHash = s]
  /\ drawn' = drawn \cup {s}
  /\ UNCHANGED <<keys, cache, req, announced, signed>>
  /\ Observe

\* oidc-config's createSigningKey: an insert, the cache is left as it is.
CreateSigningKey(k) ==
  /\ Present
  /\ k \notin drawn
  /\ keys' = keys \cup {k}
  /\ drawn' = drawn \cup {k}
  /\ UNCHANGED <<app, cache, req, announced, signed>>
  /\ Observe

\* The keys go with the row; the cache is left as it is.
Remove ==
  /\ Present
  /\ app' = NoRow("removed")
  /\ keys' = {}
  /\ UNCHANGED <<cache, req, drawn, announced, signed>>
  /\ Observe

-----------------------------------------------------------------------------
(* The clients.                                                            *)

\* POST /oauth/token with grant_type=client_credentials: the controller checks
\* secret and grant against the row it reads.
Token(r, s) ==
  /\ Present
  /\ s = app.clientSecretHash
  /\ app.allowClientCredentials
  /\ Start(r, "provider", "token", FALSE, s, None)
  /\ UNCHANGED <<app, keys, cache, drawn, announced, signed>>
  /\ Observe

\* POST sso/oidc-idp/:appId/token: straight to the provider, whose client's
\* secret is the hash; nobody reads the row.
ProviderToken(r, s) ==
  /\ app.status # "absent"
  /\ s \in drawn
  /\ Start(r, "provider", "providerToken", FALSE, s, None)
  /\ UNCHANGED <<app, keys, cache, drawn, announced, signed>>
  /\ Observe

\* jwks, discovery, userinfo, authorize, end-session: likewise, and what they
\* answer is no token by client credentials.
Dispatch(r) ==
  /\ app.status # "absent"
  /\ Start(r, "provider", "dispatch", FALSE, None, None)
  /\ UNCHANGED <<app, keys, cache, drawn, announced, signed>>
  /\ Observe

\* getProviderInstance: a hit is served at once.
LookUp(r) ==
  /\ At(r, "provider")
  /\ IF cache # None THEN Carry(r, "serve", cache) ELSE Goto(r, "fill")
  /\ UNCHANGED <<app, keys, cache, drawn, announced, signed>>
  /\ Observe

\* The row is read; "Application not found" ends the request.
ReadApplication(r) ==
  /\ At(r, "fill")
  /\ IF Present
     THEN Carry(r, "keys", SettingsOf(app))
     ELSE Return(r)
  /\ UNCHANGED <<app, keys, cache, drawn, announced, signed>>
  /\ Observe

\* The token policy is inserted when missing, which fails once the application
\* is gone; scopes and claims are read and not used.
ReadKeys(r) ==
  /\ At(r, "keys")
  /\ \/ Carry(r, IF keys = {} THEN "generate" ELSE "build", WithKeys(req[r].instance, keys))
     \/ ~Present /\ Return(r)
  /\ UNCHANGED <<app, keys, cache, drawn, announced, signed>>
  /\ Observe

GenerateUnsaved(r, k) ==
  /\ At(r, "generate")
  /\ k \notin drawn
  /\ Carry(r, "build", WithKeys(req[r].instance, {k}))
  /\ drawn' = drawn \cup {k}
  /\ UNCHANGED <<app, keys, cache, announced, signed>>
  /\ Observe

GenerateAndPersistSigningKey(r, k) ==
  /\ At(r, "generate")
  /\ k \notin drawn
  /\ IF Present
     THEN /\ keys' = keys \cup {k}
          /\ Carry(r, "build", WithKeys(req[r].instance, {k}))
     ELSE UNCHANGED keys /\ Return(r)
  /\ drawn' = drawn \cup {k}
  /\ UNCHANGED <<app, cache, announced, signed>>
  /\ Observe

\* The class is loaded, the instance built and put into the cache, whatever the
\* cache holds by now.
Build(r) ==
  /\ At(r, "build")
  /\ cache' = req[r].instance
  /\ Goto(r, "serve")
  /\ UNCHANGED <<app, keys, drawn, announced, signed>>
  /\ Observe

\* oidc-provider: the client is authenticated by the hash in the request (put
\* there by oauth.controller, or by the client), the grant must be one of the
\* client's, and one of the instance's keys signs.
Grants(r) ==
  /\ req[r].op \in TokenOps
  /\ req[r].secret = req[r].instance.clientSecretHash
  /\ req[r].instance.allowClientCredentials

Serve(r) ==
  /\ At(r, "serve")
  /\ IF Grants(r)
     THEN \E k \in req[r].instance.jwks : signed' = signed \cup {k}
     ELSE UNCHANGED signed
  /\ Return(r)
  /\ UNCHANGED <<app, keys, cache, drawn, announced>>
  /\ Observe

-----------------------------------------------------------------------------
\* The process stops and comes back: the cache and the requests are gone.
Restart ==
  /\ cache' = None
  /\ req' = [r \in Request |-> Idle]
  /\ UNCHANGED <<app, keys, drawn, announced, signed>>
  /\ Observe

Call(r) ==
  \/ \E s \in Secret : CreateApplication(r, s)
  \/ \E grant \in BOOLEAN : Update(r, grant)
  \/ \E k \in Key : RotateSigningKey(r, k)
  \/ \E s \in Secret : Token(r, s) \/ ProviderToken(r, s)
  \/ Dispatch(r)

Resume(r) ==
  \/ \E k \in Key : InsertKey(r, k)
  \/ WriteSettings(r)
  \/ ClearProviderCache(r)
  \/ InsertRotatedKey(r)
  \/ LookUp(r)
  \/ ReadApplication(r)
  \/ ReadKeys(r)
  \/ \E k \in Key : GenerateAndPersistSigningKey(r, k)
  \/ Build(r)
  \/ Serve(r)

AtOnce ==
  \/ \E s \in Secret : RotateSecret(s)
  \/ \E k \in Key : CreateSigningKey(k)
  \/ Remove
  \/ Restart

Next == (\E r \in Request : Call(r) \/ Resume(r)) \/ AtOnce

Spec == Init /\ [][Next]_vars

-----------------------------------------------------------------------------
(* Properties.                                                             *)

\* What the provider's own endpoint goes by when the row does not entitle the
\* request: the row's secret is another by now, or the instance is behind a write.
Outlived(r) ==
  /\ req[r].op = "providerToken"
  /\ \/ req[r].secret # app.clientSecretHash
     \/ req[r].instance.overtaken
     \/ ClearPending

\* A token is issued for a secret that once stood in the row with the grant
\* allowed.  POST /oauth/token issues it only to a request that met such a row
\* while it ran (oauth.controller.ts:63-112).  The provider's own endpoint asks the
\* instance alone (oidc-idp.controller.ts:141-155): it goes on for a secret that was
\* rotated or whose row is gone, but with the secret of the row only if the row
\* entitles to it, or a clear is pending or overtook the instance
\* (oidc-idp.service.ts:41-57, 251; application.service.ts:195-234).
TokensJustified ==
  [][\A r \in Request :
       At(r, "serve") /\ ~Active(r)' /\ signed' # signed =>
         /\ req[r].secret \in stood
         /\ r \in seen \/ Outlived(r)]_vars

\* Whatever signed a token, or is about to, is in the database as long as the
\* application is: a restarted process publishes it again, and the tokens stay
\* verifiable (oidc-idp.service.ts:61-66, 259-275; application.service.ts:284-311).
SignedByPersistedKey ==
  Present => signed \cup (IF cache = None THEN {} ELSE cache.jwks) \subseteq keys

\* An instance whose construction was not overtaken by a clear has the grant
\* settings of the row and every key of a completed rotation, except between a
\* write and the clear that goes with it (application.service.ts:195-234,
\* 292-311; oidc-idp.service.ts:41-57, 251).
UnovertakenIsCurrent ==
  cache # None /\ ~cache.overtaken /\ Present =>
    /\ ~ClearPending => cache.allowClientCredentials = app.allowClientCredentials
    /\ announced \subseteq cache.jwks

\* "Generate a new client secret for an application, invalidating the previous
\* one." (apps/web/src/app/docs/api-data/applications.ts:802): a token request
\* with the secret of the row, which the controller let pass, is authenticated by
\* the instance it is served by (application.service.ts:239-263).
CurrentSecretAccepted ==
  [][\A r \in Request :
       Serve(r) /\ Entitled(r) /\ req[r].op = "token" =>
         req[r].secret = req[r].instance.clientSecretHash]_vars
=============================================================================
