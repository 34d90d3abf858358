------------------------------- MODULE OnDemand -------------------------------
(***************************************************************************)
(* Rows made the first time somebody needs them: the settings of the       *)
(* organization (AppConfig), the SCIM token (DirectoryConfig) and, of one  *)
(* application, the token policy (OidcTokenPolicy) and the certificate of  *)
(* its SAML identity provider, whose instances are cached in memory.       *)
(*                                                                         *)
(* Each handler looks for the row, awaits, and makes it when it was not    *)
(* there.  What guards against a second request doing the same differs:    *)
(* AppConfig and OidcTokenPolicy have a unique key, DirectoryConfig and    *)
(* the certificate have none.                                              *)
(*                                                                         *)
(* Reads that find their row change nothing and are left out, and so are   *)
(* the columns that one update sets without reading them.                  *)
(***************************************************************************)
EXTENDS FiniteSets

CONSTANTS
  Keys,      \* of customLoginConfig
  Values,    \* what they are set to
  Tokens,    \* SCIM tokens; two generations never draw the same one
  Certs,     \* certificates, each with its encrypted key
  Requests,  \* slots for requests in progress
  None       \* null

ASSUME OnDemandAssumption ==
  /\ None \notin Values \cup Tokens \cup Certs \cup Requests
  /\ None \notin [Keys -> Values \cup {None}]
  /\ Certs \cap {"none", "placeholder", "gone"} = {}

VARIABLES
  settings,   \* customLoginConfig, None without a row of AppConfig
  scim,       \* scimToken of the row that a request inserted, None without one
  policy,     \* the OidcTokenPolicy of the application
  pair,       \* samlCertificate and samlPrivateKey of the application
  idp,        \* the certificate of the application's entry in idpInstances
  req,        \* the requests in progress
  published,  \* history: the certificates in metadata that was answered
  latest,     \* history: the token that was stored last
  twins,      \* history: two requests each inserted a row for SCIM
  doubled     \* history: two requests each stored a certificate

vars == <<settings, scim, policy, pair, idp, req, published, latest, twins, doubled>>

Setting == [Keys -> Values \cup {None}]
Empty == [k \in Keys |-> None]

PC == {"idle", "createConfig", "writeConfig", "updateToken", "createToken", "createPolicy",
       "readPair", "storePair", "cacheIdp"}

\* late: another request wrote what this one works on, since this one read it.
Request == [pc : PC, asked : Setting, merged : Setting, row : Requests \cup {None},
            token : Tokens \cup {None}, cert : Certs \cup {None}, late : BOOLEAN]

Idle == [pc |-> "idle", asked |-> Empty, merged |-> Empty, row |-> None, token |-> None,
         cert |-> None, late |-> FALSE]

\* A SCIM row holds a token, and a policy needs its application.
TypeOK ==
  /\ settings \in Setting \cup {None}
  /\ scim \in [Requests -> Tokens \cup {None}]
  /\ policy \in {"absent", "default", "chosen"}
  /\ pair \in Certs \cup {"none", "placeholder", "gone"}
  /\ pair = "gone" => policy = "absent"
  /\ idp \in Certs \cup {None}
  /\ req \in [Requests -> Request]
  /\ \A r \in Requests : req[r].pc = "updateToken" => scim[req[r].row] # None
  /\ published \in SUBSET Certs
  /\ latest \in Tokens \cup {None}
  /\ twins \in BOOLEAN
  /\ doubled \in BOOLEAN

\* Applications of type SAML are created with a placeholder in both columns,
\* the others with null.
Init ==
  /\ settings = None
  /\ scim = [r \in Requests |-> None]
  /\ policy = "absent"
  /\ pair \in {"none", "placeholder"}
  /\ idp = None
  /\ req = [r \in Requests |-> Idle]
  /\ published = {}
  /\ latest = None
  /\ twins = FALSE
  /\ doubled = FALSE

------------------------------------------------------------------------------

Waits(r, pc) == req[r].pc = pc
Begin(r, request) == Waits(r, "idle") /\ req' = [req EXCEPT ![r] = request]
Return(r) == req' = [req EXCEPT ![r] = Idle]

\* What the requests work on, by where they stand.
OnSettings == {"writeConfig"}
OnToken == {"createToken"}
OnPair == {"storePair", "cacheIdp"}

\* A write of r: it goes on as next, and those that read before are late.
Wrote(r, next, area) ==
  req' = [s \in Requests |->
    IF s = r THEN next
    ELSE [req[s] EXCEPT !.late = @ \/ req[s].pc \in area]]

------------------------------------------------------------------------------
(* Settings of the organization *)

NoSetting == UNCHANGED <<scim, policy, pair, idp, published, latest, twins, doubled>>

\* A bug: what the request did not name is dropped.
MergeNothing(old, asked) == asked

Merge(old, asked) == [k \in Keys |-> IF asked[k] = None THEN old[k] ELSE asked[k]]

\* GET /org, GET /settings and GET /config (asked = Empty) and PUT /org with
\* custom settings, which get() the row first.
Get(r, asked) ==
  /\ settings = None
  /\ Begin(r, [Idle EXCEPT !.pc = "createConfig", !.asked = asked])
  /\ UNCHANGED settings
  /\ NoSetting

UpdateOrg(r, asked) ==
  /\ settings # None
  /\ asked # Empty
  /\ Begin(r, [Idle EXCEPT !.pc = "writeConfig", !.asked = asked,
                           !.merged = Merge(settings, asked)])
  /\ UNCHANGED settings
  /\ NoSetting

\* The id is unique: whoever comes second throws.
CreateConfig(r) ==
  /\ Waits(r, "createConfig")
  /\ IF settings = None
       THEN /\ settings' = Empty
            /\ req' = [req EXCEPT ![r] =
                 IF @.asked = Empty THEN Idle
                 ELSE [@ EXCEPT !.pc = "writeConfig", !.merged = req[r].asked]]
       ELSE Return(r) /\ UNCHANGED settings
  /\ NoSetting

WriteConfig(r) ==
  /\ Waits(r, "writeConfig")
  /\ settings' = req[r].merged
  /\ Wrote(r, Idle, OnSettings)
  /\ NoSetting

\* PUT /settings and PUT /config give customLoginConfig as a whole, in one
\* update, which throws without the row.
ReplaceSettings(r, whole) ==
  /\ Waits(r, "idle")
  /\ settings # None
  /\ settings' = whole
  /\ Wrote(r, Idle, OnSettings)
  /\ NoSetting

------------------------------------------------------------------------------
(* The SCIM token *)

NoToken == UNCHANGED <<settings, policy, pair, idp, published, doubled>>

Rows == {s \in Requests : scim[s] # None}

\* Tokens that a row, a request or the history still holds are not drawn.
FreshTokens ==
  Tokens \ ({scim[s] : s \in Requests} \cup {req[s].token : s \in Requests} \cup {latest})

\* A bug: every generation inserts a row.
GenerateTokenAnew(r, token) ==
  /\ token \in FreshTokens
  /\ Begin(r, [Idle EXCEPT !.pc = "createToken", !.token = token])
  /\ UNCHANGED <<scim, latest, twins>>
  /\ NoToken

\* findFirst without an order takes any of the rows.
GenerateToken(r, token) ==
  /\ token \in FreshTokens
  /\ \/ /\ Rows = {}
        /\ Begin(r, [Idle EXCEPT !.pc = "createToken", !.token = token])
     \/ \E row \in Rows :
          Begin(r, [Idle EXCEPT !.pc = "updateToken", !.token = token, !.row = row])
  /\ UNCHANGED <<scim, latest, twins>>
  /\ NoToken

UpdateToken(r) ==
  /\ Waits(r, "updateToken")
  /\ scim' = [scim EXCEPT ![req[r].row] = req[r].token]
  /\ latest' = req[r].token
  /\ Return(r)
  /\ UNCHANGED twins
  /\ NoToken

CreateToken(r) ==
  /\ Waits(r, "createToken")
  /\ scim' = [scim EXCEPT ![r] = req[r].token]
  /\ latest' = req[r].token
  /\ twins' = (twins \/ req[r].late)
  /\ Wrote(r, Idle, OnToken)
  /\ NoToken

\* validateToken: findFirst may take any row, and compares its token.
Accepted == {scim[s] : s \in Rows}

------------------------------------------------------------------------------
(* The token policy of an application *)

NoPolicy == UNCHANGED <<settings, scim, pair, idp, published, latest, twins, doubled>>

\* Building a provider and reading the configuration both need a policy.
GetTokenPolicy(r) ==
  /\ policy = "absent"
  /\ Begin(r, [Idle EXCEPT !.pc = "createPolicy"])
  /\ UNCHANGED policy
  /\ NoPolicy

\* A bug: the default as an upsert.
CreateTokenPolicyAnyway(r) ==
  /\ Waits(r, "createPolicy")
  /\ policy' = IF pair # "gone" THEN "default" ELSE policy
  /\ Return(r)
  /\ NoPolicy

\* The unique key and the foreign key make the create throw.
CreateTokenPolicy(r) ==
  /\ Waits(r, "createPolicy")
  /\ policy' = IF policy = "absent" /\ pair # "gone" THEN "default" ELSE policy
  /\ Return(r)
  /\ NoPolicy

\* One upsert of the database.
UpdateTokenPolicy(r) ==
  /\ Waits(r, "idle")
  /\ pair # "gone"
  /\ policy' = "chosen"
  /\ UNCHANGED req
  /\ NoPolicy

------------------------------------------------------------------------------
(* The certificate and the instance of the SAML identity provider *)

NoPair == UNCHANGED <<settings, scim, latest, twins>>

\* Metadata, AuthnRequests and responses begin with getIdpInstance: a cached
\* one is served whether or not the application still exists.
ServeCached(r) ==
  /\ Waits(r, "idle")
  /\ idp # None
  /\ published' = published \cup {idp}
  /\ UNCHANGED <<policy, pair, idp, req, doubled>>
  /\ NoPair

GetIdpInstance(r) ==
  /\ idp = None
  /\ pair # "gone"
  /\ Begin(r, [Idle EXCEPT !.pc = "readPair"])
  /\ UNCHANGED <<policy, pair, idp, published, doubled>>
  /\ NoPair

\* Certificates that the row, the cache, a request or metadata hold are not drawn.
FreshCerts == Certs \ ({pair, idp} \cup {req[s].cert : s \in Requests} \cup published)

\* decryptPrivateKey cannot parse the placeholder and throws.  A row that has
\* gone reads like one without a pair.
ReadPair(r) ==
  /\ Waits(r, "readPair")
  /\ \/ pair = "placeholder" /\ Return(r)
     \/ pair \in Certs /\ req' = [req EXCEPT ![r].pc = "cacheIdp", ![r].cert = pair]
     \/ /\ pair \in {"none", "gone"}
        /\ \E cert \in FreshCerts :
             req' = [req EXCEPT ![r].pc = "storePair", ![r].cert = cert]
  /\ UNCHANGED <<policy, pair, idp, published, doubled>>
  /\ NoPair

\* A bug: the certificate is not stored.
KeepPair(r) ==
  /\ Waits(r, "storePair")
  /\ req' = [req EXCEPT ![r].pc = "cacheIdp"]
  /\ UNCHANGED <<policy, pair, idp, published, doubled>>
  /\ NoPair

StorePair(r) ==
  /\ Waits(r, "storePair")
  /\ IF pair = "gone"
       THEN Return(r) /\ UNCHANGED <<pair, doubled>>
       ELSE /\ pair' = req[r].cert
            /\ doubled' = (doubled \/ req[r].late)
            /\ Wrote(r, [req[r] EXCEPT !.pc = "cacheIdp"], OnPair)
  /\ UNCHANGED <<policy, idp, published>>
  /\ NoPair

CacheIdp(r) ==
  /\ Waits(r, "cacheIdp")
  /\ idp' = req[r].cert
  /\ published' = published \cup {req[r].cert}
  /\ Return(r)
  /\ UNCHANGED <<policy, pair, doubled>>
  /\ NoPair

\* A bug: the policy does not go with the application.
RemoveRowOnly ==
  /\ pair # "gone"
  /\ pair' = "gone"
  /\ UNCHANGED <<policy, idp, req, published, doubled>>
  /\ NoPair

\* The policy goes with the application; the instance stays, since nothing
\* calls clearIdpCache.
RemoveApplication ==
  /\ pair # "gone"
  /\ pair' = "gone"
  /\ policy' = "absent"
  /\ UNCHANGED <<idp, req, published, doubled>>
  /\ NoPair

\* The process ends: its requests and instances are lost, the rows stay.
Restart ==
  /\ idp' = None
  /\ req' = [r \in Requests |-> Idle]
  /\ UNCHANGED <<settings, scim, policy, pair, published, latest, twins, doubled>>

------------------------------------------------------------------------------

Next ==
  \/ \E r \in Requests :
       \/ \E asked \in Setting : Get(r, asked)
       \/ \E asked \in Setting : UpdateOrg(r, asked)
       \/ CreateConfig(r)
       \/ WriteConfig(r)
       \/ \E whole \in Setting : ReplaceSettings(r, whole)
       \/ \E token \in Tokens : GenerateToken(r, token)
       \/ UpdateToken(r)
       \/ CreateToken(r)
       \/ GetTokenPolicy(r)
       \/ CreateTokenPolicy(r)
       \/ UpdateTokenPolicy(r)
       \/ ServeCached(r)
       \/ GetIdpInstance(r)
       \/ ReadPair(r)
       \/ StorePair(r)
       \/ CacheIdp(r)
  \/ RemoveApplication
  \/ Restart

Spec == Init /\ [][Next]_vars

------------------------------------------------------------------------------

\* A setting changes only by a request that asked for it, by one that replaces
\* them all, or by one that read the settings before another wrote them
\* (org.controller.ts updateOrg writes back everything it read).
SettingsLostOnlyByOverlap ==
  [][\A k \in Keys : settings # None /\ settings'[k] # settings[k] =>
       \/ \E r \in Requests :
            /\ Waits(r, "writeConfig") /\ req'[r] = Idle
            /\ req[r].asked[k] # None \/ req[r].late
       \/ \A r \in Requests : req'[r].pc = req[r].pc]_vars

\* Until two first generations overlapped, no token is accepted but the one
\* stored last; from then on there are two rows and either may be compared
\* (scim.service.ts generateToken and validateToken).
OldTokensDieUnlessTwins == ~twins => Accepted \subseteq {latest}

\* What an administrator chose as token policy is never replaced by the
\* default that an overlapping read inserts (oidc-config.service.ts
\* getTokenPolicy).
ChosenPolicyStays == [][policy = "chosen" /\ policy' # "chosen" => pair' = "gone"]_vars

\* While the application exists and no two first requests overlapped, its
\* metadata names one certificate, whose key is in the row, through removals
\* of the instance by restarts; the placeholder of create is never served
\* (saml-idp.service.ts getOrCreateIdpCertificate).
MetadataStands == ~doubled /\ pair # "gone" => published \cup ({idp} \ {None}) \subseteq {pair}
===============================================================================
