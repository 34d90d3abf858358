---------------------------- MODULE OnDemandProofs ----------------------------
(* Theorems about OnDemand for any keys, values, tokens, certificates and     *)
(* requests: the types, which tokens are accepted, what metadata names, how a *)
(* setting is lost, and that a chosen policy stays.                           *)
EXTENDS OnDemand, TLAPS

-----------------------------------------------------------------------------
(* The inductive invariant.                                                *)

\* What a request on its way has in hand.
HandsSound(r) ==
  LET q == req[r]
  IN  /\ q.pc \in {"updateToken", "createToken"} => q.token \in Tokens
      /\ q.pc = "updateToken" => q.row \in Requests
      /\ q.pc \in OnPair => q.cert \in Certs

\* What it read and nobody wrote since: the settings it merged into, that there
\* was no row for SCIM, that there was no certificate.
ReadSound(r) ==
  LET q == req[r]
  IN  /\ q.pc = "writeConfig" /\ ~q.late =>
           /\ settings # None
           /\ \A k \in Keys : q.asked[k] = None => q.merged[k] = settings[k]
      /\ q.pc = "createToken" /\ ~q.late => Rows = {}
      /\ q.pc = "storePair" /\ ~q.late => pair \in {"none", "gone"}

\* Until two certificates were stored, the one to be cached is the row's.
CacheSound(r) ==
  req[r].pc = "cacheIdp" /\ ~doubled /\ pair # "gone" => req[r].cert = pair

Sound(r) == HandsSound(r) /\ ReadSound(r) /\ CacheSound(r)

RequestsSound == \A r \in Requests : Sound(r)

\* Until two requests inserted one, there is at most one row for SCIM.
OneToken == ~twins => \A s \in Rows : scim[s] = latest /\ \A t \in Rows : t = s

IInv == TypeOK /\ RequestsSound /\ OneToken /\ MetadataStands

-----------------------------------------------------------------------------
(* What the steps leave of a request.                                      *)

\* No setting is null.
LEMMA NoSettingNull ==
  /\ Empty \in Setting
  /\ None \notin Setting
  BY OnDemandAssumption DEF Setting, Empty

\* A free slot has nothing in hand.
LEMMA IdleType ==
  /\ Idle \in Request
  /\ Idle.pc = "idle"
  BY NoSettingNull DEF Idle, Request, PC

\* Another's step can only make a request late.
Kept(q) ==
  /\ req'[q].pc = req[q].pc /\ req'[q].asked = req[q].asked
  /\ req'[q].merged = req[q].merged /\ req'[q].row = req[q].row
  /\ req'[q].token = req[q].token /\ req'[q].cert = req[q].cert
  /\ req[q].late => req'[q].late

\* Requests begin in a free slot.
LEMMA BeginEffect ==
  ASSUME TypeOK, NEW r \in Requests, NEW q \in Request, Begin(r, q)
  PROVE  /\ req' \in [Requests -> Request]
         /\ req[r].pc = "idle" /\ req'[r] = q
         /\ \A p \in Requests \ {r} : req'[p] = req[p] /\ Kept(p)
  BY DEF TypeOK, Begin, Waits, Kept

\* Returning frees the slot.
LEMMA ReturnEffect ==
  ASSUME TypeOK, NEW r \in Requests, Return(r)
  PROVE  /\ req' \in [Requests -> Request]
         /\ req'[r] = Idle
         /\ \A p \in Requests \ {r} : req'[p] = req[p] /\ Kept(p)
  BY IdleType DEF TypeOK, Return, Kept

\* A write makes those late that read before.
LEMMA WroteEffect ==
  ASSUME TypeOK, NEW r \in Requests, NEW next \in Request, NEW area, Wrote(r, next, area)
  PROVE  /\ req' \in [Requests -> Request]
         /\ req'[r] = next
         /\ \A p \in Requests \ {r} : Kept(p) /\ (req[p].pc \in area => req'[p].late)
  <1>1. req'[r] = next
    BY DEF Wrote
  <1>2. ASSUME NEW p \in Requests \ {r}
        PROVE  req'[p] \in Request /\ Kept(p) /\ (req[p].pc \in area => req'[p].late)
    <2>1. req[p] \in Request
      BY DEF TypeOK
    <2>2. PICK late \in BOOLEAN : late = (req[p].late \/ req[p].pc \in area)
      <3>1. (req[p].late \/ req[p].pc \in area) \in BOOLEAN
        OBVIOUS
      <3>2. QED
        BY <3>1, Zenon
    <2>3. req'[p] = [req[p] EXCEPT !.late = req[p].late \/ req[p].pc \in area]
      BY DEF Wrote
    <2>4. req'[p] = [req[p] EXCEPT !.late = late]
      BY <2>2, <2>3
    <2>5. (req[p].late => late) /\ (req[p].pc \in area => late)
      BY <2>2
    <2>6. QED
      BY <2>1, <2>4, <2>5 DEF Request, Kept
  <1>3. req' \in [Requests -> Request]
    BY <1>1, <1>2 DEF Wrote
  <1>4. QED
    BY <1>1, <1>2, <1>3

\* A request that nobody made late finds what it read.
LEMMA SoundKept ==
  ASSUME NEW q \in Requests, Sound(q), Kept(q), pair = "gone" => pair' = "gone",
         req[q].pc = "writeConfig" => settings' = settings \/ req'[q].late,
         req[q].pc = "createToken" => Rows' = Rows \/ req'[q].late,
         req[q].pc = "storePair" => pair' \in {pair, "gone"} \/ req'[q].late,
         req[q].pc = "cacheIdp" /\ ~doubled' => pair' \in {pair, "gone"} /\ ~doubled
  PROVE  Sound(q)'
  <1>1. HandsSound(q)'
    BY DEF Sound, HandsSound, Kept
  <1>2. ReadSound(q)'
    BY DEF Sound, ReadSound, Kept
  <1>3. CacheSound(q)'
    BY DEF Sound, CacheSound, Kept
  <1>4. QED
    BY <1>1, <1>2, <1>3 DEF Sound

\* A free slot is sound.
LEMMA IdleSound ==
  ASSUME NEW q \in Requests, req'[q] = Idle
  PROVE  Sound(q)'
  BY IdleType DEF Sound, HandsSound, ReadSound, CacheSound, OnPair

\* A step of one request that overtakes no other keeps all sound, if its own
\* slot is.
LEMMA OneActsSound ==
  ASSUME IInv, NEW r \in Requests, Sound(r)',
         \A q \in Requests \ {r} : Kept(q),
         \A q \in Requests \ {r} :
           /\ req[q].pc = "writeConfig" => settings' = settings \/ req'[q].late
           /\ req[q].pc = "createToken" => Rows' = Rows \/ req'[q].late
           /\ req[q].pc = "storePair" => pair' \in {pair, "gone"} \/ req'[q].late
           /\ req[q].pc = "cacheIdp" /\ ~doubled' => pair' \in {pair, "gone"} /\ ~doubled,
         pair = "gone" => pair' = "gone"
  PROVE  RequestsSound'
  BY SoundKept DEF IInv, RequestsSound

\* What the history and the rows say of tokens and certificates does not change
\* with the rest.
LEMMA TokenKept ==
  ASSUME IInv, UNCHANGED <<scim, latest, twins>>
  PROVE  OneToken' /\ Rows' = Rows
  BY DEF IInv, OneToken, Rows

LEMMA MetadataKept ==
  ASSUME IInv, UNCHANGED <<pair, idp, published, doubled>>
  PROVE  MetadataStands'
  BY DEF IInv, MetadataStands

-----------------------------------------------------------------------------
(* Settings.                                                               *)

\* What keeps the rest of the invariant while requests work on settings.
LEMMA OnlySettings ==
  ASSUME IInv, NoSetting, settings' \in Setting \cup {None}, req' \in [Requests -> Request],
         NEW r \in Requests, Sound(r)', \A q \in Requests \ {r} : Kept(q),
         \A q \in Requests \ {r} :
           req[q].pc = "writeConfig" => settings' = settings \/ req'[q].late,
         req'[r].pc # "updateToken"
  PROVE  IInv'
  <1>1. Rows' = Rows /\ OneToken' /\ MetadataStands'
    BY TokenKept, MetadataKept DEF NoSetting
  <1>2. RequestsSound'
    BY <1>1, OneActsSound DEF NoSetting
  <1>3. TypeOK'
    BY DEF IInv, TypeOK, NoSetting, Kept
  <1>4. QED
    BY <1>1, <1>2, <1>3 DEF IInv

\* What is named changes, the rest is what was read.
LEMMA MergeType ==
  ASSUME NEW old \in Setting, NEW asked \in Setting
  PROVE  /\ Merge(old, asked) \in Setting
         /\ \A k \in Keys : asked[k] = None => Merge(old, asked)[k] = old[k]
  BY DEF Merge, Setting

\* get() looks for the row.
LEMMA GetStep ==
  ASSUME IInv, NEW r \in Requests, NEW asked \in Setting, Get(r, asked)
  PROVE  IInv'
  <1> DEFINE q == [Idle EXCEPT !.pc = "createConfig", !.asked = asked]
  <1>1. q \in Request /\ q.pc = "createConfig"
    BY IdleType DEF Idle, Request, PC
  <1>2. Begin(r, q) /\ settings' = settings /\ NoSetting /\ TypeOK
    BY DEF Get, IInv
  <1> HIDE DEF q
  <1>3. /\ req' \in [Requests -> Request] /\ req'[r] = q
        /\ \A p \in Requests \ {r} : Kept(p)
    BY <1>1, <1>2, BeginEffect
  <1>4. Sound(r)'
    BY <1>1, <1>3 DEF Sound, HandsSound, ReadSound, CacheSound, OnPair
  <1>5. QED
    BY <1>1, <1>2, <1>3, <1>4, OnlySettings DEF TypeOK

\* An update merges into what it reads.
LEMMA UpdateOrgStep ==
  ASSUME IInv, NEW r \in Requests, NEW asked \in Setting, UpdateOrg(r, asked)
  PROVE  IInv'
  <1> DEFINE q == [Idle EXCEPT !.pc = "writeConfig", !.asked = asked,
                               !.merged = Merge(settings, asked)]
  <1>1. settings \in Setting /\ settings # None /\ TypeOK
    BY DEF IInv, TypeOK, UpdateOrg
  <1>2. /\ Merge(settings, asked) \in Setting
        /\ \A k \in Keys : asked[k] = None => Merge(settings, asked)[k] = settings[k]
    BY <1>1, MergeType
  <1>3. /\ q \in Request /\ q.pc = "writeConfig" /\ q.asked = asked
        /\ q.merged = Merge(settings, asked)
    BY <1>2 DEF Idle, Request, PC
  <1>4. Begin(r, q) /\ settings' = settings /\ NoSetting
    BY DEF UpdateOrg
  <1> HIDE DEF q
  <1>5. /\ req' \in [Requests -> Request] /\ req'[r] = q
        /\ \A p \in Requests \ {r} : Kept(p)
    BY <1>1, <1>3, <1>4, BeginEffect
  <1>6. Sound(r)'
    BY <1>1, <1>2, <1>3, <1>4, <1>5 DEF Sound, HandsSound, ReadSound, CacheSound, OnPair
  <1>7. QED
    BY <1>1, <1>3, <1>4, <1>5, <1>6, OnlySettings

\* The first create makes the row; an update goes on into it, the second create
\* throws.
LEMMA CreateConfigStep ==
  ASSUME IInv, NEW r \in Requests, CreateConfig(r)
  PROVE  IInv'
  <1>1. TypeOK /\ req[r] \in Request /\ req[r].pc = "createConfig" /\ NoSetting
    BY DEF IInv, TypeOK, CreateConfig, Waits
  <1>2. CASE settings # None
    <2>1. Return(r) /\ settings' = settings
      BY <1>2 DEF CreateConfig
    <2>2. /\ req' \in [Requests -> Request] /\ req'[r] = Idle
          /\ \A p \in Requests \ {r} : Kept(p)
      BY <1>1, <2>1, ReturnEffect
    <2>3. QED
      BY <1>1, <2>1, <2>2, IdleSound, IdleType, OnlySettings DEF TypeOK
  <1>3. CASE settings = None
    <2> DEFINE q == [req[r] EXCEPT !.pc = "writeConfig", !.merged = req[r].asked]
               next == IF req[r].asked = Empty THEN Idle ELSE q
    <2>1. settings' = Empty /\ req' = [req EXCEPT ![r] = next]
      BY <1>3 DEF CreateConfig
    <2>2. /\ q \in Request /\ q.pc = "writeConfig" /\ q.merged = req[r].asked
          /\ q.asked = req[r].asked
      BY <1>1 DEF Request, PC
    <2>3. next \in Request /\ next \in {Idle, q}
      BY <2>2, IdleType
    <2> HIDE DEF q, next
    <2>4. /\ req' \in [Requests -> Request] /\ req'[r] = next
          /\ \A p \in Requests \ {r} : req'[p] = req[p] /\ Kept(p)
      BY <1>1, <2>1, <2>3 DEF TypeOK, Kept
    <2>5. \A p \in Requests \ {r} : req[p].pc = "writeConfig" => req'[p].late
      BY <1>3, <2>4 DEF IInv, RequestsSound, Sound, ReadSound, TypeOK, Request
    <2>6. Sound(r)'
      <3>1. CASE next = Idle
        BY <2>4, <3>1, IdleSound
      <3>2. CASE next = q
        BY <2>1, <2>2, <2>4, <3>2, NoSettingNull
           DEF Sound, HandsSound, ReadSound, CacheSound, OnPair, Empty
      <3>3. QED
        BY <2>3, <3>1, <3>2
    <2>7. settings' \in Setting \cup {None} /\ req'[r].pc # "updateToken"
      BY <2>1, <2>2, <2>3, <2>4, IdleType, NoSettingNull
    <2>8. QED
      BY <1>1, <2>4, <2>5, <2>6, <2>7, OnlySettings
  <1>4. QED
    BY <1>2, <1>3

\* A write of the settings overtakes those that merged before it.
LEMMA WriteSettings ==
  ASSUME IInv, NEW r \in Requests, NEW value \in Setting, settings' = value,
         Wrote(r, Idle, OnSettings), NoSetting
  PROVE  IInv'
  <1>1. /\ req' \in [Requests -> Request] /\ req'[r] = Idle
        /\ \A p \in Requests \ {r} : Kept(p) /\ (req[p].pc \in OnSettings => req'[p].late)
    BY IdleType, WroteEffect DEF IInv
  <1>2. \A p \in Requests \ {r} : req[p].pc = "writeConfig" => req'[p].late
    BY <1>1 DEF OnSettings
  <1>3. QED
    BY <1>1, <1>2, IdleSound, IdleType, OnlySettings

\* updateOrg writes back what it merged; PUT /settings writes a whole.
LEMMA WriteConfigStep ==
  ASSUME IInv, NEW r \in Requests,
         WriteConfig(r) \/ \E whole \in Setting : ReplaceSettings(r, whole)
  PROVE  IInv'
  <1>1. req[r].merged \in Setting
    BY DEF IInv, TypeOK, Request
  <1>2. QED
    BY <1>1, WriteSettings DEF WriteConfig, ReplaceSettings

-----------------------------------------------------------------------------
(* The SCIM token.                                                         *)

\* What keeps the rest of the invariant while requests work on the token.
LEMMA OnlyToken ==
  ASSUME IInv, NoToken, scim' \in [Requests -> Tokens \cup {None}],
         \A s \in Requests : scim[s] # None => scim'[s] # None,
         latest' \in Tokens \cup {None}, twins' \in BOOLEAN, OneToken',
         req' \in [Requests -> Request],
         NEW r \in Requests, Sound(r)', \A q \in Requests \ {r} : Kept(q),
         \A q \in Requests \ {r} : req[q].pc = "createToken" => Rows' = Rows \/ req'[q].late,
         req'[r].pc = "updateToken" => scim'[req'[r].row] # None
  PROVE  IInv'
  <1>1. MetadataStands'
    BY MetadataKept DEF NoToken
  <1>2. RequestsSound'
    BY OneActsSound DEF NoToken
  <1>3. ASSUME NEW q \in Requests, req'[q].pc = "updateToken"
        PROVE  scim'[req'[q].row] # None
    <2>1. CASE q = r
      BY <1>3, <2>1
    <2>2. CASE q # r
      <3>1. req[q].pc = "updateToken" /\ req'[q].row = req[q].row
        BY <1>3, <2>2 DEF Kept
      <3>2. req[q].row \in Requests
        BY <3>1 DEF IInv, RequestsSound, Sound, HandsSound
      <3>3. QED
        BY <3>1, <3>2 DEF IInv, TypeOK
    <2>3. QED
      BY <2>1, <2>2
  <1>4. TypeOK'
    BY <1>3 DEF IInv, TypeOK, NoToken
  <1>5. QED
    BY <1>1, <1>2, <1>4 DEF IInv

\* generateToken looks for a row.
LEMMA GenerateTokenStep ==
  ASSUME IInv, NEW r \in Requests, NEW token \in Tokens, GenerateToken(r, token)
  PROVE  IInv'
  <1> DEFINE new == [Idle EXCEPT !.pc = "createToken", !.token = token]
             old(row) == [Idle EXCEPT !.pc = "updateToken", !.token = token, !.row = row]
  <1>1. /\ TypeOK /\ UNCHANGED <<scim, latest, twins>> /\ NoToken
        /\ OneToken' /\ Rows' = Rows
    BY TokenKept DEF GenerateToken, IInv
  <1>2. CASE Rows = {} /\ Begin(r, new)
    <2>1. new \in Request /\ new.pc = "createToken" /\ new.token = token
      BY IdleType DEF Idle, Request, PC
    <2> HIDE DEF new
    <2>2. /\ req' \in [Requests -> Request] /\ req'[r] = new
          /\ \A p \in Requests \ {r} : Kept(p)
      BY <1>1, <1>2, <2>1, BeginEffect
    <2>3. Sound(r)'
      BY <1>1, <1>2, <2>1, <2>2 DEF Sound, HandsSound, ReadSound, CacheSound, OnPair
    <2>4. QED
      BY <1>1, <2>1, <2>2, <2>3, OnlyToken DEF TypeOK
  <1>3. ASSUME NEW row \in Rows, Begin(r, old(row))
        PROVE  IInv'
    <2>1. row \in Requests /\ scim[row] # None
      BY DEF Rows
    <2>2. /\ old(row) \in Request /\ old(row).pc = "updateToken" /\ old(row).token = token
          /\ old(row).row = row
      BY <2>1, IdleType DEF Idle, Request, PC
    <2> HIDE DEF old
    <2>3. /\ req' \in [Requests -> Request] /\ req'[r] = old(row)
          /\ \A p \in Requests \ {r} : Kept(p)
      BY <1>1, <1>3, <2>2, BeginEffect
    <2>4. Sound(r)'
      BY <2>1, <2>2, <2>3 DEF Sound, HandsSound, ReadSound, CacheSound, OnPair
    <2>5. QED
      BY <1>1, <2>1, <2>2, <2>3, <2>4, OnlyToken DEF TypeOK
  <1>4. QED
    BY <1>2, <1>3 DEF GenerateToken

\* No token is null.
LEMMA NoTokenNull == None \notin Tokens
  BY OnDemandAssumption

\* An update of the only row makes its token the latest.
LEMMA UpdateTokenStep ==
  ASSUME IInv, NEW r \in Requests, UpdateToken(r)
  PROVE  IInv'
  <1>1. PICK row \in Requests, token \in Tokens : row = req[r].row /\ token = req[r].token
    BY DEF IInv, RequestsSound, Sound, HandsSound, UpdateToken, Waits
  <1>2. /\ TypeOK /\ req[r].pc = "updateToken" /\ scim[row] # None
        /\ scim' = [scim EXCEPT ![row] = token] /\ latest' = token /\ twins' = twins
        /\ Return(r) /\ NoToken
    BY <1>1 DEF IInv, TypeOK, UpdateToken, Waits
  <1>3. /\ scim' \in [Requests -> Tokens \cup {None}] /\ scim'[row] = token
        /\ \A s \in Requests \ {row} : scim'[s] = scim[s]
    BY <1>2 DEF TypeOK
  <1>4. Rows' = Rows
    BY <1>2, <1>3, NoTokenNull DEF Rows
  <1>5. OneToken'
    <2> SUFFICES ASSUME ~twins
                 PROVE  \A s \in Rows : scim'[s] = token /\ \A t \in Rows : t = s
      BY <1>2, <1>4 DEF OneToken
    <2>1. row \in Rows
      BY <1>2 DEF Rows
    <2>2. QED
      BY <1>3, <2>1 DEF IInv, OneToken
  <1>6. /\ req' \in [Requests -> Request] /\ req'[r] = Idle
        /\ \A p \in Requests \ {r} : Kept(p)
    BY <1>2, ReturnEffect
  <1>7. \A s \in Requests : scim[s] # None => scim'[s] # None
    BY <1>3, NoTokenNull
  <1>8. QED
    BY <1>2, <1>3, <1>4, <1>5, <1>6, <1>7, IdleSound, IdleType, OnlyToken DEF TypeOK

\* A create that nobody overtook makes the first row.
LEMMA CreateTokenStep ==
  ASSUME IInv, NEW r \in Requests, CreateToken(r)
  PROVE  IInv'
  <1>1. PICK token \in Tokens : token = req[r].token
    BY DEF IInv, RequestsSound, Sound, HandsSound, CreateToken, Waits
  <1>2. /\ TypeOK /\ req[r].pc = "createToken" /\ req[r] \in Request
        /\ scim' = [scim EXCEPT ![r] = token] /\ latest' = token
        /\ twins' = (twins \/ req[r].late)
        /\ Wrote(r, Idle, OnToken) /\ NoToken
    BY <1>1 DEF IInv, TypeOK, CreateToken, Waits
  <1>3. /\ scim' \in [Requests -> Tokens \cup {None}] /\ scim'[r] = token
        /\ \A s \in Requests \ {r} : scim'[s] = scim[s]
    BY <1>2 DEF TypeOK
  <1>4. twins' \in BOOLEAN
    BY <1>2
  <1>5. OneToken'
    <2> SUFFICES ASSUME ~twins, ~req[r].late
                 PROVE  \A s \in Rows' : scim'[s] = token /\ \A t \in Rows' : t = s
      BY <1>2 DEF OneToken
    <2>1. Rows = {}
      BY <1>2 DEF IInv, RequestsSound, Sound, ReadSound
    <2>2. Rows' \subseteq {r}
      BY <1>3, <2>1 DEF Rows
    <2>3. QED
      BY <1>3, <2>2
  <1>6. /\ req' \in [Requests -> Request] /\ req'[r] = Idle
        /\ \A p \in Requests \ {r} : Kept(p) /\ (req[p].pc \in OnToken => req'[p].late)
    BY <1>2, IdleType, WroteEffect
  <1>7. \A p \in Requests \ {r} : req[p].pc = "createToken" => req'[p].late
    BY <1>6 DEF OnToken
  <1>8. \A s \in Requests : scim[s] # None => scim'[s] # None
    BY <1>3, NoTokenNull
  <1>9. QED
    BY <1>2, <1>3, <1>4, <1>5, <1>6, <1>7, <1>8, IdleSound, IdleType, OnlyToken

-----------------------------------------------------------------------------
(* The token policy.                                                       *)

\* The policy is what no other part of the invariant is about.
LEMMA OnlyPolicy ==
  ASSUME IInv, NoPolicy, policy' \in {"absent", "default", "chosen"},
         pair = "gone" => policy' = "absent", req' \in [Requests -> Request],
         NEW r \in Requests, Sound(r)', \A q \in Requests \ {r} : Kept(q),
         req'[r].pc = "updateToken" => req'[r] = req[r]
  PROVE  IInv'
  <1>1. Rows' = Rows /\ OneToken' /\ MetadataStands'
    BY TokenKept, MetadataKept DEF NoPolicy
  <1>2. RequestsSound'
    BY <1>1, OneActsSound DEF NoPolicy
  <1>3. TypeOK'
    BY DEF IInv, TypeOK, NoPolicy, Kept
  <1>4. QED
    BY <1>1, <1>2, <1>3 DEF IInv

\* Looking for the policy, creating the default and choosing one.
LEMMA PolicyStep ==
  ASSUME IInv, NEW r \in Requests,
         GetTokenPolicy(r) \/ CreateTokenPolicy(r) \/ UpdateTokenPolicy(r)
  PROVE  IInv'
  <1>1. TypeOK /\ NoPolicy
    BY DEF IInv, GetTokenPolicy, CreateTokenPolicy, UpdateTokenPolicy
  <1>2. CASE GetTokenPolicy(r)
    <2> DEFINE q == [Idle EXCEPT !.pc = "createPolicy"]
    <2>1. q \in Request /\ q.pc = "createPolicy"
      BY IdleType DEF Idle, Request, PC
    <2>2. Begin(r, q) /\ policy' = policy
      BY <1>2 DEF GetTokenPolicy
    <2> HIDE DEF q
    <2>3. /\ req' \in [Requests -> Request] /\ req'[r] = q
          /\ \A p \in Requests \ {r} : Kept(p)
      BY <1>1, <2>1, <2>2, BeginEffect
    <2>4. Sound(r)'
      BY <2>1, <2>3 DEF Sound, HandsSound, ReadSound, CacheSound, OnPair
    <2>5. QED
      BY <1>1, <2>1, <2>2, <2>3, <2>4, OnlyPolicy DEF TypeOK
  <1>3. CASE CreateTokenPolicy(r)
    <2>1. /\ req' \in [Requests -> Request] /\ req'[r] = Idle
          /\ \A p \in Requests \ {r} : Kept(p)
      BY <1>1, <1>3, ReturnEffect DEF CreateTokenPolicy
    <2>2. /\ policy' \in {"absent", "default", "chosen"}
          /\ pair = "gone" => policy' = "absent"
      BY <1>1, <1>3 DEF TypeOK, CreateTokenPolicy
    <2>3. QED
      BY <1>1, <2>1, <2>2, IdleSound, IdleType, OnlyPolicy
  <1>4. CASE UpdateTokenPolicy(r)
    <2>1. /\ policy' = "chosen" /\ pair # "gone" /\ req' = req /\ \A p \in Requests : Kept(p)
      BY <1>4 DEF UpdateTokenPolicy, Kept
    <2>2. Sound(r)'
      BY <1>1, <2>1, TokenKept DEF NoPolicy, IInv, RequestsSound, Sound, HandsSound, ReadSound,
                                   CacheSound
    <2>3. QED
      BY <1>1, <2>1, <2>2, OnlyPolicy DEF TypeOK
  <1>5. QED
    BY <1>2, <1>3, <1>4

-----------------------------------------------------------------------------
(* The certificate and the instance.                                       *)

\* No certificate is null, or one of the values that stand for none.
LEMMA CertsApart ==
  /\ None \notin Certs
  /\ "none" \notin Certs /\ "placeholder" \notin Certs /\ "gone" \notin Certs
  BY OnDemandAssumption

\* What keeps the rest of the invariant while requests work on the pair.
LEMMA OnlyPair ==
  ASSUME IInv, NoPair, policy' \in {"absent", "default", "chosen"},
         pair' \in Certs \cup {"none", "placeholder", "gone"},
         pair' = "gone" => policy' = "absent", pair = "gone" => pair' = "gone",
         idp' \in Certs \cup {None}, published' \in SUBSET Certs, doubled' \in BOOLEAN,
         MetadataStands', req' \in [Requests -> Request],
         \A q \in Requests : req'[q].pc = "updateToken" => req[q].pc = "updateToken" /\ Kept(q),
         RequestsSound'
  PROVE  IInv'
  <1>1. OneToken'
    BY TokenKept DEF NoPair
  <1>2. TypeOK'
    BY DEF IInv, TypeOK, NoPair, Kept
  <1>3. QED
    BY <1>1, <1>2 DEF IInv

\* A step of one request that leaves the pair keeps the others sound.
LEMMA PairStays ==
  ASSUME IInv, NoPair, pair' = pair, doubled' = doubled, NEW r \in Requests, Sound(r)',
         \A q \in Requests \ {r} : Kept(q)
  PROVE  RequestsSound'
  <1>1. Rows' = Rows /\ settings' = settings
    BY TokenKept DEF NoPair
  <1>2. QED
    BY <1>1, OneActsSound

\* A cached instance is served.
LEMMA ServeCachedStep ==
  ASSUME IInv, NEW r \in Requests, ServeCached(r)
  PROVE  IInv'
  <1>1. /\ TypeOK /\ MetadataStands /\ idp # None /\ published' = published \cup {idp}
        /\ UNCHANGED <<policy, pair, idp, req, doubled>> /\ NoPair
    BY DEF IInv, ServeCached
  <1>2. idp \in Certs /\ published' \in SUBSET Certs /\ \A q \in Requests : Kept(q)
    BY <1>1 DEF TypeOK, Kept
  <1>3. MetadataStands'
    BY <1>1 DEF MetadataStands
  <1>4. Sound(r)'
    BY <1>1, TokenKept DEF NoPair, IInv, RequestsSound, Sound, HandsSound, ReadSound, CacheSound
  <1>5. RequestsSound'
    BY <1>1, <1>2, <1>4, PairStays
  <1>6. QED
    BY <1>1, <1>2, <1>3, <1>5, OnlyPair DEF TypeOK

\* Without an instance the pair is read next.
LEMMA GetIdpInstanceStep ==
  ASSUME IInv, NEW r \in Requests, GetIdpInstance(r)
  PROVE  IInv'
  <1> DEFINE q == [Idle EXCEPT !.pc = "readPair"]
  <1>1. q \in Request /\ q.pc = "readPair"
    BY IdleType DEF Idle, Request, PC
  <1>2. /\ TypeOK /\ Begin(r, q) /\ UNCHANGED <<policy, pair, idp, published, doubled>> /\ NoPair
    BY DEF GetIdpInstance, IInv
  <1> HIDE DEF q
  <1>3. /\ req' \in [Requests -> Request] /\ req'[r] = q
        /\ \A p \in Requests \ {r} : Kept(p)
    BY <1>1, <1>2, BeginEffect
  <1>4. Sound(r)'
    BY <1>1, <1>3 DEF Sound, HandsSound, ReadSound, CacheSound, OnPair
  <1>5. RequestsSound' /\ MetadataStands'
    BY <1>2, <1>3, <1>4, PairStays, MetadataKept
  <1>6. \A p \in Requests : req'[p].pc = "updateToken" => req[p].pc = "updateToken" /\ Kept(p)
    BY <1>1, <1>3 DEF Kept
  <1>7. QED
    BY <1>2, <1>3, <1>5, <1>6, OnlyPair DEF TypeOK

\* A certificate that is read is the row's, a new one is drawn only without.
LEMMA ReadPairStep ==
  ASSUME IInv, NEW r \in Requests, ReadPair(r)
  PROVE  IInv'
  <1>1. /\ TypeOK /\ req[r] \in Request /\ req[r].pc = "readPair"
        /\ UNCHANGED <<policy, pair, idp, published, doubled>> /\ NoPair
    BY DEF ReadPair, IInv, TypeOK, Waits
  <1>2. ASSUME req' \in [Requests -> Request], Sound(r)', req'[r].pc # "updateToken",
               \A p \in Requests \ {r} : Kept(p)
        PROVE  IInv'
    <2>1. RequestsSound' /\ MetadataStands'
      BY <1>1, <1>2, PairStays, MetadataKept
    <2>2. \A p \in Requests : req'[p].pc = "updateToken" => req[p].pc = "updateToken" /\ Kept(p)
      BY <1>2 DEF Kept
    <2>3. QED
      BY <1>1, <1>2, <2>1, <2>2, OnlyPair DEF TypeOK
  <1>3. ASSUME NEW next \in Request, req' = [req EXCEPT ![r] = next], Sound(r)',
               next.pc # "updateToken"
        PROVE  IInv'
    <2>1. /\ req' \in [Requests -> Request] /\ req'[r] = next
          /\ \A p \in Requests \ {r} : Kept(p)
      BY <1>1, <1>3 DEF TypeOK, Kept
    <2>2. QED
      BY <1>2, <1>3, <2>1
  <1>4. CASE Return(r)
    <2>1. req'[r] = Idle
      BY <1>1, <1>4, ReturnEffect
    <2>2. QED
      BY <1>3, <1>4, <2>1, IdleSound, IdleType DEF Return
  <1>5. CASE pair \in Certs /\ req' = [req EXCEPT ![r].pc = "cacheIdp", ![r].cert = pair]
    <2> DEFINE q == [req[r] EXCEPT !.pc = "cacheIdp", !.cert = pair]
    <2>1. q \in Request /\ q.pc = "cacheIdp" /\ q.cert = pair
      BY <1>1, <1>5 DEF Request, PC
    <2>2. req' = [req EXCEPT ![r] = q]
      BY <1>1, <1>5 DEF TypeOK
    <2> HIDE DEF q
    <2>3. req'[r] = q
      BY <1>1, <2>2 DEF TypeOK
    <2>4. Sound(r)'
      BY <1>1, <1>5, <2>1, <2>3 DEF Sound, HandsSound, ReadSound, CacheSound
    <2>5. QED
      BY <1>3, <2>1, <2>2, <2>4
  <1>6. ASSUME pair \in {"none", "gone"}, NEW cert \in FreshCerts,
               req' = [req EXCEPT ![r].pc = "storePair", ![r].cert = cert]
        PROVE  IInv'
    <2> DEFINE q == [req[r] EXCEPT !.pc = "storePair", !.cert = cert]
    <2>1. cert \in Certs
      BY DEF FreshCerts
    <2>2. q \in Request /\ q.pc = "storePair" /\ q.cert \in Certs
      BY <1>1, <2>1 DEF Request, PC
    <2>3. req' = [req EXCEPT ![r] = q]
      BY <1>1, <1>6 DEF TypeOK
    <2> HIDE DEF q
    <2>4. req'[r] = q
      BY <1>1, <2>3 DEF TypeOK
    <2>5. Sound(r)'
      BY <1>1, <1>6, <2>2, <2>4 DEF Sound, HandsSound, ReadSound, CacheSound
    <2>6. QED
      BY <1>3, <2>2, <2>3, <2>5
  <1>7. QED
    BY <1>4, <1>5, <1>6 DEF ReadPair

\* Where there is no certificate, none was named or is about to be.
LEMMA NoneNamed ==
  ASSUME IInv, ~doubled, pair = "none"
  PROVE  /\ published = {} /\ idp = None
         /\ \A q \in Requests : req[q].pc # "cacheIdp"
  <1>1. published = {} /\ idp = None
    BY CertsApart DEF IInv, TypeOK, MetadataStands
  <1>2. ASSUME NEW q \in Requests, req[q].pc = "cacheIdp"
        PROVE  FALSE
    <2>1. req[q].cert = "none"
      BY <1>2 DEF IInv, RequestsSound, Sound, CacheSound
    <2>2. req[q].cert \in Certs
      BY <1>2 DEF IInv, RequestsSound, Sound, HandsSound, OnPair
    <2>3. QED
      BY <2>1, <2>2, CertsApart
  <1>3. QED
    BY <1>1, <1>2

\* A store that nobody overtook is the first; it overtakes all others.
LEMMA StorePairStep ==
  ASSUME IInv, NEW r \in Requests, StorePair(r)
  PROVE  IInv'
  <1>1. /\ TypeOK /\ req[r] \in Request /\ req[r].pc = "storePair" /\ req[r].cert \in Certs
        /\ UNCHANGED <<policy, idp, published>> /\ NoPair
    BY DEF StorePair, IInv, TypeOK, Waits, RequestsSound, Sound, HandsSound, OnPair
  <1>2. CASE pair = "gone"
    <2>1. Return(r) /\ UNCHANGED <<pair, doubled>>
      BY <1>2 DEF StorePair
    <2>2. /\ req' \in [Requests -> Request] /\ req'[r] = Idle
          /\ \A p \in Requests \ {r} : Kept(p)
      BY <1>1, <2>1, ReturnEffect
    <2>3. RequestsSound' /\ MetadataStands'
      BY <1>1, <2>1, <2>2, IdleSound, PairStays, MetadataKept
    <2>4. \A p \in Requests : req'[p].pc = "updateToken" => req[p].pc = "updateToken" /\ Kept(p)
      BY <2>2, IdleType DEF Kept
    <2>5. QED
      BY <1>1, <2>1, <2>2, <2>3, <2>4, OnlyPair DEF TypeOK
  <1>3. CASE pair # "gone"
    <2> DEFINE q == [req[r] EXCEPT !.pc = "cacheIdp"]
    <2>1. /\ pair' = req[r].cert /\ doubled' = (doubled \/ req[r].late)
          /\ Wrote(r, q, OnPair)
      BY <1>3 DEF StorePair
    <2>2. q \in Request /\ q.pc = "cacheIdp" /\ q.cert = req[r].cert
      BY <1>1 DEF Request, PC
    <2> HIDE DEF q
    <2>3. /\ req' \in [Requests -> Request] /\ req'[r] = q
          /\ \A p \in Requests \ {r} : Kept(p) /\ (req[p].pc \in OnPair => req'[p].late)
      BY <1>1, <2>1, <2>2, WroteEffect
    <2>4. doubled' \in BOOLEAN /\ pair' \in Certs
      BY <1>1, <2>1
    <2>5. ASSUME ~doubled'
          PROVE  /\ ~doubled /\ published = {} /\ idp = None
                 /\ \A p \in Requests : req[p].pc # "cacheIdp"
      <3>1. ~doubled /\ ~req[r].late
        BY <2>1, <2>5
      <3>2. pair = "none"
        BY <1>1, <1>3, <3>1 DEF IInv, RequestsSound, Sound, ReadSound
      <3>3. QED
        BY <3>1, <3>2, NoneNamed
    <2>6. MetadataStands'
      BY <1>1, <2>5 DEF MetadataStands
    <2>7. Sound(r)'
      BY <1>1, <2>1, <2>2, <2>3 DEF Sound, HandsSound, ReadSound, CacheSound
    <2>8. \A p \in Requests \ {r} : req[p].pc = "storePair" => req'[p].late
      BY <2>3 DEF OnPair
    <2>9. RequestsSound'
      <3>1. Rows' = Rows /\ settings' = settings
        BY <1>1, TokenKept DEF NoPair
      <3>2. QED
        BY <1>3, <2>3, <2>5, <2>7, <2>8, <3>1, OneActsSound
    <2>10. \A p \in Requests : req'[p].pc = "updateToken" => req[p].pc = "updateToken" /\ Kept(p)
      BY <2>2, <2>3 DEF Kept
    <2>11. QED
      BY <1>1, <1>3, <2>3, <2>4, <2>6, <2>9, <2>10, CertsApart, OnlyPair DEF TypeOK
  <1>4. QED
    BY <1>2, <1>3

\* What is cached is the row's.
LEMMA CacheIdpStep ==
  ASSUME IInv, NEW r \in Requests, CacheIdp(r)
  PROVE  IInv'
  <1>1. /\ TypeOK /\ req[r].pc = "cacheIdp" /\ req[r].cert \in Certs
        /\ ~doubled /\ pair # "gone" => req[r].cert = pair
        /\ idp' = req[r].cert /\ published' = published \cup {req[r].cert} /\ Return(r)
        /\ UNCHANGED <<policy, pair, doubled>> /\ NoPair
    BY DEF CacheIdp, IInv, Waits, RequestsSound, Sound, HandsSound, CacheSound, OnPair
  <1>2. /\ req' \in [Requests -> Request] /\ req'[r] = Idle
        /\ \A p \in Requests \ {r} : Kept(p)
    BY <1>1, ReturnEffect
  <1>3. RequestsSound'
    BY <1>1, <1>2, IdleSound, PairStays
  <1>4. MetadataStands'
    BY <1>1 DEF IInv, MetadataStands
  <1>5. \A p \in Requests : req'[p].pc = "updateToken" => req[p].pc = "updateToken" /\ Kept(p)
    BY <1>2, IdleType DEF Kept
  <1>6. published' \in SUBSET Certs
    BY <1>1 DEF TypeOK
  <1>7. QED
    BY <1>1, <1>2, <1>3, <1>4, <1>5, <1>6, OnlyPair DEF TypeOK

\* Of an application that has gone nothing is claimed.
LEMMA RemoveApplicationStep ==
  ASSUME IInv, RemoveApplication
  PROVE  IInv'
  <1>1. /\ TypeOK /\ pair' = "gone" /\ policy' = "absent"
        /\ UNCHANGED <<idp, req, published, doubled>> /\ NoPair
    BY DEF IInv, RemoveApplication
  <1>2. MetadataStands' /\ \A q \in Requests : Kept(q)
    BY <1>1 DEF MetadataStands, Kept
  <1>3. Rows' = Rows /\ settings' = settings
    BY <1>1, TokenKept DEF NoPair
  <1>4. RequestsSound'
    BY <1>1, <1>2, <1>3, SoundKept DEF IInv, RequestsSound
  <1>5. QED
    BY <1>1, <1>2, <1>4, OnlyPair DEF TypeOK

\* After a restart only the rows and what was answered remain.
LEMMA RestartStep ==
  ASSUME IInv, Restart
  PROVE  IInv'
  <1>1. /\ TypeOK /\ idp' = None /\ req' = [q \in Requests |-> Idle]
        /\ UNCHANGED <<settings, scim, policy, pair, published, latest, twins, doubled>>
    BY DEF IInv, Restart
  <1>2. OneToken'
    BY <1>1, TokenKept
  <1>3. MetadataStands'
    BY <1>1 DEF IInv, MetadataStands
  <1>4. RequestsSound'
    BY <1>1, IdleSound DEF RequestsSound
  <1>5. req' \in [Requests -> Request] /\ \A q \in Requests : req'[q].pc # "updateToken"
    BY <1>1, IdleType
  <1>6. TypeOK'
    BY <1>1, <1>5 DEF TypeOK
  <1>7. QED
    BY <1>2, <1>3, <1>4, <1>6 DEF IInv

-----------------------------------------------------------------------------
(* The theorems.                                                           *)

\* Nothing is there at first but the columns of the pair.
LEMMA InitSound == Init => IInv
  <1> SUFFICES ASSUME Init
               PROVE  IInv
    OBVIOUS
  <1>1. TypeOK
    BY IdleType DEF Init, TypeOK
  <1>2. RequestsSound
    BY IdleType DEF Init, RequestsSound, Sound, HandsSound, ReadSound, CacheSound, OnPair
  <1>3. OneToken /\ MetadataStands
    BY DEF Init, OneToken, Rows, MetadataStands
  <1>4. QED
    BY <1>1, <1>2, <1>3 DEF IInv

\* Every step keeps the invariant.
LEMMA NextSound == IInv /\ [Next]_vars => IInv'
  <1> SUFFICES ASSUME IInv, [Next]_vars
               PROVE  IInv'
    OBVIOUS
  <1>1. CASE UNCHANGED vars
    BY <1>1 DEF vars, IInv, TypeOK, RequestsSound, Sound, HandsSound, ReadSound, CacheSound,
                OneToken, Rows, MetadataStands
  <1>2. ASSUME NEW r \in Requests, NEW asked \in Setting, Get(r, asked) \/ UpdateOrg(r, asked)
        PROVE  IInv'
    BY <1>2, GetStep, UpdateOrgStep
  <1>3. ASSUME NEW r \in Requests, CreateConfig(r)
        PROVE  IInv'
    BY <1>3, CreateConfigStep
  <1>4. ASSUME NEW r \in Requests,
               WriteConfig(r) \/ \E whole \in Setting : ReplaceSettings(r, whole)
        PROVE  IInv'
    BY <1>4, WriteConfigStep
  <1>5. ASSUME NEW r \in Requests, \E token \in Tokens : GenerateToken(r, token)
        PROVE  IInv'
    BY <1>5, GenerateTokenStep
  <1>6. ASSUME NEW r \in Requests, UpdateToken(r) \/ CreateToken(r)
        PROVE  IInv'
    BY <1>6, UpdateTokenStep, CreateTokenStep
  <1>7. ASSUME NEW r \in Requests,
               GetTokenPolicy(r) \/ CreateTokenPolicy(r) \/ UpdateTokenPolicy(r)
        PROVE  IInv'
    BY <1>7, PolicyStep
  <1>8. ASSUME NEW r \in Requests, ServeCached(r) \/ GetIdpInstance(r) \/ ReadPair(r)
        PROVE  IInv'
    BY <1>8, ServeCachedStep, GetIdpInstanceStep, ReadPairStep
  <1>9. ASSUME NEW r \in Requests, StorePair(r) \/ CacheIdp(r)
        PROVE  IInv'
    BY <1>9, StorePairStep, CacheIdpStep
  <1>10. CASE RemoveApplication \/ Restart
    BY <1>10, RemoveApplicationStep, RestartStep
  <1>11. QED
    BY <1>1, <1>2, <1>3, <1>4, <1>5, <1>6, <1>7, <1>8, <1>9, <1>10 DEF Next

\* The invariant holds in every state of every run.
THEOREM AlwaysSound == Spec => []IInv
  <1>1. Init => IInv
    BY InitSound
  <1>2. IInv /\ [Next]_vars => IInv'
    BY NextSound
  <1>3. QED
    BY <1>1, <1>2, PTL DEF Spec

\* Rows, caches and requests keep their types; a request that is about to update
\* a SCIM row finds it, and the policy goes with its application.
THEOREM TypeCorrect == Spec => []TypeOK
  <1>1. IInv => TypeOK
    BY DEF IInv
  <1>2. QED
    BY <1>1, AlwaysSound, PTL

\* Until two first generations overlapped, only the token stored last is
\* accepted (scim.service.ts generateToken and validateToken).
THEOREM OldTokensAlwaysDieUnlessTwins == Spec => []OldTokensDieUnlessTwins
  <1>1. IInv => OldTokensDieUnlessTwins
    BY DEF IInv, OneToken, OldTokensDieUnlessTwins, Accepted
  <1>2. QED
    BY <1>1, AlwaysSound, PTL

\* Until two first requests overlapped, the metadata of an application names the
\* certificate in its row (saml-idp.service.ts getOrCreateIdpCertificate).
THEOREM MetadataAlwaysStands == Spec => []MetadataStands
  <1>1. IInv => MetadataStands
    BY DEF IInv
  <1>2. QED
    BY <1>1, AlwaysSound, PTL

\* A setting is lost only to a request that asked for it, that read before
\* another wrote, or that replaces all (org.controller.ts updateOrg).
THEOREM SettingsLostOnlyEverByOverlap == Spec => SettingsLostOnlyByOverlap
  <1> DEFINE Body == \A k \in Keys : settings # None /\ settings'[k] # settings[k] =>
                       \/ \E r \in Requests :
                            /\ Waits(r, "writeConfig") /\ req'[r] = Idle
                            /\ req[r].asked[k] # None \/ req[r].late
                       \/ \A r \in Requests : req'[r].pc = req[r].pc
  <1>1. IInv /\ [Next]_vars => [Body]_vars
    <2> SUFFICES ASSUME IInv, Next, NEW k \in Keys, settings # None,
                        settings'[k] # settings[k]
                 PROVE  \/ \E r \in Requests :
                             /\ Waits(r, "writeConfig") /\ req'[r] = Idle
                             /\ req[r].asked[k] # None \/ req[r].late
                        \/ \A r \in Requests : req'[r].pc = req[r].pc
      OBVIOUS
    <2>1. PICK r \in Requests :
            WriteConfig(r) \/ \E whole \in Setting : ReplaceSettings(r, whole)
      BY Zenon DEF Next, NoToken, NoPolicy, NoPair, Get, UpdateOrg, CreateConfig, GenerateToken,
                   UpdateToken, CreateToken, GetTokenPolicy, CreateTokenPolicy,
                   UpdateTokenPolicy, ServeCached, GetIdpInstance, ReadPair, StorePair,
                   CacheIdp, RemoveApplication, Restart
    <2>2. req'[r] = Idle /\ \A p \in Requests \ {r} : Kept(p)
      BY <2>1, IdleType, WroteEffect DEF WriteConfig, ReplaceSettings, IInv
    <2>3. CASE WriteConfig(r)
      <3>1. Waits(r, "writeConfig") /\ settings' = req[r].merged
        BY <2>3 DEF WriteConfig
      <3>2. req[r].late \/ req[r].asked[k] # None
        BY <3>1 DEF Waits, IInv, RequestsSound, Sound, ReadSound
      <3>3. QED
        BY <2>2, <3>1, <3>2
    <2>4. CASE \E whole \in Setting : ReplaceSettings(r, whole)
      <3>1. req[r].pc = "idle"
        BY <2>4 DEF ReplaceSettings, Waits
      <3>2. QED
        BY <2>2, <3>1, IdleType DEF Kept
    <2>5. QED
      BY <2>1, <2>3, <2>4
  <1>2. QED
    BY <1>1, AlwaysSound, PTL DEF Spec, SettingsLostOnlyByOverlap

\* No default takes the place of the policy an administrator chose
\* (oidc-config.service.ts getTokenPolicy).
THEOREM ChosenPolicyAlwaysStays == Spec => ChosenPolicyStays
  <1> DEFINE Body == policy = "chosen" /\ policy' # "chosen" => pair' = "gone"
  <1>1. [Next]_vars => [Body]_vars
    <2> SUFFICES ASSUME Next, policy = "chosen", policy' # policy
                 PROVE  pair' = "gone"
      OBVIOUS
    <2>1. CASE \E r \in Requests : CreateTokenPolicy(r)
      BY <2>1 DEF CreateTokenPolicy
    <2>2. CASE \E r \in Requests : UpdateTokenPolicy(r)
      BY <2>2 DEF UpdateTokenPolicy
    <2>3. CASE RemoveApplication
      BY <2>3 DEF RemoveApplication
    <2>4. \/ \E r \in Requests : CreateTokenPolicy(r) \/ UpdateTokenPolicy(r)
          \/ RemoveApplication
      BY Zenon DEF Next, NoSetting, NoToken, NoPair, Get, UpdateOrg, CreateConfig, WriteConfig,
                   ReplaceSettings, GenerateToken, UpdateToken, CreateToken, GetTokenPolicy,
                   ServeCached, GetIdpInstance, ReadPair, StorePair, CacheIdp, Restart
    <2>5. QED
      BY <2>1, <2>2, <2>3, <2>4
  <1>2. QED
    BY <1>1, PTL DEF Spec, ChosenPolicyStays

=============================================================================
