------------------------- MODULE ProviderCacheProofs -------------------------
(* Theorems about ProviderCache for any secrets, keys and requests.          *)
EXTENDS ProviderCache, TLAPS

-----------------------------------------------------------------------------
(* Instances, rows and requests.                                           *)

\* The value of a free slot is no state of a request.
LEMMA IdleIsNoRequest == Idle \notin RequestState
  BY DEF Idle, RequestState, PC

\* A request that read nothing yet holds no key.
LEMMA NoInstanceType ==
  /\ NoInstance \in Instance
  /\ NoInstance.jwks = {} /\ ~NoInstance.allowClientCredentials
  BY DEF NoInstance, Instance

\* What reading the row, reading the keys and clearing the cache make of an
\* instance under construction.
LEMMA SettingsType ==
  ASSUME TypeOK, Present
  PROVE  /\ SettingsOf(app) \in Instance
         /\ SettingsOf(app).jwks = {} /\ ~SettingsOf(app).overtaken
         /\ SettingsOf(app).allowClientCredentials = app.allowClientCredentials
         /\ SettingsOf(app).clientSecretHash = app.clientSecretHash
  BY DEF TypeOK, Present, AppRow, NoRow, SettingsOf, Instance

\* The keys that were read join the settings that were read
\* (oidc-idp.service.ts:54-66).
LEMMA WithKeysType ==
  ASSUME NEW i \in Instance, NEW jwks \in SUBSET Key
  PROVE  /\ WithKeys(i, jwks) \in Instance
         /\ WithKeys(i, jwks).jwks = jwks
         /\ WithKeys(i, jwks).overtaken = i.overtaken
         /\ WithKeys(i, jwks).allowClientCredentials = i.allowClientCredentials
         /\ WithKeys(i, jwks).clientSecretHash = i.clientSecretHash
  BY DEF WithKeys, Instance

\* An instance overtaken by a clear keeps what it captured.
LEMMA OvertakenType ==
  ASSUME NEW i \in Instance
  PROVE  /\ Overtaken(i) \in Instance
         /\ Overtaken(i).jwks = i.jwks /\ Overtaken(i).overtaken
         /\ Overtaken(i).allowClientCredentials = i.allowClientCredentials
         /\ Overtaken(i).clientSecretHash = i.clientSecretHash
  BY DEF Overtaken, Instance

\* A request that goes on keeps its operation, secret and key.
LEMMA HoldingType ==
  ASSUME TypeOK, NEW r \in Request, Active(r), NEW pc \in PC, NEW i \in Instance
  PROVE  /\ Holding(r, pc, i) \in RequestState
         /\ Holding(r, pc, i).pc = pc /\ Holding(r, pc, i).op = req[r].op
         /\ Holding(r, pc, i).key = req[r].key /\ Holding(r, pc, i).instance = i
  <1>1. req[r] \in RequestState
    BY DEF TypeOK, Active
  <1>2. QED
    BY <1>1 DEF Holding, RequestState

\* What the ways to go on do to the slots.
LEMMA StartEffect ==
  ASSUME TypeOK, NEW r \in Request, NEW pc \in PC, NEW op \in Op, NEW value \in BOOLEAN,
         NEW secret \in Secret \cup {None}, NEW key \in Key \cup {None},
         Start(r, pc, op, value, secret, key)
  PROVE  /\ req' \in [Request -> RequestState \cup {Idle}]
         /\ \A q \in Request \ {r} : req'[q] = req[q]
         /\ ~Active(r) /\ Active(r)'
         /\ req'[r].pc = pc /\ req'[r].op = op /\ req'[r].secret = secret
         /\ req'[r].key = key
         /\ req'[r].instance = NoInstance
  <1> DEFINE new == [pc |-> pc, op |-> op, value |-> value, secret |-> secret,
                     key |-> key, instance |-> NoInstance]
  <1>1. new \in RequestState
    BY NoInstanceType DEF RequestState
  <1>2. req' = [req EXCEPT ![r] = new] /\ req[r] = Idle
    BY DEF Start
  <1>3. req'[r] = new /\ \A q \in Request \ {r} : req'[q] = req[q]
    BY <1>2 DEF TypeOK
  <1>4. req' \in [Request -> RequestState \cup {Idle}]
    BY <1>1, <1>2 DEF TypeOK
  <1>5. Active(r)'
    BY <1>1, <1>3, IdleIsNoRequest DEF Active
  <1>6. QED
    BY <1>2, <1>3, <1>4, <1>5 DEF Active

\* Going on with an instance touches no other request.
LEMMA CarryEffect ==
  ASSUME TypeOK, NEW r \in Request, Active(r), NEW pc \in PC, NEW i \in Instance,
         Carry(r, pc, i)
  PROVE  /\ req' \in [Request -> RequestState \cup {Idle}]
         /\ \A q \in Request \ {r} : req'[q] = req[q]
         /\ Active(r)'
         /\ req'[r].pc = pc /\ req'[r].op = req[r].op /\ req'[r].key = req[r].key
         /\ req'[r].instance = i
  <1>1. req'[r] = Holding(r, pc, i) /\ \A q \in Request \ {r} : req'[q] = req[q]
    BY DEF Carry, TypeOK
  <1>2. req' \in [Request -> RequestState \cup {Idle}]
    BY HoldingType DEF Carry, TypeOK
  <1>3. Active(r)'
    BY <1>1, HoldingType, IdleIsNoRequest DEF Active
  <1>4. QED
    BY <1>1, <1>2, <1>3, HoldingType

\* Going on with the same instance.
LEMMA GotoEffect ==
  ASSUME TypeOK, NEW r \in Request, Active(r), NEW pc \in PC, Goto(r, pc)
  PROVE  /\ req' \in [Request -> RequestState \cup {Idle}]
         /\ \A q \in Request \ {r} : req'[q] = req[q]
         /\ Active(r)'
         /\ req'[r].pc = pc /\ req'[r].op = req[r].op /\ req'[r].key = req[r].key
         /\ req'[r].instance = req[r].instance
  <1>1. req[r].instance \in Instance
    BY DEF TypeOK, Active, RequestState
  <1>2. QED
    BY <1>1, CarryEffect DEF Goto

\* Returning frees the slot and no other.
LEMMA ReturnEffect ==
  ASSUME TypeOK, NEW r \in Request, Return(r)
  PROVE  /\ req' \in [Request -> RequestState \cup {Idle}]
         /\ \A q \in Request \ {r} : req'[q] = req[q]
         /\ ~Active(r)'
  BY DEF Return, TypeOK, Active

-----------------------------------------------------------------------------
(* The inductive invariant.                                                *)

\* Before the application exists nothing is there.
NothingBefore ==
  app.status = "absent" =>
    /\ cache = None /\ keys = {} /\ signed = {} /\ announced = {}
    /\ \A r \in Request : ~Active(r)

\* What an instance or a row grants stood in the row.
GrantStood(i) == i.allowClientCredentials => i.clientSecretHash \in stood

\* Keys that matter to anybody are rows, and so was what the cache grants.
Backed ==
  /\ Present => /\ signed \subseteq keys /\ announced \subseteq keys
                /\ cache # None => cache.jwks \subseteq keys
  /\ cache # None => GrantStood(cache)

\* The histories know of the row as it is.
Met ==
  /\ Present => GrantStood(app)
  /\ \A r \in Request : Entitled(r) => r \in seen

\* What a request in progress may rely on: its keys are rows, and what it read
\* while no clear overtook it is what the database holds.
Sound(r) ==
  /\ Present => req[r].instance.jwks \subseteq keys
  /\ GrantStood(req[r].instance)
  /\ InHand(r) /\ Present /\ ~req[r].instance.overtaken =>
       /\ ~ClearPending => req[r].instance.allowClientCredentials = app.allowClientCredentials
       /\ req[r].pc = "generate" => announced = {}
       /\ req[r].pc = "build" => announced \subseteq req[r].instance.jwks
  /\ Present /\ req[r].pc = "clear" /\ req[r].op = "rotateSigningKey" => req[r].key \in keys
  /\ req[r].pc = "write" => req[r].op = "update"
  /\ req[r].pc = "demote" => req[r].op = "rotateSigningKey"
  /\ req[r].op = "rotateSigningKey" => req[r].key \in Key
  /\ req[r].op = "token" => r \in seen

RequestsSound == \A r \in Request : Active(r) => Sound(r)

Inv ==
  TypeOK /\ NothingBefore /\ Backed /\ Met /\ UnovertakenIsCurrent /\ RequestsSound

\* Before the application is created nothing is there.
LEMMA InvInit == Init => Inv
  <1> SUFFICES ASSUME Init PROVE Inv
    OBVIOUS
  <1>1. app.status = "absent"
    BY DEF Init, NoRow
  <1>2. TypeOK
    BY DEF Init, TypeOK, AppRow
  <1>3. NothingBefore /\ Backed /\ Met /\ UnovertakenIsCurrent /\ RequestsSound
    BY <1>1 DEF Init, NothingBefore, Backed, Met, UnovertakenIsCurrent, RequestsSound,
                Present, Active, Entitled
  <1>4. QED
    BY <1>2, <1>3 DEF Inv

\* The histories only name requests and secrets, lose no secret, and know of the
\* row a step leaves behind.
LEMMA HistoryType ==
  ASSUME TypeOK, app' \in AppRow, Observe
  PROVE  seen' \subseteq Request /\ stood' \subseteq Secret
  BY DEF TypeOK, Observe, AppRow, NoRow, Present

\* No secret that stood is forgotten.
LEMMA StoodGrows == Observe => stood \subseteq stood'
  BY DEF Observe

\* Every step notes the row it leaves and whom it entitles.
LEMMA ObserveMeets == Observe => Met'
  BY DEF Observe, Met, GrantStood, Entitled

\* A step of another actor that is neither a clear nor the removal: rows of keys
\* only come, and a setting changes only together with a pending clear.
Undisturbed ==
  /\ app'.status = app.status /\ announced' = announced
  /\ keys \subseteq keys'
  /\ ClearPending => ClearPending'
  /\ app'.allowClientCredentials = app.allowClientCredentials \/ ClearPending'
  /\ Observe

\* What a request relies on survives the steps of others, clears and removals
\* apart (oidc-idp.service.ts:41-251).
LEMMA SoundKept ==
  ASSUME NEW q \in Request, Active(q), Sound(q), req'[q] = req[q], Undisturbed
  PROVE  Active(q)' /\ Sound(q)'
  <1>1. Active(q)' /\ (Present' <=> Present) /\ (InHand(q)' <=> InHand(q))
    BY DEF Undisturbed, Active, Present, InHand
  <1>2. q \in seen => q \in seen'
    BY <1>1 DEF Undisturbed, Observe
  <1>3. GrantStood(req[q].instance)'
    BY StoodGrows DEF Undisturbed, Sound, GrantStood
  <1>4. QED
    BY <1>1, <1>2, <1>3 DEF Undisturbed, Sound

\* The cache and its instance under such a step.
LEMMA CacheKept ==
  ASSUME Backed, UnovertakenIsCurrent, Undisturbed, cache' = cache, signed' = signed
  PROVE  Backed' /\ UnovertakenIsCurrent'
  <1>1. Present' <=> Present
    BY DEF Undisturbed, Present
  <1>2. Backed'
    BY <1>1, StoodGrows DEF Undisturbed, Backed, GrantStood
  <1>3. UnovertakenIsCurrent'
    BY <1>1 DEF Undisturbed, UnovertakenIsCurrent
  <1>4. QED
    BY <1>2, <1>3

\* A clear that is pending stays pending when another request acts.
LEMMA ClearStaysPending ==
  ASSUME NEW r \in Request, ~At(r, "clear"), \A q \in Request \ {r} : req'[q] = req[q]
  PROVE  ClearPending => ClearPending'
  BY DEF ClearPending, At, Active

\* One request acts, does not clear, and is sound afterwards.
LEMMA OneActs ==
  ASSUME Inv, NEW r \in Request, TypeOK', Undisturbed,
         \A q \in Request \ {r} : req'[q] = req[q],
         Active(r)' => Sound(r)', Backed', UnovertakenIsCurrent', app.status # "absent"
  PROVE  Inv'
  <1>1. RequestsSound'
    <2>1. ASSUME NEW q \in Request, Active(q)' PROVE Sound(q)'
      <3>1. CASE q = r
        BY <2>1, <3>1
      <3>2. CASE q # r
        BY <2>1, <3>2, SoundKept DEF Inv, RequestsSound, Active
      <3>3. QED
        BY <3>1, <3>2
    <2>2. QED
      BY <2>1 DEF RequestsSound
  <1>2. NothingBefore'
    BY DEF NothingBefore, Undisturbed
  <1>3. Met'
    BY ObserveMeets DEF Undisturbed
  <1>4. QED
    BY <1>1, <1>2, <1>3 DEF Inv

-----------------------------------------------------------------------------
(* The steps of a handler after its first await.                           *)

\* A request in progress means that the application was created.
LEMMA ActiveIsTyped ==
  ASSUME Inv, NEW r \in Request, Active(r)
  PROVE  /\ TypeOK /\ app.status # "absent" /\ Sound(r)
         /\ req[r] \in RequestState /\ req[r].instance \in Instance
         /\ req[r].key \in Key \cup {None}
  BY DEF Inv, NothingBefore, RequestsSound, TypeOK, Active, RequestState

\* A handler that only returns.
LEMMA ReturnKeeps ==
  ASSUME Inv, NEW r \in Request, Active(r), req[r].pc # "clear", Return(r), Observe,
         UNCHANGED <<app, cache, announced, signed>>, keys \subseteq keys', keys' \subseteq Key,
         drawn' \subseteq Secret \cup Key
  PROVE  Inv'
  <1>1. TypeOK /\ app.status # "absent"
    BY ActiveIsTyped
  <1>2. TypeOK'
    BY <1>1, ReturnEffect, HistoryType DEF TypeOK
  <1>3. Undisturbed
    BY <1>1, ReturnEffect, ClearStaysPending DEF Undisturbed, At
  <1>4. QED
    BY <1>1, <1>2, <1>3, ReturnEffect, CacheKept, OneActs DEF Inv

\* createApplication's key (application.service.ts:79-91).
LEMMA InvInsertKey ==
  ASSUME Inv, NEW r \in Request, NEW k \in Key, InsertKey(r, k)
  PROVE  Inv'
  <1>1. /\ Active(r) /\ req[r].pc = "key" /\ Return(r) /\ Observe
        /\ UNCHANGED <<app, cache, announced, signed>>
    BY DEF InsertKey, At
  <1>2. keys \subseteq keys' /\ keys' \subseteq Key /\ drawn' \subseteq Secret \cup Key
    BY DEF InsertKey, Inv, TypeOK
  <1>3. QED
    BY <1>1, <1>2, ReturnKeeps

\* A handler that goes on without writing, as long as what it holds is sound.
LEMMA GoOnKeeps ==
  ASSUME Inv, NEW r \in Request, Active(r), req[r].pc # "clear", Observe, Active(r)',
         \A q \in Request \ {r} : req'[q] = req[q],
         req' \in [Request -> RequestState \cup {Idle}],
         req'[r].op = req[r].op, req'[r].key = req[r].key,
         UNCHANGED <<app, cache, announced>>,
         keys \subseteq keys', keys' \subseteq Key, drawn' \subseteq Secret \cup Key,
         signed' = signed,
         Present' => req'[r].instance.jwks \subseteq keys',
         req'[r].instance.allowClientCredentials => req'[r].instance.clientSecretHash \in stood,
         InHand(r)' /\ Present' /\ ~req'[r].instance.overtaken =>
           /\ ~ClearPending' => req'[r].instance.allowClientCredentials = app'.allowClientCredentials
           /\ req'[r].pc = "generate" => announced' = {}
           /\ req'[r].pc = "build" => announced' \subseteq req'[r].instance.jwks,
         Present' /\ req'[r].pc = "clear" /\ req'[r].op = "rotateSigningKey" => req'[r].key \in keys',
         req'[r].pc \notin {"write", "demote"}
  PROVE  Inv'
  <1>1. TypeOK /\ app.status # "absent" /\ Sound(r)
    BY ActiveIsTyped
  <1>2. TypeOK'
    BY <1>1, HistoryType DEF TypeOK
  <1>3. Undisturbed
    BY <1>1, ClearStaysPending DEF Undisturbed, At
  <1>4. (req[r].op = "token" => r \in seen') /\ GrantStood(req[r].instance)'
    BY <1>1, StoodGrows DEF Sound, Observe, GrantStood
  <1>5. Sound(r)'
    BY <1>1, <1>4 DEF Sound
  <1>6. QED
    BY <1>1, <1>2, <1>3, <1>5, CacheKept, OneActs DEF Inv

\* rotateSigningKey's insert: the key is there before the cache is cleared
\* (application.service.ts:297-311).
LEMMA InvInsertRotatedKey ==
  ASSUME Inv, NEW r \in Request, InsertRotatedKey(r)
  PROVE  Inv'
  <1>1. /\ Active(r) /\ req[r].pc = "demote" /\ Observe
        /\ UNCHANGED <<app, cache, drawn, announced, signed>>
    BY DEF InsertRotatedKey, At
  <1>2. TypeOK /\ Sound(r) /\ req[r].key \in Key
    BY <1>1, ActiveIsTyped DEF Sound
  <1>3. CASE Present
    <2>1. keys' = keys \cup {req[r].key} /\ Goto(r, "clear")
      BY <1>3 DEF InsertRotatedKey
    <2>2. /\ \A q \in Request \ {r} : req'[q] = req[q]
          /\ req' \in [Request -> RequestState \cup {Idle}] /\ Active(r)'
          /\ req'[r].op = req[r].op /\ req'[r].key = req[r].key /\ req'[r].pc = "clear"
          /\ req'[r].instance = req[r].instance
      BY <1>1, <1>2, <2>1, GotoEffect DEF PC
    <2>3. /\ req'[r].instance.jwks \subseteq keys' /\ ~InHand(r)'
          /\ req'[r].instance.allowClientCredentials =>
               req'[r].instance.clientSecretHash \in stood
      BY <1>2, <1>3, <2>1, <2>2 DEF Sound, InHand, GrantStood
    <2>4. keys' \subseteq Key /\ drawn' \subseteq Secret \cup Key
      BY <1>1, <1>2, <2>1 DEF TypeOK
    <2>5. QED
      BY <1>1, <2>1, <2>2, <2>3, <2>4, GoOnKeeps
  <1>4. CASE ~Present
    BY <1>1, <1>2, <1>4, ReturnKeeps DEF InsertRotatedKey, TypeOK
  <1>5. QED
    BY <1>3, <1>4

\* update's write: from here to the clear the cache may be behind
\* (application.service.ts:195-234).
LEMMA InvWriteSettings ==
  ASSUME Inv, NEW r \in Request, WriteSettings(r)
  PROVE  Inv'
  <1>1. /\ Active(r) /\ req[r].pc = "write" /\ Observe
        /\ UNCHANGED <<keys, cache, drawn, announced, signed>>
    BY DEF WriteSettings, At
  <1>2. TypeOK /\ Sound(r) /\ req[r] \in RequestState /\ app.status # "absent"
    BY <1>1, ActiveIsTyped
  <1>3. CASE Present
    <2>1. app' = [app EXCEPT !.allowClientCredentials = req[r].value] /\ Goto(r, "clear")
      BY <1>3 DEF WriteSettings
    <2>2. /\ \A q \in Request \ {r} : req'[q] = req[q]
          /\ req' \in [Request -> RequestState \cup {Idle}] /\ Active(r)'
          /\ req'[r].op = req[r].op /\ req'[r].key = req[r].key /\ req'[r].pc = "clear"
          /\ req'[r].instance = req[r].instance
      BY <1>1, <1>2, <2>1, GotoEffect DEF PC
    <2>3. app' \in AppRow /\ app'.status = app.status
      <3>1. app \in [status : {"ACTIVE"}, clientSecretHash : Secret,
                      allowClientCredentials : BOOLEAN]
        BY <1>2, <1>3 DEF TypeOK, AppRow, NoRow, Present
      <3>2. req[r].value \in BOOLEAN
        BY <1>2 DEF RequestState
      <3>3. QED
        BY <2>1, <3>1, <3>2 DEF AppRow
    <2>4. ClearPending'
      BY <2>2 DEF ClearPending, At
    <2>5. Undisturbed
      BY <1>1, <2>3, <2>4 DEF Undisturbed
    <2>6. TypeOK'
      BY <1>1, <1>2, <2>2, <2>3, HistoryType DEF TypeOK
    <2>7. Sound(r)'
      <3>1. Present' /\ ~InHand(r)' /\ req[r].op = "update"
        BY <1>1, <1>2, <1>3, <2>2, <2>3 DEF Sound, Present, InHand
      <3>2. GrantStood(req[r].instance)'
        BY <1>1, <1>2, <2>2, StoodGrows DEF Sound, GrantStood
      <3>3. QED
        BY <1>1, <1>2, <1>3, <2>2, <3>1, <3>2 DEF Sound
    <2>8. QED
      BY <1>1, <1>2, <2>2, <2>5, <2>6, <2>7, CacheKept, OneActs DEF Inv
  <1>4. CASE ~Present
    BY <1>1, <1>2, <1>4, ReturnKeeps DEF WriteSettings, TypeOK
  <1>5. QED
    BY <1>3, <1>4

\* The provider is looked up: a hit has sound keys (oidc-idp.service.ts:39-43).
LEMMA InvLookUp ==
  ASSUME Inv, NEW r \in Request, LookUp(r)
  PROVE  Inv'
  <1>1. /\ Active(r) /\ req[r].pc = "provider" /\ Observe
        /\ UNCHANGED <<app, keys, cache, drawn, announced, signed>>
    BY DEF LookUp, At
  <1>2. /\ TypeOK /\ Sound(r) /\ Backed /\ UnovertakenIsCurrent
        /\ cache \in Instance \cup {None} /\ Present' = Present
    BY <1>1, ActiveIsTyped DEF Inv, TypeOK, Present
  <1>3. CASE cache # None
    <2>1. Carry(r, "serve", cache) /\ cache \in Instance
      BY <1>2, <1>3 DEF LookUp
    <2>2. /\ \A q \in Request \ {r} : req'[q] = req[q]
          /\ req' \in [Request -> RequestState \cup {Idle}] /\ Active(r)'
          /\ req'[r].op = req[r].op /\ req'[r].key = req[r].key /\ req'[r].pc = "serve"
          /\ req'[r].instance = cache
      BY <1>1, <1>2, <2>1, CarryEffect DEF PC
    <2>3. /\ Present' => req'[r].instance.jwks \subseteq keys'
          /\ req'[r].instance.allowClientCredentials =>
               req'[r].instance.clientSecretHash \in stood
      BY <1>1, <1>2, <1>3, <2>2 DEF Backed, GrantStood
    <2>4. ClearPending => ClearPending'
      BY <1>1, <2>2, ClearStaysPending DEF At
    <2>5. Present' /\ ~req'[r].instance.overtaken /\ ~ClearPending' =>
            req'[r].instance.allowClientCredentials = app'.allowClientCredentials
      BY <1>1, <1>2, <1>3, <2>2, <2>4 DEF UnovertakenIsCurrent
    <2>6. QED
      BY <1>1, <1>2, <2>2, <2>3, <2>5, GoOnKeeps DEF TypeOK
  <1>4. CASE cache = None
    <2>1. Goto(r, "fill")
      BY <1>4 DEF LookUp
    <2>2. /\ \A q \in Request \ {r} : req'[q] = req[q]
          /\ req' \in [Request -> RequestState \cup {Idle}] /\ Active(r)'
          /\ req'[r].op = req[r].op /\ req'[r].key = req[r].key /\ req'[r].pc = "fill"
          /\ req'[r].instance = req[r].instance
      BY <1>1, <1>2, <2>1, GotoEffect DEF PC
    <2>3. /\ ~InHand(r)' /\ (Present' => req'[r].instance.jwks \subseteq keys')
          /\ req'[r].instance.allowClientCredentials =>
               req'[r].instance.clientSecretHash \in stood
      BY <1>1, <1>2, <2>2 DEF InHand, Sound, GrantStood
    <2>4. QED
      BY <1>1, <1>2, <2>2, <2>3, GoOnKeeps DEF TypeOK
  <1>5. QED
    BY <1>3, <1>4

\* The application is read (oidc-idp.service.ts:45-52).
LEMMA InvReadApplication ==
  ASSUME Inv, NEW r \in Request, ReadApplication(r)
  PROVE  Inv'
  <1>1. /\ Active(r) /\ req[r].pc = "fill" /\ Observe
        /\ UNCHANGED <<app, keys, cache, drawn, announced, signed>>
    BY DEF ReadApplication, At
  <1>2. TypeOK /\ Sound(r) /\ Met
    BY <1>1, ActiveIsTyped DEF Inv
  <1>3. CASE Present
    <2>1. Carry(r, "keys", SettingsOf(app))
      BY <1>3 DEF ReadApplication
    <2>2. /\ \A q \in Request \ {r} : req'[q] = req[q]
          /\ req' \in [Request -> RequestState \cup {Idle}] /\ Active(r)'
          /\ req'[r].op = req[r].op /\ req'[r].key = req[r].key /\ req'[r].pc = "keys"
          /\ req'[r].instance = SettingsOf(app)
      BY <1>1, <1>2, <1>3, <2>1, CarryEffect, SettingsType DEF PC
    <2>3. /\ req'[r].instance.jwks \subseteq keys'
          /\ req'[r].instance.allowClientCredentials = app'.allowClientCredentials
          /\ req'[r].instance.allowClientCredentials =>
               req'[r].instance.clientSecretHash \in stood
      BY <1>1, <1>2, <1>3, <2>2, SettingsType DEF Met, GrantStood
    <2>4. QED
      BY <1>1, <1>2, <2>2, <2>3, GoOnKeeps DEF TypeOK
  <1>4. CASE ~Present
    BY <1>1, <1>2, <1>4, ReturnKeeps DEF ReadApplication, TypeOK
  <1>5. QED
    BY <1>3, <1>4

\* The keys are read: they hold every announced one (oidc-idp.service.ts:54-59).
LEMMA InvReadKeys ==
  ASSUME Inv, NEW r \in Request, ReadKeys(r)
  PROVE  Inv'
  <1>1. /\ Active(r) /\ req[r].pc = "keys" /\ Observe
        /\ UNCHANGED <<app, keys, cache, drawn, announced, signed>>
    BY DEF ReadKeys, At
  <1>2. /\ TypeOK /\ Sound(r) /\ Backed /\ req[r].instance \in Instance
        /\ InHand(r) /\ Present' = Present
    BY <1>1, ActiveIsTyped DEF Inv, Present, InHand
  <1>3. CASE Return(r)
    BY <1>1, <1>2, <1>3, ReturnKeeps DEF TypeOK
  <1>4. CASE ~Return(r)
    <2> DEFINE pc == IF keys = {} THEN "generate" ELSE "build"
    <2>1. Carry(r, pc, WithKeys(req[r].instance, keys))
      BY <1>4 DEF ReadKeys
    <2>2. pc \in PC /\ keys \in SUBSET Key
      BY <1>2 DEF PC, TypeOK
    <2>3. /\ WithKeys(req[r].instance, keys) \in Instance
          /\ WithKeys(req[r].instance, keys).jwks = keys
          /\ WithKeys(req[r].instance, keys).overtaken = req[r].instance.overtaken
          /\ WithKeys(req[r].instance, keys).allowClientCredentials =
               req[r].instance.allowClientCredentials
          /\ WithKeys(req[r].instance, keys).clientSecretHash = req[r].instance.clientSecretHash
      BY <1>2, <2>2, WithKeysType
    <2>4. /\ \A q \in Request \ {r} : req'[q] = req[q]
          /\ req' \in [Request -> RequestState \cup {Idle}] /\ Active(r)'
          /\ req'[r].op = req[r].op /\ req'[r].key = req[r].key /\ req'[r].pc = pc
          /\ req'[r].instance = WithKeys(req[r].instance, keys)
      BY <1>1, <1>2, <2>1, <2>2, <2>3, CarryEffect
    <2>5. ClearPending => ClearPending'
      BY <1>1, <2>4, ClearStaysPending DEF At
    <2>6. InHand(r)' /\ Present' /\ ~req'[r].instance.overtaken =>
           /\ ~ClearPending' => req'[r].instance.allowClientCredentials = app'.allowClientCredentials
           /\ req'[r].pc = "generate" => announced' = {}
           /\ req'[r].pc = "build" => announced' \subseteq req'[r].instance.jwks
      BY <1>1, <1>2, <2>3, <2>4, <2>5 DEF Sound, Backed
    <2>7. req'[r].instance.allowClientCredentials => req'[r].instance.clientSecretHash \in stood
      BY <1>2, <2>3, <2>4 DEF Sound, GrantStood
    <2>8. QED
      BY <1>1, <1>2, <2>2, <2>3, <2>4, <2>6, <2>7, GoOnKeeps DEF TypeOK
  <1>5. QED
    BY <1>3, <1>4

\* A key is generated and inserted (oidc-idp.service.ts:62-66, 259-275).
LEMMA InvGenerate ==
  ASSUME Inv, NEW r \in Request, NEW k \in Key, GenerateAndPersistSigningKey(r, k)
  PROVE  Inv'
  <1>1. /\ Active(r) /\ req[r].pc = "generate" /\ Observe
        /\ UNCHANGED <<app, cache, announced, signed>> /\ drawn' = drawn \cup {k}
    BY DEF GenerateAndPersistSigningKey, At
  <1>2. /\ TypeOK /\ Sound(r) /\ Backed /\ req[r].instance \in Instance
        /\ InHand(r) /\ Present' = Present /\ drawn' \subseteq Secret \cup Key
    BY <1>1, ActiveIsTyped DEF Inv, Present, InHand, TypeOK
  <1>3. CASE Present
    <2>1. keys' = keys \cup {k} /\ Carry(r, "build", WithKeys(req[r].instance, {k}))
      BY <1>3 DEF GenerateAndPersistSigningKey
    <2>2. {k} \in SUBSET Key /\ "build" \in PC /\ keys' \subseteq Key
      BY <1>2, <2>1 DEF PC, TypeOK
    <2>3. /\ WithKeys(req[r].instance, {k}) \in Instance
          /\ WithKeys(req[r].instance, {k}).jwks = {k}
          /\ WithKeys(req[r].instance, {k}).overtaken = req[r].instance.overtaken
          /\ WithKeys(req[r].instance, {k}).allowClientCredentials =
               req[r].instance.allowClientCredentials
          /\ WithKeys(req[r].instance, {k}).clientSecretHash = req[r].instance.clientSecretHash
      BY <1>2, <2>2, WithKeysType
    <2>4. /\ \A q \in Request \ {r} : req'[q] = req[q]
          /\ req' \in [Request -> RequestState \cup {Idle}] /\ Active(r)'
          /\ req'[r].op = req[r].op /\ req'[r].key = req[r].key /\ req'[r].pc = "build"
          /\ req'[r].instance = WithKeys(req[r].instance, {k})
      BY <1>1, <1>2, <2>1, <2>2, <2>3, CarryEffect
    <2>5. ClearPending => ClearPending'
      BY <1>1, <2>4, ClearStaysPending DEF At
    <2>6. InHand(r)' /\ Present' /\ ~req'[r].instance.overtaken =>
           /\ ~ClearPending' => req'[r].instance.allowClientCredentials = app'.allowClientCredentials
           /\ req'[r].pc = "generate" => announced' = {}
           /\ req'[r].pc = "build" => announced' \subseteq req'[r].instance.jwks
      BY <1>1, <1>2, <2>3, <2>4, <2>5 DEF Sound
    <2>7. req'[r].instance.allowClientCredentials => req'[r].instance.clientSecretHash \in stood
      BY <1>2, <2>3, <2>4 DEF Sound, GrantStood
    <2>8. QED
      BY <1>1, <1>2, <2>1, <2>2, <2>3, <2>4, <2>6, <2>7, GoOnKeeps
  <1>4. CASE ~Present
    BY <1>1, <1>2, <1>4, ReturnKeeps DEF GenerateAndPersistSigningKey, TypeOK
  <1>5. QED
    BY <1>3, <1>4

\* The instance goes into the cache (oidc-idp.service.ts:73-251).
LEMMA InvBuild ==
  ASSUME Inv, NEW r \in Request, Build(r)
  PROVE  Inv'
  <1>1. /\ Active(r) /\ req[r].pc = "build" /\ Observe /\ Goto(r, "serve")
        /\ cache' = req[r].instance
        /\ UNCHANGED <<app, keys, drawn, announced, signed>>
    BY DEF Build, At
  <1>2. /\ TypeOK /\ Sound(r) /\ Backed /\ req[r].instance \in Instance
        /\ InHand(r) /\ Present' = Present /\ app.status # "absent"
    BY <1>1, ActiveIsTyped DEF Inv, Present, InHand
  <1>3. /\ \A q \in Request \ {r} : req'[q] = req[q]
        /\ req' \in [Request -> RequestState \cup {Idle}] /\ Active(r)'
        /\ req'[r].op = req[r].op /\ req'[r].key = req[r].key /\ req'[r].pc = "serve"
        /\ req'[r].instance = req[r].instance
    BY <1>1, <1>2, GotoEffect DEF PC
  <1>4. TypeOK'
    BY <1>1, <1>2, <1>3, HistoryType DEF TypeOK
  <1>5. Undisturbed
    BY <1>1, <1>3, ClearStaysPending DEF Undisturbed, At
  <1>6. Sound(r)'
    <2>1. (req[r].op = "token" => r \in seen') /\ GrantStood(req[r].instance)'
      BY <1>1, <1>2, <1>3, StoodGrows DEF Sound, Observe, GrantStood
    <2>2. QED
      BY <1>1, <1>2, <1>3, <1>5, <2>1 DEF Sound, Undisturbed
  <1>7. Backed'
    BY <1>1, <1>2, StoodGrows DEF Backed, Sound, GrantStood
  <1>8. UnovertakenIsCurrent'
    BY <1>1, <1>2, <1>5 DEF UnovertakenIsCurrent, Sound, Undisturbed
  <1>9. QED
    BY <1>2, <1>3, <1>4, <1>5, <1>6, <1>7, <1>8, OneActs

\* The provider answers, and signs when it grants.
LEMMA InvServe ==
  ASSUME Inv, NEW r \in Request, Serve(r)
  PROVE  Inv'
  <1>1. /\ Active(r) /\ req[r].pc = "serve" /\ Observe /\ Return(r)
        /\ UNCHANGED <<app, keys, cache, drawn, announced>>
        /\ signed' = signed \/ \E k \in req[r].instance.jwks : signed' = signed \cup {k}
    BY DEF Serve, At
  <1>2. /\ TypeOK /\ Sound(r) /\ Backed /\ UnovertakenIsCurrent
        /\ req[r].instance.jwks \subseteq Key /\ Present' = Present /\ app.status # "absent"
    BY <1>1, ActiveIsTyped DEF Inv, Present, Instance
  <1>3. \A q \in Request \ {r} : req'[q] = req[q]
    BY <1>1, <1>2, ReturnEffect
  <1>4. TypeOK'
    BY <1>1, <1>2, ReturnEffect, HistoryType DEF TypeOK
  <1>5. Undisturbed
    BY <1>1, <1>3, ClearStaysPending DEF Undisturbed, At
  <1>6. Backed'
    BY <1>1, <1>2, StoodGrows DEF Backed, Sound, GrantStood
  <1>7. UnovertakenIsCurrent'
    BY <1>1, <1>2, <1>5 DEF UnovertakenIsCurrent, Undisturbed
  <1>8. QED
    BY <1>1, <1>2, <1>3, <1>4, <1>5, <1>6, <1>7, ReturnEffect, OneActs

\* The cache is cleared; what is being built is overtaken from then on
\* (oidc-idp.service.ts:647-649).
LEMMA InvClear ==
  ASSUME Inv, NEW r \in Request, ClearProviderCache(r)
  PROVE  Inv'
  <1>1. /\ Active(r) /\ req[r].pc = "clear" /\ Observe /\ cache' = None
        /\ req' = [q \in Request |->
               CASE q = r -> Idle
                 [] InHand(q) -> Holding(q, req[q].pc, Overtaken(req[q].instance))
                 [] OTHER -> req[q]]
        /\ announced' = IF req[r].op = "rotateSigningKey" THEN announced \cup {req[r].key}
                        ELSE announced
        /\ UNCHANGED <<app, keys, drawn, signed>>
    BY DEF ClearProviderCache, At
  <1>2. /\ TypeOK /\ Sound(r) /\ Backed /\ app.status # "absent"
        /\ Present' = Present /\ ~InHand(r)
    BY <1>1, ActiveIsTyped DEF Inv, Present, InHand
  <1>3. ASSUME NEW q \in Request
        PROVE  \/ q = r /\ req'[q] = Idle
               \/ /\ InHand(q) /\ req'[q] \in RequestState
                  /\ req'[q].pc = req[q].pc /\ req'[q].op = req[q].op
                  /\ req'[q].key = req[q].key
                  /\ req'[q].instance.jwks = req[q].instance.jwks
                  /\ req'[q].instance.allowClientCredentials =
                       req[q].instance.allowClientCredentials
                  /\ req'[q].instance.clientSecretHash = req[q].instance.clientSecretHash
                  /\ req'[q].instance.overtaken
               \/ q # r /\ ~InHand(q) /\ req'[q] = req[q]
    <2>1. CASE q = r
      BY <1>1, <2>1, <1>2
    <2>2. CASE q # r /\ InHand(q)
      <3>1. req'[q] = Holding(q, req[q].pc, Overtaken(req[q].instance))
        BY <1>1, <2>2
      <3>2. /\ Active(q) /\ req[q].instance \in Instance /\ req[q].pc \in PC
        BY <1>2, <2>2 DEF InHand, TypeOK, Active, RequestState
      <3>3. QED
        BY <1>2, <2>2, <3>1, <3>2, OvertakenType, HoldingType
    <2>3. CASE q # r /\ ~InHand(q)
      BY <1>1, <2>3
    <2>4. QED
      BY <2>1, <2>2, <2>3
  <1>4. ASSUME NEW q \in Request, Active(q)'
        PROVE  Active(q) /\ Sound(q) /\ req'[q] \in RequestState /\ Sound(q)'
    <2>1. Active(q) /\ q # r
      BY <1>2, <1>3, <1>4 DEF Active, InHand
    <2>2. Sound(q) /\ req[q] \in RequestState
      BY <2>1, ActiveIsTyped
    <2>3. q \in seen => q \in seen'
      BY <1>1, <1>4, <2>1 DEF Observe
    <2>4. CASE InHand(q) /\ req'[q].instance.overtaken
      <3>1. /\ req'[q] \in RequestState
            /\ req'[q].pc = req[q].pc /\ req'[q].op = req[q].op
            /\ req'[q].key = req[q].key /\ req'[q].instance.jwks = req[q].instance.jwks
            /\ req'[q].instance.allowClientCredentials = req[q].instance.allowClientCredentials
            /\ req'[q].instance.clientSecretHash = req[q].instance.clientSecretHash
        BY <1>3, <2>1, <2>2, <2>4
      <3>2. GrantStood(req[q].instance)'
        BY <1>1, <2>2, <3>1, StoodGrows DEF Sound, GrantStood
      <3>3. QED
        BY <1>1, <1>2, <2>1, <2>2, <2>3, <2>4, <3>1, <3>2 DEF Sound
    <2>5. CASE ~InHand(q) /\ req'[q] = req[q]
      <3>1. ~InHand(q)'
        BY <2>5 DEF InHand, Active
      <3>2. GrantStood(req[q].instance)'
        BY <1>1, <2>2, <2>5, StoodGrows DEF Sound, GrantStood
      <3>3. QED
        BY <1>1, <1>2, <2>1, <2>2, <2>3, <2>5, <3>1, <3>2 DEF Sound
    <2>6. QED
      BY <1>3, <2>1, <2>4, <2>5
  <1>5. req' \in [Request -> RequestState \cup {Idle}]
    BY <1>1, <1>3, <1>2, <1>4 DEF Active
  <1>6. announced' \subseteq Key /\ (Present => announced' \subseteq keys)
    BY <1>1, <1>2 DEF TypeOK, Backed, Sound
  <1>7. TypeOK'
    BY <1>1, <1>2, <1>5, <1>6, HistoryType DEF TypeOK
  <1>8. Backed' /\ UnovertakenIsCurrent' /\ NothingBefore'
    BY <1>1, <1>2, <1>6 DEF Backed, UnovertakenIsCurrent, NothingBefore
  <1>9. Met'
    BY <1>1, ObserveMeets
  <1>10. QED
    BY <1>4, <1>7, <1>8, <1>9 DEF Inv, RequestsSound

-----------------------------------------------------------------------------
(* Calls.                                                                  *)

\* A call that writes nothing yet.
LEMMA CallKeeps ==
  ASSUME Inv, app.status # "absent", NEW r \in Request, NEW pc \in PC, NEW op \in Op,
         NEW value \in BOOLEAN, NEW secret \in Secret \cup {None}, NEW key \in Key \cup {None},
         Start(r, pc, op, value, secret, key), Observe,
         UNCHANGED <<app, keys, cache, announced, signed>>, drawn' \subseteq Secret \cup Key,
         pc \notin {"clear", "keys", "generate", "build", "serve"},
         pc = "write" => op = "update", pc = "demote" => op = "rotateSigningKey",
         op = "rotateSigningKey" => key \in Key,
         op = "token" => Entitled(r)'
  PROVE  Inv'
  <1>1. TypeOK
    BY DEF Inv
  <1>2. /\ req' \in [Request -> RequestState \cup {Idle}]
        /\ \A q \in Request \ {r} : req'[q] = req[q]
        /\ ~Active(r) /\ Active(r)'
        /\ req'[r].pc = pc /\ req'[r].op = op /\ req'[r].key = key
        /\ req'[r].instance = NoInstance
    BY <1>1, StartEffect
  <1>3. TypeOK'
    BY <1>1, <1>2, HistoryType DEF TypeOK
  <1>4. Undisturbed
    BY <1>2, ClearStaysPending DEF Undisturbed, At
  <1>5. op = "token" => r \in seen'
    BY <1>2 DEF Observe
  <1>6. Sound(r)'
    BY <1>2, <1>5, NoInstanceType DEF Sound, InHand, GrantStood
  <1>7. QED
    BY <1>2, <1>3, <1>4, <1>6, CacheKept, OneActs DEF Inv

\* create inserts the first row (application.service.ts:23-76).
LEMMA InvCreateApplication ==
  ASSUME Inv, NEW r \in Request, NEW s \in Secret, CreateApplication(r, s)
  PROVE  Inv'
  <1>1. /\ app.status = "absent" /\ Start(r, "key", "create", FALSE, None, None) /\ Observe
        /\ \E grant \in BOOLEAN : app' = [status |-> "ACTIVE", clientSecretHash |-> s,
                                          allowClientCredentials |-> grant]
        /\ drawn' = drawn \cup {s} /\ UNCHANGED <<keys, cache, announced, signed>>
    BY DEF CreateApplication
  <1>2. /\ TypeOK /\ cache = None /\ keys = {} /\ signed = {} /\ announced = {}
        /\ \A q \in Request : ~Active(q)
    BY <1>1 DEF Inv, NothingBefore
  <1>3. /\ req' \in [Request -> RequestState \cup {Idle}]
        /\ \A q \in Request \ {r} : req'[q] = req[q]
        /\ req'[r].pc = "key" /\ req'[r].op = "create" /\ req'[r].key = None
        /\ req'[r].instance = NoInstance
    <2>1. /\ "key" \in PC /\ "create" \in Op
          /\ None \in Secret \cup {None} /\ None \in Key \cup {None}
      BY DEF PC, Op
    <2>2. PICK value \in BOOLEAN : Start(r, "key", "create", value, None, None)
      BY <1>1
    <2>3. QED
      BY <1>2, <2>1, <2>2, StartEffect
  <1>4. app' \in AppRow /\ app'.status # "absent"
    BY <1>1 DEF AppRow
  <1>5. TypeOK'
    BY <1>1, <1>2, <1>3, <1>4, HistoryType DEF TypeOK
  <1>6. Sound(r)'
    BY <1>3, NoInstanceType DEF Sound, InHand, GrantStood
  <1>7. RequestsSound'
    BY <1>2, <1>3, <1>6 DEF RequestsSound, Active
  <1>8. Backed' /\ UnovertakenIsCurrent' /\ NothingBefore'
    BY <1>1, <1>2, <1>4 DEF Backed, UnovertakenIsCurrent, NothingBefore
  <1>9. Met'
    BY <1>1, ObserveMeets
  <1>10. QED
    BY <1>5, <1>7, <1>8, <1>9 DEF Inv

\* The first steps of the handlers (application.service.ts:183-198, 284-300;
\* oauth.controller.ts:63-112).
LEMMA InvCall ==
  ASSUME Inv, NEW r \in Request, Call(r)
  PROVE  Inv'
  <1>1. TypeOK
    BY DEF Inv
  <1>2. CASE \E s \in Secret : CreateApplication(r, s)
    BY <1>2, InvCreateApplication
  <1>3. CASE \E grant \in BOOLEAN : Update(r, grant)
    <2>1. PICK grant \in BOOLEAN : Update(r, grant)
      BY <1>3
    <2>2. /\ app.status # "absent" /\ Start(r, "write", "update", grant, None, None) /\ Observe
          /\ UNCHANGED <<app, keys, cache, drawn, announced, signed>>
          /\ "write" \in PC /\ "update" \in Op /\ drawn \subseteq Secret \cup Key
      BY <1>1, <2>1 DEF Update, Present, PC, Op, TypeOK
    <2>3. QED
      BY <2>2, CallKeeps
  <1>4. CASE \E k \in Key : RotateSigningKey(r, k)
    <2>1. PICK k \in Key : RotateSigningKey(r, k)
      BY <1>4
    <2>2. /\ app.status # "absent" /\ Observe
          /\ Start(r, "demote", "rotateSigningKey", FALSE, None, k)
          /\ drawn' = drawn \cup {k} /\ UNCHANGED <<app, keys, cache, announced, signed>>
          /\ "demote" \in PC /\ "rotateSigningKey" \in Op /\ drawn \subseteq Secret \cup Key
      BY <1>1, <2>1 DEF RotateSigningKey, Present, PC, Op, TypeOK
    <2>3. QED
      BY <2>2, CallKeeps
  <1>5. CASE \E s \in Secret : Token(r, s)
    <2>1. PICK s \in Secret : Token(r, s)
      BY <1>5
    <2>2. /\ app.status # "absent" /\ Present /\ s = app.clientSecretHash
          /\ app.allowClientCredentials /\ Observe
          /\ Start(r, "provider", "token", FALSE, s, None)
          /\ UNCHANGED <<app, keys, cache, drawn, announced, signed>>
          /\ "provider" \in PC /\ "token" \in Op /\ drawn \subseteq Secret \cup Key
      BY <1>1, <2>1 DEF Token, Present, PC, Op, TypeOK
    <2>3. Active(r)' /\ req'[r].op = "token" /\ req'[r].secret = s
      <3>1. PICK value \in BOOLEAN : Start(r, "provider", "token", value, s, None)
        BY <2>2
      <3>2. s \in Secret \cup {None} /\ None \in Key \cup {None}
        OBVIOUS
      <3>3. QED
        BY <1>1, <2>2, <3>1, <3>2, StartEffect
    <2>4. Entitled(r)'
      BY <2>2, <2>3 DEF Entitled, TokenOps, Present
    <2>5. QED
      BY <2>2, <2>4, CallKeeps
  <1>6. CASE \E s \in Secret : ProviderToken(r, s)
    <2>1. PICK s \in Secret : ProviderToken(r, s)
      BY <1>6
    <2>2. /\ app.status # "absent" /\ Observe
          /\ Start(r, "provider", "providerToken", FALSE, s, None)
          /\ UNCHANGED <<app, keys, cache, drawn, announced, signed>>
          /\ "provider" \in PC /\ "providerToken" \in Op /\ drawn \subseteq Secret \cup Key
      BY <1>1, <2>1 DEF ProviderToken, PC, Op, TypeOK
    <2>3. QED
      BY <2>2, CallKeeps
  <1>7. CASE Dispatch(r)
    <2>1. /\ app.status # "absent" /\ Start(r, "provider", "dispatch", FALSE, None, None)
          /\ Observe /\ UNCHANGED <<app, keys, cache, drawn, announced, signed>>
          /\ "provider" \in PC /\ "dispatch" \in Op /\ drawn \subseteq Secret \cup Key
      BY <1>1, <1>7 DEF Dispatch, PC, Op, TypeOK
    <2>2. QED
      BY <2>1, CallKeeps
  <1>8. QED
    BY <1>2, <1>3, <1>4, <1>5, <1>6, <1>7 DEF Call

-----------------------------------------------------------------------------
(* Operations of one step.                                                 *)

\* The row's secret and the set of keys change without any request.
LEMMA WriteKeeps ==
  ASSUME Inv, app.status # "absent", app' \in AppRow, app'.status = app.status,
         app'.allowClientCredentials = app.allowClientCredentials,
         keys \subseteq keys', keys' \subseteq Key, drawn' \subseteq Secret \cup Key,
         UNCHANGED <<cache, req, announced, signed>>, Observe
  PROVE  Inv'
  <1>1. TypeOK'
    BY HistoryType DEF Inv, TypeOK
  <1>2. Undisturbed
    BY DEF Undisturbed, ClearPending, At, Active
  <1>3. Backed' /\ UnovertakenIsCurrent'
    BY <1>2, CacheKept DEF Inv
  <1>4. RequestsSound'
    BY <1>2, SoundKept DEF Inv, RequestsSound, Active
  <1>5. Met'
    BY ObserveMeets
  <1>6. QED
    BY <1>1, <1>3, <1>4, <1>5 DEF Inv, NothingBefore

\* New secrets and keys, the removal and a restart
\* (application.service.ts:239-263, 319-333; oidc-config.service.ts:56-61).
LEMMA InvAtOnce ==
  ASSUME Inv, AtOnce
  PROVE  Inv'
  <1>1. TypeOK
    BY DEF Inv
  <1>2. CASE \E s \in Secret : RotateSecret(s)
    <2>1. PICK s \in Secret : RotateSecret(s)
      BY <1>2
    <2>2. app \in [status : {"ACTIVE"}, clientSecretHash : Secret,
                   allowClientCredentials : BOOLEAN]
      BY <1>1, <2>1 DEF RotateSecret, TypeOK, AppRow, NoRow, Present
    <2>3. /\ app' = [app EXCEPT !.clientSecretHash = s]
          /\ drawn' = drawn \cup {s} /\ UNCHANGED <<keys, cache, req, announced, signed>>
          /\ Observe
      BY <2>1 DEF RotateSecret
    <2>4. /\ app' \in AppRow /\ app'.status = app.status /\ app.status # "absent"
          /\ app'.allowClientCredentials = app.allowClientCredentials
      BY <2>2, <2>3 DEF AppRow
    <2>5. keys' \subseteq Key /\ drawn' \subseteq Secret \cup Key
      BY <1>1, <2>3 DEF TypeOK
    <2>6. QED
      BY <2>3, <2>4, <2>5, WriteKeeps
  <1>3. CASE \E k \in Key : CreateSigningKey(k)
    <2>1. PICK k \in Key : CreateSigningKey(k)
      BY <1>3
    <2>2. /\ keys' = keys \cup {k} /\ drawn' = drawn \cup {k} /\ app.status # "absent"
          /\ UNCHANGED <<app, cache, req, announced, signed>> /\ Observe
      BY <2>1 DEF CreateSigningKey, Present
    <2>3. app \in AppRow /\ keys' \subseteq Key /\ drawn' \subseteq Secret \cup Key
      BY <1>1, <2>2 DEF TypeOK
    <2>4. QED
      BY <2>2, <2>3, WriteKeeps
  <1>4. CASE Remove
    <2>1. /\ app' = NoRow("removed") /\ keys' = {} /\ Observe
          /\ UNCHANGED <<cache, req, drawn, announced, signed>>
      BY <1>4 DEF Remove
    <2>2. app' \in AppRow /\ app'.status = "removed" /\ ~Present'
      BY <2>1 DEF AppRow, NoRow, Present
    <2>3. TypeOK'
      BY <1>1, <2>1, <2>2, HistoryType DEF TypeOK
    <2>4. ASSUME NEW q \in Request, Active(q)' PROVE Sound(q)'
      <3>1. Active(q) /\ Sound(q) /\ (q \in seen => q \in seen')
        BY <2>1, <2>4 DEF Inv, RequestsSound, Active, Observe
      <3>2. GrantStood(req[q].instance)'
        BY <2>1, <3>1, StoodGrows DEF Sound, GrantStood
      <3>3. QED
        BY <2>1, <2>2, <3>1, <3>2 DEF Sound
    <2>5. Backed' /\ Met'
      BY <2>1, <2>2, StoodGrows, ObserveMeets DEF Inv, Backed, GrantStood
    <2>6. QED
      BY <2>2, <2>3, <2>4, <2>5
         DEF Inv, NothingBefore, UnovertakenIsCurrent, RequestsSound
  <1>5. CASE Restart
    <2>1. /\ cache' = None /\ req' = [r \in Request |-> Idle] /\ Observe
          /\ UNCHANGED <<app, keys, drawn, announced, signed>>
      BY <1>5 DEF Restart
    <2>2. TypeOK'
      BY <1>1, <2>1, HistoryType DEF TypeOK
    <2>3. Met'
      BY <2>1, ObserveMeets
    <2>4. QED
      BY <2>1, <2>2, <2>3
         DEF Inv, NothingBefore, Backed, UnovertakenIsCurrent, RequestsSound, Present,
             Active
  <1>6. QED
    BY <1>2, <1>3, <1>4, <1>5 DEF AtOnce

-----------------------------------------------------------------------------
(* The theorems.                                                           *)

\* No step of any handler breaks the invariant.
LEMMA InvInductive == Inv /\ [Next]_vars => Inv'
  <1> SUFFICES ASSUME Inv, [Next]_vars PROVE Inv'
    OBVIOUS
  <1>1. CASE UNCHANGED vars
    BY <1>1 DEF vars, Inv, TypeOK, NothingBefore, Backed, Met, GrantStood, Entitled,
                UnovertakenIsCurrent, ClearPending, RequestsSound, Sound, InHand, Present, At,
                Active
  <1>2. ASSUME NEW r \in Request, Resume(r) PROVE Inv'
    BY <1>2, InvInsertKey, InvWriteSettings, InvClear, InvInsertRotatedKey, InvLookUp,
       InvReadApplication, InvReadKeys, InvGenerate, InvBuild, InvServe DEF Resume
  <1>3. QED
    BY <1>1, <1>2, InvCall, InvAtOnce DEF Next

\* The invariant always holds.
LEMMA InvHolds == Spec => []Inv
  BY InvInit, InvInductive, PTL DEF Spec

\* The state always has its types (oidc-idp.service.ts, schema.prisma Application
\* and OidcSigningKey).
THEOREM TypeCorrect == Spec => []TypeOK
  <1>1. Inv => TypeOK
    BY DEF Inv
  <1>2. QED
    BY <1>1, InvHolds, PTL

\* While the application exists, every key that signed a token and every key of
\* the instance in the cache is a row, for any number of overlapping fills,
\* rotations and restarts (oidc-idp.service.ts:61-66, 259-275;
\* application.service.ts:284-311).
THEOREM SigningKeysPersist == Spec => []SignedByPersistedKey
  <1>1. Inv => SignedByPersistedKey
    BY DEF Inv, Backed, SignedByPersistedKey
  <1>2. QED
    BY <1>1, InvHolds, PTL

\* An instance in the cache is out of date in its grants or rotated keys only
\* when a clear overtook its construction, or before the clear of a write
\* (application.service.ts:195-234, 292-311; oidc-idp.service.ts:41-57, 251).
THEOREM StaleOnlyWhenOvertaken == Spec => []UnovertakenIsCurrent
  <1>1. Inv => UnovertakenIsCurrent
    BY DEF Inv
  <1>2. QED
    BY <1>1, InvHolds, PTL

\* What makes an answer of the provider just, whatever instance gives it: the
\* invariant leaves no other instance that agrees with the row's secret.
LEMMA GrantIsJustified ==
  ASSUME Inv, NEW r \in Request, At(r, "serve"), Grants(r)
  PROVE  req[r].secret \in stood /\ (r \in seen \/ Outlived(r))
  <1>1. Sound(r) /\ Active(r) /\ InHand(r) /\ TypeOK /\ Met
    BY ActiveIsTyped DEF At, InHand, Inv
  <1>2. /\ req[r].op \in TokenOps /\ req[r].secret = req[r].instance.clientSecretHash
        /\ req[r].instance.allowClientCredentials
    BY DEF Grants
  <1>3. req[r].secret \in stood /\ req[r].secret \in Secret
    BY <1>1, <1>2 DEF Sound, GrantStood, TypeOK
  <1>4. CASE req[r].op = "token"
    BY <1>1, <1>3, <1>4 DEF Sound
  <1>5. CASE req[r].op = "providerToken" /\ ~Outlived(r)
    <2>1. /\ req[r].secret = app.clientSecretHash /\ ~req[r].instance.overtaken
          /\ ~ClearPending
      BY <1>5 DEF Outlived
    <2>2. Present
      BY <1>1, <1>3, <2>1, ProviderAssumption DEF TypeOK, AppRow, NoRow, Present
    <2>3. app.allowClientCredentials = req[r].instance.allowClientCredentials
      BY <1>1, <2>1, <2>2 DEF Sound
    <2>4. Entitled(r)
      BY <1>1, <1>2, <2>1, <2>2, <2>3 DEF Entitled
    <2>5. QED
      BY <1>1, <1>3, <2>4 DEF Met
  <1>6. QED
    BY <1>2, <1>3, <1>4, <1>5 DEF TokenOps

\* A token is issued for a secret that stood with the grant allowed: by POST
\* /oauth/token to a request that met such a row, by the provider's own endpoint
\* also from an instance the row has outgrown, with the secret of the row only
\* while a clear is pending or after it overtook the instance
\* (oauth.controller.ts:63-112; oidc-idp.controller.ts:141-155).
THEOREM TokensAreJustified == Spec => TokensJustified
  <1> DEFINE Justified == \A r \in Request :
                            At(r, "serve") /\ ~Active(r)' /\ signed' # signed =>
                              /\ req[r].secret \in stood
                              /\ r \in seen \/ Outlived(r)
  <1>1. ASSUME Inv, Next PROVE Justified
    <2> SUFFICES ASSUME NEW r \in Request, At(r, "serve"), ~Active(r)', signed' # signed
                 PROVE  req[r].secret \in stood /\ (r \in seen \/ Outlived(r))
      OBVIOUS
    <2>1. PICK q \in Request : Serve(q)
      BY <1>1 DEF Next, Call, CreateApplication, Update, RotateSigningKey, Token, ProviderToken,
           Dispatch, Resume, InsertKey, WriteSettings, ClearProviderCache, InsertRotatedKey,
           LookUp, ReadApplication, ReadKeys, GenerateAndPersistSigningKey, Build,
           AtOnce, RotateSecret, CreateSigningKey, Remove, Restart
    <2>2. Grants(q) /\ Return(q)
      BY <2>1 DEF Serve
    <2>3. q = r
      BY <1>1, <2>2, ReturnEffect DEF At, Active, Inv
    <2>4. QED
      BY <1>1, <2>2, <2>3, GrantIsJustified
  <1>2. Inv /\ [Next]_vars => [Justified]_vars
    BY <1>1
  <1>3. Spec => [][Justified]_vars
    BY <1>2, InvHolds, PTL DEF Spec
  <1>4. QED
    BY <1>3 DEF TokensJustified
=============================================================================
