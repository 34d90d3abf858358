--------------------------- MODULE OidcTokensProofs ---------------------------
(* Theorems about OidcTokens for any users, grants, tokens and requests: the *)
(* types, what outlives a grant, who may get codes and tokens, and that the  *)
(* adapter's rows implement GrantLife.                                       *)
EXTENDS OidcTokens, TLAPS

-----------------------------------------------------------------------------
(* The inductive invariant.                                                *)

\* What is no longer there, or was marked by consume.
Used(row) == row.consumed \/ ~Present(row)

\* What a request in progress may rely on, by where it stands.
FlowSound(r) ==
  req[r].pc \in Flow => req[r].account \in Users /\ req[r].met

GrantSound(r) ==
  req[r].pc \in {"resume", "issue", "destroy", "revoke"} \cup Exchanging => req[r].grant \in Grants

ExchangeSound(r) ==
  LET q == req[r]
      row == token[q.token]
  IN  /\ q.pc \in Exchanging =>
           /\ q.token \in Tokens
           /\ row.state # "unsaved"
           /\ q.account \in user => q.met
      /\ q.pc \in {"rotate", "save"} =>
           q.met /\ q.rest \subseteq {"AccessToken", "RefreshToken"}
      /\ q.pc = "account" => Used(row)
      /\ q.pc = "refresh" => Used(row) \/ row.type = "RefreshToken"
      /\ q.pc = "save" =>
           \/ Used(row)
           \/ row.type = "RefreshToken" /\ "RefreshToken" \notin q.rest

Sound(r) == FlowSound(r) /\ GrantSound(r) /\ ExchangeSound(r)

RequestsSound == \A r \in Requests : Sound(r)

\* An id that was not drawn has no grant; a row that is there has one.
RowsSound ==
  \A t \in Tokens :
    /\ token[t].state = "unsaved" => token[t].grant = None
    /\ Present(token[t]) => token[t].type \in TokenType /\ token[t].grant \in Grants

\* What a revocation has passed over was saved while it was going on.
RevocationsSound ==
  \A r \in Requests, t \in Tokens :
    req[r].pc = "revoke" /\ Present(token[t]) /\ token[t].grant = req[r].grant
      /\ token[t].type \notin req[r].rest => token[t].left

IInv == TypeOK /\ RequestsSound /\ RowsSound /\ RevocationsSound /\ LeftoversExplained

-----------------------------------------------------------------------------
(* What the helpers of OidcTokens return.                                  *)

\* A free slot.
LEMMA IdleType ==
  /\ Idle \in Request
  /\ Idle.pc = "idle"
  BY DEF Idle, Request, PC

\* What a request is when it goes on.
LEMMA GotoType ==
  ASSUME NEW q \in Request, NEW pc \in PC
  PROVE  LET p == [q EXCEPT !.pc = pc]
         IN  /\ p \in Request /\ p.pc = pc
             /\ p.account = q.account /\ p.grant = q.grant /\ p.token = q.token
             /\ p.rest = q.rest /\ p.met = q.met
  BY DEF Request

\* A request's new state replaces its old one, and no other's.
LEMMA EnterEffect ==
  ASSUME TypeOK, NEW r \in Requests, NEW q \in Request, Enter(r, q)
  PROVE  /\ req' \in [Requests -> Request]
         /\ req'[r] = q
         /\ \A p \in Requests \ {r} : req'[p] = req[p]
  BY DEF TypeOK, Enter

\* Finishing frees the slot.
LEMMA FinishEffect ==
  ASSUME TypeOK, NEW r \in Requests, Finish(r)
  PROVE  /\ req' \in [Requests -> Request]
         /\ req'[r] = Idle
         /\ \A p \in Requests \ {r} : req'[p] = req[p]
  BY IdleType, EnterEffect DEF Finish

\* Going on changes where the request stands.
LEMMA GotoEffect ==
  ASSUME TypeOK, NEW r \in Requests, NEW pc \in PC, Goto(r, pc)
  PROVE  /\ req' \in [Requests -> Request]
         /\ req'[r].pc = pc
         /\ req'[r].account = req[r].account /\ req'[r].grant = req[r].grant
         /\ req'[r].token = req[r].token /\ req'[r].rest = req[r].rest
         /\ req'[r].met = req[r].met
         /\ \A p \in Requests \ {r} : req'[p] = req[p]
  <1> DEFINE q == [req[r] EXCEPT !.pc = pc]
  <1>1. req[r] \in Request
    BY DEF TypeOK
  <1>2. /\ q \in Request /\ q.pc = pc
        /\ q.account = req[r].account /\ q.grant = req[r].grant
        /\ q.token = req[r].token /\ q.rest = req[r].rest /\ q.met = req[r].met
    BY <1>1, GotoType
  <1>3. Enter(r, q)
    BY DEF Goto
  <1> HIDE DEF q
  <1>4. QED
    BY <1>2, <1>3, EnterEffect

\* Ticking off the last type frees the slot; another leaves the rest.
LEMMA TickEffect ==
  ASSUME TypeOK, NEW r \in Requests, NEW ty \in TokenType \cup {"Grant"}, Tick(r, ty)
  PROVE  /\ req' \in [Requests -> Request]
         /\ \A p \in Requests \ {r} : req'[p] = req[p]
         /\ \/ req[r].rest = {ty} /\ req'[r] = Idle
            \/ /\ req'[r].pc = req[r].pc
               /\ req'[r].account = req[r].account /\ req'[r].grant = req[r].grant
               /\ req'[r].token = req[r].token /\ req'[r].rest = req[r].rest \ {ty}
               /\ req'[r].met = req[r].met
  <1>1. CASE req[r].rest = {ty}
    BY <1>1, FinishEffect DEF Tick
  <1>2. CASE req[r].rest # {ty}
    <2> DEFINE q == [req[r] EXCEPT !.rest = @ \ {ty}]
    <2>1. req[r] \in Request
      BY DEF TypeOK
    <2>2. /\ q \in Request /\ q.pc = req[r].pc
          /\ q.account = req[r].account /\ q.grant = req[r].grant
          /\ q.token = req[r].token /\ q.rest = req[r].rest \ {ty} /\ q.met = req[r].met
      BY <2>1 DEF Request
    <2>3. Enter(r, q)
      BY <1>2 DEF Tick
    <2> HIDE DEF q
    <2>4. QED
      BY <2>2, <2>3, EnterEffect
  <1>3. QED
    BY <1>1, <1>2

\* Deletion keeps what the history variables ask of a row.
LEMMA DeletedTokenType ==
  ASSUME NEW row \in TokenRow
  PROVE  /\ DeletedToken(row) \in TokenRow
         /\ ~Present(DeletedToken(row))
         /\ DeletedToken(row).grant = row.grant
         /\ row.state = "unsaved" => DeletedToken(row) = row
         /\ row.state # "unsaved" => DeletedToken(row).state # "unsaved"
  BY DEF DeletedToken, TokenRow, RowState, Present

\* Deletion of a Grant row, which may be gone already.
LEMMA DeletedGrantType ==
  ASSUME NEW row \in GrantRow
  PROVE  /\ DeletedGrant(row) \in GrantRow
         /\ Present(row) => DeletedGrant(row).state = "gone"
         /\ ~Present(row) => DeletedGrant(row) = row
  BY DEF DeletedGrant, GrantRow, RowState, Present

\* A full revocation has every type before it.
LEMMA RevokeType ==
  ASSUME NEW g \in Grants
  PROVE  /\ Revoke(g) \in Request
         /\ Revoke(g).pc = "revoke" /\ Revoke(g).grant = g
         /\ Revoke(g).rest = TokenType \cup {"Grant"}
  BY DEF Revoke, Idle, Request, PC

\* A saved row is one that was not there, under the request's grant.
LEMMA SaveEffect ==
  ASSUME TypeOK, NEW r \in Requests, NEW t \in Tokens, NEW ty \in TokenType, Save(r, t, ty),
         req[r].grant \in Grants
  PROVE  /\ token' \in [Tokens -> TokenRow]
         /\ token[t].state = "unsaved"
         /\ token'[t].type = ty /\ token'[t].grant = req[r].grant
         /\ token'[t].state = "stored"
         /\ ~FindGrant(req[r].grant) => token'[t].left
         /\ \A q \in Revoking : req[q].grant = req[r].grant => token'[t].left
         /\ \A u \in Tokens \ {t} : token'[u] = token[u]
  <1> DEFINE late == ~FindGrant(req[r].grant) \/ \E q \in Revoking : req[q].grant = req[r].grant
  <1>1. PICK b \in BOOLEAN : b = late
    OBVIOUS
  <1>2. /\ NewToken(ty, req[r].grant, b) \in TokenRow
        /\ NewToken(ty, req[r].grant, b).type = ty
        /\ NewToken(ty, req[r].grant, b).grant = req[r].grant
        /\ NewToken(ty, req[r].grant, b).state = "stored"
        /\ NewToken(ty, req[r].grant, b).left = b
    BY DEF NewToken, TokenRow, RowState
  <1>3. /\ token[t].state = "unsaved"
        /\ token' = [token EXCEPT ![t] = NewToken(ty, req[r].grant, b)]
    BY <1>1 DEF Save
  <1>4. token'[t] = NewToken(ty, req[r].grant, b) /\ \A u \in Tokens \ {t} : token'[u] = token[u]
    BY <1>3 DEF TypeOK
  <1>5. token' \in [Tokens -> TokenRow]
    BY <1>2, <1>3 DEF TypeOK
  <1>6. b <=> late
    BY <1>1
  <1>7. QED
    BY <1>2, <1>3, <1>4, <1>5, <1>6

-----------------------------------------------------------------------------
(* What every step leaves of a row, and what that leaves of the invariant. *)

\* A row that was drawn stays drawn under its grant, and while it is there it
\* keeps its type and its marks.
Evolves(t) ==
  token[t].state # "unsaved" =>
    /\ token'[t].state # "unsaved"
    /\ token'[t].grant = token[t].grant
    /\ Present(token'[t]) =>
         /\ Present(token[t]) /\ token'[t].type = token[t].type
         /\ token[t].consumed => token'[t].consumed
         /\ token[t].left => token'[t].left

\* No row is drawn either.
Wanes(t) == Evolves(t) /\ (token[t].state = "unsaved" => token'[t] = token[t])

\* Nothing changes in a row that does not change.
LEMMA SameRowWanes ==
  ASSUME NEW t \in Tokens, token'[t] = token[t]
  PROVE  Wanes(t)
  BY DEF Wanes, Evolves

\* A deleted row wanes.
LEMMA DeletedRowWanes ==
  ASSUME TypeOK, NEW t \in Tokens, token'[t] = DeletedToken(token[t])
  PROVE  Wanes(t)
  <1>1. token[t] \in TokenRow
    BY DEF TypeOK
  <1>2. QED
    BY <1>1, DeletedTokenType DEF Wanes, Evolves

\* A request that goes on as it was stays sound while rows evolve and users go:
\* what was consumed or deleted stays so, and nobody removed comes back.
LEMMA SoundKept ==
  ASSUME TypeOK, NEW q \in Requests, Sound(q), \A t \in Tokens : Evolves(t),
         user' \subseteq user,
         req'[q].pc = req[q].pc, req'[q].account = req[q].account,
         req'[q].grant = req[q].grant, req'[q].token = req[q].token,
         req'[q].rest = req[q].rest, req[q].met => req'[q].met
  PROVE  Sound(q)'
  <1>1. FlowSound(q)' /\ GrantSound(q)'
    BY DEF Sound, FlowSound, GrantSound
  <1> DEFINE row == token[req[q].token]
  <1>2. CASE req[q].pc \in Exchanging
    <2>1. req[q].token \in Tokens /\ row.state # "unsaved"
      BY <1>2 DEF Sound, ExchangeSound
    <2>2. /\ token'[req[q].token].state # "unsaved"
          /\ Used(row) => Used(token'[req[q].token])
          /\ row.type = "RefreshToken" =>
               Used(token'[req[q].token]) \/ token'[req[q].token].type = "RefreshToken"
      BY <2>1 DEF Evolves, Used
    <2>3. ExchangeSound(q)'
      BY <1>2, <2>1, <2>2 DEF Sound, ExchangeSound
    <2>4. QED
      BY <1>1, <2>3 DEF Sound
  <1>3. CASE req[q].pc \notin Exchanging
    BY <1>1, <1>3 DEF Sound, ExchangeSound, Exchanging
  <1>4. QED
    BY <1>2, <1>3

\* A free slot asks nothing.
LEMMA IdleSound ==
  ASSUME NEW q \in Requests, req'[q] = Idle
  PROVE  Sound(q)'
  BY IdleType DEF Sound, FlowSound, GrantSound, ExchangeSound, Flow, Exchanging

\* A step of one request that evolves the rows keeps the others sound.
LEMMA OneActsSound ==
  ASSUME IInv, NEW r \in Requests, \A t \in Tokens : Evolves(t), user' \subseteq user,
         \A q \in Requests \ {r} : req'[q] = req[q], Sound(r)'
  PROVE  RequestsSound'
  <1> SUFFICES ASSUME NEW q \in Requests
               PROVE  Sound(q)'
    BY DEF RequestsSound
  <1>1. CASE q = r
    BY <1>1
  <1>2. CASE q # r
    BY <1>2, SoundKept DEF IInv, RequestsSound
  <1>3. QED
    BY <1>1, <1>2

\* A step that wanes the rows, ends no grant and takes no revocation back
\* leaves what holds of rows, revocations and leftovers.
LEMMA WanedKept ==
  ASSUME IInv, TypeOK', \A t \in Tokens : Wanes(t),
         \A g \in Grants : grant'[g].state = "gone" => grant[g].state = "gone",
         \A q \in Requests :
           /\ req[q].pc = "revoke" => req'[q] = req[q]
           /\ req'[q].pc = "revoke" =>
                req'[q] = req[q] \/ TokenType \subseteq req'[q].rest
  PROVE  RowsSound' /\ RevocationsSound' /\ LeftoversExplained'
  <1>1. RowsSound'
    BY DEF IInv, RowsSound, Wanes, Evolves, Present
  <1>2. ASSUME NEW q \in Requests, NEW t \in Tokens,
               req'[q].pc = "revoke", Present(token'[t]), token'[t].grant = req'[q].grant,
               token'[t].type \notin req'[q].rest
        PROVE  token'[t].left
    <2>1. token'[t].type \in TokenType
      BY <1>1, <1>2 DEF RowsSound
    <2>2. req'[q] = req[q]
      BY <1>2, <2>1
    <2>3. /\ token[t].state # "unsaved"
          /\ Present(token[t]) /\ token'[t].type = token[t].type
          /\ token[t].grant = token'[t].grant /\ (token[t].left => token'[t].left)
      BY <1>2 DEF Wanes, Evolves, Present
    <2>4. QED
      BY <1>2, <2>2, <2>3 DEF IInv, RevocationsSound
  <1>3. ASSUME NEW t \in Tokens, Present(token'[t]), grant'[token'[t].grant].state = "gone"
        PROVE  \/ token'[t].left
               \/ \E q \in Requests : req'[q].pc = "revoke" /\ req'[q].grant = token'[t].grant
                                        /\ token'[t].type \in req'[q].rest
    <2>1. /\ token[t].state # "unsaved"
          /\ Present(token[t]) /\ token'[t].type = token[t].type
          /\ token[t].grant = token'[t].grant /\ (token[t].left => token'[t].left)
      BY <1>3 DEF Wanes, Evolves, Present
    <2>2. token[t].grant \in Grants
      BY <2>1 DEF IInv, RowsSound
    <2>3. grant[token[t].grant].state = "gone"
      BY <1>3, <2>1, <2>2
    <2>4. QED
      BY <2>1, <2>3 DEF IInv, LeftoversExplained
  <1>4. RevocationsSound'
    BY <1>2 DEF RevocationsSound
  <1>5. LeftoversExplained'
    BY <1>3 DEF LeftoversExplained
  <1>6. QED
    BY <1>1, <1>4, <1>5

\* A step of one request that neither was nor becomes a half-done revocation
\* and wanes the rows keeps the invariant if it keeps the types and is sound.
LEMMA OneActs ==
  ASSUME IInv, NEW r \in Requests, TypeOK', Sound(r)', user' \subseteq user,
         \A q \in Requests \ {r} : req'[q] = req[q],
         req[r].pc # "revoke",
         req'[r].pc = "revoke" => TokenType \subseteq req'[r].rest,
         \A t \in Tokens : Wanes(t),
         \A g \in Grants : grant'[g].state = "gone" => grant[g].state = "gone"
  PROVE  IInv'
  <1>1. RequestsSound'
    BY OneActsSound DEF Wanes
  <1>2. RowsSound' /\ RevocationsSound' /\ LeftoversExplained'
    <2>1. \A q \in Requests :
            /\ req[q].pc = "revoke" => req'[q] = req[q]
            /\ req'[q].pc = "revoke" => req'[q] = req[q] \/ TokenType \subseteq req'[q].rest
      OBVIOUS
    <2>2. QED
      BY <2>1, WanedKept
  <1>3. QED
    BY <1>1, <1>2 DEF IInv

-----------------------------------------------------------------------------
(* The browser's way to a code keeps the invariant.                        *)

\* While rows stay as they are, no grant goes and every row wanes.
LEMMA SameRows ==
  ASSUME UNCHANGED rows
  PROVE  /\ \A t \in Tokens : Wanes(t)
         /\ \A g \in Grants : grant'[g].state = "gone" => grant[g].state = "gone"
         /\ grant' = grant /\ token' = token
  BY SameRowWanes DEF rows

\* GET authorize asks for the assignment, and only then begins (authorize).
LEMMA AuthorizeStep ==
  ASSUME IInv, NEW r \in Requests, NEW u \in Users, Authorize(r, u)
  PROVE  IInv'
  <1> USE DEF IInv
  <1>0. (u \in assigned) = TRUE
    BY DEF Authorize, IsUserAuthorizedForApp
  <1>1. PICK pc \in {"interaction", "resume"}, g \in Grants \cup {None} :
          /\ pc = "resume" => g \in Grants
          /\ Enter(r, [Idle EXCEPT !.pc = pc, !.account = u, !.grant = g, !.met = TRUE])
    <2>1. CASE Enter(r, [Idle EXCEPT !.pc = "interaction", !.account = u, !.grant = None,
                                     !.met = TRUE])
      BY <2>1
    <2>2. CASE \E g \in Grants :
                 Enter(r, [Idle EXCEPT !.pc = "resume", !.account = u, !.grant = g,
                                       !.met = TRUE])
      BY <2>2
    <2>3. QED
      BY <1>0, <2>1, <2>2 DEF Authorize
  <1> DEFINE q == [Idle EXCEPT !.pc = pc, !.account = u, !.grant = g, !.met = TRUE]
  <1>2. /\ q \in Request /\ q.pc = pc /\ q.account = u /\ q.grant = g
    BY DEF Idle, Request, PC, Flow
  <1>3. q.met
    BY DEF Idle
  <1>4. Enter(r, q)
    BY <1>1
  <1> HIDE DEF q
  <1>5. /\ req' \in [Requests -> Request] /\ req'[r] = q
        /\ \A p \in Requests \ {r} : req'[p] = req[p]
    BY <1>2, <1>4, EnterEffect
  <1>6. UNCHANGED <<context, rows>> /\ req[r].pc = "idle"
    BY DEF Authorize, Waits
  <1>7. TypeOK'
    BY <1>5, <1>6 DEF TypeOK, context, rows
  <1>8. Sound(r)'
    BY <1>1, <1>2, <1>3, <1>5 DEF Sound, FlowSound, GrantSound, ExchangeSound, Flow, Exchanging
  <1>9. QED
    BY <1>1, <1>2, <1>5, <1>6, <1>7, <1>8, SameRows, OneActs DEF context

\* GET auto-confirm asks for it again.
LEMMA AutoConfirmStep ==
  ASSUME IInv, NEW r \in Requests, AutoConfirm(r)
  PROVE  IInv'
  <1> USE DEF IInv
  <1> DEFINE q == [req[r] EXCEPT !.pc = "confirm", !.met = TRUE]
  <1>1. req[r] \in Request /\ Sound(r) /\ req[r].pc = "interaction"
    BY DEF TypeOK, RequestsSound, AutoConfirm, Waits
  <1>2. q \in Request /\ q.pc = "confirm" /\ q.account = req[r].account
    BY <1>1 DEF Request, PC, Flow
  <1>3. q.met
    BY <1>1 DEF Request
  <1>0. (req[r].account \in assigned) = TRUE
    BY DEF AutoConfirm, IsUserAuthorizedForApp
  <1>4. Enter(r, q) /\ UNCHANGED <<context, rows>>
    BY <1>0 DEF AutoConfirm
  <1> HIDE DEF q
  <1>5. /\ req' \in [Requests -> Request] /\ req'[r] = q
        /\ \A p \in Requests \ {r} : req'[p] = req[p]
    BY <1>2, <1>4, EnterEffect
  <1>6. TypeOK'
    BY <1>4, <1>5 DEF TypeOK, context, rows
  <1>7. Sound(r)'
    BY <1>1, <1>2, <1>3, <1>5 DEF Sound, FlowSound, GrantSound, ExchangeSound, Flow, Exchanging
  <1>8. QED
    BY <1>1, <1>2, <1>4, <1>5, <1>6, <1>7, SameRows, OneActs DEF context

\* A slot freed by a request that was no revocation.
LEMMA FinishStep ==
  ASSUME IInv, NEW r \in Requests, req[r].pc # "revoke", Finish(r), UNCHANGED <<context, rows>>
  PROVE  IInv'
  <1> USE DEF IInv
  <1>1. /\ req' \in [Requests -> Request] /\ req'[r] = Idle /\ Sound(r)'
        /\ \A p \in Requests \ {r} : req'[p] = req[p]
    BY FinishEffect, IdleSound
  <1>2. TypeOK'
    BY <1>1 DEF TypeOK, context, rows
  <1>3. req'[r].pc # "revoke"
    BY <1>1, IdleType
  <1>4. QED
    BY <1>1, <1>2, <1>3, SameRows, OneActs DEF context

\* A refused interaction ends.
LEMMA DenyStep ==
  ASSUME IInv, NEW r \in Requests, Deny(r)
  PROVE  IInv'
  BY FinishStep DEF Deny, Waits

\* A grant is upserted under an id that was not drawn before.
LEMMA SaveGrantStep ==
  ASSUME IInv, NEW r \in Requests, NEW g \in Grants, SaveGrant(r, g)
  PROVE  IInv'
  <1> USE DEF IInv
  <1> DEFINE q == [req[r] EXCEPT !.pc = "resume", !.grant = g]
             row == [account |-> req[r].account, state |-> "stored"]
  <1>1. req[r] \in Request /\ Sound(r) /\ req[r].pc = "confirm"
    BY DEF TypeOK, RequestsSound, SaveGrant, Waits
  <1>2. /\ q \in Request /\ q.pc = "resume" /\ q.account = req[r].account /\ q.grant = g
        /\ q.met = req[r].met
    BY <1>1 DEF Request, PC, Flow
  <1>3. row \in GrantRow /\ row.state = "stored"
    BY <1>1 DEF Request, GrantRow, RowState
  <1>4. /\ Enter(r, q) /\ grant' = [grant EXCEPT ![g] = row]
        /\ UNCHANGED <<context, token>>
    BY DEF SaveGrant
  <1> HIDE DEF q, row
  <1>5. /\ req' \in [Requests -> Request] /\ req'[r] = q
        /\ \A p \in Requests \ {r} : req'[p] = req[p]
    BY <1>2, <1>4, EnterEffect
  <1>6. /\ grant' \in [Grants -> GrantRow]
        /\ \A h \in Grants : grant'[h].state = "gone" => grant[h].state = "gone"
    BY <1>3, <1>4 DEF TypeOK
  <1>7. TypeOK'
    BY <1>4, <1>5, <1>6 DEF TypeOK, context
  <1>8. Sound(r)'
    BY <1>1, <1>2, <1>5 DEF Sound, FlowSound, GrantSound, ExchangeSound, Flow, Exchanging
  <1>9. \A t \in Tokens : Wanes(t)
    BY <1>4, SameRowWanes
  <1>10. QED
    BY <1>1, <1>2, <1>4, <1>5, <1>6, <1>7, <1>8, <1>9, OneActs DEF context

\* The wildcard route goes on where the account and the grant are found.
LEMMA ResumeStep ==
  ASSUME IInv, NEW r \in Requests, Resume(r)
  PROVE  IInv'
  <1> USE DEF IInv
  <1>1. Sound(r) /\ req[r].pc = "resume" /\ UNCHANGED <<context, rows>>
    BY DEF RequestsSound, Resume, Waits
  <1>2. CASE Goto(r, "issue")
    <2>1. "issue" \in PC
      BY DEF PC, Flow
    <2>2. /\ req' \in [Requests -> Request]
          /\ req'[r].pc = "issue" /\ req'[r].account = req[r].account
          /\ req'[r].grant = req[r].grant /\ req'[r].met = req[r].met
          /\ \A p \in Requests \ {r} : req'[p] = req[p]
      BY <1>2, <2>1, GotoEffect
    <2>3. TypeOK'
      BY <1>1, <2>2 DEF TypeOK, context, rows
    <2>4. Sound(r)'
      BY <1>1, <2>2 DEF Sound, FlowSound, GrantSound, ExchangeSound, Flow, Exchanging
    <2>5. QED
      BY <1>1, <2>2, <2>3, <2>4, SameRows, OneActs DEF context
  <1>3. CASE Finish(r)
    BY <1>1, <1>3, FinishStep
  <1>4. QED
    BY <1>2, <1>3 DEF Resume

-----------------------------------------------------------------------------
(* Codes and tokens are saved, presented and exchanged.                    *)

\* An upsert that a revocation or removal overtook leaves a marked row; any
\* other is under a grant that is there.
LEMMA SavedKept ==
  ASSUME IInv, NEW r \in Requests, NEW t \in Tokens, NEW ty \in TokenType, Save(r, t, ty),
         req[r].grant \in Grants, req[r].pc # "revoke", req'[r].pc # "revoke",
         \A q \in Requests \ {r} : req'[q] = req[q], grant' = grant
  PROVE  /\ \A u \in Tokens : Evolves(u)
         /\ RowsSound' /\ RevocationsSound' /\ LeftoversExplained'
  <1> USE DEF IInv
  <1>1. /\ token[t].state = "unsaved"
        /\ token'[t].type = ty /\ token'[t].grant = req[r].grant
        /\ token'[t].state = "stored"
        /\ ~FindGrant(req[r].grant) => token'[t].left
        /\ \A q \in Revoking : req[q].grant = req[r].grant => token'[t].left
        /\ \A u \in Tokens \ {t} : token'[u] = token[u]
    BY SaveEffect
  <1>2. \A u \in Tokens : Evolves(u)
    BY <1>1 DEF Evolves
  <1>3. RowsSound'
    BY <1>1 DEF RowsSound, Present
  <1>4. ASSUME NEW q \in Requests, NEW u \in Tokens,
               req'[q].pc = "revoke", Present(token'[u]), token'[u].grant = req'[q].grant,
               token'[u].type \notin req'[q].rest
        PROVE  token'[u].left
    <2>1. q # r /\ req'[q] = req[q] /\ q \in Revoking
      BY <1>4 DEF Revoking
    <2>2. CASE u = t
      BY <1>1, <1>4, <2>1, <2>2
    <2>3. CASE u # t
      BY <1>1, <1>4, <2>1, <2>3 DEF RevocationsSound
    <2>4. QED
      BY <2>2, <2>3
  <1>5. ASSUME NEW u \in Tokens, Present(token'[u]), grant'[token'[u].grant].state = "gone"
        PROVE  \/ token'[u].left
               \/ \E q \in Requests : req'[q].pc = "revoke" /\ req'[q].grant = token'[u].grant
                                        /\ token'[u].type \in req'[q].rest
    <2>1. CASE u = t
      BY <1>1, <1>5, <2>1 DEF FindGrant
    <2>2. CASE u # t
      <3>1. token'[u] = token[u]
        BY <1>1, <2>2
      <3>2. CASE \E q \in Requests : req[q].pc = "revoke" /\ req[q].grant = token[u].grant
                                       /\ token[u].type \in req[q].rest
        <4>1. PICK q \in Requests : req[q].pc = "revoke" /\ req[q].grant = token[u].grant
                                      /\ token[u].type \in req[q].rest
          BY <3>2
        <4>2. req'[q] = req[q]
          BY <4>1
        <4>3. QED
          BY <3>1, <4>1, <4>2
      <3>3. QED
        BY <1>5, <3>1, <3>2 DEF LeftoversExplained
    <2>3. QED
      BY <2>1, <2>2
  <1>6. RevocationsSound'
    BY <1>4 DEF RevocationsSound
  <1>7. LeftoversExplained'
    BY <1>5 DEF LeftoversExplained
  <1>8. QED
    BY <1>2, <1>3, <1>6, <1>7

\* The code is the end of the browser's way.
LEMMA SaveCodeStep ==
  ASSUME IInv, NEW r \in Requests, NEW t \in Tokens, SaveCode(r, t)
  PROVE  IInv'
  <1> USE DEF IInv
  <1>1. /\ req[r].pc = "issue" /\ req[r].grant \in Grants
        /\ Save(r, t, "AuthorizationCode") /\ UNCHANGED <<context, grant>>
    BY DEF SaveCode, Waits, RequestsSound, Sound, GrantSound
  <1>2. /\ req' \in [Requests -> Request] /\ req'[r] = Idle /\ req'[r].pc # "revoke"
        /\ \A q \in Requests \ {r} : req'[q] = req[q]
    BY FinishEffect, IdleType DEF SaveCode
  <1>3. "AuthorizationCode" \in TokenType
    BY DEF TokenType
  <1>4. TypeOK'
    BY <1>1, <1>2, <1>3, SaveEffect DEF TypeOK, context
  <1>5. /\ \A u \in Tokens : Evolves(u)
        /\ RowsSound' /\ RevocationsSound' /\ LeftoversExplained'
    BY <1>1, <1>2, <1>3, SavedKept
  <1>6. RequestsSound'
    BY <1>1, <1>2, <1>5, IdleSound, OneActsSound DEF context
  <1>7. QED
    BY <1>4, <1>5, <1>6

\* A row that is found is drawn, and is under a grant.
LEMMA FoundToken ==
  ASSUME IInv, NEW t \in Tokens, FindToken(t)
  PROVE  /\ Present(token[t]) /\ token[t].state # "unsaved"
         /\ token[t].type \in TokenType /\ token[t].grant \in Grants
  BY DEF IInv, FindToken, Present, RowsSound

\* A code or refresh token that is found, under a grant that is found, starts
\* an exchange for the grant's account.
LEMMA ExchangeStep ==
  ASSUME IInv, NEW r \in Requests, NEW t \in Tokens, Exchange(r, t)
  PROVE  IInv'
  <1> USE DEF IInv
  <1>1. /\ req[r].pc = "idle" /\ FindToken(t) /\ UNCHANGED <<context, rows>>
        /\ token[t].grant \in Grants /\ token[t].state # "unsaved"
    BY FoundToken DEF Exchange, Waits
  <1> DEFINE account == grant[token[t].grant].account
             pc == IF token[t].type = "RefreshToken" THEN "refresh" ELSE "redeem"
  <1>2. account \in Users \cup {None}
    BY <1>1 DEF TypeOK, GrantRow
  <1>3. PICK there \in BOOLEAN : there = (account \in user)
    <2>1. (account \in user) \in BOOLEAN
      OBVIOUS
    <2>2. QED
      BY <2>1, Zenon
  <1> DEFINE q == [Idle EXCEPT !.pc = pc, !.account = account, !.grant = token[t].grant,
                               !.token = t, !.met = there]
  <1>4. pc \in {"refresh", "redeem"} /\ (pc = "refresh" => token[t].type = "RefreshToken")
    OBVIOUS
  <1>5. Enter(r, q)
    BY <1>3 DEF Exchange
  <1> HIDE DEF pc, account
  <1>6. /\ q \in Request /\ q.pc = pc /\ q.account = account /\ q.grant = token[t].grant
        /\ q.token = t /\ q.met = there
    BY <1>1, <1>2, <1>4 DEF Idle, Request, PC, Exchanging
  <1> HIDE DEF q
  <1>7. /\ req' \in [Requests -> Request] /\ req'[r] = q
        /\ \A p \in Requests \ {r} : req'[p] = req[p]
    BY <1>5, <1>6, EnterEffect
  <1>8. TypeOK'
    BY <1>1, <1>7 DEF TypeOK, context, rows
  <1>9. Sound(r)'
    <2>1. /\ token'[t].state # "unsaved" /\ token'[t].type = token[t].type
          /\ user' = user
      BY <1>1 DEF context, rows
    <2>2. FlowSound(r)' /\ GrantSound(r)'
      BY <1>1, <1>4, <1>6, <1>7 DEF FlowSound, GrantSound, Flow
    <2>3. ExchangeSound(r)'
      BY <1>3, <1>4, <1>6, <1>7, <2>1 DEF ExchangeSound
    <2>4. QED
      BY <2>2, <2>3 DEF Sound
  <1>10. QED
    BY <1>1, <1>4, <1>6, <1>7, <1>8, <1>9, SameRows, OneActs DEF context

\* What consume does to the rows: the presented row gets its mark, if it is
\* there, and no other changes.
LEMMA ConsumeEffect ==
  ASSUME IInv, NEW r \in Requests, Consume(r)
  PROVE  /\ req[r].token \in Tokens
         /\ \/ /\ Present(token[req[r].token])
               /\ token' \in [Tokens -> TokenRow]
               /\ token'[req[r].token].consumed
               /\ token'[req[r].token].state = token[req[r].token].state
               /\ token'[req[r].token].grant = token[req[r].token].grant
               /\ token'[req[r].token].type = token[req[r].token].type
               /\ token'[req[r].token].left = token[req[r].token].left
               /\ \A t \in Tokens \ {req[r].token} : token'[t] = token[t]
               /\ Goto(r, IF req[r].pc = "redeem" THEN "account" ELSE "save")
            \/ token' = token /\ Finish(r)
  <1>1. req[r].token \in Tokens
    BY DEF IInv, Consume, Waits, RequestsSound, Sound, ExchangeSound, Exchanging
  <1>2. CASE Present(token[req[r].token])
    <2> DEFINE t == req[r].token
    <2>1. /\ token' = [token EXCEPT ![t].consumed = TRUE]
          /\ Goto(r, IF req[r].pc = "redeem" THEN "account" ELSE "save")
      BY <1>2 DEF Consume
    <2>2. token \in [Tokens -> TokenRow] /\ token[t] \in TokenRow /\ t \in Tokens
      BY <1>1 DEF IInv, TypeOK
    <2> HIDE DEF t
    <2>3. /\ token'[t] = [token[t] EXCEPT !.consumed = TRUE]
          /\ \A u \in Tokens \ {t} : token'[u] = token[u]
      BY <2>1, <2>2
    <2>4. /\ token'[t] \in TokenRow
          /\ token'[t].consumed
          /\ token'[t].state = token[t].state /\ token'[t].grant = token[t].grant
          /\ token'[t].type = token[t].type /\ token'[t].left = token[t].left
      BY <2>2, <2>3 DEF TokenRow
    <2>5. token' \in [Tokens -> TokenRow]
      BY <2>1, <2>2, <2>3, <2>4
    <2>6. QED
      BY <1>1, <1>2, <2>1, <2>3, <2>4, <2>5 DEF t
  <1>3. CASE ~Present(token[req[r].token])
    BY <1>1, <1>3 DEF Consume
  <1>4. QED
    BY <1>2, <1>3

\* consume marks the row, and an exchange whose row was deleted ends.
LEMMA ConsumeStep ==
  ASSUME IInv, NEW r \in Requests, Consume(r)
  PROVE  IInv'
  <1> USE DEF IInv
  <1> DEFINE t == req[r].token
             pc == IF req[r].pc = "redeem" THEN "account" ELSE "save"
  <1>1. /\ req[r].pc \in {"redeem", "rotate"} /\ Sound(r)
        /\ UNCHANGED <<context, grant>>
        /\ t \in Tokens
    BY ConsumeEffect DEF RequestsSound, Consume, Waits
  <1>2. CASE Present(token[t]) /\ Goto(r, pc)
    <2>1. /\ token' \in [Tokens -> TokenRow]
          /\ token'[t].consumed /\ token'[t].state = token[t].state
          /\ token'[t].grant = token[t].grant /\ token'[t].type = token[t].type
          /\ token'[t].left = token[t].left
          /\ \A u \in Tokens \ {t} : token'[u] = token[u]
      <3>1. req'[r] # Idle
        <4>1. "account" \in PC /\ "save" \in PC
          BY DEF PC, Exchanging
        <4>2. QED
          BY <1>2, <4>1, GotoEffect, IdleType
      <3>2. QED
        BY <3>1, ConsumeEffect, FinishEffect
    <2>2. pc \in PC /\ pc \in Exchanging /\ pc # "revoke" /\ pc \notin Flow
      BY DEF PC, Exchanging, Flow
    <2> HIDE DEF pc
    <2>3. /\ req' \in [Requests -> Request]
          /\ req'[r].pc = pc /\ req'[r].account = req[r].account
          /\ req'[r].grant = req[r].grant /\ req'[r].token = req[r].token
          /\ req'[r].rest = req[r].rest /\ req'[r].met = req[r].met
          /\ \A p \in Requests \ {r} : req'[p] = req[p]
      BY <1>2, <2>2, GotoEffect
    <2>4. TypeOK'
      BY <1>1, <2>1, <2>3 DEF TypeOK, context
    <2>5. \A u \in Tokens : Wanes(u)
      <3>1. Wanes(t)
        BY <2>1, <1>2 DEF Wanes, Evolves, Present
      <3>2. QED
        BY <2>1, <3>1, SameRowWanes
    <2>6. Sound(r)'
      <3>1. FlowSound(r)' /\ GrantSound(r)'
        BY <1>1, <2>2, <2>3 DEF Sound, FlowSound, GrantSound, Exchanging
      <3>2. token'[t].state # "unsaved" /\ req'[r].token = t /\ user' = user
        BY <1>1, <1>2, <2>1, <2>3 DEF Present, context
      <3>3. Used(token'[t])
        BY <2>1 DEF Used
      <3>4. /\ req[r].account \in user => req[r].met
            /\ pc = "save" => req[r].met
        BY <1>1 DEF Sound, ExchangeSound, Exchanging, pc
      <3>5. pc = "save" => req[r].rest \subseteq {"AccessToken", "RefreshToken"}
        BY <1>1 DEF Sound, ExchangeSound, pc
      <3>6. ExchangeSound(r)'
        BY <1>1, <2>2, <2>3, <3>2, <3>3, <3>4, <3>5 DEF ExchangeSound, pc
      <3>7. QED
        BY <3>1, <3>6 DEF Sound
    <2>7. QED
      BY <1>1, <2>2, <2>3, <2>4, <2>5, <2>6, OneActs DEF context
  <1>3. CASE token' = token /\ Finish(r)
    BY <1>1, <1>3, FinishStep DEF rows
  <1>4. QED
    BY <1>2, <1>3, ConsumeEffect

\* findAccount finds the account among the users that are there.
LEMMA FindAccountStep ==
  ASSUME IInv, NEW r \in Requests, FindAccount(r)
  PROVE  IInv'
  <1> USE DEF IInv
  <1>1. /\ req[r].pc \in {"account", "refresh"} /\ Sound(r) /\ req[r] \in Request
        /\ UNCHANGED <<context, rows>>
    BY DEF TypeOK, RequestsSound, FindAccount, Waits
  <1>2. CASE Finish(r)
    BY <1>1, <1>2, FinishStep
  <1>3. CASE ~Finish(r)
    <2>1. /\ req[r].account \in user
          /\ \E rest \in {{"AccessToken"}, {"AccessToken", "RefreshToken"}} :
               Enter(r, [req[r] EXCEPT !.rest = rest,
                 !.pc = IF @ = "refresh" /\ "RefreshToken" \in rest THEN "rotate" ELSE "save"])
      BY <1>3 DEF FindAccount
    <2>2. PICK rest \in {{"AccessToken"}, {"AccessToken", "RefreshToken"}} :
            Enter(r, [req[r] EXCEPT !.rest = rest,
              !.pc = IF @ = "refresh" /\ "RefreshToken" \in rest THEN "rotate" ELSE "save"])
      BY <2>1
    <2> DEFINE pc == IF req[r].pc = "refresh" /\ "RefreshToken" \in rest THEN "rotate" ELSE "save"
               q == [req[r] EXCEPT !.rest = rest, !.pc = pc]
    <2>3. /\ pc \in {"rotate", "save"}
          /\ pc = "save" => req[r].pc = "account" \/ "RefreshToken" \notin rest
      BY <1>1
    <2>4. q = [req[r] EXCEPT !.rest = rest,
                 !.pc = IF @ = "refresh" /\ "RefreshToken" \in rest THEN "rotate" ELSE "save"]
      BY <1>1 DEF Request
    <2> HIDE DEF pc
    <2>5. /\ q \in Request /\ q.pc = pc /\ q.rest = rest
          /\ q.account = req[r].account /\ q.grant = req[r].grant /\ q.token = req[r].token
          /\ q.met = req[r].met
      BY <1>1, <2>3 DEF Request, PC, Exchanging, TokenType
    <2>6. Enter(r, q)
      BY <2>2, <2>4
    <2> HIDE DEF q
    <2>7. /\ req' \in [Requests -> Request] /\ req'[r] = q
          /\ \A p \in Requests \ {r} : req'[p] = req[p]
      BY <2>5, <2>6, EnterEffect
    <2>8. TypeOK'
      BY <1>1, <2>7 DEF TypeOK, context, rows
    <2>9. Sound(r)'
      <3>1. FlowSound(r)' /\ GrantSound(r)'
        BY <1>1, <2>3, <2>5, <2>7 DEF Sound, FlowSound, GrantSound, Exchanging, Flow
      <3>2. token' = token /\ user' = user
        BY <1>1 DEF context, rows
      <3>3. ExchangeSound(r)
        BY <1>1 DEF Sound
      <3>4. req[r].pc \in Exchanging
        BY <1>1 DEF Exchanging
      <3>5. ExchangeSound(r)'
        BY <1>1, <2>1, <2>3, <2>5, <2>7, <3>2, <3>3, <3>4 DEF ExchangeSound
      <3>6. QED
        BY <3>1, <3>5 DEF Sound
    <2>10. QED
      BY <1>1, <2>3, <2>5, <2>7, <2>8, <2>9, SameRows, OneActs DEF context
  <1>4. QED
    BY <1>2, <1>3

\* The tokens of the exchange, in either order.
LEMMA SaveTokenStep ==
  ASSUME IInv, NEW r \in Requests, NEW t \in Tokens, NEW ty \in TokenType, SaveToken(r, t, ty)
  PROVE  IInv'
  <1> USE DEF IInv
  <1>1. /\ req[r].pc = "save" /\ Sound(r) /\ Save(r, t, ty) /\ Tick(r, ty)
        /\ UNCHANGED <<context, grant>>
    BY DEF RequestsSound, SaveToken, Waits
  <1>2. req[r].grant \in Grants
    BY <1>1 DEF Sound, GrantSound, Exchanging
  <1>3. /\ req' \in [Requests -> Request]
        /\ \A p \in Requests \ {r} : req'[p] = req[p]
        /\ \/ req'[r] = Idle
           \/ /\ req'[r].pc = req[r].pc
              /\ req'[r].account = req[r].account /\ req'[r].grant = req[r].grant
              /\ req'[r].token = req[r].token /\ req'[r].rest = req[r].rest \ {ty}
              /\ req'[r].met = req[r].met
    BY <1>1, TickEffect
  <1>4. TypeOK'
    BY <1>1, <1>2, <1>3, SaveEffect DEF TypeOK, context
  <1>5. req'[r].pc # "revoke"
    BY <1>1, <1>3, IdleType
  <1>6. /\ \A u \in Tokens : Evolves(u)
        /\ RowsSound' /\ RevocationsSound' /\ LeftoversExplained'
    BY <1>1, <1>2, <1>3, <1>5, SavedKept
  <1>7. Sound(r)'
    <2>1. CASE req'[r] = Idle
      BY <2>1, IdleSound
    <2>2. CASE req'[r] # Idle
      <3> DEFINE u == req[r].token
                 row == token[u]
      <3>1. /\ u \in Tokens /\ row.state # "unsaved"
            /\ \/ Used(row)
               \/ row.type = "RefreshToken" /\ "RefreshToken" \notin req[r].rest
            /\ req[r].met /\ req[r].rest \subseteq {"AccessToken", "RefreshToken"}
        <4>1. ExchangeSound(r) /\ req[r].pc \in Exchanging
          BY <1>1 DEF Sound, Exchanging
        <4>2. QED
          BY <1>1, <4>1 DEF ExchangeSound
      <3>2. token'[u].state # "unsaved" /\ (Used(row) => Used(token'[u]))
              /\ (row.type = "RefreshToken" =>
                    Used(token'[u]) \/ token'[u].type = "RefreshToken")
        BY <1>6, <3>1 DEF Evolves, Used
      <3>3. FlowSound(r)' /\ GrantSound(r)'
        BY <1>1, <1>2, <1>3, <2>2 DEF FlowSound, GrantSound, Flow
      <3>4. ExchangeSound(r)'
        BY <1>1, <1>3, <2>2, <3>1, <3>2 DEF ExchangeSound
      <3>5. QED
        BY <3>3, <3>4 DEF Sound
    <2>3. QED
      BY <2>1, <2>2
  <1>8. RequestsSound'
    BY <1>1, <1>3, <1>6, <1>7, OneActsSound DEF context
  <1>9. QED
    BY <1>4, <1>6, <1>8

-----------------------------------------------------------------------------
(* Revocation, removal, and what happens around them.                      *)

\* The revocation endpoint destroys the token it finds, and then its grant.
LEMMA RevokeTokenStep ==
  ASSUME IInv, NEW r \in Requests, NEW t \in Tokens, RevokeToken(r, t)
  PROVE  IInv'
  <1> USE DEF IInv
  <1> DEFINE q == [Idle EXCEPT !.pc = "destroy", !.token = t, !.grant = token[t].grant]
  <1>1. /\ req[r].pc = "idle" /\ token[t].grant \in Grants
        /\ Enter(r, q) /\ UNCHANGED <<context, rows>>
    BY FoundToken DEF RevokeToken, Waits
  <1>2. q \in Request /\ q.pc = "destroy" /\ q.grant = token[t].grant
    BY <1>1 DEF Idle, Request, PC
  <1> HIDE DEF q
  <1>3. /\ req' \in [Requests -> Request] /\ req'[r] = q
        /\ \A p \in Requests \ {r} : req'[p] = req[p]
    BY <1>1, <1>2, EnterEffect
  <1>4. TypeOK'
    BY <1>1, <1>3 DEF TypeOK, context, rows
  <1>5. Sound(r)'
    BY <1>1, <1>2, <1>3 DEF Sound, FlowSound, GrantSound, ExchangeSound, Flow, Exchanging
  <1>6. QED
    BY <1>1, <1>2, <1>3, <1>4, <1>5, SameRows, OneActs DEF context

\* A request that starts to revoke a grant, while rows wane.
LEMMA RevocationStarts ==
  ASSUME IInv, NEW r \in Requests, NEW g \in Grants, Enter(r, Revoke(g)),
         req[r].pc # "revoke", UNCHANGED <<context, grant>>, token' \in [Tokens -> TokenRow],
         \A t \in Tokens : Wanes(t)
  PROVE  IInv'
  <1> USE DEF IInv
  <1>1. /\ req' \in [Requests -> Request]
        /\ req'[r].pc = "revoke" /\ req'[r].grant = g /\ TokenType \subseteq req'[r].rest
        /\ \A p \in Requests \ {r} : req'[p] = req[p]
    BY RevokeType, EnterEffect
  <1>2. TypeOK'
    BY <1>1 DEF TypeOK, context
  <1>3. Sound(r)'
    BY <1>1 DEF Sound, FlowSound, GrantSound, ExchangeSound, Flow, Exchanging
  <1>4. QED
    BY <1>1, <1>2, <1>3, OneActs DEF context

\* destroy deletes the token; if another request did, it ends here.
LEMMA DestroyStep ==
  ASSUME IInv, NEW r \in Requests, Destroy(r)
  PROVE  IInv'
  <1> USE DEF IInv
  <1> DEFINE t == req[r].token
  <1>1. req[r].pc = "destroy" /\ req[r].grant \in Grants /\ UNCHANGED <<context, grant>>
    BY DEF Destroy, Waits, RequestsSound, Sound, GrantSound
  <1>2. CASE Present(token[t])
    <2>1. token' = [token EXCEPT ![t] = DeletedToken(token[t])] /\ Enter(r, Revoke(req[r].grant))
      BY <1>2 DEF Destroy
    <2>2. /\ token' \in [Tokens -> TokenRow]
          /\ \A u \in Tokens : token'[u] = token[u] \/ token'[u] = DeletedToken(token[u])
      BY <2>1, DeletedTokenType DEF TypeOK
    <2>3. \A u \in Tokens : Wanes(u)
      BY <2>2, SameRowWanes, DeletedRowWanes
    <2>4. QED
      BY <1>1, <2>1, <2>2, <2>3, RevocationStarts
  <1>3. CASE ~Present(token[t])
    BY <1>1, <1>3, FinishStep DEF Destroy, rows
  <1>4. QED
    BY <1>2, <1>3

\* end-session starts to revoke the grant of the browser's session.
LEMMA EndSessionStep ==
  ASSUME IInv, NEW r \in Requests, NEW g \in Grants, EndSession(r, g)
  PROVE  IInv'
  <1>1. /\ req[r].pc # "revoke" /\ Enter(r, Revoke(g)) /\ UNCHANGED <<context, rows>>
    BY DEF EndSession, Waits
  <1>2. UNCHANGED <<context, grant>> /\ token' \in [Tokens -> TokenRow]
    BY <1>1 DEF IInv, TypeOK, rows
  <1>3. QED
    BY <1>1, <1>2, SameRows, RevocationStarts

\* One statement of revokeByGrantId: the Grant row, or the rows of one type.
LEMMA RevokeByGrantIdEffect ==
  ASSUME TypeOK, NEW r \in Requests, NEW ty \in TokenType \cup {"Grant"},
         RevokeByGrantId(r, ty)
  PROVE  /\ req[r].pc = "revoke" /\ ty \in req[r].rest
         /\ grant' \in [Grants -> GrantRow]
         /\ token' \in [Tokens -> TokenRow]
         /\ \A t \in Tokens : token'[t] = token[t] \/ token'[t] = DeletedToken(token[t])
         /\ ty = "Grant" =>
              /\ token' = token
              /\ \A g \in Grants : grant'[g] # grant[g] =>
                   g = req[r].grant /\ grant'[g] = DeletedGrant(grant[g])
         /\ ty # "Grant" =>
              /\ grant' = grant
              /\ \A t \in Tokens : token[t].type = ty /\ token[t].grant = req[r].grant =>
                   token'[t] = DeletedToken(token[t])
  <1>1. CASE ty = "Grant"
    <2>1. /\ grant' = [grant EXCEPT ![req[r].grant] = DeletedGrant(grant[req[r].grant])]
          /\ token' = token
      BY <1>1 DEF RevokeByGrantId
    <2>2. grant' \in [Grants -> GrantRow]
      BY <2>1, DeletedGrantType DEF TypeOK
    <2>3. QED
      BY <1>1, <2>1, <2>2 DEF TypeOK, RevokeByGrantId, Waits
  <1>2. CASE ty # "Grant"
    <2>1. /\ token' = [t \in Tokens |->
                         IF token[t].type = ty /\ token[t].grant = req[r].grant
                           THEN DeletedToken(token[t]) ELSE token[t]]
          /\ grant' = grant
      BY <1>2 DEF RevokeByGrantId
    <2>2. token' \in [Tokens -> TokenRow]
      BY <2>1, DeletedTokenType DEF TypeOK
    <2>3. QED
      BY <1>2, <2>1, <2>2 DEF TypeOK, RevokeByGrantId, Waits
  <1>3. QED
    BY <1>1, <1>2

\* The deletions of a revocation run in any order; when the Grant row goes
\* first, what is left under it is still to be deleted or was saved meanwhile.
LEMMA RevokeByGrantIdStep ==
  ASSUME IInv, NEW r \in Requests, NEW ty \in TokenType \cup {"Grant"},
         RevokeByGrantId(r, ty)
  PROVE  IInv'
  <1> USE DEF IInv
  <1> DEFINE g == req[r].grant
  <1>1. /\ req[r].pc = "revoke" /\ ty \in req[r].rest /\ g \in Grants /\ Sound(r)
        /\ grant' \in [Grants -> GrantRow] /\ token' \in [Tokens -> TokenRow]
        /\ Tick(r, ty) /\ UNCHANGED context
    <2>1. req[r].pc = "revoke" /\ Sound(r)
      BY RevokeByGrantIdEffect DEF RequestsSound
    <2>2. QED
      BY <2>1, RevokeByGrantIdEffect DEF Sound, GrantSound, RevokeByGrantId
  <1>2. \A t \in Tokens : Wanes(t)
    BY RevokeByGrantIdEffect, SameRowWanes, DeletedRowWanes
  <1>3. /\ req' \in [Requests -> Request]
        /\ \A p \in Requests \ {r} : req'[p] = req[p]
        /\ \/ req[r].rest = {ty} /\ req'[r] = Idle
           \/ /\ req'[r].pc = "revoke"
              /\ req'[r].account = req[r].account /\ req'[r].grant = g
              /\ req'[r].token = req[r].token /\ req'[r].rest = req[r].rest \ {ty}
              /\ req'[r].met = req[r].met
    BY <1>1, TickEffect
  <1>4. TypeOK'
    BY <1>1, <1>3 DEF TypeOK, context
  <1>5. RequestsSound'
    <2>1. Sound(r)'
      BY <1>1, <1>3, IdleSound DEF Sound, FlowSound, GrantSound, ExchangeSound, Flow, Exchanging
    <2>2. QED
      BY <1>1, <1>2, <1>3, <2>1, OneActsSound DEF Wanes, context
  <1>6. ASSUME NEW t \in Tokens, Present(token'[t])
        PROVE  /\ Present(token[t]) /\ token'[t].type = token[t].type
               /\ token'[t].grant = token[t].grant /\ (token[t].left => token'[t].left)
               /\ token'[t].type \in TokenType /\ token'[t].grant \in Grants
    BY <1>2, <1>6 DEF Wanes, Evolves, Present, RowsSound
  <1>7. RowsSound'
    BY <1>2, <1>6 DEF Wanes, Evolves, RowsSound, Present
  <1>8. ASSUME NEW t \in Tokens, Present(token'[t]), token'[t].grant = g,
               token'[t].type \notin req[r].rest \ {ty}
        PROVE  token'[t].left
    <2>1. token'[t].type # ty
      <3>1. CASE ty = "Grant"
        BY <1>6, <1>8, <3>1 DEF TokenType
      <3>2. CASE ty # "Grant"
        <4>1. token[t] \in TokenRow
          BY DEF TypeOK
        <4>2. token[t].type = ty => token'[t] = DeletedToken(token[t])
          BY <1>6, <1>8, <3>2, RevokeByGrantIdEffect
        <4>3. QED
          BY <1>6, <1>8, <4>1, <4>2, DeletedTokenType
      <3>3. QED
        BY <3>1, <3>2
    <2>2. token[t].type \notin req[r].rest
      BY <1>6, <1>8, <2>1
    <2>3. token[t].left
      BY <1>1, <1>6, <1>8, <2>2 DEF RevocationsSound
    <2>4. QED
      BY <1>6, <1>8, <2>3
  <1>9. RevocationsSound'
    <2> SUFFICES ASSUME NEW q \in Requests, NEW t \in Tokens,
                        req'[q].pc = "revoke", Present(token'[t]),
                        token'[t].grant = req'[q].grant, token'[t].type \notin req'[q].rest
                 PROVE  token'[t].left
      BY DEF RevocationsSound
    <2>1. CASE q = r
      BY <1>3, <1>8, <2>1, IdleType
    <2>2. CASE q # r
      BY <1>3, <1>6, <2>2 DEF RevocationsSound
    <2>3. QED
      BY <2>1, <2>2
  <1>10. LeftoversExplained'
    <2> SUFFICES ASSUME NEW t \in Tokens, Present(token'[t]),
                        grant'[token'[t].grant].state = "gone", ~token'[t].left
                 PROVE  \E q \in Requests : req'[q].pc = "revoke"
                          /\ req'[q].grant = token'[t].grant /\ token'[t].type \in req'[q].rest
      BY DEF LeftoversExplained
    <2>1. CASE token'[t].grant = g
      <3>1. token'[t].type \in req[r].rest \ {ty}
        BY <1>8, <2>1
      <3>2. req'[r].pc = "revoke" /\ req'[r].grant = g /\ req'[r].rest = req[r].rest \ {ty}
        BY <1>3, <3>1
      <3>3. QED
        BY <2>1, <3>1, <3>2
    <2>2. CASE token'[t].grant # g
      <3>1. grant'[token'[t].grant] = grant[token'[t].grant]
        BY <1>6, <2>2, RevokeByGrantIdEffect
      <3>2. PICK q \in Requests : req[q].pc = "revoke" /\ req[q].grant = token[t].grant
                                    /\ token[t].type \in req[q].rest
        BY <1>6, <3>1 DEF LeftoversExplained
      <3>3. req'[q] = req[q]
        BY <1>3, <1>6, <2>2, <3>2
      <3>4. QED
        BY <1>6, <3>2, <3>3
    <2>3. QED
      BY <2>1, <2>2
  <1>11. QED
    BY <1>4, <1>5, <1>7, <1>9, <1>10

\* Deleting every row of the application leaves none to explain.
LEMMA RemoveTokensStep ==
  ASSUME IInv, NEW r \in Requests, RemoveTokens(r)
  PROVE  IInv'
  <1> USE DEF IInv
  <1> DEFINE q == [Idle EXCEPT !.pc = "remove"]
  <1>1. q \in Request /\ q.pc = "remove"
    BY DEF Idle, Request, PC
  <1>2. /\ req[r].pc = "idle" /\ Enter(r, q) /\ UNCHANGED context
        /\ grant' = [g \in Grants |-> DeletedGrant(grant[g])]
        /\ token' = [t \in Tokens |-> DeletedToken(token[t])]
    BY DEF RemoveTokens, Waits
  <1> HIDE DEF q
  <1>3. /\ req' \in [Requests -> Request] /\ req'[r] = q
        /\ \A p \in Requests \ {r} : req'[p] = req[p]
    BY <1>1, <1>2, EnterEffect
  <1>4. TypeOK'
    BY <1>2, <1>3, DeletedGrantType, DeletedTokenType DEF TypeOK, context
  <1>5. /\ \A t \in Tokens : ~Present(token'[t]) /\ Wanes(t)
    BY <1>2, DeletedTokenType, DeletedRowWanes DEF TypeOK
  <1>6. Sound(r)'
    BY <1>1, <1>3 DEF Sound, FlowSound, GrantSound, ExchangeSound, Flow, Exchanging
  <1>7. RequestsSound'
    BY <1>2, <1>3, <1>5, <1>6, OneActsSound DEF Wanes, context
  <1>8. RowsSound'
    BY <1>5 DEF RowsSound, Wanes, Evolves
  <1>9. RevocationsSound' /\ LeftoversExplained'
    BY <1>5 DEF RevocationsSound, LeftoversExplained
  <1>10. QED
    BY <1>4, <1>7, <1>8, <1>9

\* The application goes with its assignments.
LEMMA RemoveApplicationStep ==
  ASSUME IInv, NEW r \in Requests, RemoveApplication(r)
  PROVE  IInv'
  <1> USE DEF IInv
  <1>1. /\ req[r].pc = "remove" /\ UNCHANGED <<user, rows>>
        /\ application' = FALSE /\ assigned' = {} /\ provider' \in BOOLEAN
    BY DEF TypeOK, RemoveApplication, Waits
  <1>2. /\ req' \in [Requests -> Request] /\ req'[r] = Idle /\ Sound(r)'
        /\ \A p \in Requests \ {r} : req'[p] = req[p]
    BY FinishEffect, IdleSound DEF RemoveApplication
  <1>3. TypeOK'
    BY <1>1, <1>2 DEF TypeOK, rows
  <1>4. QED
    BY <1>1, <1>2, <1>3, IdleType, SameRows, OneActs

\* A step that leaves the rows and where the requests stand.
LEMMA AroundKept ==
  ASSUME IInv, TypeOK', UNCHANGED rows, user' \subseteq user,
         \A q \in Requests :
           /\ req'[q].pc = req[q].pc /\ req'[q].account = req[q].account
           /\ req'[q].grant = req[q].grant /\ req'[q].token = req[q].token
           /\ req'[q].rest = req[q].rest /\ (req[q].met => req'[q].met)
  PROVE  IInv'
  <1> USE DEF IInv
  <1>1. RequestsSound'
    BY SameRows, SoundKept DEF Wanes, RequestsSound
  <1>2. RowsSound' /\ RevocationsSound' /\ LeftoversExplained'
    BY DEF rows, RowsSound, RevocationsSound, LeftoversExplained
  <1>3. QED
    BY <1>1, <1>2

\* Assigning a user tells the requests under way.
LEMMA AssignStep ==
  ASSUME IInv, NEW u \in Users, Assign(u)
  PROVE  IInv'
  <1> USE DEF IInv
  <1>1. ASSUME NEW q \in Requests
        PROVE  /\ req'[q] \in Request
               /\ req'[q].pc = req[q].pc /\ req'[q].account = req[q].account
               /\ req'[q].grant = req[q].grant /\ req'[q].token = req[q].token
               /\ req'[q].rest = req[q].rest /\ (req[q].met => req'[q].met)
    <2>1. req[q] \in Request
      BY DEF TypeOK
    <2>2. PICK met \in BOOLEAN :
            met = (req[q].met \/ (req[q].pc \in Flow /\ req[q].account = u))
      <3>1. (req[q].met \/ (req[q].pc \in Flow /\ req[q].account = u)) \in BOOLEAN
        OBVIOUS
      <3>2. QED
        BY <3>1, Zenon
    <2>3. req'[q] = [req[q] EXCEPT !.met =
                       req[q].met \/ (req[q].pc \in Flow /\ req[q].account = u)]
      BY DEF Assign
    <2>4. req'[q] = [req[q] EXCEPT !.met = met]
      BY <2>2, <2>3
    <2>5. req[q].met => met
      BY <2>2
    <2>6. QED
      BY <2>1, <2>4, <2>5 DEF Request
  <1>2. req' \in [Requests -> Request]
    BY <1>1 DEF Assign
  <1>3. TypeOK' /\ UNCHANGED rows /\ user' \subseteq user
    BY <1>2 DEF TypeOK, Assign, rows
  <1>4. QED
    BY <1>1, <1>3, AroundKept

\* Unassigning, and removing the user, tell nobody.
LEMMA UnassignStep ==
  ASSUME IInv, NEW u \in Users, Unassign(u) \/ RemoveUser(u)
  PROVE  IInv'
  <1>1. TypeOK' /\ UNCHANGED <<rows, req>> /\ user' \subseteq user
    BY DEF IInv, TypeOK, Unassign, RemoveUser, rows
  <1>2. QED
    BY <1>1, AroundKept

\* Requests that go on as they were, while rows wane and no grant goes.
LEMMA RowsWaned ==
  ASSUME IInv, TypeOK', user' \subseteq user, req' = req, \A t \in Tokens : Wanes(t),
         \A g \in Grants : grant'[g].state = "gone" => grant[g].state = "gone"
  PROVE  IInv'
  <1> USE DEF IInv
  <1>1. RequestsSound'
    BY SoundKept DEF Wanes, RequestsSound
  <1>2. RowsSound' /\ RevocationsSound' /\ LeftoversExplained'
    BY WanedKept
  <1>3. QED
    BY <1>1, <1>2

\* An expired grant is there, and not found.
LEMMA ExpireGrantEffect ==
  ASSUME TypeOK, NEW g \in Grants, ExpireGrant(g)
  PROVE  /\ grant[g].state = "stored" /\ grant'[g].state = "expired"
         /\ grant' \in [Grants -> GrantRow]
         /\ \A h \in Grants \ {g} : grant'[h] = grant[h]
  <1>1. /\ grant[g] \in GrantRow /\ grant[g].state = "stored"
        /\ grant' = [grant EXCEPT ![g].state = "expired"]
    BY DEF TypeOK, ExpireGrant, FindGrant
  <1>2. /\ grant'[g] = [grant[g] EXCEPT !.state = "expired"]
        /\ \A h \in Grants \ {g} : grant'[h] = grant[h]
    BY <1>1 DEF TypeOK
  <1>3. grant'[g] \in GrantRow /\ grant'[g].state = "expired"
    BY <1>1, <1>2 DEF GrantRow, RowState
  <1>4. grant' \in [Grants -> GrantRow]
    BY <1>1, <1>2, <1>3 DEF TypeOK
  <1>5. QED
    BY <1>1, <1>2, <1>3, <1>4

\* Expiry ends a grant and leaves its row.
LEMMA ExpireGrantStep ==
  ASSUME IInv, NEW g \in Grants, ExpireGrant(g)
  PROVE  IInv'
  <1>1. UNCHANGED <<context, token, req>> /\ TypeOK
    BY DEF IInv, ExpireGrant
  <1>2. TypeOK'
    BY <1>1, ExpireGrantEffect DEF TypeOK, context
  <1>3. \A h \in Grants : grant'[h].state = "gone" => grant[h].state = "gone"
    BY <1>1, ExpireGrantEffect
  <1>4. \A t \in Tokens : Wanes(t)
    BY <1>1, SameRowWanes
  <1>5. QED
    BY <1>1, <1>2, <1>3, <1>4, RowsWaned DEF context

\* An expired token is there, and not found.
LEMMA ExpireTokenStep ==
  ASSUME IInv, NEW t \in Tokens, ExpireToken(t)
  PROVE  IInv'
  <1>1. /\ token[t] \in TokenRow /\ token[t].state = "stored"
        /\ token \in [Tokens -> TokenRow]
        /\ token' = [token EXCEPT ![t].state = "expired"]
        /\ UNCHANGED <<context, grant, req>> /\ TypeOK
    BY DEF IInv, TypeOK, ExpireToken, FindToken
  <1>2. /\ token'[t] = [token[t] EXCEPT !.state = "expired"]
        /\ \A u \in Tokens \ {t} : token'[u] = token[u]
    BY <1>1
  <1>3. /\ token'[t] \in TokenRow /\ token'[t].state = "expired"
        /\ token'[t].grant = token[t].grant /\ token'[t].type = token[t].type
        /\ token'[t].left = token[t].left /\ token'[t].consumed = token[t].consumed
    BY <1>1, <1>2 DEF TokenRow, RowState
  <1>4. token' \in [Tokens -> TokenRow]
    BY <1>1, <1>2, <1>3
  <1>5. TypeOK'
    BY <1>1, <1>4 DEF TypeOK, context
  <1>6. Wanes(t)
    BY <1>1, <1>3 DEF Wanes, Evolves, Present
  <1>7. \A u \in Tokens : Wanes(u)
    BY <1>2, <1>6, SameRowWanes
  <1>8. QED
    BY <1>1, <1>5, <1>7, RowsWaned DEF context

\* The death of the process marks what an unfinished revocation leaves.
LEMMA RestartEffect ==
  ASSUME TypeOK, NEW t \in Tokens, Restart
  PROVE  /\ token'[t] \in TokenRow
         /\ token'[t].state = token[t].state /\ token'[t].grant = token[t].grant
         /\ token'[t].type = token[t].type /\ token'[t].consumed = token[t].consumed
         /\ token[t].left => token'[t].left
         /\ \A q \in Revoking : Present(token[t]) /\ req[q].grant = token[t].grant =>
              token'[t].left
         /\ ~Present(token[t]) => token'[t] = token[t]
  <1> DEFINE late == token[t].left
                       \/ (Present(token[t]) /\ \E r \in Revoking : req[r].grant = token[t].grant)
  <1>1. token[t] \in TokenRow
    BY DEF TypeOK
  <1>2. PICK left \in BOOLEAN : left = late
    <2>1. late \in BOOLEAN
      BY <1>1 DEF TokenRow
    <2>2. QED
      BY <2>1, Zenon
  <1>3. token'[t] = [token[t] EXCEPT !.left = late]
    BY DEF Restart
  <1>4. token'[t] = [token[t] EXCEPT !.left = left]
    BY <1>2, <1>3
  <1>5. left <=> late
    BY <1>2
  <1>6. ~Present(token[t]) => left = token[t].left
    BY <1>1, <1>2, <1>5 DEF TokenRow
  <1> HIDE DEF late
  <1>7. /\ token'[t] \in TokenRow
        /\ token'[t].state = token[t].state /\ token'[t].grant = token[t].grant
        /\ token'[t].type = token[t].type /\ token'[t].consumed = token[t].consumed
        /\ token'[t].left = left
        /\ left = token[t].left => token'[t] = token[t]
    BY <1>1, <1>4 DEF TokenRow
  <1>8. QED
    BY <1>5, <1>6, <1>7 DEF late

\* Nobody is left to finish a revocation, and what it did not reach is marked.
LEMMA RestartStep ==
  ASSUME IInv, Restart
  PROVE  IInv'
  <1> USE DEF IInv
  <1>1. \A q \in Requests : req'[q] = Idle /\ req'[q].pc # "revoke"
    BY IdleType DEF Restart
  <1>2. TypeOK'
    <2>1. token' \in [Tokens -> TokenRow]
      BY RestartEffect DEF Restart
    <2>2. req' \in [Requests -> Request]
      BY IdleType DEF Restart
    <2>3. QED
      BY <2>1, <2>2 DEF TypeOK, Restart
  <1>3. RequestsSound'
    BY <1>1, IdleSound DEF RequestsSound
  <1>4. RowsSound'
    BY RestartEffect DEF RowsSound, Present
  <1>5. RevocationsSound'
    BY <1>1 DEF RevocationsSound
  <1>6. LeftoversExplained'
    <2> SUFFICES ASSUME NEW t \in Tokens, Present(token'[t]),
                        grant'[token'[t].grant].state = "gone"
                 PROVE  token'[t].left
      BY DEF LeftoversExplained
    <2>1. Present(token[t]) /\ grant[token[t].grant].state = "gone"
      BY RestartEffect DEF Restart, Present
    <2>2. token[t].left \/ \E q \in Revoking : req[q].grant = token[t].grant
      BY <2>1 DEF LeftoversExplained, Revoking
    <2>3. QED
      BY <2>1, <2>2, RestartEffect
  <1>7. QED
    BY <1>2, <1>3, <1>4, <1>5, <1>6

-----------------------------------------------------------------------------
(* The theorems about states.                                              *)

\* At the start nothing is there.
LEMMA InitSound == Init => IInv
  <1> SUFFICES ASSUME Init
               PROVE  IInv
    OBVIOUS
  <1>1. \A q \in Requests : req[q] = Idle
    BY DEF Init
  <1>2. \A t \in Tokens : token[t].state = "unsaved" /\ token[t].grant = None /\ ~Present(token[t])
    BY DEF Init, Present
  <1>3. TypeOK
    BY IdleType DEF Init, TypeOK, GrantRow, TokenRow, RowState
  <1>4. RequestsSound
    BY <1>1, IdleType
       DEF RequestsSound, Sound, FlowSound, GrantSound, ExchangeSound, Flow, Exchanging
  <1>5. QED
    BY <1>2, <1>3, <1>4 DEF IInv, RowsSound, RevocationsSound, LeftoversExplained

\* Every step keeps the invariant.
LEMMA NextSound == IInv /\ [Next]_vars => IInv'
  <1> SUFFICES ASSUME IInv, [Next]_vars
               PROVE  IInv'
    OBVIOUS
  <1>1. ASSUME NEW r \in Requests, Browser(r)
        PROVE  IInv'
    BY <1>1, AuthorizeStep, AutoConfirmStep, DenyStep, SaveGrantStep, ResumeStep, SaveCodeStep
       DEF Browser
  <1>2. ASSUME NEW r \in Requests, Client(r)
        PROVE  IInv'
    BY <1>2, ExchangeStep, ConsumeStep, FindAccountStep, SaveTokenStep DEF Client
  <1>3. ASSUME NEW r \in Requests, Revocation(r)
        PROVE  IInv'
    BY <1>3, RevokeTokenStep, DestroyStep, EndSessionStep, RevokeByGrantIdStep DEF Revocation
  <1>4. ASSUME NEW r \in Requests, Removal(r)
        PROVE  IInv'
    BY <1>4, RemoveTokensStep, RemoveApplicationStep DEF Removal
  <1>5. ASSUME Environment
        PROVE  IInv'
    BY <1>5, AssignStep, UnassignStep, ExpireGrantStep, ExpireTokenStep, RestartStep
       DEF Environment
  <1>6. CASE UNCHANGED vars
    BY <1>6 DEF vars, context, rows, IInv, TypeOK, RequestsSound, Sound, FlowSound, GrantSound,
                ExchangeSound, RowsSound, RevocationsSound, LeftoversExplained
  <1>7. QED
    BY <1>1, <1>2, <1>3, <1>4, <1>5, <1>6 DEF Next

\* The invariant holds in every state.
THEOREM AlwaysSound == Spec => []IInv
  BY InitSound, NextSound, PTL DEF Spec

\* Rows, requests and assignments have their types in every state; no request
\* ever stands where oidc-provider and the adapter have no next call.
THEOREM TypeCorrect == Spec => []TypeOK
  <1>1. IInv => TypeOK
    BY DEF IInv
  <1>2. QED
    BY <1>1, AlwaysSound, PTL

\* What is left of a grant that is gone is accounted for: a request the
\* revocation overtook, a deletion still to come, or a process that died in it.
THEOREM LeftoversAlwaysExplained == Spec => []LeftoversExplained
  <1>1. IInv => LeftoversExplained
    BY DEF IInv
  <1>2. QED
    BY <1>1, AlwaysSound, PTL

-----------------------------------------------------------------------------
(* What a step does to grants and tokens, whoever takes it.                *)

\* A grant that changes was given, or was there and is no longer found.
GrantsWane ==
  \A g \in Grants :
    \/ grant'[g] = grant[g]
    \/ Present(grant[g]) /\ grant'[g].state \in {"expired", "gone"}

\* A Grant row that is deleted, or stays.
LEMMA DeletedGrantsWane ==
  ASSUME TypeOK, \A g \in Grants : grant'[g] \in {grant[g], DeletedGrant(grant[g])}
  PROVE  GrantsWane
  <1>1. \A g \in Grants : grant[g] \in GrantRow
    BY DEF TypeOK
  <1>2. QED
    BY <1>1, DeletedGrantType DEF GrantsWane

\* All rows wane but the one a request on its way saves.
LEMMA RevocationWanes ==
  ASSUME IInv, NEW r \in Requests, Revocation(r) \/ Removal(r)
  PROVE  GrantsWane /\ \A t \in Tokens : Wanes(t)
  <1> USE DEF IInv
  <1>1. CASE UNCHANGED rows
    BY <1>1, SameRows DEF GrantsWane
  <1>2. CASE Destroy(r)
    <2>1. /\ grant' = grant
          /\ \A u \in Tokens : token'[u] = token[u] \/ token'[u] = DeletedToken(token[u])
      <3>1. \/ token' = token
            \/ token' = [token EXCEPT ![req[r].token] = DeletedToken(token[req[r].token])]
        BY <1>2 DEF Destroy
      <3>2. QED
        BY <1>2, <3>1 DEF Destroy, TypeOK
    <2>2. QED
      BY <2>1, SameRowWanes, DeletedRowWanes DEF GrantsWane
  <1>3. CASE \E ty \in TokenType \cup {"Grant"} : RevokeByGrantId(r, ty)
    <2>1. PICK ty \in TokenType \cup {"Grant"} : RevokeByGrantId(r, ty)
      BY <1>3
    <2>2. \A g \in Grants : grant'[g] \in {grant[g], DeletedGrant(grant[g])}
      BY <2>1, RevokeByGrantIdEffect
    <2>3. QED
      BY <2>1, <2>2, RevokeByGrantIdEffect, SameRowWanes, DeletedRowWanes, DeletedGrantsWane
  <1>4. CASE RemoveTokens(r)
    <2>1. /\ \A g \in Grants : grant'[g] = DeletedGrant(grant[g])
          /\ \A t \in Tokens : token'[t] = DeletedToken(token[t])
      BY <1>4 DEF RemoveTokens
    <2>2. QED
      BY <2>1, DeletedRowWanes, DeletedGrantsWane
  <1>5. QED
    BY <1>1, <1>2, <1>3, <1>4
       DEF Revocation, Removal, RevokeToken, EndSession, RemoveApplication

\* Expiry, assignments and the death of the process bring no row back either.
LEMMA EnvironmentWanes ==
  ASSUME IInv, Environment
  PROVE  GrantsWane /\ \A t \in Tokens : Wanes(t)
  <1> USE DEF IInv
  <1>1. CASE UNCHANGED rows
    BY <1>1, SameRows DEF GrantsWane
  <1>2. ASSUME NEW g \in Grants, ExpireGrant(g)
        PROVE  GrantsWane /\ \A t \in Tokens : Wanes(t)
    <2>1. token' = token
      BY <1>2 DEF ExpireGrant
    <2>2. QED
      BY <1>2, <2>1, ExpireGrantEffect, SameRowWanes DEF GrantsWane, Present
  <1>3. ASSUME NEW t \in Tokens, ExpireToken(t)
        PROVE  GrantsWane /\ \A u \in Tokens : Wanes(u)
    <2>1. /\ token[t] \in TokenRow /\ token[t].state = "stored" /\ grant' = grant
          /\ token'[t] = [token[t] EXCEPT !.state = "expired"]
          /\ \A u \in Tokens \ {t} : token'[u] = token[u]
      BY <1>3 DEF TypeOK, ExpireToken, FindToken
    <2>2. Wanes(t)
      BY <2>1 DEF TokenRow, Wanes, Evolves, Present
    <2>3. QED
      BY <2>1, <2>2, SameRowWanes DEF GrantsWane
  <1>4. CASE Restart
    <2>1. grant' = grant
      BY <1>4 DEF Restart
    <2>2. \A t \in Tokens : Wanes(t)
      BY <1>4, RestartEffect DEF Wanes, Evolves, Present
    <2>3. QED
      BY <2>1, <2>2 DEF GrantsWane
  <1>5. QED
    BY <1>1, <1>2, <1>3, <1>4 DEF Environment, Assign, Unassign, RemoveUser

\* A row is drawn by the request that saves it, and only then.
LEMMA StepWanes ==
  ASSUME IInv, Next
  PROVE  \/ \E r \in Requests, g \in Grants : SaveGrant(r, g)
         \/ \E r \in Requests, t \in Tokens :
              SaveCode(r, t) \/ \E ty \in TokenType : SaveToken(r, t, ty)
         \/ GrantsWane /\ \A t \in Tokens : Wanes(t)
  <1>1. ASSUME NEW r \in Requests, Consume(r)
        PROVE  GrantsWane /\ \A t \in Tokens : Wanes(t)
    <2>1. grant' = grant
      BY <1>1 DEF Consume
    <2>2. \A t \in Tokens : Wanes(t)
      BY <1>1, ConsumeEffect, SameRowWanes DEF Wanes, Evolves, Present
    <2>3. QED
      BY <2>1, <2>2 DEF GrantsWane
  <1>2. ASSUME UNCHANGED rows
        PROVE  GrantsWane /\ \A t \in Tokens : Wanes(t)
    BY <1>2, SameRows DEF GrantsWane
  <1>3. ASSUME NEW r \in Requests, Browser(r) \/ Client(r)
        PROVE  \/ \E g \in Grants : SaveGrant(r, g)
               \/ \E t \in Tokens : SaveCode(r, t) \/ \E ty \in TokenType : SaveToken(r, t, ty)
               \/ GrantsWane /\ \A t \in Tokens : Wanes(t)
    <2>1. CASE (\E u \in Users : Authorize(r, u)) \/ AutoConfirm(r) \/ Deny(r) \/ Resume(r)
      <3>1. UNCHANGED rows
        BY <2>1, Zenon DEF Authorize, AutoConfirm, Deny, Resume
      <3>2. QED
        BY <1>2, <3>1
    <2>2. CASE (\E t \in Tokens : Exchange(r, t)) \/ FindAccount(r)
      <3>1. UNCHANGED rows
        BY <2>2, Zenon DEF Exchange, FindAccount
      <3>2. QED
        BY <1>2, <3>1
    <2>3. QED
      BY <1>1, <1>3, <2>1, <2>2, Zenon DEF Browser, Client
  <1>4. QED
    BY <1>3, RevocationWanes, EnvironmentWanes DEF Next

-----------------------------------------------------------------------------
(* The theorems about steps.                                               *)

\* Of a request that saves, no other moves.
LEMMA SavesAlone ==
  ASSUME IInv, NEW r \in Requests, NEW t \in Tokens
  PROVE  /\ SaveCode(r, t) =>
              /\ req[r].pc = "issue" /\ req[r].grant \in Grants
              /\ Save(r, t, "AuthorizationCode") /\ grant' = grant
              /\ req'[r] = Idle /\ \A q \in Requests \ {r} : req'[q] = req[q]
         /\ \A ty \in TokenType : SaveToken(r, t, ty) =>
              /\ req[r].pc = "save" /\ req[r].grant \in Grants /\ ty \in req[r].rest
              /\ Save(r, t, ty) /\ grant' = grant
              /\ req'[r] = Idle \/ (req'[r].pc = "save" /\ req'[r].grant = req[r].grant)
              /\ \A q \in Requests \ {r} : req'[q] = req[q]
  <1>1. req[r].pc \in {"issue", "save"} => req[r].grant \in Grants
    BY DEF IInv, RequestsSound, Sound, GrantSound, Exchanging
  <1>2. ASSUME SaveCode(r, t)
        PROVE  /\ req[r].pc = "issue" /\ Save(r, t, "AuthorizationCode") /\ grant' = grant
               /\ req'[r] = Idle /\ \A q \in Requests \ {r} : req'[q] = req[q]
    BY <1>2, FinishEffect DEF IInv, SaveCode, Waits
  <1>3. ASSUME NEW ty \in TokenType, SaveToken(r, t, ty)
        PROVE  /\ req[r].pc = "save" /\ Save(r, t, ty) /\ grant' = grant /\ ty \in req[r].rest
               /\ req'[r] = Idle \/ (req'[r].pc = "save" /\ req'[r].grant = req[r].grant)
               /\ \A q \in Requests \ {r} : req'[q] = req[q]
    <2>1. req[r].pc = "save" /\ Save(r, t, ty) /\ grant' = grant /\ ty \in req[r].rest
            /\ Tick(r, ty)
      BY <1>3 DEF SaveToken, Waits
    <2>2. TypeOK /\ ty \in TokenType \cup {"Grant"}
      BY DEF IInv
    <2>3. /\ \A q \in Requests \ {r} : req'[q] = req[q]
          /\ \/ req'[r] = Idle
             \/ (req'[r].pc = req[r].pc /\ req'[r].grant = req[r].grant)
      BY <2>1, <2>2, TickEffect
    <2>4. QED
      BY <2>1, <2>3
  <1>4. QED
    BY <1>1, <1>2, <1>3

\* Of a request that gives a grant, no other moves.
LEMMA GivesAlone ==
  ASSUME IInv, NEW r \in Requests, NEW g \in Grants, SaveGrant(r, g)
  PROVE  /\ req[r].pc = "confirm" /\ req'[r].pc = "resume" /\ token' = token
         /\ grant[g].state = "unsaved" /\ grant'[g].state = "stored"
         /\ \A h \in Grants \ {g} : grant'[h] = grant[h]
         /\ \A q \in Requests \ {r} : req'[q] = req[q]
  <1> DEFINE q == [req[r] EXCEPT !.pc = "resume", !.grant = g]
  <1>1. req[r] \in Request
    BY DEF IInv, TypeOK
  <1>2. q \in Request /\ q.pc = "resume" /\ Enter(r, q)
    BY <1>1 DEF Request, PC, Flow, SaveGrant
  <1> HIDE DEF q
  <1>3. req'[r].pc = "resume" /\ \A p \in Requests \ {r} : req'[p] = req[p]
    BY <1>2, EnterEffect DEF IInv
  <1>4. QED
    BY <1>3 DEF IInv, TypeOK, SaveGrant, Waits

\* A grant, and a code under one, is only given to a user assigned at some
\* moment since the browser's last checked request: auto-confirm asks again,
\* so nothing that had been begun before an unassignment gets through it.
THEOREM GrantsOnlyEverForAssigned == Spec => GrantsOnlyForAssigned
  <1> DEFINE Body == \A r \in Requests :
               /\ \A g \in Grants : grant[g].state # grant'[g].state /\ grant'[g].state = "stored"
                                      /\ req'[r] # req[r] => req[r].met
               /\ \A t \in Tokens : Saves(r, t) /\ req[r].pc = "issue" => req[r].met
  <1>1. IInv /\ [Next]_vars => [Body]_vars
    <2> SUFFICES ASSUME IInv, Next, NEW r \in Requests
                 PROVE  /\ \A g \in Grants :
                             grant[g].state # grant'[g].state /\ grant'[g].state = "stored"
                               /\ req'[r] # req[r] => req[r].met
                        /\ \A t \in Tokens : Saves(r, t) /\ req[r].pc = "issue" => req[r].met
      OBVIOUS
    <2>1. req[r].pc \in {"confirm", "issue"} => req[r].met
      BY DEF IInv, RequestsSound, Sound, FlowSound, Flow
    <2>2. ASSUME NEW g \in Grants, grant[g].state # grant'[g].state, grant'[g].state = "stored",
                 req'[r] # req[r]
          PROVE  req[r].met
      <3>1. ~GrantsWane
        BY <2>2 DEF GrantsWane
      <3>2. \A q \in Requests, t \in Tokens :
              /\ ~SaveCode(q, t) /\ \A ty \in TokenType : ~SaveToken(q, t, ty)
        BY <2>2, SavesAlone
      <3>3. PICK q \in Requests, h \in Grants : SaveGrant(q, h)
        BY <3>1, <3>2, StepWanes
      <3>4. q = r /\ req[q].pc = "confirm"
        BY <2>2, <3>3, GivesAlone
      <3>5. QED
        BY <2>1, <3>4
    <2>3. QED
      BY <2>1, <2>2
  <1>2. QED
    BY <1>1, AlwaysSound, PTL DEF Spec, GrantsOnlyForAssigned

\* Only a request of the exchange yields a token there, of the types it set out
\* to save.
LEMMA OneSaves ==
  ASSUME IInv, Next, NEW r \in Requests, NEW t \in Tokens, Saves(r, t), req[r].pc = "save"
  PROVE  token'[t].type \in req[r].rest
  <1>1. \E u \in Tokens : ~Wanes(u)
    BY DEF Saves, Wanes
  <1>2. \A q \in Requests, g \in Grants : ~SaveGrant(q, g)
    BY GivesAlone DEF Saves
  <1>3. PICK q \in Requests, u \in Tokens :
          SaveCode(q, u) \/ \E ty \in TokenType : SaveToken(q, u, ty)
    BY <1>1, <1>2, StepWanes
  <1>4. q = r
    BY <1>3, SavesAlone DEF Saves
  <1>5. ~SaveCode(q, u)
    BY <1>4, SavesAlone
  <1>6. PICK ty \in TokenType : SaveToken(q, u, ty)
    BY <1>3, <1>5
  <1>7. /\ token'[u].type = ty /\ ty \in req[r].rest
        /\ \A v \in Tokens \ {u} : token'[v] = token[v]
    BY <1>4, <1>6, SavesAlone, SaveEffect DEF IInv
  <1>8. u = t
    BY <1>7 DEF Saves
  <1>9. QED
    BY <1>7, <1>8

\* A token is yielded only to a request that began while its user existed, and
\* what yields it is marked or gone, but for a refresh token kept unrotated:
\* findAccount stops the tokens that outlive their users.
THEOREM NothingEverForRemovedUsers == Spec => NothingForRemovedUsers
  <1> DEFINE Body == \A r \in Requests, t \in Tokens :
               Saves(r, t) /\ req[r].pc = "save" =>
                 /\ req[r].met
                 /\ LET used == token[req[r].token]
                    IN  \/ used.consumed
                        \/ ~Present(used)
                        \/ used.type = "RefreshToken" /\ token'[t].type = "AccessToken"
  <1>1. IInv /\ [Next]_vars => [Body]_vars
    <2> SUFFICES ASSUME IInv, Next, NEW r \in Requests, NEW t \in Tokens,
                        Saves(r, t), req[r].pc = "save"
                 PROVE  /\ req[r].met
                        /\ \/ Used(token[req[r].token])
                           \/ /\ token[req[r].token].type = "RefreshToken"
                              /\ token'[t].type = "AccessToken"
      BY DEF Used
    <2>1. ExchangeSound(r)
      BY DEF IInv, RequestsSound, Sound
    <2>2. token'[t].type \in req[r].rest
      BY OneSaves
    <2>3. QED
      BY <2>1, <2>2 DEF ExchangeSound
  <1>2. QED
    BY <1>1, AlwaysSound, PTL DEF Spec, NothingForRemovedUsers

-----------------------------------------------------------------------------
(* The adapter's rows implement GrantLife.                                 *)

\* The grant a request works under: the one it exchanges or issues a code for.
Under(q) == IF q.pc \in Exchanging \cup {"issue"} THEN q.grant ELSE None

\* What the refinement mapping gives for GrantLife's variables.
Phases == [g \in Grants |-> Phase(grant[g])]
Using == [r \in Requests |-> Under(req[r])]
Yielded == [g \in Grants |-> {t \in Tokens : token[t].grant = g}]

\* GrantLife's next-state relation, at these values.
LEMMA LifeNext ==
  Life!Next <=>
    \/ \E g \in Grants :
         /\ Phases[g] = "unborn"
         /\ Phases' = [Phases EXCEPT ![g] = "live"]
         /\ Using' = Using /\ Yielded' = Yielded
    \/ \E ended \in SUBSET Grants :
         /\ \A g \in ended : Phases[g] = "live"
         /\ Phases' = [g \in Grants |-> IF g \in ended THEN "dead" ELSE Phases[g]]
         /\ Using' = Using /\ Yielded' = Yielded
    \/ \E r \in Requests, g \in Grants :
         /\ Using[r] = None
         /\ Phases[g] = "live"
         /\ Using' = [Using EXCEPT ![r] = g]
         /\ Phases' = Phases /\ Yielded' = Yielded
    \/ \E r \in Requests, t \in Tokens :
         /\ Using[r] # None
         /\ \A g \in Grants : t \notin Yielded[g]
         /\ Yielded' = [Yielded EXCEPT ![Using[r]] = @ \cup {t}]
         /\ Using' \in {Using, [Using EXCEPT ![r] = None]}
         /\ Phases' = Phases
    \/ \E some \in SUBSET Requests :
         /\ Using' = [r \in Requests |-> IF r \in some THEN None ELSE Using[r]]
         /\ Phases' = Phases /\ Yielded' = Yielded
  BY DEF Life!Next, Life!Give, Life!End, Life!Begin, Life!Yield, Life!Abandon,
         Phases, Using, Yielded, Under

\* Grants that wane, requests that work under what they did, and tokens under
\* the grants they were: a set of grants ends, perhaps none.
LEMMA Ends ==
  ASSUME TypeOK, GrantsWane, \A t \in Tokens : token'[t].grant = token[t].grant,
         \A r \in Requests : Under(req'[r]) = Under(req[r])
  PROVE  Life!Next
  <1> DEFINE ended == {g \in Grants : Phase(grant[g]) = "live" /\ Phase(grant'[g]) # "live"}
  <1>1. ended \in SUBSET Grants /\ \A g \in ended : Phases[g] = "live"
    BY DEF Phases
  <1>2. \A g \in Grants : Phase(grant'[g]) = IF g \in ended THEN "dead" ELSE Phase(grant[g])
    BY DEF GrantsWane, Phase, Present
  <1>3. Phases' = [g \in Grants |-> IF g \in ended THEN "dead" ELSE Phases[g]]
    BY <1>2 DEF Phases
  <1>4. Using' = Using /\ Yielded' = Yielded
    BY DEF Using, Yielded
  <1> HIDE DEF ended
  <1>5. QED
    BY <1>1, <1>3, <1>4, LifeNext

\* Requests that stop working under a grant, and nothing else.
LEMMA Abandons ==
  ASSUME TypeOK, grant' = grant, \A t \in Tokens : token'[t].grant = token[t].grant,
         \A r \in Requests : Under(req'[r]) \in {Under(req[r]), None}
  PROVE  Life!Next
  <1> DEFINE some == {r \in Requests : Under(req'[r]) = None}
  <1>1. some \in SUBSET Requests
    OBVIOUS
  <1>2. Using' = [r \in Requests |-> IF r \in some THEN None ELSE Using[r]]
    BY DEF Using
  <1>3. Phases' = Phases /\ Yielded' = Yielded
    BY DEF Phases, Yielded
  <1> HIDE DEF some
  <1>4. QED
    BY <1>1, <1>2, <1>3, LifeNext

\* A request that goes to work under a grant that is found.
LEMMA Begins ==
  ASSUME TypeOK, UNCHANGED rows, NEW r \in Requests, NEW g \in Grants, FindGrant(g),
         Under(req[r]) = None, Under(req'[r]) = g,
         \A q \in Requests \ {r} : req'[q] = req[q]
  PROVE  Life!Next
  <1>1. Using[r] = None /\ Phases[g] = "live"
    BY DEF Using, Phases, Phase, FindGrant
  <1>2. Using' = [Using EXCEPT ![r] = g]
    BY DEF Using
  <1>3. Phases' = Phases /\ Yielded' = Yielded
    BY DEF rows, Phases, Yielded
  <1>4. QED
    BY <1>1, <1>2, <1>3, LifeNext

\* A saved code or token is yielded under its request's grant.
LEMMA Yields ==
  ASSUME IInv, NEW r \in Requests, NEW t \in Tokens, NEW ty \in TokenType, Save(r, t, ty),
         grant' = grant, req[r].grant \in Grants, req[r].pc \in {"issue", "save"},
         Under(req'[r]) \in {req[r].grant, None},
         \A q \in Requests \ {r} : req'[q] = req[q]
  PROVE  Life!Next
  <1>1. Under(req[r]) = req[r].grant
    BY DEF Under, Exchanging
  <1>2. Using[r] = req[r].grant /\ Using[r] # None
    BY <1>1, OidcAssumption DEF Using
  <1>3. /\ token[t].grant = None /\ token'[t].grant = req[r].grant
        /\ \A u \in Tokens \ {t} : token'[u] = token[u]
    BY SaveEffect DEF IInv, RowsSound
  <1>4. \A g \in Grants : t \notin Yielded[g]
    BY <1>3, OidcAssumption DEF Yielded
  <1>5. Yielded' = [Yielded EXCEPT ![Using[r]] = @ \cup {t}]
    <2>1. ASSUME NEW g \in Grants
          PROVE  {u \in Tokens : token'[u].grant = g} =
                   IF g = req[r].grant THEN {u \in Tokens : token[u].grant = g} \cup {t}
                                       ELSE {u \in Tokens : token[u].grant = g}
      BY <1>3, OidcAssumption
    <2>2. Yielded' = [g \in Grants |-> IF g = req[r].grant THEN Yielded[g] \cup {t}
                                                           ELSE Yielded[g]]
      <3>1. Yielded' = [g \in Grants |-> {u \in Tokens : token'[u].grant = g}]
        BY DEF Yielded
      <3>2. \A g \in Grants : Yielded[g] = {u \in Tokens : token[u].grant = g}
        BY DEF Yielded
      <3>3. QED
        BY <2>1, <3>1, <3>2
    <2>3. Yielded = [g \in Grants |-> Yielded[g]]
      BY DEF Yielded
    <2> HIDE DEF Yielded
    <2>4. QED
      BY <1>2, <2>2, <2>3
  <1>6. Using' \in {Using, [Using EXCEPT ![r] = None]}
    <2>1. CASE Under(req'[r]) = None
      <3>1. Using' = [Using EXCEPT ![r] = None]
        BY <2>1 DEF Using
      <3>2. QED
        BY <3>1
    <2>2. CASE Under(req'[r]) = Under(req[r])
      <3>1. Using' = Using
        BY <2>2 DEF Using
      <3>2. QED
        BY <3>1
    <2>3. QED
      BY <1>1, <2>1, <2>2
  <1>7. Phases' = Phases
    BY DEF Phases
  <1>8. QED
    BY <1>2, <1>4, <1>5, <1>6, <1>7, LifeNext

\* A slot that is free works under nothing.
LEMMA IdleUnder == Under(Idle) = None
  BY IdleType DEF Under, Exchanging

\* Rows that wane keep their grant.
LEMMA WanesGrant ==
  ASSUME NEW t \in Tokens, Wanes(t)
  PROVE  token'[t].grant = token[t].grant
  BY DEF Wanes, Evolves

\* GET authorize, auto-confirm and its refusal come before any grant is used.
LEMMA StartMaps ==
  ASSUME IInv, NEW r \in Requests,
         (\E u \in Users : Authorize(r, u)) \/ AutoConfirm(r) \/ Deny(r)
  PROVE  Life!Next
  <1>1. TypeOK /\ req[r] \in Request
    BY DEF IInv, TypeOK
  <1>2. UNCHANGED rows /\ Under(req[r]) = None
    <2>1. UNCHANGED rows
      BY Zenon DEF Authorize, AutoConfirm, Deny
    <2>2. req[r].pc \in {"idle", "interaction"}
      BY DEF Authorize, AutoConfirm, Deny, Waits
    <2>3. QED
      BY <2>1, <2>2 DEF Under, Exchanging
  <1>3. PICK q : Enter(r, q) /\ Under(q) = None
    <2>1. ASSUME NEW u \in Users, Authorize(r, u)
          PROVE  \E q : Enter(r, q) /\ Under(q) = None
      <3>1. \A pc \in {"interaction", "resume"}, g \in Grants \cup {None} :
              Under([Idle EXCEPT !.pc = pc, !.account = u, !.grant = g, !.met = u \in assigned])
                = None
        BY DEF Idle, Under, Exchanging
      <3>2. \E pc \in {"interaction", "resume"}, g \in Grants \cup {None} :
              Enter(r, [Idle EXCEPT !.pc = pc, !.account = u, !.grant = g, !.met = u \in assigned])
        BY <2>1 DEF Authorize
      <3>3. QED
        BY <3>1, <3>2
    <2>2. CASE AutoConfirm(r)
      <3> DEFINE q == [req[r] EXCEPT !.pc = "confirm", !.met = req[r].account \in assigned]
      <3>1. Enter(r, q)
        BY <2>2 DEF AutoConfirm
      <3>2. q.pc = "confirm"
        BY <1>1 DEF Request
      <3>3. Under(q) = None
        BY <3>2 DEF Under, Exchanging
      <3>4. QED
        BY <3>1, <3>3
    <2>3. CASE Deny(r)
      BY <2>3, IdleUnder DEF Deny, Finish
    <2>4. QED
      BY <2>1, <2>2, <2>3
  <1>4. req'[r] = q /\ \A p \in Requests \ {r} : req'[p] = req[p]
    BY <1>1, <1>3 DEF Enter, TypeOK
  <1>5. \A p \in Requests : Under(req'[p]) = Under(req[p])
    BY <1>2, <1>3, <1>4
  <1>6. GrantsWane /\ \A t \in Tokens : token'[t].grant = token[t].grant
    BY <1>2 DEF rows, GrantsWane
  <1>7. QED
    BY <1>1, <1>5, <1>6, Ends

\* A new Grant row gives the grant.
LEMMA SaveGrantMaps ==
  ASSUME IInv, NEW r \in Requests, NEW g \in Grants, SaveGrant(r, g)
  PROVE  Life!Next
  <1>1. Phases[g] = "unborn" /\ Phases' = [Phases EXCEPT ![g] = "live"]
    BY GivesAlone, ZenonT(30) DEF Phases, Phase
  <1>2. Yielded' = Yielded
    BY GivesAlone DEF Yielded
  <1>3. \A q \in Requests : Under(req'[q]) = Under(req[q])
    BY GivesAlone DEF Under, Exchanging
  <1>4. Using' = Using
    BY <1>3 DEF Using
  <1>5. QED
    BY <1>1, <1>2, <1>4, LifeNext

\* The browser's way comes to work under its grant where the grant is found.
LEMMA ResumeMaps ==
  ASSUME IInv, NEW r \in Requests, Resume(r)
  PROVE  Life!Next
  <1>1. /\ TypeOK /\ UNCHANGED rows
        /\ req[r].pc = "resume" /\ req[r].grant \in Grants /\ Under(req[r]) = None
    BY DEF IInv, RequestsSound, Sound, GrantSound, Resume, Waits, Under, Exchanging
  <1>2. CASE Goto(r, "issue") /\ FindGrant(req[r].grant)
    <2>1. "issue" \in PC
      BY DEF PC, Flow
    <2>2. /\ req'[r].pc = "issue" /\ req'[r].grant = req[r].grant
          /\ \A p \in Requests \ {r} : req'[p] = req[p]
      BY <1>1, <1>2, <2>1, GotoEffect
    <2>3. Under(req'[r]) = req[r].grant
      BY <2>2 DEF Under
    <2>4. QED
      BY <1>1, <1>2, <2>2, <2>3, Begins
  <1>3. CASE Finish(r)
    <2>1. \A q \in Requests : Under(req'[q]) \in {Under(req[q]), None}
      BY <1>1, <1>3, FinishEffect, IdleUnder
    <2>2. QED
      BY <1>1, <2>1, Abandons DEF rows
  <1>4. QED
    BY <1>2, <1>3 DEF Resume

\* A code, and a token of an exchange, is yielded.
LEMMA SaveMaps ==
  ASSUME IInv, NEW r \in Requests, NEW t \in Tokens,
         SaveCode(r, t) \/ \E ty \in TokenType : SaveToken(r, t, ty)
  PROVE  Life!Next
  <1>1. CASE SaveCode(r, t)
    <2>1. "AuthorizationCode" \in TokenType
      BY DEF TokenType
    <2>2. /\ req[r].pc = "issue" /\ req[r].grant \in Grants
          /\ Save(r, t, "AuthorizationCode") /\ grant' = grant
          /\ Under(req'[r]) = None /\ \A q \in Requests \ {r} : req'[q] = req[q]
      BY <1>1, SavesAlone, IdleUnder
    <2>3. QED
      BY <2>1, <2>2, Yields
  <1>2. ASSUME NEW ty \in TokenType, SaveToken(r, t, ty)
        PROVE  Life!Next
    <2>1. /\ req[r].pc = "save" /\ req[r].grant \in Grants
          /\ Save(r, t, ty) /\ grant' = grant
          /\ req'[r] = Idle \/ (req'[r].pc = "save" /\ req'[r].grant = req[r].grant)
          /\ \A q \in Requests \ {r} : req'[q] = req[q]
      BY <1>2, SavesAlone
    <2>2. Under(req'[r]) \in {req[r].grant, None}
      BY <2>1, IdleUnder DEF Under, Exchanging
    <2>3. QED
      BY <2>1, <2>2, Yields
  <1>3. QED
    BY <1>1, <1>2

\* An exchange begins under the grant of what was presented.
LEMMA ExchangeMaps ==
  ASSUME IInv, NEW r \in Requests, NEW t \in Tokens, Exchange(r, t)
  PROVE  Life!Next
  <1> DEFINE g == token[t].grant
             account == grant[g].account
             pc == IF token[t].type = "RefreshToken" THEN "refresh" ELSE "redeem"
             q == [Idle EXCEPT !.pc = pc, !.account = account, !.grant = g, !.token = t,
                               !.met = account \in user]
  <1>1. /\ TypeOK /\ UNCHANGED rows /\ req[r].pc = "idle" /\ g \in Grants /\ FindGrant(g)
    BY FoundToken DEF IInv, Exchange, Waits
  <1>2. Enter(r, q)
    BY DEF Exchange
  <1>3. q.pc \in Exchanging /\ q.grant = g
    BY DEF Idle, Exchanging
  <1> HIDE DEF q
  <1>4. req'[r] = q /\ \A p \in Requests \ {r} : req'[p] = req[p]
    BY <1>1, <1>2 DEF Enter, TypeOK
  <1>5. Under(req[r]) = None /\ Under(req'[r]) = g
    BY <1>1, <1>3, <1>4 DEF Under, Exchanging
  <1>6. QED
    BY <1>1, <1>4, <1>5, Begins

\* Until it saves, an exchange goes on under its grant or stops.
LEMMA ExchangingMaps ==
  ASSUME IInv, NEW r \in Requests, Consume(r) \/ FindAccount(r)
  PROVE  Life!Next
  <1>1. TypeOK /\ req[r] \in Request /\ req[r].pc \in Exchanging /\ grant' = grant
    <2>1. grant' = grant
      BY Zenon DEF Consume, FindAccount, rows
    <2>2. QED
      BY <2>1 DEF IInv, TypeOK, Consume, FindAccount, Waits, Exchanging
  <1>2. \A t \in Tokens : token'[t].grant = token[t].grant
    <2>1. CASE Consume(r)
      BY <2>1, ConsumeEffect
    <2>2. CASE FindAccount(r)
      <3>1. token' = token
        BY <2>2, Zenon DEF FindAccount, rows
      <3>2. QED
        BY <3>1
    <2>3. QED
      BY <2>1, <2>2
  <1>3. /\ \A p \in Requests \ {r} : req'[p] = req[p]
        /\ Under(req'[r]) \in {req[r].grant, None}
    <2>1. CASE Finish(r)
      BY <1>1, <2>1, FinishEffect, IdleUnder
    <2>2. CASE Consume(r) /\ ~Finish(r)
      <3> DEFINE pc == IF req[r].pc = "redeem" THEN "account" ELSE "save"
      <3>1. Goto(r, pc)
        BY <2>2, ConsumeEffect
      <3>2. pc \in PC /\ pc \in Exchanging
        BY DEF PC, Exchanging
      <3> HIDE DEF pc
      <3>3. req'[r].pc = pc /\ req'[r].grant = req[r].grant
              /\ \A p \in Requests \ {r} : req'[p] = req[p]
        BY <1>1, <3>1, <3>2, GotoEffect
      <3>4. QED
        BY <3>2, <3>3 DEF Under
    <2>3. CASE FindAccount(r) /\ ~Finish(r)
      <3>1. PICK rest \in {{"AccessToken"}, {"AccessToken", "RefreshToken"}} :
              Enter(r, [req[r] EXCEPT !.rest = rest,
                !.pc = IF @ = "refresh" /\ "RefreshToken" \in rest THEN "rotate" ELSE "save"])
        BY <2>3 DEF FindAccount
      <3> DEFINE q == [req[r] EXCEPT !.rest = rest,
                !.pc = IF @ = "refresh" /\ "RefreshToken" \in rest THEN "rotate" ELSE "save"]
      <3>2. q.pc \in Exchanging /\ q.grant = req[r].grant
        BY <1>1 DEF Request, Exchanging
      <3>3. Enter(r, q)
        BY <3>1
      <3> HIDE DEF q
      <3>4. req'[r] = q /\ \A p \in Requests \ {r} : req'[p] = req[p]
        BY <1>1, <3>3 DEF Enter, TypeOK
      <3>5. QED
        BY <3>2, <3>4 DEF Under
    <2>4. QED
      BY <2>1, <2>2, <2>3
  <1>4. Under(req[r]) = req[r].grant
    BY <1>1 DEF Under
  <1>5. \A p \in Requests : Under(req'[p]) \in {Under(req[p]), None}
    BY <1>3, <1>4
  <1>6. QED
    BY <1>1, <1>2, <1>5, Abandons

\* Revocation and removal end grants; the request works under none.
LEMMA RevocationMaps ==
  ASSUME IInv, NEW r \in Requests, Revocation(r) \/ Removal(r)
  PROVE  Life!Next
  <1>1. TypeOK /\ req[r].pc \in {"idle", "destroy", "revoke", "remove"}
    BY DEF IInv, Revocation, Removal, RevokeToken, Destroy, EndSession, RevokeByGrantId,
           RemoveTokens, RemoveApplication, Waits
  <1>2. Under(req[r]) = None
    BY <1>1 DEF Under, Exchanging
  <1>3. ASSUME NEW q, Enter(r, q), q.pc \notin Exchanging \cup {"issue"}
        PROVE  \A p \in Requests : Under(req'[p]) = Under(req[p])
    <2>1. req'[r] = q /\ \A p \in Requests \ {r} : req'[p] = req[p]
      BY <1>1, <1>3 DEF Enter, TypeOK
    <2>2. QED
      BY <1>2, <1>3, <2>1 DEF Under
  <1>4. \A p \in Requests : Under(req'[p]) = Under(req[p])
    <2>1. ASSUME NEW t \in Tokens, RevokeToken(r, t)
          PROVE  \A p \in Requests : Under(req'[p]) = Under(req[p])
      <3> DEFINE q == [Idle EXCEPT !.pc = "destroy", !.token = t, !.grant = token[t].grant]
      <3>1. Enter(r, q)
        BY <2>1 DEF RevokeToken
      <3>2. q.pc \notin Exchanging \cup {"issue"}
        BY DEF Idle, Exchanging
      <3> HIDE DEF q
      <3>3. QED
        BY <1>3, <3>1, <3>2
    <2>2. ASSUME NEW g \in Grants, Enter(r, Revoke(g))
          PROVE  \A p \in Requests : Under(req'[p]) = Under(req[p])
      <3>1. Revoke(g).pc \notin Exchanging \cup {"issue"}
        BY RevokeType DEF Exchanging
      <3>2. QED
        BY <1>3, <2>2, <3>1
    <2>3. ASSUME Finish(r)
          PROVE  \A p \in Requests : Under(req'[p]) = Under(req[p])
      <3>1. Idle.pc \notin Exchanging \cup {"issue"}
        BY IdleType DEF Exchanging
      <3>2. QED
        BY <1>3, <2>3, <3>1 DEF Finish
    <2>4. CASE Destroy(r)
      <3>1. req[r].grant \in Grants
        BY <2>4 DEF IInv, RequestsSound, Sound, GrantSound, Destroy, Waits
      <3>2. Finish(r) \/ Enter(r, Revoke(req[r].grant))
        BY <2>4 DEF Destroy
      <3>3. QED
        BY <2>2, <2>3, <3>1, <3>2
    <2>5. CASE \E g \in Grants : EndSession(r, g)
      BY <2>2, <2>5 DEF EndSession
    <2>6. ASSUME NEW ty \in TokenType \cup {"Grant"}, RevokeByGrantId(r, ty)
          PROVE  \A p \in Requests : Under(req'[p]) = Under(req[p])
      <3>1. req[r].pc = "revoke" /\ Tick(r, ty)
        BY <2>6 DEF RevokeByGrantId, Waits
      <3>2. /\ \A p \in Requests \ {r} : req'[p] = req[p]
            /\ req'[r] = Idle \/ req'[r].pc = "revoke"
        BY <1>1, <3>1, TickEffect
      <3>3. Under(req'[r]) = None
        BY <3>2, IdleUnder DEF Under, Exchanging
      <3>4. QED
        BY <1>2, <3>2, <3>3
    <2>7. CASE RemoveTokens(r)
      <3> DEFINE q == [Idle EXCEPT !.pc = "remove"]
      <3>1. Enter(r, q)
        BY <2>7 DEF RemoveTokens
      <3>2. q.pc \notin Exchanging \cup {"issue"}
        BY DEF Idle, Exchanging
      <3> HIDE DEF q
      <3>3. QED
        BY <1>3, <3>1, <3>2
    <2>8. CASE RemoveApplication(r)
      BY <2>3, <2>8 DEF RemoveApplication
    <2>9. QED
      BY <2>1, <2>4, <2>5, <2>6, <2>7, <2>8 DEF Revocation, Removal
  <1>5. QED
    BY <1>1, <1>4, RevocationWanes, WanesGrant, Ends

\* Expiry ends grants, the death of the process ends all that was under way,
\* and assignments and users are not what a grant is about.
LEMMA EnvironmentMaps ==
  ASSUME IInv, Environment
  PROVE  Life!Next
  <1>1. TypeOK
    BY DEF IInv
  <1>2. CASE Restart
    <2>1. \A r \in Requests : Under(req'[r]) = None
      BY <1>2, IdleUnder DEF Restart
    <2>2. QED
      BY <1>1, <1>2, <2>1, EnvironmentWanes, WanesGrant, Abandons DEF Restart
  <1>3. CASE ~Restart
    <2>1. \A r \in Requests : Under(req'[r]) = Under(req[r])
      <3>1. ASSUME NEW u \in Users, Assign(u), NEW r \in Requests
            PROVE  Under(req'[r]) = Under(req[r])
        <4>1. req[r] \in Request
          BY <1>1 DEF TypeOK
        <4>2. req'[r] = [req[r] EXCEPT !.met = @ \/ (req[r].pc \in Flow /\ req[r].account = u)]
          BY <3>1 DEF Assign
        <4>3. req'[r].pc = req[r].pc /\ req'[r].grant = req[r].grant
          BY <4>1, <4>2 DEF Request
        <4>4. QED
          BY <4>3 DEF Under
      <3>2. CASE req' = req
        BY <3>2
      <3>3. QED
        BY <1>3, <3>1, <3>2
           DEF Environment, Unassign, RemoveUser, ExpireGrant, ExpireToken
    <2>2. QED
      BY <1>1, <2>1, EnvironmentWanes, WanesGrant, Ends
  <1>4. QED
    BY <1>2, <1>3

\* The adapter's rows and oidc-provider's requests implement GrantLife, for any
\* number of them: a grant is given once and ends once, whatever upserts,
\* revocations, removals and expiries race, and nothing is yielded under it but
\* to a request that began while it was live.
THEOREM GrantLifeImplemented == Spec => ImplementsGrantLife
  <1>1. Init => Life!Init
    <2> SUFFICES ASSUME Init
                 PROVE  Life!Init
      OBVIOUS
    <2>1. Phases = [g \in Grants |-> "unborn"]
      BY DEF Init, Phases, Phase
    <2>2. Using = [r \in Requests |-> None]
      BY IdleUnder DEF Init, Using
    <2>3. Yielded = [g \in Grants |-> {}]
      BY OidcAssumption DEF Init, Yielded
    <2>4. QED
      BY <2>1, <2>2, <2>3 DEF Life!Init, Phases, Using, Yielded, Under
  <1>2. IInv /\ [Next]_vars => [Life!Next]_(Life!vars)
    <2>1. ASSUME IInv, Next
          PROVE  Life!Next
      <3>1. ASSUME NEW r \in Requests, Browser(r)
            PROVE  Life!Next
        BY <2>1, <3>1, StartMaps, SaveGrantMaps, ResumeMaps, SaveMaps DEF Browser
      <3>2. ASSUME NEW r \in Requests, Client(r)
            PROVE  Life!Next
        BY <2>1, <3>2, ExchangeMaps, ExchangingMaps, SaveMaps DEF Client
      <3>3. QED
        BY <2>1, <3>1, <3>2, RevocationMaps, EnvironmentMaps DEF Next
    <2>2. UNCHANGED vars => UNCHANGED Life!vars
      BY DEF vars, rows, Life!vars
    <2>3. QED
      BY <2>1, <2>2
  <1>3. QED
    BY <1>1, <1>2, AlwaysSound, PTL DEF Spec, ImplementsGrantLife, Life!Spec

=============================================================================
