------------------------------ MODULE OidcTokens ------------------------------
(***************************************************************************)
(* The rows oidc-provider keeps for one application through the adapter of *)
(* oidc-idp.service.ts (grants, authorization codes, access and refresh    *)
(* tokens, without a foreign key to anything), and the requests that work  *)
(* on them: the browser's way from GET authorize over auto-confirm to a    *)
(* code, the exchange of codes and refresh tokens, revocation, the removal *)
(* of the application, and what happens to users and assignments meanwhile.*)
(*                                                                         *)
(* What oidc-provider does between two calls of the adapter is external:   *)
(* it is modelled from the calls the adapter serves.                       *)
(***************************************************************************)
EXTENDS FiniteSets

CONSTANTS
  Users,
  Grants,     \* ids of Grant rows; ids are random, so none is drawn twice
  Tokens,     \* ids of the other rows
  Requests,   \* slots for requests in progress
  None

ASSUME OidcAssumption == None \notin Users \cup Grants \cup Tokens \cup Requests

VARIABLES
  user,         \* the users that exist
  assigned,     \* the users isUserAuthorizedForApp answers true for
  application,  \* is the application's row there?
  provider,     \* does getProviderInstance find an instance, or build one?
  grant,        \* the Grant rows
  token,        \* the rows of the other types
  req           \* the requests in progress

context == <<user, assigned, application, provider>>
rows == <<grant, token>>
vars == <<context, rows, req>>

TokenType == {"AuthorizationCode", "AccessToken", "RefreshToken"}

\* A row is found while "stored"; past expiresAt it is there but not found.
\* left is history: the token was saved under a grant that was gone or going,
\* or was not yet reached by a revocation when the process died.
RowState == {"unsaved", "stored", "expired", "gone"}

GrantRow == [account : Users \cup {None}, state : RowState]
TokenRow == [type : TokenType \cup {None}, grant : Grants \cup {None},
             state : RowState, consumed : BOOLEAN, left : BOOLEAN]

Flow == {"interaction", "confirm", "resume", "issue"}
Exchanging == {"redeem", "account", "refresh", "rotate", "save"}
PC == {"idle", "destroy", "revoke", "remove"} \cup Flow \cup Exchanging

\* rest: the types still to be saved or revoked.  met is history: at some
\* moment since its last check of this the request's account was assigned (on
\* the way to a code) or existed (in an exchange).
Request == [pc : PC, account : Users \cup {None}, grant : Grants \cup {None},
            token : Tokens \cup {None}, rest : SUBSET (TokenType \cup {"Grant"}),
            met : BOOLEAN]

Idle == [pc |-> "idle", account |-> None, grant |-> None, token |-> None, rest |-> {},
         met |-> FALSE]

TypeOK ==
  /\ user \in SUBSET Users
  /\ assigned \in SUBSET user
  /\ application \in BOOLEAN
  /\ provider \in BOOLEAN
  /\ grant \in [Grants -> GrantRow]
  /\ token \in [Tokens -> TokenRow]
  /\ req \in [Requests -> Request]

Init ==
  /\ user = Users
  /\ assigned \in SUBSET Users
  /\ application = TRUE
  /\ provider = TRUE
  /\ grant = [g \in Grants |-> [account |-> None, state |-> "unsaved"]]
  /\ token = [t \in Tokens |-> [type |-> None, grant |-> None, state |-> "unsaved",
                                consumed |-> FALSE, left |-> FALSE]]
  /\ req = [r \in Requests |-> Idle]

------------------------------------------------------------------------------
(* What handlers ask *)

\* A mutant: expiresAt is not asked.
FindGrantAnyAge(g) == grant[g].state \in {"stored", "expired"}

\* find(id): there, and not past expiresAt.  The column consumed is not asked, so
\* the mark POST /oauth/revoke sets on the row a JWT names changes nothing here
\* and is left out.
FindGrant(g) == grant[g].state = "stored"
FindToken(t) == token[t].state = "stored"

IsUserAuthorizedForApp(u) == u \in assigned

Present(row) == row.state \in {"stored", "expired"}

Revoking == {r \in Requests : req[r].pc = "revoke"}

Waits(r, pc) == req[r].pc = pc

Enter(r, request) == req' = [req EXCEPT ![r] = request]
Goto(r, pc) == Enter(r, [req[r] EXCEPT !.pc = pc])
Finish(r) == Enter(r, Idle)

------------------------------------------------------------------------------
(* The browser's way to a code *)

\* GET authorize, for a signed-in user.  oidc-provider starts an interaction,
\* or goes on under a grant its session remembers.
Authorize(r, u) ==
  /\ Waits(r, "idle")
  /\ u \in user
  /\ IsUserAuthorizedForApp(u)
  /\ provider
  /\ LET begin(pc, g) == [Idle EXCEPT !.pc = pc, !.account = u, !.grant = g,
                                      !.met = u \in assigned]
     IN  \/ Enter(r, begin("interaction", None))
         \/ \E g \in Grants : /\ FindGrant(g)
                             /\ grant[g].account = u
                             /\ Enter(r, begin("resume", g))
  /\ UNCHANGED <<context, rows>>

\* A mutant: the assignment is not asked again.
AutoConfirmUnasked(r) ==
  /\ Waits(r, "interaction")
  /\ application
  /\ Enter(r, [req[r] EXCEPT !.pc = "confirm", !.met = req[r].account \in assigned])
  /\ UNCHANGED <<context, rows>>

\* GET auto-confirm, or POST interaction/:uid/confirm with consent: the user
\* and his assignment are asked again, then handleInteraction's application.
AutoConfirm(r) ==
  /\ Waits(r, "interaction")
  /\ IsUserAuthorizedForApp(req[r].account)
  /\ application
  /\ Enter(r, [req[r] EXCEPT !.pc = "confirm", !.met = req[r].account \in assigned])
  /\ UNCHANGED <<context, rows>>

\* The same endpoints without the assignment, the consent or the application.
Deny(r) ==
  /\ Waits(r, "interaction")
  /\ Finish(r)
  /\ UNCHANGED <<context, rows>>

\* grant.save(): upsert of a Grant row under a new id.
SaveGrant(r, g) ==
  /\ Waits(r, "confirm")
  /\ grant[g].state = "unsaved"
  /\ grant' = [grant EXCEPT ![g] = [account |-> req[r].account, state |-> "stored"]]
  /\ Enter(r, [req[r] EXCEPT !.pc = "resume", !.grant = g])
  /\ UNCHANGED <<context, token>>

\* GET authorize/:uid: the wildcard route, which asks nothing itself, and
\* oidc-provider, which loads the account and the grant.
Resume(r) ==
  /\ Waits(r, "resume")
  /\ IF provider /\ req[r].account \in user /\ FindGrant(req[r].grant)
       THEN Goto(r, "issue")
       ELSE Finish(r)
  /\ UNCHANGED <<context, rows>>

------------------------------------------------------------------------------
(* upsert, and the exchange at the token endpoint *)

NewToken(ty, g, late) ==
  [type |-> ty, grant |-> g, state |-> "stored", consumed |-> FALSE, left |-> late]

\* upsert of a row under a new id.
Save(r, t, ty) ==
  LET g == req[r].grant
  IN  /\ token[t].state = "unsaved"
      /\ token' = [token EXCEPT ![t] =
           NewToken(ty, g, ~FindGrant(g) \/ \E q \in Revoking : req[q].grant = g)]

SaveCode(r, t) ==
  /\ Waits(r, "issue")
  /\ Save(r, t, "AuthorizationCode")
  /\ Finish(r)
  /\ UNCHANGED <<context, grant>>

\* A code or refresh token is presented: its row and its grant's are found.
\* No row's payload says consumed, so none is refused for that.
Exchange(r, t) ==
  /\ Waits(r, "idle")
  /\ provider
  /\ FindToken(t)
  /\ token[t].type \in {"AuthorizationCode", "RefreshToken"}
  /\ FindGrant(token[t].grant)
  /\ LET account == grant[token[t].grant].account
     IN  Enter(r, [Idle EXCEPT
           !.pc = IF token[t].type = "RefreshToken" THEN "refresh" ELSE "redeem",
           !.account = account, !.grant = token[t].grant, !.token = t,
           !.met = account \in user])
  /\ UNCHANGED <<context, rows>>

\* consume(id): an update, which throws when the row was deleted.
Consume(r) ==
  /\ \/ Waits(r, "redeem")
     \/ Waits(r, "rotate")
  /\ IF Present(token[req[r].token])
       THEN /\ token' = [token EXCEPT ![req[r].token].consumed = TRUE]
            /\ Goto(r, IF req[r].pc = "redeem" THEN "account" ELSE "save")
       ELSE UNCHANGED token /\ Finish(r)
  /\ UNCHANGED <<context, grant>>

\* A mutant: the account is the one the token names, there or not.
FindAccountUnasked(r) ==
  /\ \/ Waits(r, "account")
     \/ Waits(r, "refresh")
  /\ \E rest \in {{"AccessToken"}, {"AccessToken", "RefreshToken"}} :
       Enter(r, [req[r] EXCEPT !.rest = rest,
         !.pc = IF @ = "refresh" /\ "RefreshToken" \in rest THEN "rotate" ELSE "save"])
  /\ UNCHANGED <<context, rows>>

\* findAccount, and what is going to be saved: an access token, and a refresh
\* token for a code with offline_access or where rotateRefreshToken says so.
FindAccount(r) ==
  /\ \/ Waits(r, "account")
     \/ Waits(r, "refresh")
  /\ \/ req[r].account \notin user /\ Finish(r)
     \/ /\ req[r].account \in user
        /\ \E rest \in {{"AccessToken"}, {"AccessToken", "RefreshToken"}} :
             Enter(r, [req[r] EXCEPT !.rest = rest,
               !.pc = IF @ = "refresh" /\ "RefreshToken" \in rest THEN "rotate" ELSE "save"])
  /\ UNCHANGED <<context, rows>>

\* Finish when what is to be saved or revoked is.
Tick(r, ty) ==
  IF req[r].rest = {ty} THEN Finish(r) ELSE Enter(r, [req[r] EXCEPT !.rest = @ \ {ty}])

\* The order of the two upserts differs between oidc-provider's grant types.
SaveToken(r, t, ty) ==
  /\ Waits(r, "save")
  /\ ty \in req[r].rest
  /\ Save(r, t, ty)
  /\ Tick(r, ty)
  /\ UNCHANGED <<context, grant>>

------------------------------------------------------------------------------
(* destroy, revokeByGrantId and their callers *)

\* oidc-provider's revocation endpoint: the token found is destroyed first.
RevokeToken(r, t) ==
  /\ Waits(r, "idle")
  /\ provider
  /\ FindToken(t)
  /\ token[t].type # "AuthorizationCode"
  /\ Enter(r, [Idle EXCEPT !.pc = "destroy", !.token = t, !.grant = token[t].grant])
  /\ UNCHANGED <<context, rows>>

\* Of a deleted row its id stays drawn and, for the reader, its grant.
DeletedGrant(row) ==
  IF Present(row) THEN [account |-> None, state |-> "gone"] ELSE row

\* A mutant: only rows that are still found are deleted.
DeletedTokenFound(row) ==
  IF row.state = "stored"
    THEN [type |-> None, grant |-> row.grant, state |-> "gone", consumed |-> FALSE,
          left |-> FALSE]
    ELSE row

DeletedToken(row) ==
  IF Present(row)
    THEN [type |-> None, grant |-> row.grant, state |-> "gone", consumed |-> FALSE,
          left |-> FALSE]
    ELSE row

Revoke(g) == [Idle EXCEPT !.pc = "revoke", !.grant = g, !.rest = TokenType \cup {"Grant"}]

\* destroy(id): a delete, which throws when the row was deleted already.
Destroy(r) ==
  /\ Waits(r, "destroy")
  /\ LET t == req[r].token
     IN  IF Present(token[t])
           THEN /\ token' = [token EXCEPT ![t] = DeletedToken(@)]
                /\ Enter(r, Revoke(req[r].grant))
           ELSE UNCHANGED token /\ Finish(r)
  /\ UNCHANGED <<context, grant>>

\* end-session revokes the grant the browser's session remembers.
EndSession(r, g) ==
  /\ Waits(r, "idle")
  /\ provider
  /\ Present(grant[g])
  /\ Enter(r, Revoke(g))
  /\ UNCHANGED <<context, rows>>

\* The deletions of a revocation are started together and run in any order;
\* one that throws (the Grant row is gone) does not stop the others.
RevokeByGrantId(r, ty) ==
  /\ Waits(r, "revoke")
  /\ ty \in req[r].rest
  /\ LET g == req[r].grant
     IN  IF ty = "Grant"
           THEN grant' = [grant EXCEPT ![g] = DeletedGrant(@)] /\ UNCHANGED token
           ELSE /\ token' = [t \in Tokens |-> IF token[t].type = ty /\ token[t].grant = g
                                             THEN DeletedToken(token[t]) ELSE token[t]]
                /\ UNCHANGED grant
  /\ Tick(r, ty)
  /\ UNCHANGED <<context>>

\* DELETE applications/:id: deleteMany of every row of the application ...
RemoveTokens(r) ==
  /\ Waits(r, "idle")
  /\ application
  /\ grant' = [g \in Grants |-> DeletedGrant(grant[g])]
  /\ token' = [t \in Tokens |-> DeletedToken(token[t])]
  /\ Enter(r, [Idle EXCEPT !.pc = "remove"])
  /\ UNCHANGED <<context>>

\* ... and then the application with its assignments.  An instance that was
\* built before stays in providerInstances.
RemoveApplication(r) ==
  /\ Waits(r, "remove")
  /\ application' = FALSE
  /\ assigned' = {}
  /\ provider' \in {provider, FALSE}
  /\ Finish(r)
  /\ UNCHANGED <<user, rows>>

------------------------------------------------------------------------------
(* The environment *)

\* An administrator assigns the user, directly or through a group.
Assign(u) ==
  /\ application
  /\ u \in user \ assigned
  /\ assigned' = assigned \cup {u}
  /\ req' = [r \in Requests |->
       [req[r] EXCEPT !.met = @ \/ (req[r].pc \in Flow /\ req[r].account = u)]]
  /\ UNCHANGED <<user, application, provider, rows>>

Unassign(u) ==
  /\ u \in assigned
  /\ assigned' = assigned \ {u}
  /\ UNCHANGED <<user, application, provider, rows, req>>

\* A mutant: without the cascade.
RemoveUserOnly(u) ==
  /\ u \in user
  /\ user' = user \ {u}
  /\ UNCHANGED <<assigned, application, provider, rows, req>>

\* The user's row goes, and by cascade his assignments; the tokens stay.
RemoveUser(u) ==
  /\ u \in user
  /\ user' = user \ {u}
  /\ assigned' = assigned \ {u}
  /\ UNCHANGED <<application, provider, rows, req>>

ExpireGrant(g) ==
  /\ FindGrant(g)
  /\ grant' = [grant EXCEPT ![g].state = "expired"]
  /\ UNCHANGED <<context, token, req>>

ExpireToken(t) ==
  /\ FindToken(t)
  /\ token' = [token EXCEPT ![t].state = "expired"]
  /\ UNCHANGED <<context, grant, req>>

\* The process dies: every request in progress is lost, and with the instance
\* the only way to serve an application that has been removed.
Restart ==
  /\ provider' = application
  /\ req' = [r \in Requests |-> Idle]
  /\ token' = [t \in Tokens |-> [token[t] EXCEPT !.left =
                 @ \/ (Present(token[t]) /\ \E r \in Revoking : req[r].grant = token[t].grant)]]
  /\ UNCHANGED <<user, assigned, application, grant>>

Browser(r) ==
  \/ \E u \in Users : Authorize(r, u)
  \/ AutoConfirm(r)
  \/ Deny(r)
  \/ \E g \in Grants : SaveGrant(r, g)
  \/ Resume(r)
  \/ \E t \in Tokens : SaveCode(r, t)

Client(r) ==
  \/ \E t \in Tokens : Exchange(r, t)
  \/ Consume(r)
  \/ FindAccount(r)
  \/ \E t \in Tokens, ty \in TokenType : SaveToken(r, t, ty)

Revocation(r) ==
  \/ \E t \in Tokens : RevokeToken(r, t)
  \/ Destroy(r)
  \/ \E g \in Grants : EndSession(r, g)
  \/ \E ty \in TokenType \cup {"Grant"} : RevokeByGrantId(r, ty)

Removal(r) == RemoveTokens(r) \/ RemoveApplication(r)

Environment ==
  \/ \E u \in Users : Assign(u) \/ Unassign(u) \/ RemoveUser(u)
  \/ \E g \in Grants : ExpireGrant(g)
  \/ \E t \in Tokens : ExpireToken(t)
  \/ Restart

Next ==
  \/ \E r \in Requests : Browser(r) \/ Client(r) \/ Revocation(r) \/ Removal(r)
  \/ Environment

Spec == Init /\ [][Next]_vars

------------------------------------------------------------------------------
(* Properties *)

Phase(row) == CASE row.state = "unsaved" -> "unborn"
                [] row.state = "stored" -> "live"
                [] OTHER -> "dead"

Life == INSTANCE GrantLife WITH
  phase <- [g \in Grants |-> Phase(grant[g])],
  using <- [r \in Requests |->
              IF req[r].pc \in Exchanging \cup {"issue"} THEN req[r].grant ELSE None],
  yielded <- [g \in Grants |-> {t \in Tokens : token[t].grant = g}]

\* The adapter's rows and oidc-provider's requests implement GrantLife: no
\* upsert brings a revoked, expired or removed grant back, and codes and tokens
\* are yielded only to requests that began while their grant was live.
ImplementsGrantLife == Life!Spec

Saves(r, t) == token[t].state = "unsaved" /\ token'[t].state # "unsaved" /\ req'[r] # req[r]

\* A grant, and a code under one, is only given to a user who was assigned to
\* the application at some moment since the browser's last checked request
\* (oidc-idp.controller authorize, autoConfirm): one unassigned before
\* auto-confirm gets nothing, however far the interaction had come.
GrantsOnlyForAssigned ==
  [][\A r \in Requests :
       /\ \A g \in Grants : grant[g].state # grant'[g].state /\ grant'[g].state = "stored"
                              /\ req'[r] # req[r] => req[r].met
       /\ \A t \in Tokens : Saves(r, t) /\ req[r].pc = "issue" => req[r].met]_vars

\* Tokens outlive users (no foreign key), so findAccount has to stop them: a
\* token is yielded to a request that began while the user existed, and a code
\* or rotated refresh token is marked consumed, or gone, before it yields.
NothingForRemovedUsers ==
  [][\A r \in Requests, t \in Tokens :
       Saves(r, t) /\ req[r].pc = "save" =>
         /\ req[r].met
         /\ LET used == token[req[r].token]
            IN  \/ used.consumed
                \/ ~Present(used)
                \/ used.type = "RefreshToken" /\ token'[t].type = "AccessToken"]_vars

\* What is left of a grant that is gone was saved by a request that a
\* revocation or removal overtook, is about to be deleted, or was left by a
\* revocation the process died in (revokeByGrantId is one statement per type).
LeftoversExplained ==
  \A t \in Tokens :
    Present(token[t]) /\ grant[token[t].grant].state = "gone" =>
      \/ token[t].left
      \/ \E r \in Requests : req[r].pc = "revoke" /\ req[r].grant = token[t].grant
                               /\ token[t].type \in req[r].rest
==============================================================================
