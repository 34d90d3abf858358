------------------------- MODULE AuthServiceProofs -------------------------
(* Theorems about AuthService for any users, links, sessions and requests. *)
EXTENDS AuthService, TLAPS

\* What a request meets is evidence of the known kinds.
LEMMA EvidenceType ==
  ASSUME NEW q, NEW row
  PROVE  EvidenceFor(q, row) \in SUBSET Evidence
  BY DEF EvidenceFor, Evidence

\* Whatever step Observe goes with, the history keeps its type.
LEMMA ObserveType ==
  ASSUME TypeOK, Observe
  PROVE  seen' \in [Request -> SUBSET Evidence]
  <1>1. ASSUME NEW r \in Request
        PROVE  (IF req'[r] = Idle THEN {}
                ELSE EvidenceFor(req'[r], user'[req'[r].userId])
                       \cup IF req[r] = Idle THEN {} ELSE seen[r])
                 \in SUBSET Evidence
    <2>1. EvidenceFor(req'[r], user'[req'[r].userId]) \in SUBSET Evidence
      BY EvidenceType
    <2>2. seen[r] \in SUBSET Evidence
      BY DEF TypeOK
    <2>3. QED
      BY <2>1, <2>2
  <1>2. QED
    BY <1>1 DEF Observe

\* Counting one more use of a challenge, or of something that is none.
LEMMA CountType ==
  ASSUME NEW count \in [Challenge -> Nat], NEW c
  PROVE  [count EXCEPT ![c] = @ + 1] \in [Challenge -> Nat]
  <1>1. CASE c \in Challenge
    <2>1. count[c] + 1 \in Nat
      BY <1>1
    <2>2. QED
      BY <2>1
  <1>2. CASE c \notin Challenge
    <2>1. [count EXCEPT ![c] = @ + 1] = count
      BY <1>2
    <2>2. QED
      BY <2>1
  <1>3. QED
    BY <1>1, <1>2

\* The value of a free slot is no state of a request.
LEMMA IdleIsNoRequest ==
  /\ Idle \notin RequestState
  /\ \A q \in RequestState : q # Idle
  BY DEF Idle, RequestState, PC

\* A handler that starts is a well-typed request, the others stay as they were.
LEMMA StartType ==
  ASSUME TypeOK, NEW r \in Request, NEW pc \in PC, NEW op \in Op, NEW u \in User,
         NEW args, args.challenge \in Challenge \cup {None},
         args.password \in Password \cup {None},
         args.current \in Password \cup {None},
         Start(r, pc, op, u, args)
  PROVE  req' \in [Request -> RequestState \cup {Idle}]
  BY DEF Start, TypeOK, RequestState, UserRow

\* A handler that goes on after an await is still a well-typed request.
LEMMA GotoType ==
  ASSUME TypeOK, NEW r \in Request, Active(r), NEW pc \in PC, Goto(r, pc)
  PROVE  req' \in [Request -> RequestState \cup {Idle}]
  BY DEF Goto, TypeOK, RequestState, Active

\* A handler that returns leaves a free slot.
LEMMA ReturnType ==
  ASSUME TypeOK, NEW r \in Request, Return(r)
  PROVE  req' \in [Request -> RequestState \cup {Idle}]
  BY DEF Return, TypeOK

\* A request in progress is well typed.
LEMMA ActiveType ==
  ASSUME TypeOK, NEW r \in Request, Active(r)
  PROVE  req[r] \in RequestState
  BY DEF Active, TypeOK

\* The calls: each starts one handler and changes nothing else.
LEMMA CallType ==
  ASSUME TypeOK, NEW r \in Request, Call(r)
  PROVE  TypeOK'
  <1> DEFINE Started == /\ req' \in [Request -> RequestState \cup {Idle}]
                        /\ UNCHANGED <<user, authChallenge, session, mfaToken, uses>>
                        /\ Observe
  <1> USE DEF Op, PC, Args, NoArgs
  <1>1. ASSUME NEW u \in User, NEW c \in Challenge, NEW op \in Op,
               RequestLink(r, u, c, op)
        PROVE  Started
    BY <1>1, StartType DEF RequestLink
  <1>2. ASSUME NEW c \in Challenge, VerifyMagicLink(r, c)
        PROVE  Started
    <2>1. authChallenge[c].userId \in User
      BY <1>2 DEF VerifyMagicLink, Redeemable, TypeOK
    <2>2. QED
      BY <1>2, <2>1, StartType DEF VerifyMagicLink
  <1>3. ASSUME NEW c \in Challenge, NEW p \in Password, ResetPassword(r, c, p)
        PROVE  Started
    <2>1. authChallenge[c].userId \in User
      BY <1>3 DEF ResetPassword, Redeemable, TypeOK
    <2>2. QED
      BY <1>3, <2>1, StartType DEF ResetPassword
  <1>4. ASSUME NEW u \in User, NEW p \in Password, LoginWithPassword(r, u, p)
        PROVE  Started
    BY <1>4, StartType DEF LoginWithPassword
  <1>5. ASSUME NEW u \in User, LdapLogin(r, u)
        PROVE  Started
    BY <1>5, StartType DEF LdapLogin
  <1>6. ASSUME NEW u \in User, NEW p \in Password, RegisterWithPassword(r, u, p)
        PROVE  Started
    BY <1>6, StartType DEF RegisterWithPassword
  <1>7. ASSUME NEW u \in User, NEW p \in Password, CreateUser(r, u, p)
        PROVE  Started
    BY <1>7, StartType DEF CreateUser
  <1>8. ASSUME NEW u \in User, NEW cur \in Password, NEW p \in Password,
               ChangePassword(r, u, cur, p)
        PROVE  Started
    BY <1>8, StartType DEF ChangePassword
  <1>9. ASSUME NEW u \in User, VerifyChallenge(r, u)
        PROVE  Started
    BY <1>9, StartType DEF VerifyChallenge
  <1>10. Started
    BY <1>1, <1>2, <1>3, <1>4, <1>5, <1>6, <1>7, <1>8, <1>9
       DEF Call, RequestMagicLink, RequestPasswordReset
  <1>11. seen' \in [Request -> SUBSET Evidence]
    BY <1>10, ObserveType
  <1>12. QED
    BY <1>10, <1>11 DEF TypeOK, Issued

\* A user row written by the code or by another service is well typed.
LEMMA RowType ==
  ASSUME TypeOK, NEW r \in Request, Active(r)
  PROVE  /\ req[r].userId \in User
         /\ req[r].password \in Password \cup {None}
         /\ user[req[r].userId] \in UserRow
  <1>1. req[r] \in RequestState
    BY ActiveType
  <1>2. QED
    BY <1>1 DEF RequestState, TypeOK

\* The steps after an await.
LEMMA ResumeType ==
  ASSUME TypeOK, NEW r \in Request, Resume(r)
  PROVE  TypeOK'
  <1> USE DEF PC
  <1>1. ASSUME NEW op, NEW type \in ChallengeType, Issue(r, op, type)
        PROVE  TypeOK'
    <2>1. req' \in [Request -> RequestState \cup {Idle}]
      BY <1>1, ReturnType DEF Issue
    <2>2. Active(r) /\ req[r].userId \in User
      BY <1>1, RowType DEF Issue, At
    <2>3. /\ authChallenge' \in [Challenge -> ChallengeRow]
          /\ \A c \in Challenge : Issued(c)' => authChallenge'[c].userId \in User
      BY <1>1, <2>2 DEF Issue, TypeOK, ChallengeRow, Issued
    <2>4. QED
      BY <1>1, <2>1, <2>3, ObserveType DEF Issue, TypeOK
  <1>2. ASSUME NEW op, NEW next \in PC, Mark(r, op, next)
        PROVE  TypeOK'
    <2>1. req' \in [Request -> RequestState \cup {Idle}]
      BY <1>2, ReturnType, GotoType DEF Mark, At
    <2>2. /\ authChallenge' \in [Challenge -> ChallengeRow]
          /\ \A c \in Challenge : Issued(c)' => authChallenge'[c].userId \in User
      <3> DEFINE marked == [authChallenge EXCEPT ![req[r].challenge].verified = TRUE]
      <3>1. ASSUME NEW c \in Challenge
            PROVE  /\ marked[c] \in ChallengeRow
                   /\ marked[c].type = authChallenge[c].type
                   /\ marked[c].userId = authChallenge[c].userId
        BY DEF TypeOK, ChallengeRow
      <3>2. marked \in [Challenge -> ChallengeRow]
        BY <3>1 DEF TypeOK
      <3>3. authChallenge' \in {authChallenge, marked}
        BY <1>2 DEF Mark
      <3> HIDE DEF marked
      <3>4. QED
        BY <3>1, <3>2, <3>3 DEF TypeOK, Issued
    <2>3. QED
      BY <1>2, <2>1, <2>2, ObserveType DEF Mark, TypeOK
  <1>3. ASSUME NEW op, NEW hash \in Password \cup {None}, NEW next \in PC,
               Create(r, op, hash, next)
        PROVE  TypeOK'
    <2>1. req' \in [Request -> RequestState \cup {Idle}]
      BY <1>3, ReturnType, ActiveType DEF Create, At, TypeOK, RequestState
    <2>2. user' \in [User -> UserRow]
      <3>1. NewRow(hash) \in UserRow
        BY DEF NewRow, UserRow, Status
      <3>2. QED
        BY <1>3, <3>1 DEF Create, TypeOK
    <2>3. QED
      BY <1>3, <2>1, <2>2, ObserveType DEF Create, TypeOK, Issued
  <1>4. CASE Compare(r)
    <2>1. req' \in [Request -> RequestState \cup {Idle}]
      BY <1>4, ReturnType, GotoType DEF Compare, At
    <2>2. QED
      BY <1>4, <2>1, ObserveType DEF Compare, TypeOK, Issued
  <1>5. ASSUME NEW op, WritePassword(r, op)
        PROVE  user' \in [User -> UserRow]
    BY <1>5, RowType DEF WritePassword, At, TypeOK, UserRow
  <1>6. CASE WriteReset(r)
    <2>1. req' \in [Request -> RequestState \cup {Idle}]
      BY <1>6, ReturnType DEF WriteReset
    <2>2. uses' \in [Challenge -> Nat]
      BY <1>6, CountType DEF WriteReset, TypeOK
    <2>3. QED
      BY <1>5, <1>6, <2>1, <2>2, ObserveType DEF WriteReset, WritePassword, TypeOK, Issued
  <1>7. CASE WriteChanged(r) \/ WriteTemporary(r)
    <2>1. req' \in [Request -> RequestState \cup {Idle}]
      BY <1>7, ReturnType DEF WriteChanged, WriteTemporary
    <2>2. QED
      BY <1>5, <1>7, <2>1, ObserveType
         DEF WriteChanged, WriteTemporary, WritePassword, TypeOK, Issued
  <1>8. CASE SkipTemporary(r)
    BY <1>8, ReturnType, ObserveType DEF SkipTemporary, TypeOK, Issued
  <1>9. CASE WriteRegistered(r)
    <2>1. req' \in [Request -> RequestState \cup {Idle}]
      BY <1>9, ReturnType, GotoType DEF WriteRegistered, WritePassword, At
    <2>2. QED
      BY <1>5, <1>9, <2>1, ObserveType DEF WriteRegistered, WritePassword, TypeOK, Issued
  <1>10. ASSUME NEW op, NEW row \in UserRow, Touch(r, op, row)
         PROVE  TypeOK'
    <2>1. req' \in [Request -> RequestState \cup {Idle}]
      BY <1>10, ReturnType, GotoType DEF Touch, At
    <2>2. user' \in [User -> UserRow]
      BY <1>10 DEF Touch, TypeOK
    <2>3. QED
      BY <1>10, <2>1, <2>2, ObserveType DEF Touch, TypeOK, Issued
  <1>11. CASE TouchMagicLink(r) \/ TouchPassword(r) \/ TouchMfa(r) \/ TouchLdap(r)
    <2>1. user[req[r].userId] \in UserRow
      BY <1>11, RowType DEF TouchMagicLink, TouchPassword, TouchMfa, TouchLdap, Touch, At
    <2>2. [user[req[r].userId] EXCEPT !.status = "ACTIVE"] \in UserRow
      BY <2>1 DEF UserRow, Status
    <2>3. QED
      BY <1>10, <1>11, <2>1, <2>2 DEF TouchMagicLink, TouchPassword, TouchMfa, TouchLdap
  <1>12. CountUse(r) => uses' \in [Challenge -> Nat]
    BY CountType DEF CountUse, TypeOK
  <1>13. CASE CreateMfaToken(r)
    <2>1. req' \in [Request -> RequestState \cup {Idle}]
      BY <1>13, ReturnType DEF CreateMfaToken
    <2>2. mfaToken' \in SUBSET User
      BY <1>13, RowType DEF CreateMfaToken, TypeOK
    <2>3. QED
      BY <1>12, <1>13, <2>1, <2>2, ObserveType DEF CreateMfaToken, TypeOK, Issued
  <1>14. CASE CreateSession(r)
    <2>1. req' \in [Request -> RequestState \cup {Idle}]
      BY <1>14, ReturnType DEF CreateSession
    <2>2. session' \in [Session -> User \cup {None}]
      BY <1>14, RowType DEF CreateSession, TypeOK
    <2>3. uses' \in [Challenge -> Nat]
      BY <1>12, <1>14 DEF CreateSession, TypeOK
    <2>4. QED
      BY <1>14, <2>1, <2>2, <2>3, ObserveType DEF CreateSession, TypeOK, Issued
  <1>15. CASE CreateLdapUser(r) \/ CreateRegisteredUser(r) \/ CreateAddedUser(r)
    <2>1. req[r].password \in Password \cup {None}
      BY <1>15, RowType
         DEF CreateLdapUser, CreateRegisteredUser, CreateAddedUser, Create, At
    <2>2. QED
      BY <1>3, <1>15, <2>1 DEF CreateLdapUser, CreateRegisteredUser, CreateAddedUser
  <1>16. QED
    BY <1>1, <1>2, <1>4, <1>6, <1>7, <1>8, <1>9, <1>11, <1>13, <1>14, <1>15
       DEF Resume, IssueMagicLink, IssuePasswordReset, MarkMagicLink, MarkResetLink,
           ChallengeType

\* Time and the other services.
LEMMA EnvironmentType ==
  ASSUME TypeOK, Environment
  PROVE  TypeOK'
  <1>1. ASSUME NEW s \in Session, RevokeSession(s)
        PROVE  TypeOK'
    BY <1>1, ObserveType DEF RevokeSession, TypeOK, Issued
  <1>2. ASSUME NEW c \in Challenge, ExpireChallenge(c)
        PROVE  TypeOK'
    <2>1. /\ authChallenge' \in [Challenge -> ChallengeRow]
          /\ \A d \in Challenge : Issued(d)' => authChallenge'[d].userId \in User
      BY <1>2 DEF ExpireChallenge, TypeOK, ChallengeRow, Issued
    <2>2. QED
      BY <1>2, <2>1, ObserveType DEF ExpireChallenge, TypeOK
  <1>3. ASSUME NEW u \in User, ExpireMfaToken(u)
        PROVE  TypeOK'
    BY <1>3, ObserveType DEF ExpireMfaToken, TypeOK, Issued
  <1>4. ASSUME NEW u \in User, NEW row \in UserRow, SetUser(u, row)
        PROVE  TypeOK'
    BY <1>4, ObserveType DEF SetUser, TypeOK, Issued
  <1>5. ASSUME NEW u \in User
        PROVE  /\ \A st \in Status : [user[u] EXCEPT !.status = st] \in UserRow
               /\ \A b \in BOOLEAN : [user[u] EXCEPT !.mfaEnabled = b] \in UserRow
    BY DEF TypeOK, UserRow
  <1>6. ASSUME NEW u \in User, RemoveUser(u)
        PROVE  TypeOK'
    <2>1. user' \in [User -> UserRow]
      BY <1>6 DEF RemoveUser, TypeOK, UserRow, RemovedRow
    <2>2. /\ authChallenge' \in [Challenge -> ChallengeRow]
          /\ \A c \in Challenge : Issued(c)' => authChallenge'[c].userId \in User
      BY <1>6, SMTT(30) DEF RemoveUser, TypeOK, ChallengeRow, Issued, ChallengeType
    <2>3. session' \in [Session -> User \cup {None}]
      BY <1>6 DEF RemoveUser, TypeOK
    <2>4. QED
      BY <1>6, <2>1, <2>2, <2>3, ObserveType DEF RemoveUser, TypeOK
  <1>7. QED
    BY <1>1, <1>2, <1>3, <1>4, <1>5, <1>6
       DEF Environment, ExpireSession, UpdateStatus, EnableMfa, DisableMfa

\* Every variable keeps its type, and every issued link has an owner, whichever
\* handlers of auth.service.ts overlap.
THEOREM TypeCorrect == Spec => []TypeOK
  <1>1. Init => TypeOK
    <2> SUFFICES ASSUME Init PROVE TypeOK
      OBVIOUS
    <2>1. AbsentRow \in UserRow /\ NewRow(None) \in UserRow
      BY DEF AbsentRow, NewRow, UserRow, Status
    <2>2. user \in [User -> UserRow]
      BY <2>1 DEF Init
    <2>3. Unissued \in ChallengeRow /\ Unissued.type \notin ChallengeType
      BY DEF Unissued, ChallengeRow, ChallengeType
    <2>4. /\ authChallenge \in [Challenge -> ChallengeRow]
          /\ \A c \in Challenge : ~Issued(c)
      BY <2>3 DEF Init, Issued
    <2>5. QED
      BY <2>2, <2>4 DEF Init, TypeOK
  <1>2. TypeOK /\ [Next]_vars => TypeOK'
    <2> SUFFICES ASSUME TypeOK, [Next]_vars PROVE TypeOK'
      OBVIOUS
    <2>1. CASE UNCHANGED vars
      BY <2>1 DEF vars, TypeOK, Issued
    <2>2. CASE Next
      BY <2>2, CallType, ResumeType, EnvironmentType DEF Next
    <2>3. QED
      BY <2>1, <2>2
  <1>3. QED
    BY <1>1, <1>2, PTL DEF Spec

----------------------------------------------------------------------------
(* What every handler has established when it goes on, for any number of   *)
(* users, links and requests, and what follows for the sessions, MFA tokens *)
(* and passwords it hands out.                                              *)


\* A link that is in the table keeps its user, and stays used once it is.
LinkGrows(c) ==
  authChallenge[c].type # "unissued" =>
    /\ authChallenge'[c].type \in {authChallenge[c].type, "removed"}
    /\ authChallenge'[c].userId = authChallenge[c].userId
    /\ authChallenge[c].verified => authChallenge'[c].verified

\* The token another request drew stays out of the table and out of r's hands.
DrawnTokensSpared(r) ==
  \A q \in Request \ {r} :
    Active(q) /\ req[q].pc = "issue" =>
      /\ authChallenge'[req[q].challenge] = authChallenge[req[q].challenge]
      /\ Active(r)' => req'[r].challenge # req[q].challenge

\* What a step owes to the requests that do not take it.
Spares(r) ==
  /\ \A q \in Request \ {r} : req'[q] = req[q]
  /\ \A c \in Challenge : LinkGrows(c)
  /\ DrawnTokensSpared(r)
  /\ Observe

\* Evidence is collected, never dropped, while the request is in progress.
LEMMA SeenGrows ==
  ASSUME TypeOK, Observe, NEW r \in Request, Active(r), Active(r)'
  PROVE  /\ seen[r] \subseteq seen'[r]
         /\ EvidenceFor(req'[r], user'[req'[r].userId]) \subseteq seen'[r]
  BY DEF Observe, Active

\* A request that starts has on record what the step it starts with meets.
LEMMA SeenStarts ==
  ASSUME TypeOK, Observe, NEW r \in Request, Active(r)'
  PROVE  EvidenceFor(req'[r], user'[req'[r].userId]) \subseteq seen'[r]
  BY DEF Observe, Active

\* The requests that do not take a step keep what they have established.
LEMMA OthersEstablished ==
  ASSUME TypeOK, RequestsEstablished, NEW r, Spares(r),
         NEW q \in Request \ {r}, Active(q)'
  PROVE  Established(q)'
  <1>1. Active(q) /\ req'[q] = req[q]
    BY DEF Spares, Active
  <1>2. Established(q) /\ req[q] \in RequestState
    BY <1>1, ActiveType DEF RequestsEstablished
  <1>3. seen[q] \subseteq seen'[q]
    BY <1>1, SeenGrows DEF Spares
  <1>4. ASSUME req[q].pc = "issue"
        PROVE  /\ req[q].challenge \in Challenge
               /\ authChallenge'[req[q].challenge] = Unissued
               /\ \A other \in Request \ {q} : ~Holds(other, req[q].challenge)'
    <2>1. /\ req[q].challenge \in Challenge
          /\ authChallenge[req[q].challenge] = Unissued
          /\ \A other \in Request \ {q} : ~Holds(other, req[q].challenge)
      BY <1>2, <1>4 DEF Established
    <2>2. /\ authChallenge'[req[q].challenge] = authChallenge[req[q].challenge]
          /\ ~Holds(r, req[q].challenge)'
      BY <1>1, <1>4 DEF Spares, DrawnTokensSpared, Holds
    <2>3. ASSUME NEW other \in Request \ {q, r}
          PROVE  ~Holds(other, req[q].challenge)'
      BY <1>1, <2>1 DEF Spares, Holds, Active
    <2>4. QED
      BY <2>1, <2>2, <2>3
  <1>5. ASSUME req[q].op \in {"verifyMagicLink", "resetPassword"}
        PROVE  LET link == authChallenge'[req[q].challenge]
               IN  /\ req[q].challenge \in Challenge
                   /\ link.type # "unissued"
                   /\ link.userId = req[q].userId
                   /\ req[q].pc # "mark" => link.verified
                   /\ req[q].op = "resetPassword" =>
                        link.type \in {"PASSWORD_RESET", "removed"}
    <2>1. LinkGrows(req[q].challenge)
      BY <1>2, <1>5 DEF Established, Spares
    <2>2. QED
      BY <1>2, <1>5, <2>1 DEF Established, LinkGrows
  <1>6. QED
    BY <1>1, <1>2, <1>3, <1>4, <1>5 DEF Established

\* A step of r that spares the others and leaves r with what it needs.
LEMMA StepEstablished ==
  ASSUME TypeOK, RequestsEstablished, NEW r \in Request, Spares(r),
         Active(r)' => Established(r)', RowsConsistent'
  PROVE  RequestsEstablished'
  BY OthersEstablished DEF RequestsEstablished

\* A handler that got past its checks has established what the first of its
\* next steps relies on, and disturbs no other handler.
LEMMA CallEstablished ==
  ASSUME TypeOK, RequestsEstablished, NEW r \in Request, Call(r)
  PROVE  RequestsEstablished'
  <1> USE DEF Args, NoArgs
  <1> DEFINE Same == UNCHANGED <<user, authChallenge, session, mfaToken, uses>>
  <1>1. ASSUME Same
        PROVE  RowsConsistent' /\ \A c \in Challenge : LinkGrows(c)
    BY <1>1 DEF RowsConsistent, LinkGrows, RequestsEstablished
  <1>2. ASSUME NEW pc, NEW op, NEW u, NEW args, Start(r, pc, op, u, args)
        PROVE  /\ req'[r] = [pc |-> pc, op |-> op, userId |-> u,
                             mfaEnabled |-> user[u].mfaEnabled,
                             challenge |-> args.challenge, password |-> args.password,
                             current |-> args.current]
               /\ req'[r].pc = pc /\ req'[r].op = op
               /\ req'[r].challenge = args.challenge
               /\ \A q \in Request \ {r} : req'[q] = req[q]
    BY <1>2 DEF Start, TypeOK
  <1>3. ASSUME NEW pc, NEW op, NEW u, NEW args, Start(r, pc, op, u, args),
               args.challenge = None, Same
        PROVE  DrawnTokensSpared(r)
    <2>1. ASSUME NEW q \in Request \ {r}, Active(q), req[q].pc = "issue"
          PROVE  req[q].challenge # None
      BY <2>1, AuthAssumption DEF RequestsEstablished, Established
    <2>2. req'[r].challenge = None
      BY <1>2, <1>3
    <2>3. authChallenge' = authChallenge
      BY <1>3
    <2>4. ASSUME NEW q \in Request \ {r}, Active(q), req[q].pc = "issue"
          PROVE  req'[r].challenge # req[q].challenge
      BY <2>1, <2>2, <2>4
    <2>5. QED
      BY <2>3, <2>4 DEF DrawnTokensSpared
  <1>4. ASSUME NEW u \in User, NEW c \in Challenge,
               NEW op \in {"requestMagicLink", "requestPasswordReset"},
               RequestLink(r, u, c, op)
        PROVE  RequestsEstablished'
    <2> DEFINE args == Args(c, None, None)
    <2>0. args.challenge = c
      OBVIOUS
    <2>1. /\ \A q \in Request \ {r} : req'[q] = req[q]
          /\ req'[r].pc = "issue" /\ req'[r].op = op /\ req'[r].challenge = c
          /\ Same /\ Observe /\ authChallenge[c] = Unissued
          /\ \A q \in Request : ~Holds(q, c)
      <3>1. Start(r, "issue", op, u, args)
        BY <1>4 DEF RequestLink
      <3> HIDE DEF args
      <3>2. QED
        BY <1>2, <1>4, <2>0, <3>1 DEF RequestLink
    <2>2. DrawnTokensSpared(r)
      BY <2>1 DEF DrawnTokensSpared, Holds
    <2>3. Established(r)'
      BY <2>1 DEF Established, Holds, Active
    <2>4. QED
      BY <1>1, <2>1, <2>2, <2>3, StepEstablished DEF Spares
  <1>5. ASSUME NEW c \in Challenge, NEW op \in {"verifyMagicLink", "resetPassword"},
               NEW args, args.challenge = c, Redeemable(c),
               op = "resetPassword" => authChallenge[c].type = "PASSWORD_RESET",
               Start(r, "mark", op, authChallenge[c].userId, args), Same, Observe
        PROVE  RequestsEstablished'
    <2>1. /\ \A q \in Request \ {r} : req'[q] = req[q]
          /\ req'[r] = [pc |-> "mark", op |-> op, userId |-> authChallenge[c].userId,
                        mfaEnabled |-> user[authChallenge[c].userId].mfaEnabled,
                        challenge |-> c, password |-> args.password,
                        current |-> args.current]
      BY <1>2, <1>5
    <2>2. DrawnTokensSpared(r)
      <3>1. ASSUME NEW q \in Request \ {r}, Active(q), req[q].pc = "issue"
            PROVE  req[q].challenge # c
        BY <1>5, <3>1 DEF RequestsEstablished, Established, Redeemable, Issued,
                         Unissued, ChallengeType
      <3>2. QED
        BY <1>5, <2>1, <3>1 DEF DrawnTokensSpared, Holds
    <2>3. Active(r)'
      BY <2>1 DEF Active, Idle
    <2>4. authChallenge[c].type # "unissued"
      BY <1>5 DEF Redeemable, Issued, ChallengeType
    <2>5. ~req'[r].mfaEnabled /\ op = "verifyMagicLink" => "withoutMfa" \in seen'[r]
      BY <1>5, <2>1, <2>3, SeenStarts DEF EvidenceFor
    <2>6. Established(r)'
      BY <1>5, <2>1, <2>4, <2>5 DEF Established
    <2>7. QED
      BY <1>1, <1>5, <2>1, <2>2, <2>6, StepEstablished DEF Spares
  <1>6. ASSUME NEW pc \in PC \ {"issue"}, NEW op \in Op \ {"verifyMagicLink", "resetPassword"},
               NEW u, NEW args, args.challenge = None,
               Start(r, pc, op, u, args), Same, Observe,
               op = "changePassword" => pc # "write",
               op = "loginWithPassword" => PasswordAccepted(user[u], args.password),
               op \in {"registerWithPassword", "createUser"} => user[u].passwordHash = None
        PROVE  RequestsEstablished'
    <2>1. /\ \A q \in Request \ {r} : req'[q] = req[q]
          /\ req'[r] = [pc |-> pc, op |-> op, userId |-> u,
                        mfaEnabled |-> user[u].mfaEnabled,
                        challenge |-> None, password |-> args.password,
                        current |-> args.current]
      BY <1>2, <1>6
    <2>2. Active(r)'
      BY <2>1 DEF Active, Idle
    <2>3. EvidenceFor(req'[r], user[u]) \subseteq seen'[r]
      BY <1>6, <2>1, <2>2, SeenStarts
    <2>4. op = "loginWithPassword" =>
            /\ "accepted" \in seen'[r]
            /\ ~req'[r].mfaEnabled => "acceptedWithoutMfa" \in seen'[r]
      BY <1>6, <2>1, <2>3 DEF EvidenceFor, PasswordAccepted
    <2>5. op = "ldapLogin" /\ ~req'[r].mfaEnabled => "withoutMfa" \in seen'[r]
      BY <2>1, <2>3 DEF EvidenceFor
    <2>6. op \in {"registerWithPassword", "createUser"} => "noPassword" \in seen'[r]
      BY <1>6, <2>1, <2>3 DEF EvidenceFor
    <2>7. Established(r)'
      BY <1>6, <2>1, <2>4, <2>5, <2>6 DEF Established
    <2>8. DrawnTokensSpared(r)
      BY <1>3, <1>6
    <2>9. QED
      BY <1>1, <1>6, <2>1, <2>7, <2>8, StepEstablished DEF Spares
  <1> USE DEF Op, PC
  <1>7. ASSUME NEW c \in Challenge, VerifyMagicLink(r, c)
        PROVE  RequestsEstablished'
    BY <1>5, <1>7 DEF VerifyMagicLink
  <1>8. ASSUME NEW c \in Challenge, NEW p \in Password, ResetPassword(r, c, p)
        PROVE  RequestsEstablished'
    BY <1>5, <1>8 DEF ResetPassword
  <1>9. ASSUME NEW u \in User, NEW p \in Password, LoginWithPassword(r, u, p)
        PROVE  RequestsEstablished'
    BY <1>6, <1>9 DEF LoginWithPassword
  <1>10. ASSUME NEW u \in User, LdapLogin(r, u)
         PROVE  RequestsEstablished'
    BY <1>6, <1>10 DEF LdapLogin
  <1>11. ASSUME NEW u \in User, NEW p \in Password, RegisterWithPassword(r, u, p)
         PROVE  RequestsEstablished'
    BY <1>6, <1>11 DEF RegisterWithPassword
  <1>12. ASSUME NEW u \in User, NEW p \in Password, CreateUser(r, u, p)
         PROVE  RequestsEstablished'
    <2>1. user[u].passwordHash = None
      BY <1>12 DEF CreateUser, RequestsEstablished, RowsConsistent, AbsentRow
    <2>2. QED
      BY <1>6, <1>12, <2>1 DEF CreateUser
  <1>13. ASSUME NEW u \in User, NEW cur \in Password, NEW p \in Password,
                ChangePassword(r, u, cur, p)
         PROVE  RequestsEstablished'
    BY <1>6, <1>13 DEF ChangePassword
  <1>14. ASSUME NEW u \in User, VerifyChallenge(r, u)
         PROVE  RequestsEstablished'
    BY <1>6, <1>14 DEF VerifyChallenge
  <1>15. QED
    BY <1>4, <1>7, <1>8, <1>9, <1>10, <1>11, <1>12, <1>13, <1>14
       DEF Call, RequestMagicLink, RequestPasswordReset

\* How a step after an await moves its own request.
LEMMA GotoEffect ==
  ASSUME TypeOK, NEW r \in Request, Active(r), NEW pc \in PC, Goto(r, pc)
  PROVE  /\ \A q \in Request \ {r} : req'[q] = req[q]
         /\ req'[r].pc = pc
         /\ req'[r].op = req[r].op
         /\ req'[r].userId = req[r].userId
         /\ req'[r].challenge = req[r].challenge
         /\ req'[r].password = req[r].password
         /\ req'[r].current = req[r].current
         /\ req'[r].mfaEnabled = req[r].mfaEnabled
         /\ Active(r)'
  <1>1. req[r] \in RequestState
    BY ActiveType
  <1>2. req'[r] = [req[r] EXCEPT !.pc = pc] /\ \A q \in Request \ {r} : req'[q] = req[q]
    BY DEF Goto, TypeOK
  <1>3. req' \in [Request -> RequestState \cup {Idle}] /\ req'[r] \in RequestState
    BY <1>1, <1>2, GotoType DEF RequestState
  <1>4. QED
    BY <1>1, <1>2, <1>3, IdleIsNoRequest DEF RequestState, Active

\* A handler that returns frees its slot and no other.
LEMMA ReturnEffect ==
  ASSUME TypeOK, NEW r \in Request, Return(r)
  PROVE  /\ \A q \in Request \ {r} : req'[q] = req[q]
         /\ ~Active(r)'
  BY DEF Return, TypeOK, Active

\* A request that keeps its challenge, and writes no other, spares the tokens
\* that were drawn.
LEMMA OwnChallengeOnly ==
  ASSUME RequestsEstablished, NEW r \in Request, Active(r),
         Active(r)' => req'[r].challenge = req[r].challenge,
         \A c \in Challenge \ {req[r].challenge} : authChallenge'[c] = authChallenge[c]
  PROVE  DrawnTokensSpared(r)
  <1>1. ASSUME NEW q \in Request \ {r}, Active(q), req[q].pc = "issue"
        PROVE  req[q].challenge \in Challenge /\ req[q].challenge # req[r].challenge
    BY <1>1 DEF RequestsEstablished, Established, Holds
  <1>2. QED
    BY <1>1 DEF DrawnTokensSpared

\* A step that leaves the links alone and either returns or passes on what was
\* established.
LEMMA LinklessStep ==
  ASSUME TypeOK, RequestsEstablished, NEW r \in Request, Active(r), Observe,
         UNCHANGED authChallenge, RowsConsistent',
         \/ Return(r)
         \/ \E pc \in PC \ {"issue"} :
              /\ Goto(r, pc)
              /\ req[r].pc # "mark"
              /\ req[r].op = "changePassword" /\ pc = "write" =>
                   "currentPassword" \in seen'[r]
  PROVE  RequestsEstablished'
  <1>1. \A c \in Challenge : LinkGrows(c)
    BY DEF LinkGrows
  <1>2. CASE Return(r)
    BY <1>1, <1>2, ReturnEffect, OwnChallengeOnly, StepEstablished DEF Spares
  <1>3. ASSUME NEW pc \in PC \ {"issue"}, Goto(r, pc), req[r].pc # "mark",
               req[r].op = "changePassword" /\ pc = "write" =>
                 "currentPassword" \in seen'[r]
        PROVE  RequestsEstablished'
    <2>1. Established(r)
      BY DEF RequestsEstablished
    <2>2. /\ req'[r].pc = pc
          /\ req'[r].op = req[r].op
          /\ req'[r].userId = req[r].userId
          /\ req'[r].challenge = req[r].challenge
          /\ req'[r].mfaEnabled = req[r].mfaEnabled
          /\ Active(r)'
          /\ \A q \in Request \ {r} : req'[q] = req[q]
      BY <1>3, GotoEffect
    <2>3. seen[r] \subseteq seen'[r]
      BY <2>2, SeenGrows
    <2>4. Established(r)'
      BY <1>3, <2>1, <2>2, <2>3 DEF Established
    <2>5. QED
      BY <1>1, <2>2, <2>4, OwnChallengeOnly, StepEstablished DEF Spares
  <1>4. QED
    BY <1>2, <1>3

\* Writing the row of an account that is there, or is being inserted.
LEMMA RowWritten ==
  ASSUME TypeOK, RowsConsistent, UNCHANGED authChallenge,
         NEW u \in User, user[u].status # "removed", NEW row, row.status \in Status,
         user' = [user EXCEPT ![u] = row]
  PROVE  RowsConsistent'
  <1>1. user'[u] = row /\ \A v \in User \ {u} : user'[v] = user[v]
    BY DEF TypeOK
  <1>2. user'[u].status \in Status
    BY <1>1
  <1>3. "absent" \notin Status
    BY DEF Status
  <1>4. ASSUME NEW v \in User, user'[v].status = "absent"
        PROVE  user'[v] = AbsentRow
    BY <1>1, <1>2, <1>3, <1>4 DEF RowsConsistent
  <1>5. ASSUME NEW c \in Challenge, authChallenge[c].type = "removed"
        PROVE  /\ authChallenge[c].userId \in User
               /\ user'[authChallenge[c].userId].status = "removed"
    BY <1>1, <1>5 DEF RowsConsistent
  <1>6. QED
    BY <1>4, <1>5 DEF RowsConsistent

\* Whatever a handler does after an await leaves it, and every other one, with
\* what the next step relies on.
LEMMA ResumeEstablished ==
  ASSUME TypeOK, RequestsEstablished, NEW r \in Request, Resume(r)
  PROVE  RequestsEstablished'
  <1> USE DEF PC
  <1>1. ASSUME NEW op, NEW type \in ChallengeType, Issue(r, op, type)
        PROVE  RequestsEstablished'
    <2>1. /\ Active(r) /\ req[r].pc = "issue" /\ Established(r)
          /\ req[r].userId \in User
      BY <1>1, RowType DEF Issue, At, RequestsEstablished
    <2>2. req[r].challenge \in Challenge /\ authChallenge[req[r].challenge] = Unissued
      BY <2>1 DEF Established
    <2>3. \A c \in Challenge \ {req[r].challenge} : authChallenge'[c] = authChallenge[c]
      BY <1>1 DEF Issue, TypeOK
    <2>4. \A c \in Challenge : LinkGrows(c)
      BY <2>2, <2>3 DEF LinkGrows, Unissued
    <2>5. authChallenge'[req[r].challenge].type # "removed"
      BY <1>1, <2>2 DEF Issue, TypeOK, Unissued, ChallengeType
    <2>6. RowsConsistent'
      BY <1>1, <2>3, <2>5 DEF RequestsEstablished, RowsConsistent, Issue
    <2>7. QED
      BY <1>1, <2>1, <2>3, <2>4, <2>6, ReturnEffect, OwnChallengeOnly, StepEstablished
         DEF Spares, Issue
  <1>2. ASSUME NEW op \in {"verifyMagicLink", "resetPassword"},
               NEW next \in {"touch", "write"}, Mark(r, op, next)
        PROVE  RequestsEstablished'
    <2>1. /\ Active(r) /\ req[r].pc = "mark" /\ req[r].op = op /\ Established(r)
      BY <1>2 DEF Mark, At, RequestsEstablished
    <2>2. CASE ~Issued(req[r].challenge)
      <3>1. Return(r) /\ UNCHANGED <<user, authChallenge>> /\ Observe
        BY <1>2, <2>2 DEF Mark
      <3>2. RowsConsistent'
        BY <3>1 DEF RequestsEstablished, RowsConsistent
      <3>3. QED
        BY <2>1, <3>1, <3>2, LinklessStep
    <2>3. CASE Issued(req[r].challenge)
      <3>1. /\ Goto(r, next) /\ UNCHANGED user /\ Observe
            /\ authChallenge' = [authChallenge EXCEPT ![req[r].challenge].verified = TRUE]
        BY <1>2, <2>3 DEF Mark
      <3>2. req[r].challenge \in Challenge
        BY <2>1 DEF Established
      <3>3. /\ authChallenge'[req[r].challenge].type = authChallenge[req[r].challenge].type
            /\ authChallenge'[req[r].challenge].userId = authChallenge[req[r].challenge].userId
            /\ authChallenge'[req[r].challenge].verified
            /\ \A c \in Challenge \ {req[r].challenge} : authChallenge'[c] = authChallenge[c]
        BY <3>1, <3>2 DEF TypeOK, ChallengeRow
      <3>4. \A c \in Challenge : LinkGrows(c)
        BY <3>3 DEF LinkGrows
      <3>5. RowsConsistent'
        BY <3>1, <3>3 DEF RequestsEstablished, RowsConsistent
      <3>6. /\ req'[r].pc = next
            /\ req'[r].op = req[r].op
            /\ req'[r].userId = req[r].userId
            /\ req'[r].challenge = req[r].challenge
            /\ req'[r].mfaEnabled = req[r].mfaEnabled
            /\ Active(r)'
            /\ \A q \in Request \ {r} : req'[q] = req[q]
        BY <2>1, <3>1, GotoEffect
      <3>7. seen[r] \subseteq seen'[r]
        BY <2>1, <3>1, <3>6, SeenGrows
      <3>8. Established(r)'
        BY <2>1, <3>3, <3>6, <3>7 DEF Established
      <3>9. QED
        BY <2>1, <3>1, <3>3, <3>4, <3>5, <3>6, <3>8, OwnChallengeOnly, StepEstablished
           DEF Spares
    <2>4. QED
      BY <2>2, <2>3
  <1>3. ASSUME NEW op \in {"ldapLogin", "registerWithPassword", "createUser"},
               NEW hash, NEW next \in {"touch", "open", "write"},
               Create(r, op, hash, next)
        PROVE  RequestsEstablished'
    <2>1. /\ Active(r) /\ req[r].op = op /\ req[r].pc = "create" /\ Established(r)
          /\ UNCHANGED authChallenge /\ Observe
          /\ req[r].userId \in User /\ req[r] \in RequestState
      BY <1>3, RowType, ActiveType DEF Create, At, RequestsEstablished
    <2>2. CASE user[req[r].userId].status = "absent"
      <3>1. /\ user' = [user EXCEPT ![req[r].userId] = NewRow(hash)]
            /\ req' = [req EXCEPT ![r].pc = next, ![r].mfaEnabled = FALSE]
        BY <1>3, <2>2 DEF Create
      <3>2. /\ req'[r].pc = next /\ req'[r].op = op
            /\ req'[r].userId = req[r].userId
            /\ req'[r].challenge = req[r].challenge
            /\ \A q \in Request \ {r} : req'[q] = req[q]
        BY <2>1, <3>1 DEF TypeOK, RequestState
      <3>3. Active(r)'
        BY <2>1, <3>1 DEF Active, TypeOK, RequestState, Idle
      <3>4. user'[req'[r].userId].mfaEnabled = FALSE
        BY <2>1, <3>1, <3>2 DEF TypeOK, NewRow
      <3>5. /\ seen[r] \subseteq seen'[r]
            /\ EvidenceFor(req'[r], user'[req'[r].userId]) \subseteq seen'[r]
        BY <2>1, <3>3, SeenGrows
      <3>6. op = "ldapLogin" => "withoutMfa" \in seen'[r]
        BY <3>2, <3>4, <3>5 DEF EvidenceFor
      <3>7. Established(r)'
        BY <2>1, <3>2, <3>5, <3>6 DEF Established
      <3>8. RowsConsistent'
        <4>1. NewRow(hash).status \in Status
          BY DEF NewRow, Status
        <4>2. QED
          BY <2>1, <2>2, <3>1, <4>1, RowWritten DEF RequestsEstablished
      <3>9. QED
        BY <2>1, <3>2, <3>7, <3>8, OwnChallengeOnly, StepEstablished DEF Spares, LinkGrows
    <2>3. CASE user[req[r].userId].status # "absent"
      <3>1. Return(r) /\ UNCHANGED user
        BY <1>3, <2>3 DEF Create
      <3>2. RowsConsistent'
        BY <2>1, <3>1 DEF RequestsEstablished, RowsConsistent
      <3>3. QED
        BY <2>1, <3>1, <3>2, LinklessStep
    <2>4. QED
      BY <2>2, <2>3
  <1>4. CASE Compare(r)
    <2>1. /\ Active(r) /\ req[r].op = "changePassword" /\ req[r].pc = "compare"
          /\ UNCHANGED <<user, authChallenge>> /\ Observe
      BY <1>4 DEF Compare, At
    <2>2. RowsConsistent'
      BY <2>1 DEF RequestsEstablished, RowsConsistent
    <2>3. CASE Return(r)
      BY <2>1, <2>2, <2>3, LinklessStep
    <2>4. CASE /\ Goto(r, "write")
               /\ user[req[r].userId].passwordHash = req[r].current
      <3>1. /\ Active(r)' /\ req'[r].op = req[r].op /\ req'[r].userId = req[r].userId
            /\ req'[r].current = req[r].current
        BY <2>1, <2>4, GotoEffect
      <3>2. "currentPassword" \in seen'[r]
        BY <2>1, <2>4, <3>1, SeenGrows DEF EvidenceFor
      <3>3. QED
        BY <2>1, <2>2, <2>4, <3>2, LinklessStep
    <2>5. QED
      BY <1>4, <2>3, <2>4 DEF Compare
  <1>5. ASSUME NEW op, WritePassword(r, op)
        PROVE  /\ Active(r) /\ req[r].pc = "write" /\ req[r].op = op
               /\ UNCHANGED authChallenge /\ RowsConsistent'
    <2>1. /\ Active(r) /\ req[r].pc = "write" /\ req[r].op = op
          /\ UNCHANGED authChallenge
          /\ req[r].userId \in User /\ user[req[r].userId] \in UserRow
      BY <1>5, RowType DEF WritePassword, At
    <2> DEFINE row == [user[req[r].userId] EXCEPT !.passwordHash = req[r].password]
    <2>2. CASE Present(req[r].userId)
      <3>1. user' = [user EXCEPT ![req[r].userId] = row]
        BY <1>5, <2>2 DEF WritePassword
      <3>2. row.status \in Status
        BY <2>1, <2>2 DEF Present, UserRow
      <3>3. user[req[r].userId].status # "removed"
        BY <2>2 DEF Present, Status
      <3> HIDE DEF row
      <3>4. QED
        BY <2>1, <3>1, <3>2, <3>3, RowWritten DEF RequestsEstablished
    <2>3. CASE ~Present(req[r].userId)
      BY <1>5, <2>1, <2>3 DEF WritePassword, RequestsEstablished, RowsConsistent
    <2>4. QED
      BY <2>1, <2>2, <2>3
  <1>6. CASE WriteReset(r) \/ WriteChanged(r) \/ WriteTemporary(r)
    BY <1>5, <1>6, LinklessStep DEF WriteReset, WriteChanged, WriteTemporary
  <1>7. CASE WriteRegistered(r)
    <2>1. /\ Active(r) /\ req[r].pc = "write" /\ req[r].op = "registerWithPassword"
          /\ UNCHANGED authChallenge /\ RowsConsistent' /\ Observe
          /\ Return(r) \/ Goto(r, "open")
      BY <1>5, <1>7 DEF WriteRegistered
    <2>2. QED
      BY <2>1, LinklessStep
  <1>8. CASE SkipTemporary(r) \/ CreateMfaToken(r) \/ CreateSession(r)
    <2>1. /\ Active(r) /\ Return(r) /\ Observe /\ UNCHANGED <<user, authChallenge>>
      BY <1>8 DEF SkipTemporary, CreateMfaToken, CreateSession, At
    <2>2. RowsConsistent'
      BY <2>1 DEF RequestsEstablished, RowsConsistent
    <2>3. QED
      BY <2>1, <2>2, LinklessStep
  <1>9. ASSUME NEW op, NEW row, Touch(r, op, row),
               Present(req[r].userId) => row.status \in Status
        PROVE  RequestsEstablished'
    <2>1. /\ Active(r) /\ req[r].pc = "touch" /\ UNCHANGED authChallenge /\ Observe
          /\ req[r].userId \in User
      BY <1>9, RowType DEF Touch, At
    <2>2. CASE Present(req[r].userId)
      <3>1. Goto(r, "open") /\ user' = [user EXCEPT ![req[r].userId] = row]
        BY <1>9, <2>2 DEF Touch
      <3>2. user[req[r].userId].status # "removed"
        BY <2>2 DEF Present, Status
      <3>3. RowsConsistent'
        BY <1>9, <2>1, <2>2, <3>1, <3>2, RowWritten DEF RequestsEstablished
      <3>4. QED
        BY <2>1, <3>1, <3>3, LinklessStep
    <2>3. CASE ~Present(req[r].userId)
      <3>1. Return(r) /\ UNCHANGED user
        BY <1>9, <2>3 DEF Touch
      <3>2. RowsConsistent'
        BY <2>1, <3>1 DEF RequestsEstablished, RowsConsistent
      <3>3. QED
        BY <2>1, <3>1, <3>2, LinklessStep
    <2>4. QED
      BY <2>2, <2>3
  <1>10. CASE TouchMagicLink(r) \/ TouchPassword(r) \/ TouchMfa(r)
    BY <1>9, <1>10 DEF TouchMagicLink, TouchPassword, TouchMfa, Present
  <1>11. CASE TouchLdap(r)
    <2>1. Active(r)
      BY <1>11 DEF TouchLdap, Touch, At
    <2>2. [user[req[r].userId] EXCEPT !.status = "ACTIVE"].status \in Status
      BY <2>1, RowType DEF UserRow, Status
    <2>3. QED
      BY <1>9, <1>11, <2>2 DEF TouchLdap
  <1>12. QED
    BY <1>1, <1>2, <1>3, <1>4, <1>6, <1>7, <1>8, <1>10, <1>11
       DEF Resume, IssueMagicLink, IssuePasswordReset, MarkMagicLink, MarkResetLink,
           CreateLdapUser, CreateRegisteredUser, CreateAddedUser, ChallengeType

\* Time and the other services keep what the handlers in progress established.
LEMMA EnvironmentEstablished ==
  ASSUME TypeOK, RequestsEstablished, Environment
  PROVE  RequestsEstablished'
  <1>1. UNCHANGED req /\ Observe
    BY DEF Environment, RevokeSession, ExpireSession, ExpireChallenge, ExpireMfaToken,
           UpdateStatus, EnableMfa, DisableMfa, SetUser, RemoveUser
  <1>2. ASSUME RowsConsistent', \A c \in Challenge : LinkGrows(c),
               \A c \in Challenge : authChallenge[c] = Unissued =>
                                      authChallenge'[c] = authChallenge[c]
        PROVE  RequestsEstablished'
    <2>2. ASSUME NEW r \in Request, Active(r)'
          PROVE  Established(r)'
      <3>1. Active(r) /\ Established(r)
        BY <1>1, <2>2 DEF Active, RequestsEstablished
      <3>2. seen[r] \subseteq seen'[r]
        BY <1>1, <2>2, <3>1, SeenGrows
      <3>3. req[r].pc = "issue" =>
              \A other \in Request \ {r} : ~Holds(other, req[r].challenge)'
        BY <1>1, <3>1 DEF Established, Holds, Active
      <3>4. req[r].challenge \in Challenge => LinkGrows(req[r].challenge)
        BY <1>2
      <3>5. QED
        BY <1>1, <1>2, <3>1, <3>2, <3>3, <3>4 DEF Established, LinkGrows
    <2>3. QED
      BY <1>2, <2>2 DEF RequestsEstablished
  <1>3. CASE UNCHANGED <<user, authChallenge>>
    BY <1>2, <1>3 DEF RequestsEstablished, RowsConsistent, LinkGrows
  <1>4. ASSUME NEW c \in Challenge, ExpireChallenge(c)
        PROVE  RequestsEstablished'
    <2>1. /\ authChallenge' = [authChallenge EXCEPT ![c].expired = TRUE]
          /\ Issued(c) /\ UNCHANGED user
      BY <1>4 DEF ExpireChallenge
    <2>2. /\ authChallenge'[c].type = authChallenge[c].type
          /\ authChallenge'[c].userId = authChallenge[c].userId
          /\ authChallenge'[c].verified = authChallenge[c].verified
          /\ \A d \in Challenge \ {c} : authChallenge'[d] = authChallenge[d]
      BY <2>1 DEF TypeOK, ChallengeRow
    <2>3. authChallenge[c] # Unissued
      BY <2>1 DEF Issued, Unissued, ChallengeType
    <2>4. QED
      BY <1>2, <2>1, <2>2, <2>3 DEF RequestsEstablished, RowsConsistent, LinkGrows
  <1>5. ASSUME NEW u \in User, NEW row, row.status \in Status, SetUser(u, row)
        PROVE  RequestsEstablished'
    <2>1. /\ user' = [user EXCEPT ![u] = row] /\ UNCHANGED authChallenge
          /\ user[u].status # "removed"
      BY <1>5 DEF SetUser, Present, Status
    <2>2. RowsConsistent'
      BY <1>5, <2>1, RowWritten DEF RequestsEstablished
    <2>3. QED
      BY <1>2, <2>1, <2>2 DEF LinkGrows
  <1>6. ASSUME NEW u \in User, RemoveUser(u)
        PROVE  RequestsEstablished'
    <2>1. /\ user'[u].status = "removed" /\ \A v \in User \ {u} : user'[v] = user[v]
          /\ \A c \in Challenge : authChallenge'[c] =
               IF authChallenge[c].userId = u
               THEN [authChallenge[c] EXCEPT !.type = "removed"] ELSE authChallenge[c]
      BY <1>6 DEF RemoveUser, TypeOK, RemovedRow
    <2>2. ASSUME NEW c \in Challenge
          PROVE  /\ authChallenge'[c].userId = authChallenge[c].userId
                 /\ authChallenge'[c].verified = authChallenge[c].verified
                 /\ authChallenge'[c].type = IF authChallenge[c].userId = u
                                            THEN "removed" ELSE authChallenge[c].type
      BY <2>1 DEF TypeOK, ChallengeRow
    <2>3. RowsConsistent'
      BY <2>1, <2>2 DEF RequestsEstablished, RowsConsistent
    <2>4. \A c \in Challenge : LinkGrows(c)
      BY <2>2 DEF LinkGrows
    <2>5. \A c \in Challenge : authChallenge[c] = Unissued =>
                               authChallenge'[c] = authChallenge[c]
      <3>1. Unissued.userId # u
        BY AuthAssumption DEF Unissued
      <3>2. QED
        BY <2>1, <3>1
    <2>6. QED
      BY <1>2, <2>3, <2>4, <2>5
  <1>7. ASSUME NEW u \in User, NEW st \in Status, UpdateStatus(u, st)
        PROVE  RequestsEstablished'
    <2>1. [user[u] EXCEPT !.status = st].status \in Status
      BY DEF TypeOK, UserRow
    <2>2. QED
      BY <1>5, <1>7, <2>1 DEF UpdateStatus
  <1>8. ASSUME NEW u \in User, EnableMfa(u) \/ DisableMfa(u)
        PROVE  RequestsEstablished'
    <2>1. user[u].status \in Status
      BY <1>8 DEF EnableMfa, DisableMfa, SetUser, Present
    <2>2. /\ [user[u] EXCEPT !.mfaEnabled = TRUE].status \in Status
          /\ [user[u] EXCEPT !.mfaEnabled = FALSE].status \in Status
      BY <2>1 DEF TypeOK, UserRow
    <2>3. QED
      BY <1>5, <1>8, <2>2 DEF EnableMfa, DisableMfa
  <1>9. QED
    BY <1>3, <1>4, <1>6, <1>7, <1>8
       DEF Environment, RevokeSession, ExpireSession, ExpireMfaToken

\* At every moment, every handler in progress has on record what it acts upon
\* when it goes on after an await (auth.service.ts:57-176, 251-695).
THEOREM HandlersEstablished == Spec => []RequestsEstablished
  <1>1. Init => RequestsEstablished
    BY DEF Init, RequestsEstablished, RowsConsistent, Active, Unissued, NewRow
  <1>2. TypeOK /\ RequestsEstablished /\ [Next]_vars => RequestsEstablished'
    <2> SUFFICES ASSUME TypeOK, RequestsEstablished, [Next]_vars
                 PROVE  RequestsEstablished'
      OBVIOUS
    <2>1. CASE UNCHANGED vars
      BY <2>1 DEF vars, RequestsEstablished, RowsConsistent, Established, Active, Holds
    <2>2. CASE Next
      BY <2>2, CallEstablished, ResumeEstablished, EnvironmentEstablished DEF Next
    <2>3. QED
      BY <2>1, <2>2
  <1>3. QED
    BY <1>1, <1>2, TypeCorrect, PTL DEF Spec

-----------------------------------------------------------------------------
(* Which steps grant anything.                                             *)

\* A step after an await moves its own request only.
LEMMA ResumeMovesItsOwn ==
  ASSUME TypeOK, NEW r \in Request, Resume(r), NEW q \in Request \ {r}
  PROVE  req'[q] = req[q]
  BY DEF Resume, IssueMagicLink, IssuePasswordReset, Issue, MarkMagicLink, MarkResetLink,
         Mark, CreateLdapUser, CreateRegisteredUser, CreateAddedUser, Create, Compare,
         WriteReset, WriteChanged, WriteTemporary, SkipTemporary, WriteRegistered,
         TouchMagicLink, TouchPassword, TouchMfa, TouchLdap, Touch, CreateMfaToken,
         CreateSession, Goto, Return, TypeOK

\* A call takes a free slot, moves no other request and spends no link.
LEMMA CallStarts ==
  ASSUME NEW r \in Request, Call(r)
  PROVE  /\ UNCHANGED <<user, authChallenge, session, mfaToken, uses>>
         /\ \E pc, op, u, args : Start(r, pc, op, u, args)
  BY DEF Call, RequestMagicLink, RequestPasswordReset, RequestLink, VerifyMagicLink,
         ResetPassword, LoginWithPassword, LdapLogin, RegisterWithPassword, CreateUser,
         ChangePassword, VerifyChallenge

\* Time and the other services move no request and spend no link.
LEMMA EnvironmentMovesNoRequest ==
  ASSUME Environment
  PROVE  UNCHANGED <<req, uses>>
  BY DEF Environment, RevokeSession, ExpireSession, ExpireChallenge, ExpireMfaToken,
         UpdateStatus, EnableMfa, DisableMfa, SetUser, RemoveUser

\* Only a step after an await ends a request.
LEMMA OnlyResumeEnds ==
  ASSUME TypeOK, Next, NEW r \in Request, Active(r), req'[r] = Idle
  PROVE  Resume(r)
  <1>1. ASSUME NEW q \in Request, Call(q)
        PROVE  FALSE
    BY <1>1, CallStarts DEF Start, TypeOK, Active, Idle
  <1>2. ASSUME NEW q \in Request \ {r}, Resume(q)
        PROVE  FALSE
    BY <1>2, ResumeMovesItsOwn DEF Active
  <1>3. CASE Environment
    BY <1>3, EnvironmentMovesNoRequest DEF Active
  <1>4. QED
    BY <1>1, <1>2, <1>3 DEF Next

\* A session is opened by createSession alone.
LEMMA SessionOpened ==
  ASSUME TypeOK, Next, NEW r \in Request, NEW u \in User, OpensSession(r, u)
  PROVE  CreateSession(r)
  <1>1. Resume(r)
    BY OnlyResumeEnds DEF OpensSession, Ends
  <1>2. session' # session
    BY AuthAssumption DEF OpensSession
  <1>3. QED
    BY <1>1, <1>2
       DEF Resume, IssueMagicLink, IssuePasswordReset, Issue, MarkMagicLink,
           MarkResetLink, Mark, CreateLdapUser, CreateRegisteredUser, CreateAddedUser,
           Create, Compare, WriteReset, WriteChanged, WriteTemporary, WritePassword,
           SkipTemporary, WriteRegistered, TouchMagicLink, TouchPassword, TouchMfa,
           TouchLdap, Touch, CreateMfaToken

\* An MFA token is issued by createMfaToken alone.
LEMMA TokenIssued ==
  ASSUME TypeOK, Next, NEW r \in Request, NEW u \in User, GetsToken(r, u)
  PROVE  CreateMfaToken(r)
  <1>1. Resume(r)
    BY OnlyResumeEnds DEF GetsToken, Ends
  <1>2. mfaToken' # mfaToken
    BY DEF GetsToken
  <1>3. QED
    BY <1>1, <1>2
       DEF Resume, IssueMagicLink, IssuePasswordReset, Issue, MarkMagicLink,
           MarkResetLink, Mark, CreateLdapUser, CreateRegisteredUser, CreateAddedUser,
           Create, Compare, WriteReset, WriteChanged, WriteTemporary, WritePassword,
           SkipTemporary, WriteRegistered, TouchMagicLink, TouchPassword, TouchMfa,
           TouchLdap, Touch, CreateSession

\* A local sign-in is granted what one state of the row during the request
\* entitled it to, for any number of overlapping requests
\* (auth.service.ts:474-576).
THEOREM PasswordGrantsAreJustified == Spec => PasswordGrantsJustified
  <1> DEFINE Justified ==
        \A r \in Request, u \in User :
          req[r] # Idle /\ req[r].op = "loginWithPassword" =>
            /\ OpensSession(r, u) => "acceptedWithoutMfa" \in seen[r]
            /\ GetsToken(r, u) => "accepted" \in seen[r]
  <1>1. TypeOK /\ RequestsEstablished /\ Next => Justified
    <2> SUFFICES ASSUME TypeOK, RequestsEstablished, Next,
                        NEW r \in Request, NEW u \in User,
                        Active(r), req[r].op = "loginWithPassword"
                 PROVE  /\ OpensSession(r, u) => "acceptedWithoutMfa" \in seen[r]
                        /\ GetsToken(r, u) => "accepted" \in seen[r]
      BY DEF Active
    <2>1. Established(r)
      BY DEF RequestsEstablished
    <2>2. OpensSession(r, u) => ~req[r].mfaEnabled
      BY SessionOpened DEF CreateSession, NeedsSecondFactor, FirstFactorOps
    <2>3. QED
      BY <2>1, <2>2 DEF Established
  <1>2. TypeOK /\ RequestsEstablished /\ [Next]_vars => [Justified]_vars
    BY <1>1
  <1>3. Spec => [][Justified]_vars
    BY <1>2, TypeCorrect, HandlersEstablished, PTL DEF Spec
  <1>4. QED
    BY <1>3 DEF PasswordGrantsJustified

\* Whatever is granted on a link goes to the link's user, after the link was
\* marked used (auth.service.ts:88-176).
THEOREM LinkGrantsAreJustified == Spec => LinkGrantsJustified
  <1> DEFINE Justified ==
        \A r \in Request, u \in User :
          /\ req[r] # Idle /\ req[r].op = "verifyMagicLink"
          /\ OpensSession(r, u) \/ GetsToken(r, u)
          => /\ authChallenge[req[r].challenge].verified
             /\ authChallenge[req[r].challenge].userId = u
  <1>1. TypeOK /\ RequestsEstablished /\ Next => Justified
    <2> SUFFICES ASSUME TypeOK, RequestsEstablished, Next,
                        NEW r \in Request, NEW u \in User,
                        Active(r), req[r].op = "verifyMagicLink",
                        OpensSession(r, u) \/ GetsToken(r, u)
                 PROVE  /\ authChallenge[req[r].challenge].verified
                        /\ authChallenge[req[r].challenge].userId = u
      BY DEF Active
    <2>1. Established(r)
      BY DEF RequestsEstablished
    <2>2. req[r].pc = "open" /\ req[r].userId = u
      BY SessionOpened, TokenIssued
         DEF CreateSession, CreateMfaToken, OpensSession, GetsToken, Ends
    <2>3. QED
      BY <2>1, <2>2 DEF Established
  <1>2. TypeOK /\ RequestsEstablished /\ [Next]_vars => [Justified]_vars
    BY <1>1
  <1>3. Spec => [][Justified]_vars
    BY <1>2, TypeCorrect, HandlersEstablished, PTL DEF Spec
  <1>4. QED
    BY <1>3 DEF LinkGrantsJustified

\* MFA that was on from a request's first read to its end is never skipped
\* (auth.service.ts:125-165, 423-475, 512-565).
THEOREM SecondFactorIsRespected == Spec => SecondFactorRespected
  <1> DEFINE Justified ==
        \A r \in Request, u \in User :
          /\ req[r] # Idle /\ req[r].op \in FirstFactorOps
          /\ OpensSession(r, u)
          => seen[r] \cap {"withoutMfa", "acceptedWithoutMfa"} # {}
  <1>1. TypeOK /\ RequestsEstablished /\ Next => Justified
    <2> SUFFICES ASSUME TypeOK, RequestsEstablished, Next,
                        NEW r \in Request, NEW u \in User,
                        Active(r), req[r].op \in FirstFactorOps, OpensSession(r, u)
                 PROVE  seen[r] \cap {"withoutMfa", "acceptedWithoutMfa"} # {}
      BY DEF Active
    <2>1. Established(r)
      BY DEF RequestsEstablished
    <2>2. ~req[r].mfaEnabled
      BY SessionOpened DEF CreateSession, NeedsSecondFactor
    <2>3. QED
      BY <2>1, <2>2 DEF Established, FirstFactorOps
  <1>2. TypeOK /\ RequestsEstablished /\ [Next]_vars => [Justified]_vars
    BY <1>1
  <1>3. Spec => [][Justified]_vars
    BY <1>2, TypeCorrect, HandlersEstablished, PTL DEF Spec
  <1>4. QED
    BY <1>3 DEF SecondFactorRespected

-----------------------------------------------------------------------------
(* Which steps write a password.                                           *)

\* The only steps that replace a password are those that write one.
LEMMA PasswordWrittenBy ==
  ASSUME TypeOK, Next, RequestsEstablished, NEW u \in User,
         user'[u].passwordHash # user[u].passwordHash, user'[u].status # "removed"
  PROVE  \E r \in Request :
           /\ Active(r) /\ req[r].userId = u
           /\ user'[u].passwordHash = req[r].password
           /\ \/ /\ \E op : WritePassword(r, op)
                 /\ req[r].op \in {"resetPassword", "changePassword", "createUser",
                                   "registerWithPassword"}
                 /\ Present(u)
              \/ req[r].op = "registerWithPassword"
  <1>1. user' # user
    OBVIOUS
  <1>2. ASSUME NEW r \in Request, Call(r)
        PROVE  FALSE
    BY <1>1, <1>2, CallStarts
  <1>3. ASSUME Environment
        PROVE  FALSE
    <2>1. ASSUME NEW v \in User, NEW row, row.passwordHash = user[v].passwordHash,
                 SetUser(v, row)
          PROVE  FALSE
      BY <2>1 DEF SetUser, TypeOK
    <2>2. ASSUME NEW v \in User, RemoveUser(v)
          PROVE  FALSE
      BY <2>2 DEF RemoveUser, RemovedRow, TypeOK
    <2>3. ASSUME NEW v \in User
          PROVE  /\ \A st : [user[v] EXCEPT !.status = st].passwordHash = user[v].passwordHash
                 /\ \A b : [user[v] EXCEPT !.mfaEnabled = b].passwordHash = user[v].passwordHash
      BY DEF TypeOK, UserRow
    <2>4. QED
      BY <1>1, <1>3, <2>1, <2>2, <2>3
         DEF Environment, RevokeSession, ExpireSession, ExpireChallenge, ExpireMfaToken,
             UpdateStatus, EnableMfa, DisableMfa
  <1>4. ASSUME NEW r \in Request, NEW op, NEW row,
               Active(r) => row.passwordHash = user[req[r].userId].passwordHash,
               Touch(r, op, row)
        PROVE  FALSE
    <2>1. Active(r) /\ req[r].userId \in User
      BY <1>4, RowType DEF Touch, At
    <2>2. QED
      BY <1>1, <1>4, <2>1 DEF Touch, TypeOK
  <1>5. ASSUME NEW r \in Request, Resume(r)
        PROVE  \/ CreateLdapUser(r) \/ CreateRegisteredUser(r) \/ CreateAddedUser(r)
               \/ WriteReset(r) \/ WriteChanged(r) \/ WriteTemporary(r)
               \/ WriteRegistered(r)
    <2>1. ~(TouchMagicLink(r) \/ TouchPassword(r) \/ TouchMfa(r))
      BY <1>4 DEF TouchMagicLink, TouchPassword, TouchMfa
    <2>2. ~TouchLdap(r)
      <3>1. Active(r) => [user[req[r].userId] EXCEPT !.status = "ACTIVE"].passwordHash
                           = user[req[r].userId].passwordHash
        BY RowType DEF UserRow
      <3>2. QED
        BY <1>4, <3>1 DEF TouchLdap
    <2>3. QED
      BY <1>1, <1>5, <2>1, <2>2
         DEF Resume, IssueMagicLink, IssuePasswordReset, Issue, MarkMagicLink,
             MarkResetLink, Mark, Compare, SkipTemporary, CreateMfaToken, CreateSession
  <1>6. ASSUME NEW r \in Request, NEW op, NEW hash, NEW next, Create(r, op, hash, next)
        PROVE  /\ Active(r) /\ req[r].userId = u /\ req[r].op = op
               /\ user'[u].passwordHash = hash /\ user[u].passwordHash = None
    <2>1. Active(r) /\ req[r].userId \in User /\ req[r].op = op
      BY <1>6, RowType DEF Create, At
    <2>2. /\ user[req[r].userId].status = "absent"
          /\ user' = [user EXCEPT ![req[r].userId] = NewRow(hash)]
      BY <1>1, <1>6 DEF Create
    <2>3. req[r].userId = u /\ user'[u].passwordHash = hash
      BY <2>1, <2>2 DEF TypeOK, NewRow
    <2>4. user[u].passwordHash = None
      BY <2>2, <2>3 DEF RequestsEstablished, RowsConsistent, AbsentRow
    <2>5. QED
      BY <2>1, <2>3, <2>4
  <1>7. ASSUME NEW r \in Request, NEW op, WritePassword(r, op)
        PROVE  /\ Active(r) /\ req[r].userId = u /\ req[r].op = op
               /\ user'[u].passwordHash = req[r].password
               /\ Present(u)
    <2>1. Active(r) /\ req[r].userId \in User /\ req[r].op = op
      BY <1>7, RowType DEF WritePassword, At
    <2>2. /\ Present(req[r].userId)
          /\ user' = [user EXCEPT ![req[r].userId].passwordHash = req[r].password]
      BY <1>1, <1>7 DEF WritePassword
    <2>3. req[r].userId = u /\ user'[u].passwordHash = req[r].password
      BY <2>1, <2>2 DEF TypeOK, UserRow
    <2>4. QED
      BY <2>1, <2>2, <2>3
  <1>8. PICK r \in Request : Resume(r)
    BY <1>2, <1>3 DEF Next
  <1>9. CASE CreateLdapUser(r) \/ CreateAddedUser(r)
    BY <1>6, <1>9 DEF CreateLdapUser, CreateAddedUser
  <1>10. CASE CreateRegisteredUser(r)
    BY <1>6, <1>10 DEF CreateRegisteredUser
  <1>11. CASE WriteReset(r) \/ WriteChanged(r) \/ WriteTemporary(r) \/ WriteRegistered(r)
    BY <1>7, <1>11 DEF WriteReset, WriteChanged, WriteTemporary, WriteRegistered
  <1>12. QED
    BY <1>5, <1>8, <1>9, <1>10, <1>11

\* A password is replaced only by a handler entitled to it (auth.service.ts:259-271,
\* 613-695; users.service.ts:165-178).
THEOREM PasswordWritesAreJustified == Spec => PasswordWritesJustified
  <1> DEFINE Justified ==
        \A u \in User :
          user'[u].passwordHash # user[u].passwordHash
            /\ user'[u].status # "removed" =>
          \E r \in Request :
            /\ Active(r) /\ req[r].userId = u
            /\ user'[u].passwordHash = req[r].password
            /\ CASE req[r].op = "resetPassword" ->
                      /\ authChallenge[req[r].challenge].verified
                      /\ authChallenge[req[r].challenge].userId = u
                      /\ authChallenge[req[r].challenge].type = "PASSWORD_RESET"
                 [] req[r].op = "changePassword" -> "currentPassword" \in seen[r]
                 [] req[r].op \in {"registerWithPassword", "createUser"} ->
                      "noPassword" \in seen[r]
                 [] OTHER -> FALSE
  <1>1. TypeOK /\ RequestsEstablished /\ Next => Justified
    <2> SUFFICES ASSUME TypeOK, RequestsEstablished, Next, NEW u \in User,
                        user'[u].passwordHash # user[u].passwordHash,
                        user'[u].status # "removed"
                 PROVE  \E r \in Request :
                          /\ Active(r) /\ req[r].userId = u
                          /\ user'[u].passwordHash = req[r].password
                          /\ CASE req[r].op = "resetPassword" ->
                                    /\ authChallenge[req[r].challenge].verified
                                    /\ authChallenge[req[r].challenge].userId = u
                                    /\ authChallenge[req[r].challenge].type = "PASSWORD_RESET"
                               [] req[r].op = "changePassword" -> "currentPassword" \in seen[r]
                               [] req[r].op \in {"registerWithPassword", "createUser"} ->
                                    "noPassword" \in seen[r]
                               [] OTHER -> FALSE
      OBVIOUS
    <2>1. PICK r \in Request :
            /\ Active(r) /\ req[r].userId = u
            /\ user'[u].passwordHash = req[r].password
            /\ \/ /\ \E op : WritePassword(r, op)
                  /\ req[r].op \in {"resetPassword", "changePassword", "createUser",
                                    "registerWithPassword"}
                  /\ Present(u)
               \/ req[r].op = "registerWithPassword"
      BY PasswordWrittenBy
    <2>2. Established(r)
      BY <2>1 DEF RequestsEstablished
    <2>3. CASE req[r].op = "registerWithPassword"
      BY <2>1, <2>2, <2>3 DEF Established
    <2>4. CASE req[r].op # "registerWithPassword"
      <3>1. req[r].pc = "write" /\ Present(u)
        BY <2>1, <2>4 DEF WritePassword, At
      <3>2. req[r].op = "resetPassword" =>
              /\ authChallenge[req[r].challenge].verified
              /\ authChallenge[req[r].challenge].userId = u
              /\ authChallenge[req[r].challenge].type = "PASSWORD_RESET"
        BY <2>1, <2>2, <3>1
           DEF Established, RequestsEstablished, RowsConsistent, Present, Status
      <3>3. QED
        BY <2>1, <2>2, <2>4, <3>1, <3>2 DEF Established
    <2>5. QED
      BY <2>3, <2>4
  <1>2. TypeOK /\ RequestsEstablished /\ [Next]_vars => [Justified]_vars
    BY <1>1
  <1>3. Spec => [][Justified]_vars
    BY <1>2, TypeCorrect, HandlersEstablished, PTL DEF Spec
  <1>4. QED
    BY <1>3 DEF PasswordWritesJustified

-----------------------------------------------------------------------------
(* A used or expired link that nobody holds stays dead.                    *)

\* A spent link stays spent in a step that leaves it alone and takes hold of it
\* in no request.
LEMMA SpentByOthers ==
  ASSUME TypeOK, NEW c \in Challenge, Spent(c), NEW r \in Request,
         \A q \in Request \ {r} : req'[q] = req[q],
         Active(r)' => req'[r].challenge # c,
         authChallenge'[c] = authChallenge[c]
  PROVE  Spent(c)'
  BY DEF Spent, Holds, Active

\* A call does not revive a spent link, or take hold of it.
LEMMA SpentByCall ==
  ASSUME TypeOK, NEW c \in Challenge, Spent(c), NEW r \in Request, Call(r)
  PROVE  Spent(c)' /\ uses'[c] = uses[c]
  <1> USE DEF Args, NoArgs
  <1>1. ASSUME NEW pc, NEW op, NEW u, NEW args, Start(r, pc, op, u, args),
               args.challenge # c
        PROVE  /\ req'[r].challenge # c
               /\ \A q \in Request \ {r} : req'[q] = req[q]
    BY <1>1 DEF Start, TypeOK
  <1>2. \E pc, op, u, args : Start(r, pc, op, u, args) /\ args.challenge # c
    <2>1. \A d \in Challenge : authChallenge[d] = Unissued => d # c
      BY DEF Spent, Unissued
    <2>2. \A d \in Challenge : Redeemable(d) => d # c
      BY DEF Spent, Redeemable
    <2>3. None # c
      BY AuthAssumption
    <2>4. ASSUME NEW u \in User, NEW d \in Challenge, NEW op, RequestLink(r, u, d, op)
          PROVE  \E pc, o, v, args : Start(r, pc, o, v, args) /\ args.challenge # c
      BY <2>1, <2>4 DEF RequestLink
    <2>5. ASSUME NEW d \in Challenge, VerifyMagicLink(r, d)
          PROVE  \E pc, o, v, args : Start(r, pc, o, v, args) /\ args.challenge # c
      BY <2>2, <2>5 DEF VerifyMagicLink
    <2>6. ASSUME NEW d \in Challenge, NEW p \in Password, ResetPassword(r, d, p)
          PROVE  \E pc, o, v, args : Start(r, pc, o, v, args) /\ args.challenge # c
      BY <2>2, <2>6 DEF ResetPassword
    <2>7. ASSUME NEW u \in User, NEW p \in Password, NEW cur \in Password,
                 \/ LoginWithPassword(r, u, p) \/ RegisterWithPassword(r, u, p)
                 \/ CreateUser(r, u, p) \/ ChangePassword(r, u, cur, p)
          PROVE  \E pc, o, v, args : Start(r, pc, o, v, args) /\ args.challenge # c
      <3>1. /\ Args(None, p, None).challenge # c
            /\ Args(None, p, cur).challenge # c
        BY <2>3
      <3>2. \E pc, op, args : /\ Start(r, pc, op, u, args)
                             /\ args \in {Args(None, p, None), Args(None, p, cur)}
        BY <2>7 DEF LoginWithPassword, RegisterWithPassword, CreateUser, ChangePassword
      <3>3. QED
        BY <3>1, <3>2
    <2>8. ASSUME NEW u \in User, VerifyChallenge(r, u) \/ LdapLogin(r, u)
          PROVE  \E pc, o, v, args : Start(r, pc, o, v, args) /\ args.challenge # c
      BY <2>3, <2>8 DEF VerifyChallenge, LdapLogin
    <2>9. QED
      BY <2>4, <2>5, <2>6, <2>7, <2>8 DEF Call, RequestMagicLink, RequestPasswordReset
  <1>3. UNCHANGED <<authChallenge, uses>>
    BY CallStarts
  <1>4. QED
    BY <1>1, <1>2, <1>3, SpentByOthers

\* Nor does a step after an await.
LEMMA SpentByResume ==
  ASSUME TypeOK, NEW c \in Challenge, Spent(c), NEW r \in Request, Resume(r)
  PROVE  Spent(c)' /\ uses'[c] = uses[c]
  <1>1. Active(r) /\ req[r].challenge # c /\ req[r] \in RequestState
    <2>1. Active(r)
      BY DEF Resume, IssueMagicLink, IssuePasswordReset, Issue, MarkMagicLink,
             MarkResetLink, Mark, CreateLdapUser, CreateRegisteredUser, CreateAddedUser,
             Create, Compare, WriteReset, WriteChanged, WriteTemporary, SkipTemporary,
             WriteRegistered, WritePassword, TouchMagicLink, TouchPassword, TouchMfa,
             TouchLdap, Touch, CreateMfaToken, CreateSession, At
    <2>2. QED
      BY <2>1, ActiveType DEF Spent, Holds
  <1>2. \A q \in Request \ {r} : req'[q] = req[q]
    BY ResumeMovesItsOwn
  <1>3. authChallenge'[c] = authChallenge[c]
    BY <1>1 DEF Resume, IssueMagicLink, IssuePasswordReset, Issue, MarkMagicLink,
             MarkResetLink, Mark, CreateLdapUser, CreateRegisteredUser, CreateAddedUser,
             Create, Compare, WriteReset, WriteChanged, WriteTemporary, SkipTemporary,
             WriteRegistered, WritePassword, TouchMagicLink, TouchPassword, TouchMfa,
             TouchLdap, Touch, CreateMfaToken, CreateSession, TypeOK
  <1>4. uses'[c] = uses[c]
    BY <1>1 DEF Resume, IssueMagicLink, IssuePasswordReset, Issue, MarkMagicLink,
             MarkResetLink, Mark, CreateLdapUser, CreateRegisteredUser, CreateAddedUser,
             Create, Compare, WriteReset, WriteChanged, WriteTemporary, SkipTemporary,
             WriteRegistered, TouchMagicLink, TouchPassword, TouchMfa,
             TouchLdap, Touch, CreateMfaToken, CreateSession, CountUse, TypeOK
  <1>5. Active(r)' => req'[r].challenge # c
    <2>1. \/ Return(r)
          \/ \E pc \in PC : Goto(r, pc)
          \/ \E pc \in PC : req' = [req EXCEPT ![r].pc = pc, ![r].mfaEnabled = FALSE]
      BY DEF Resume, IssueMagicLink, IssuePasswordReset, Issue, MarkMagicLink,
             MarkResetLink, Mark, CreateLdapUser, CreateRegisteredUser, CreateAddedUser,
             Create, Compare, WriteReset, WriteChanged, WriteTemporary, SkipTemporary,
             WriteRegistered, TouchMagicLink, TouchPassword, TouchMfa,
             TouchLdap, Touch, CreateMfaToken, CreateSession, PC
    <2>2. QED
      BY <1>1, <2>1, ReturnEffect, GotoEffect DEF TypeOK, RequestState
  <1>6. QED
    BY <1>2, <1>3, <1>4, <1>5, SpentByOthers

\* A link that was used or has expired is dead once no request in progress
\* holds it (auth.service.ts:95-111, 613-638).
THEOREM SpentLinksAreDead == Spec => SpentLinksStayDead
  <1> DEFINE Dead == \A c \in Challenge : Spent(c) => Spent(c)' /\ uses'[c] = uses[c]
  <1>1. TypeOK /\ Next => Dead
    <2> SUFFICES ASSUME TypeOK, Next, NEW c \in Challenge, Spent(c)
                 PROVE  Spent(c)' /\ uses'[c] = uses[c]
      OBVIOUS
    <2>1. CASE Environment
      <3>1. UNCHANGED <<req, uses>>
        BY <2>1, EnvironmentMovesNoRequest
      <3>2. /\ authChallenge'[c].type # "unissued"
            /\ authChallenge'[c].verified = authChallenge[c].verified
            /\ authChallenge[c].expired => authChallenge'[c].expired
        BY <2>1 DEF Spent, Environment, RevokeSession, ExpireSession, ExpireChallenge,
             ExpireMfaToken, UpdateStatus, EnableMfa, DisableMfa, SetUser, RemoveUser,
             TypeOK, ChallengeRow
      <3>3. QED
        BY <3>1, <3>2 DEF Spent, Holds, Active
    <2>2. QED
      BY <2>1, SpentByCall, SpentByResume DEF Next
  <1>2. TypeOK /\ [Next]_vars => [Dead]_vars
    BY <1>1
  <1>3. Spec => [][Dead]_vars
    BY <1>2, TypeCorrect, PTL DEF Spec
  <1>4. QED
    BY <1>3 DEF SpentLinksStayDead
=============================================================================
