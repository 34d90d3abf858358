---------------------------- MODULE DirectoryProofs ----------------------------
(* Theorems about Directory for any accounts, external subjects, requests and *)
(* choice of roles: the types, that the highest rank is closed and its        *)
(* SUPER_ADMINs stand while none of them acts, whose account an external      *)
(* subject gets, and what may change a status.                                *)
EXTENDS Directory, TLAPS

-----------------------------------------------------------------------------
(* The inductive invariant.                                                *)

\* What a request in progress is about, by where it stands.
AboutSound(r) ==
  LET q == req[r]
  IN  /\ q.pc # "idle" => q.target \in Accounts
      /\ q.pc \in {"target", "actor"} => q.actor \in Accounts
      /\ q.pc = "target" => q.op \in {"update", "remove"}
      /\ q.pc = "actor" => q.op \in {"create", "update", "remove"}
      /\ q.pc = "create" => q.op = "create"
      /\ q.op = "create" => q.role # None

RequestsSound == \A r \in Requests : AboutSound(r)

\* While nobody of the highest rank acts, no account passes it, no actor under
\* way has become a SUPER_ADMIN, and the roles about to be written are below it.
BelowCeiling(r) ==
  LET q == req[r]
  IN  /\ q.pc \in {"target", "actor"} /\ There(q.actor) =>
           account[q.actor].role # "SUPER_ADMIN"
      /\ q.pc \in {"write", "create"} /\ q.role # None => RoleWeight[q.role] < ceiling

CeilingSound ==
  ceiling # None =>
    /\ ceiling >= RoleWeight["READ_ONLY_ADMIN"]
    /\ \A a \in Accounts : There(a) => Rank(a) <= ceiling
    /\ \A r \in Requests : BelowCeiling(r)

\* A request about a SUPER_ADMIN knows what it is about before it is allowed,
\* and is not allowed a change of role or a removal.
SparesElders(r) ==
  LET q == req[r]
  IN  q.target \in elders =>
        /\ q.pc = "actor" /\ q.op # "create" => q.seen = "SUPER_ADMIN"
        /\ q.pc = "write" => q.role = None
        /\ q.pc # "delete"

EldersSound ==
  ceiling = RoleWeight["SUPER_ADMIN"] => \A r \in Requests : SparesElders(r)

IInv ==
  /\ TypeOK /\ RequestsSound
  /\ CeilingSound /\ TopRankClosed
  /\ EldersSound /\ SuperAdminsStand
  /\ IdentityOfOrigin

-----------------------------------------------------------------------------
(* Roles, rows and requests.                                               *)

\* SUPER_ADMIN is above every other role, READ_ONLY_ADMIN below.
LEMMA RoleWeights ==
  /\ RoleWeight["SUPER_ADMIN"] = 100
  /\ RoleWeight["READ_ONLY_ADMIN"] = 10
  /\ \A role \in OrgRole :
       /\ RoleWeight[role] \in 10 .. 100
       /\ RoleWeight[role] >= 100 => role = "SUPER_ADMIN"
  BY DEF RoleWeight, OrgRole

\* The roles in use are roles.
LEMMA RolesAreRoles ==
  /\ \A role \in Roles : role \in OrgRole /\ role # None
  /\ "READ_ONLY_ADMIN" \in Roles
  BY DirectoryAssumption

\* A free slot.
LEMMA IdleType ==
  /\ Idle \in Request
  /\ Idle.pc = "idle" /\ Idle.op = "scim" /\ Idle.target = None
  BY DEF Idle, Request, PC, Op

\* A request's new state replaces its old one, and no other's.
LEMMA EnterEffect ==
  ASSUME TypeOK, NEW r \in Requests, NEW q \in Request, Enter(r, q)
  PROVE  /\ req' \in [Requests -> Request]
         /\ req'[r] = q
         /\ \A p \in Requests \ {r} : req'[p] = req[p]
  BY DEF TypeOK, Enter

\* Finishing frees the slot.
LEMMA FinishEffect ==
  ASSUME TypeOK, NEW r \in Requests, Finish(r)
  PROVE  /\ req' \in [Requests -> Request]
         /\ req'[r] = Idle
         /\ \A p \in Requests \ {r} : req'[p] = req[p]
  BY IdleType, EnterEffect DEF Finish

\* A slot that is free, or waits to write a status, asks nothing.
LEMMA QuietSound ==
  ASSUME NEW r \in Requests, req'[r].pc \in {"idle", "status"}, req'[r].op # "create",
         req'[r].pc = "status" => req'[r].target \in Accounts
  PROVE  AboutSound(r)' /\ BelowCeiling(r)' /\ SparesElders(r)'
  BY DEF AboutSound, BelowCeiling, SparesElders

\* A row that is there has a role.
Whole(row) == row \in Account /\ (row.state # "there" <=> row.role = None)

\* The rows of the user table are whole.
LEMMA RowsWhole ==
  ASSUME TypeOK, NEW a \in Accounts
  PROVE  /\ Whole(account[a])
         /\ There(a) => account[a].role \in Roles
  BY DEF TypeOK, Whole, There, Account

\* An update writes what is mentioned, and no row where there is none.
LEMMA UpdatedEffect ==
  ASSUME NEW row, Whole(row), NEW role \in Roles \cup {None}, NEW status \in Status \cup {None}
  PROVE  LET new == Updated(row, role, status)
         IN  /\ Whole(new)
             /\ new.state = row.state /\ new.origin = row.origin
             /\ new.role \in {row.role, role}
             /\ role = None => new.role = row.role
             /\ new.status \in {row.status, status}
             /\ row.state # "there" => new = row
             /\ status = None => new.status = row.status
  <1>1. CASE row.state # "there"
    BY <1>1 DEF Updated, Whole
  <1>2. CASE row.state = "there"
    <2> DEFINE ro == IF role = None THEN row.role ELSE role
               st == IF status = None THEN row.status ELSE status
    <2>1. Updated(row, role, status) = [row EXCEPT !.role = ro, !.status = st]
      BY <1>2 DEF Updated, Whole, Account
    <2>2. ro \in Roles \cup {None} /\ st \in Status \cup {None} /\ ro # None
      BY <1>2 DEF Whole, Account
    <2> HIDE DEF ro, st
    <2>3. /\ [row EXCEPT !.role = ro, !.status = st] \in Account
          /\ [row EXCEPT !.role = ro, !.status = st].state = row.state
          /\ [row EXCEPT !.role = ro, !.status = st].origin = row.origin
          /\ [row EXCEPT !.role = ro, !.status = st].role = ro
          /\ [row EXCEPT !.role = ro, !.status = st].status = st
      BY <2>2 DEF Whole, Account
    <2>4. QED
      BY <1>2, <2>1, <2>2, <2>3 DEF Whole, ro, st
  <1>3. QED
    BY <1>1, <1>2

-----------------------------------------------------------------------------
(* Two kinds of steps.                                                     *)

\* A request that goes on, or starts or ends, while the tables stay: either the
\* ceiling is lifted, or the request keeps below it.
LEMMA OneAsks ==
  ASSUME IInv, NEW r \in Requests, UNCHANGED <<account, identity>>,
         req' \in [Requests -> Request], \A p \in Requests \ {r} : req'[p] = req[p],
         \/ ceiling' = None /\ elders' = {}
         \/ ceiling' = ceiling /\ elders' = elders,
         AboutSound(r)', ceiling' # None => BelowCeiling(r)',
         ceiling' = RoleWeight["SUPER_ADMIN"] => SparesElders(r)'
  PROVE  IInv'
  <1> USE DEF IInv
  <1>1. TypeOK'
    BY DEF TypeOK
  <1>2. RequestsSound'
    BY DEF RequestsSound, AboutSound
  <1>3. CeilingSound'
    BY DEF CeilingSound, BelowCeiling, There, Rank
  <1>4. TopRankClosed'
    BY DEF TopRankClosed, There, Rank
  <1>5. EldersSound'
    BY DEF EldersSound, SparesElders
  <1>6. SuperAdminsStand'
    BY DEF SuperAdminsStand, There
  <1>7. IdentityOfOrigin'
    BY DEF IdentityOfOrigin, There
  <1>8. QED
    BY <1>1, <1>2, <1>3, <1>4, <1>5, <1>6, <1>7

\* A request that writes one account and then asks nothing more of anybody.
LEMMA OneWrites ==
  ASSUME IInv, NEW r \in Requests, NEW a \in Accounts, UNCHANGED history,
         account' \in [Accounts -> Account], Whole(account'[a]),
         \A b \in Accounts \ {a} : account'[b] = account[b],
         identity' \in [Externals -> Accounts \cup {None}],
         req' \in [Requests -> Request], \A p \in Requests \ {r} : req'[p] = req[p],
         req'[r].pc \in {"idle", "status"}, req'[r].op # "create",
         req'[r].pc = "status" => req'[r].target \in Accounts,
         ceiling # None /\ There(a)' =>
           \/ account'[a].role = "READ_ONLY_ADMIN"
           \/ RoleWeight[account'[a].role] < ceiling
           \/ There(a) /\ account'[a].role = account[a].role,
         ceiling = RoleWeight["SUPER_ADMIN"] /\ a \in elders =>
           account'[a].state = account[a].state /\ account'[a].role = account[a].role,
         IdentityOfOrigin'
  PROVE  IInv'
  <1> USE DEF IInv
  <1>1. TypeOK'
    <2>1. \A b \in Accounts : account'[b].state # "there" <=> account'[b].role = None
      BY DEF TypeOK, Whole
    <2>2. QED
      BY <2>1 DEF TypeOK, history
  <1>2. AboutSound(r)' /\ BelowCeiling(r)' /\ SparesElders(r)'
    BY QuietSound
  <1>3. RequestsSound'
    BY <1>2 DEF RequestsSound, AboutSound
  <1>4. There(a)' => account'[a].role \in Roles
    BY <1>1, RowsWhole DEF There, Account, TypeOK, Whole
  <1>5. ASSUME ceiling # None
        PROVE  /\ There(a)' => Rank(a)' <= ceiling
               /\ There(a)' /\ Rank(a)' >= ceiling =>
                    a \in elders \/ account'[a].role = "READ_ONLY_ADMIN"
               /\ There(a)' /\ account'[a].role = "SUPER_ADMIN" =>
                    There(a) /\ account[a].role = "SUPER_ADMIN"
    <2>1. ceiling \in 10 .. 100
      BY <1>5, RoleWeights DEF TypeOK, CeilingSound
    <2> SUFFICES ASSUME There(a)'
                 PROVE  /\ Rank(a)' <= ceiling
                        /\ Rank(a)' >= ceiling =>
                             a \in elders \/ account'[a].role = "READ_ONLY_ADMIN"
                        /\ account'[a].role = "SUPER_ADMIN" =>
                             There(a) /\ account[a].role = "SUPER_ADMIN"
      OBVIOUS
    <2>2. RoleWeight[account'[a].role] \in 10 .. 100
      BY <1>4, RoleWeights, RolesAreRoles
    <2>3. CASE account'[a].role = "READ_ONLY_ADMIN"
      BY <2>1, <2>3, RoleWeights DEF Rank
    <2>4. CASE RoleWeight[account'[a].role] < ceiling
      BY <2>1, <2>2, <2>4, RoleWeights DEF Rank
    <2>5. CASE There(a) /\ account'[a].role = account[a].role
      BY <1>5, <2>1, <2>2, <2>5 DEF Rank, CeilingSound, TopRankClosed
    <2>6. QED
      BY <1>5, <2>3, <2>4, <2>5
  <1>6. ceiling' = ceiling /\ elders' = elders
    BY DEF history
  <1>7. CeilingSound'
    <2> SUFFICES ASSUME ceiling # None
                 PROVE  /\ ceiling >= RoleWeight["READ_ONLY_ADMIN"]
                        /\ \A b \in Accounts : There(b)' => Rank(b)' <= ceiling
                        /\ \A p \in Requests : BelowCeiling(p)'
      BY <1>6 DEF CeilingSound
    <2>1. \A b \in Accounts \ {a} : There(b)' => Rank(b)' <= ceiling
      BY DEF CeilingSound, There, Rank
    <2>2. ASSUME NEW p \in Requests \ {r}
          PROVE  BelowCeiling(p)'
      <3>1. BelowCeiling(p) /\ req'[p] = req[p] /\ AboutSound(p)
        BY DEF CeilingSound, RequestsSound
      <3>2. req[p].pc \in {"target", "actor"} => req[p].actor \in Accounts
        BY <3>1 DEF AboutSound
      <3>3. QED
        BY <1>5, <1>6, <3>1, <3>2 DEF BelowCeiling, There
    <2>3. QED
      BY <1>2, <1>5, <2>1, <2>2 DEF CeilingSound
  <1>8. TopRankClosed'
    BY <1>5, <1>6 DEF TopRankClosed, There, Rank
  <1>9. EldersSound'
    BY <1>2, <1>6 DEF EldersSound, SparesElders
  <1>10. SuperAdminsStand'
    <2>1. elders \subseteq Accounts
      BY DEF TypeOK
    <2>2. QED
      BY <1>6, <2>1 DEF SuperAdminsStand, There
  <1>11. QED
    BY <1>1, <1>3, <1>7, <1>8, <1>9, <1>10

-----------------------------------------------------------------------------
(* The administrators' requests keep the invariant.                        *)

\* A request whose guards have passed: only while the actor is no SUPER_ADMIN
\* does the ceiling stand.
LEMMA PermittedStep ==
  ASSUME IInv, NEW r \in Requests, NEW actor \in Accounts, NEW op, Permitted(r, actor, op),
         NEW q \in Request, Enter(r, q), q.actor = actor, q.target \in Accounts,
         \/ q.pc = "actor" /\ q.op = "create" /\ q.role # None
         \/ q.pc = "target" /\ q.op \in {"update", "remove"}
  PROVE  IInv'
  <1> USE DEF IInv
  <1>1. /\ There(actor) /\ UNCHANGED <<account, identity>>
        /\ \/ ceiling' = None /\ elders' = {}
           \/ ceiling' = ceiling /\ elders' = elders /\ account[actor].role # "SUPER_ADMIN"
    BY DEF Permitted, Note
  <1>2. /\ req' \in [Requests -> Request] /\ req'[r] = q
        /\ \A p \in Requests \ {r} : req'[p] = req[p]
    BY EnterEffect
  <1>3. AboutSound(r)'
    BY <1>2 DEF AboutSound
  <1>4. ceiling' # None => BelowCeiling(r)'
    BY <1>1, <1>2 DEF BelowCeiling, There
  <1>5. SparesElders(r)'
    BY <1>2 DEF SparesElders
  <1>6. QED
    BY <1>1, <1>2, <1>3, <1>4, <1>5, OneAsks

\* The three requests of users.controller.
LEMMA AdministrationStarts ==
  ASSUME IInv, NEW r \in Requests, NEW actor \in Accounts, NEW a \in Accounts,
         \/ \E role \in Roles : CreateUser(r, actor, a, role)
         \/ \E role \in Roles \cup {None}, status \in Status \cup {None} :
              UpdateUser(r, actor, a, role, status)
         \/ RemoveUser(r, actor, a)
  PROVE  IInv'
  <1>1. ASSUME NEW role \in Roles, CreateUser(r, actor, a, role)
        PROVE  IInv'
    <2> DEFINE q == [Idle EXCEPT !.pc = "actor", !.op = "create", !.actor = actor, !.target = a,
                                 !.role = role, !.status = "ACTIVE"]
    <2>1. /\ q \in Request /\ q.pc = "actor" /\ q.op = "create" /\ q.actor = actor
          /\ q.target = a /\ q.role # None
      BY RolesAreRoles DEF Idle, Request, PC, Op, Status
    <2>2. Permitted(r, actor, "create") /\ Enter(r, q)
      BY <1>1 DEF CreateUser
    <2> HIDE DEF q
    <2>3. QED
      BY <2>1, <2>2, PermittedStep
  <1>2. ASSUME NEW role \in Roles \cup {None}, NEW status \in Status \cup {None},
               UpdateUser(r, actor, a, role, status)
        PROVE  IInv'
    <2> DEFINE q == [Idle EXCEPT !.pc = "target", !.op = "update", !.actor = actor,
                                 !.target = a, !.role = role, !.status = status]
    <2>1. /\ q \in Request /\ q.pc = "target" /\ q.op = "update" /\ q.actor = actor
          /\ q.target = a
      BY DEF Idle, Request, PC, Op
    <2>2. Permitted(r, actor, "update") /\ Enter(r, q)
      BY <1>2 DEF UpdateUser
    <2> HIDE DEF q
    <2>3. QED
      BY <2>1, <2>2, PermittedStep
  <1>3. ASSUME RemoveUser(r, actor, a)
        PROVE  IInv'
    <2> DEFINE q == [Idle EXCEPT !.pc = "target", !.op = "remove", !.actor = actor,
                                 !.target = a]
    <2>1. /\ q \in Request /\ q.pc = "target" /\ q.op = "remove" /\ q.actor = actor
          /\ q.target = a
      BY DEF Idle, Request, PC, Op
    <2>2. Permitted(r, actor, "remove") /\ Enter(r, q)
      BY <1>3 DEF RemoveUser
    <2> HIDE DEF q
    <2>3. QED
      BY <2>1, <2>2, PermittedStep
  <1>4. QED
    BY <1>1, <1>2, <1>3

\* A request that ends without a change.
LEMMA FinishStep ==
  ASSUME IInv, NEW r \in Requests, Finish(r), UNCHANGED <<account, identity, history>>
  PROVE  IInv'
  <1>1. /\ req' \in [Requests -> Request]
        /\ req'[r] = Idle /\ \A p \in Requests \ {r} : req'[p] = req[p]
    BY FinishEffect DEF IInv
  <1>2. AboutSound(r)' /\ BelowCeiling(r)' /\ SparesElders(r)'
    BY <1>1, IdleType, QuietSound
  <1>3. QED
    BY <1>1, <1>2, OneAsks DEF history

\* The handler reads the target's role: a SUPER_ADMIN that stands is seen as one.
LEMMA FindTargetStep ==
  ASSUME IInv, NEW r \in Requests, FindTarget(r)
  PROVE  IInv'
  <1> USE DEF IInv
  <1> DEFINE a == req[r].target
             q == [req[r] EXCEPT !.pc = "actor", !.seen = account[a].role]
  <1>1. /\ req[r] \in Request /\ req[r].pc = "target" /\ a \in Accounts
        /\ req[r].actor \in Accounts /\ req[r].op \in {"update", "remove"}
        /\ UNCHANGED <<account, identity, history>>
    BY DEF TypeOK, RequestsSound, AboutSound, FindTarget, Waits
  <1>2. CASE There(a)
    <2>1. Enter(r, q)
      BY <1>2 DEF FindTarget
    <2>2. account[a].role \in Roles
      BY <1>1, <1>2, RowsWhole
    <2>3. /\ q \in Request /\ q.pc = "actor" /\ q.op = req[r].op /\ q.actor = req[r].actor
          /\ q.target = a /\ q.role = req[r].role /\ q.seen = account[a].role
      BY <1>1, <2>2 DEF Request, PC
    <2> HIDE DEF q
    <2>4. /\ req' \in [Requests -> Request] /\ req'[r] = q
          /\ \A p \in Requests \ {r} : req'[p] = req[p]
      BY <2>1, <2>3, EnterEffect
    <2>5. AboutSound(r)'
      BY <1>1, <2>3, <2>4 DEF AboutSound
    <2>6. ceiling' # None => BelowCeiling(r)'
      BY <1>1, <2>3, <2>4 DEF BelowCeiling, There, CeilingSound, history
    <2>7. ceiling' = RoleWeight["SUPER_ADMIN"] => SparesElders(r)'
      BY <1>1, <2>3, <2>4 DEF SparesElders, SuperAdminsStand, history
    <2>8. QED
      BY <1>1, <2>4, <2>5, <2>6, <2>7, OneAsks DEF history
  <1>3. CASE ~There(a)
    BY <1>1, <1>3, FinishStep DEF FindTarget
  <1>4. QED
    BY <1>2, <1>3

\* The hierarchy is asked with the role the actor has now: below the ceiling it
\* allows no role at it, and nothing about a SUPER_ADMIN.
LEMMA FindActorStep ==
  ASSUME IInv, NEW r \in Requests, FindActor(r)
  PROVE  IInv'
  <1> USE DEF IInv
  <1> DEFINE actor == req[r].actor
             pc == CASE req[r].op = "create" -> "create"
                     [] req[r].op = "update" -> "write"
                     [] req[r].op = "remove" -> "delete"
             q == [req[r] EXCEPT !.actor = None, !.seen = None, !.pc = pc]
  <1>1. /\ req[r] \in Request /\ req[r].pc = "actor" /\ req[r].target \in Accounts
        /\ actor \in Accounts /\ req[r].op \in {"create", "update", "remove"}
        /\ req[r].op = "create" => req[r].role # None
        /\ UNCHANGED <<account, identity>>
    BY DEF TypeOK, RequestsSound, AboutSound, FindActor, Waits
  <1>2. CASE Allowed(req[r], ActorRole(actor))
    <2>1. Enter(r, q) /\ Note(~There(actor))
      BY <1>2 DEF FindActor
    <2>2. /\ pc \in {"create", "write", "delete"}
          /\ pc = "create" <=> req[r].op = "create"
          /\ pc = "delete" <=> req[r].op = "remove"
      BY <1>1
    <2> HIDE DEF pc
    <2>3. /\ q \in Request /\ q.pc = pc /\ q.op = req[r].op /\ q.target = req[r].target
          /\ q.role = req[r].role
      BY <1>1, <2>2 DEF Request, PC
    <2> HIDE DEF q
    <2>4. /\ req' \in [Requests -> Request] /\ req'[r] = q
          /\ \A p \in Requests \ {r} : req'[p] = req[p]
      BY <2>1, <2>3, EnterEffect
    <2>5. \/ ceiling' = None /\ elders' = {}
          \/ There(actor) /\ ceiling' = ceiling /\ elders' = elders
      BY <2>1 DEF Note
    <2>6. AboutSound(r)'
      BY <1>1, <2>2, <2>3, <2>4 DEF AboutSound
    <2>7. ASSUME ceiling' # None
          PROVE  /\ There(actor) /\ ceiling' = ceiling /\ elders' = elders
                 /\ ActorRole(actor) = account[actor].role /\ ActorRole(actor) \in Roles
                 /\ ActorRole(actor) # "SUPER_ADMIN"
                 /\ RoleWeight[ActorRole(actor)] <= ceiling
      <3>1. There(actor) /\ ceiling' = ceiling /\ elders' = elders
        BY <2>5, <2>7
      <3>2. ActorRole(actor) = account[actor].role
        BY <3>1 DEF ActorRole
      <3>3. account[actor].role \in Roles
        BY <1>1, <3>1, RowsWhole
      <3>4. BelowCeiling(r) /\ Rank(actor) <= ceiling
        BY <1>1, <2>7, <3>1 DEF CeilingSound
      <3>5. QED
        BY <1>1, <3>1, <3>2, <3>3, <3>4 DEF BelowCeiling, Rank
    <2>8. ceiling' # None => BelowCeiling(r)'
      <3> SUFFICES ASSUME ceiling' # None, req[r].role # None
                   PROVE  RoleWeight[req[r].role] < ceiling'
        BY <2>2, <2>3, <2>4 DEF BelowCeiling
      <3>1. RoleWeight[ActorRole(actor)] > RoleWeight[req[r].role]
        BY <1>2, <2>7 DEF Allowed, AssertRoleHierarchy
      <3>2. /\ RoleWeight[ActorRole(actor)] \in Int /\ RoleWeight[req[r].role] \in Int
            /\ ceiling \in Int
        <4>1. req[r].role \in Roles
          BY <1>1 DEF Request
        <4>2. ceiling \in Int
          BY <2>7 DEF TypeOK
        <4>3. QED
          BY <2>7, <4>1, <4>2, RoleWeights, RolesAreRoles
      <3>3. QED
        BY <2>7, <3>1, <3>2
    <2>9. ceiling' = RoleWeight["SUPER_ADMIN"] => SparesElders(r)'
      <3> SUFFICES ASSUME ceiling' = RoleWeight["SUPER_ADMIN"], req[r].target \in elders'
                   PROVE  /\ pc = "write" => req[r].role = None
                          /\ pc # "delete"
        BY <2>2, <2>3, <2>4 DEF SparesElders
      <3>1. There(actor) /\ ceiling' = ceiling /\ elders' = elders
        BY <2>5
      <3>2. ActorRole(actor) # "SUPER_ADMIN"
        BY <2>7, DirectoryAssumption, RoleWeights
      <3>3. req[r].op # "create" => req[r].seen = "SUPER_ADMIN"
        BY <1>1, <3>1 DEF EldersSound, SparesElders
      <3>4. QED
        BY <1>2, <2>2, <3>2, <3>3 DEF Allowed
    <2>10. QED
      BY <1>1, <2>4, <2>5, <2>6, <2>8, <2>9, OneAsks
  <1>3. CASE ~Allowed(req[r], ActorRole(actor))
    BY <1>1, <1>3, FinishStep DEF FindActor
  <1>4. QED
    BY <1>2, <1>3

-----------------------------------------------------------------------------
(* The writes keep the invariant.                                          *)

\* An address that is not in use gets its account below the ceiling.
LEMMA CreateStep ==
  ASSUME IInv, NEW r \in Requests, Create(r)
  PROVE  IInv'
  <1> USE DEF IInv
  <1> DEFINE a == req[r].target
             row == [state |-> "there", role |-> req[r].role, status |-> "ACTIVE",
                     origin |-> None]
  <1>1. /\ req[r] \in Request /\ req[r].pc = "create" /\ a \in Accounts
        /\ req[r].role \in Roles /\ UNCHANGED <<identity, history>>
    BY DEF TypeOK, RequestsSound, AboutSound, Create, Waits, Request
  <1>2. /\ req' \in [Requests -> Request] /\ req'[r].pc = "idle" /\ req'[r].op # "create"
        /\ \A p \in Requests \ {r} : req'[p] = req[p]
    BY FinishEffect, IdleType DEF Create
  <1>3. CASE account[a].state = "unborn"
    <2>1. account' = [account EXCEPT ![a] = row]
      BY <1>3 DEF Create
    <2>2. Whole(row) /\ row.role = req[r].role /\ row.state = "there"
      BY <1>1, RolesAreRoles DEF Whole, Account, Status
    <2> HIDE DEF row
    <2>3. /\ account' \in [Accounts -> Account] /\ account'[a] = row
          /\ \A b \in Accounts \ {a} : account'[b] = account[b]
      BY <1>1, <2>1, <2>2 DEF TypeOK, Whole
    <2>4. ceiling # None => RoleWeight[account'[a].role] < ceiling
      BY <1>1, <2>2, <2>3, RolesAreRoles DEF CeilingSound, BelowCeiling
    <2>5. ceiling = RoleWeight["SUPER_ADMIN"] => a \notin elders
      BY <1>3 DEF SuperAdminsStand, There
    <2>6. IdentityOfOrigin'
      BY <1>1, <1>3, <2>3 DEF IdentityOfOrigin, There, TypeOK
    <2>7. identity' \in [Externals -> Accounts \cup {None}]
      BY <1>1 DEF TypeOK
    <2>8. QED
      BY <1>1, <1>2, <2>2, <2>3, <2>4, <2>5, <2>6, <2>7, OneWrites
  <1>4. CASE account[a].state # "unborn"
    <2>1. account' = account
      BY <1>4 DEF Create
    <2>2. QED
      BY <1>1, <2>1, FinishStep DEF Create
  <1>5. QED
    BY <1>3, <1>4

\* What an update of one row does to the table.
LEMMA UpdateEffect ==
  ASSUME TypeOK, NEW a \in Accounts, NEW role \in Roles \cup {None},
         NEW status \in Status \cup {None},
         account' = [account EXCEPT ![a] = Updated(@, role, status)]
  PROVE  /\ account' \in [Accounts -> Account] /\ Whole(account'[a])
         /\ account'[a].state = account[a].state /\ account'[a].origin = account[a].origin
         /\ account'[a].role \in {account[a].role, role}
         /\ role = None => account'[a].role = account[a].role
         /\ account'[a].status \in {account[a].status, status}
         /\ status = None => account'[a].status = account[a].status
         /\ \A b \in Accounts \ {a} : account'[b] = account[b]
  <1> DEFINE new == Updated(account[a], role, status)
  <1>1. Whole(account[a])
    BY RowsWhole
  <1>2. /\ Whole(new)
        /\ new.state = account[a].state /\ new.origin = account[a].origin
        /\ new.role \in {account[a].role, role}
        /\ role = None => new.role = account[a].role
        /\ new.status \in {account[a].status, status}
        /\ status = None => new.status = account[a].status
    BY <1>1, UpdatedEffect
  <1>3. account' = [account EXCEPT ![a] = new]
    OBVIOUS
  <1> HIDE DEF new
  <1>4. account'[a] = new /\ \A b \in Accounts \ {a} : account'[b] = account[b]
    BY <1>3 DEF TypeOK
  <1>5. account' \in [Accounts -> Account]
    BY <1>2, <1>3 DEF TypeOK, Whole
  <1>6. QED
    BY <1>2, <1>4, <1>5

\* An update keeps the account, whoever signs in with it.
LEMMA UpdateStep ==
  ASSUME IInv, NEW r \in Requests, NEW a \in Accounts, NEW role \in Roles \cup {None},
         NEW status \in Status \cup {None},
         account' = [account EXCEPT ![a] = Updated(@, role, status)],
         Finish(r), UNCHANGED <<identity, history>>,
         ceiling # None /\ role # None => RoleWeight[role] < ceiling,
         ceiling = RoleWeight["SUPER_ADMIN"] /\ a \in elders => role = None
  PROVE  IInv'
  <1> USE DEF IInv
  <1>1. /\ account' \in [Accounts -> Account] /\ Whole(account'[a])
        /\ account'[a].state = account[a].state /\ account'[a].origin = account[a].origin
        /\ account'[a].role \in {account[a].role, role}
        /\ role = None => account'[a].role = account[a].role
        /\ \A b \in Accounts \ {a} : account'[b] = account[b]
    BY UpdateEffect
  <1>2. /\ req' \in [Requests -> Request] /\ req'[r].pc = "idle" /\ req'[r].op # "create"
        /\ \A p \in Requests \ {r} : req'[p] = req[p]
    BY FinishEffect, IdleType
  <1>3. IdentityOfOrigin'
    BY <1>1 DEF IdentityOfOrigin, There, TypeOK
  <1>4. ceiling # None /\ There(a)' =>
          \/ RoleWeight[account'[a].role] < ceiling
          \/ There(a) /\ account'[a].role = account[a].role
    BY <1>1 DEF There
  <1>5. identity' \in [Externals -> Accounts \cup {None}]
    BY DEF TypeOK
  <1>6. QED
    BY <1>1, <1>2, <1>3, <1>4, <1>5, OneWrites

\* The update that was allowed.
LEMMA WriteStep ==
  ASSUME IInv, NEW r \in Requests, Write(r)
  PROVE  IInv'
  <1>1. /\ req[r] \in Request /\ req[r].pc = "write" /\ req[r].target \in Accounts
    BY DEF IInv, TypeOK, RequestsSound, AboutSound, Write, Waits
  <1>2. /\ req[r].role \in Roles \cup {None} /\ req[r].status \in Status \cup {None}
    BY <1>1 DEF Request
  <1>3. ceiling # None /\ req[r].role # None => RoleWeight[req[r].role] < ceiling
    BY <1>1 DEF IInv, CeilingSound, BelowCeiling
  <1>4. ceiling = RoleWeight["SUPER_ADMIN"] /\ req[r].target \in elders => req[r].role = None
    BY <1>1 DEF IInv, EldersSound, SparesElders
  <1>5. QED
    BY <1>1, <1>2, <1>3, <1>4, UpdateStep DEF Write

\* SCIM and the directory write a status and no role.
LEMMA WriteStatusStep ==
  ASSUME IInv, NEW r \in Requests, WriteStatus(r)
  PROVE  IInv'
  <1>1. /\ req[r] \in Request /\ req[r].pc = "status" /\ req[r].target \in Accounts
    BY DEF IInv, TypeOK, RequestsSound, AboutSound, WriteStatus, Waits
  <1>2. req[r].status \in Status \cup {None}
    BY <1>1 DEF Request
  <1>3. QED
    BY <1>1, <1>2, UpdateStep DEF WriteStatus

\* The removal that was allowed takes the identities of the account along.
LEMMA DeleteStep ==
  ASSUME IInv, NEW r \in Requests, Delete(r)
  PROVE  IInv'
  <1> USE DEF IInv
  <1>0. PICK a \in Accounts : a = req[r].target
    BY DEF RequestsSound, AboutSound, Delete, Waits
  <1>1. req[r].pc = "delete" /\ UNCHANGED history
    BY DEF Delete, Waits
  <1>2. /\ req' \in [Requests -> Request] /\ req'[r].pc = "idle" /\ req'[r].op # "create"
        /\ \A p \in Requests \ {r} : req'[p] = req[p]
    BY FinishEffect, IdleType DEF Delete
  <1>3. CASE There(a)
    <2>1. /\ account' = [account EXCEPT ![a] = Absent("gone")]
          /\ identity' = [x \in Externals |-> IF identity[x] = a THEN None ELSE identity[x]]
      BY <1>0, <1>3 DEF Delete
    <2>2. Whole(Absent("gone")) /\ Absent("gone").state = "gone"
      BY DEF Whole, Absent, Account
    <2>3. /\ account' \in [Accounts -> Account] /\ account'[a] = Absent("gone")
          /\ \A b \in Accounts \ {a} : account'[b] = account[b]
      BY <1>1, <2>1, <2>2 DEF TypeOK, Whole
    <2>4. ceiling = RoleWeight["SUPER_ADMIN"] => a \notin elders
      BY <1>0, <1>1 DEF EldersSound, SparesElders
    <2>5. IdentityOfOrigin'
      BY <1>1, <2>1, <2>3 DEF IdentityOfOrigin, There, TypeOK
    <2>6. identity' \in [Externals -> Accounts \cup {None}]
      BY <2>1 DEF TypeOK
    <2>7. ~There(a)'
      BY <2>2, <2>3 DEF There
    <2>8. QED
      BY <1>1, <1>2, <2>2, <2>3, <2>4, <2>5, <2>6, <2>7, OneWrites
  <1>4. CASE ~There(a)
    <2>1. UNCHANGED <<account, identity>>
      BY <1>0, <1>4 DEF Delete
    <2>2. QED
      BY <1>1, <2>1, FinishStep DEF Delete
  <1>5. QED
    BY <1>3, <1>4

-----------------------------------------------------------------------------
(* SCIM, external providers and the directory keep the invariant.          *)

\* What provisioning starts with concerns no administrator.
LEMMA ProvisioningStarts ==
  ASSUME IInv, NEW r \in Requests, NEW q \in Request, Enter(r, q),
         q.pc \in {"status", "provision"}, q.op # "create", q.target \in Accounts,
         UNCHANGED <<account, identity, history>>
  PROVE  IInv'
  <1>1. /\ req' \in [Requests -> Request] /\ req'[r] = q
        /\ \A p \in Requests \ {r} : req'[p] = req[p]
    BY EnterEffect DEF IInv
  <1>2. AboutSound(r)' /\ BelowCeiling(r)' /\ SparesElders(r)'
    BY <1>1 DEF AboutSound, BelowCeiling, SparesElders
  <1>3. QED
    BY <1>1, <1>2, OneAsks DEF history

\* What SCIM and a directory sign-in find decides between a create and an update.
LEMMA FindOrCreateStep ==
  ASSUME IInv, NEW r \in Requests, NEW op \in {"scim", "directory"}, NEW a \in Accounts,
         NEW status \in Status, FindOrCreate(r, op, a, status)
  PROVE  IInv'
  <1> DEFINE pc == IF There(a) THEN "status" ELSE "provision"
             q == [Idle EXCEPT !.pc = pc, !.op = op, !.target = a, !.status = status]
  <1>1. Enter(r, q) /\ UNCHANGED <<account, identity, history>>
    BY DEF FindOrCreate
  <1>2. pc \in {"status", "provision"}
    OBVIOUS
  <1> HIDE DEF pc
  <1>3. q \in Request /\ q.pc = pc /\ q.op = op /\ q.target = a
    BY <1>2 DEF Idle, Request, PC, Op
  <1> HIDE DEF q
  <1>4. QED
    BY <1>1, <1>2, <1>3, ProvisioningStarts

\* SCIM patch and delete.
LEMMA ScimUpdateStep ==
  ASSUME IInv, NEW r \in Requests, NEW a \in Accounts, NEW status \in Status \cup {None},
         ScimUpdate(r, a, status)
  PROVE  IInv'
  <1> DEFINE q == [Idle EXCEPT !.pc = "status", !.target = a, !.status = status]
  <1>1. Enter(r, q) /\ UNCHANGED <<account, identity, history>>
    BY DEF ScimUpdate
  <1>2. q \in Request /\ q.pc = "status" /\ q.op = "scim" /\ q.target = a
    BY DEF Idle, Request, PC, Op
  <1> HIDE DEF q
  <1>3. QED
    BY <1>1, <1>2, ProvisioningStarts

\* The first sign-in of an external subject.
LEMMA SsoSignInStep ==
  ASSUME IInv, NEW r \in Requests, NEW x \in Externals, NEW a \in Accounts, SsoSignIn(r, x, a)
  PROVE  IInv'
  <1> DEFINE q == [Idle EXCEPT !.pc = "provision", !.op = "sso", !.target = a, !.external = x,
                               !.status = "ACTIVE"]
  <1>1. Enter(r, q) /\ UNCHANGED <<account, identity, history>>
    BY DEF SsoSignIn
  <1>2. q \in Request /\ q.pc = "provision" /\ q.op = "sso" /\ q.target = a
    BY DEF Idle, Request, PC, Op, Status
  <1> HIDE DEF q
  <1>3. QED
    BY <1>1, <1>2, ProvisioningStarts

\* A provisioned account has the lowest role and, if a subject signed in, is
\* that subject's and nobody's before.
LEMMA ProvisionStep ==
  ASSUME IInv, NEW r \in Requests, Provision(r)
  PROVE  IInv'
  <1> USE DEF IInv
  <1>0. PICK a \in Accounts, x \in Externals \cup {None} :
          a = req[r].target /\ x = req[r].external
    BY DEF TypeOK, RequestsSound, AboutSound, Provision, Waits, Request
  <1> DEFINE row == [state |-> "there", role |-> "READ_ONLY_ADMIN", status |-> req[r].status,
                     origin |-> x]
  <1>1. /\ req[r] \in Request /\ req[r].pc = "provision" /\ req[r].status \in Status \cup {None}
        /\ UNCHANGED history
    BY DEF TypeOK, RequestsSound, AboutSound, Provision, Waits, Request
  <1>2. CASE account[a].state = "unborn" /\ (x # None => identity[x] = None)
    <2>1. /\ account' = [account EXCEPT ![a] = row]
          /\ identity' = IF x = None THEN identity ELSE [identity EXCEPT ![x] = a]
          /\ IF req[r].op = "directory" THEN Goto(r, "status") ELSE Finish(r)
      BY <1>0, <1>2 DEF Provision
    <2>2. /\ Whole(row) /\ row.role = "READ_ONLY_ADMIN" /\ row.state = "there"
          /\ row.origin = x
      BY <1>1, RolesAreRoles DEF Whole, Account
    <2> HIDE DEF row
    <2>3. /\ account' \in [Accounts -> Account] /\ account'[a] = row
          /\ \A b \in Accounts \ {a} : account'[b] = account[b]
      BY <1>1, <2>1, <2>2 DEF TypeOK, Whole
    <2>4. /\ req' \in [Requests -> Request] /\ \A p \in Requests \ {r} : req'[p] = req[p]
          /\ req'[r].pc \in {"idle", "status"} /\ req'[r].op # "create"
          /\ req'[r].pc = "status" => req'[r].target = a
      <3>1. CASE Finish(r)
        BY <3>1, FinishEffect, IdleType
      <3>2. CASE req[r].op = "directory" /\ Goto(r, "status")
        <4> DEFINE q == [req[r] EXCEPT !.pc = "status"]
        <4>1. q \in Request /\ q.pc = "status" /\ q.op = "directory" /\ q.target = a
          BY <1>0, <1>1, <3>2 DEF Request, PC
        <4>2. Enter(r, q)
          BY <3>2 DEF Goto
        <4> HIDE DEF q
        <4>3. QED
          BY <4>1, <4>2, EnterEffect
      <3>3. QED
        BY <2>1, <3>1, <3>2
    <2>5. identity' \in [Externals -> Accounts \cup {None}]
      BY <1>1, <2>1 DEF TypeOK
    <2>6. IdentityOfOrigin'
      <3> SUFFICES ASSUME NEW y \in Externals, identity'[y] # None
                   PROVE  /\ account'[identity'[y]].state = "there"
                          /\ account'[identity'[y]].origin = y
        BY DEF IdentityOfOrigin, There
      <3>1. CASE y = x
        <4>1. identity'[y] = a
          BY <2>1, <3>1, DirectoryAssumption DEF TypeOK
        <4>2. QED
          BY <2>2, <2>3, <3>1, <4>1 DEF There
      <3>2. CASE y # x
        <4>1. identity'[y] = identity[y]
          BY <1>1, <2>1, <3>2 DEF TypeOK
        <4>2. /\ identity[y] \in Accounts /\ There(identity[y])
              /\ account[identity[y]].origin = y
          BY <3>2, <4>1 DEF IdentityOfOrigin, TypeOK
        <4>3. identity[y] # a
          BY <1>2, <4>2 DEF There
        <4>4. QED
          BY <2>3, <4>1, <4>2, <4>3 DEF There
      <3>3. QED
        BY <3>1, <3>2
    <2>7. ceiling = RoleWeight["SUPER_ADMIN"] => a \notin elders
      BY <1>2 DEF SuperAdminsStand, There
    <2>8. QED
      BY <1>1, <2>2, <2>3, <2>4, <2>5, <2>6, <2>7, OneWrites
  <1>3. CASE ~(account[a].state = "unborn" /\ (x # None => identity[x] = None))
    <2>1. UNCHANGED <<account, identity>> /\ Finish(r)
      BY <1>0, <1>3 DEF Provision
    <2>2. QED
      BY <1>1, <2>1, FinishStep
  <1>4. QED
    BY <1>2, <1>3

\* The death of the process loses requests and nothing else.
LEMMA RestartStep ==
  ASSUME IInv, Restart
  PROVE  IInv'
  <1> USE DEF IInv
  <1>1. /\ UNCHANGED <<account, identity, history>>
        /\ req' \in [Requests -> Request] /\ \A r \in Requests : req'[r] = Idle
    BY IdleType DEF Restart
  <1>2. \A r \in Requests : AboutSound(r)' /\ BelowCeiling(r)' /\ SparesElders(r)'
    BY <1>1, IdleType, QuietSound
  <1>3. TypeOK'
    BY <1>1 DEF TypeOK, history
  <1>4. QED
    BY <1>1, <1>2, <1>3
       DEF history, RequestsSound, CeilingSound, TopRankClosed, EldersSound, SuperAdminsStand,
           IdentityOfOrigin, There, Rank

-----------------------------------------------------------------------------
(* The theorems about states.                                              *)

\* At the start the ceiling is the highest rank, and nothing is under way.
LEMMA InitSound == Init => IInv
  <1> SUFFICES ASSUME Init
               PROVE  IInv
    OBVIOUS
  <1>1. account \in [Accounts -> Account] /\ \A a \in Accounts : Whole(account[a])
    <2>1. Absent("unborn") \in Account /\ Whole(Absent("unborn"))
      BY DEF Absent, Account, Whole
    <2>2. \A row \in [state : {"there"}, role : Roles, status : Status, origin : {None}] :
            row \in Account /\ Whole(row)
      BY RolesAreRoles DEF Account, Whole
    <2>3. QED
      BY <2>1, <2>2 DEF Init
  <1>2. \A b \in Accounts : There(b) => account[b].role \in Roles /\ Rank(b) \in 10 .. 100
    BY <1>1, RoleWeights, RolesAreRoles DEF Whole, Account, There, Rank
  <1>3. PICK a \in Accounts :
          /\ There(a) /\ \A b \in Accounts : There(b) => Rank(b) <= Rank(a)
          /\ ceiling = Rank(a) /\ elders = {b \in Accounts : There(b) /\ Rank(b) = Rank(a)}
    BY DEF Init
  <1>4. ceiling \in 10 .. 100
    BY <1>2, <1>3
  <1>5. TypeOK
    <2>1. identity \in [Externals -> Accounts \cup {None}] /\ req \in [Requests -> Request]
      BY IdleType DEF Init
    <2>2. ceiling \in (0 .. 100) \cup {None}
      BY <1>4
    <2>3. elders \in SUBSET Accounts
      BY <1>3
    <2>4. \A b \in Accounts : account[b].state # "there" <=> account[b].role = None
      BY <1>1 DEF Whole
    <2>5. QED
      BY <1>1, <2>1, <2>2, <2>3, <2>4 DEF TypeOK
  <1>6. \A r \in Requests : AboutSound(r) /\ BelowCeiling(r) /\ SparesElders(r)
    BY IdleType DEF Init, AboutSound, BelowCeiling, SparesElders
  <1>7. CeilingSound
    BY <1>3, <1>4, <1>6, RoleWeights DEF CeilingSound
  <1>8. TopRankClosed
    BY <1>2, <1>3 DEF TopRankClosed
  <1>9. SuperAdminsStand
    <2>1. \A b \in elders : b \in Accounts /\ There(b) /\ Rank(b) = ceiling
      BY <1>3
    <2>2. \A b \in elders : Rank(b) >= 100 => account[b].role = "SUPER_ADMIN"
      BY <1>2, <2>1, RoleWeights, RolesAreRoles DEF Rank
    <2>3. QED
      BY <2>1, <2>2, RoleWeights DEF SuperAdminsStand
  <1>10. IdentityOfOrigin
    BY DEF Init, IdentityOfOrigin
  <1>11. QED
    BY <1>5, <1>6, <1>7, <1>8, <1>9, <1>10 DEF IInv, RequestsSound, EldersSound

\* Every step keeps the invariant.
LEMMA NextSound == IInv /\ [Next]_vars => IInv'
  <1> SUFFICES ASSUME IInv, [Next]_vars
               PROVE  IInv'
    OBVIOUS
  <1>1. ASSUME NEW r \in Requests, Administration(r)
        PROVE  IInv'
    BY <1>1, AdministrationStarts, FindTargetStep, FindActorStep, CreateStep, WriteStep,
       DeleteStep DEF Administration
  <1>2. ASSUME NEW r \in Requests, Provisioning(r)
        PROVE  IInv'
    BY <1>2, FindOrCreateStep, ScimUpdateStep, SsoSignInStep, WriteStatusStep, ProvisionStep
       DEF Provisioning
  <1>3. CASE UNCHANGED vars
    BY <1>3 DEF vars, history, IInv, TypeOK, RequestsSound, AboutSound, CeilingSound,
                BelowCeiling, TopRankClosed, EldersSound, SparesElders, SuperAdminsStand,
                IdentityOfOrigin, There, Rank
  <1>4. QED
    BY <1>1, <1>2, <1>3, RestartStep DEF Next

\* The invariant holds in every state.
THEOREM AlwaysSound == Spec => []IInv
  BY InitSound, NextSound, PTL DEF Spec

\* Rows, identities and requests have their types in every state: a row has a
\* role exactly while the account is there, whoever wrote it.
THEOREM TypeCorrect == Spec => []TypeOK
  <1>1. IInv => TypeOK
    BY DEF IInv
  <1>2. QED
    BY <1>1, AlwaysSound, PTL

\* Nobody is made the equal of the highest administrators while no SUPER_ADMIN
\* acts and every actor is found, for any choice of roles and any requests:
\* assertRoleHierarchy compares with the role of the moment it is asked.
THEOREM TopRankAlwaysClosed == Spec => []TopRankClosed
  <1>1. IInv => TopRankClosed
    BY DEF IInv
  <1>2. QED
    BY <1>1, AlwaysSound, PTL

\* In the same conditions no SUPER_ADMIN is demoted or deleted, however the
\* reads of target and actor and the write of several requests interleave.
THEOREM SuperAdminsAlwaysStand == Spec => []SuperAdminsStand
  <1>1. IInv => SuperAdminsStand
    BY DEF IInv
  <1>2. QED
    BY <1>1, AlwaysSound, PTL

\* An external subject signs in to the account its own first sign-in made
\* (getOrCreateSsoIdentity), or to none.
THEOREM IdentityAlwaysOfOrigin == Spec => []IdentityOfOrigin
  <1>1. IInv => IdentityOfOrigin
    BY DEF IInv
  <1>2. QED
    BY <1>1, AlwaysSound, PTL

-----------------------------------------------------------------------------
(* The theorem about steps.                                                *)

\* An update changes a status only to the one that is asked for.
LEMMA UpdateAsked ==
  ASSUME TypeOK, NEW r \in Requests, NEW b \in Accounts, NEW role \in Roles \cup {None},
         req[r].target \in Accounts,
         account' = [account EXCEPT ![req[r].target] = Updated(@, role, req[r].status)],
         account[b].status # account'[b].status
  PROVE  req[r].target = b /\ req[r].status = account'[b].status
  <1>1. req[r].status \in Status \cup {None}
    BY DEF TypeOK, Request
  <1>2. PICK a \in Accounts, status \in Status \cup {None} :
          a = req[r].target /\ status = req[r].status
    BY <1>1
  <1>3. account' = [account EXCEPT ![a] = Updated(@, role, status)]
    BY <1>2
  <1>4. /\ account'[a].status \in {account[a].status, status}
        /\ \A c \in Accounts \ {a} : account'[c] = account[c]
    BY <1>3, UpdateEffect
  <1>5. QED
    BY <1>2, <1>4

\* A create is of an account that was not there.
LEMMA CreateOfUnborn ==
  ASSUME IInv, NEW r \in Requests, Create(r) \/ Provision(r), NEW b \in Accounts,
         account[b].state = "there"
  PROVE  account'[b] = account[b]
  <1>1. req[r].target \in Accounts
    BY DEF IInv, RequestsSound, AboutSound, Create, Provision, Waits
  <1>2. PICK row :
          \/ account' = account
          \/ account[req[r].target].state = "unborn"
               /\ account' = [account EXCEPT ![req[r].target] = row]
    <2>1. CASE Create(r)
      BY <2>1 DEF Create
    <2>2. CASE Provision(r)
      BY <2>2 DEF Provision
    <2>3. QED
      BY <2>1, <2>2
  <1>3. QED
    BY <1>1, <1>2 DEF IInv, TypeOK

\* A status changes only to the one a request about the account asked for: what
\* a handler read before a suspension is never written back over it.
THEOREM StatusAlwaysAsAsked == Spec => StatusAsAsked
  <1> DEFINE Body == \A a \in Accounts :
               account[a].state = "there" /\ account'[a].state = "there"
                 /\ account[a].status # account'[a].status =>
                   \E r \in Requests : req[r].target = a /\ req[r].status = account'[a].status
  <1>1. IInv /\ [Next]_vars => [Body]_vars
    <2> SUFFICES ASSUME IInv, Next, NEW a \in Accounts,
                        account[a].state = "there", account'[a].state = "there",
                        account[a].status # account'[a].status
                 PROVE  \E r \in Requests :
                          req[r].target = a /\ req[r].status = account'[a].status
      OBVIOUS
    <2>1. account' # account
      OBVIOUS
    <2>2. ASSUME NEW r \in Requests, Write(r) \/ WriteStatus(r)
          PROVE  req[r].target = a /\ req[r].status = account'[a].status
      <3>1. req[r].target \in Accounts /\ req[r].role \in Roles \cup {None} /\ TypeOK
        BY <2>2
           DEF IInv, TypeOK, Request, RequestsSound, AboutSound, Write, WriteStatus, Waits
      <3>2. CASE Write(r)
        BY <3>1, <3>2, UpdateAsked DEF Write
      <3>3. CASE WriteStatus(r)
        BY <3>1, <3>3, UpdateAsked DEF WriteStatus
      <3>4. QED
        BY <2>2, <3>2, <3>3
    <2>3. ASSUME NEW r \in Requests, Delete(r)
          PROVE  FALSE
      <3>1. req[r].target \in Accounts
        BY <2>3 DEF IInv, RequestsSound, AboutSound, Delete, Waits
      <3>2. account' = [account EXCEPT ![req[r].target] = Absent("gone")]
        BY <2>1, <2>3 DEF Delete
      <3>3. QED
        BY <3>1, <3>2 DEF IInv, TypeOK, Absent
    <2>4. \A r \in Requests : ~Create(r) /\ ~Provision(r)
      BY CreateOfUnborn
    <2>5. PICK r \in Requests : Administration(r) \/ Provisioning(r)
      BY <2>1 DEF Next, Restart
    <2>6. Write(r) \/ WriteStatus(r) \/ Delete(r)
      <3>1. \A actor \in Accounts, op \in Op : ~Permitted(r, actor, op)
        BY <2>1 DEF Permitted
      <3>2. CASE Administration(r)
        BY <2>1, <2>4, <3>1, <3>2
           DEF Administration, CreateUser, UpdateUser, RemoveUser, FindTarget, FindActor, Op
      <3>3. CASE Provisioning(r)
        BY <2>1, <2>4, <3>3 DEF Provisioning, FindOrCreate, ScimUpdate, SsoSignIn
      <3>4. QED
        BY <2>5, <3>2, <3>3
    <2>7. QED
      BY <2>2, <2>3, <2>6
  <1>2. QED
    BY <1>1, AlwaysSound, PTL DEF Spec, StatusAsAsked

=============================================================================
