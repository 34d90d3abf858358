------------------------------ MODULE Directory ------------------------------
(***************************************************************************)
(* The accounts of the user table and everyone who writes them: the        *)
(* administrators' requests behind RbacGuard (users.service), the SCIM     *)
(* client (scim.service), the first sign-in through an external provider   *)
(* (getOrCreateSsoIdentity) and the directory sign-in of auth.service.     *)
(* None of them knows of the others: each reads an account, decides and    *)
(* writes it some statements later.                                        *)
(*                                                                         *)
(* An account is known by its email address here; an address whose account *)
(* was deleted is not used again.  Names, passwords and memberships are    *)
(* left out.                                                               *)
(***************************************************************************)
EXTENDS Integers, FiniteSets

CONSTANTS
  Accounts,   \* email addresses, for the accounts that may have them
  Externals,  \* subjects of external providers
  Roles,      \* the roles in use
  Requests,   \* slots for requests in progress
  None

OrgRole == {"SUPER_ADMIN", "ORG_ADMIN", "APP_ADMIN", "GROUP_MEMBERSHIP_ADMIN", "USER_ADMIN",
            "API_ACCESS_MANAGEMENT_ADMIN", "REPORT_ADMIN", "HELP_DESK_ADMIN", "MOBILE_ADMIN",
            "READ_ONLY_ADMIN"}

ASSUME DirectoryAssumption ==
  /\ Roles \subseteq OrgRole
  /\ "READ_ONLY_ADMIN" \in Roles
  /\ None \notin Accounts \cup Externals \cup OrgRole
  /\ None \notin 0 .. 100

VARIABLES
  account,   \* the user table
  identity,  \* the ssoIdentity table: the account of an external subject
  req,       \* the requests in progress
  ceiling,   \* history: the highest rank there was at the start, or None when
             \* a SUPER_ADMIN began a request or one went on without its actor
  elders     \* history: the accounts that had it

history == <<ceiling, elders>>
vars == <<account, identity, req, history>>

Status == {"ACTIVE", "SUSPENDED"}

\* origin: the external subject whose first sign-in made the account.
Account == [state : {"unborn", "there", "gone"}, role : Roles \cup {None},
            status : Status \cup {None}, origin : Externals \cup {None}]

Absent(state) == [state |-> state, role |-> None, status |-> None, origin |-> None]

PC == {"idle", "target", "actor", "write", "create", "delete", "provision", "status"}

\* role, status: what is asked for, None for what the request does not mention.
\* seen: the target's role as the handler found it.
Op == {"create", "update", "remove", "scim", "directory", "sso"}

Request == [pc : PC, op : Op,
            actor : Accounts \cup {None}, target : Accounts \cup {None},
            role : Roles \cup {None}, status : Status \cup {None},
            external : Externals \cup {None}, seen : Roles \cup {None}]

Idle == [pc |-> "idle", op |-> "scim", actor |-> None, target |-> None, role |-> None,
         status |-> None, external |-> None, seen |-> None]

TypeOK ==
  /\ account \in [Accounts -> Account]
  /\ \A a \in Accounts : account[a].state # "there" <=> account[a].role = None
  /\ identity \in [Externals -> Accounts \cup {None}]
  /\ req \in [Requests -> Request]
  /\ ceiling \in (0 .. 100) \cup {None}
  /\ elders \in SUBSET Accounts

------------------------------------------------------------------------------
(* Roles *)

RoleWeight ==
  [r \in OrgRole |->
     CASE r = "SUPER_ADMIN" -> 100
       [] r = "ORG_ADMIN" -> 90
       [] r \in {"APP_ADMIN", "GROUP_MEMBERSHIP_ADMIN", "USER_ADMIN"} -> 70
       [] r = "API_ACCESS_MANAGEMENT_ADMIN" -> 60
       [] r = "REPORT_ADMIN" -> 50
       [] r \in {"HELP_DESK_ADMIN", "MOBILE_ADMIN"} -> 40
       [] OTHER -> 10]

\* What the matrix grants of users:create, users:update and users:delete.
HasPermission(role, action) ==
  \/ role \in {"SUPER_ADMIN", "ORG_ADMIN", "USER_ADMIN"}
  \/ role = "HELP_DESK_ADMIN" /\ action = "update"

\* A mutant: one's own role may be given.
AssertRoleNotAbove(actorRole, targetRole) ==
  actorRole = "SUPER_ADMIN" \/ RoleWeight[actorRole] >= RoleWeight[targetRole]

AssertRoleHierarchy(actorRole, targetRole) ==
  actorRole = "SUPER_ADMIN" \/ RoleWeight[actorRole] > RoleWeight[targetRole]

There(a) == account[a].state = "there"
Rank(a) == RoleWeight[account[a].role]

Init ==
  /\ account \in [Accounts -> {Absent("unborn")} \cup
       [state : {"there"}, role : Roles, status : Status, origin : {None}]]
  /\ \E a \in Accounts : There(a)
  /\ identity = [x \in Externals |-> None]
  /\ req = [r \in Requests |-> Idle]
  /\ \E a \in Accounts :
       /\ There(a)
       /\ \A b \in Accounts : There(b) => Rank(b) <= Rank(a)
       /\ ceiling = Rank(a)
       /\ elders = {b \in Accounts : There(b) /\ Rank(b) = Rank(a)}

------------------------------------------------------------------------------

Waits(r, pc) == req[r].pc = pc
Enter(r, request) == req' = [req EXCEPT ![r] = request]
Goto(r, pc) == Enter(r, [req[r] EXCEPT !.pc = pc])
Finish(r) == Enter(r, Idle)

Note(free) == /\ ceiling' = IF free THEN None ELSE ceiling
              /\ elders' = IF free THEN {} ELSE elders

(* The administrators' requests: the guards, the target, the actor, the write *)

\* JwtAuthGuard and RbacGuard answer from the role the actor has now.
Permitted(r, actor, op) ==
  /\ Waits(r, "idle")
  /\ There(actor)
  /\ HasPermission(account[actor].role, IF op = "remove" THEN "delete" ELSE op)
  /\ Note(account[actor].role = "SUPER_ADMIN")
  /\ UNCHANGED <<account, identity>>

CreateUser(r, actor, a, role) ==
  /\ Permitted(r, actor, "create")
  /\ Enter(r, [Idle EXCEPT !.pc = "actor", !.op = "create", !.actor = actor, !.target = a,
                           !.role = role, !.status = "ACTIVE"])

UpdateUser(r, actor, a, role, status) ==
  /\ Permitted(r, actor, "update")
  /\ Enter(r, [Idle EXCEPT !.pc = "target", !.op = "update", !.actor = actor, !.target = a,
                           !.role = role, !.status = status])

RemoveUser(r, actor, a) ==
  /\ Permitted(r, actor, "remove")
  /\ a # actor
  /\ Enter(r, [Idle EXCEPT !.pc = "target", !.op = "remove", !.actor = actor, !.target = a])

FindTarget(r) ==
  /\ Waits(r, "target")
  /\ LET a == req[r].target
     IN  IF There(a)
           THEN Enter(r, [req[r] EXCEPT !.pc = "actor", !.seen = account[a].role])
           ELSE Finish(r)
  /\ UNCHANGED <<account, identity, history>>

\* An actor who is not found counts as SUPER_ADMIN.
ActorRole(actor) == IF There(actor) THEN account[actor].role ELSE "SUPER_ADMIN"

\* A mutant: the role asked for is compared, the target's own is not.
AllowedAnyTarget(request, actorRole) ==
  request.role # None => AssertRoleHierarchy(actorRole, request.role)

Allowed(request, actorRole) ==
  /\ request.role # None => AssertRoleHierarchy(actorRole, request.role)
  /\ request.op # "create" /\ (request.role # None \/ request.op = "remove") =>
       (request.seen = "SUPER_ADMIN" => actorRole = "SUPER_ADMIN")

FindActor(r) ==
  /\ Waits(r, "actor")
  /\ IF Allowed(req[r], ActorRole(req[r].actor))
       THEN /\ Enter(r, [req[r] EXCEPT !.actor = None, !.seen = None,
                 !.pc = CASE req[r].op = "create" -> "create"
                          [] req[r].op = "update" -> "write"
                          [] req[r].op = "remove" -> "delete"])
            /\ Note(~There(req[r].actor))
       ELSE Finish(r) /\ UNCHANGED history
  /\ UNCHANGED <<account, identity>>

\* The email address is looked up and is unique.
Create(r) ==
  /\ Waits(r, "create")
  /\ LET a == req[r].target
     IN  account' = IF account[a].state = "unborn"
                      THEN [account EXCEPT ![a] = [state |-> "there", role |-> req[r].role,
                                                   status |-> "ACTIVE", origin |-> None]]
                      ELSE account
  /\ Finish(r)
  /\ UNCHANGED <<identity, history>>

\* Mutants: an upsert; a status that is not mentioned is the default.
UpdatedOrInserted(row, role, status) ==
  [row EXCEPT !.role = IF role = None THEN @ ELSE role,
              !.status = IF status = None THEN @ ELSE status]

UpdatedWithDefault(row, role, status) ==
  IF row.state # "there" THEN row
  ELSE [row EXCEPT !.role = IF role = None THEN @ ELSE role,
                   !.status = IF status = None THEN "ACTIVE" ELSE status]

\* An update writes the columns that are mentioned, and fails without a row.
Updated(row, role, status) ==
  IF row.state # "there" THEN row
  ELSE [row EXCEPT !.role = IF role = None THEN @ ELSE role,
                   !.status = IF status = None THEN @ ELSE status]

Write(r) ==
  /\ Waits(r, "write")
  /\ account' = [account EXCEPT ![req[r].target] = Updated(@, req[r].role, req[r].status)]
  /\ Finish(r)
  /\ UNCHANGED <<identity, history>>

\* The identities of the account go with it.
Delete(r) ==
  /\ Waits(r, "delete")
  /\ LET a == req[r].target
     IN  IF There(a)
           THEN /\ account' = [account EXCEPT ![a] = Absent("gone")]
                /\ identity' = [x \in Externals |-> IF identity[x] = a THEN None ELSE identity[x]]
           ELSE UNCHANGED <<account, identity>>
  /\ Finish(r)
  /\ UNCHANGED history

------------------------------------------------------------------------------
(* SCIM, external providers and the LDAP directory *)

\* SCIM createUser looks the address up: an update of what is found, or a create.
\* The directory sign-in does the same (ensureUserForEmail), and then writes ACTIVE.
FindOrCreate(r, op, a, status) ==
  /\ Waits(r, "idle")
  /\ op = "directory" => status = "ACTIVE"
  /\ Enter(r, [Idle EXCEPT !.pc = IF There(a) THEN "status" ELSE "provision", !.op = op,
                           !.target = a, !.status = status])
  /\ UNCHANGED <<account, identity, history>>

\* SCIM patchUser and deleteUser: None where no operation is about active.
ScimUpdate(r, a, status) ==
  /\ Waits(r, "idle")
  /\ There(a)
  /\ Enter(r, [Idle EXCEPT !.pc = "status", !.target = a, !.status = status])
  /\ UNCHANGED <<account, identity, history>>

WriteStatus(r) ==
  /\ Waits(r, "status")
  /\ account' = [account EXCEPT ![req[r].target] = Updated(@, None, req[r].status)]
  /\ Finish(r)
  /\ UNCHANGED <<identity, history>>

\* getOrCreateSsoIdentity: an identity that is known answers with its account,
\* whatever the address and the account's status.
SsoSignIn(r, x, a) ==
  /\ Waits(r, "idle")
  /\ identity[x] = None
  /\ Enter(r, [Idle EXCEPT !.pc = "provision", !.op = "sso", !.target = a, !.external = x,
                           !.status = "ACTIVE"])
  /\ UNCHANGED <<account, identity, history>>

\* A mutant: the identity is connected to the account that has the address.
ProvisionConnected(r) ==
  /\ Waits(r, "provision")
  /\ LET a == req[r].target
         x == req[r].external
         row == [state |-> "there", role |-> "READ_ONLY_ADMIN", status |-> req[r].status,
                 origin |-> x]
     IN  /\ account' = [account EXCEPT ![a] = IF There(a) THEN @ ELSE row]
         /\ identity' = IF x = None THEN identity ELSE [identity EXCEPT ![x] = a]
  /\ Finish(r)
  /\ UNCHANGED history

\* create of a user (with the identity, if one signs in): both keys are unique.
Provision(r) ==
  /\ Waits(r, "provision")
  /\ LET a == req[r].target
         x == req[r].external
     IN  IF account[a].state = "unborn" /\ (x # None => identity[x] = None)
           THEN /\ account' = [account EXCEPT ![a] =
                     [state |-> "there", role |-> "READ_ONLY_ADMIN", status |-> req[r].status,
                      origin |-> x]]
                /\ identity' = IF x = None THEN identity ELSE [identity EXCEPT ![x] = a]
                /\ IF req[r].op = "directory" THEN Goto(r, "status") ELSE Finish(r)
           ELSE UNCHANGED <<account, identity>> /\ Finish(r)
  /\ UNCHANGED history

\* The process dies.
Restart ==
  /\ \E r \in Requests : req[r] # Idle
  /\ req' = [r \in Requests |-> Idle]
  /\ UNCHANGED <<account, identity, history>>

Administration(r) ==
  \/ \E actor, a \in Accounts :
       \/ \E role \in Roles : CreateUser(r, actor, a, role)
       \/ \E role \in Roles \cup {None}, status \in Status \cup {None} :
            UpdateUser(r, actor, a, role, status)
       \/ RemoveUser(r, actor, a)
  \/ FindTarget(r)
  \/ FindActor(r)
  \/ Create(r)
  \/ Write(r)
  \/ Delete(r)

Provisioning(r) ==
  \/ \E a \in Accounts :
       \/ \E op \in {"scim", "directory"}, status \in Status : FindOrCreate(r, op, a, status)
       \/ \E status \in Status \cup {None} : ScimUpdate(r, a, status)
       \/ \E x \in Externals : SsoSignIn(r, x, a)
  \/ WriteStatus(r)
  \/ Provision(r)

Next ==
  \/ \E r \in Requests : Administration(r) \/ Provisioning(r)
  \/ Restart

Spec == Init /\ [][Next]_vars

------------------------------------------------------------------------------
(* Properties *)

\* As long as no SUPER_ADMIN acts, and no request goes on without its actor
\* (users.service counts an actor who was removed meanwhile as SUPER_ADMIN),
\* nobody reaches the highest rank there was: administrators of that rank
\* cannot make others their equals, in whatever steps, with whatever stale roles.
TopRankClosed ==
  ceiling # None => \A a \in Accounts :
    There(a) /\ Rank(a) >= ceiling => a \in elders \/ account[a].role = "READ_ONLY_ADMIN"

\* In the same conditions the SUPER_ADMINs keep role and account: what other
\* administrators start before or after (update and remove read the target,
\* then the actor, and then write) cannot demote or delete them.
SuperAdminsStand ==
  ceiling = RoleWeight["SUPER_ADMIN"] =>
    \A a \in elders : There(a) /\ account[a].role = "SUPER_ADMIN"

\* A suspended account becomes ACTIVE, and an active one suspended, only by a
\* request about it that asked for that status: a patch of other attributes, a
\* change of role or a sign-in through an external provider that overlaps a
\* suspension does not write back what it read.
StatusAsAsked ==
  [][\A a \in Accounts :
       account[a].state = "there" /\ account'[a].state = "there"
         /\ account[a].status # account'[a].status =>
           \E r \in Requests : req[r].target = a /\ req[r].status = account'[a].status]_vars

\* An external subject is tied to the account that its own first sign-in made
\* (getOrCreateSsoIdentity), never to one that an administrator, SCIM or another
\* subject made, also when both come with the same address at the same time.
IdentityOfOrigin ==
  \A x \in Externals : identity[x] # None =>
    There(identity[x]) /\ account[identity[x]].origin = x
==============================================================================
