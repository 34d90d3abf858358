----------------------------- MODULE Memberships -----------------------------
(***************************************************************************)
(* The three link tables (GroupMember, UserApplicationAssignment and       *)
(* GroupApplicationAssignment) and the handlers of groups, users,          *)
(* applications and SCIM that write them.  None of them uses a             *)
(* transaction: every statement is a step of its own, and the lists that   *)
(* the statements write were made of what earlier statements read.         *)
(*                                                                         *)
(* A link is a pair of ids; a handler works on the links of its scope and  *)
(* wants those of its list to be there.  Names, ARCHIVED applications and  *)
(* everything else the handlers write is left out.                         *)
(***************************************************************************)
EXTENDS FiniteSets

CONSTANTS
  Users, Groups, Apps,  \* ids; an id that was deleted is never drawn again
  Requests              \* slots for requests in progress

ASSUME MembershipsAssumption ==
  /\ Users \cap Groups = {}
  /\ Users \cap Apps = {}
  /\ Groups \cap Apps = {}

VARIABLES
  there,   \* the users, groups and applications that exist
  unborn,  \* the groups that were not created yet
  rows,    \* the rows of the link tables
  req,     \* the requests in progress
  may      \* history: see Settled

vars == <<there, unborn, rows, req, may>>

Entity == Users \cup Groups \cup Apps
Link == (Users \X Groups) \cup (Users \X Apps) \cup (Groups \X Apps)

Ends(l) == {l[1], l[2]}
Standing(l) == Ends(l) \subseteq there

\* The links between owner and the entities of a kind (one deleteMany).
Scope(owner, kind) == {l \in Link : \E e \in kind \ {owner} : Ends(l) = {owner, e}}
To(scope, others) == {l \in scope : Ends(l) \cap others # {}}

PC == {"idle", "valid", "delete", "create", "existing", "insert", "unlink", "leave", "drop"}

\* found: the row that removeMember found is still there.
Request == [pc : PC, owner : Entity \cup {"none"}, scope : SUBSET Link, list : SUBSET Link,
            found : BOOLEAN]

Idle == [pc |-> "idle", owner |-> "none", scope |-> {}, list |-> {}, found |-> FALSE]

\* The foreign keys hold, and a request wants links of its scope only.
TypeOK ==
  /\ there \in SUBSET Entity
  /\ unborn \in SUBSET (Groups \ there)
  /\ rows \in SUBSET Link
  /\ \A l \in rows : Standing(l)
  /\ req \in [Requests -> Request]
  /\ \A r \in Requests : req[r].list \subseteq req[r].scope
  /\ may \in [Link -> SUBSET BOOLEAN]

Init ==
  /\ unborn \in SUBSET Groups
  /\ there = Entity \ unborn
  /\ rows \in SUBSET {l \in Link : Standing(l)}
  /\ req = [r \in Requests |-> Idle]
  /\ may = [l \in Link |-> {(l \in rows)}]

------------------------------------------------------------------------------
(* The history may[l]: what the writers of the link, since the link last    *)
(* had none, wanted it to be.  A writer that fails adds the opposite, one   *)
(* that a restart cuts off adds both; without a writer there is one answer. *)
(* (The parentheses in {(l \in rows)} are for tlapm, which would bind l.)   *)

WritersIn(q, l) == {r \in Requests : l \in q[r].scope}

Wants(r, request) ==
  may' = [l \in Link |->
    IF l \in request.scope
      THEN {(l \in request.list)} \cup (IF WritersIn(req, l) = {} THEN {} ELSE may[l])
      ELSE may[l]]

Settle(candidates) ==
  may' = [l \in Link |-> IF WritersIn(req', l) = {} THEN candidates[l] \cap {(l \in rows')}
                         ELSE candidates[l]]

Failure(r) == [l \in Link |-> IF l \in req[r].scope THEN may[l] \cup {(l \notin req[r].list)}
                              ELSE may[l]]

------------------------------------------------------------------------------

Waits(r, pc) == req[r].pc = pc

Begin(r, request) ==
  /\ Waits(r, "idle")
  /\ req' = [req EXCEPT ![r] = request]
  /\ Wants(r, request)

Goto(r, pc) == req' = [req EXCEPT ![r].pc = pc] /\ UNCHANGED may

\* Rows leave: a request that found one of them holds the id of no row.
Lose(gone, q) ==
  /\ rows' = rows \ gone
  /\ req' = [s \in Requests |->
       [q[s] EXCEPT !.found = @ /\ q[s].scope \cap gone = {}]]

Done(r) == [req EXCEPT ![r] = Idle]
Succeed(r) == req' = Done(r) /\ Settle(may)
Fail(r) == req' = Done(r) /\ Settle(Failure(r))

------------------------------------------------------------------------------
(* Replacing a list *)

\* groups setUsers and setApplications, users assignGroups and
\* assignApplications, applications setAssignedUsers and setAssignedGroups: the
\* owner is found, and which of the wanted others exist.
Replace(r, owner, kind, wanted) ==
  /\ owner \in there
  /\ Scope(owner, kind) # {}
  /\ LET scope == Scope(owner, kind)
     IN  Begin(r, [Idle EXCEPT !.pc = "delete", !.owner = owner, !.scope = scope,
                               !.list = To(scope, wanted \cap there)])
  /\ UNCHANGED <<there, unborn, rows>>

\* groups create, and SCIM POST Groups without members.
AddGroup(g) ==
  /\ g \in unborn
  /\ unborn' = unborn \ {g}
  /\ there' = there \cup {g}
  /\ UNCHANGED <<rows, req, may>>

\* SCIM POST Groups: the group, and then its members.
CreateGroup(r, g, wanted) ==
  /\ wanted # {}
  /\ g \in unborn
  /\ unborn' = unborn \ {g}
  /\ there' = there \cup {g}
  /\ LET scope == Scope(g, Users)
     IN  Begin(r, [Idle EXCEPT !.pc = "valid", !.owner = g, !.scope = scope,
                               !.list = To(scope, wanted)])
  /\ UNCHANGED rows

\* SCIM PATCH Groups/:id: the next list is made of the members read here.
\* A patch of the display name alone writes back what it read ("add" of none);
\* "replace" without members (a rename without a path) wants none.
PatchGroup(r, g, op, users) ==
  /\ g \in there
  /\ LET scope == Scope(g, Users)
         members == rows \cap scope
     IN  Begin(r, [Idle EXCEPT !.pc = "valid", !.owner = g, !.scope = scope,
           !.list = CASE op = "add" -> members \cup To(scope, users)
                      [] op = "replace" -> To(scope, users)
                      [] op = "remove" -> members \ To(scope, users)])
  /\ UNCHANGED <<there, unborn, rows>>

\* syncGroupMembers asks which of the listed users exist.
SyncGroupMembers(r) ==
  /\ Waits(r, "valid")
  /\ req' = [req EXCEPT ![r].pc = "delete",
                        ![r].list = {l \in @ : Ends(l) \ {req[r].owner} \subseteq there}]
  /\ UNCHANGED <<there, unborn, rows, may>>

\* deleteMany of the scope.
DeleteMany(r) ==
  /\ Waits(r, "delete")
  /\ Lose(req[r].scope, IF req[r].list = {} THEN Done(r)
                        ELSE [req EXCEPT ![r].pc = "create"])
  /\ Settle(may)
  /\ UNCHANGED <<there, unborn>>

\* createMany with skipDuplicates: fails on a missing user, group or application.
CreateMany(r) ==
  /\ Waits(r, "create")
  /\ IF \A l \in req[r].list : Standing(l)
       THEN rows' = rows \cup req[r].list /\ Succeed(r)
       ELSE UNCHANGED rows /\ Fail(r)
  /\ UNCHANGED <<there, unborn>>

------------------------------------------------------------------------------
(* Adding and removing members *)

\* groups addMembers, and users assignGroup with one user.
AddMembers(r, g, users) ==
  /\ g \in there
  /\ LET list == To(Scope(g, Users), users \cap there)
     IN  /\ list # {}
         /\ Begin(r, [Idle EXCEPT !.pc = "existing", !.owner = g, !.scope = list, !.list = list])
  /\ UNCHANGED <<there, unborn, rows>>

\* A mutant: one who is a member already is taken for all of them.
FindAnyExisting(r) ==
  /\ Waits(r, "existing")
  /\ UNCHANGED <<there, unborn, rows>>
  /\ IF req[r].list \cap rows # {}
       THEN Succeed(r)
       ELSE Goto(r, "insert")

\* Those who are members already are left alone.
FindExisting(r) ==
  /\ Waits(r, "existing")
  /\ UNCHANGED <<there, unborn, rows>>
  /\ IF req[r].list \subseteq rows
       THEN Succeed(r)
       ELSE /\ req' = [req EXCEPT ![r].pc = "insert", ![r].list = @ \ rows]
            /\ UNCHANGED may

\* createMany without skipDuplicates: all of the list, or an error and none.
Insert(r) ==
  /\ Waits(r, "insert")
  /\ IF req[r].list \cap rows = {} /\ \A l \in req[r].list : Standing(l)
       THEN rows' = rows \cup req[r].list /\ Succeed(r)
       ELSE UNCHANGED rows /\ Fail(r)
  /\ UNCHANGED <<there, unborn>>

\* groups removeMember, users removeGroup: the row is found ...
RemoveMember(r, g, u) ==
  /\ g \in there
  /\ <<u, g>> \in rows
  /\ Begin(r, [Idle EXCEPT !.pc = "unlink", !.owner = g, !.scope = {<<u, g>>}, !.found = TRUE])
  /\ UNCHANGED <<there, unborn, rows>>

\* A mutant: deleted by user and group, whichever row that is.
UnlinkByKey(r) ==
  /\ Waits(r, "unlink")
  /\ Lose(req[r].scope, Done(r))
  /\ Settle(may)
  /\ UNCHANGED <<there, unborn>>

\* ... and deleted by its id, which throws when that very row is gone.
Unlink(r) ==
  /\ Waits(r, "unlink")
  /\ IF req[r].found
       THEN Lose(req[r].scope, Done(r)) /\ Settle(may)
       ELSE UNCHANGED rows /\ Fail(r)
  /\ UNCHANGED <<there, unborn>>

------------------------------------------------------------------------------
(* Removing users, groups and applications *)

\* users remove: the memberships are deleted, and then the user ...
RemoveUser(r, u) ==
  /\ u \in there
  /\ Begin(r, [Idle EXCEPT !.pc = "leave", !.owner = u, !.scope = Scope(u, Groups)])
  /\ UNCHANGED <<there, unborn, rows>>

LeaveGroups(r) ==
  /\ Waits(r, "leave")
  /\ Lose(req[r].scope, [req EXCEPT ![r].pc = "drop"])
  /\ UNCHANGED <<there, unborn, may>>

\* A mutant: without the cascade.
DropOnly(e, q) ==
  /\ there' = there \ {e}
  /\ Lose({}, q)
  /\ Settle([l \in Link |-> may[l] \cup (IF e \in Ends(l) THEN {FALSE} ELSE {})])

\* A delete takes the rows that refer to the entity with it (onDelete: Cascade).
Drop(e, q) ==
  /\ there' = there \ {e}
  /\ Lose({l \in rows : e \in Ends(l)}, q)
  /\ Settle([l \in Link |-> may[l] \cup (IF e \in Ends(l) THEN {FALSE} ELSE {})])

\* ... who may have been deleted by another request.
DropUser(r) ==
  /\ Waits(r, "drop")
  /\ IF req[r].owner \in there
       THEN Drop(req[r].owner, Done(r))
       ELSE UNCHANGED <<there, rows>> /\ Fail(r)
  /\ UNCHANGED unborn

\* groups remove, SCIM DELETE Groups/:id, applications remove: the one
\* statement that counts.
Remove(e) ==
  /\ e \in there \ Users
  /\ Drop(e, req)
  /\ UNCHANGED unborn

\* The process dies.
Restart ==
  /\ \E r \in Requests : req[r] # Idle
  /\ req' = [r \in Requests |-> Idle]
  /\ UNCHANGED <<there, unborn, rows>>
  /\ Settle([l \in Link |-> IF WritersIn(req, l) = {} THEN may[l] ELSE BOOLEAN])

------------------------------------------------------------------------------

Lists(r) ==
  \/ \E owner \in Entity, kind \in {Users, Groups, Apps} :
       \E wanted \in SUBSET kind : Replace(r, owner, kind, wanted)
  \/ \E g \in Groups, users \in SUBSET Users :
       \/ CreateGroup(r, g, users)
       \/ \E op \in {"add", "replace", "remove"} : PatchGroup(r, g, op, users)
  \/ SyncGroupMembers(r)
  \/ DeleteMany(r)
  \/ CreateMany(r)

Members(r) ==
  \/ \E g \in Groups, users \in SUBSET Users : AddMembers(r, g, users)
  \/ FindExisting(r)
  \/ Insert(r)
  \/ \E g \in Groups, u \in Users : RemoveMember(r, g, u)
  \/ Unlink(r)

Removals(r) ==
  \/ \E u \in Users : RemoveUser(r, u)
  \/ LeaveGroups(r)
  \/ DropUser(r)

Next ==
  \/ \E r \in Requests : Lists(r) \/ Members(r) \/ Removals(r)
  \/ \E g \in Groups : AddGroup(g)
  \/ \E e \in Groups \cup Apps : Remove(e)
  \/ Restart

Spec == Init /\ [][Next]_vars

------------------------------------------------------------------------------
(* Properties *)

\* However handlers that write the same rows from different sides interleave
\* (groups.service setUsers, addMembers and removeMember, users.service
\* assignGroups, scim.service patchGroup), a membership or assignment is, once
\* none of its writers is left, what one of the last overlapping writers wanted
\* it to be; one that reported success alone got its way, and a row no request
\* was about is what it was.  (A SCIM patch wants the members it read.)
Settled == \A l \in Link : Standing(l) /\ WritersIn(req, l) = {} => (l \in rows) \in may[l]

\* A member is only removed by who meant it: a removal that was overtaken by a
\* request that put the same user into the group again fails (the row it found
\* has another id) instead of undoing what that request did.
RemovalHitsTheRowFound ==
  [][\A r \in Requests, l \in Link :
       /\ req[r].pc = "unlink" /\ req'[r].pc = "idle" /\ req[r].scope = {l}
       /\ l \in rows /\ l \notin rows'
       /\ there' = there
       => req[r].found]_vars
==============================================================================
