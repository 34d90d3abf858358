--------------------------- MODULE MembershipsProofs ---------------------------
(* Theorems about Memberships for any users, groups, applications and         *)
(* requests: the foreign keys, that every link settles at what one of its     *)
(* writers wanted, and that a removal removes the row it found.               *)
EXTENDS Memberships, TLAPS

-----------------------------------------------------------------------------
(* The inductive invariant.                                                *)

\* A link that exists or may come to; no other ever will.
Alive(l) == Ends(l) \subseteq there \cup unborn

\* Some writer wanted the link to be what it is.
Holds(l) ==
  /\ l \in rows => TRUE \in may[l]
  /\ l \notin rows => FALSE \in may[l]

\* r has yet to decide what the link is.
Owes(r, l) ==
  /\ l \in req[r].scope
  /\ \/ req[r].pc \in {"valid", "delete", "existing", "unlink", "leave"}
     \/ req[r].pc \in {"create", "insert"} /\ l \in req[r].list

\* r wants the link to be there: addMembers drops from its list who is a member
\* already.
Meant(r, l) == l \in req[r].list \/ req[r].pc \in {"existing", "insert"}

\* What r wants is part of the history.
Voiced(r, l) ==
  l \in req[r].scope =>
    /\ Meant(r, l) => TRUE \in may[l]
    /\ ~Meant(r, l) => FALSE \in may[l]

LinkSound(l) ==
  Alive(l) =>
    /\ Holds(l) \/ \E r \in Requests : Owes(r, l)
    /\ \A r \in Requests : Voiced(r, l)

\* What a request has in hand where it stands, and that a row it found is there.
PlaceSound(r) ==
  LET q == req[r]
  IN  /\ q.pc = "idle" => q.scope = {}
      /\ q.pc = "valid" => \A l \in q.scope : Ends(l) \ {q.owner} \subseteq Users
      /\ q.pc = "existing" => q.list = q.scope
      /\ q.pc \in {"unlink", "leave", "drop"} => q.list = {}
      /\ q.found => q.scope \subseteq rows

IInv ==
  /\ TypeOK
  /\ \A r \in Requests : PlaceSound(r)
  /\ \A l \in Link : LinkSound(l)

-----------------------------------------------------------------------------
(* What the steps leave of a request and of the history.                   *)

\* A free slot has nothing in hand.
LEMMA IdleType ==
  /\ Idle \in Request
  /\ Idle.pc = "idle" /\ Idle.scope = {} /\ Idle.list = {} /\ Idle.found = FALSE
  BY DEF Idle, Request, PC

\* A set of one answer.
LEMMA OneAnswer ==
  ASSUME NEW S, NEW x
  PROVE  /\ {(x \in S)} \in SUBSET BOOLEAN
         /\ x \in S => TRUE \in {(x \in S)}
         /\ x \notin S => FALSE \in {(x \in S)}
  <1>1. PICK b \in BOOLEAN : b = (x \in S)
    <2>1. (x \in S) \in BOOLEAN
      OBVIOUS
    <2>2. QED
      BY <2>1, Zenon
  <1>2. (x \in S => b = TRUE) /\ (x \notin S => b = FALSE)
    BY <1>1
  <1>3. \A c : c \in {(x \in S)} <=> c = b
    BY <1>1, SMT
  <1>4. QED
    BY <1>2, <1>3

\* Another's step leaves a request alone, but takes from it a row that went.
Kept(q) ==
  /\ req'[q].pc = req[q].pc /\ req'[q].owner = req[q].owner
  /\ req'[q].scope = req[q].scope /\ req'[q].list = req[q].list
  /\ req'[q].found => req[q].found /\ req[q].scope \cap (rows \ rows') = {}

\* A request that is kept is where it was.
LEMMA PlaceKept ==
  ASSUME NEW q \in Requests, PlaceSound(q), Kept(q)
  PROVE  PlaceSound(q)'
  BY DEF PlaceSound, Kept

\* Rows that leave change no more of the requests than what they found.
LEMMA LoseEffect ==
  ASSUME NEW gone, NEW q \in [Requests -> Request], Lose(gone, q)
  PROVE  /\ rows' = rows \ gone
         /\ req' \in [Requests -> Request]
         /\ \A s \in Requests :
              /\ req'[s].pc = q[s].pc /\ req'[s].owner = q[s].owner
              /\ req'[s].scope = q[s].scope /\ req'[s].list = q[s].list
              /\ req'[s].found => q[s].found /\ q[s].scope \cap gone = {}
  <1>1. ASSUME NEW s \in Requests
        PROVE  /\ req'[s] \in Request
               /\ req'[s].pc = q[s].pc /\ req'[s].owner = q[s].owner
               /\ req'[s].scope = q[s].scope /\ req'[s].list = q[s].list
               /\ req'[s].found => q[s].found /\ q[s].scope \cap gone = {}
    <2>1. PICK b \in BOOLEAN : b = (q[s].found /\ q[s].scope \cap gone = {})
      <3>1. (q[s].found /\ q[s].scope \cap gone = {}) \in BOOLEAN
        OBVIOUS
      <3>2. QED
        BY <3>1, Zenon
    <2>2. req'[s] = [q[s] EXCEPT !.found = q[s].found /\ q[s].scope \cap gone = {}]
      BY DEF Lose
    <2>3. req'[s] = [q[s] EXCEPT !.found = b]
      BY <2>1, <2>2
    <2>4. b => q[s].found /\ q[s].scope \cap gone = {}
      BY <2>1
    <2>5. QED
      BY <2>3, <2>4 DEF Request
  <1>2. req' \in [Requests -> Request]
    BY <1>1 DEF Lose
  <1>3. QED
    BY <1>1, <1>2 DEF Lose

\* The history says what candidates does, as far as it still matters.
Recorded(candidates) ==
  \A l \in Link :
    /\ WritersIn(req', l) # {} => may'[l] = candidates[l]
    /\ TRUE \in candidates[l] /\ l \in rows' => TRUE \in may'[l]
    /\ FALSE \in candidates[l] /\ l \notin rows' => FALSE \in may'[l]

\* Of an unchanged history that is so.
LEMMA StayRecorded ==
  ASSUME may' = may
  PROVE  Recorded(may)
  BY DEF Recorded

\* Settling keeps the answer of each link.
LEMMA SettleRecorded ==
  ASSUME NEW cand \in [Link -> SUBSET BOOLEAN], Settle(cand)
  PROVE  may' \in [Link -> SUBSET BOOLEAN] /\ Recorded(cand)
  <1>1. ASSUME NEW l \in Link
        PROVE  /\ may'[l] \in SUBSET BOOLEAN
               /\ WritersIn(req', l) # {} => may'[l] = cand[l]
               /\ TRUE \in cand[l] /\ l \in rows' => TRUE \in may'[l]
               /\ FALSE \in cand[l] /\ l \notin rows' => FALSE \in may'[l]
    <2>1. PICK answer : answer = {(l \in rows')}
      OBVIOUS
    <2>2. /\ l \in rows' => TRUE \in answer
          /\ l \notin rows' => FALSE \in answer
      BY <2>1, OneAnswer
    <2>3. may'[l] = IF WritersIn(req', l) = {} THEN cand[l] \cap answer ELSE cand[l]
      BY <2>1 DEF Settle
    <2>4. QED
      BY <2>2, <2>3
  <1>2. may' \in [Link -> SUBSET BOOLEAN]
    BY <1>1 DEF Settle
  <1>3. QED
    BY <1>1, <1>2 DEF Recorded

\* A failure adds the opposite of what was wanted.
LEMMA FailureType ==
  ASSUME TypeOK, NEW r \in Requests
  PROVE  /\ Failure(r) \in [Link -> SUBSET BOOLEAN]
         /\ \A l \in Link : may[l] \subseteq Failure(r)[l]
         /\ \A l \in Link : l \in req[r].scope =>
              /\ l \in req[r].list => FALSE \in Failure(r)[l]
              /\ l \notin req[r].list => TRUE \in Failure(r)[l]
  <1>1. ASSUME NEW l \in Link
        PROVE  /\ Failure(r)[l] \in SUBSET BOOLEAN
               /\ may[l] \subseteq Failure(r)[l]
               /\ l \in req[r].scope =>
                    /\ l \in req[r].list => FALSE \in Failure(r)[l]
                    /\ l \notin req[r].list => TRUE \in Failure(r)[l]
    <2>1. PICK opposite : opposite = {(l \notin req[r].list)}
      OBVIOUS
    <2>2. /\ opposite \in SUBSET BOOLEAN
          /\ l \in req[r].list => FALSE \in opposite
          /\ l \notin req[r].list => TRUE \in opposite
      <3>1. (l \notin req[r].list) \in BOOLEAN
        OBVIOUS
      <3>2. l \in req[r].list => (l \notin req[r].list) = FALSE
        BY Zenon
      <3>3. l \notin req[r].list => (l \notin req[r].list) = TRUE
        BY Zenon
      <3>4. QED
        BY <2>1, <3>1, <3>2, <3>3, Zenon
    <2>3. Failure(r)[l] = IF l \in req[r].scope THEN may[l] \cup opposite ELSE may[l]
      BY <2>1 DEF Failure
    <2>4. QED
      BY <2>2, <2>3 DEF TypeOK
  <1>2. QED
    BY <1>1 DEF Failure

\* A request that begins adds what it wants; without another writer that is all.
LEMMA WantsEffect ==
  ASSUME TypeOK, NEW r, NEW q \in Request, Wants(r, q)
  PROVE  /\ may' \in [Link -> SUBSET BOOLEAN]
         /\ \A l \in Link :
              /\ l \notin q.scope => may'[l] = may[l]
              /\ l \in q.scope /\ l \in q.list => TRUE \in may'[l]
              /\ l \in q.scope /\ l \notin q.list => FALSE \in may'[l]
              /\ WritersIn(req, l) # {} => may[l] \subseteq may'[l]
  <1>1. ASSUME NEW l \in Link
        PROVE  /\ may'[l] \in SUBSET BOOLEAN
               /\ l \notin q.scope => may'[l] = may[l]
               /\ l \in q.scope /\ l \in q.list => TRUE \in may'[l]
               /\ l \in q.scope /\ l \notin q.list => FALSE \in may'[l]
               /\ WritersIn(req, l) # {} => may[l] \subseteq may'[l]
    <2>1. PICK answer : answer = {(l \in q.list)}
      OBVIOUS
    <2>2. /\ answer \in SUBSET BOOLEAN
          /\ l \in q.list => TRUE \in answer
          /\ l \notin q.list => FALSE \in answer
      BY <2>1, OneAnswer
    <2>3. may'[l] = IF l \in q.scope
                      THEN answer \cup (IF WritersIn(req, l) = {} THEN {} ELSE may[l])
                      ELSE may[l]
      BY <2>1 DEF Wants
    <2>4. may[l] \in SUBSET BOOLEAN
      BY DEF TypeOK
    <2>5. QED
      BY <2>2, <2>3, <2>4
  <1>2. may' \in [Link -> SUBSET BOOLEAN]
    BY <1>1 DEF Wants
  <1>3. QED
    BY <1>1, <1>2

-----------------------------------------------------------------------------
(* What keeps the invariant.                                               *)

\* A request that begins has all to decide.
LEMMA BeginSound ==
  ASSUME IInv, NEW r \in Requests, NEW q \in Request, Begin(r, q), rows' = rows,
         there \subseteq there', there' \in SUBSET Entity, unborn' \in SUBSET (Groups \ there'),
         there' \cup unborn' \subseteq there \cup unborn,
         q.list \subseteq q.scope, q.found => q.scope \subseteq rows,
         \/ q.pc = "valid" /\ \A l \in q.scope : Ends(l) \ {q.owner} \subseteq Users
         \/ q.pc = "delete"
         \/ q.pc = "existing" /\ q.list = q.scope
         \/ q.pc \in {"unlink", "leave"} /\ q.list = {}
  PROVE  IInv'
  <1>1. TypeOK /\ req[r].pc = "idle" /\ Wants(r, q)
    BY DEF IInv, Begin, Waits
  <1>2. /\ req' \in [Requests -> Request] /\ req'[r] = q
        /\ \A p \in Requests \ {r} : req'[p] = req[p]
    BY <1>1 DEF TypeOK, Begin
  <1>3. /\ may' \in [Link -> SUBSET BOOLEAN]
        /\ \A l \in Link :
             /\ l \notin q.scope => may'[l] = may[l]
             /\ l \in q.scope /\ l \in q.list => TRUE \in may'[l]
             /\ l \in q.scope /\ l \notin q.list => FALSE \in may'[l]
             /\ WritersIn(req, l) # {} => may[l] \subseteq may'[l]
    BY <1>1, WantsEffect
  <1>4. TypeOK'
    BY <1>1, <1>2, <1>3 DEF TypeOK, Standing
  <1>5. ASSUME NEW p \in Requests
        PROVE  PlaceSound(p)'
    BY <1>2 DEF IInv, PlaceSound
  <1>6. ASSUME NEW l \in Link, Alive(l)'
        PROVE  /\ Holds(l)' \/ \E p \in Requests : Owes(p, l)'
               /\ \A p \in Requests : Voiced(p, l)'
    <2>1. LinkSound(l) /\ Alive(l)
      BY <1>6 DEF IInv, Alive
    <2>2. req[r].scope = {}
      BY <1>1 DEF IInv, PlaceSound
    <2>3. ASSUME NEW p \in Requests \ {r}
          PROVE  Voiced(p, l)' /\ (Owes(p, l) => Owes(p, l)')
      <3>1. l \in req[p].scope => WritersIn(req, l) # {}
        BY DEF WritersIn
      <3>2. QED
        BY <1>2, <1>3, <2>1, <3>1 DEF LinkSound, Voiced, Meant, Owes
    <2>4. Voiced(r, l)'
      BY <1>2, <1>3 DEF Voiced, Meant
    <2>5. CASE l \in q.scope
      <3>1. Owes(r, l)'
        BY <1>2, <2>5 DEF Owes
      <3>2. QED
        BY <2>3, <2>4, <3>1
    <2>6. CASE l \notin q.scope
      <3>1. ~Owes(r, l)
        BY <2>2 DEF Owes
      <3>2. Holds(l) => Holds(l)'
        BY <1>3, <2>6 DEF Holds
      <3>3. QED
        BY <2>1, <2>3, <2>4, <3>1, <3>2 DEF LinkSound
    <2>7. QED
      BY <2>5, <2>6
  <1>7. QED
    BY <1>4, <1>5, <1>6 DEF IInv, LinkSound

\* The invariant of a link, when the history records what the writers that
\* remain want, and either what the link is or somebody to decide it.
LEMMA LinkRecorded ==
  ASSUME NEW cand, Recorded(cand), NEW l \in Link,
         \/ (l \in rows' => TRUE \in cand[l]) /\ (l \notin rows' => FALSE \in cand[l])
         \/ \E q \in Requests : Owes(q, l)',
         \A q \in Requests : l \in req'[q].scope =>
           /\ Meant(q, l)' => TRUE \in cand[l]
           /\ ~Meant(q, l)' => FALSE \in cand[l]
  PROVE  LinkSound(l)'
  <1>1. \A q \in Requests : Voiced(q, l)'
    <2> SUFFICES ASSUME NEW q \in Requests, l \in req'[q].scope
                 PROVE  Voiced(q, l)'
      BY DEF Voiced
    <2>1. WritersIn(req', l) # {}
      BY DEF WritersIn
    <2>2. may'[l] = cand[l]
      BY <2>1 DEF Recorded
    <2>3. QED
      BY <2>2 DEF Voiced
  <1>2. Holds(l)' \/ \E q \in Requests : Owes(q, l)'
    BY DEF Recorded, Holds
  <1>3. QED
    BY <1>1, <1>2 DEF LinkSound

\* A step of one request: of each link that it decided, it knows the answer;
\* of the others that it need not decide, it left the row alone.
LEMMA StepSound ==
  ASSUME IInv, NEW r \in Requests, NEW cand \in [Link -> SUBSET BOOLEAN], Recorded(cand),
         TypeOK', PlaceSound(r)', \A q \in Requests \ {r} : Kept(q),
         there' \cup unborn' \subseteq there \cup unborn,
         \A l \in Link : may[l] \subseteq cand[l],
         \A l \in Link : Alive(l)' =>
           \/ (l \in rows' => TRUE \in cand[l]) /\ (l \notin rows' => FALSE \in cand[l])
           \/ Owes(r, l)'
           \/ ~Owes(r, l) /\ (l \in rows' <=> l \in rows),
         \A l \in Link : Alive(l)' /\ l \in req'[r].scope =>
           /\ Meant(r, l)' => TRUE \in cand[l]
           /\ ~Meant(r, l)' => FALSE \in cand[l]
  PROVE  IInv'
  <1>1. ASSUME NEW q \in Requests
        PROVE  PlaceSound(q)'
    BY PlaceKept DEF IInv
  <1>2. ASSUME NEW l \in Link, Alive(l)'
        PROVE  LinkSound(l)'
    <2>1. /\ Holds(l) \/ \E p \in Requests : Owes(p, l)
          /\ \A p \in Requests : Voiced(p, l)
      BY <1>2 DEF IInv, LinkSound, Alive
    <2>2. ASSUME NEW q \in Requests, l \in req'[q].scope
          PROVE  /\ Meant(q, l)' => TRUE \in cand[l]
                 /\ ~Meant(q, l)' => FALSE \in cand[l]
      <3>1. CASE q = r
        BY <1>2, <2>2, <3>1
      <3>2. CASE q # r
        <4>1. l \in req[q].scope /\ (Meant(q, l)' <=> Meant(q, l))
          BY <2>2, <3>2 DEF Kept, Meant
        <4>2. QED
          BY <2>1, <4>1 DEF Voiced
      <3>3. QED
        BY <3>1, <3>2
    <2>3. \/ (l \in rows' => TRUE \in cand[l]) /\ (l \notin rows' => FALSE \in cand[l])
          \/ \E q \in Requests : Owes(q, l)'
      <3>1. CASE ~Owes(r, l) /\ (l \in rows' <=> l \in rows)
        <4>1. CASE Holds(l)
          BY <3>1, <4>1 DEF Holds
        <4>2. ASSUME NEW q \in Requests, Owes(q, l)
              PROVE  Owes(q, l)'
          BY <3>1, <4>2 DEF Owes, Kept
        <4>3. QED
          BY <2>1, <4>1, <4>2
      <3>2. QED
        BY <1>2, <3>1
    <2>4. QED
      BY <2>2, <2>3, LinkRecorded
  <1>3. QED
    BY <1>1, <1>2 DEF IInv, LinkSound

\* What a request that is on its way has of the invariant.
LEMMA AtWork ==
  ASSUME IInv, NEW r \in Requests
  PROVE  /\ TypeOK /\ PlaceSound(r) /\ req[r] \in Request
         /\ req[r].scope \subseteq Link /\ req[r].list \subseteq req[r].scope
         /\ may \in [Link -> SUBSET BOOLEAN]
         /\ \A l \in Link : Alive(l) => Voiced(r, l)
  BY DEF IInv, TypeOK, Request, LinkSound

\* The links between two.
LEMMA ScopeType ==
  ASSUME NEW owner, NEW kind, NEW others
  PROVE  /\ Scope(owner, kind) \in SUBSET Link
         /\ To(Scope(owner, kind), others) \subseteq Scope(owner, kind)
         /\ \A l \in Scope(owner, kind) : Ends(l) \ {owner} \subseteq kind
  BY DEF Scope, To

-----------------------------------------------------------------------------
(* Requests that begin.                                                    *)

\* Lists begin with what the owner is to be linked to.
LEMMA ReplaceStep ==
  ASSUME IInv, NEW r \in Requests, NEW owner \in Entity, NEW kind, NEW wanted,
         Replace(r, owner, kind, wanted)
  PROVE  IInv'
  <1> DEFINE scope == Scope(owner, kind)
             list == To(scope, wanted \cap there)
             q == [Idle EXCEPT !.pc = "delete", !.owner = owner, !.scope = scope, !.list = list]
  <1>1. scope \in SUBSET Link /\ list \subseteq scope
    BY ScopeType
  <1>2. Begin(r, q) /\ UNCHANGED <<there, unborn, rows>>
    BY DEF Replace
  <1> HIDE DEF scope, list
  <1>3. /\ q \in Request /\ q.pc = "delete" /\ q.scope = scope /\ q.list = list /\ ~q.found
    BY <1>1 DEF Idle, Request, PC
  <1> HIDE DEF q
  <1>4. QED
    BY <1>1, <1>2, <1>3, BeginSound DEF IInv, TypeOK

\* The links of a group begin as a list to be validated.
LEMMA GroupBegins ==
  ASSUME IInv, NEW r \in Requests, NEW g \in Groups, NEW list \in SUBSET Scope(g, Users),
         Begin(r, [Idle EXCEPT !.pc = "valid", !.owner = g, !.scope = Scope(g, Users),
                               !.list = list]),
         rows' = rows, there \subseteq there', there' \in SUBSET Entity,
         unborn' \in SUBSET (Groups \ there'), there' \cup unborn' \subseteq there \cup unborn
  PROVE  IInv'
  <1> DEFINE scope == Scope(g, Users)
             q == [Idle EXCEPT !.pc = "valid", !.owner = g, !.scope = scope, !.list = list]
  <1>1. /\ scope \in SUBSET Link /\ list \subseteq scope
        /\ \A l \in scope : Ends(l) \ {g} \subseteq Users
    BY ScopeType
  <1>2. Begin(r, q)
    OBVIOUS
  <1> HIDE DEF scope
  <1>3. /\ q \in Request /\ q.pc = "valid" /\ q.scope = scope /\ q.list = list /\ ~q.found
        /\ q.owner = g
    BY <1>1 DEF Idle, Request, PC, Entity
  <1> HIDE DEF q
  <1>4. QED
    BY <1>1, <1>2, <1>3, BeginSound

\* A group that is created is taken from those to come.
LEMMA BornType ==
  ASSUME TypeOK, NEW g \in unborn, unborn' = unborn \ {g}, there' = there \cup {g}
  PROVE  /\ there \subseteq there' /\ there' \in SUBSET Entity
         /\ unborn' \in SUBSET (Groups \ there')
         /\ there' \cup unborn' \subseteq there \cup unborn
  BY DEF TypeOK, Entity

\* SCIM POST Groups and PATCH Groups/:id.
LEMMA GroupStep ==
  ASSUME IInv, NEW r \in Requests, NEW g \in Groups, NEW users,
         \/ CreateGroup(r, g, users)
         \/ \E op \in {"add", "replace", "remove"} : PatchGroup(r, g, op, users)
  PROVE  IInv'
  <1> DEFINE scope == Scope(g, Users)
             wanted == To(scope, users)
             members == rows \cap scope
             of(list) == [Idle EXCEPT !.pc = "valid", !.owner = g, !.scope = scope,
                                      !.list = list]
  <1>1. wanted \in SUBSET scope
    BY ScopeType
  <1>2. CASE CreateGroup(r, g, users)
    <2>1. /\ there \subseteq there' /\ there' \in SUBSET Entity
          /\ unborn' \in SUBSET (Groups \ there')
          /\ there' \cup unborn' \subseteq there \cup unborn
      BY <1>2, BornType DEF CreateGroup, IInv
    <2>2. rows' = rows /\ Begin(r, of(wanted))
      BY <1>2 DEF CreateGroup
    <2> HIDE DEF wanted
    <2>3. QED
      BY <1>1, <2>1, <2>2, GroupBegins
  <1>3. ASSUME NEW op \in {"add", "replace", "remove"}, PatchGroup(r, g, op, users)
        PROVE  IInv'
    <2>1. PICK list : /\ list \in {members \cup wanted, wanted, members \ wanted}
                      /\ Begin(r, of(list))
      <3>1. CASE op = "add"
        BY <1>3, <3>1 DEF PatchGroup
      <3>2. CASE op = "replace"
        BY <1>3, <3>2 DEF PatchGroup
      <3>3. CASE op = "remove"
        BY <1>3, <3>3 DEF PatchGroup
      <3>4. QED
        BY <3>1, <3>2, <3>3
    <2>2. list \in SUBSET scope
      BY <1>1, <2>1
    <2>3. UNCHANGED <<there, unborn, rows>>
      BY <1>3 DEF PatchGroup
    <2>4. QED
      BY <2>1, <2>2, <2>3, GroupBegins DEF IInv, TypeOK
  <1>4. QED
    BY <1>2, <1>3

\* Members to be added begin as those wanted.
LEMMA AddMembersStep ==
  ASSUME IInv, NEW r \in Requests, NEW g \in Groups, NEW users, AddMembers(r, g, users)
  PROVE  IInv'
  <1> DEFINE list == To(Scope(g, Users), users \cap there)
             q == [Idle EXCEPT !.pc = "existing", !.owner = g, !.scope = list, !.list = list]
  <1>1. list \in SUBSET Link
    BY ScopeType
  <1>2. Begin(r, q) /\ UNCHANGED <<there, unborn, rows>>
    BY DEF AddMembers
  <1> HIDE DEF list
  <1>3. /\ q \in Request /\ q.pc = "existing" /\ q.scope = list /\ q.list = list /\ ~q.found
    BY <1>1 DEF Idle, Request, PC, Entity
  <1> HIDE DEF q
  <1>4. QED
    BY <1>1, <1>2, <1>3, BeginSound DEF IInv, TypeOK

\* A removal begins with the row it found.
LEMMA RemoveMemberStep ==
  ASSUME IInv, NEW r \in Requests, NEW g \in Groups, NEW u \in Users, RemoveMember(r, g, u)
  PROVE  IInv'
  <1> DEFINE scope == {<<u, g>>}
             q == [Idle EXCEPT !.pc = "unlink", !.owner = g, !.scope = scope, !.found = TRUE]
  <1>1. scope \in SUBSET Link
    BY DEF Link
  <1>2. Begin(r, q) /\ UNCHANGED <<there, unborn, rows>> /\ scope \subseteq rows
    BY DEF RemoveMember
  <1> HIDE DEF scope
  <1>3. /\ q \in Request /\ q.pc = "unlink" /\ q.scope = scope /\ q.list = {}
    BY <1>1 DEF Idle, Request, PC, Entity
  <1> HIDE DEF q
  <1>4. QED
    BY <1>1, <1>2, <1>3, BeginSound DEF IInv, TypeOK

\* The removal of a user begins with all its memberships.
LEMMA RemoveUserStep ==
  ASSUME IInv, NEW r \in Requests, NEW u \in Users, RemoveUser(r, u)
  PROVE  IInv'
  <1> DEFINE scope == Scope(u, Groups)
             q == [Idle EXCEPT !.pc = "leave", !.owner = u, !.scope = scope]
  <1>1. scope \in SUBSET Link
    BY ScopeType
  <1>2. Begin(r, q) /\ UNCHANGED <<there, unborn, rows>>
    BY DEF RemoveUser
  <1> HIDE DEF scope
  <1>3. /\ q \in Request /\ q.pc = "leave" /\ q.scope = scope /\ q.list = {} /\ ~q.found
    BY <1>1 DEF Idle, Request, PC, Entity
  <1> HIDE DEF q
  <1>4. QED
    BY <1>1, <1>2, <1>3, BeginSound DEF IInv, TypeOK

-----------------------------------------------------------------------------
(* Requests on their way.                                                  *)

\* No entity comes to be that was not to come.
LEMMA StillAlive ==
  ASSUME NEW l, there' \cup unborn' \subseteq there \cup unborn, Alive(l)'
  PROVE  Alive(l)
  BY DEF Alive

\* A step that moves r on in its own slot leaves the other requests.
LEMMA MoveEffect ==
  ASSUME TypeOK, NEW r \in Requests, NEW q \in Request, req' = [req EXCEPT ![r] = q],
         rows \subseteq rows'
  PROVE  /\ req' \in [Requests -> Request]
         /\ req'[r] = q
         /\ \A p \in Requests \ {r} : req'[p] = req[p] /\ Kept(p)
  BY DEF TypeOK, Kept

\* Those that the list keeps are the users that exist; users are never to come.
LEMMA SyncGroupMembersStep ==
  ASSUME IInv, NEW r \in Requests, SyncGroupMembers(r)
  PROVE  IInv'
  <1> DEFINE list == {l \in req[r].list : Ends(l) \ {req[r].owner} \subseteq there}
             q == [req[r] EXCEPT !.pc = "delete", !.list = list]
  <1>1. /\ TypeOK /\ PlaceSound(r) /\ req[r] \in Request /\ req[r].pc = "valid"
        /\ req[r].scope \subseteq Link /\ req[r].list \subseteq req[r].scope
        /\ may \in [Link -> SUBSET BOOLEAN] /\ \A l \in Link : Alive(l) => Voiced(r, l)
        /\ UNCHANGED <<there, unborn, rows, may>>
    BY AtWork DEF SyncGroupMembers, Waits
  <1>2. list \in SUBSET Link /\ list \subseteq req[r].list
    BY <1>1
  <1>3. req' = [req EXCEPT ![r] = q]
    BY <1>1 DEF SyncGroupMembers, TypeOK
  <1>4. ASSUME NEW l \in Link, Alive(l), l \in req[r].scope
        PROVE  l \in list <=> l \in req[r].list
    <2>1. Ends(l) \ {req[r].owner} \subseteq Users
      BY <1>1, <1>4 DEF PlaceSound
    <2>2. Ends(l) \subseteq there \cup unborn /\ unborn \subseteq Groups
      BY <1>1, <1>4 DEF Alive, TypeOK
    <2>3. QED
      BY <2>1, <2>2, MembershipsAssumption
  <1> HIDE DEF list
  <1>5. /\ q \in Request /\ q.pc = "delete" /\ q.scope = req[r].scope /\ q.list = list
        /\ q.found = req[r].found
    BY <1>1, <1>2 DEF Request, PC
  <1> HIDE DEF q
  <1>6. /\ req' \in [Requests -> Request] /\ req'[r] = q
        /\ \A p \in Requests \ {r} : req'[p] = req[p] /\ Kept(p)
    BY <1>1, <1>3, <1>5, MoveEffect
  <1>7. TypeOK'
    BY <1>1, <1>2, <1>5, <1>6 DEF TypeOK, Standing
  <1>8. PlaceSound(r)' /\ Recorded(may)
    BY <1>1, <1>5, <1>6, StayRecorded DEF PlaceSound
  <1>9. ASSUME NEW l \in Link, Alive(l)'
        PROVE  Owes(r, l)' \/ (~Owes(r, l) /\ (l \in rows' <=> l \in rows))
    BY <1>1, <1>5, <1>6 DEF Owes
  <1>10. ASSUME NEW l \in Link, Alive(l)', l \in req'[r].scope
         PROVE  /\ Meant(r, l)' => TRUE \in may[l]
                /\ ~Meant(r, l)' => FALSE \in may[l]
    <2>1. Alive(l) /\ l \in req[r].scope
      BY <1>1, <1>5, <1>6, <1>10 DEF Alive
    <2>2. Meant(r, l)' <=> Meant(r, l)
      BY <1>1, <1>4, <1>5, <1>6, <2>1 DEF Meant
    <2>3. QED
      BY <1>1, <2>1, <2>2 DEF Voiced
  <1>11. QED
    BY <1>1, <1>6, <1>7, <1>8, <1>9, <1>10, StepSound

\* After the rows of its scope were deleted, a request is through or has those
\* of its list to create.
LEMMA DeleteManyStep ==
  ASSUME IInv, NEW r \in Requests, DeleteMany(r)
  PROVE  IInv'
  <1> DEFINE next == [req[r] EXCEPT !.pc = "create"]
             q == IF req[r].list = {} THEN Done(r) ELSE [req EXCEPT ![r].pc = "create"]
  <1>1. /\ TypeOK /\ PlaceSound(r) /\ req[r] \in Request /\ req[r].pc = "delete"
        /\ req[r].scope \subseteq Link /\ req[r].list \subseteq req[r].scope
        /\ may \in [Link -> SUBSET BOOLEAN] /\ \A l \in Link : Alive(l) => Voiced(r, l)
        /\ Lose(req[r].scope, q) /\ Settle(may) /\ UNCHANGED <<there, unborn>>
    BY AtWork DEF DeleteMany, Waits
  <1>2. /\ next \in Request /\ next.pc = "create" /\ next.scope = req[r].scope
        /\ next.list = req[r].list /\ next.found = req[r].found
    BY <1>1 DEF Request, PC
  <1>3. q = IF req[r].list = {} THEN [req EXCEPT ![r] = Idle] ELSE [req EXCEPT ![r] = next]
    BY <1>1 DEF TypeOK, Done
  <1> HIDE DEF next, q
  <1>4. /\ q \in [Requests -> Request] /\ q[r] = IF req[r].list = {} THEN Idle ELSE next
        /\ \A p \in Requests \ {r} : q[p] = req[p]
    BY <1>1, <1>2, <1>3, IdleType DEF TypeOK
  <1>5. /\ rows' = rows \ req[r].scope
        /\ req' \in [Requests -> Request]
        /\ \A s \in Requests :
             /\ req'[s].pc = q[s].pc /\ req'[s].owner = q[s].owner
             /\ req'[s].scope = q[s].scope /\ req'[s].list = q[s].list
             /\ req'[s].found => q[s].found /\ q[s].scope \cap req[r].scope = {}
    BY <1>1, <1>4, LoseEffect
  <1>6. may' \in [Link -> SUBSET BOOLEAN] /\ Recorded(may)
    BY <1>1, SettleRecorded
  <1>7. \A p \in Requests \ {r} : Kept(p)
    BY <1>4, <1>5 DEF Kept
  <1>8. /\ req[r].list = {} => req'[r].pc = "idle" /\ req'[r].scope = {} /\ req'[r].list = {}
        /\ req[r].list # {} => /\ req'[r].pc = "create" /\ req'[r].scope = req[r].scope
                               /\ req'[r].list = req[r].list
        /\ ~req'[r].found \/ req'[r].scope = {}
    BY <1>2, <1>4, <1>5, IdleType
  <1>9. TypeOK'
    BY <1>1, <1>5, <1>6, <1>7, <1>8 DEF TypeOK, Standing, Kept
  <1>10. PlaceSound(r)'
    BY <1>8 DEF PlaceSound
  <1>11. ASSUME NEW l \in Link, Alive(l)'
         PROVE  \/ (l \in rows' => TRUE \in may[l]) /\ (l \notin rows' => FALSE \in may[l])
                \/ Owes(r, l)'
                \/ ~Owes(r, l) /\ (l \in rows' <=> l \in rows)
    <2>1. Voiced(r, l)
      BY <1>1, <1>11 DEF Alive
    <2>2. CASE l \notin req[r].scope
      BY <1>5, <2>2 DEF Owes
    <2>3. CASE l \in req[r].list
      BY <1>1, <1>8, <2>3 DEF Owes
    <2>4. CASE l \in req[r].scope \ req[r].list
      BY <1>1, <1>5, <2>1, <2>4 DEF Voiced, Meant
    <2>5. QED
      BY <2>2, <2>3, <2>4
  <1>12. ASSUME NEW l \in Link, Alive(l)', l \in req'[r].scope
         PROVE  /\ Meant(r, l)' => TRUE \in may[l]
                /\ ~Meant(r, l)' => FALSE \in may[l]
    BY <1>1, <1>8, <1>12 DEF Alive, Voiced, Meant
  <1>13. QED
    BY <1>1, <1>6, <1>7, <1>9, <1>10, <1>11, <1>12, StepSound

\* A request that is through has the answer to all that it had to decide.
LEMMA DoneSound ==
  ASSUME IInv, NEW r \in Requests, NEW cand \in [Link -> SUBSET BOOLEAN], Settle(cand),
         \A l \in Link : may[l] \subseteq cand[l],
         req' \in [Requests -> Request], req'[r].pc = "idle", req'[r].scope = {},
         req'[r].list = {}, \A p \in Requests \ {r} : Kept(p),
         there' \subseteq there, unborn' = unborn,
         rows' \in SUBSET Link, \A l \in rows' : Standing(l)',
         \A l \in Link : Alive(l)' =>
           \/ (l \in rows' => TRUE \in cand[l]) /\ (l \notin rows' => FALSE \in cand[l])
           \/ ~Owes(r, l) /\ (l \in rows' <=> l \in rows)
  PROVE  IInv'
  <1>1. TypeOK
    BY DEF IInv
  <1>2. may' \in [Link -> SUBSET BOOLEAN] /\ Recorded(cand)
    BY SettleRecorded
  <1>3. TypeOK'
    BY <1>1, <1>2 DEF TypeOK, Kept
  <1>4. PlaceSound(r)'
    BY DEF PlaceSound
  <1>5. QED
    BY <1>2, <1>3, <1>4, StepSound

\* The same for those that return without losing rows.
LEMMA ReturnSound ==
  ASSUME IInv, NEW r \in Requests, NEW cand \in [Link -> SUBSET BOOLEAN], Settle(cand),
         \A l \in Link : may[l] \subseteq cand[l], req' = Done(r),
         UNCHANGED <<there, unborn>>, NEW list \in SUBSET Link, rows' = rows \cup list,
         \A l \in list : Standing(l),
         \A l \in Link : Alive(l) =>
           \/ (l \in rows' => TRUE \in cand[l]) /\ (l \notin rows' => FALSE \in cand[l])
           \/ ~Owes(r, l) /\ (l \in rows' <=> l \in rows)
  PROVE  IInv'
  <1>1. TypeOK /\ req' = [req EXCEPT ![r] = Idle]
    BY DEF IInv, Done
  <1>2. /\ req' \in [Requests -> Request] /\ req'[r] = Idle
        /\ \A p \in Requests \ {r} : Kept(p)
    BY <1>1, IdleType, MoveEffect
  <1>3. rows' \in SUBSET Link /\ \A l \in rows' : Standing(l)'
    BY <1>1 DEF TypeOK, Standing
  <1>4. \A l \in Link : Alive(l)' => Alive(l)
    BY StillAlive
  <1>5. QED
    BY <1>2, <1>3, <1>4, IdleType, DoneSound

\* One that fails where it still owes an answer admits both.
LEMMA FailSound ==
  ASSUME IInv, NEW r \in Requests, Fail(r), UNCHANGED <<there, unborn, rows>>,
         req[r].pc \in {"create", "insert", "unlink", "drop"}
  PROVE  IInv'
  <1>1. /\ TypeOK /\ \A l \in Link : Alive(l) => Voiced(r, l)
    BY AtWork
  <1>2. PICK cand : cand = Failure(r)
    OBVIOUS
  <1>3. /\ cand \in [Link -> SUBSET BOOLEAN]
        /\ \A l \in Link : may[l] \subseteq cand[l]
        /\ \A l \in Link : l \in req[r].scope =>
             /\ l \in req[r].list => FALSE \in cand[l]
             /\ l \notin req[r].list => TRUE \in cand[l]
    BY <1>1, <1>2, FailureType
  <1>4. Settle(cand) /\ req' = Done(r)
    BY <1>2 DEF Fail
  <1>5. ASSUME NEW l \in Link, Alive(l)
        PROVE  \/ (l \in rows' => TRUE \in cand[l]) /\ (l \notin rows' => FALSE \in cand[l])
               \/ ~Owes(r, l) /\ (l \in rows' <=> l \in rows)
    <2>1. CASE Owes(r, l)
      <3>1. l \in req[r].scope
        BY <2>1 DEF Owes
      <3>2. CASE l \in req[r].list
        <4>1. TRUE \in may[l]
          BY <1>1, <1>5, <3>1, <3>2 DEF Voiced, Meant
        <4>2. QED
          BY <1>3, <3>1, <3>2, <4>1
      <3>3. CASE l \notin req[r].list
        <4>1. TRUE \in cand[l]
          BY <1>3, <3>1, <3>3
        <4>2. FALSE \in may[l]
          BY <1>1, <1>5, <2>1, <3>1, <3>3 DEF Owes, Voiced, Meant
        <4>3. QED
          BY <1>3, <4>1, <4>2
      <3>4. QED
        BY <3>2, <3>3
    <2>2. QED
      BY <2>1
  <1>6. {} \in SUBSET Link /\ rows' = rows \cup {}
    OBVIOUS
  <1>7. QED
    BY <1>3, <1>4, <1>5, <1>6, ReturnSound

\* Creating the rows of its list is what was left of a request.
LEMMA ListCreated ==
  ASSUME IInv, NEW r \in Requests, req[r].pc \in {"create", "insert"},
         \A l \in req[r].list : Standing(l), rows' = rows \cup req[r].list, Succeed(r),
         UNCHANGED <<there, unborn>>
  PROVE  IInv'
  <1>1. /\ req[r].list \in SUBSET Link /\ req[r].list \subseteq req[r].scope
        /\ may \in [Link -> SUBSET BOOLEAN] /\ \A l \in Link : Alive(l) => Voiced(r, l)
    BY AtWork
  <1>2. ASSUME NEW l \in Link, Alive(l)
        PROVE  \/ (l \in rows' => TRUE \in may[l]) /\ (l \notin rows' => FALSE \in may[l])
               \/ ~Owes(r, l) /\ (l \in rows' <=> l \in rows)
    <2>1. CASE l \in req[r].list
      BY <1>1, <1>2, <2>1 DEF Voiced, Meant
    <2>2. CASE l \notin req[r].list
      BY <2>2 DEF Owes
    <2>3. QED
      BY <2>1, <2>2
  <1>3. QED
    BY <1>1, <1>2, ReturnSound DEF Succeed

\* All of the list, or a failure and none.
LEMMA CreateStep ==
  ASSUME IInv, NEW r \in Requests, CreateMany(r) \/ Insert(r)
  PROVE  IInv'
  <1>1. req[r].pc \in {"create", "insert"} /\ UNCHANGED <<there, unborn>>
    BY DEF CreateMany, Insert, Waits
  <1>2. \/ /\ \A l \in req[r].list : Standing(l)
           /\ rows' = rows \cup req[r].list /\ Succeed(r)
        \/ UNCHANGED rows /\ Fail(r)
    BY Zenon DEF CreateMany, Insert
  <1>3. QED
    BY <1>1, <1>2, ListCreated, FailSound

\* Those who are members need no row; the others are still to be inserted.
LEMMA FindExistingStep ==
  ASSUME IInv, NEW r \in Requests, FindExisting(r)
  PROVE  IInv'
  <1>1. /\ TypeOK /\ PlaceSound(r) /\ req[r] \in Request /\ req[r].pc = "existing"
        /\ req[r].scope \subseteq Link /\ req[r].list = req[r].scope
        /\ may \in [Link -> SUBSET BOOLEAN] /\ \A l \in Link : Alive(l) => Voiced(r, l)
        /\ UNCHANGED <<there, unborn, rows>>
    BY AtWork DEF FindExisting, Waits, PlaceSound
  <1>2. ASSUME NEW l \in req[r].scope, Alive(l)
        PROVE  TRUE \in may[l]
    BY <1>1, <1>2 DEF Voiced, Meant
  <1>3. CASE req[r].list \subseteq rows
    <2>1. Settle(may) /\ req' = Done(r)
      BY <1>3 DEF FindExisting, Succeed
    <2>2. ASSUME NEW l \in Link, Alive(l)
          PROVE  \/ (l \in rows' => TRUE \in may[l]) /\ (l \notin rows' => FALSE \in may[l])
                 \/ ~Owes(r, l) /\ (l \in rows' <=> l \in rows)
      BY <1>1, <1>2, <1>3, <2>2 DEF Owes
    <2>3. {} \in SUBSET Link /\ rows' = rows \cup {}
      BY <1>1
    <2>4. QED
      BY <1>1, <2>1, <2>2, <2>3, ReturnSound
  <1>4. CASE ~(req[r].list \subseteq rows)
    <2> DEFINE list == req[r].list \ rows
               q == [req[r] EXCEPT !.pc = "insert", !.list = list]
    <2>1. req' = [req EXCEPT ![r] = q] /\ may' = may
      BY <1>1, <1>4 DEF FindExisting, TypeOK
    <2>2. /\ q \in Request /\ q.pc = "insert" /\ q.scope = req[r].scope /\ q.list = list
          /\ q.found = req[r].found
      BY <1>1 DEF Request, PC
    <2> HIDE DEF q
    <2>3. /\ req' \in [Requests -> Request] /\ req'[r] = q
          /\ \A p \in Requests \ {r} : req'[p] = req[p] /\ Kept(p)
      BY <1>1, <2>1, <2>2, MoveEffect
    <2>4. TypeOK'
      BY <1>1, <2>1, <2>2, <2>3 DEF TypeOK, Standing
    <2>5. PlaceSound(r)' /\ Recorded(may)
      BY <1>1, <2>1, <2>2, <2>3, StayRecorded DEF PlaceSound
    <2>6. ASSUME NEW l \in Link, Alive(l)'
          PROVE  \/ (l \in rows' => TRUE \in may[l]) /\ (l \notin rows' => FALSE \in may[l])
                 \/ Owes(r, l)'
                 \/ ~Owes(r, l) /\ (l \in rows' <=> l \in rows)
      <3>1. Alive(l)
        BY <1>1, <2>6, StillAlive
      <3>2. CASE l \notin req[r].scope
        BY <1>1, <3>2 DEF Owes
      <3>3. CASE l \in req[r].scope /\ l \in rows
        BY <1>1, <1>2, <3>1, <3>3
      <3>4. CASE l \in req[r].scope /\ l \notin rows
        BY <1>1, <2>2, <2>3, <3>4 DEF Owes
      <3>5. QED
        BY <3>2, <3>3, <3>4
    <2>7. ASSUME NEW l \in Link, Alive(l)', l \in req'[r].scope
          PROVE  /\ Meant(r, l)' => TRUE \in may[l]
                 /\ ~Meant(r, l)' => FALSE \in may[l]
      <3>1. Alive(l) /\ l \in req[r].scope
        BY <1>1, <2>2, <2>3, <2>7, StillAlive
      <3>2. Meant(r, l)'
        BY <2>2, <2>3 DEF Meant
      <3>3. QED
        BY <1>2, <3>1, <3>2
    <2>8. QED
      BY <1>1, <2>3, <2>4, <2>5, <2>6, <2>7, StepSound
  <1>5. QED
    BY <1>3, <1>4

\* The row that was found goes; when it is gone already, that is a failure.
LEMMA UnlinkStep ==
  ASSUME IInv, NEW r \in Requests, Unlink(r)
  PROVE  IInv'
  <1>1. /\ TypeOK /\ PlaceSound(r) /\ req[r].pc = "unlink" /\ req[r].list = {}
        /\ may \in [Link -> SUBSET BOOLEAN] /\ \A l \in Link : Alive(l) => Voiced(r, l)
        /\ UNCHANGED <<there, unborn>>
    BY AtWork DEF Unlink, Waits, PlaceSound
  <1>2. CASE ~req[r].found
    BY <1>1, <1>2, FailSound DEF Unlink
  <1>3. CASE req[r].found
    <2>1. Lose(req[r].scope, Done(r)) /\ Settle(may)
      BY <1>3 DEF Unlink
    <2>2. /\ Done(r) \in [Requests -> Request] /\ Done(r)[r] = Idle
          /\ \A p \in Requests \ {r} : Done(r)[p] = req[p]
      BY <1>1, IdleType DEF Done, TypeOK
    <2>3. /\ rows' = rows \ req[r].scope
          /\ req' \in [Requests -> Request]
          /\ \A s \in Requests :
               /\ req'[s].pc = Done(r)[s].pc /\ req'[s].owner = Done(r)[s].owner
               /\ req'[s].scope = Done(r)[s].scope /\ req'[s].list = Done(r)[s].list
               /\ req'[s].found => Done(r)[s].found /\ Done(r)[s].scope \cap req[r].scope = {}
      BY <2>1, <2>2, LoseEffect
    <2>4. \A p \in Requests \ {r} : Kept(p)
      BY <2>2, <2>3 DEF Kept
    <2>5. req'[r].pc = "idle" /\ req'[r].scope = {} /\ req'[r].list = {}
      BY <2>2, <2>3, IdleType
    <2>6. ASSUME NEW l \in Link, Alive(l)'
          PROVE  \/ (l \in rows' => TRUE \in may[l]) /\ (l \notin rows' => FALSE \in may[l])
                 \/ ~Owes(r, l) /\ (l \in rows' <=> l \in rows)
      <3>1. Alive(l)
        BY <1>1, <2>6, StillAlive
      <3>2. CASE l \in req[r].scope
        BY <1>1, <2>3, <3>1, <3>2 DEF Voiced, Meant
      <3>3. CASE l \notin req[r].scope
        BY <2>3, <3>3 DEF Owes
      <3>4. QED
        BY <3>2, <3>3
    <2>7. rows' \in SUBSET Link /\ \A l \in rows' : Standing(l)'
      BY <1>1, <2>3 DEF TypeOK, Standing
    <2>8. QED
      BY <1>1, <2>1, <2>3, <2>4, <2>5, <2>6, <2>7, DoneSound
  <1>4. QED
    BY <1>2, <1>3

\* The memberships of a user who is to be removed go first.
LEMMA LeaveGroupsStep ==
  ASSUME IInv, NEW r \in Requests, LeaveGroups(r)
  PROVE  IInv'
  <1> DEFINE next == [req[r] EXCEPT !.pc = "drop"]
             q == [req EXCEPT ![r].pc = "drop"]
  <1>1. /\ TypeOK /\ PlaceSound(r) /\ req[r] \in Request /\ req[r].pc = "leave"
        /\ req[r].scope \subseteq Link /\ req[r].list = {}
        /\ may \in [Link -> SUBSET BOOLEAN] /\ \A l \in Link : Alive(l) => Voiced(r, l)
        /\ Lose(req[r].scope, q) /\ UNCHANGED <<there, unborn, may>>
    BY AtWork DEF LeaveGroups, Waits, PlaceSound
  <1>2. /\ next \in Request /\ next.pc = "drop" /\ next.scope = req[r].scope
        /\ next.list = {} /\ next.found = req[r].found
    BY <1>1 DEF Request, PC
  <1>3. q = [req EXCEPT ![r] = next]
    BY <1>1 DEF TypeOK
  <1> HIDE DEF next, q
  <1>4. /\ q \in [Requests -> Request] /\ q[r] = next
        /\ \A p \in Requests \ {r} : q[p] = req[p]
    BY <1>1, <1>2, <1>3 DEF TypeOK
  <1>5. /\ rows' = rows \ req[r].scope
        /\ req' \in [Requests -> Request]
        /\ \A s \in Requests :
             /\ req'[s].pc = q[s].pc /\ req'[s].owner = q[s].owner
             /\ req'[s].scope = q[s].scope /\ req'[s].list = q[s].list
             /\ req'[s].found => q[s].found /\ q[s].scope \cap req[r].scope = {}
    BY <1>1, <1>4, LoseEffect
  <1>6. \A p \in Requests \ {r} : Kept(p)
    BY <1>4, <1>5 DEF Kept
  <1>7. /\ req'[r].pc = "drop" /\ req'[r].scope = req[r].scope /\ req'[r].list = {}
        /\ ~req'[r].found \/ req'[r].scope = {}
    BY <1>2, <1>4, <1>5
  <1>8. TypeOK'
    BY <1>1, <1>5, <1>6, <1>7 DEF TypeOK, Standing, Kept
  <1>9. PlaceSound(r)' /\ Recorded(may)
    BY <1>1, <1>7, StayRecorded DEF PlaceSound
  <1>10. ASSUME NEW l \in Link, Alive(l)'
         PROVE  \/ (l \in rows' => TRUE \in may[l]) /\ (l \notin rows' => FALSE \in may[l])
                \/ ~Owes(r, l) /\ (l \in rows' <=> l \in rows)
    <2>1. Voiced(r, l)
      BY <1>1, <1>10 DEF Alive
    <2>2. CASE l \in req[r].scope
      BY <1>1, <1>5, <2>1, <2>2 DEF Voiced, Meant
    <2>3. CASE l \notin req[r].scope
      BY <1>5, <2>3 DEF Owes
    <2>4. QED
      BY <2>2, <2>3
  <1>11. ASSUME NEW l \in Link, Alive(l)', l \in req'[r].scope
         PROVE  /\ Meant(r, l)' => TRUE \in may[l]
                /\ ~Meant(r, l)' => FALSE \in may[l]
    BY <1>1, <1>7, <1>11 DEF Alive, Voiced, Meant
  <1>12. QED
    BY <1>1, <1>6, <1>8, <1>9, <1>10, <1>11, StepSound

-----------------------------------------------------------------------------
(* Entities that go or come, and restarts.                                 *)

\* What a delete leaves: the links that may still be are those it did not hit.
LEMMA DropEffect ==
  ASSUME TypeOK, NEW e \in there, NEW q \in [Requests -> Request], Drop(e, q),
         UNCHANGED unborn
  PROVE  /\ there' \subseteq there /\ unborn' = unborn
         /\ rows' \in SUBSET Link /\ rows' \subseteq rows /\ \A l \in rows' : Standing(l)'
         /\ \A l \in Link : Alive(l)' => Alive(l) /\ (l \in rows' <=> l \in rows)
         /\ req' \in [Requests -> Request]
         /\ \A s \in Requests :
              /\ req'[s].pc = q[s].pc /\ req'[s].owner = q[s].owner
              /\ req'[s].scope = q[s].scope /\ req'[s].list = q[s].list
              /\ req'[s].found => q[s].found /\ q[s].scope \cap (rows \ rows') = {}
         /\ \E cand \in [Link -> SUBSET BOOLEAN] :
              Settle(cand) /\ \A l \in Link : may[l] \subseteq cand[l]
  <1> DEFINE gone == {l \in rows : e \in Ends(l)}
             cand == [l \in Link |-> may[l] \cup (IF e \in Ends(l) THEN {FALSE} ELSE {})]
  <1>1. there' = there \ {e} /\ Lose(gone, q) /\ Settle(cand)
    BY DEF Drop
  <1>2. /\ rows' = rows \ gone
        /\ req' \in [Requests -> Request]
        /\ \A s \in Requests :
             /\ req'[s].pc = q[s].pc /\ req'[s].owner = q[s].owner
             /\ req'[s].scope = q[s].scope /\ req'[s].list = q[s].list
             /\ req'[s].found => q[s].found /\ q[s].scope \cap gone = {}
    BY <1>1, LoseEffect
  <1>3. ASSUME NEW l \in Link, Alive(l)'
        PROVE  Alive(l) /\ (l \in rows' <=> l \in rows)
    <2>1. e \notin unborn
      BY DEF TypeOK
    <2>2. e \notin Ends(l) /\ Alive(l)
      BY <1>1, <1>3, <2>1 DEF Alive
    <2>3. QED
      BY <1>2, <2>2
  <1>4. rows' \in SUBSET Link /\ \A l \in rows' : Standing(l)'
    BY <1>1, <1>2 DEF TypeOK, Standing
  <1>5. cand \in [Link -> SUBSET BOOLEAN] /\ \A l \in Link : may[l] \subseteq cand[l]
    BY DEF TypeOK
  <1> HIDE DEF cand
  <1>6. QED
    BY <1>1, <1>2, <1>3, <1>4, <1>5

\* A user goes, or was removed by another.
LEMMA DropUserStep ==
  ASSUME IInv, NEW r \in Requests, DropUser(r)
  PROVE  IInv'
  <1>1. TypeOK /\ req[r].pc = "drop" /\ unborn' = unborn
    BY DEF IInv, DropUser, Waits
  <1>2. CASE req[r].owner \notin there
    BY <1>1, <1>2, FailSound DEF DropUser
  <1>3. CASE req[r].owner \in there
    <2>1. /\ Done(r) \in [Requests -> Request] /\ Done(r)[r] = Idle
          /\ \A p \in Requests \ {r} : Done(r)[p] = req[p]
      BY <1>1, IdleType DEF Done, TypeOK
    <2>2. Drop(req[r].owner, Done(r))
      BY <1>3 DEF DropUser
    <2>3. /\ there' \subseteq there /\ unborn' = unborn
          /\ rows' \in SUBSET Link /\ rows' \subseteq rows /\ \A l \in rows' : Standing(l)'
          /\ \A l \in Link : Alive(l)' => Alive(l) /\ (l \in rows' <=> l \in rows)
          /\ req' \in [Requests -> Request]
          /\ \A s \in Requests :
               /\ req'[s].pc = Done(r)[s].pc /\ req'[s].owner = Done(r)[s].owner
               /\ req'[s].scope = Done(r)[s].scope /\ req'[s].list = Done(r)[s].list
               /\ req'[s].found =>
                    Done(r)[s].found /\ Done(r)[s].scope \cap (rows \ rows') = {}
      BY <1>1, <1>3, <2>1, <2>2, DropEffect
    <2>4. PICK cand \in [Link -> SUBSET BOOLEAN] :
            Settle(cand) /\ \A l \in Link : may[l] \subseteq cand[l]
      BY <1>1, <1>3, <2>1, <2>2, DropEffect
    <2>5. \A p \in Requests \ {r} : Kept(p)
      BY <2>1, <2>3 DEF Kept
    <2>6. req'[r].pc = "idle" /\ req'[r].scope = {} /\ req'[r].list = {}
      BY <2>1, <2>3, IdleType
    <2>7. \A l \in Link : ~Owes(r, l)
      BY <1>1 DEF Owes
    <2>8. QED
      BY <2>3, <2>4, <2>5, <2>6, <2>7, DoneSound
  <1>4. QED
    BY <1>2, <1>3

\* A group or an application goes, whatever the requests are at.
LEMMA RemoveStep ==
  ASSUME IInv, NEW e, Remove(e)
  PROVE  IInv'
  <1>1. /\ TypeOK /\ e \in there /\ req \in [Requests -> Request] /\ Drop(e, req)
        /\ unborn' = unborn
    BY DEF IInv, TypeOK, Remove
  <1>2. /\ there' \subseteq there
        /\ rows' \in SUBSET Link /\ rows' \subseteq rows /\ \A l \in rows' : Standing(l)'
        /\ \A l \in Link : Alive(l)' => Alive(l) /\ (l \in rows' <=> l \in rows)
        /\ req' \in [Requests -> Request]
        /\ \A q \in Requests : Kept(q)
    BY <1>1, DropEffect DEF Kept
  <1>3. PICK cand \in [Link -> SUBSET BOOLEAN] :
          Settle(cand) /\ \A l \in Link : may[l] \subseteq cand[l]
    BY <1>1, DropEffect
  <1>4. may' \in [Link -> SUBSET BOOLEAN] /\ Recorded(cand)
    BY <1>3, SettleRecorded
  <1>5. TypeOK'
    BY <1>1, <1>2, <1>4 DEF TypeOK, Kept
  <1>6. \A q \in Requests : PlaceSound(q)'
    BY <1>2, PlaceKept DEF IInv
  <1>7. ASSUME NEW l \in Link, Alive(l)'
        PROVE  LinkSound(l)'
    <2>1. /\ Holds(l) \/ \E p \in Requests : Owes(p, l)
          /\ \A p \in Requests : Voiced(p, l)
      BY <1>2, <1>7 DEF IInv, LinkSound
    <2>2. \/ (l \in rows' => TRUE \in cand[l]) /\ (l \notin rows' => FALSE \in cand[l])
          \/ \E q \in Requests : Owes(q, l)'
      BY <1>2, <1>3, <1>7, <2>1 DEF Holds, Owes, Kept
    <2>3. ASSUME NEW q \in Requests, l \in req'[q].scope
          PROVE  /\ Meant(q, l)' => TRUE \in cand[l]
                 /\ ~Meant(q, l)' => FALSE \in cand[l]
      <3>1. l \in req[q].scope /\ (Meant(q, l)' <=> Meant(q, l))
        BY <1>2, <2>3 DEF Kept, Meant
      <3>2. QED
        BY <1>3, <2>1, <3>1 DEF Voiced
    <2>4. QED
      BY <1>4, <2>2, <2>3, LinkRecorded
  <1>8. QED
    BY <1>5, <1>6, <1>7 DEF IInv, LinkSound

\* A group that comes was to come.
LEMMA AddGroupStep ==
  ASSUME IInv, NEW g, AddGroup(g)
  PROVE  IInv'
  <1>1. /\ TypeOK /\ UNCHANGED <<rows, req, may>>
        /\ there \subseteq there' /\ there' \in SUBSET Entity
        /\ unborn' \in SUBSET (Groups \ there')
        /\ there' \cup unborn' \subseteq there \cup unborn
    BY BornType DEF IInv, AddGroup
  <1>2. TypeOK'
    BY <1>1 DEF TypeOK, Standing
  <1>3. \A q \in Requests : PlaceSound(q)'
    BY <1>1 DEF IInv, PlaceSound
  <1>4. \A l \in Link : LinkSound(l)'
    BY <1>1, StillAlive DEF IInv, LinkSound, Holds, Owes, Voiced, Meant
  <1>5. QED
    BY <1>2, <1>3, <1>4 DEF IInv

\* After a restart nobody decides any more: what requests were at may be either.
LEMMA RestartStep ==
  ASSUME IInv, Restart
  PROVE  IInv'
  <1> DEFINE cand == [l \in Link |-> IF WritersIn(req, l) = {} THEN may[l] ELSE BOOLEAN]
  <1>1. /\ TypeOK /\ req' = [q \in Requests |-> Idle] /\ UNCHANGED <<there, unborn, rows>>
        /\ Settle(cand)
    BY DEF IInv, Restart
  <1>2. cand \in [Link -> SUBSET BOOLEAN]
    BY <1>1 DEF TypeOK
  <1>3. ASSUME NEW l \in Link, Alive(l)
        PROVE  (l \in rows => TRUE \in cand[l]) /\ (l \notin rows => FALSE \in cand[l])
    <2>1. CASE WritersIn(req, l) = {}
      <3>1. \A p \in Requests : ~Owes(p, l)
        BY <2>1 DEF WritersIn, Owes
      <3>2. QED
        BY <1>3, <2>1, <3>1 DEF IInv, LinkSound, Holds
    <2>2. CASE WritersIn(req, l) # {}
      BY <2>2
    <2>3. QED
      BY <2>1, <2>2
  <1> HIDE DEF cand
  <1>4. may' \in [Link -> SUBSET BOOLEAN] /\ Recorded(cand)
    BY <1>1, <1>2, SettleRecorded
  <1>5. TypeOK' /\ \A q \in Requests : PlaceSound(q)'
    BY <1>1, <1>4, IdleType DEF TypeOK, Standing, PlaceSound
  <1>6. ASSUME NEW l \in Link, Alive(l)'
        PROVE  LinkSound(l)'
    <2>1. \A q \in Requests : req'[q].scope = {}
      BY <1>1, IdleType
    <2>2. Alive(l)
      BY <1>1, <1>6, StillAlive
    <2>3. QED
      BY <1>1, <1>3, <1>4, <2>1, <2>2, LinkRecorded
  <1>7. QED
    BY <1>5, <1>6 DEF IInv, LinkSound

-----------------------------------------------------------------------------
(* The theorems.                                                           *)

\* Before any request each link is what the history says.
LEMMA InitSound == Init => IInv
  <1> SUFFICES ASSUME Init
               PROVE  IInv
    OBVIOUS
  <1>1. ASSUME NEW l \in Link
        PROVE  may[l] \in SUBSET BOOLEAN /\ Holds(l)
    <2>1. PICK answer : answer = {(l \in rows)}
      OBVIOUS
    <2>2. /\ answer \in SUBSET BOOLEAN
          /\ l \in rows => TRUE \in answer
          /\ l \notin rows => FALSE \in answer
      BY <2>1, OneAnswer
    <2>3. may[l] = answer
      BY <2>1 DEF Init
    <2>4. QED
      BY <2>2, <2>3 DEF Holds
  <1>2. may \in [Link -> SUBSET BOOLEAN]
    BY <1>1 DEF Init
  <1>3. TypeOK
    BY <1>2, IdleType DEF Init, TypeOK, Entity
  <1>4. \A r \in Requests : PlaceSound(r)
    BY IdleType DEF Init, PlaceSound
  <1>5. \A l \in Link : LinkSound(l)
    BY <1>1, IdleType DEF Init, LinkSound, Voiced
  <1>6. QED
    BY <1>3, <1>4, <1>5 DEF IInv

\* Every step keeps the invariant.
LEMMA NextSound == IInv /\ [Next]_vars => IInv'
  <1> SUFFICES ASSUME IInv, [Next]_vars
               PROVE  IInv'
    OBVIOUS
  <1>1. CASE UNCHANGED vars
    BY <1>1 DEF vars, IInv, TypeOK, Standing, PlaceSound, LinkSound, Alive, Holds, Owes, Voiced,
                Meant
  <1>2. ASSUME NEW r \in Requests, Lists(r)
        PROVE  IInv'
    <2>1. ASSUME NEW owner \in Entity, NEW kind \in {Users, Groups, Apps},
                 NEW wanted \in SUBSET kind, Replace(r, owner, kind, wanted)
          PROVE  IInv'
      BY <2>1, ReplaceStep
    <2>2. ASSUME NEW g \in Groups, NEW users \in SUBSET Users,
                 \/ CreateGroup(r, g, users)
                 \/ \E op \in {"add", "replace", "remove"} : PatchGroup(r, g, op, users)
          PROVE  IInv'
      BY <2>2, GroupStep
    <2>3. CASE SyncGroupMembers(r) \/ DeleteMany(r) \/ CreateMany(r)
      BY <2>3, SyncGroupMembersStep, DeleteManyStep, CreateStep
    <2>4. QED
      BY <1>2, <2>1, <2>2, <2>3 DEF Lists
  <1>3. ASSUME NEW r \in Requests, Members(r)
        PROVE  IInv'
    <2>1. ASSUME NEW g \in Groups, NEW users \in SUBSET Users, AddMembers(r, g, users)
          PROVE  IInv'
      BY <2>1, AddMembersStep
    <2>2. ASSUME NEW g \in Groups, NEW u \in Users, RemoveMember(r, g, u)
          PROVE  IInv'
      BY <2>2, RemoveMemberStep
    <2>3. CASE FindExisting(r) \/ Insert(r) \/ Unlink(r)
      BY <2>3, FindExistingStep, CreateStep, UnlinkStep
    <2>4. QED
      BY <1>3, <2>1, <2>2, <2>3 DEF Members
  <1>4. ASSUME NEW r \in Requests, Removals(r)
        PROVE  IInv'
    BY <1>4, RemoveUserStep, LeaveGroupsStep, DropUserStep DEF Removals
  <1>5. CASE \/ \E g \in Groups : AddGroup(g)
             \/ \E e \in Groups \cup Apps : Remove(e)
             \/ Restart
    BY <1>5, AddGroupStep, RemoveStep, RestartStep
  <1>6. QED
    BY <1>1, <1>2, <1>3, <1>4, <1>5 DEF Next

\* The invariant holds in every state of every run.
THEOREM AlwaysSound == Spec => []IInv
  <1>1. Init => IInv
    BY InitSound
  <1>2. IInv /\ [Next]_vars => IInv'
    BY NextSound
  <1>3. QED
    BY <1>1, <1>2, PTL DEF Spec

\* The foreign keys hold: no row outlives the user, group or application it
\* links, and no request creates a row outside its scope.
THEOREM TypeCorrect == Spec => []TypeOK
  <1>1. IInv => TypeOK
    BY DEF IInv
  <1>2. QED
    BY <1>1, AlwaysSound, PTL

\* However the handlers interleave, fail or are cut off, each membership and
\* assignment ends as one of its last overlapping writers wanted it
\* (groups.service setUsers and addMembers, scim.service patchGroup).
THEOREM LinksAlwaysSettle == Spec => []Settled
  <1>1. IInv => Settled
    <2> SUFFICES ASSUME IInv, NEW l \in Link, Standing(l), WritersIn(req, l) = {}
                 PROVE  (l \in rows) \in may[l]
      BY DEF Settled
    <2>1. Alive(l) /\ \A r \in Requests : ~Owes(r, l)
      BY DEF Alive, Standing, WritersIn, Owes
    <2>2. Holds(l)
      BY <2>1 DEF IInv, LinkSound
    <2>3. PICK present \in BOOLEAN : present = (l \in rows)
      <3>1. (l \in rows) \in BOOLEAN
        OBVIOUS
      <3>2. QED
        BY <3>1, Zenon
    <2>4. present \in may[l]
      BY <2>2, <2>3 DEF Holds
    <2>5. QED
      BY <2>3, <2>4, Zenon
  <1>2. QED
    BY <1>1, AlwaysSound, PTL

\* A request that still holds the id of the row it found will find it: whatever
\* took the row away, or put another in its place, made the request let go of it
\* (groups.service removeMember deletes by the id of the row).
FoundRowsStand == \A r \in Requests : req[r].found => req[r].scope \subseteq rows

\* That holds in every state.
THEOREM FoundRowsAlwaysStand == Spec => []FoundRowsStand
  <1>1. IInv => FoundRowsStand
    BY DEF IInv, PlaceSound, FoundRowsStand
  <1>2. QED
    BY <1>1, AlwaysSound, PTL

\* A removal that takes a row away takes the one it found (groups.service
\* removeMember, users.service removeGroup).
THEOREM RemovalAlwaysHitsTheRowFound == Spec => RemovalHitsTheRowFound
  <1> DEFINE Body ==
        \A r \in Requests, l \in Link :
          /\ req[r].pc = "unlink" /\ req'[r].pc = "idle" /\ req[r].scope = {l}
          /\ l \in rows /\ l \notin rows'
          /\ there' = there
          => req[r].found
  <1>1. IInv /\ [Next]_vars => [Body]_vars
    <2> SUFFICES ASSUME IInv, Next, NEW r \in Requests, NEW l \in Link,
                        req[r].pc = "unlink", req'[r].pc = "idle", l \in rows, l \notin rows',
                        there' = there
                 PROVE  req[r].found
      OBVIOUS
    <2>1. TypeOK /\ rows' # rows
      BY DEF IInv
    <2>2. \E s \in Requests : Lists(s) \/ Members(s) \/ Removals(s)
      <3>1. ~\E e \in Groups \cup Apps : Remove(e)
        BY DEF Remove, Drop
      <3>2. QED
        BY <2>1, <3>1 DEF Next, AddGroup, Restart
    <2>3. PICK s \in Requests :
            \/ DeleteMany(s) \/ Unlink(s) \/ LeaveGroups(s) \/ DropUser(s)
      <3>1. PICK s \in Requests : Lists(s) \/ Members(s) \/ Removals(s)
        BY <2>2
      <3>2. ~CreateMany(s) /\ ~Insert(s)
        BY DEF CreateMany, Insert
      <3>3. QED
        BY <2>1, <3>1, <3>2, Zenon
           DEF Lists, Members, Removals, Replace, CreateGroup, PatchGroup, SyncGroupMembers,
               AddMembers, FindExisting, RemoveMember, RemoveUser
    <2>4. ASSUME NEW gone, NEW next \in Request, s # r, Lose(gone, [req EXCEPT ![s] = next])
          PROVE  FALSE
      <3>1. PICK q \in [Requests -> Request] : q = [req EXCEPT ![s] = next]
        BY <2>1 DEF TypeOK
      <3>2. Lose(gone, q) /\ q[r] = req[r]
        BY <2>1, <2>4, <3>1 DEF TypeOK
      <3>3. req'[r].pc = q[r].pc
        BY <3>2, LoseEffect
      <3>4. QED
        BY <3>2, <3>3
    <2>5. CASE DeleteMany(s)
      <3>1. s # r /\ req[s] \in Request
        BY <2>1, <2>5 DEF DeleteMany, Waits, TypeOK
      <3>2. PICK next \in Request : next = [req[s] EXCEPT !.pc = "create"]
        BY <3>1 DEF Request, PC
      <3>3. [req EXCEPT ![s].pc = "create"] = [req EXCEPT ![s] = next]
        BY <2>1, <3>2 DEF TypeOK
      <3>4. \/ Lose(req[s].scope, [req EXCEPT ![s] = Idle])
            \/ Lose(req[s].scope, [req EXCEPT ![s] = next])
        BY <2>5, <3>3 DEF DeleteMany, Done
      <3>5. QED
        BY <2>4, <3>1, <3>4, IdleType
    <2>6. CASE Unlink(s)
      <3>1. req[s].found /\ Lose(req[s].scope, [req EXCEPT ![s] = Idle])
        BY <2>1, <2>6 DEF Unlink, Done
      <3>2. QED
        BY <2>4, <3>1, IdleType
    <2>7. CASE LeaveGroups(s)
      <3>1. s # r /\ req[s] \in Request
        BY <2>1, <2>7 DEF LeaveGroups, Waits, TypeOK
      <3>2. PICK next \in Request : next = [req[s] EXCEPT !.pc = "drop"]
        BY <3>1 DEF Request, PC
      <3>3. [req EXCEPT ![s].pc = "drop"] = [req EXCEPT ![s] = next]
        BY <2>1, <3>2 DEF TypeOK
      <3>4. QED
        BY <2>4, <2>7, <3>1, <3>3 DEF LeaveGroups
    <2>8. CASE DropUser(s)
      BY <2>1, <2>8 DEF DropUser, Drop
    <2>9. QED
      BY <2>3, <2>5, <2>6, <2>7, <2>8
  <1>2. QED
    BY <1>1, AlwaysSound, PTL DEF Spec, RemovalHitsTheRowFound

=============================================================================
