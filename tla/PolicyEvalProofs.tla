-------------------------- MODULE PolicyEvalProofs --------------------------
(* Theorems about PolicyEval for any policies, zones, questions and width of *)
(* an octet: what the loop of evaluate answers whatever order the database   *)
(* gives the rows in, and what the masks of isIpInRange mean.                *)
(*                                                                           *)
(* The loop of evaluate, the sum of ipToNum and m & n are recursive          *)
(* functions over an interval.  That they satisfy their equations            *)
(* and what follows by induction rest on the two lemmas that come first;     *)
(* both speak of sets and functions where an induction theorem would have    *)
(* an operator as its parameter.                                             *)
EXTENDS PolicyEval, TLAPS, FiniteSetTheorems, WellFoundedInduction

\* A set of numbers that is not empty has a least one.
LEMMA LeastNumber ==
  ASSUME NEW T, T \subseteq Nat, T # {}
  PROVE  \E x \in T : \A y \in T : x <= y
  <1>1. PICK x \in T : \A y \in T : ~ (<<y, x>> \in OpToRel(<, Nat))
    BY WFMin, NatLessThanWellFounded, Zenon
  <1>2. \A y \in T : ~ (y < x)
    BY <1>1, Zenon DEF OpToRel
  <1>3. QED
    BY <1>2

\* Induction over an interval, for a set of numbers.
LEMMA Induction ==
  ASSUME NEW n \in Nat, NEW T, 0 \in T,
         \A i \in 0 .. n - 1 : i \in T => i + 1 \in T
  PROVE  \A i \in 0 .. n : i \in T
  <1>1. SUFFICES ASSUME NEW j \in 0 .. n, j \notin T
                 PROVE  FALSE
    OBVIOUS
  <1> DEFINE Failing == {i \in 0 .. n : i \notin T}
  <1>2. PICK i \in Failing : \A k \in Failing : i <= k
    <2>1. Failing \subseteq Nat /\ Failing # {}
      BY <1>1
    <2>2. QED
      BY <2>1, LeastNumber
  <1>3. i \in 1 .. n
    BY <1>2
  <1>4. i - 1 \in 0 .. n - 1 /\ i - 1 \notin Failing
    BY <1>2, <1>3
  <1>5. i - 1 \in T
    BY <1>3, <1>4
  <1>6. QED
    BY <1>2, <1>3, <1>4, <1>5

\* f starts with v0 and goes on by the table step.
Iterates(f, n, v0, step) ==
  f[0] = v0 /\ \A i \in 1 .. n : f[i] = step[<<f[i - 1], i>>]

\* A function can be defined by recursion over an interval.
LEMMA RecursionExists ==
  ASSUME NEW n \in Nat, NEW V, NEW v0 \in V, NEW step \in [V \X (1 .. n) -> V]
  PROVE  \E f \in [0 .. n -> V] : Iterates(f, n, v0, step)
  <1> DEFINE Upto(m) == {f \in [0 .. m -> V] : Iterates(f, m, v0, step)}
             T == {m \in 0 .. n : Upto(m) # {}}
  <1>1. 0 \in T
    <2>1. [i \in 0 .. 0 |-> v0] \in Upto(0)
      BY DEF Iterates
    <2>2. QED
      BY <2>1
  <1>2. ASSUME NEW m \in 0 .. n - 1, m \in T
        PROVE  m + 1 \in T
    <2>1. PICK f \in Upto(m) : TRUE
      BY <1>2
    <2> DEFINE g == [i \in 0 .. m + 1 |-> IF i = m + 1 THEN step[<<f[m], m + 1>>] ELSE f[i]]
    <2>2. /\ f \in [0 .. m -> V] /\ f[0] = v0
          /\ \A i \in 1 .. m : f[i] = step[<<f[i - 1], i>>]
      BY <2>1 DEF Iterates
    <2>3. g \in [0 .. m + 1 -> V]
      BY <2>2
    <2>4. g[0] = v0
      BY <2>2
    <2>5. ASSUME NEW i \in 1 .. m + 1
          PROVE  g[i] = step[<<g[i - 1], i>>]
      <3>1. g[i - 1] = f[i - 1]
        BY <2>2
      <3>2. CASE i = m + 1
        <4>1. g[i] = step[<<f[m], m + 1>>] /\ i - 1 = m
          BY <3>2
        <4>2. QED
          BY <3>1, <3>2, <4>1
      <3>3. CASE i \in 1 .. m
        BY <3>1, <3>3, <2>2
      <3>4. QED
        BY <3>2, <3>3
    <2>6. g \in Upto(m + 1)
      BY <2>3, <2>4, <2>5 DEF Iterates
    <2>7. m + 1 \in 0 .. n
      OBVIOUS
    <2>8. QED
      BY <2>6, <2>7
  <1>3. n \in T
    <2> HIDE DEF T
    <2>1. \A i \in 0 .. n : i \in T
      BY <1>1, <1>2, Induction
    <2>2. QED
      BY <2>1
  <1>4. QED
    BY <1>3

------------------------------------------------------------------------------
(* The loop of evaluate *)

Result == [decision : {"ALLOW", "DENY"}, matched : Policies \cup {None}]

\* A round keeps the result's type.
LEMMA RoundType ==
  ASSUME NEW result \in Result, NEW p \in Policies, NEW query
  PROVE  Round(result, p, query) \in Result
  BY DEF Result, Round

\* The results after each of n rounds over the rows s, from the first to the answer.
Rounds(result, n, s, query) ==
  /\ result[0] = NoMatch
  /\ \A i \in 1 .. n : result[i] = Round(result[i - 1], s[i], query)
  /\ Loop(s, query) = result[n]

\* The loop has a result after each of its rounds.
LEMMA LoopEquations ==
  ASSUME NEW n \in Nat, NEW s \in [1 .. n -> Policies], NEW query
  PROVE  \E result \in [0 .. n -> Result] : Rounds(result, n, s, query)
  <1> DEFINE step == [x \in Result \X (1 .. n) |-> Round(x[1], s[x[2]], query)]
             Solves(h) == h = [i \in 0 .. n |->
                                 IF i = 0 THEN NoMatch ELSE Round(h[i - 1], s[i], query)]
             result == CHOOSE h : Solves(h)
  <1>1. Len(s) = n
    OBVIOUS
  <1>2. Loop(s, query) = result[n]
    BY <1>1 DEF Loop
  <1>3. NoMatch \in Result
    BY DEF NoMatch, Result
  <1>4. step \in [Result \X (1 .. n) -> Result]
    BY RoundType
  <1>5. PICK f \in [0 .. n -> Result] : Iterates(f, n, NoMatch, step)
    <2> HIDE DEF step
    <2>1. QED
      BY <1>3, <1>4, RecursionExists, Zenon
  <1>6. \A i \in 1 .. n : step[<<f[i - 1], i>>] = Round(f[i - 1], s[i], query)
    OBVIOUS
  <1>7. Solves(f)
    <2> HIDE DEF step
    <2>1. \A i \in 0 .. n : i = 0 \/ i \in 1 .. n
      OBVIOUS
    <2>2. QED
      BY <1>5, <1>6, <2>1 DEF Iterates
  <1>8. Solves(result)
    <2> HIDE DEF Solves
    <2>1. QED
      BY <1>7
  <1> HIDE DEF result
  <1>9. /\ result[0] = NoMatch
        /\ \A i \in 1 .. n : result[i] = Round(result[i - 1], s[i], query)
    BY <1>8
  <1>10. \A i \in 0 .. n : result[i] \in Result
    <2> DEFINE T == {i \in 0 .. n : result[i] \in Result}
    <2>1. 0 \in T
      BY <1>3, <1>9
    <2>2. ASSUME NEW i \in 0 .. n - 1, i \in T
          PROVE  i + 1 \in T
      <3>1. i + 1 \in 1 .. n /\ result[i] \in Result
        BY <2>2
      <3>2. result[i + 1] = Round(result[i], s[i + 1], query)
        BY <3>1, <1>9
      <3>3. QED
        BY <3>1, <3>2, RoundType
    <2>3. QED
      <3> HIDE DEF T
      <3>1. \A i \in 0 .. n : i \in T
        BY <2>1, <2>2, Induction
      <3>2. QED
        BY <3>1 DEF T
  <1>11. result \in [0 .. n -> Result]
    BY <1>8, <1>10
  <1>12. QED
    BY <1>2, <1>9, <1>11 DEF Rounds


\* An order of finitely many rows runs through each of them, by descending priority.
LEMMA OrderCoversRows ==
  ASSUME NEW S, IsFiniteSet(S), NEW s \in Orders(S)
  PROVE  /\ Cardinality(S) \in Nat
         /\ s \in [1 .. Cardinality(S) -> S]
         /\ \A p \in S : \E i \in 1 .. Cardinality(S) : s[i] = p
         /\ \A i, j \in 1 .. Cardinality(S) : i < j => s[i].priority >= s[j].priority
  <1> DEFINE n == Cardinality(S)
  <1>1. n \in Nat
    BY FS_CardinalityType
  <1>2. /\ s \in [1 .. n -> S]
        /\ \A i, j \in 1 .. n : i # j => s[i] # s[j]
        /\ \A i, j \in 1 .. n : i < j => s[i].priority >= s[j].priority
    BY DEF Orders, SetToSeqs
  <1> DEFINE image == {s[i] : i \in 1 .. n}
  <1>3. image \subseteq S /\ IsFiniteSet(image)
    <2>1. image \subseteq S
      BY <1>2
    <2>2. QED
      BY <2>1, FS_Subset
  <1>4. s \in Bijection(1 .. n, image)
    BY <1>2 DEF Bijection, Injection, IsInjective, Surjection
  <1>5. Cardinality(image) = n
    <2>1. IsFiniteSet(1 .. n) /\ Cardinality(1 .. n) = n
      BY <1>1, FS_Interval
    <2>2. QED
      BY <2>1, <1>4, FS_Bijection DEF ExistsBijection
  <1>6. image = S
    BY <1>3, <1>5, FS_Subset
  <1>7. QED
    BY <1>1, <1>2, <1>6

\* What a result has to do with the rows the loop has seen: it names the first
\* of those that apply with its effect, and a DENY among them is not passed over.
Explains(result, rows, query) ==
  /\ result.matched = None => result.decision = "DENY" /\ \A p \in rows : ~Applies(p, query)
  /\ result.matched # None =>
       /\ result.matched \in rows
       /\ Applies(result.matched, query)
       /\ result.matched.effect = result.decision
       /\ \A p \in rows : Applies(p, query) /\ p.effect = result.decision =>
                            p.priority <= result.matched.priority
  /\ result.decision = "ALLOW" => \A p \in rows : Applies(p, query) => p.effect = "ALLOW"

\* One more row, of no higher priority than those before it, keeps that.
LEMMA RoundExplains ==
  ASSUME NEW rows \in SUBSET Policies, NEW result \in Result, NEW p \in Policies, NEW query,
         Explains(result, rows, query),
         \A q \in rows : q.priority >= p.priority
  PROVE  Explains(Round(result, p, query), rows \cup {p}, query)
  <1> DEFINE next == Round(result, p, query)
  <1>0. /\ None \notin Policies
        /\ \A q \in Policies : q.effect \in {"ALLOW", "DENY"} /\ q.priority \in Int
    BY PolicyEvalAssumption, RowsAssumption
  <1>1. result.decision \in {"ALLOW", "DENY"} /\ result.matched \in Policies \cup {None}
    BY DEF Result
  <1>2. CASE result.decision = "DENY" /\ result.matched # None
    <2>1. next = result
      BY <1>2 DEF Round
    <2>2. p.priority <= result.matched.priority
      BY <1>2 DEF Explains
    <2>3. QED
      BY <1>2, <2>1, <2>2 DEF Explains
  <1>3. CASE ~(result.decision = "DENY" /\ result.matched # None) /\ ~Applies(p, query)
    <2>1. next = result
      BY <1>3 DEF Round
    <2>2. QED
      BY <1>3, <2>1 DEF Explains
  <1>4. CASE /\ ~(result.decision = "DENY" /\ result.matched # None)
             /\ Applies(p, query)
             /\ p.effect = "DENY"
    <2>1. next.decision = "DENY" /\ next.matched = p
      BY <1>4 DEF Round
    <2>2. \A q \in rows : Applies(q, query) => q.effect = "ALLOW"
      BY <1>1, <1>4 DEF Explains
    <2>3. QED
      BY <1>0, <1>4, <2>1, <2>2 DEF Explains
  <1>5. CASE Applies(p, query) /\ p.effect = "ALLOW" /\ result.matched = None
    <2>1. \A q \in rows : ~Applies(q, query)
      BY <1>5 DEF Explains
    <2>2. next.decision = "ALLOW" /\ next.matched = p
      BY <1>5 DEF Round, Explains
    <2>3. QED
      BY <1>0, <1>5, <2>1, <2>2 DEF Explains
  <1>6. CASE Applies(p, query) /\ p.effect = "ALLOW" /\ result.decision = "ALLOW"
    <2>1. result.matched # None /\ next = result
      BY <1>6 DEF Round, Explains
    <2>2. p.priority <= result.matched.priority
      BY <2>1 DEF Explains
    <2>3. QED
      BY <1>6, <2>1, <2>2 DEF Explains
  <1>7. QED
    BY <1>0, <1>1, <1>2, <1>3, <1>4, <1>5, <1>6

\* Whatever order the database gives the rows in, the loop explains its answer.
LEMMA LoopExplains ==
  ASSUME NEW rows \in SUBSET Policies, IsFiniteSet(rows), NEW s \in Orders(rows), NEW query
  PROVE  Loop(s, query) \in Result /\ Explains(Loop(s, query), rows, query)
  <1> DEFINE n == Cardinality(rows)
             first(i) == {s[j] : j \in 1 .. i}
  <1>1. /\ n \in Nat
        /\ s \in [1 .. n -> rows]
        /\ \A p \in rows : \E i \in 1 .. n : s[i] = p
        /\ \A i, j \in 1 .. n : i < j => s[i].priority >= s[j].priority
    BY OrderCoversRows
  <1> HIDE DEF n
  <1>2. s \in [1 .. n -> Policies]
    BY <1>1
  <1>3. PICK result \in [0 .. n -> Result] : Rounds(result, n, s, query)
    BY <1>1, <1>2, LoopEquations
  <1> DEFINE T == {i \in 0 .. n : Explains(result[i], first(i), query)}
  <1>4. 0 \in T
    <2>1. first(0) = {}
      OBVIOUS
    <2>2. Explains(NoMatch, {}, query)
      BY DEF Explains, NoMatch
    <2>3. result[0] = NoMatch /\ 0 \in 0 .. n
      BY <1>1, <1>3 DEF Rounds
    <2>4. QED
      <3> HIDE DEF first
      <3>1. QED
        BY <2>1, <2>2, <2>3
  <1>5. ASSUME NEW i \in 0 .. n - 1, i \in T
        PROVE  i + 1 \in T
    <2>1. i + 1 \in 1 .. n /\ i \in 0 .. n /\ Explains(result[i], first(i), query)
      BY <1>1, <1>5
    <2>2. first(i) \subseteq Policies /\ s[i + 1] \in Policies
      BY <1>1, <1>2, <2>1
    <2>3. \A q \in first(i) : q.priority >= s[i + 1].priority
      BY <1>1, <2>1
    <2>4. first(i + 1) = first(i) \cup {s[i + 1]}
      BY <1>1, <2>1
    <2>5. result[i + 1] = Round(result[i], s[i + 1], query)
      BY <1>1, <1>3, <2>1 DEF Rounds
    <2>6. Explains(Round(result[i], s[i + 1], query), first(i) \cup {s[i + 1]}, query)
      <3> HIDE DEF first
      <3>1. QED
        BY <1>3, <2>1, <2>2, <2>3, RoundExplains
    <2>7. i + 1 \in 0 .. n
      BY <1>1, <2>1
    <2>8. QED
      <3> HIDE DEF first
      <3>1. QED
        BY <2>4, <2>5, <2>6, <2>7
  <1>6. n \in T
    <2> HIDE DEF T
    <2>1. \A i \in 0 .. n : i \in T
      BY <1>1, <1>4, <1>5, Induction
    <2>2. QED
      BY <1>1, <2>1
  <1>7. first(n) = rows
    BY <1>1
  <1>8. Loop(s, query) = result[n] /\ result[n] \in Result
    BY <1>1, <1>3 DEF Rounds
  <1>9. QED
    <2> HIDE DEF first
    <2>1. QED
      BY <1>6, <1>7, <1>8

------------------------------------------------------------------------------
(* The tables *)

\* The inductive invariant: the bound on the rows says something of finite tables only.
TablesFinite == TypeOK /\ IsFiniteSet(policy) /\ IsFiniteSet(zone)

\* A row more or less, and one replaced, in a finite table.
LEMMA RowsCounted ==
  ASSUME NEW S, IsFiniteSet(S)
  PROVE  /\ Cardinality(S) \in Nat
         /\ \A x : IsFiniteSet(S \cup {x}) /\ Cardinality(S \cup {x}) <= Cardinality(S) + 1
         /\ \A x : IsFiniteSet(S \ {x}) /\ Cardinality(S \ {x}) <= Cardinality(S)
         /\ \A x \in S : \A y :
              /\ IsFiniteSet((S \ {x}) \cup {y})
              /\ Cardinality((S \ {x}) \cup {y}) <= Cardinality(S)
  <1>1. Cardinality(S) \in Nat
    BY FS_CardinalityType
  <1>2. ASSUME NEW R, IsFiniteSet(R), NEW x
        PROVE  IsFiniteSet(R \cup {x}) /\ Cardinality(R \cup {x}) <= Cardinality(R) + 1
    <2>1. Cardinality(R) \in Nat
      BY <1>2, FS_CardinalityType
    <2>2. /\ IsFiniteSet(R \cup {x})
          /\ \/ Cardinality(R \cup {x}) = Cardinality(R)
             \/ Cardinality(R \cup {x}) = Cardinality(R) + 1
      BY <1>2, FS_AddElement, Zenon
    <2>3. QED
      BY <2>1, <2>2
  <1>3. ASSUME NEW x
        PROVE  IsFiniteSet(S \ {x}) /\ Cardinality(S \ {x}) <= Cardinality(S)
    <2>1. CASE x \notin S
      <3>1. S \ {x} = S
        BY <2>1
      <3>2. QED
        BY <1>1, <3>1
    <2>2. CASE x \in S
      BY <1>1, <2>2, FS_RemoveElement
    <2>3. QED
      BY <2>1, <2>2
  <1>4. ASSUME NEW x \in S, NEW y
        PROVE  /\ IsFiniteSet((S \ {x}) \cup {y})
               /\ Cardinality((S \ {x}) \cup {y}) <= Cardinality(S)
    <2>1. /\ IsFiniteSet(S \ {x})
          /\ Cardinality(S \ {x}) = Cardinality(S) - 1
      BY FS_RemoveElement
    <2>2. /\ IsFiniteSet((S \ {x}) \cup {y})
          /\ Cardinality((S \ {x}) \cup {y}) <= Cardinality(S \ {x}) + 1
      BY <2>1, <1>2
    <2>3. Cardinality((S \ {x}) \cup {y}) \in Nat
      BY <2>2, FS_CardinalityType
    <2>4. QED
      BY <1>1, <2>1, <2>2, <2>3
  <1>5. QED
    BY <1>1, <1>2, <1>3, <1>4

\* A step of an endpoint that writes policies keeps the tables typed and finite.
LEMMA PolicyWritten ==
  ASSUME TablesFinite, NEW p \in Policies, NEW q \in Policies,
         Create(p) \/ Delete(p) \/ Update(p, q)
  PROVE  TablesFinite'
  <1>1. /\ policy \in SUBSET Policies /\ zone \in SUBSET Zones
        /\ IsFiniteSet(policy) /\ IsFiniteSet(zone)
        /\ Cardinality(policy) + Cardinality(zone) <= MaxRows
        /\ \A z \in zone : z.ipRanges \subseteq Cidr
        /\ MaxRows \in Nat /\ Cardinality(zone) \in Nat
    BY PolicyEvalAssumption, FS_CardinalityType DEF TablesFinite, TypeOK
  <1>2. zone' = zone /\ policy' \in SUBSET Policies
    BY <1>1 DEF Create, Delete, Update
  <1>3. /\ IsFiniteSet(policy')
        /\ Cardinality(policy') \in Nat
        /\ Cardinality(policy') + Cardinality(zone) <= MaxRows
    <2>0. Cardinality(policy) \in Nat
      BY <1>1, RowsCounted
    <2>1. CASE Create(p)
      <3>1. /\ policy' = policy \cup {p}
            /\ Cardinality(policy) + Cardinality(zone) < MaxRows
        BY <2>1 DEF Create
      <3>2. IsFiniteSet(policy') /\ Cardinality(policy') <= Cardinality(policy) + 1
        BY <1>1, <3>1, RowsCounted
      <3>3. Cardinality(policy') \in Nat
        BY <3>2, RowsCounted
      <3>4. QED
        BY <1>1, <2>0, <3>1, <3>2, <3>3
    <2>2. CASE Delete(p)
      <3>1. policy' = policy \ {p}
        BY <2>2 DEF Delete
      <3>2. IsFiniteSet(policy') /\ Cardinality(policy') <= Cardinality(policy)
        BY <1>1, <3>1, RowsCounted
      <3>3. Cardinality(policy') \in Nat
        BY <3>2, RowsCounted
      <3>4. QED
        BY <1>1, <2>0, <3>2, <3>3
    <2>3. CASE Update(p, q)
      <3>1. p \in policy /\ policy' = (policy \ {p}) \cup {q}
        BY <2>3 DEF Update
      <3>2. IsFiniteSet(policy') /\ Cardinality(policy') <= Cardinality(policy)
        BY <1>1, <3>1, RowsCounted
      <3>3. Cardinality(policy') \in Nat
        BY <3>2, RowsCounted
      <3>4. QED
        BY <1>1, <2>0, <3>2, <3>3
    <2>4. QED
      BY <2>1, <2>2, <2>3
  <1>4. QED
    BY <1>1, <1>2, <1>3 DEF TablesFinite, TypeOK

\* A step of an endpoint that writes zones keeps the tables typed and finite.
LEMMA ZoneWritten ==
  ASSUME TablesFinite, NEW z \in Zones, CreateNetworkZone(z) \/ DeleteNetworkZone(z)
  PROVE  TablesFinite'
  <1>1. /\ policy \in SUBSET Policies /\ zone \in SUBSET Zones
        /\ IsFiniteSet(policy) /\ IsFiniteSet(zone)
        /\ Cardinality(policy) + Cardinality(zone) <= MaxRows
        /\ \A w \in zone : w.ipRanges \subseteq Cidr
        /\ z.ipRanges \subseteq Cidr
        /\ MaxRows \in Nat /\ Cardinality(policy) \in Nat /\ Cardinality(zone) \in Nat
    BY PolicyEvalAssumption, ZonesAssumption, FS_CardinalityType DEF TablesFinite, TypeOK
  <1>2. /\ policy' = policy
        /\ zone' \in SUBSET Zones
        /\ \A w \in zone' : w.ipRanges \subseteq Cidr
    BY <1>1 DEF CreateNetworkZone, DeleteNetworkZone
  <1>3. /\ IsFiniteSet(zone')
        /\ Cardinality(zone') \in Nat
        /\ Cardinality(policy) + Cardinality(zone') <= MaxRows
    <2>1. CASE CreateNetworkZone(z)
      <3>1. /\ zone' = zone \cup {z}
            /\ Cardinality(policy) + Cardinality(zone) < MaxRows
        BY <2>1 DEF CreateNetworkZone
      <3>2. IsFiniteSet(zone') /\ Cardinality(zone') <= Cardinality(zone) + 1
        BY <1>1, <3>1, RowsCounted
      <3>3. Cardinality(zone') \in Nat
        BY <3>2, RowsCounted
      <3>4. QED
        BY <1>1, <3>1, <3>2, <3>3
    <2>2. CASE DeleteNetworkZone(z)
      <3>1. zone' = zone \ {z}
        BY <2>2 DEF DeleteNetworkZone
      <3>2. IsFiniteSet(zone') /\ Cardinality(zone') <= Cardinality(zone)
        BY <1>1, <3>1, RowsCounted
      <3>3. Cardinality(zone') \in Nat
        BY <3>2, RowsCounted
      <3>4. QED
        BY <1>1, <3>2, <3>3
    <2>3. QED
      BY <2>1, <2>2
  <1>4. QED
    BY <1>1, <1>2, <1>3 DEF TablesFinite, TypeOK

\* Every reachable pair of tables is finite and typed.
LEMMA TablesStayFinite == Spec => []TablesFinite
  <1>1. Init => TablesFinite
    <2>1. IsFiniteSet({}) /\ Cardinality({}) = 0
      BY FS_EmptySet
    <2>2. QED
      BY <2>1, PolicyEvalAssumption DEF Init, TablesFinite, TypeOK
  <1>2. TablesFinite /\ [Next]_vars => TablesFinite'
    <2> SUFFICES ASSUME TablesFinite, [Next]_vars PROVE TablesFinite'
      OBVIOUS
    <2>1. CASE UNCHANGED vars
      BY <2>1 DEF vars, TablesFinite, TypeOK
    <2>2. ASSUME NEW p \in Policies, Create(p) \/ Delete(p) \/ \E q \in Policies : Update(p, q)
          PROVE  TablesFinite'
      BY <2>2, PolicyWritten
    <2>3. ASSUME NEW z \in Zones, CreateNetworkZone(z) \/ DeleteNetworkZone(z)
          PROVE  TablesFinite'
      BY <2>3, ZoneWritten
    <2>4. QED
      BY <2>1, <2>2, <2>3 DEF Next
  <1>3. QED
    BY <1>1, <1>2, PTL DEF Spec

\* The tables hold rows the endpoints may write, zones with well-formed ranges,
\* and no more of both than the bound (create, update, delete, and the zones').
THEOREM TypeCorrect == Spec => []TypeOK
  <1>1. TablesFinite => TypeOK
    BY DEF TablesFinite
  <1>2. QED
    BY <1>1, TablesStayFinite, PTL

------------------------------------------------------------------------------
(* What evaluate answers *)

\* Every answer of evaluate explains itself by the enabled rows.
LEMMA AnswersExplained ==
  ASSUME TablesFinite, NEW query, NEW result \in Evaluate(query)
  PROVE  result \in Result /\ Explains(result, {p \in policy : p.enabled}, query)
  <1> DEFINE rows == {p \in policy : p.enabled}
  <1>1. rows \in SUBSET Policies /\ IsFiniteSet(rows)
    <2>1. rows \subseteq policy
      OBVIOUS
    <2>2. QED
      BY <2>1, FS_Subset DEF TablesFinite, TypeOK
  <1>2. PICK s \in Orders(rows) : result = Loop(s, query)
    BY DEF Evaluate
  <1>3. result \in Result /\ Explains(result, rows, query)
    <2> HIDE DEF rows
    <2>1. QED
      BY <1>1, <1>2, LoopExplains
  <1>4. QED
    BY <1>3

\* The decision of evaluate does not depend on priorities or on the order the
\* database gives equal ones in: it is ALLOW when a policy applies and none that
\* applies says DENY.
THEOREM DenyAlwaysOverrides == Spec => []DenyOverrides
  <1>1. TablesFinite => DenyOverrides
    <2> SUFFICES ASSUME TablesFinite, NEW query \in Queries, NEW result \in Evaluate(query)
                 PROVE  result.decision = "ALLOW" <=>
                          /\ Matching(query) # {}
                          /\ \A p \in Matching(query) : p.effect = "ALLOW"
      BY DEF DenyOverrides
    <2> DEFINE rows == {p \in policy : p.enabled}
    <2>1. result \in Result /\ Explains(result, rows, query)
      BY AnswersExplained
    <2>2. Matching(query) = {p \in rows : Applies(p, query)}
      BY DEF Matching
    <2>3. result.decision \in {"ALLOW", "DENY"}
      BY <2>1 DEF Result
    <2> HIDE DEF rows
    <2>4. CASE result.matched = None
      BY <2>1, <2>2, <2>4 DEF Explains
    <2>5. CASE result.matched # None
      <3>1. /\ result.matched \in Matching(query)
            /\ result.matched.effect = result.decision
        BY <2>1, <2>2, <2>5 DEF Explains
      <3>2. result.decision = "ALLOW" => \A p \in Matching(query) : p.effect = "ALLOW"
        BY <2>1, <2>2 DEF Explains
      <3>3. QED
        BY <2>3, <3>1, <3>2
    <2>6. QED
      BY <2>4, <2>5
  <1>2. QED
    BY <1>1, TablesStayFinite, PTL

\* The policy that an answer of evaluate names applies, has the answer's effect and
\* the highest priority of those that do; an answer that names none is the default.
THEOREM MatchedAlwaysExplains == Spec => []MatchedPolicyExplains
  <1>1. TablesFinite => MatchedPolicyExplains
    <2> SUFFICES ASSUME TablesFinite, NEW query \in Queries, NEW result \in Evaluate(query)
                 PROVE  IF result.matched = None THEN Matching(query) = {}
                        ELSE /\ result.matched \in Matching(query)
                             /\ result.matched.effect = result.decision
                             /\ \A p \in Matching(query) :
                                  p.effect = result.decision =>
                                    p.priority <= result.matched.priority
      BY DEF MatchedPolicyExplains
    <2> DEFINE rows == {p \in policy : p.enabled}
    <2>1. Explains(result, rows, query)
      BY AnswersExplained
    <2>2. Matching(query) = {p \in rows : Applies(p, query)}
      BY DEF Matching
    <2> HIDE DEF rows
    <2>3. QED
      BY <2>1, <2>2 DEF Explains
  <1>2. QED
    BY <1>1, TablesStayFinite, PTL

\* Whatever the rows, the policy that an asker evades by leaving out the address
\* and the location is one that asks for either by equality, and no other
\* (policy.service.ts:248-277).
THEOREM SilenceEvadesThose == Spec => []SilenceEvadesOnlyEqualities
  <1>1. TypeOK => SilenceEvadesOnlyEqualities
    <2> SUFFICES ASSUME TypeOK, NEW query \in Queries, NEW p \in Matching(query)
                 PROVE  p \in Matching([query EXCEPT !.ipAddress = None,
                                                    !.geoLocation = None]) <=>
                          DOMAIN p.conditions.equals \cap {"ipAddress", "geoLocation"} = {}
      BY DEF SilenceEvadesOnlyEqualities
    <2> DEFINE silent == [query EXCEPT !.ipAddress = None, !.geoLocation = None]
               equals == p.conditions.equals
    <2>1. /\ silent.ipAddress = None /\ silent.geoLocation = None
          /\ silent.resource = query.resource /\ silent.action = query.action
          /\ silent.now = query.now /\ silent.other = query.other
      BY RowsAssumption
    <2>2. p \in policy /\ p.enabled /\ Applies(p, query) /\ p \in Policies
      BY DEF Matching, TypeOK
    <2>3. /\ DOMAIN equals \subseteq {"ipAddress", "geoLocation", "other"}
          /\ \A key \in DOMAIN equals : equals[key] # None
          /\ \A key \in DOMAIN equals : query[key] = equals[key]
      BY <2>2, RowsAssumption DEF Applies, MatchesConditions
    <2>4. silent["ipAddress"] = None /\ silent["geoLocation"] = None
          /\ silent["other"] = query["other"]
      BY <2>1
    <2> HIDE DEF silent
    <2>5. CASE DOMAIN equals \cap {"ipAddress", "geoLocation"} = {}
      <3>1. \A key \in DOMAIN equals : silent[key] = equals[key]
        <4>1. \A key \in DOMAIN equals : key = "other"
          BY <2>3, <2>5
        <4>2. QED
          BY <2>3, <2>4, <4>1
      <3>2. MatchesConditions(silent, p.conditions)
        BY <2>1, <2>2, <3>1 DEF Applies, MatchesConditions
      <3>3. p \in Matching(silent)
        BY <2>1, <2>2, <3>2 DEF Applies, Matching
      <3>4. QED
        BY <2>5, <3>3 DEF silent
    <2>6. CASE DOMAIN equals \cap {"ipAddress", "geoLocation"} # {}
      <3>1. PICK key \in DOMAIN equals : key \in {"ipAddress", "geoLocation"}
        BY <2>6
      <3>2. silent[key] # equals[key]
        BY <2>3, <2>4, <3>1
      <3>3. p \notin Matching(silent)
        BY <3>2 DEF Applies, MatchesConditions, Matching
      <3>4. QED
        BY <2>6, <3>3 DEF silent
    <2>7. QED
      BY <2>5, <2>6
  <1>2. QED
    BY <1>1, TypeCorrect, PTL

------------------------------------------------------------------------------
(* Powers of two, and division *)

\* A power of two is the number of the subsets of an interval, which is how
\* the library knows it.
LEMMA PowerCounts ==
  ASSUME NEW n \in Nat
  PROVE  /\ IsFiniteSet(SUBSET (1 .. n))
         /\ Cardinality(SUBSET (1 .. n)) = 2^n
         /\ 2^n \in Nat \ {0}
  <1>1. IsFiniteSet(1 .. n) /\ Cardinality(1 .. n) = n
    BY FS_Interval
  <1>2. /\ IsFiniteSet(SUBSET (1 .. n))
        /\ Cardinality(SUBSET (1 .. n)) = 2^Cardinality(1 .. n)
    BY <1>1, FS_SUBSET, Zenon
  <1>3. Cardinality(SUBSET (1 .. n)) = 2^n
    BY <1>1, <1>2, Zenon
  <1>4. Cardinality(SUBSET (1 .. n)) \in Nat
    BY <1>2, FS_CardinalityType
  <1>5. Cardinality(SUBSET (1 .. n)) # 0
    <2>1. SUBSET (1 .. n) # {}
      OBVIOUS
    <2>2. QED
      BY <1>2, <2>1, FS_EmptySet, Zenon
  <1>6. QED
    BY <1>2, <1>3, <1>4, <1>5

\* The next power is twice as much: half of the subsets have the new element.
LEMMA PowerStep ==
  ASSUME NEW n \in Nat
  PROVE  2^(n + 1) = 2 * 2^n
  <1> DEFINE A == SUBSET (1 .. n)
             B == {a \cup {n + 1} : a \in A}
             f == [a \in A |-> a \cup {n + 1}]
  <1>1. IsFiniteSet(A) /\ Cardinality(A) = 2^n /\ 2^n \in Nat
    BY PowerCounts
  <1>2. IsFiniteSet(B) /\ Cardinality(B) = Cardinality(A)
    <2>1. f \in [A -> B]
      OBVIOUS
    <2>2. \A b \in B : \E a \in A : f[a] = b
      OBVIOUS
    <2>3. ASSUME NEW a \in A, NEW b \in A, f[a] = f[b]
          PROVE  a = b
      <3>1. n + 1 \notin a /\ n + 1 \notin b
        OBVIOUS
      <3>2. a \cup {n + 1} = b \cup {n + 1}
        BY <2>3
      <3>3. QED
        BY <3>1, <3>2
    <2>4. f \in Bijection(A, B)
      <3> HIDE DEF f, A, B
      <3>1. QED
        BY <2>1, <2>2, <2>3 DEF Bijection, Injection, IsInjective, Surjection
    <2>5. QED
      <3> HIDE DEF f, A, B
      <3>1. QED
        BY <1>1, <2>4, FS_Bijection DEF ExistsBijection
  <1>3. A \cap B = {}
    <2>1. \A a \in A : n + 1 \notin a
      OBVIOUS
    <2>2. \A b \in B : n + 1 \in b
      OBVIOUS
    <2>3. QED
      BY <2>1, <2>2
  <1>4. A \cup B = SUBSET (1 .. n + 1)
    <2>1. A \cup B \subseteq SUBSET (1 .. n + 1)
      <3>1. \A i \in (1 .. n) \cup {n + 1} : i \in 1 .. n + 1
        OBVIOUS
      <3>2. \A a \in A : a \subseteq 1 .. n + 1 /\ a \cup {n + 1} \subseteq 1 .. n + 1
        BY <3>1
      <3>3. ASSUME NEW c \in A \cup B
            PROVE  c \subseteq 1 .. n + 1
        <4>1. c \in A \/ \E a \in A : c = a \cup {n + 1}
          OBVIOUS
        <4> HIDE DEF A, B
        <4>2. QED
          BY <3>2, <4>1
      <3> HIDE DEF A, B
      <3>4. QED
        BY <3>3
    <2>2. ASSUME NEW c \in SUBSET (1 .. n + 1)
          PROVE  c \in A \cup B
      <3>1. CASE n + 1 \notin c
        BY <3>1
      <3>2. CASE n + 1 \in c
        <4>1. c \ {n + 1} \in A /\ c = (c \ {n + 1}) \cup {n + 1}
          BY <3>2
        <4>2. QED
          BY <4>1
      <3>3. QED
        BY <3>1, <3>2
    <2>3. QED
      BY <2>1, <2>2
  <1>5. Cardinality(A \cup B) = Cardinality(A) + Cardinality(B) - Cardinality(A \cap B)
    <2> HIDE DEF A, B
    <2>1. QED
      BY <1>1, <1>2, FS_Union
  <1>6. Cardinality(A \cap B) = 0
    BY <1>3, FS_EmptySet, Zenon
  <1>7. Cardinality(A \cup B) = 2^(n + 1)
    <2> HIDE DEF A, B
    <2>1. Cardinality(SUBSET (1 .. n + 1)) = 2^(n + 1)
      BY PowerCounts
    <2>2. QED
      BY <1>4, <2>1
  <1>8. QED
    <2> HIDE DEF A, B
    <2>1. QED
      BY <1>1, <1>2, <1>5, <1>6, <1>7

\* Adding exponents multiplies the powers.
LEMMA PowerSum ==
  ASSUME NEW a \in Nat, NEW b \in Nat
  PROVE  2^(a + b) = 2^a * 2^b
  <1> DEFINE T == {i \in 0 .. b : 2^(a + i) = 2^a * 2^i}
  <1>1. \A i \in Nat : 2^i \in Nat
    BY PowerCounts
  <1>2. 0 \in T
    <2>1. 2^0 = 1 /\ a + 0 = a /\ 2^a \in Nat
      BY <1>1
    <2>2. QED
      BY <2>1
  <1>3. ASSUME NEW i \in 0 .. b - 1, i \in T
        PROVE  i + 1 \in T
    <2>1. 2^(a + i) = 2^a * 2^i
      BY <1>3
    <2>2. 2^(a + i + 1) = 2 * 2^(a + i) /\ 2^(i + 1) = 2 * 2^i
      BY PowerStep
    <2>3. 2^a \in Nat /\ 2^i \in Nat
      BY <1>1
    <2>4. 2^(a + (i + 1)) = 2^(a + i + 1)
      OBVIOUS
    <2>5. 2^a * (2 * 2^i) = 2 * (2^a * 2^i)
      BY <2>3
    <2>6. 2^(a + (i + 1)) = 2^a * 2^(i + 1)
      BY <2>1, <2>2, <2>4, <2>5
    <2>7. QED
      BY <2>6
  <1>4. QED
    <2> HIDE DEF T
    <2>1. \A i \in 0 .. b : i \in T
      BY <1>2, <1>3, Induction
    <2>2. b \in T
      BY <2>1
    <2>3. QED
      BY <2>2 DEF T

\* Quotient and remainder.
LEMMA Division ==
  ASSUME NEW x \in Int, NEW p \in Nat \ {0}
  PROVE  /\ x \div p \in Int /\ x % p \in Nat /\ x % p < p
         /\ x = p * (x \div p) + (x % p)
         /\ x \in Nat => x \div p \in Nat
  <1>1. x \div p \in Int /\ x % p \in Nat /\ x % p < p
    OBVIOUS
  <1>2. x = p * (x \div p) + (x % p)
    OBVIOUS
  <1>3. ASSUME x \in Nat
        PROVE  x \div p \in Nat
    BY <1>3
  <1>4. QED
    BY <1>1, <1>2, <1>3

\* There is one quotient and one remainder.
LEMMA DivisionUnique ==
  ASSUME NEW p \in Nat \ {0}, NEW q \in Int, NEW r \in Nat, r < p
  PROVE  (p * q + r) \div p = q /\ (p * q + r) % p = r
  <1> DEFINE x == p * q + r
  <1>0. x \in Int
    OBVIOUS
  <1>1. /\ x \div p \in Int /\ x % p \in Nat /\ x % p < p
        /\ x = p * (x \div p) + (x % p)
    BY <1>0, Division
  <1>2. p * (q - (x \div p)) = (x % p) - r
    BY <1>1
  <1>3. q - (x \div p) = 0
    <2>1. PICK d \in Int : d = q - (x \div p)
      BY <1>1
    <2>2. p * d < p /\ p * d > -p
      BY <1>1, <1>2, <2>1
    <2>3. ~(d >= 1) /\ ~(d <= -1)
      BY <2>2
    <2>4. QED
      BY <2>1, <2>3
  <1>4. QED
    BY <1>1, <1>2, <1>3

\* Dividing by a product is dividing twice.
LEMMA DivisionTwice ==
  ASSUME NEW x \in Nat, NEW p \in Nat \ {0}, NEW q \in Nat \ {0}
  PROVE  x \div (p * q) = (x \div p) \div q
  <1>1. PICK d \in Nat, r \in Nat : d = x \div p /\ r < p /\ x = p * d + r
    BY Division
  <1>2. PICK e \in Nat, s \in Nat : e = d \div q /\ s < q /\ d = q * e + s
    BY Division
  <1>3. x = (p * q) * e + (p * s + r)
    <2>1. PICK c \in Nat : c = q * e /\ d = c + s
      BY <1>2
    <2>2. p * (c + s) = p * c + p * s
      BY <1>2, <2>1
    <2>3. p * (q * e) = (p * q) * e
      OBVIOUS
    <2>4. p * d = (p * q) * e + p * s
      BY <2>1, <2>2, <2>3, Zenon
    <2>5. PICK u \in Nat, v \in Nat : u = (p * q) * e /\ v = p * s
      OBVIOUS
    <2>6. QED
      BY <1>1, <2>4, <2>5
  <1>4. p * s + r \in Nat /\ p * s + r < p * q
    <2>1. p * s <= p * (q - 1)
      BY <1>2
    <2>2. p * (q - 1) = p * q - p
      OBVIOUS
    <2>3. p * s \in Nat /\ p * q \in Nat
      BY <1>2
    <2>4. QED
      BY <1>1, <2>1, <2>2, <2>3
  <1>5. p * q \in Nat \ {0}
    OBVIOUS
  <1>6. x \div (p * q) = e
    BY <1>3, <1>4, <1>5, DivisionUnique
  <1>7. QED
    BY <1>1, <1>2, <1>6

\* Numbers that differ by a multiple of p have the same remainder.
LEMMA SameRemainder ==
  ASSUME NEW p \in Nat \ {0}, NEW x \in Int, NEW k \in Int
  PROVE  (x + p * k) % p = x % p
  <1>1. PICK d \in Int, r \in Nat : r = x % p /\ r < p /\ x = p * d + r
    BY Division
  <1>2. PICK e \in Int : e = d + k
    OBVIOUS
  <1>3. x + p * k = p * e + r
    BY <1>1, <1>2
  <1>4. (p * e + r) % p = r
    BY <1>1, DivisionUnique
  <1>5. QED
    BY <1>1, <1>3, <1>4

------------------------------------------------------------------------------
(* Numbers of 32 bits, and the addresses they stand for *)

\* The powers that bound an octet and an address.
LEMMA Sizes ==
  /\ Width \in Nat \ {0} /\ Width = 4 * OctetBits
  /\ 2^OctetBits \in Nat \ {0}
  /\ 2^Width \in Nat \ {0}
  /\ 2^(Width - 1) \in Nat \ {0}
  /\ 2^Width = 2^OctetBits * (2^OctetBits * (2^OctetBits * 2^OctetBits))
  <1>1. Width \in Nat \ {0} /\ Width = 4 * OctetBits /\ OctetBits \in Nat \ {0}
    BY PolicyEvalAssumption DEF Width
  <1>2. Width - 1 \in Nat
    BY <1>1
  <1>3. 2^OctetBits \in Nat \ {0} /\ 2^Width \in Nat \ {0} /\ 2^(Width - 1) \in Nat \ {0}
    BY <1>1, <1>2, PowerCounts
  <1>4. /\ 2^(OctetBits + OctetBits) = 2^OctetBits * 2^OctetBits
        /\ 2^(OctetBits + (OctetBits + OctetBits)) = 2^OctetBits * 2^(OctetBits + OctetBits)
        /\ 2^(OctetBits + (OctetBits + (OctetBits + OctetBits)))
             = 2^OctetBits * 2^(OctetBits + (OctetBits + OctetBits))
    <2>1. OctetBits + OctetBits \in Nat /\ OctetBits + (OctetBits + OctetBits) \in Nat
      BY <1>1
    <2>2. QED
      BY <1>1, <2>1, PowerSum
  <1>5. Width = OctetBits + (OctetBits + (OctetBits + OctetBits))
    BY <1>1
  <1>6. QED
    BY <1>1, <1>3, <1>4, <1>5

\* Two integers that stand for the same 32 bits.
SameBits(x, y) == \E k \in Int : x = y + 2^Width * k

\* What ToInt32 makes of a number stands for the same bits.
LEMMA Int32SameBits ==
  ASSUME NEW n \in Int
  PROVE  Int32(n) \in Int /\ SameBits(Int32(n), n)
  <1> DEFINE M == 2^Width
             H == 2^(Width - 1)
  <1>1. M \in Nat \ {0} /\ H \in Nat
    BY Sizes
  <1>2. Int32(n) = ((n + H) % M) - H
    BY DEF Int32
  <1> HIDE DEF M, H
  <1>3. PICK x \in Int : x = n + H
    BY <1>1
  <1>4. PICK d \in Int, r \in Nat : r = x % M /\ x = M * d + r
    BY <1>1, Division
  <1>5. PICK e \in Int : e = -d
    OBVIOUS
  <1>6. Int32(n) = n + M * e
    <2>1. Int32(n) = r - H
      BY <1>2, <1>3, <1>4
    <2>2. PICK w \in Int : w = M * d /\ M * e = -w
      BY <1>1, <1>5
    <2>3. x = w + r
      BY <1>4, <2>2
    <2>4. r - H = n - w
      BY <1>1, <1>3, <2>3
    <2>5. n - w = n + M * e
      BY <2>2
    <2>6. QED
      BY <2>1, <2>4, <2>5
  <1>7. Int32(n) \in Int
    BY <1>1, <1>6
  <1>8. QED
    BY <1>5, <1>6, <1>7 DEF SameBits, M

\* Numbers that stand for the same bits have them one by one.
LEMMA SameBitsRemainder ==
  ASSUME NEW x \in Int, NEW y \in Int, SameBits(x, y)
  PROVE  x % 2^Width = y % 2^Width
  <1>1. PICK k \in Int : x = y + 2^Width * k
    BY DEF SameBits
  <1>2. 2^Width \in Nat \ {0}
    BY Sizes
  <1>3. QED
    BY <1>1, <1>2, SameRemainder

\* One octet more: the shift drops what does not fit and the sum keeps the rest.
LEMMA AddOctetSameBits ==
  ASSUME NEW acc \in Int, NEW n \in Int, SameBits(acc, n), NEW octet \in Octet
  PROVE  /\ AddOctet(acc, octet) \in Int
         /\ SameBits(AddOctet(acc, octet), 2^OctetBits * n + octet)
  <1> DEFINE M == 2^Width
             B == 2^OctetBits
  <1>1. M \in Nat \ {0} /\ B \in Nat \ {0} /\ octet \in Int /\ NaN \notin Int
    BY Sizes, PolicyEvalAssumption DEF Octet
  <1>2. AddOctet(acc, octet) = Int32(acc * B) + octet
    BY <1>1 DEF AddOctet, Number
  <1> HIDE DEF M, B
  <1>3. PICK x \in Int : x = acc * B
    BY <1>1
  <1>4. PICK k \in Int : acc = n + M * k
    BY DEF SameBits, M
  <1>5. PICK j \in Int : Int32(x) = x + M * j
    BY Int32SameBits DEF SameBits, M
  <1>6. PICK i \in Int : i = k * B + j
    BY <1>1
  <1>7. PICK a \in Int : a = n * B
    BY <1>1
  <1>8. x = a + M * (k * B)
    BY <1>1, <1>3, <1>4, <1>7
  <1>9. AddOctet(acc, octet) = (B * n + octet) + M * i
    BY <1>1, <1>2, <1>3, <1>5, <1>6, <1>7, <1>8
  <1>10. QED
    BY <1>1, <1>6, <1>9 DEF SameBits, M, B

\* The number that an address is.
Value(ip) ==
  2^OctetBits * (2^OctetBits * (2^OctetBits * ip[1] + ip[2]) + ip[3]) + ip[4]

\* The numbers that four octets make, with any number for an octet's size.
LEMMA FourDigits ==
  ASSUME NEW B \in Nat \ {0}, NEW a \in 0 .. B - 1, NEW b \in 0 .. B - 1,
         NEW c \in 0 .. B - 1, NEW d \in 0 .. B - 1
  PROVE  /\ B * a + b \in Nat /\ B * (B * a + b) + c \in Nat
         /\ B * (B * (B * a + b) + c) + d \in Nat
         /\ B * (B * (B * a + b) + c) + d < B * (B * (B * B))
  <1>1. ASSUME NEW x \in Nat, NEW m \in Nat, x < m, NEW o \in 0 .. B - 1
        PROVE  B * x + o \in Nat /\ B * m \in Nat /\ B * x + o < B * m
    <2>1. B * x <= B * (m - 1)
      BY <1>1
    <2>2. B * (m - 1) = B * m - B
      BY <1>1
    <2>3. B * x \in Nat /\ B * m \in Nat
      BY <1>1
    <2>4. QED
      BY <1>1, <2>1, <2>2, <2>3
  <1>2. PICK x \in Nat, m \in Nat : x = B * a + b /\ m = B * B /\ x < m
    BY <1>1
  <1>3. PICK y \in Nat, n \in Nat : y = B * x + c /\ n = B * m /\ y < n
    BY <1>1, <1>2
  <1>4. B * y + d \in Nat /\ B * y + d < B * n
    BY <1>1, <1>3
  <1>5. QED
    BY <1>2, <1>3, <1>4

\* ipToNum makes of an address a number that stands for the bits of its value.
LEMMA IpToNumSameBits ==
  ASSUME NEW ip \in IPv4
  PROVE  /\ IpToNum(ip) \in Int
         /\ Value(ip) \in 0 .. 2^Width - 1
         /\ SameBits(IpToNum(ip), Value(ip))
  <1> DEFINE step == [x \in Int \X (1 .. 4) |-> AddOctet(x[1], ip[x[2]])]
             Solves(h) == h = [i \in 0 .. 4 |->
                                 IF i = 0 THEN 0 ELSE AddOctet(h[i - 1], ip[i])]
             acc == CHOOSE h : Solves(h)
             B == 2^OctetBits
  <1>1. /\ ip \in [1 .. 4 -> Octet]
        /\ ip[1] \in Octet /\ ip[2] \in Octet /\ ip[3] \in Octet /\ ip[4] \in Octet
    BY DEF IPv4
  <1>2. Len(ip) = 4
    BY <1>1
  <1>3. IpToNum(ip) = acc[4]
    BY <1>2 DEF IpToNum
  <1>4. \A x \in Int, o \in Octet : AddOctet(x, o) \in Int
    BY PolicyEvalAssumption, Int32SameBits, Sizes DEF AddOctet, Number, Octet
  <1>5. step \in [Int \X (1 .. 4) -> Int]
    BY <1>1, <1>4
  <1>6. PICK f \in [0 .. 4 -> Int] : Iterates(f, 4, 0, step)
    <2> HIDE DEF step
    <2>1. 4 \in Nat /\ 0 \in Int
      OBVIOUS
    <2>2. QED
      BY <1>5, <2>1, RecursionExists
  <1>7. Solves(f)
    <2>1. \A i \in 1 .. 4 : step[<<f[i - 1], i>>] = AddOctet(f[i - 1], ip[i])
      OBVIOUS
    <2>2. \A i \in 0 .. 4 : i = 0 \/ i \in 1 .. 4
      OBVIOUS
    <2> HIDE DEF step
    <2>3. QED
      BY <1>6, <2>1, <2>2 DEF Iterates
  <1>8. Solves(acc)
    <2> HIDE DEF Solves
    <2>1. QED
      BY <1>7
  <1> HIDE DEF acc
  <1>9. /\ acc[0] = 0
        /\ acc[1] = AddOctet(acc[0], ip[1]) /\ acc[2] = AddOctet(acc[1], ip[2])
        /\ acc[3] = AddOctet(acc[2], ip[3]) /\ acc[4] = AddOctet(acc[3], ip[4])
    BY <1>8
  <1>10. B \in Nat \ {0} /\ 2^Width = B * (B * (B * B)) /\ Octet = 0 .. B - 1
    BY Sizes DEF Octet
  <1> HIDE DEF B, Solves
  <1>11. /\ B * ip[1] + ip[2] \in Nat /\ B * (B * ip[1] + ip[2]) + ip[3] \in Nat
         /\ Value(ip) \in Nat /\ Value(ip) < 2^Width
    <2>1. Value(ip) = B * (B * (B * ip[1] + ip[2]) + ip[3]) + ip[4]
      BY DEF Value, B
    <2>2. PICK a \in 0 .. B - 1, b \in 0 .. B - 1, c \in 0 .. B - 1, d \in 0 .. B - 1 :
            a = ip[1] /\ b = ip[2] /\ c = ip[3] /\ d = ip[4]
      BY <1>1, <1>10
    <2>3. /\ B * a + b \in Nat /\ B * (B * a + b) + c \in Nat
          /\ B * (B * (B * a + b) + c) + d \in Nat
          /\ B * (B * (B * a + b) + c) + d < B * (B * (B * B))
      BY <1>10, FourDigits
    <2>4. QED
      BY <1>10, <2>1, <2>2, <2>3
  <1>12. acc[0] \in Int /\ SameBits(acc[0], 0)
    <2>1. 0 = 0 + 2^Width * 0
      BY Sizes
    <2>2. QED
      BY <1>9, <2>1 DEF SameBits
  <1>13. acc[1] \in Int /\ SameBits(acc[1], B * 0 + ip[1])
    BY <1>1, <1>9, <1>12, AddOctetSameBits DEF B
  <1>14. B * 0 + ip[1] = ip[1] /\ ip[1] \in Int
    BY <1>1, <1>10
  <1>15. acc[2] \in Int /\ SameBits(acc[2], B * ip[1] + ip[2])
    BY <1>1, <1>9, <1>13, <1>14, AddOctetSameBits DEF B
  <1>16. acc[3] \in Int /\ SameBits(acc[3], B * (B * ip[1] + ip[2]) + ip[3])
    BY <1>1, <1>9, <1>11, <1>15, AddOctetSameBits DEF B
  <1>17. acc[4] \in Int /\ SameBits(acc[4], Value(ip))
    BY <1>1, <1>9, <1>11, <1>16, AddOctetSameBits DEF B, Value
  <1>18. QED
    BY <1>3, <1>11, <1>17, Sizes

\* Bit i of an address is bit i of its value.
LEMMA AddressBits ==
  ASSUME NEW ip \in IPv4, NEW i
  PROVE  BitOf(IpToNum(ip), i) = (Value(ip) \div 2^i) % 2
  <1>1. /\ IpToNum(ip) \in Int /\ Value(ip) \in Int
        /\ Value(ip) \in 0 .. 2^Width - 1
        /\ SameBits(IpToNum(ip), Value(ip))
    BY IpToNumSameBits, Sizes
  <1>2. IpToNum(ip) % 2^Width = Value(ip) % 2^Width
    BY <1>1, SameBitsRemainder
  <1>3. Value(ip) % 2^Width = Value(ip)
    <2>1. PICK M \in Nat \ {0}, v \in Nat : M = 2^Width /\ v = Value(ip) /\ v < M
      BY <1>1, Sizes
    <2>2. v = M * 0 + v
      BY <2>1
    <2>3. (M * 0 + v) % M = v
      BY <2>1, DivisionUnique
    <2>4. QED
      BY <2>1, <2>2, <2>3
  <1>4. QED
    BY <1>2, <1>3 DEF BitOf

\* What ~(2 ** (32 - bits) - 1) stands for: all ones but the low bits, also when
\* the parenthesis is 2 ** 32 - 1 and ToInt32 makes it -1.
LEMMA MaskRemainder ==
  ASSUME NEW bits \in 0 .. Width
  PROVE  /\ Mask(bits) \in Int
         /\ Mask(bits) % 2^Width = 2^Width - 2^(Width - bits)
  <1> DEFINE M == 2^Width
             P == 2^(Width - bits)
  <1>1. bits \in Nat /\ Width - bits \in Nat /\ Width = (Width - bits) + bits
    BY Sizes
  <1>2. M \in Nat \ {0} /\ P \in Nat \ {0} /\ 2^bits \in Nat \ {0}
    BY <1>1, Sizes, PowerCounts
  <1>3. M = P * 2^bits
    BY <1>1, PowerSum
  <1>4. Mask(bits) = -Int32(P - 1) - 1
    BY DEF Mask, BitNot
  <1> HIDE DEF M, P
  <1>5. P <= M
    BY <1>2, <1>3
  <1>6. PICK j \in Int : Int32(P - 1) = (P - 1) + M * j
    <2>1. P - 1 \in Int
      BY <1>2
    <2>2. QED
      BY <2>1, Int32SameBits DEF SameBits, M
  <1>7. PICK e \in Int : e = -j - 1
    OBVIOUS
  <1>8. PICK w \in Int : w = M * j /\ M * e = -w - M
    BY <1>2, <1>7
  <1>9. PICK v \in Nat : v = M - P /\ v < M
    BY <1>2, <1>5
  <1>10. Mask(bits) = v + M * e
    BY <1>2, <1>4, <1>6, <1>8, <1>9
  <1>11. (v + M * e) % M = v % M
    <2>1. v \in Int
      OBVIOUS
    <2>2. QED
      BY <1>2, <2>1, SameRemainder, Zenon
  <1>12. v % M = v
    <2>1. v = M * 0 + v
      BY <1>2
    <2>2. (M * 0 + v) % M = v
      BY <1>2, <1>9, DivisionUnique
    <2>3. QED
      BY <2>1, <2>2
  <1>13. Mask(bits) \in Int
    BY <1>2, <1>8, <1>9, <1>10
  <1>14. QED
    BY <1>9, <1>10, <1>11, <1>12, <1>13 DEF M, P

\* The mask of a prefix length has that many ones, from the top.
LEMMA MaskBits ==
  ASSUME NEW bits \in 0 .. Width, NEW i \in 0 .. Width - 1
  PROVE  BitOf(Mask(bits), i) = IF i < Width - bits THEN 0 ELSE 1
  <1> DEFINE k == Width - bits
             M == 2^Width
  <1>1. /\ Width \in Nat /\ k \in Nat /\ i \in Nat /\ Width - i - 1 \in Nat
        /\ Width = i + ((Width - i - 1) + 1)
    BY Sizes
  <1>2. PICK p \in Nat \ {0}, r \in Nat \ {0} : p = 2^i /\ r = 2^(Width - i - 1)
    BY <1>1, PowerCounts
  <1>3. M = p * (2 * r)
    <2>1. (Width - i - 1) + 1 \in Nat
      BY <1>1
    <2>2. M = 2^i * 2^((Width - i - 1) + 1)
      BY <1>1, <2>1, PowerSum
    <2>3. 2^((Width - i - 1) + 1) = 2 * r
      BY <1>1, <1>2, PowerStep
    <2>4. QED
      BY <1>2, <2>2, <2>3
  <1>4. BitOf(Mask(bits), i) = ((M - 2^k) \div p) % 2
    BY <1>2, MaskRemainder DEF BitOf
  <1> HIDE DEF M
  <1>5. CASE i < k
    <2>1. k - i - 1 \in Nat /\ (k - i - 1) + 1 \in Nat /\ k = i + ((k - i - 1) + 1)
      BY <1>1, <1>5
    <2> HIDE DEF k
    <2>2. PICK q \in Nat \ {0} : q = 2^(k - i - 1)
      BY <2>1, PowerCounts
    <2>3. 2^k = p * (2 * q)
      <3>1. 2^k = 2^i * 2^((k - i - 1) + 1)
        BY <1>1, <2>1, PowerSum
      <3>2. 2^((k - i - 1) + 1) = 2 * q
        BY <2>1, <2>2, PowerStep
      <3>3. QED
        BY <1>2, <3>1, <3>2
    <2>4. PICK e \in Int : e = r - q
      OBVIOUS
    <2>5. M - 2^k = p * (2 * e) + 0
      BY <1>2, <1>3, <2>2, <2>3, <2>4
    <2>6. PICK x \in Int : x = 2 * e
      OBVIOUS
    <2>7. (p * x + 0) \div p = x
      BY <1>2, DivisionUnique
    <2>8. x % 2 = 0
      BY <2>6
    <2>9. QED
      BY <1>4, <1>5, <2>5, <2>6, <2>7, <2>8 DEF k
  <1>6. CASE ~(i < k)
    <2>1. i - k \in Nat /\ i = k + (i - k)
      BY <1>1, <1>6
    <2> HIDE DEF k
    <2>2. PICK q \in Nat \ {0}, s \in Nat \ {0} : q = 2^(i - k) /\ s = 2^k
      BY <1>1, <2>1, PowerCounts
    <2>3. p = s * q
      BY <1>1, <1>2, <2>1, <2>2, PowerSum
    <2>4. PICK d \in Nat : d = p - s /\ d < p
      <3>1. s <= p
        BY <1>2, <2>2, <2>3
      <3>2. QED
        BY <1>2, <2>2, <3>1
    <2>5. PICK x \in Int : x = 2 * r - 1
      BY <1>2
    <2>6. p * x = p * (2 * r) - p
      BY <1>2, <2>5
    <2>7. PICK w \in Int : w = p * (2 * r)
      BY <1>2
    <2>8. M - 2^k = p * x + d
      BY <1>2, <1>3, <2>2, <2>4, <2>6, <2>7
    <2>9. (p * x + d) \div p = x
      BY <1>2, <2>4, DivisionUnique
    <2>10. x % 2 = 1
      BY <1>2, <2>5
    <2>11. QED
      BY <1>4, <1>6, <2>8, <2>9, <2>10 DEF k
  <1>7. QED
    BY <1>5, <1>6

\* The bits that two numbers have in common with a third decide whether & makes
\* the same of them.
LEMMA SameAnd ==
  ASSUME NEW x, NEW y, NEW m,
         \A i \in 0 .. Width - 1 : /\ BitOf(x, i) \in {0, 1}
                                   /\ BitOf(y, i) \in {0, 1}
                                   /\ BitOf(m, i) \in {0, 1}
  PROVE  BitAnd(x, m) = BitAnd(y, m) <=>
           \A i \in 0 .. Width - 1 : BitOf(x, i) * BitOf(m, i) = BitOf(y, i) * BitOf(m, i)
  <1> DEFINE both(n, i) == BitOf(n, i) * BitOf(m, i)
             Sums(h, n) == h = [i \in 0 .. Width |->
                                  IF i = 0 THEN 0 ELSE h[i - 1] + 2^(i - 1) * both(n, i - 1)]
             and(n) == CHOOSE h : Sums(h, n)
  <1>1. BitAnd(x, m) = and(x)[Width] /\ BitAnd(y, m) = and(y)[Width]
    BY DEF BitAnd
  <1>2. /\ Width \in Nat
        /\ \A i \in 0 .. Width - 1 : both(x, i) \in {0, 1} /\ both(y, i) \in {0, 1}
        /\ \A i \in Nat : 2^i \in Nat \ {0} /\ 2^(i + 1) = 2 * 2^i
    <2>1. \A a, b \in {0, 1} : a * b \in {0, 1}
      OBVIOUS
    <2>2. \A i \in 0 .. Width - 1 : both(x, i) \in {0, 1} /\ both(y, i) \in {0, 1}
      BY <2>1
    <2>3. \A i \in Nat : 2^i \in Nat \ {0} /\ 2^(i + 1) = 2 * 2^i
      BY PowerCounts, PowerStep
    <2>4. QED
      BY <2>2, <2>3, Sizes
  <1> HIDE DEF both
  <1>3. ASSUME NEW n, \A i \in 0 .. Width - 1 : both(n, i) \in {0, 1}
        PROVE  Sums(and(n), n)
    <2> DEFINE step == [z \in Int \X (1 .. Width) |->
                          z[1] + 2^(z[2] - 1) * both(n, z[2] - 1)]
    <2>1. ASSUME NEW a \in Int, NEW i \in 1 .. Width
          PROVE  a + 2^(i - 1) * both(n, i - 1) \in Int
      <3>1. i - 1 \in 0 .. Width - 1 /\ i - 1 \in Nat
        BY <1>2
      <3>2. both(n, i - 1) \in Int /\ 2^(i - 1) \in Int
        BY <1>2, <1>3, <3>1
      <3>3. QED
        BY <3>2
    <2>2. step \in [Int \X (1 .. Width) -> Int]
      BY <2>1
    <2>3. PICK f \in [0 .. Width -> Int] : Iterates(f, Width, 0, step)
      <3> HIDE DEF step
      <3>1. 0 \in Int
        OBVIOUS
      <3>2. QED
        BY <1>2, <2>2, <3>1, RecursionExists
    <2>4. Sums(f, n)
      <3>1. \A i \in 1 .. Width :
              step[<<f[i - 1], i>>] = f[i - 1] + 2^(i - 1) * both(n, i - 1)
        BY <1>2
      <3>2. \A i \in 0 .. Width : i = 0 \/ i \in 1 .. Width
        BY <1>2
      <3> HIDE DEF step
      <3>3. QED
        BY <2>3, <3>1, <3>2 DEF Iterates
    <2>5. QED
      <3> HIDE DEF Sums
      <3>1. QED
        BY <2>4
  <1>4. Sums(and(x), x) /\ Sums(and(y), y)
    <2> HIDE DEF Sums, and
    <2>1. QED
      BY <1>2, <1>3
  <1>5. PICK f, g : f = and(x) /\ g = and(y)
    OBVIOUS
  <1> HIDE DEF and
  <1>6. /\ f[0] = 0 /\ g[0] = 0
        /\ \A i \in 0 .. Width - 1 :
             /\ f[i + 1] = f[i] + 2^i * both(x, i)
             /\ g[i + 1] = g[i] + 2^i * both(y, i)
    BY <1>2, <1>4, <1>5
  <1> DEFINE same(i) == \A j \in 0 .. i - 1 : both(x, j) = both(y, j)
             T == {i \in 0 .. Width : /\ f[i] \in Nat /\ f[i] < 2^i
                                      /\ g[i] \in Nat /\ g[i] < 2^i
                                      /\ f[i] = g[i] <=> same(i)}
  <1>7. 0 \in T
    <2>1. 0 \in 0 .. Width /\ 2^0 \in Nat \ {0} /\ 0 .. 0 - 1 = {}
      BY <1>2
    <2>2. QED
      BY <1>6, <2>1
  <1>8. ASSUME NEW i \in 0 .. Width - 1, i \in T
        PROVE  i + 1 \in T
    <2>1. /\ f[i] \in Nat /\ f[i] < 2^i
          /\ g[i] \in Nat /\ g[i] < 2^i
          /\ f[i] = g[i] <=> same(i)
          /\ i \in Nat /\ i + 1 \in 0 .. Width
      BY <1>2, <1>8
    <2>2. PICK p \in Nat \ {0} : p = 2^i /\ 2^(i + 1) = 2 * p
      BY <1>2, <2>1
    <2>3. PICK a \in {0, 1}, b \in {0, 1} : a = both(x, i) /\ b = both(y, i)
      BY <1>2
    <2>4. PICK u \in Nat, v \in Nat : u = f[i] /\ v = g[i] /\ u < p /\ v < p
      BY <2>1, <2>2
    <2>5. /\ f[i + 1] = u + (IF a = 0 THEN 0 ELSE p)
          /\ g[i + 1] = v + (IF b = 0 THEN 0 ELSE p)
      <3>1. f[i + 1] = u + p * a /\ g[i + 1] = v + p * b
        BY <1>6, <2>2, <2>3, <2>4
      <3>2. \A c \in {0, 1} : p * c = IF c = 0 THEN 0 ELSE p
        OBVIOUS
      <3>3. QED
        BY <3>1, <3>2
    <2>6. /\ f[i + 1] \in Nat /\ f[i + 1] < 2^(i + 1)
          /\ g[i + 1] \in Nat /\ g[i + 1] < 2^(i + 1)
      BY <2>2, <2>4, <2>5
    <2>7. f[i + 1] = g[i + 1] <=> f[i] = g[i] /\ a = b
      BY <2>4, <2>5
    <2>8. same(i + 1) <=> same(i) /\ a = b
      <3>1. \A j : j \in 0 .. (i + 1) - 1 <=> j \in 0 .. i - 1 \/ j = i
        BY <2>1
      <3>2. QED
        BY <2>3, <3>1
    <2>9. QED
      <3> HIDE DEF same
      <3>1. QED
        BY <2>1, <2>6, <2>7, <2>8
  <1>9. Width \in T
    <2> HIDE DEF T
    <2>1. \A i \in 0 .. Width : i \in T
      BY <1>2, <1>7, <1>8, Induction
    <2>2. QED
      BY <1>2, <2>1
  <1>10. QED
    BY <1>1, <1>5, <1>9 DEF both, and

\* The low bits of a number of several octets are those of its last octet.
LEMMA LastOctetBits ==
  ASSUME NEW h \in Nat, NEW octet \in Octet, NEW j \in 0 .. OctetBits - 1
  PROVE  ((2^OctetBits * h + octet) \div 2^j) % 2 = (octet \div 2^j) % 2
  <1>1. /\ OctetBits \in Nat /\ j \in Nat
        /\ OctetBits - j - 1 \in Nat /\ (OctetBits - j - 1) + 1 \in Nat
        /\ OctetBits = j + ((OctetBits - j - 1) + 1)
    BY PolicyEvalAssumption
  <1>2. PICK p \in Nat \ {0}, t \in Nat \ {0} : p = 2^j /\ t = 2^(OctetBits - j - 1)
    BY <1>1, PowerCounts
  <1>3. 2^OctetBits = p * (2 * t)
    <2>1. 2^OctetBits = 2^j * 2^((OctetBits - j - 1) + 1)
      BY <1>1, PowerSum
    <2>2. 2^((OctetBits - j - 1) + 1) = 2 * t
      BY <1>1, <1>2, PowerStep
    <2>3. QED
      BY <1>2, <2>1, <2>2
  <1>4. PICK o \in Nat : o = octet
    BY Sizes DEF Octet
  <1>5. PICK d \in Nat, r \in Nat : d = o \div p /\ r < p /\ o = p * d + r
    BY <1>2, Division
  <1>6. PICK k \in Int : k = t * h
    BY <1>2
  <1>7. PICK e \in Int : e = d + 2 * k
    OBVIOUS
  <1>8. 2^OctetBits * h + octet = p * e + r
    <2>1. (p * (2 * t)) * h = p * (2 * k)
      BY <1>2, <1>6
    <2>2. PICK c \in Int : c = 2 * k /\ e = c + d
      BY <1>7
    <2>3. p * (c + d) = p * c + p * d
      BY <2>2
    <2>4. PICK a \in Int, b \in Int : a = p * c /\ b = p * d
      OBVIOUS
    <2>5. 2^OctetBits * h = a
      BY <1>3, <2>1, <2>2, <2>4
    <2>6. p * e = a + b
      BY <2>2, <2>3, <2>4
    <2>7. octet = b + r
      BY <1>4, <1>5, <2>4
    <2>8. a + (b + r) = (a + b) + r
      OBVIOUS
    <2>9. QED
      BY <2>5, <2>6, <2>7, <2>8, Zenon
  <1>9. (p * e + r) \div p = e
    BY <1>2, <1>5, DivisionUnique
  <1>10. e % 2 = d % 2
    BY <1>7
  <1>11. QED
    BY <1>2, <1>4, <1>5, <1>8, <1>9, <1>10

\* Shifting further than an octet drops the last one.
LEMMA LastOctetDropped ==
  ASSUME NEW h \in Nat, NEW octet \in Octet, NEW j \in Nat
  PROVE  (2^OctetBits * h + octet) \div 2^(OctetBits + j) = h \div 2^j
  <1>1. PICK B \in Nat \ {0}, p \in Nat \ {0}, x \in Nat, o \in Nat :
          /\ B = 2^OctetBits /\ p = 2^j /\ x = B * h + octet
          /\ o = octet /\ o < B
    <2>0. 2^OctetBits \in Nat \ {0} /\ octet \in 0 .. 2^OctetBits - 1
      BY Sizes DEF Octet
    <2>1. 2^OctetBits \in Nat \ {0} /\ 2^j \in Nat \ {0} /\ octet \in Nat /\ octet < 2^OctetBits
      <3>1. 2^j \in Nat \ {0}
        BY PowerCounts
      <3>2. octet \in Nat /\ octet < 2^OctetBits
        BY <2>0
      <3>3. QED
        BY <2>0, <3>1, <3>2
    <2>2. 2^OctetBits * h + octet \in Nat
      BY <2>1
    <2>3. QED
      BY <2>1, <2>2
  <1>2. 2^(OctetBits + j) = B * p
    BY <1>1, PowerSum, PolicyEvalAssumption
  <1>3. x \div (B * p) = (x \div B) \div p
    BY <1>1, DivisionTwice
  <1>4. (B * h + o) \div B = h
    BY <1>1, DivisionUnique
  <1>5. QED
    BY <1>1, <1>2, <1>3, <1>4

\* The bits of an address's value, from the top, are those of its octets in turn.
LEMMA ValueBits ==
  ASSUME NEW ip \in IPv4, NEW q \in 0 .. 3, NEW r \in 0 .. OctetBits - 1
  PROVE  /\ q * OctetBits + r \in 0 .. Width - 1
         /\ Bit(ip, q * OctetBits + r) = (ip[1 + q] \div 2^(OctetBits - 1 - r)) % 2
         /\ (Value(ip) \div 2^(Width - 1 - (q * OctetBits + r))) % 2
              = Bit(ip, q * OctetBits + r)
  <1> DEFINE B == 2^OctetBits
             j == OctetBits - 1 - r
             n == q * OctetBits + r
             two == B * ip[1] + ip[2]
             three == B * two + ip[3]
  <1>1. /\ OctetBits \in Nat \ {0} /\ Width = 4 * OctetBits
        /\ B \in Nat \ {0} /\ Octet \subseteq Nat
        /\ ip[1] \in Octet /\ ip[2] \in Octet /\ ip[3] \in Octet /\ ip[4] \in Octet
    BY Sizes, PolicyEvalAssumption DEF IPv4, Octet
  <1>2. j \in 0 .. OctetBits - 1 /\ j \in Nat
    BY <1>1
  <1>3. n \in 0 .. Width - 1
    BY <1>1
  <1>4. Bit(ip, n) = (ip[1 + q] \div 2^j) % 2
    <2>1. n = OctetBits * q + r /\ r \in Nat /\ r < OctetBits /\ q \in Int
      BY <1>1
    <2>2. n \div OctetBits = q /\ n % OctetBits = r
      BY <1>1, <2>1, DivisionUnique
    <2>3. QED
      BY <2>2 DEF Bit
  <1>5. Value(ip) = B * three + ip[4]
    BY DEF Value
  <1> HIDE DEF B
  <1>6. two \in Nat /\ three \in Nat
    <2>1. \A h \in Nat, o \in Octet : B * h + o \in Nat
      BY <1>1
    <2>2. ip[1] \in Nat
      BY <1>1
    <2>3. two \in Nat
      BY <1>1, <2>1, <2>2
    <2> HIDE DEF two
    <2>4. QED
      BY <1>1, <2>1, <2>3
  <1>7. /\ Width - 1 - n = IF q = 3 THEN j ELSE IF q = 2 THEN OctetBits + j
                           ELSE IF q = 1 THEN OctetBits + (OctetBits + j)
                           ELSE OctetBits + (OctetBits + (OctetBits + j))
        /\ OctetBits + j \in Nat /\ OctetBits + (OctetBits + j) \in Nat
    BY <1>1
  <1> HIDE DEF j, n, two, three
  <1>8. (Value(ip) \div 2^(Width - 1 - n)) % 2 = (ip[1 + q] \div 2^j) % 2
    <2>0. /\ j \in Nat /\ OctetBits + j \in Nat /\ OctetBits + (OctetBits + j) \in Nat
          /\ two \in Nat /\ three \in Nat /\ ip[1] \in Nat
          /\ ip[2] \in Octet /\ ip[3] \in Octet /\ ip[4] \in Octet
      BY <1>1, <1>2, <1>6, <1>7
    <2>1. \A h \in Nat, o \in Octet : ((B * h + o) \div 2^j) % 2 = (o \div 2^j) % 2
      BY <1>2, LastOctetBits DEF B
    <2>2. \A h \in Nat, o \in Octet, i \in Nat : (B * h + o) \div 2^(OctetBits + i) = h \div 2^i
      BY LastOctetDropped DEF B
    <2>3. CASE q = 3
      <3>1. Width - 1 - n = j
        BY <1>7, <2>3
      <3>2. (Value(ip) \div 2^j) % 2 = (ip[4] \div 2^j) % 2
        <4>1. ((B * three + ip[4]) \div 2^j) % 2 = (ip[4] \div 2^j) % 2
          BY <1>1, <1>6, <2>1
        <4>2. QED
          BY <1>5, <4>1, Zenon
      <3>3. QED
        BY <2>3, <3>1, <3>2
    <2>4. CASE q = 2
      <3>1. Value(ip) \div 2^(Width - 1 - n) = three \div 2^j
        <4>1. Width - 1 - n = OctetBits + j
          BY <1>7, <2>4
        <4>2. (B * three + ip[4]) \div 2^(OctetBits + j) = three \div 2^j
          BY <2>0, <2>2, Zenon
        <4>3. QED
          BY <1>5, <4>1, <4>2, Zenon
      <3>2. (three \div 2^j) % 2 = (ip[3] \div 2^j) % 2
        BY <1>1, <1>6, <2>1 DEF three
      <3>3. QED
        BY <2>4, <3>1, <3>2
    <2>5. CASE q = 1
      <3>1. Value(ip) \div 2^(Width - 1 - n) = three \div 2^(OctetBits + j)
        <4>1. Width - 1 - n = OctetBits + (OctetBits + j)
          BY <1>7, <2>5
        <4>2. (B * three + ip[4]) \div 2^(OctetBits + (OctetBits + j))
                = three \div 2^(OctetBits + j)
          BY <2>0, <2>2, Zenon
        <4>3. QED
          BY <1>5, <4>1, <4>2, Zenon
      <3>2. three \div 2^(OctetBits + j) = two \div 2^j
        BY <2>0, <2>2, Zenon DEF three
      <3>3. (two \div 2^j) % 2 = (ip[2] \div 2^j) % 2
        BY <1>1, <2>1 DEF two
      <3>4. QED
        BY <2>5, <3>1, <3>2, <3>3
    <2>6. CASE q = 0
      <3>1. Value(ip) \div 2^(Width - 1 - n) = three \div 2^(OctetBits + (OctetBits + j))
        <4>1. Width - 1 - n = OctetBits + (OctetBits + (OctetBits + j))
          BY <1>7, <2>6
        <4>2. (B * three + ip[4]) \div 2^(OctetBits + (OctetBits + (OctetBits + j)))
                = three \div 2^(OctetBits + (OctetBits + j))
          BY <2>0, <2>2, Zenon
        <4>3. QED
          BY <1>5, <4>1, <4>2, Zenon
      <3>2. three \div 2^(OctetBits + (OctetBits + j)) = two \div 2^(OctetBits + j)
        BY <2>0, <2>2, Zenon DEF three
      <3>3. two \div 2^(OctetBits + j) = ip[1] \div 2^j
        BY <2>0, <2>2, Zenon DEF two
      <3>4. QED
        BY <2>6, <3>1, <3>2, <3>3
    <2>7. QED
      BY <2>3, <2>4, <2>5, <2>6
  <1>9. QED
    BY <1>3, <1>4, <1>8 DEF n, j

\* Two octets with the same bits are the same.
LEMMA OctetsByBits ==
  ASSUME NEW x \in Octet, NEW y \in Octet,
         \A j \in 0 .. OctetBits - 1 : (x \div 2^j) % 2 = (y \div 2^j) % 2
  PROVE  x = y
  <1>1. /\ OctetBits \in Nat
        /\ x \in Nat /\ x < 2^OctetBits
        /\ y \in Nat /\ y < 2^OctetBits
        /\ 2^OctetBits \in Nat \ {0}
    BY Sizes, PolicyEvalAssumption DEF Octet
  <1>2. ASSUME NEW z \in Nat, NEW j \in Nat
        PROVE  z % 2^(j + 1) = (z % 2^j) + 2^j * ((z \div 2^j) % 2)
    <2>1. PICK p \in Nat \ {0} : p = 2^j /\ 2^(j + 1) = p * 2
      <3>1. 2^j \in Nat \ {0}
        BY PowerCounts
      <3>2. 2^(j + 1) = 2 * 2^j
        BY PowerStep
      <3>3. QED
        BY <3>1, <3>2
    <2>2. PICK d \in Nat, r \in Nat : d = z \div p /\ r = z % p /\ r < p /\ z = p * d + r
      BY Division
    <2>3. PICK e \in Nat, b \in {0, 1} : b = d % 2 /\ d = 2 * e + b
      BY Division
    <2>4. PICK s \in Nat : s = p * b + r /\ s < p * 2
      <3>1. p * b <= p
        BY <2>3
      <3>2. p * b \in Nat
        BY <2>3
      <3>3. QED
        BY <2>2, <3>1, <3>2
    <2>5. z = (p * 2) * e + s
      <3>1. PICK c \in Nat : c = 2 * e /\ d = c + b
        BY <2>3
      <3>2. p * (c + b) = p * c + p * b /\ (p * 2) * e = p * c
        BY <3>1
      <3>3. PICK u \in Int, v \in Int : u = p * c /\ v = p * b
        BY <2>3
      <3>4. QED
        BY <2>2, <2>4, <3>1, <3>2, <3>3
    <2>6. PICK m \in Nat \ {0} : m = p * 2
      OBVIOUS
    <2>7. (m * e + s) % m = s
      <3>1. e \in Int /\ s < m
        BY <2>4, <2>6
      <3>2. QED
        BY <3>1, DivisionUnique, Zenon
    <2>8. z % 2^(j + 1) = s
      <3>1. z = m * e + s /\ 2^(j + 1) = m
        BY <2>1, <2>5, <2>6, Zenon
      <3>2. QED
        BY <2>7, <3>1, Zenon
    <2>9. (z % 2^j) + 2^j * ((z \div 2^j) % 2) = r + p * b
      BY <2>1, <2>2, <2>3, Zenon
    <2>10. QED
      BY <2>4, <2>8, <2>9
  <1> DEFINE T == {j \in 0 .. OctetBits : x % 2^j = y % 2^j}
  <1>3. 0 \in T
    <2>1. 2^0 = 1 /\ x % 1 = 0 /\ y % 1 = 0 /\ 0 \in 0 .. OctetBits
      BY <1>1
    <2>2. QED
      BY <2>1
  <1>4. ASSUME NEW j \in 0 .. OctetBits - 1, j \in T
        PROVE  j + 1 \in T
    <2>1. j \in Nat /\ j + 1 \in 0 .. OctetBits /\ x % 2^j = y % 2^j
      BY <1>1, <1>4
    <2>2. (x \div 2^j) % 2 = (y \div 2^j) % 2
      OBVIOUS
    <2>3. /\ x % 2^(j + 1) = (x % 2^j) + 2^j * ((x \div 2^j) % 2)
          /\ y % 2^(j + 1) = (y % 2^j) + 2^j * ((y \div 2^j) % 2)
      BY <1>1, <1>2, <2>1, Zenon
    <2>4. x % 2^(j + 1) = y % 2^(j + 1)
      BY <2>1, <2>2, <2>3, Zenon
    <2>5. QED
      BY <2>1, <2>4
  <1>5. x % 2^OctetBits = y % 2^OctetBits
    <2> HIDE DEF T
    <2>1. \A j \in 0 .. OctetBits : j \in T
      BY <1>1, <1>3, <1>4, Induction
    <2>2. OctetBits \in T
      BY <1>1, <2>1
    <2>3. QED
      BY <2>2 DEF T
  <1>6. \A z \in Nat : z < 2^OctetBits => z % 2^OctetBits = z
    <2>1. PICK B \in Nat \ {0} : B = 2^OctetBits
      BY <1>1
    <2>2. ASSUME NEW z \in Nat, z < B
          PROVE  z % B = z
      <3>1. (B * 0 + z) % B = z
        BY <2>2, DivisionUnique
      <3>2. B * 0 + z = z
        OBVIOUS
      <3>3. QED
        BY <3>1, <3>2
    <2>3. QED
      BY <2>1, <2>2
  <1>7. QED
    BY <1>1, <1>5, <1>6

\* A range without a prefix length is met by its own address, which is to agree
\* with it in every bit.
LEMMA AddressesByBits ==
  ASSUME NEW ip \in IPv4, NEW range \in IPv4,
         \A n \in 0 .. Width - 1 : Bit(ip, n) = Bit(range, n)
  PROVE  ip = range
  <1>1. OctetBits \in Nat \ {0}
    BY PolicyEvalAssumption
  <1>2. ASSUME NEW i \in 1 .. 4
        PROVE  ip[i] = range[i]
    <2>1. PICK q \in 0 .. 3 : i = 1 + q
      BY <1>2
    <2>2. ip[i] \in Octet /\ range[i] \in Octet
      BY <1>2 DEF IPv4
    <2>3. ASSUME NEW j \in 0 .. OctetBits - 1
          PROVE  (ip[i] \div 2^j) % 2 = (range[i] \div 2^j) % 2
      <3>1. PICK r \in 0 .. OctetBits - 1 : j = OctetBits - 1 - r
        <4>1. OctetBits - 1 - j \in 0 .. OctetBits - 1
          BY <1>1
        <4>2. j = OctetBits - 1 - (OctetBits - 1 - j)
          BY <1>1
        <4>3. QED
          BY <4>1, <4>2
      <3>2. PICK n \in 0 .. Width - 1 : n = q * OctetBits + r
        BY ValueBits
      <3>3. /\ Bit(ip, n) = (ip[i] \div 2^j) % 2
            /\ Bit(range, n) = (range[i] \div 2^j) % 2
        BY <2>1, <3>1, <3>2, ValueBits
      <3>4. QED
        BY <3>3
    <2>4. QED
      BY <2>2, <2>3, OctetsByBits
  <1>3. QED
    BY <1>2 DEF IPv4

\* isIpInRange is agreement in the first bits, as many as the prefix length says.
LEMMA InRangeByPrefix ==
  ASSUME NEW ip \in IPv4, NEW cidr \in Cidr
  PROVE  IsIpInRange(ip, cidr) <=>
           \A n \in 0 .. (IF cidr.bits = None THEN Width ELSE cidr.bits) - 1 :
             Bit(ip, n) = Bit(cidr.range, n)
  <1>1. cidr.range \in IPv4 /\ cidr.bits \in 0 .. Width \cup {None}
    BY DEF Cidr
  <1>2. CASE cidr.bits = None
    BY <1>1, <1>2, AddressesByBits DEF IsIpInRange
  <1>3. CASE cidr.bits # None
    <2> DEFINE x == IpToNum(ip)
               y == IpToNum(cidr.range)
               m == Mask(cidr.bits)
    <2>1. PICK bits \in 0 .. Width : bits = cidr.bits
      BY <1>1, <1>3
    <2>2. x \in Int /\ y \in Int /\ NaN \notin Int
      BY <1>1, IpToNumSameBits, PolicyEvalAssumption
    <2>3. IsIpInRange(ip, cidr) <=> BitAnd(x, m) = BitAnd(y, m)
      BY <1>3, <2>2 DEF IsIpInRange, Number
    <2>4. /\ \A i : BitOf(x, i) = (Value(ip) \div 2^i) % 2
          /\ \A i : BitOf(y, i) = (Value(cidr.range) \div 2^i) % 2
          /\ \A i \in 0 .. Width - 1 : BitOf(m, i) = IF i < Width - bits THEN 0 ELSE 1
      BY <1>1, <2>1, AddressBits, MaskBits
    <2> HIDE DEF x, y, m
    <2>5. ASSUME NEW i \in 0 .. Width - 1
          PROVE  BitOf(x, i) \in {0, 1} /\ BitOf(y, i) \in {0, 1} /\ BitOf(m, i) \in {0, 1}
      <3>1. 2^i \in Nat \ {0} /\ Value(ip) \in Nat /\ Value(cidr.range) \in Nat
        <4>1. i \in Nat
          BY Sizes
        <4>2. 2^i \in Nat \ {0}
          BY <4>1, PowerCounts
        <4>3. Value(ip) \in 0 .. 2^Width - 1 /\ Value(cidr.range) \in 0 .. 2^Width - 1
          BY <1>1, IpToNumSameBits
        <4>4. QED
          BY <4>2, <4>3, Sizes
      <3>2. PICK a \in Nat, b \in Nat :
              a = Value(ip) \div 2^i /\ b = Value(cidr.range) \div 2^i
        BY <3>1, Division
      <3>3. QED
        BY <2>4, <3>2
    <2>6. BitAnd(x, m) = BitAnd(y, m) <=>
            \A i \in 0 .. Width - 1 : i >= Width - bits => BitOf(x, i) = BitOf(y, i)
      <3>1. BitAnd(x, m) = BitAnd(y, m) <=>
              \A i \in 0 .. Width - 1 : BitOf(x, i) * BitOf(m, i) = BitOf(y, i) * BitOf(m, i)
        BY <2>5, SameAnd
      <3>2. ASSUME NEW i \in 0 .. Width - 1
            PROVE  BitOf(x, i) * BitOf(m, i) = BitOf(y, i) * BitOf(m, i)
                     <=> (i >= Width - bits => BitOf(x, i) = BitOf(y, i))
        <4>1. PICK a \in {0, 1}, b \in {0, 1} : a = BitOf(x, i) /\ b = BitOf(y, i)
          BY <2>5
        <4>2. BitOf(m, i) = IF i < Width - bits THEN 0 ELSE 1
          BY <2>4
        <4>3. QED
          BY <4>1, <4>2, Sizes
      <3>3. QED
        BY <3>1, <3>2
    <2>7. ASSUME NEW n \in 0 .. Width - 1
          PROVE  /\ BitOf(x, Width - 1 - n) = Bit(ip, n)
                 /\ BitOf(y, Width - 1 - n) = Bit(cidr.range, n)
      <3>1. PICK q \in 0 .. 3, r \in 0 .. OctetBits - 1 : n = q * OctetBits + r
        <4>1. PICK B \in Nat \ {0} : B = OctetBits /\ Width = 4 * B
          BY PolicyEvalAssumption DEF Width
        <4>2. PICK q \in Nat, r \in Nat : r < B /\ n = B * q + r
          <5>1. n \in Nat
            BY Sizes
          <5>2. n \div B \in Nat /\ n % B \in Nat /\ n % B < B /\ n = B * (n \div B) + (n % B)
            BY <5>1, Division
          <5>3. QED
            BY <5>2
        <4>3. q \in 0 .. 3 /\ r \in 0 .. OctetBits - 1
          BY <4>1, <4>2
        <4>4. QED
          BY <4>1, <4>2, <4>3
      <3>2. /\ (Value(ip) \div 2^(Width - 1 - n)) % 2 = Bit(ip, n)
            /\ (Value(cidr.range) \div 2^(Width - 1 - n)) % 2 = Bit(cidr.range, n)
        BY <1>1, <3>1, ValueBits
      <3>3. QED
        BY <2>4, <3>2
    <2>8. (\A i \in 0 .. Width - 1 : i >= Width - bits => BitOf(x, i) = BitOf(y, i))
            <=> \A n \in 0 .. bits - 1 : Bit(ip, n) = Bit(cidr.range, n)
      <3>1. \A n \in 0 .. bits - 1 :
              /\ n \in 0 .. Width - 1
              /\ Width - 1 - n \in 0 .. Width - 1
              /\ Width - 1 - n >= Width - bits
        BY Sizes
      <3>2. \A i \in 0 .. Width - 1 : i >= Width - bits =>
              /\ Width - 1 - i \in 0 .. bits - 1
              /\ Width - 1 - i \in 0 .. Width - 1
              /\ i = Width - 1 - (Width - 1 - i)
        BY Sizes
      <3>3. QED
        BY <2>7, <3>1, <3>2
    <2>9. QED
      BY <1>3, <2>1, <2>3, <2>6, <2>8
  <1>4. QED
    BY <1>2, <1>3

\* isIpTrusted means what prefix lengths mean: an address is trusted when an enabled
\* trusted zone has a range whose first bits are the address's, whatever the sign
\* that ~, << and & see in the first octet.
THEOREM TrustedAlwaysByPrefix == Spec => []TrustedByPrefix
  <1>1. TablesFinite => TrustedByPrefix
    <2> SUFFICES ASSUME TablesFinite, NEW ip \in IPv4
                 PROVE  IsIpTrusted(ip) <=>
                          \E z \in zone : z.trusted /\ z.enabled /\
                            \E cidr \in z.ipRanges :
                              \A n \in 0 .. (IF cidr.bits = None THEN Width
                                                                 ELSE cidr.bits) - 1 :
                                Bit(ip, n) = Bit(cidr.range, n)
      BY DEF TrustedByPrefix
    <2>1. \A z \in zone : z.ipRanges \subseteq Cidr
      BY DEF TablesFinite, TypeOK
    <2>2. \A z \in zone : \A cidr \in z.ipRanges :
            IsIpInRange(ip, cidr) <=>
              \A n \in 0 .. (IF cidr.bits = None THEN Width ELSE cidr.bits) - 1 :
                Bit(ip, n) = Bit(cidr.range, n)
      BY <2>1, InRangeByPrefix
    <2>3. QED
      BY <2>2 DEF IsIpTrusted
  <1>2. QED
    BY <1>1, TablesStayFinite, PTL

------------------------------------------------------------------------------
(* The patterns of matchesResource *)

\* How the pattern from its i-th character on is laid over the resource from its
\* j-th on: character k stands for the text from pos[k] up to pos[k + 1].
Spelling(resource, pattern, i, j) ==
  {pos \in [i .. Len(pattern) + 1 -> 1 .. Len(resource) + 1] :
     /\ pos[i] = j
     /\ pos[Len(pattern) + 1] = Len(resource) + 1
     /\ \A k \in i .. Len(pattern) :
          IF pattern[k] = "*" THEN pos[k] <= pos[k + 1]
          ELSE pos[k + 1] = pos[k] + 1 /\ pattern[k] = resource[pos[k]]}

\* Whether there is such a layout satisfies the equations of matchesResource.
LEMMA SpellingEquations ==
  ASSUME NEW Char, NEW resource \in Seq(Char), NEW pattern \in Seq(Char),
         NEW i \in 1 .. Len(pattern) + 1, NEW j \in 1 .. Len(resource) + 1
  PROVE  Spelling(resource, pattern, i, j) # {} <=>
           IF i > Len(pattern) THEN j > Len(resource)
           ELSE IF pattern[i] = "*"
             THEN \/ Spelling(resource, pattern, i + 1, j) # {}
                  \/ j <= Len(resource) /\ Spelling(resource, pattern, i, j + 1) # {}
             ELSE /\ j <= Len(resource)
                  /\ pattern[i] = resource[j]
                  /\ Spelling(resource, pattern, i + 1, j + 1) # {}
  <1> DEFINE n == Len(pattern)
             m == Len(resource)
             S(a, b) == Spelling(resource, pattern, a, b)
             Step(pos, k) == IF pattern[k] = "*" THEN pos[k] <= pos[k + 1]
                             ELSE pos[k + 1] = pos[k] + 1 /\ pattern[k] = resource[pos[k]]
  <1>1. n \in Nat /\ m \in Nat /\ i \in 1 .. n + 1 /\ j \in 1 .. m + 1
    OBVIOUS
  <1>2. \A a, b, pos : pos \in S(a, b) <=>
          /\ pos \in [a .. n + 1 -> 1 .. m + 1]
          /\ pos[a] = b /\ pos[n + 1] = m + 1
          /\ \A k \in a .. n : Step(pos, k)
    BY DEF Spelling
  <1> HIDE DEF n, m, S
  <1>3. CASE i > n
    <2>1. i = n + 1
      BY <1>1, <1>3
    <2>2. ASSUME NEW pos \in S(i, j)
          PROVE  j > m
      BY <1>1, <1>2, <2>1, <2>2
    <2>3. ASSUME j > m
          PROVE  S(i, j) # {}
      <3>1. j = m + 1
        BY <1>1, <2>3
      <3> DEFINE p == [k \in i .. n + 1 |-> m + 1]
      <3>2. p \in [i .. n + 1 -> 1 .. m + 1] /\ p[i] = j /\ p[n + 1] = m + 1
        BY <1>1, <2>1, <3>1
      <3>3. i .. n = {}
        BY <1>1, <1>3
      <3> HIDE DEF p
      <3>4. p \in S(i, j)
        BY <1>2, <3>2, <3>3
      <3>5. QED
        BY <3>4
    <2>4. QED
      BY <1>3, <2>2, <2>3 DEF S, n, m
  \* a layout of the rest, with the i-th character put in front
  <1>4. ASSUME i <= n, NEW b \in 1 .. m + 1, NEW pos \in S(i + 1, b),
               IF pattern[i] = "*" THEN j <= b ELSE b = j + 1 /\ pattern[i] = resource[j]
        PROVE  S(i, j) # {}
    <2> DEFINE p == [k \in i .. n + 1 |-> IF k = i THEN j ELSE pos[k]]
    <2>1. /\ pos \in [i + 1 .. n + 1 -> 1 .. m + 1]
          /\ pos[i + 1] = b /\ pos[n + 1] = m + 1
          /\ \A k \in i + 1 .. n : Step(pos, k)
      BY <1>2, <1>4
    <2>2. p \in [i .. n + 1 -> 1 .. m + 1] /\ p[i] = j /\ p[n + 1] = m + 1
      BY <1>1, <1>4, <2>1
    <2>3. ASSUME NEW k \in i .. n
          PROVE  Step(p, k)
      <3>1. k + 1 \in i .. n + 1 /\ p[k + 1] = pos[k + 1]
        BY <1>1
      <3>2. CASE k = i
        BY <1>4, <2>1, <2>2, <3>1, <3>2
      <3>3. CASE k \in i + 1 .. n
        <4>1. p[k] = pos[k]
          BY <1>1, <3>3
        <4>2. QED
          BY <2>1, <3>1, <3>3, <4>1
      <3>4. QED
        BY <1>1, <3>2, <3>3
    <2> HIDE DEF p
    <2>4. p \in S(i, j)
      BY <1>2, <2>2, <2>3
    <2>5. QED
      BY <2>4
  \* a layout without its first character
  <1>5. ASSUME i <= n, NEW pos \in S(i, j)
        PROVE  /\ pos[i + 1] \in 1 .. m + 1
               /\ S(i + 1, pos[i + 1]) # {}
               /\ Step(pos, i)
               /\ pos[i] = j
    <2> DEFINE p == [k \in i + 1 .. n + 1 |-> pos[k]]
    <2>1. /\ pos \in [i .. n + 1 -> 1 .. m + 1]
          /\ pos[i] = j /\ pos[n + 1] = m + 1
          /\ \A k \in i .. n : Step(pos, k)
      BY <1>2, <1>5
    <2>2. /\ p \in [i + 1 .. n + 1 -> 1 .. m + 1]
          /\ p[i + 1] = pos[i + 1] /\ p[n + 1] = m + 1
      BY <1>1, <1>5, <2>1
    <2>3. ASSUME NEW k \in i + 1 .. n
          PROVE  Step(p, k)
      <3>1. k \in i .. n /\ p[k] = pos[k] /\ p[k + 1] = pos[k + 1]
        BY <1>1
      <3>2. QED
        BY <2>1, <3>1
    <2> HIDE DEF p
    <2>4. p \in S(i + 1, pos[i + 1])
      BY <1>2, <2>2, <2>3
    <2>5. pos[i + 1] \in 1 .. m + 1 /\ Step(pos, i)
      BY <1>1, <1>5, <2>1
    <2>6. QED
      BY <2>1, <2>4, <2>5
  <1>6. CASE i <= n /\ pattern[i] = "*"
    <2>1. ASSUME NEW pos \in S(i, j)
          PROVE  S(i + 1, j) # {} \/ (j <= m /\ S(i, j + 1) # {})
      <3>1. /\ pos[i + 1] \in 1 .. m + 1 /\ S(i + 1, pos[i + 1]) # {}
            /\ j <= pos[i + 1]
        BY <1>5, <1>6
      <3>2. CASE pos[i + 1] = j
        BY <3>1, <3>2
      <3>3. CASE pos[i + 1] > j
        <4>1. j + 1 \in 1 .. m + 1 /\ j + 1 <= pos[i + 1] /\ j <= m
          BY <1>1, <3>1, <3>3
        <4> DEFINE p == [pos EXCEPT ![i] = j + 1]
        <4>2. /\ pos \in [i .. n + 1 -> 1 .. m + 1]
              /\ pos[n + 1] = m + 1
              /\ \A k \in i .. n : Step(pos, k)
          BY <1>2, <2>1
        <4>3. p \in [i .. n + 1 -> 1 .. m + 1] /\ p[i] = j + 1 /\ p[n + 1] = m + 1
          BY <1>1, <1>6, <4>1, <4>2
        <4>4. ASSUME NEW k \in i .. n
              PROVE  Step(p, k)
          <5>1. p[k + 1] = pos[k + 1]
            BY <1>1, <4>2
          <5>2. CASE k = i
            BY <1>6, <4>1, <4>3, <5>1, <5>2
          <5>3. CASE k # i
            <6>1. p[k] = pos[k]
              BY <1>1, <4>2, <5>3
            <6>2. QED
              BY <4>2, <5>1, <6>1
          <5>4. QED
            BY <5>2, <5>3
        <4> HIDE DEF p
        <4>5. p \in S(i, j + 1)
          BY <1>2, <4>3, <4>4
        <4>6. QED
          BY <4>1, <4>5
      <3>4. QED
        BY <1>1, <3>1, <3>2, <3>3
    <2>2. ASSUME S(i + 1, j) # {}
          PROVE  S(i, j) # {}
      <3>1. j <= j
        BY <1>1
      <3>2. QED
        BY <1>1, <1>4, <1>6, <2>2, <3>1
    <2>3. ASSUME j <= m, NEW pos \in S(i, j + 1)
          PROVE  S(i, j) # {}
      <3> DEFINE p == [pos EXCEPT ![i] = j]
      <3>1. /\ pos \in [i .. n + 1 -> 1 .. m + 1]
            /\ pos[i] = j + 1 /\ pos[n + 1] = m + 1
            /\ \A k \in i .. n : Step(pos, k)
        BY <1>2, <2>3
      <3>2. p \in [i .. n + 1 -> 1 .. m + 1] /\ p[i] = j /\ p[n + 1] = m + 1
        BY <1>1, <1>6, <3>1
      <3>3. ASSUME NEW k \in i .. n
            PROVE  Step(p, k)
        <4>1. p[k + 1] = pos[k + 1]
          BY <1>1, <3>1
        <4>2. CASE k = i
          <5>1. j + 1 <= pos[i + 1] /\ pos[i + 1] \in 1 .. m + 1
            BY <1>1, <1>6, <3>1, <4>2
          <5>2. p[k] <= p[k + 1]
            BY <1>1, <3>2, <4>1, <4>2, <5>1
          <5>3. QED
            BY <1>6, <4>2, <5>2
        <4>3. CASE k # i
          <5>1. p[k] = pos[k]
            BY <1>1, <3>1, <4>3
          <5>2. QED
            BY <3>1, <4>1, <5>1
        <4>4. QED
          BY <4>2, <4>3
      <3> HIDE DEF p
      <3>4. p \in S(i, j)
        BY <1>2, <3>2, <3>3
      <3>5. QED
        BY <3>4
    <2>4. QED
      BY <1>1, <1>6, <2>1, <2>2, <2>3 DEF S, n, m
  <1>7. CASE i <= n /\ pattern[i] # "*"
    <2>1. ASSUME NEW pos \in S(i, j)
          PROVE  j <= m /\ pattern[i] = resource[j] /\ S(i + 1, j + 1) # {}
      <3>1. /\ pos[i + 1] \in 1 .. m + 1 /\ S(i + 1, pos[i + 1]) # {}
            /\ pos[i + 1] = j + 1 /\ pattern[i] = resource[j]
        BY <1>5, <1>7
      <3>2. QED
        BY <1>1, <3>1
    <2>2. ASSUME j <= m, pattern[i] = resource[j], NEW pos \in S(i + 1, j + 1)
          PROVE  S(i, j) # {}
      <3>1. j + 1 \in 1 .. m + 1
        BY <1>1, <2>2
      <3>2. QED
        BY <1>4, <1>7, <2>2, <3>1
    <2>3. QED
      BY <1>1, <1>7, <2>1, <2>2 DEF S, n, m
  <1>8. QED
    BY <1>1, <1>3, <1>6, <1>7

\* One equation of matchesResource, for a table of its answers.
Equation(resource, pattern, rest, i, j) ==
  IF i > Len(pattern) THEN j > Len(resource)
  ELSE IF pattern[i] = "*"
    THEN rest[<<i + 1, j>>] \/ (j <= Len(resource) /\ rest[<<i, j + 1>>])
    ELSE j <= Len(resource) /\ pattern[i] = resource[j] /\ rest[<<i + 1, j + 1>>]

\* A table of answers that satisfies every equation.
Solves(resource, pattern, rest) ==
  \A i \in 1 .. Len(pattern) + 1, j \in 1 .. Len(resource) + 1 :
    rest[<<i, j>>] = Equation(resource, pattern, rest, i, j)

\* Induction over what is left of two texts, for a set of pairs of places in them.
LEMMA PlacesInduction ==
  ASSUME NEW n \in Nat, NEW m \in Nat, NEW P,
         \A i \in 1 .. n + 1, j \in 1 .. m + 1 :
           (\A a \in i .. n + 1, b \in j .. m + 1 : a + b > i + j => <<a, b>> \in P)
             => <<i, j>> \in P
  PROVE  \A i \in 1 .. n + 1, j \in 1 .. m + 1 : <<i, j>> \in P
  <1> DEFINE T == {k \in Nat : \A i \in 1 .. n + 1, j \in 1 .. m + 1 :
                                 n + m + 2 - i - j <= k => <<i, j>> \in P}
  <1>1. ASSUME NEW i \in 1 .. n + 1, NEW j \in 1 .. m + 1, n + m + 2 - i - j <= 0
        PROVE  <<i, j>> \in P
    <2>1. \A a \in i .. n + 1, b \in j .. m + 1 : ~(a + b > i + j)
      BY <1>1
    <2>2. QED
      BY <2>1
  <1>2. ASSUME NEW k \in Nat, k \in T,
               NEW i \in 1 .. n + 1, NEW j \in 1 .. m + 1, n + m + 2 - i - j <= k + 1
        PROVE  <<i, j>> \in P
    <2>1. ASSUME NEW a \in i .. n + 1, NEW b \in j .. m + 1, a + b > i + j
          PROVE  <<a, b>> \in P
      <3>1. a \in 1 .. n + 1 /\ b \in 1 .. m + 1 /\ n + m + 2 - a - b <= k
        BY <1>2, <2>1
      <3>2. QED
        BY <1>2, <3>1
    <2>2. QED
      BY <2>1
  <1>3. 0 \in T /\ \A k \in 0 .. n + m - 1 : k \in T => k + 1 \in T
    <2>1. 0 \in T
      BY <1>1
    <2>2. ASSUME NEW k \in 0 .. n + m - 1, k \in T
          PROVE  k + 1 \in T
      <3>1. k \in Nat /\ k + 1 \in Nat
        OBVIOUS
      <3>2. \A i \in 1 .. n + 1, j \in 1 .. m + 1 :
              n + m + 2 - i - j <= k + 1 => <<i, j>> \in P
        BY <1>2, <2>2, <3>1
      <3>3. QED
        BY <3>1, <3>2
    <2>3. QED
      BY <2>1, <2>2
  <1>4. n + m \in T
    <2>1. n + m \in Nat /\ n + m \in 0 .. n + m
      OBVIOUS
    <2> HIDE DEF T
    <2>2. QED
      BY <1>3, <2>1, Induction
  <1>5. \A i \in 1 .. n + 1, j \in 1 .. m + 1 : n + m + 2 - i - j <= n + m
    OBVIOUS
  <1>6. \A i \in 1 .. n + 1, j \in 1 .. m + 1 :
          n + m + 2 - i - j <= n + m => <<i, j>> \in P
    BY <1>4
  <1>7. QED
    BY <1>5, <1>6

\* The equations have one solution.
LEMMA EquationsDecide ==
  ASSUME NEW Char, NEW resource \in Seq(Char), NEW pattern \in Seq(Char),
         NEW f, NEW g, Solves(resource, pattern, f), Solves(resource, pattern, g)
  PROVE  f[<<1, 1>>] = g[<<1, 1>>]
  <1> DEFINE n == Len(pattern)
             m == Len(resource)
             P == {p \in Int \X Int : f[p] = g[p]}
  <1>1. n \in Nat /\ m \in Nat
    OBVIOUS
  <1>2. \A i, j \in Int : <<i, j>> \in P <=> f[<<i, j>>] = g[<<i, j>>]
    BY Zenon
  <1>3. ASSUME NEW i \in 1 .. n + 1, NEW j \in 1 .. m + 1
        PROVE  /\ f[<<i, j>>] = Equation(resource, pattern, f, i, j)
               /\ g[<<i, j>>] = Equation(resource, pattern, g, i, j)
    BY Zenon DEF Solves
  <1> HIDE DEF P
  <1>4. ASSUME NEW i \in 1 .. n + 1, NEW j \in 1 .. m + 1,
               \A a \in i .. n + 1, b \in j .. m + 1 : a + b > i + j => <<a, b>> \in P
        PROVE  <<i, j>> \in P
    <2>1. /\ ~(i > n) => <<i + 1, j>> \in P
          /\ j <= m => <<i, j + 1>> \in P
          /\ ~(i > n) /\ j <= m => <<i + 1, j + 1>> \in P
      <3>1. i + 1 > i /\ (i + 1) + j > i + j /\ i + (j + 1) > i + j
             /\ (i + 1) + (j + 1) > i + j
        BY <1>1
      <3>2. i \in i .. n + 1 /\ j \in j .. m + 1
        BY <1>1
      <3>3. ~(i > n) => i + 1 \in i .. n + 1
        BY <1>1
      <3>4. j <= m => j + 1 \in j .. m + 1
        BY <1>1
      <3>5. QED
        BY <1>4, <3>1, <3>2, <3>3, <3>4, Zenon
    <2>2. i \in Int /\ j \in Int /\ i + 1 \in Int /\ j + 1 \in Int
      BY <1>1
    <2>3. /\ ~(i > n) => f[<<i + 1, j>>] = g[<<i + 1, j>>]
          /\ j <= m => f[<<i, j + 1>>] = g[<<i, j + 1>>]
          /\ ~(i > n) /\ j <= m => f[<<i + 1, j + 1>>] = g[<<i + 1, j + 1>>]
      BY <1>2, <2>1, <2>2, Zenon
    <2>4. Equation(resource, pattern, f, i, j) = Equation(resource, pattern, g, i, j)
      <3>1. CASE i > n
        BY <3>1, Zenon DEF Equation
      <3>2. CASE ~(i > n) /\ pattern[i] = "*" /\ j <= m
        BY <2>3, <3>2, Zenon DEF Equation
      <3>3. CASE ~(i > n) /\ pattern[i] = "*" /\ ~(j <= m)
        BY <2>3, <3>3, Zenon DEF Equation
      <3>4. CASE ~(i > n) /\ pattern[i] # "*" /\ j <= m
        BY <2>3, <3>4, Zenon DEF Equation
      <3>5. CASE ~(i > n) /\ pattern[i] # "*" /\ ~(j <= m)
        BY <3>5, Zenon DEF Equation
      <3>6. QED
        BY <3>1, <3>2, <3>3, <3>4, <3>5, Zenon
    <2>5. f[<<i, j>>] = g[<<i, j>>]
      BY <1>3, <2>4, Zenon
    <2>6. QED
      BY <1>2, <2>2, <2>5, Zenon
  <1>5. \A i \in 1 .. n + 1, j \in 1 .. m + 1 : <<i, j>> \in P
    <2> HIDE DEF n, m
    <2>1. QED
      BY <1>1, <1>4, PlacesInduction, Zenon
  <1>6. 1 \in 1 .. n + 1 /\ 1 \in 1 .. m + 1 /\ 1 \in Int
    BY <1>1
  <1>7. QED
    BY <1>2, <1>5, <1>6, Zenon

\* matchesResource means what a pattern means: it answers yes just when the pattern
\* can be laid over the whole resource, a star over any text, the empty one too, and
\* every other character over itself, for texts of any length.
THEOREM ResourceMatchesBySpelling ==
  ASSUME NEW Char, NEW resource \in Seq(Char), NEW pattern \in Seq(Char)
  PROVE  MatchesResource(resource, pattern) <=> Spelling(resource, pattern, 1, 1) # {}
  <1> DEFINE I == 1 .. Len(pattern) + 1
             J == 1 .. Len(resource) + 1
             IsRest(rest) == rest = [p \in I \X J |-> Equation(resource, pattern, rest, p[1], p[2])]
             g == [p \in I \X J |-> Spelling(resource, pattern, p[1], p[2]) # {}]
             f == CHOOSE rest : IsRest(rest)
  <1>1. \A i \in I, j \in J : g[<<i, j>>] = (Spelling(resource, pattern, i, j) # {})
    BY Zenon
  <1>2. ASSUME NEW i \in I, NEW j \in J
        PROVE  (Spelling(resource, pattern, i, j) # {}) = Equation(resource, pattern, g, i, j)
    <2>1. /\ ~(i > Len(pattern)) => i + 1 \in I
          /\ j <= Len(resource) => j + 1 \in J
      <3> HIDE DEF g
      <3>1. QED
        OBVIOUS
    <2>2. Spelling(resource, pattern, i, j) # {} <=>
            IF i > Len(pattern) THEN j > Len(resource)
            ELSE IF pattern[i] = "*"
              THEN \/ Spelling(resource, pattern, i + 1, j) # {}
                   \/ j <= Len(resource) /\ Spelling(resource, pattern, i, j + 1) # {}
              ELSE /\ j <= Len(resource)
                   /\ pattern[i] = resource[j]
                   /\ Spelling(resource, pattern, i + 1, j + 1) # {}
      BY SpellingEquations, Zenon
    <2>3. Equation(resource, pattern, g, i, j) <=> Spelling(resource, pattern, i, j) # {}
      <3> HIDE DEF g, I, J
      <3>1. QED
        BY <1>1, <1>2, <2>1, <2>2, Zenon DEF Equation
    <2>4. Equation(resource, pattern, g, i, j) \in BOOLEAN
      <3> HIDE DEF g, I, J
      <3>1. CASE i > Len(pattern)
        BY <3>1 DEF Equation
      <3>2. CASE ~(i > Len(pattern)) /\ pattern[i] = "*"
        <4>1. g[<<i + 1, j>>] \in BOOLEAN
          BY <1>1, <1>2, <2>1, <3>2, Zenon
        <4>2. QED
          BY <3>2, <4>1, Zenon DEF Equation
      <3>3. CASE ~(i > Len(pattern)) /\ pattern[i] # "*"
        BY <3>3, Zenon DEF Equation
      <3>4. QED
        BY <3>1, <3>2, <3>3, Zenon
    <2>5. QED
      BY <2>3, <2>4, Zenon
  <1>3. IsRest(g)
    BY <1>2, Zenon
  <1>4. IsRest(f)
    <2> HIDE DEF g, IsRest
    <2>1. QED
      BY <1>3, Zenon
  <1>5. ASSUME NEW rest, IsRest(rest)
        PROVE  Solves(resource, pattern, rest)
    BY <1>5, Zenon DEF Solves
  <1>6. f[<<1, 1>>] = g[<<1, 1>>]
    <2> HIDE DEF f, g, IsRest
    <2>1. QED
      BY <1>3, <1>4, <1>5, EquationsDecide, Zenon
  <1>7. MatchesResource(resource, pattern) = f[<<1, 1>>]
    BY DEF MatchesResource, Equation
  <1>8. 1 \in I /\ 1 \in J
    <2> HIDE DEF f, g
    <2>1. QED
      OBVIOUS
  <1> HIDE DEF f, g, I, J
  <1>9. QED
    BY <1>1, <1>6, <1>7, <1>8, Zenon
=============================================================================
