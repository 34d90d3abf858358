------------------------------ MODULE PolicyEval ------------------------------
(***************************************************************************)
(* policy.service: the tables of policies and network zones as the         *)
(* endpoints fill them, and what evaluate and isIpTrusted make of them.    *)
(* Both read their table in one statement and are pure from there on, so   *)
(* they are operators here; the properties compare them, in every state    *)
(* the tables can be in, with definitions that know neither the order of   *)
(* the rows nor how a 32-bit number is masked.                             *)
(*                                                                         *)
(* Text is a sequence of characters for resources and patterns, an IPv4    *)
(* address a sequence of four octets; an octet has OctetBits bits, and so  *)
(* a number 4 * OctetBits, where JavaScript's bit operators have 32.       *)
(***************************************************************************)
EXTENDS Integers, Sequences, FiniteSets, SequencesExt

CONSTANTS
  Policies,     \* the rows the endpoints may write
  Zones,        \* likewise; nothing disables a zone
  MaxRows,      \* bound on the rows of both tables together
  Queries,      \* what is asked of evaluate
  OctetBits,
  None, NaN

ASSUME PolicyEvalAssumption ==
  /\ OctetBits \in Nat \ {0}
  /\ MaxRows \in Nat
  /\ None \notin Policies \cup Int
  /\ NaN \notin Int

\* The columns' types, and the fields of a question (EvaluationContext, flattened;
\* other stands for the rest of the context).  equals are the conditions that have
\* no case of their own: values by the context's keys.
ASSUME RowsAssumption ==
  /\ \A p \in Policies :
       /\ p.effect \in {"ALLOW", "DENY"} /\ p.priority \in Int
       /\ DOMAIN p.conditions.equals \subseteq {"ipAddress", "geoLocation", "other"}
       /\ \A key \in DOMAIN p.conditions.equals : p.conditions.equals[key] # None
  /\ \A q \in Queries :
       q = [resource |-> q.resource, action |-> q.action, ipAddress |-> q.ipAddress,
            geoLocation |-> q.geoLocation, now |-> q.now, other |-> q.other]

VARIABLES
  policy,  \* the rows of the policy table (two that agree count once)
  zone     \* the rows of the networkZone table

vars == <<policy, zone>>

Width == 4 * OctetBits
Octet == 0 .. 2^OctetBits - 1
IPv4 == [1 .. 4 -> Octet]
Cidr == [range : IPv4, bits : 0 .. Width \cup {None}]

\* The endpoint takes any text for a range; the zones here hold well-formed ones.
ASSUME ZonesAssumption == \A z \in Zones : z.ipRanges \subseteq Cidr

TypeOK ==
  /\ policy \in SUBSET Policies
  /\ zone \in SUBSET Zones
  /\ Cardinality(policy) + Cardinality(zone) <= MaxRows
  /\ \A z \in zone : z.ipRanges \subseteq Cidr

------------------------------------------------------------------------------
(* isIpInRange *)

\* The integers that the bit operators work on, and theirs.
Int32(n) == ((n + 2^(Width - 1)) % 2^Width) - 2^(Width - 1)
BitNot(n) == -Int32(n) - 1

\* Bit i of the 32 that stand for n, and m & n summed up from the low bits.
BitOf(n, i) == ((n % 2^Width) \div 2^i) % 2
BitAnd(m, n) ==
  LET and[i \in 0 .. Width] ==
        IF i = 0 THEN 0 ELSE and[i - 1] + 2^(i - 1) * (BitOf(m, i - 1) * BitOf(n, i - 1))
  IN  and[Width]

\* An octet or an address that is no number is NaN, which << and & take for 0.
Number(n) == IF n = NaN THEN 0 ELSE n

\* ip.split('.').reduce((acc, octet) => (acc << 8) + parseInt(octet), 0)
AddOctet(acc, octet) ==
  IF octet = NaN THEN NaN ELSE Int32(Number(acc) * 2^OctetBits) + octet
IpToNum(ip) ==
  LET acc[i \in 0 .. Len(ip)] == IF i = 0 THEN 0 ELSE AddOctet(acc[i - 1], ip[i])
  IN  acc[Len(ip)]

\* A mutant: the complement of one bit instead of the low bits.
MaskOfOneBit(bits) == BitNot(2^(Width - bits))

Mask(bits) == BitNot(2^(Width - bits) - 1)

IsIpInRange(ip, cidr) ==
  IF cidr.bits = None THEN ip = cidr.range
  ELSE LET mask == Mask(cidr.bits)
       IN  BitAnd(Number(IpToNum(ip)), mask) = BitAnd(Number(IpToNum(cidr.range)), mask)

IsIpTrusted(ip) ==
  \E z \in {w \in zone : w.trusted /\ w.enabled} :
    \E cidr \in z.ipRanges : IsIpInRange(ip, cidr)

------------------------------------------------------------------------------
(* evaluate *)

\* A star stands for any text, every other character for itself.  The texts hold
\* neither a line end nor the ? that the expression leaves a quantifier.
MatchesResource(resource, pattern) ==
  LET rest[p \in (1 .. Len(pattern) + 1) \X (1 .. Len(resource) + 1)] ==
        LET i == p[1]
            j == p[2]
        IN  IF i > Len(pattern) THEN j > Len(resource)
            ELSE IF pattern[i] = "*"
              THEN rest[<<i + 1, j>>] \/ (j <= Len(resource) /\ rest[<<i, j + 1>>])
              ELSE j <= Len(resource) /\ pattern[i] = resource[j] /\ rest[<<i + 1, j + 1>>]
  IN  rest[<<1, 1>>]

\* Both ends belong to the window; one over midnight is empty.
IsInTimeWindow(window, now) == window.start <= now /\ now <= window.end

\* A mutant: a context without an address is outside every range.
MatchesConditionsStrictly(query, conditions) ==
  /\ conditions.ipRange # None =>
       query.ipAddress # None /\ IsIpInRange(query.ipAddress, conditions.ipRange)
  /\ conditions.geoLocations # None /\ query.geoLocation # None =>
       query.geoLocation \in conditions.geoLocations
  /\ conditions.timeWindow # None => IsInTimeWindow(conditions.timeWindow, query.now)
  /\ \A key \in DOMAIN conditions.equals : query[key] = conditions.equals[key]

\* A condition that a policy does not have is None.  What the context does not
\* tell cannot fail ipRange and geoLocations, but fails a condition on any key of
\* the context, the address and the location as well.
MatchesConditions(query, conditions) ==
  /\ conditions.ipRange # None /\ query.ipAddress # None =>
       IsIpInRange(query.ipAddress, conditions.ipRange)
  /\ conditions.geoLocations # None /\ query.geoLocation # None =>
       query.geoLocation \in conditions.geoLocations
  /\ conditions.timeWindow # None => IsInTimeWindow(conditions.timeWindow, query.now)
  /\ \A key \in DOMAIN conditions.equals : query[key] = conditions.equals[key]

Applies(p, query) ==
  /\ MatchesResource(query.resource, p.resource)
  /\ query.action \in p.actions \/ "*" \in p.actions
  /\ MatchesConditions(query, p.conditions)

NoMatch == [decision |-> "DENY", matched |-> None]

\* A mutant: the first policy that applies decides.
RoundFirst(result, p, query) ==
  IF result.matched # None \/ ~Applies(p, query) THEN result
  ELSE [decision |-> p.effect, matched |-> p]

\* One round of the loop; after the first DENY the loop is left.
Round(result, p, query) ==
  IF result.decision = "DENY" /\ result.matched # None THEN result
  ELSE IF ~Applies(p, query) THEN result
  ELSE IF p.effect = "DENY" THEN [decision |-> "DENY", matched |-> p]
  ELSE IF result.decision = "DENY" THEN [decision |-> "ALLOW", matched |-> p]
  ELSE result

\* A mutant: orderBy priority asc.
OrdersAscending(rows) ==
  {s \in SetToSeqs(rows) : \A i, j \in DOMAIN s : i < j => s[i].priority <= s[j].priority}

\* orderBy priority desc: the database may give equal ones in any order.
Orders(rows) ==
  {s \in SetToSeqs(rows) : \A i, j \in DOMAIN s : i < j => s[i].priority >= s[j].priority}

\* The result of the loop over the rows s.
Loop(s, query) ==
  LET result[i \in 0 .. Len(s)] ==
        IF i = 0 THEN NoMatch ELSE Round(result[i - 1], s[i], query)
  IN  result[Len(s)]

\* What evaluate may answer.
Evaluate(query) == {Loop(s, query) : s \in Orders({p \in policy : p.enabled})}

------------------------------------------------------------------------------

Init ==
  /\ policy = {}
  /\ zone = {}

Create(p) ==
  /\ Cardinality(policy) + Cardinality(zone) < MaxRows
  /\ policy' = policy \cup {p}
  /\ UNCHANGED zone

\* A mutant: the row is inserted beside the one it should replace.
UpdateBeside(p, q) ==
  /\ p \in policy
  /\ policy' = policy \cup {q}
  /\ UNCHANGED zone

Update(p, q) ==
  /\ p \in policy
  /\ policy' = (policy \ {p}) \cup {q}
  /\ UNCHANGED zone

Delete(p) ==
  /\ p \in policy
  /\ policy' = policy \ {p}
  /\ UNCHANGED zone

CreateNetworkZone(z) ==
  /\ Cardinality(policy) + Cardinality(zone) < MaxRows
  /\ zone' = zone \cup {z}
  /\ UNCHANGED policy

DeleteNetworkZone(z) ==
  /\ z \in zone
  /\ zone' = zone \ {z}
  /\ UNCHANGED policy

Next ==
  \/ \E p \in Policies : Create(p) \/ Delete(p) \/ \E q \in Policies : Update(p, q)
  \/ \E z \in Zones : CreateNetworkZone(z) \/ DeleteNetworkZone(z)

Spec == Init /\ [][Next]_vars

------------------------------------------------------------------------------
(* Properties *)

Matching(query) == {p \in policy : p.enabled /\ Applies(p, query)}

\* The decision does not depend on priorities or on the order of equal ones:
\* it is ALLOW when a policy applies and none that applies says DENY
\* (web docs api-data/policies.ts:1421, "deny-override strategy").
DenyOverrides ==
  \A query \in Queries : \A result \in Evaluate(query) :
    result.decision = "ALLOW" <=>
      Matching(query) # {} /\ \A p \in Matching(query) : p.effect = "ALLOW"

\* The policy that an answer names is one it can be defended with: it applies,
\* has the answer's effect, and none that applies with that effect comes before
\* it; an answer without one is the default and no policy applies.
MatchedPolicyExplains ==
  \A query \in Queries : \A result \in Evaluate(query) :
    IF result.matched = None THEN Matching(query) = {}
    ELSE /\ result.matched \in Matching(query)
         /\ result.matched.effect = result.decision
         /\ \A p \in Matching(query) :
              p.effect = result.decision => p.priority <= result.matched.priority

\* The bit operators on signed numbers (~, << and & of isIpInRange, with the
\* first octet's sign) mean what a prefix length means: an address is trusted
\* when an enabled trusted zone has a range whose first bits are the address's.
Bit(ip, n) == (ip[1 + n \div OctetBits] \div 2^(OctetBits - 1 - (n % OctetBits))) % 2

TrustedByPrefix ==
  \A ip \in IPv4 : IsIpTrusted(ip) <=>
    \E z \in zone : z.trusted /\ z.enabled /\
      \E cidr \in z.ipRanges :
        \A n \in 0 .. (IF cidr.bits = None THEN Width ELSE cidr.bits) - 1 :
          Bit(ip, n) = Bit(cidr.range, n)

\* Leaving the address and the location out of a question frees the asker of a
\* policy, a DENY too, exactly when it asks for one of them by equality
\* (policy.service.ts:272-273); ipRange and geoLocations apply to the silent
\* (policy.service.ts:257-266).
SilenceEvadesOnlyEqualities ==
  \A query \in Queries : \A p \in Matching(query) :
    p \in Matching([query EXCEPT !.ipAddress = None, !.geoLocation = None]) <=>
      DOMAIN p.conditions.equals \cap {"ipAddress", "geoLocation"} = {}
==============================================================================
