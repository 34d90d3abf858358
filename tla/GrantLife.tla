------------------------------ MODULE GrantLife ------------------------------
(***************************************************************************)
(* What a relying party and a user may expect of a grant of the identity   *)
(* provider, whatever rows, caches and handlers bring it about: it is      *)
(* given once and ends once, nothing is yielded under it but to a request  *)
(* that began while it was live, and what was yielded was never yielded    *)
(* before.  OidcTokens implements this specification.                      *)
(***************************************************************************)
CONSTANTS Grants, Tokens, Requests, None

VARIABLES
  phase,    \* phase[g]: the grant is "unborn", "live" or "dead"
  using,    \* using[r]: the grant request r works under, or None
  yielded   \* yielded[g]: the codes and tokens yielded under g

vars == <<phase, using, yielded>>

TypeOK ==
  /\ phase \in [Grants -> {"unborn", "live", "dead"}]
  /\ using \in [Requests -> Grants \cup {None}]
  /\ yielded \in [Grants -> SUBSET Tokens]

Init ==
  /\ phase = [g \in Grants |-> "unborn"]
  /\ using = [r \in Requests |-> None]
  /\ yielded = [g \in Grants |-> {}]

\* The user's consent makes a grant.
Give(g) ==
  /\ phase[g] = "unborn"
  /\ phase' = [phase EXCEPT ![g] = "live"]
  /\ UNCHANGED <<using, yielded>>

\* Revocation, expiry or the removal of the application ends grants for good.
End(ended) ==
  /\ \A g \in ended : phase[g] = "live"
  /\ phase' = [g \in Grants |-> IF g \in ended THEN "dead" ELSE phase[g]]
  /\ UNCHANGED <<using, yielded>>

\* A request begins under a live grant.
Begin(r, g) ==
  /\ using[r] = None
  /\ phase[g] = "live"
  /\ using' = [using EXCEPT ![r] = g]
  /\ UNCHANGED <<phase, yielded>>

\* The request yields a token nobody had, and may go on to yield another.
Yield(r, t) ==
  /\ using[r] # None
  /\ \A g \in Grants : t \notin yielded[g]
  /\ yielded' = [yielded EXCEPT ![using[r]] = @ \cup {t}]
  /\ using' \in {using, [using EXCEPT ![r] = None]}
  /\ UNCHANGED phase

\* Requests end without a further token: refused, failed, or the process died.
Abandon(some) ==
  /\ using' = [r \in Requests |-> IF r \in some THEN None ELSE using[r]]
  /\ UNCHANGED <<phase, yielded>>

Next ==
  \/ \E g \in Grants : Give(g)
  \/ \E ended \in SUBSET Grants : End(ended)
  \/ \E r \in Requests, g \in Grants : Begin(r, g)
  \/ \E r \in Requests, t \in Tokens : Yield(r, t)
  \/ \E some \in SUBSET Requests : Abandon(some)

Spec == Init /\ [][Next]_vars
==============================================================================
