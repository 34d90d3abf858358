----------------------------- MODULE MCPolicyEval -----------------------------
(* Instances of PolicyEval for TLC: every kind of condition, patterns with a  *)
(* star in each place, and zones with every prefix length of two addresses,   *)
(* one of them with the sign bit.                                             *)
EXTENDS PolicyEval

Anything == [ipRange |-> None, geoLocations |-> None, timeWindow |-> None, equals |-> <<>>]
Net(ip, bits) == [range |-> ip, bits |-> bits]

Row(resource, conditions) ==
  {[enabled |-> TRUE, effect |-> effect, priority |-> priority, resource |-> resource,
    actions |-> {"read"}, conditions |-> conditions] :
     effect \in {"ALLOW", "DENY"}, priority \in {0, 1}}

MCPolicies ==
  Row(<<"*">>, Anything)
    \cup Row(<<"a", "*", "b">>, [Anything EXCEPT !.ipRange = Net(<<1, 0, 0, 0>>, 2)])
    \cup Row(<<"a", "*">>, [Anything EXCEPT !.geoLocations = {"IN"}])
    \cup {[p EXCEPT !.actions = {"*"}] :
            p \in Row(<<"*", "b">>, [Anything EXCEPT !.timeWindow = [start |-> 2, end |-> 3]])}
    \cup {[p EXCEPT !.enabled = (p.effect = "ALLOW")] :
            p \in Row(<<"a", "b">>, [Anything EXCEPT !.equals = [other |-> "x"]])}
    \cup {p \in Row(<<"a", "*">>, [Anything EXCEPT !.equals = [geoLocation |-> "IN"]])
                 \cup Row(<<"*">>, [Anything EXCEPT !.equals = [ipAddress |-> <<1, 0, 1, 0>>]]) :
            p.priority = 1}

MCZones ==
  {[ipRanges |-> {Net(ip, bits)}, trusted |-> TRUE, enabled |-> TRUE] :
     ip \in {<<1, 0, 0, 0>>, <<0, 1, 1, 0>>}, bits \in 0 .. Width \cup {None}}
    \cup {[ipRanges |-> {Net(<<1, 0, 0, 0>>, 1), Net(<<0, 0, 1, 0>>, None)},
           trusted |-> trusted, enabled |-> TRUE] : trusted \in BOOLEAN}

\* A question that says everything, and what it becomes without some of it.
Question(resource, ip, geo) ==
  [resource |-> resource, action |-> "read", ipAddress |-> ip, geoLocation |-> geo,
   now |-> 3, other |-> "x"]

MCQueries ==
  LET full == {Question(resource, ip, geo) : resource \in {<<"a">>, <<"a", "b">>, <<"a", "a", "b">>},
                 ip \in {None, <<1, 0, 1, 0>>, <<0, 1, 0, 0>>, <<NaN>>}, geo \in {None, "IN", "US"}}
  IN  full
        \cup {[q EXCEPT !.action = "write"] : q \in {p \in full : p.ipAddress = None}}
        \cup {[q EXCEPT !.now = 1, !.other = None] : q \in {p \in full : p.ipAddress = None}}
==============================================================================
