----------------------------- MODULE MCRouting ------------------------------
(* The outbound registry of MCOutboundManager, and the router with four      *)
(* small routings: one with a fallback chain, one that turns it around, one  *)
(* that appends a balancer with members and one that closes a cycle.  A      *)
(* behaviour is one of one of the two, and the other stays as it is.         *)
EXTENDS MCOutboundManager, Router

CONSTANTS l1, v1, o1, p1, k2

bal(members, fallback) == [members |-> members, fallback |-> fallback]
rul(ruleTag, hook, balancer) == [ruleTag |-> ruleTag, hook |-> hook, balancer |-> balancer]

chainAB == [append |-> FALSE, rules |-> <<rul("x", TRUE, "a")>>,
            balancers |-> [t \in {"a", "b"} |-> bal({}, IF t = "a" THEN "b" ELSE "out")]]
chainBA == [append |-> FALSE, rules |-> <<rul(NoTag, FALSE, "b")>>,
            balancers |-> [t \in {"a", "b"} |-> bal({}, IF t = "b" THEN "a" ELSE "out")]]
members == [append |-> TRUE, rules |-> <<rul("z", TRUE, "c")>>,
            balancers |-> [t \in {"c"} |-> bal({"a", "b"}, NoTag)]]
cycle == [append |-> TRUE, rules |-> <<rul("w", FALSE, "d")>>,
          balancers |-> [t \in {"d"} |-> bal({"d"}, "b")]]

MCChanges == {chainAB, chainBA, members, cycle}

-----------------------------------------------------------------------------
VARIABLE part

MCInit ==
    /\ part \in {"outbounds", "router"} /\ Init /\ RouterInit
    /\ IF part = "router" THEN published = {plain} /\ routing = R(<<>>, none)
       ELSE change[Boot] = chainAB

MCNext ==
    \/ part = "outbounds" /\ Next /\ UNCHANGED <<part, routerVars>>
    \/ part = "router" /\ RouterNext /\ UNCHANGED <<part, vars>>

MCSpec == MCInit /\ [][MCNext]_<<part, vars, routerVars>>

MCSymmetry == Permutations(Adders)
=============================================================================
