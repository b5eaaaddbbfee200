----------------------------- MODULE LoopGraph -----------------------------
(***************************************************************************)
(* The graphs of app/router/loops.go, features/outbound/loops.go and       *)
(* app/proxyman/outbound/loops.go: which outbound dials through which, and *)
(* to which loopback inbound routing can bring a connection.               *)
(*                                                                         *)
(* A handler is a record of its tag, the tag it dials through and the      *)
(* inbound it feeds if it is a loopback.  A balancer is a record of the    *)
(* tags its selectors match, its member balancers, its override target and *)
(* its fallback tag.  A rule names the inbounds it is restricted to, says  *)
(* whether that is its only condition, and leads to an outbound tag or to  *)
(* a balancer.  A routing is a record of rules and balancers.              *)
(***************************************************************************)
EXTENDS Integers, Sequences, FiniteSets

CONSTANTS
    NoTag,      \* the empty tag
    NoState,    \* not a loopback
    NoHandler   \* no default outbound

\* The handler of that tag, as a set of none or one.
At(H, t) == {h \in H : t # NoTag /\ h.tag = t}

\* The graph that leads from v to each of next[v].  A finite graph has a cycle
\* just when each vertex of some set of vertices has a successor in that set.
HasCycle(next) ==
    \E C \in SUBSET DOMAIN next : C # {} /\ \A v \in C : next[v] \cap C # {}

\* S1: the dialerProxy graph.
DialsThrough(H, t) == {h.via : h \in At(H, t)} \ {NoTag}

\* Mutant: only a self-reference is looked for.
dialerProxySelf(H) == \E h \in H : h.tag \in DialsThrough(H, h.tag)

dialerProxyCycle(H) ==
    HasCycle([t \in {h.tag : h \in H} \ {NoTag} |-> DialsThrough(H, t)])

\* Mutant: what an outbound dials through is not followed.
LoopbackReachedOwn(H, h) == {h.loop} \ {NoState}

\* The walk from h over its dialerProxy chain: a loopback ends it, and it has at
\* most len(byTag) hops.
hops(H, h) ==
    LET hop[i \in 0 .. Cardinality(H)] ==
            IF i = 0 THEN {h}
            ELSE UNION {At(H, x.via) : x \in {y \in hop[i - 1] : y.loop = NoState}}
    IN  hop

\* The inbound of the loopback that h reaches.
LoopbackReached(H, h) ==
    {x.loop : x \in UNION {hops(H, h)[i] : i \in 0 .. Cardinality(H)}} \ {NoState}

-----------------------------------------------------------------------------
(* S2: routing. *)

\* The balancers that a level of x may go on to.
below(B, x) == (B[x].members \cup {B[x].fallback}) \cap DOMAIN B

\* Those within i levels of b, and all on b's fallback chain and below its
\* members, itself included.
within(B, b) ==
    LET seen[i \in 0 .. Cardinality(DOMAIN B)] ==
            IF i = 0 THEN {b} ELSE seen[i - 1] \cup UNION {below(B, x) : x \in seen[i - 1]}
    IN  seen

levels(B, b) == within(B, b)[Cardinality(DOMAIN B)]

Default(def) == IF def = NoHandler THEN {} ELSE {def}

\* Every outbound that a pick through balancer b may end at.
chain(H, def, B, b) ==
    (UNION {UNION {At(H, t) : t \in B[x].selects \cup {B[x].override}} : x \in levels(B, b)})
    \cup UNION {IF B[x].fallback = NoTag THEN Default(def)
                ELSE IF B[x].fallback \in DOMAIN B THEN {}
                ELSE At(H, B[x].fallback) : x \in levels(B, b)}

Names(rule, s) == rule.inbound = {} \/ s \in rule.inbound

\* matchesOnInboundOnly, for a state the rule names: later rules are not reached.
Ends(rule, s) == rule.only /\ s \in rule.inbound

\* The rules that a connection of inbound s may match.
Reachable(rules, s) ==
    {i \in DOMAIN rules : Names(rules[i], s) /\ \A j \in 1 .. i - 1 : ~Ends(rules[j], s)}

\* The outbounds that routing may bring a connection of inbound s to.
outbounds(H, def, R, s) ==
    LET leads(rule) == IF rule.balancer = NoTag THEN At(H, rule.tag)
                       ELSE chain(H, def, R.balancers, rule.balancer)
        ended == \E i \in DOMAIN R.rules : Ends(R.rules[i], s)
    IN  (UNION {leads(R.rules[i]) : i \in Reachable(R.rules, s)})
        \cup (IF ended THEN {} ELSE Default(def))

\* The states they bring it to.
from(H, def, R, s) == UNION {LoopbackReached(H, h) : h \in outbounds(H, def, R, s)}

loopbackLoop(H, def, R) ==
    HasCycle([s \in {h.loop : h \in H} \ {NoState} |-> from(H, def, R, s)])

\* checkBalancerGraph (L1, spec019 M7): members exist and have a fallback of
\* their own, and members and fallbacks form no cycle.
balancerGraphOK(B) ==
    /\ \A b \in DOMAIN B : B[b].members \subseteq DOMAIN B
    /\ \A b \in DOMAIN B : \A m \in B[b].members : B[m].fallback # NoTag
    /\ ~HasCycle([b \in DOMAIN B |-> B[b].members \cup {B[b].fallback}])
=============================================================================
