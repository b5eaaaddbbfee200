-------------------------- MODULE RoutedConnection --------------------------
(***************************************************************************)
(* One connection on its way through routing: the rules in order, the      *)
(* balancer levels of the rule it matches, the outbound, the outbounds it  *)
(* dials through and, when one of them is a loopback, the rules again.     *)
(*                                                                         *)
(* The start check (LoopGraph) looks at the configuration alone.  Here the *)
(* configuration runs: conditions other than the inbound tag hold or fail, *)
(* strategies pick or yield nothing, as they may.  The guards that stop a  *)
(* connection on a loop the check has missed are never to act.             *)
(***************************************************************************)
EXTENDS LoopGraph

CONSTANTS
    Configs,    \* records of handlers, default and routing
    Inbounds    \* the inbounds a connection may come from

\* What the builders of a configuration see to: the first outbound is the default
\* one, a tag names one outbound or balancer, selectors match tagged outbounds and
\* a rule's balancer is there.
ASSUME RouteAssumption ==
    \A c \in Configs :
        LET R == c.routing.rules
            B == c.routing.balancers
        IN  /\ IsFiniteSet(c.handlers) /\ c.default \in c.handlers
            /\ NoHandler \notin c.handlers
            /\ \A g, h \in c.handlers : g.tag = h.tag /\ g.tag # NoTag => g = h
            /\ R \in Seq({R[i] : i \in DOMAIN R})
            /\ \A i \in DOMAIN R : R[i].balancer \in DOMAIN B \cup {NoTag}
            /\ IsFiniteSet(DOMAIN B) /\ NoTag \notin DOMAIN B
            /\ \A b \in DOMAIN B : NoTag \notin B[b].selects

VARIABLES
    config,     \* what core.New has accepted
    step,
    inbound,    \* the inbound tag in the connection's context
    rule, pass, \* the rule tried next, and with or without resolved addresses
    balancer, level,    \* the level of the pick in progress, and its number
    tag,        \* the outbound tag picked
    at,         \* the handler the connection is in
    passed,     \* session.LoopbacksFromContext
    guard       \* the loop guard that stopped the connection

routeVars == <<config, step, inbound, rule, pass, balancer, level, tag, at, passed, guard>>

H == config.handlers
rules == config.routing.rules
balancers == config.routing.balancers

\* checkBalancerGraph when the router is built, checkLoops at the end of core.New.
accepted(c) ==
    /\ balancerGraphOK(c.routing.balancers)
    /\ ~dialerProxyCycle(c.handlers)
    /\ ~loopbackLoop(c.handlers, c.default, c.routing)

RouteInit ==
    /\ config \in {c \in Configs : accepted(c)}
    /\ inbound \in Inbounds
    /\ step = "rules" /\ rule = 1 /\ pass = 1
    /\ balancer = NoTag /\ level = 0
    /\ tag = NoTag /\ at = NoHandler
    /\ passed = {} /\ guard = "none"

-----------------------------------------------------------------------------
(* pickRouteInternal. *)

Matches ==
    /\ step = "rules" /\ rule <= Len(rules)
    /\ Names(rules[rule], inbound)
    /\ IF rules[rule].balancer = NoTag
       THEN step' = "tag" /\ tag' = rules[rule].tag /\ UNCHANGED balancer
       ELSE step' = "pick" /\ balancer' = rules[rule].balancer /\ UNCHANGED tag
    /\ level' = 0
    /\ UNCHANGED <<config, inbound, rule, pass, at, passed, guard>>

\* Some condition of the rule fails; the inbound tag does not if the rule names it.
NoMatch ==
    /\ step = "rules" /\ rule <= Len(rules)
    /\ ~(rules[rule].only /\ Names(rules[rule], inbound))
    /\ rule' = rule + 1
    /\ UNCHANGED <<config, step, inbound, pass, balancer, level, tag, at, passed, guard>>

\* IpIfNonMatch tries the rules once more.
Again ==
    /\ step = "rules" /\ rule > Len(rules)
    /\ pass = 1
    /\ pass' = 2 /\ rule' = 1
    /\ UNCHANGED <<config, step, inbound, balancer, level, tag, at, passed, guard>>

NoClue ==
    /\ step = "rules" /\ rule > Len(rules)
    /\ step' = "default"
    /\ UNCHANGED <<config, inbound, rule, pass, balancer, level, tag, at, passed, guard>>

-----------------------------------------------------------------------------
(* resolveChain, a level at a time. *)

\* What Balancer.pick may return: a tag, and whether it is the fallback.  A
\* strategy may find no candidate good enough.
picks(b) ==
    LET candidates == {h.tag : h \in {k \in H : k.tag \in b.selects}} \cup b.members
    IN  IF b.override # NoTag
        THEN {[tag |-> b.override, fallback |-> FALSE]}
        ELSE {[tag |-> t, fallback |-> FALSE] : t \in candidates}
             \cup {[tag |-> b.fallback, fallback |-> b.fallback # NoTag]}

Level(p) ==
    /\ step = "pick"
    /\ p \in picks(balancers[balancer])
    /\ level' = level + 1
    /\ LET on == (p.fallback \/ p.tag \in balancers[balancer].members)
                 /\ p.tag \in DOMAIN balancers
       IN  /\ step' = IF p.tag = NoTag THEN "default"
                    ELSE IF ~on THEN "tag"
                    ELSE IF level < Cardinality(DOMAIN balancers) THEN "pick" ELSE "dropped"
           /\ guard' = IF step' = "dropped" THEN "fallbackChain" ELSE guard
           /\ balancer' = IF on THEN p.tag ELSE balancer
           /\ tag' = IF on THEN tag ELSE p.tag
    /\ UNCHANGED <<config, inbound, rule, pass, at, passed>>

-----------------------------------------------------------------------------
(* routedDispatch, Handler.Dial and Loopback.Process. *)

\* A tag that names no outbound does not go to the default one.
Detour ==
    /\ step = "tag"
    /\ \/ \E h \in At(H, tag) : at' = h /\ step' = "dial"
       \/ At(H, tag) = {} /\ step' = "dropped" /\ UNCHANGED at
    /\ UNCHANGED <<config, inbound, rule, pass, balancer, level, tag, passed, guard>>

DefaultRoute ==
    /\ step = "default"
    /\ at' = config.default
    /\ step' = "dial"
    /\ UNCHANGED <<config, inbound, rule, pass, balancer, level, tag, passed, guard>>

Dial ==
    /\ step = "dial" /\ at.loop = NoState
    /\ \/ \E h \in At(H, at.via) : at' = h /\ UNCHANGED step
       \/ At(H, at.via) = {} /\ step' = "out" /\ at' = NoHandler
    /\ UNCHANGED <<config, inbound, rule, pass, balancer, level, tag, passed, guard>>

Loopback ==
    /\ step = "dial" /\ at.loop # NoState
    /\ at' = NoHandler
    /\ IF at.tag \in passed
       THEN /\ guard' = "loopbackReentry" /\ step' = "dropped"
            /\ UNCHANGED <<inbound, rule, pass, passed>>
       ELSE /\ passed' = passed \cup {at.tag}
            /\ inbound' = at.loop
            /\ step' = "rules" /\ rule' = 1 /\ pass' = 1
            /\ UNCHANGED guard
    /\ UNCHANGED <<config, balancer, level, tag>>

RouteNext ==
    \/ Matches \/ NoMatch \/ Again \/ NoClue
    \/ \E p \in IF step = "pick" THEN picks(balancers[balancer]) ELSE {} : Level(p)
    \/ Detour \/ DefaultRoute \/ Dial \/ Loopback

RouteSpec == RouteInit /\ [][RouteNext]_routeVars

\* A connection is carried by goroutines that do not stop.
RouteFairSpec == RouteSpec /\ WF_routeVars(RouteNext)

-----------------------------------------------------------------------------
(* Properties. *)

\* spec017 L6 and L7, spec018 S2, spec019 M7: in a configuration that core.New
\* accepts, whatever its conditions and the balancers' picks are, no connection
\* comes to the same loopback twice and no pick needs more levels than there are
\* balancers; the guards in Loopback.Process and resolveChain never act.
GuardsSilent == guard \notin {"loopbackReentry", "fallbackChain"}

\* Routing and dialing come to an end.
Settles == <>(step \in {"out", "dropped"})
=============================================================================
