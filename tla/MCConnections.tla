---------------------------- MODULE MCConnections ---------------------------
(* The inbound handler, with two workers, two connections and one caller of  *)
(* each kind, and a connection on its way through routing, in all            *)
(* configurations over two outbounds and two loopbacks, two balancers and up *)
(* to two rules, within the choices below.  A behaviour is one of one of the *)
(* two: the connection is out already, or nobody calls the handler.          *)
EXTENDS InboundHandler, RoutedConnection, TLC

CONSTANTS c1, c2, s1, h1, k1

hnd(tag_, via_, loop_) == [tag |-> tag_, via |-> via_, loop |-> loop_]

\* "a" is the default outbound and "lo" a loopback in every configuration.
Registries ==
    {{hnd("a", av, NoState), hnd("lo", NoTag, "s")} \cup b \cup m :
        av \in {NoTag, "b", "lo"},
        b \in {{}, {hnd("b", "a", NoState)}, {hnd("b", "lo", NoState)}},
        m \in {{}, {hnd("mid", NoTag, "t")}}}

Rules ==
    {[inbound |-> i, only |-> o, tag |-> t, balancer |-> NoTag] :
        i \in {{"s"}, {"t"}}, o \in BOOLEAN, t \in {"a", "mid"}}
    \cup {[inbound |-> i, only |-> FALSE, tag |-> NoTag, balancer |-> "p"] :
        i \in {{}, {"s"}, {"ext"}}}

Pools ==
    {[x \in {"p", "q"} |-> IF x = "p" THEN p ELSE q] :
        p \in {[selects |-> s, members |-> m, override |-> NoTag, fallback |-> f] :
                  s \in {{}, {"b"}}, m \in {{}, {"q"}}, f \in {NoTag, "q", "mid"}},
        q \in {[selects |-> {}, members |-> {}, override |-> o, fallback |-> f] :
                  o \in {NoTag, "lo"}, f \in {"b", "p"}}}

RuleLists == {<<>>} \cup {<<x>> : x \in Rules} \cup {<<x, y>> : x, y \in Rules}

\* Where no rule names a balancer, one pair of balancers is enough.
MCRoutes ==
    LET balanced == {r \in RuleLists : \E i \in DOMAIN r : r[i].balancer # NoTag}
        plain == RuleLists \ balanced
    IN  {[rules |-> r, balancers |-> b] : r \in balanced, b \in Pools}
        \cup {[rules |-> r, balancers |-> CHOOSE b \in Pools : TRUE] : r \in plain}

MCConfigs ==
    {[handlers |-> h, default |-> CHOOSE d \in h : d.tag = "a", routing |-> r] :
        h \in Registries, r \in MCRoutes}

-----------------------------------------------------------------------------
VARIABLE part

Out ==
    /\ config = [handlers |-> {hnd("a", NoTag, NoState)}, default |-> hnd("a", NoTag, NoState),
                 routing |-> [rules |-> <<>>, balancers |-> [x \in {} |-> NoTag]]]
    /\ inbound = "ext" /\ step = "out" /\ rule = 1 /\ pass = 2
    /\ balancer = NoTag /\ level = 0 /\ tag = NoTag /\ at = NoHandler
    /\ passed = {} /\ guard = "none"

MCInit == Init /\ ((part = "handler" /\ Out) \/ (part = "routing" /\ RouteInit))

MCNext ==
    \/ part = "handler" /\ Next /\ UNCHANGED <<part, routeVars>>
    \/ part = "routing" /\ RouteNext /\ UNCHANGED <<part, vars>>

MCSpec ==
    /\ MCInit /\ [][MCNext]_<<part, vars, routeVars>>
    /\ Fairness /\ WF_routeVars(RouteNext)
=============================================================================
