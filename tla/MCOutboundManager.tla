------------------------- MODULE MCOutboundManager -------------------------
(* A small outbound registry: a plain outbound, a loopback, an outbound that *)
(* dials through it, and another handler of that tag that dials back.        *)
EXTENDS OutboundManager, TLC

CONSTANTS a1, a2, r1, q1, k1

h(tag, via, loop) == [tag |-> tag, via |-> via, loop |-> loop]
plain == h("out", NoTag, NoState)
loopback == h("lo", NoTag, "in")
through == h("via", "lo", NoState)
back == h("lo", "via", NoState)

MCHandlers == {plain, loopback, through, back}
MCRetiring == {plain, through}

toOut(only) == [inbound |-> {"in"}, only |-> only, tag |-> "out", balancer |-> NoTag]
toBalancer == [inbound |-> {}, only |-> FALSE, tag |-> NoTag, balancer |-> "b"]
pool == [b \in {"b"} |-> [selects |-> {"lo"}, members |-> {}, override |-> NoTag,
                          fallback |-> "via"]]
none == [b \in {} |-> plain]

R(rules, balancers) == [rules |-> rules, balancers |-> balancers]
MCRoutings == {R(<<>>, none), R(<<toOut(TRUE)>>, none),
               R(<<toOut(TRUE), toBalancer>>, pool), R(<<toBalancer>>, pool)}
=============================================================================
