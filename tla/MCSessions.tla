----------------------------- MODULE MCSessions -----------------------------
(* Sessions that are handed on: the AnyTLS pool of MCAnyTlsClient, and two   *)
(* mux carriers that claim the same XUDP flow.  A behaviour is one of one of *)
(* the two, and the other stays as it is.                                    *)
EXTENDS MCAnyTlsClient, Xudp

CONSTANTS c1, c2

VARIABLE part

pool == part = "pool"
xudp == part = "xudp"

MCInit == part \in {"pool", "xudp"} /\ PoolInit /\ XudpInit

\* A deadlock is one of the pool: carriers may stand still.
MCNext ==
    \/ pool /\ PoolNext /\ UNCHANGED <<part, xudpVars>>
    \/ xudp /\ XudpNext /\ UNCHANGED <<part, poolVars>>
    \/ xudp /\ UNCHANGED <<part, poolVars, xudpVars>>

MCSpec == MCInit /\ [][MCNext]_<<part, poolVars, xudpVars>>
=============================================================================
