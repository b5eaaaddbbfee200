---------------------------- MODULE MCTransports ----------------------------
(* The life of an mKCP connection and the write-ahead log of xdrive: a       *)
(* behaviour is one of one of the two, and the other stays as it is.         *)
EXTENDS KcpConnection, WalStream

VARIABLE part

conn == part = "connection"
wal == part = "wal"

MCInit == part \in {"connection", "wal"} /\ ConnInit /\ WalInit

MCNext ==
    \/ conn /\ ConnNext /\ UNCHANGED <<part, walVars>>
    \/ wal /\ WalNext /\ UNCHANGED <<part, connVars>>

(* The fairness of ConnFairSpec and of WalFairSpec, for the part there is. *)

MCConnFairness ==
    /\ \A u \in Updaters : WF_connVars(conn /\ (SetState(u) \/ UpdaterStep(u)))
    /\ \A c \in ConnClosers : WF_connVars(conn /\ SetState(c))
    /\ WF_connVars(conn /\ (SetState("input") \/ InputHandling))
    /\ WF_connVars(conn /\ terms /\ Terminate)
    /\ \A s \in Stamps : WF_connVars(conn /\ LimitPasses(s))

MCWalFairness ==
    /\ WF_walVars(wal /\ WriterStep) /\ WF_walVars(wal /\ Tick)
    /\ WF_walVars(wal /\ Poll) /\ WF_walVars(wal /\ NextBatch) /\ WF_walVars(wal /\ Fetch)
    /\ WF_walVars(wal /\ Deliver) /\ WF_walVars(wal /\ ConnRead)
    /\ WF_walVars(wal /\ HoleTimeout)

MCSpec ==
    /\ MCInit /\ [][MCNext]_<<part, connVars, walVars>>
    /\ MCConnFairness /\ MCWalFairness

\* A silent mKCP connection ends: SilentEnds of KcpConnection.
ConnectionEnds == conn => SilentEnds
=============================================================================
