---------------------------- MODULE KcpConnection ---------------------------
(***************************************************************************)
(* The life of an mKCP connection (transport/internet/kcp/connection.go):  *)
(* its state is read and stored, without a lock, by the two updaters that  *)
(* flush it, by the goroutine that hands it packets and by the callers of  *)
(* Close; Terminate tears it down at the end.                              *)
(*                                                                         *)
(* The peer is the packets that come: any, in any order.  A time limit     *)
(* passes at any moment, all limits of one time stamp at once; current -   *)
(* stamp is a uint32, so it may also be huge, when the stamp was stored    *)
(* after the flush had taken its current time.                             *)
(***************************************************************************)

CONSTANTS
    Updaters,           \* {"ping"} or {"ping", "data"}
    ConnClosers         \* calls of Close

VARIABLES
    st,                 \* state
    old,                \* those of stateBeginTime, lastIncomingTime whose limits have passed
    at, want,           \* per thread: where it is, and the state it is setting
    untimed,            \* the threads that have stored it, and not yet its time
    newer,              \* per updater: the time stamps stored since its flush began
    unsent,             \* the sending window is not empty
    pkt,                \* the packet being handled
    terms, ended        \* Terminate started; it has run

threadVars == <<at, want, untimed>>
timeVars == <<old, newer>>
endVars == <<terms, ended>>
connVars == <<st, timeVars, threadVars, unsent, pkt, endVars>>

States == {"Active", "ReadyToClose", "PeerClosed", "Terminating", "PeerTerminating", "Terminated"}
NoState == "none"
NoPacket == [kind |-> "none", close |-> FALSE]
Threads == Updaters \cup ConnClosers \cup {"input"}
Packets == [kind : {"data", "ack", "ping"}, close : BOOLEAN]
           \cup {[kind |-> "terminate", close |-> FALSE]}
Stamps == {"begin", "in"}

ConnInit ==
    /\ st = "Active" /\ old = {}
    /\ at = [t \in Threads |-> IF t = "ping" THEN "loop" ELSE "off"]
    /\ want = [t \in Threads |-> NoState] /\ untimed = {}
    /\ newer = [u \in Updaters |-> {}]
    /\ unsent = FALSE /\ pkt = NoPacket
    /\ terms = FALSE /\ ended = FALSE

-----------------------------------------------------------------------------
(* SetState, and the wake-up of an updater that is not running *)

Ready(t) == want[t] = NoState
\* The updaters whose flush has yet to look at a time stamp.
matters(u, s) == IF s = "in" THEN at[u] \in {"idle", "idleTime"} ELSE at[u] \notin {"off", "loop"}
Goto(t, label) == at' = [at EXCEPT ![t] = label]
Want(t, s) == want' = [want EXCEPT ![t] = s]
woken(S) == [t \in Threads |-> IF t \in S \cap Updaters /\ at[t] = "off" THEN "loop" ELSE at[t]]

stamped(s) ==
    /\ old' = old \ {s}
    /\ newer' = [u \in Updaters |-> IF matters(u, s) THEN newer[u] \cup {s} ELSE newer[u]]

\* SetState stores the state ...
StoreState(t) ==
    /\ want[t] # NoState /\ t \notin untimed
    /\ st' = want[t] /\ untimed' = untimed \cup {t}
    /\ UNCHANGED <<timeVars, at, want, unsent, pkt, endVars>>

\* ... then stateBeginTime; CloseWrite, and what Terminated starts.
StoreTime(t) ==
    /\ t \in untimed /\ untimed' = untimed \ {t} /\ Want(t, NoState) /\ stamped("begin")
    /\ unsent' = (unsent /\ want[t] = "ReadyToClose")
    /\ terms' = (terms \/ want[t] = "Terminated")
    /\ at' = IF want[t] = "Terminated" THEN woken({"data", "ping"}) ELSE at
    /\ UNCHANGED <<st, pkt, ended>>

SetState(t) == StoreState(t) \/ StoreTime(t)

-----------------------------------------------------------------------------
(* Updater.run and flush *)

shouldContinue(u) ==
    IF u = "ping" THEN {st # "Terminated"}
    ELSE IF st \in {"Terminating", "Terminated"} THEN {FALSE}
    ELSE IF unsent THEN {TRUE} ELSE BOOLEAN     \* acknowledgements to send

Loop(u) ==
    /\ at[u] = "loop" /\ Ready(u)
    /\ \E go \in shouldContinue(u) : Goto(u, IF go THEN "idle" ELSE "off")
    /\ UNCHANGED <<st, timeVars, want, untimed, unsent, pkt, endVars>>

\* Whether current - stamp may be found beyond, or within, the limit.
beyond(u, s) == s \in old \/ s \in newer[u]
within(u, s) == s \notin old

closeTo(s) ==
    CASE s = "Active" -> "ReadyToClose" [] s = "PeerClosed" -> "Terminating"
      [] s = "PeerTerminating" -> "Terminated" [] OTHER -> NoState

\* One check of flush: when it holds SetState comes before the next one.
Check(u, label, next, target) ==
    /\ at[u] = label /\ Ready(u) /\ Goto(u, next) /\ Want(u, target)
    /\ newer' = [newer EXCEPT ![u] = IF next = "loop" THEN {}
                                     ELSE IF next = "idleTime" THEN @ ELSE @ \ {"in"}]
    /\ UNCHANGED <<st, old, untimed, unsent, pkt, endVars>>

\* A state that lasts too long goes to the next one: flush reads the state, and
\* if it is the one in question then its time stamp.
Lasted(u, label, time, next, state, target) ==
    \/ st # state /\ Check(u, label, next, NoState)
    \/ st = state /\ Check(u, label, time, NoState)
    \/ beyond(u, "begin") /\ Check(u, time, next, target)
    \/ within(u, "begin") /\ Check(u, time, next, NoState)

\* Mutant: a closed connection waits for its acknowledgements for ever.
readyWaits(u) == Check(u, "late", "loop", NoState)

readyEnds(u) == Lasted(u, "late", "lateTime", "loop", "ReadyToClose", "Terminating")

IdleClose(u) ==     \* Close of a connection that is idle
    /\ at[u] = "close" /\ Goto(u, "ready") /\ Want(u, closeTo(st))
    /\ UNCHANGED <<st, timeVars, untimed, unsent, pkt, endVars>>

flush(u) ==
    \/ st # "Active" /\ Check(u, "idle", "ready", NoState)
    \/ st = "Active" /\ Check(u, "idle", "idleTime", NoState)
    \/ beyond(u, "in") /\ Check(u, "idleTime", "close", NoState)
    \/ within(u, "in") /\ Check(u, "idleTime", "ready", NoState)
    \/ IdleClose(u)
    \/ Check(u, "ready", IF st = "ReadyToClose" THEN "empty" ELSE "term", NoState)
    \/ Check(u, "empty", "term", IF unsent THEN NoState ELSE "Terminating")
    \/ st # "Terminating" /\ Check(u, "term", "peer", NoState)
    \/ st = "Terminating" /\ Check(u, "term", "termTime", NoState)
    \/ beyond(u, "begin") /\ Check(u, "termTime", "loop", "Terminated")
    \/ within(u, "begin") /\ Check(u, "termTime", "loop", NoState)
    \/ Lasted(u, "peer", "peerTime", "late", "PeerTerminating", "Terminating")
    \/ readyEnds(u)

-----------------------------------------------------------------------------
(* Input *)

Arrive(p) ==
    /\ at["input"] = "off" /\ ~ended
    /\ pkt' = p /\ stamped("in") /\ Goto("input", "opt")
    /\ UNCHANGED <<st, want, untimed, unsent, endVars>>

InputStep(label, next, target) ==
    /\ at["input"] = label /\ Ready("input")
    /\ Goto("input", next) /\ Want("input", target)
    /\ pkt' = [pkt EXCEPT !.close = FALSE]      \* the option is read once
    /\ UNCHANGED <<st, timeVars, untimed, unsent, endVars>>

OnPeerClosed ==
    InputStep("opt", "cmd",
        IF ~pkt.close THEN NoState
        ELSE CASE st = "ReadyToClose" -> "Terminating" [] st = "Active" -> "PeerClosed"
               [] OTHER -> NoState)

OnTerminate ==
    InputStep("cmd", "done",
        IF pkt.kind # "terminate" THEN NoState
        ELSE CASE st \in {"Active", "PeerClosed"} -> "PeerTerminating"
               [] st = "ReadyToClose" -> "Terminating" [] st = "Terminating" -> "Terminated"
               [] OTHER -> NoState)

\* The data and the acknowledgements of the packet, and its signals.
InputDone ==
    /\ at["input"] = "done" /\ Ready("input") /\ pkt' = NoPacket
    /\ at' = [IF pkt.kind \in {"data", "ack"} THEN woken({"data"}) ELSE at
              EXCEPT !["input"] = "off"]
    /\ unsent' \in IF pkt.kind = "data" THEN {unsent} ELSE {unsent, FALSE}
    /\ UNCHANGED <<st, timeVars, want, untimed, endVars>>

-----------------------------------------------------------------------------
(* Close, Terminate, Listener.Close *)

\* Close: "over" is ErrClosedConnection; else it returns nil after SetState.
Close(c) ==
    /\ at[c] = "off" /\ Want(c, closeTo(st))
    /\ Goto(c, IF closeTo(st) = NoState THEN "over" ELSE "closed")
    /\ UNCHANGED <<st, timeVars, untimed, unsent, pkt, endVars>>

\* Terminate, which SetState(Terminated) has started or the Close of the listener.
Terminate ==
    /\ ~ended /\ ended' = TRUE /\ unsent' = FALSE
    /\ UNCHANGED <<st, timeVars, threadVars, pkt, terms>>

-----------------------------------------------------------------------------
(* The application writes, time passes *)

writeMultiBufferInternal ==
    /\ st = "Active" /\ ~ended /\ ~unsent /\ unsent' = TRUE /\ at' = woken({"data"})
    /\ UNCHANGED <<st, timeVars, want, untimed, pkt, endVars>>

LimitPasses(s) ==
    /\ s \notin old /\ old' = old \cup {s}
    /\ UNCHANGED <<st, newer, threadVars, unsent, pkt, endVars>>

UpdaterStep(u) == Loop(u) \/ flush(u)
InputHandling == OnPeerClosed \/ OnTerminate \/ InputDone

ConnNext ==
    \/ \E t \in Threads : SetState(t)
    \/ \E u \in Updaters : UpdaterStep(u)
    \/ \E p \in Packets : Arrive(p)
    \/ InputHandling
    \/ \E c \in ConnClosers : Close(c)
    \/ \E s \in Stamps : LimitPasses(s)
    \/ Terminate \/ writeMultiBufferInternal

ConnSpec == ConnInit /\ [][ConnNext]_connVars
\* The goroutines run and the time limits pass.
ConnFairness ==
    /\ \A u \in Updaters : WF_connVars(SetState(u) \/ UpdaterStep(u))
    /\ \A c \in ConnClosers : WF_connVars(SetState(c))
    /\ WF_connVars(SetState("input") \/ InputHandling)
    /\ WF_connVars(terms /\ Terminate)
    /\ \A s \in Stamps : WF_connVars(LimitPasses(s))
ConnFairSpec == ConnSpec /\ ConnFairness

-----------------------------------------------------------------------------
\* Whatever the order in which the threads overwrite each other's state, a
\* connection that hears nothing any more is torn down, except in PeerClosed,
\* which has no time limit.
SilentEnds == <>[](pkt = NoPacket) => <>[](ended \/ st = "PeerClosed")

\* "Close closes the connection": when Close has returned nil, the connection
\* is torn down some time later.
returned == \E c \in ConnClosers : at[c] = "closed" /\ Ready(c)
CloseCloses == returned ~> ended
=============================================================================
