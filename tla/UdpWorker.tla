----------------------------- MODULE UdpWorker -----------------------------
(***************************************************************************)
(* app/proxyman/inbound: the UDP worker of an inbound.                     *)
(*                                                                         *)
(* One goroutine takes packets off the hub and finds or makes the pseudo   *)
(* connection of their source; each connection is served by a goroutine; a *)
(* Periodic task expires idle ones; Close may come at any time.            *)
(* Connections live in activeConn, under the worker's lock; conn.done is   *)
(* what the rest of the program sees of their end.                         *)
(***************************************************************************)
EXTENDS Periodic

CONSTANTS
    Ids,        \* connIDs: packet sources
    Conns,      \* bound: udpConn objects made in all
    NoConn,     \* nil
    CloseCallers    \* goroutines that call Close

VARIABLES
    closed, activeConn,     \* the worker's state under its lock
    cid, done, idle,        \* per connection: its id, conn.done, last activity
    gpc,                    \* per connection: its goroutine
    cb, cbConn,             \* the packet goroutine: its stage and connection
    expired,                \* per goroutine in clean: the connections it removed
    kpc, list               \* per Close caller: its stage, detached connections

workerVars == <<closed, activeConn, cid, done, idle, gpc, cb, cbConn, expired, kpc, list>>
vars == <<running, timer, ppc, closed, activeConn, cid, done, idle, gpc, cb, cbConn,
          expired, kpc, list>>

checker == CHOOSE p \in Tasks : TRUE
packets == CHOOSE g \in Starters : TRUE

ASSUME WorkerAssumption ==
    /\ Cardinality(Tasks) = 1
    /\ Cardinality(Starters) = 1
    /\ NoConn \notin Conns
    /\ Ids # {}

Table == [Ids -> Conns \cup {NoConn}]
NoTable == [i \in Ids |-> NoConn]
InTable(t) == {t[i] : i \in Ids} \ {NoConn}

TypeOK ==
    /\ PeriodicTypeOK
    /\ closed \in BOOLEAN
    /\ activeConn \in Table
    /\ cid \in [Conns -> Ids]
    /\ done \in [Conns -> BOOLEAN]
    /\ idle \in [Conns -> BOOLEAN]
    /\ gpc \in [Conns -> {"free", "made", "process", "remove", "end"}]
    /\ cb \in {"receive", "start", "starting", "failed"}
    /\ cbConn \in Conns \cup {NoConn}
    /\ (cb = "receive") = (cbConn = NoConn)
    /\ expired \in [Exec -> SUBSET Conns]
    /\ kpc \in [CloseCallers -> {"idle", "conns", "checker", "returned"}]
    /\ list \in [CloseCallers -> SUBSET Conns]

Init ==
    /\ PeriodicInit
    /\ closed = FALSE
    /\ activeConn = NoTable
    /\ cid \in [Conns -> {CHOOSE i \in Ids : TRUE}]
    /\ done = [c \in Conns |-> FALSE]
    /\ idle = [c \in Conns |-> FALSE]
    /\ gpc = [c \in Conns |-> "free"]
    /\ cb = "receive"
    /\ cbConn = NoConn
    /\ expired = [g \in Exec |-> {}]
    /\ kpc = [k \in CloseCallers |-> "idle"]
    /\ list = [k \in CloseCallers |-> {}]

-----------------------------------------------------------------------------
(* callback, in the packet goroutine. *)

\* There is no connection that the packets of this source may still use.
Vacant(i) == IF activeConn[i] = NoConn THEN TRUE ELSE done[activeConn[i]]

\* getConnection finds a live connection, whose pipe takes or drops the packet,
\* or the worker is closed and the packet is released.
PacketKnown(i) ==
    /\ cb = "receive"
    /\ \/ closed /\ UNCHANGED idle
       \/ /\ ~closed
          /\ ~Vacant(i)
          /\ idle' = [idle EXCEPT ![activeConn[i]] = FALSE]
    /\ UNCHANGED <<periodicVars, closed, activeConn, cid, done, gpc, cb, cbConn,
                   expired, kpc, list>>

\* getConnection makes one, in the place of none or of a dead one.
PacketNew(i, c) ==
    /\ cb = "receive"
    /\ ~closed
    /\ Vacant(i)
    /\ gpc[c] = "free"
    /\ gpc' = [gpc EXCEPT ![c] = "made"]
    /\ cid' = [cid EXCEPT ![c] = i]
    /\ activeConn' = [activeConn EXCEPT ![i] = c]
    /\ cbConn' = c
    /\ cb' = "start"
    /\ UNCHANGED <<periodicVars, closed, done, idle, expired, kpc, list>>

\* checker.Start(), which may run clean in this goroutine.
StartChecker ==
    /\ cb = "start"
    /\ Start(checker, packets)
    /\ cb' = "starting"
    /\ UNCHANGED <<closed, activeConn, cid, done, idle, gpc, cbConn, expired, kpc, list>>

\* Start returned nil: look at closed again, give the timer back or serve.
Started ==
    /\ cb = "starting"
    /\ ppc[checker][packets] = "nil"
    /\ IF closed
       THEN /\ running' = [running EXCEPT ![checker] = FALSE]
            /\ timer' = [timer EXCEPT ![checker] = NoTimer]
            /\ ppc' = [ppc EXCEPT ![checker] = [stopped(checker) EXCEPT ![packets] = "idle"]]
            /\ UNCHANGED gpc
       ELSE /\ gpc' = [gpc EXCEPT ![cbConn] = "process"]
            /\ Return(checker, packets)
    /\ cb' = "receive"
    /\ cbConn' = NoConn
    /\ UNCHANGED <<closed, activeConn, cid, done, idle, expired, kpc, list>>

\* Start failed: conn.Close ...
StartFailed ==
    /\ cb = "starting"
    /\ ppc[checker][packets] = "err"
    /\ Return(checker, packets)
    /\ done' = [done EXCEPT ![cbConn] = TRUE]
    /\ cb' = "failed"
    /\ UNCHANGED <<closed, activeConn, cid, idle, gpc, cbConn, expired, kpc, list>>

\* Mutant: the entry is removed whoever holds it.
withoutAny(c) == [activeConn EXCEPT ![cid[c]] = NoConn]

\* removeConn: only the connection's own entry.
without(c) == IF activeConn[cid[c]] = c THEN [activeConn EXCEPT ![cid[c]] = NoConn]
                                        ELSE activeConn

\* ... and removeConn.
RemoveFailed ==
    /\ cb = "failed"
    /\ activeConn' = without(cbConn)
    /\ cb' = "receive"
    /\ cbConn' = NoConn
    /\ UNCHANGED <<periodicVars, closed, cid, done, idle, gpc, expired, kpc, list>>

-----------------------------------------------------------------------------
(* The goroutine of a connection. *)

\* proxy.Process returns, by itself or because the connection is done; then
\* conn.Close.
ProcessReturns(c) ==
    /\ gpc[c] = "process"
    /\ done' = [done EXCEPT ![c] = TRUE]
    /\ gpc' = [gpc EXCEPT ![c] = "remove"]
    /\ UNCHANGED <<periodicVars, closed, activeConn, cid, idle, cb, cbConn, expired,
                   kpc, list>>

RemoveConn(c) ==
    /\ gpc[c] = "remove"
    /\ activeConn' = without(c)
    /\ gpc' = [gpc EXCEPT ![c] = "end"]
    /\ UNCHANGED <<periodicVars, closed, cid, done, idle, cb, cbConn, expired, kpc, list>>

\* Two minutes pass without activity.
GoIdle(c) ==
    /\ gpc[c] # "free" /\ ~idle[c]
    /\ idle' = [idle EXCEPT ![c] = TRUE]
    /\ UNCHANGED <<periodicVars, closed, activeConn, cid, done, gpc, cb, cbConn,
                   expired, kpc, list>>

\* A read or write of the proxy updates the activity.
Activity(c) ==
    /\ gpc[c] = "process" /\ idle[c] /\ ~done[c]
    /\ idle' = [idle EXCEPT ![c] = FALSE]
    /\ UNCHANGED <<periodicVars, closed, activeConn, cid, done, gpc, cb, cbConn,
                   expired, kpc, list>>

-----------------------------------------------------------------------------
(* The checker: Execute is clean. *)

\* Nothing to clean: the task stops.
CleanNone(g) ==
    /\ Executing(checker, g) /\ expired[g] = {}
    /\ closed \/ activeConn = NoTable
    /\ Executed(checker, g, TRUE)
    /\ UNCHANGED workerVars

closes(idles) == idles

\* The locked part: take the idle connections out of the table.
CleanIdle(g) ==
    /\ Executing(checker, g) /\ expired[g] = {}
    /\ ~closed /\ activeConn # NoTable
    /\ LET idles == {c \in InTable(activeConn) : idle[c]} IN
       /\ activeConn' = [i \in Ids |-> IF activeConn[i] \in idles THEN NoConn
                                                                 ELSE activeConn[i]]
       /\ IF closes(idles) # {}
          THEN /\ expired' = [expired EXCEPT ![g] = closes(idles)]
               /\ UNCHANGED periodicVars
          ELSE /\ Executed(checker, g, FALSE)
               /\ UNCHANGED expired
    /\ UNCHANGED <<closed, cid, done, idle, gpc, cb, cbConn, kpc, list>>

\* Outside the lock: close them.
CleanClose(g) ==
    /\ Executing(checker, g) /\ expired[g] # {}
    /\ done' = [c \in Conns |-> done[c] \/ c \in expired[g]]
    /\ expired' = [expired EXCEPT ![g] = {}]
    /\ Executed(checker, g, FALSE)
    /\ UNCHANGED <<closed, activeConn, cid, idle, gpc, cb, cbConn, kpc, list>>

CheckerStep(g) ==
    \/ /\ Check(checker, g) \/ Arm(checker, g) \/ Fail(checker, g)
       /\ UNCHANGED workerVars
    \/ CleanNone(g) \/ CleanIdle(g) \/ CleanClose(g)

Tick(t) == Fire(checker, t) /\ UNCHANGED workerVars

-----------------------------------------------------------------------------
(* Close. *)

\* Mutant: the connections are forgotten.
detachedNone == {}

\* The connections Close detaches under the lock.
detachedConns == InTable(activeConn)

\* Under the lock; a second caller returns at once.
CloseCall(k) ==
    /\ kpc[k] = "idle"
    /\ IF closed
       THEN /\ kpc' = [kpc EXCEPT ![k] = "returned"]
            /\ UNCHANGED <<closed, activeConn, list>>
       ELSE /\ closed' = TRUE
            /\ list' = [list EXCEPT ![k] = detachedConns]
            /\ activeConn' = NoTable
            /\ kpc' = [kpc EXCEPT ![k] = "conns"]
    /\ UNCHANGED <<periodicVars, cid, done, idle, gpc, cb, cbConn, expired>>

\* conn.Close on each, and hub.Close.
CloseConns(k) ==
    /\ kpc[k] = "conns"
    /\ done' = [c \in Conns |-> done[c] \/ c \in list[k]]
    /\ list' = [list EXCEPT ![k] = {}]
    /\ kpc' = [kpc EXCEPT ![k] = "checker"]
    /\ UNCHANGED <<periodicVars, closed, activeConn, cid, idle, gpc, cb, cbConn, expired>>

CloseChecker(k) ==
    /\ kpc[k] = "checker"
    /\ Close({checker})
    /\ kpc' = [kpc EXCEPT ![k] = "returned"]
    /\ UNCHANGED <<closed, activeConn, cid, done, idle, gpc, cb, cbConn, expired, list>>

-----------------------------------------------------------------------------
CallbackStep == StartChecker \/ Started \/ StartFailed \/ RemoveFailed
CloserStep(k) == CloseConns(k) \/ CloseChecker(k)

Next ==
    \/ \E i \in Ids : PacketKnown(i) \/ \E c \in Conns : PacketNew(i, c)
    \/ CallbackStep
    \/ \E c \in Conns : ProcessReturns(c) \/ RemoveConn(c) \/ GoIdle(c) \/ Activity(c)
    \/ \E g \in Exec : CheckerStep(g)
    \/ \E t \in Timers : Tick(t)
    \/ \E k \in CloseCallers : CloseCall(k) \/ CloserStep(k)

Spec == Init /\ [][Next]_vars

-----------------------------------------------------------------------------
(* Properties. *)

\* Every connection made and not done has an owner that will close it: the
\* table, a clean or a Close that detached it.  In particular the goroutine of
\* a replaced connection does not remove its replacement, and a connection
\* that the callback has not served yet is not forgotten when Close comes.
\* The state is well typed throughout.
Owned ==
    /\ TypeOK
    /\ \A c \in Conns : gpc[c] # "free" /\ ~done[c] =>
          \/ activeConn[cid[c]] = c
          \/ \E g \in Exec : c \in expired[g]
          \/ \E k \in CloseCallers : c \in list[k]

\* When the Close that did the work has returned, nothing of the worker is left:
\* no connection is open, not even one that the callback made while Close was
\* running; and the checker is off although the callback may have restarted it
\* (a timer that still fires finds hasClosed and ends).
CloseIsFinal ==
    closed /\ (\A k \in CloseCallers : kpc[k] \in {"idle", "returned"}) =>
        /\ \A c \in Conns : gpc[c] # "free" =>
               done[c] \/ \E g \in Exec : c \in expired[g]
        /\ cb = "receive" => ~running[checker]
=============================================================================
