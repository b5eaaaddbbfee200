--------------------------- MODULE InboundHandler ---------------------------
(***************************************************************************)
(* app/proxyman/inbound: AlwaysOnInboundHandler and its stream workers.    *)
(*                                                                         *)
(* Every TCP or Unix worker owns a listener and the connections accepted   *)
(* from it through a streamOwnership; the handler owns the proxy that all  *)
(* its workers share.  Starting, accepting, serving and closing run in     *)
(* goroutines of their own.  One critical section of streamOwnership.mu is *)
(* one step here, as is every wait on a channel or a WaitGroup.            *)
(*                                                                         *)
(* A WaitGroup is the set of the goroutines it still counts: Add puts one  *)
(* in, Done takes it out, Wait passes when the set is empty.               *)
(***************************************************************************)
EXTENDS Integers, FiniteSets

CONSTANTS
    N,          \* the workers are h.workers[0 .. N-1], here 1 .. N
    Conns,      \* connections that may arrive
    NeedProxy,  \* those whose Process returns only once the proxy is closed
    OrigDest,   \* those whose destination is checked against the listener
    Starters,   \* goroutines that call handler.Start
    Closers,    \* goroutines that call handler.Close
    WorkerClosers   \* goroutines that call the Close of one worker

ASSUME HandlerAssumption ==
    /\ N \in Nat \ {0}
    /\ NeedProxy \subseteq Conns
    /\ OrigDest \subseteq Conns
    /\ Starters \cap Closers = {}
    /\ WorkerClosers \cap (Starters \cup Closers) = {}

Workers == 1 .. N
Callers == Starters \cup Closers \cup WorkerClosers

VARIABLES
    closed, hub,        \* per worker: streamOwnership.closed, hub published
    startDone,          \* per worker: no channel yet, made, or closed
    closeDone,          \* per worker: stop has finished
    active,             \* per worker: the entries of accepted connections
    starting, running,  \* per worker: the two WaitGroups
    listener,           \* per worker: the socket Listen opened
    cst, cw,            \* per connection: its stage, and its worker
    canceled, connClosed,   \* per connection: its context, its socket
    addr,               \* per connection: what listenerAddr answered
    once, proxyClosed,  \* closeOnce, and whether the shared proxy is closed
    pc, wk, snap        \* per caller: where it is, its worker, detached entries

connVars == <<cst, cw, canceled, connClosed, addr>>
vars == <<closed, hub, startDone, closeDone, active, starting, running, listener,
          cst, cw, canceled, connClosed, addr, once, proxyClosed, pc, wk, snap>>

\* The stages of a connection whose goroutine counts in running.
Live == {"addr", "process", "retire", "delete", "finish"}

TypeOK ==
    /\ closed \in [Workers -> BOOLEAN]
    /\ hub \in [Workers -> BOOLEAN]
    /\ startDone \in [Workers -> {"nil", "made", "closed"}]
    /\ closeDone \in [Workers -> BOOLEAN]
    /\ active \in [Workers -> SUBSET Conns]
    /\ starting \in [Workers -> SUBSET Starters]
    /\ running \in [Workers -> SUBSET Conns]
    /\ listener \in [Workers -> {"none", "open", "closed"}]
    /\ cst \in [Conns -> Live \cup {"new", "callback", "gone"}]
    /\ cw \in [Conns -> Workers]
    /\ canceled \in [Conns -> BOOLEAN]
    /\ connClosed \in [Conns -> BOOLEAN]
    /\ addr \in [Conns -> {"none", "nil", "hub"}]
    /\ once \in {"idle", "running", "done"}
    /\ proxyClosed \in BOOLEAN
    /\ pc \in [Callers -> {"idle", "begin", "listen", "publish", "reject",
                           "finish", "finishErr", "once", "stop", "cancel",
                           "closeConns", "closeHub", "waitStarting",
                           "waitCloseDone", "proxy", "waitRunning", "returned"}]
    /\ wk \in [Callers -> Workers]
    /\ snap \in [Callers -> SUBSET Conns]

Init ==
    /\ closed = [w \in Workers |-> FALSE]
    /\ hub = [w \in Workers |-> FALSE]
    /\ startDone = [w \in Workers |-> "nil"]
    /\ closeDone = [w \in Workers |-> FALSE]
    /\ active = [w \in Workers |-> {}]
    /\ starting = [w \in Workers |-> {}]
    /\ running = [w \in Workers |-> {}]
    /\ listener = [w \in Workers |-> "none"]
    /\ cst = [c \in Conns |-> "new"]
    /\ cw = [c \in Conns |-> 1]
    /\ canceled = [c \in Conns |-> FALSE]
    /\ connClosed = [c \in Conns |-> FALSE]
    /\ addr = [c \in Conns |-> "none"]
    /\ once = "idle"
    /\ proxyClosed = FALSE
    /\ pc = [g \in Callers |-> "idle"]
    /\ wk = [g \in Callers |-> 1]
    /\ snap = [g \in Callers |-> {}]

Goto(g, l) == pc' = [pc EXCEPT ![g] = l]

\* A loop over h.workers has another worker to visit.
more(g) == wk[g] < N

-----------------------------------------------------------------------------
(* handler.Start: the workers one after the other, and rollback. *)

StartCall(g) ==
    /\ pc[g] = "idle"
    /\ Goto(g, "begin")
    /\ UNCHANGED <<closed, hub, startDone, closeDone, active, starting, running,
                   listener, connVars, once, proxyClosed, wk, snap>>

\* beginStart's test: startDone is made in the same section as started is set.
mayStart(w) == ~closed[w] /\ startDone[w] = "nil"

\* beginStart: a closed or already started worker is refused, and the handler
\* rolls back through its own Close.
BeginStart(g) ==
    /\ pc[g] = "begin"
    /\ IF mayStart(wk[g])
       THEN /\ startDone' = [startDone EXCEPT ![wk[g]] = "made"]
            /\ starting' = [starting EXCEPT ![wk[g]] = @ \cup {g}]
            /\ Goto(g, "listen")
       ELSE /\ Goto(g, "once")
            /\ UNCHANGED <<startDone, starting>>
    /\ UNCHANGED <<closed, hub, closeDone, active, running, listener, connVars,
                   once, proxyClosed, wk, snap>>

\* internet.ListenTCP fails, or opens a socket whose callbacks may run at once.
Listen(g) ==
    /\ pc[g] = "listen"
    /\ \/ /\ listener' = [listener EXCEPT ![wk[g]] = "open"]
          /\ Goto(g, "publish")
       \/ /\ Goto(g, "finishErr")
          /\ UNCHANGED listener
    /\ UNCHANGED <<closed, hub, startDone, closeDone, active, starting, running,
                   connVars, once, proxyClosed, wk, snap>>

mayPublish(w) == ~closed[w]

\* publish: the hub is kept unless Close came first.
Publish(g) ==
    /\ pc[g] = "publish"
    /\ IF mayPublish(wk[g])
       THEN hub' = [hub EXCEPT ![wk[g]] = TRUE] /\ Goto(g, "finish")
       ELSE Goto(g, "reject") /\ UNCHANGED hub
    /\ UNCHANGED <<closed, startDone, closeDone, active, starting, running,
                   listener, connVars, once, proxyClosed, wk, snap>>

\* The starter closes the listener it could not publish.
RejectHub(g) ==
    /\ pc[g] = "reject"
    /\ listener' = [listener EXCEPT ![wk[g]] = "closed"]
    /\ Goto(g, "finishErr")
    /\ UNCHANGED <<closed, hub, startDone, closeDone, active, starting, running,
                   connVars, once, proxyClosed, wk, snap>>

\* finishStart, then the next worker, or the return, or the rollback.
FinishStart(g) ==
    /\ pc[g] \in {"finish", "finishErr"}
    /\ startDone' = [startDone EXCEPT ![wk[g]] = "closed"]
    /\ starting' = [starting EXCEPT ![wk[g]] = @ \ {g}]
    /\ IF pc[g] = "finishErr"
       THEN Goto(g, "once") /\ UNCHANGED wk
       ELSE IF more(g)
            THEN Goto(g, "begin") /\ wk' = [wk EXCEPT ![g] = @ + 1]
            ELSE Goto(g, "returned") /\ UNCHANGED wk
    /\ UNCHANGED <<closed, hub, closeDone, active, running, listener, connVars,
                   once, proxyClosed, snap>>

-----------------------------------------------------------------------------
(* Connections. *)

\* The listener's accept loop takes a connection off an open socket...
Arrive(w, c) ==
    /\ listener[w] = "open"
    /\ cst[c] = "new"
    /\ cst' = [cst EXCEPT ![c] = "callback"]
    /\ cw' = [cw EXCEPT ![c] = w]
    /\ UNCHANGED <<closed, hub, startDone, closeDone, active, starting, running,
                   listener, canceled, connClosed, addr, once, proxyClosed, pc,
                   wk, snap>>

\* Mutant: a connection is admitted after Close.
mayAcceptAlways(w) == TRUE

mayAccept(w) == ~closed[w]

\* ... and later runs the worker's callback: registered before its goroutine is
\* spawned, or refused and closed.
Accept(c) ==
    /\ cst[c] = "callback"
    /\ LET w == cw[c] IN
       IF mayAccept(w)
       THEN /\ active' = [active EXCEPT ![w] = @ \cup {c}]
            /\ running' = [running EXCEPT ![w] = @ \cup {c}]
            /\ cst' = [cst EXCEPT ![c] = IF c \in OrigDest THEN "addr" ELSE "process"]
            /\ UNCHANGED <<canceled, connClosed>>
       ELSE /\ canceled' = [canceled EXCEPT ![c] = TRUE]
            /\ connClosed' = [connClosed EXCEPT ![c] = TRUE]
            /\ cst' = [cst EXCEPT ![c] = "gone"]
            /\ UNCHANGED <<active, running>>
    /\ UNCHANGED <<closed, hub, startDone, closeDone, starting, listener, cw,
                   addr, once, proxyClosed, pc, wk, snap>>

\* Mutant: the listener's address is read without waiting for its publication.
addrReadyAtOnce(c) == TRUE

\* listenerAddr's wait: the start has finished, or the request is cancelled.
addrReady(c) == startDone[cw[c]] # "made" \/ canceled[c]

\* process: the self-loop check of a redirected connection.  A cancelled
\* request may find both arms ready; the cancelled arm answers nil.
ListenerAddr(c) ==
    /\ cst[c] = "addr"
    /\ addrReady(c)
    /\ \/ addr' = [addr EXCEPT ![c] = IF hub[cw[c]] THEN "hub" ELSE "nil"]
       \/ canceled[c] /\ addr' = [addr EXCEPT ![c] = "nil"]
    /\ cst' = [cst EXCEPT ![c] = "process"]
    /\ UNCHANGED <<closed, hub, startDone, closeDone, active, starting, running,
                   listener, cw, canceled, connClosed, once, proxyClosed, pc, wk,
                   snap>>

\* proxy.Process returns (on its own, or because its I/O is closed).
ProcessReturns(c) ==
    /\ cst[c] = "process"
    /\ c \in NeedProxy => proxyClosed
    /\ cst' = [cst EXCEPT ![c] = "retire"]
    /\ UNCHANGED <<closed, hub, startDone, closeDone, active, starting, running,
                   listener, cw, canceled, connClosed, addr, once, proxyClosed,
                   pc, wk, snap>>

\* retire, deferred: cancel and close, then forget the entry, then Done.
RetireClose(c) ==
    /\ cst[c] = "retire"
    /\ canceled' = [canceled EXCEPT ![c] = TRUE]
    /\ connClosed' = [connClosed EXCEPT ![c] = TRUE]
    /\ cst' = [cst EXCEPT ![c] = "delete"]
    /\ UNCHANGED <<closed, hub, startDone, closeDone, active, starting, running,
                   listener, cw, addr, once, proxyClosed, pc, wk, snap>>

RetireDelete(c) ==
    /\ cst[c] = "delete"
    /\ active' = [active EXCEPT ![cw[c]] = @ \ {c}]
    /\ cst' = [cst EXCEPT ![c] = "finish"]
    /\ UNCHANGED <<closed, hub, startDone, closeDone, starting, running, listener,
                   cw, canceled, connClosed, addr, once, proxyClosed, pc, wk, snap>>

RetireDone(c) ==
    /\ cst[c] = "finish"
    /\ running' = [running EXCEPT ![cw[c]] = @ \ {c}]
    /\ cst' = [cst EXCEPT ![c] = "gone"]
    /\ UNCHANGED <<closed, hub, startDone, closeDone, active, starting, listener,
                   cw, canceled, connClosed, addr, once, proxyClosed, pc, wk, snap>>

-----------------------------------------------------------------------------
(* streamOwnership.stop, called for the handler or for one worker. *)

\* handler.Close, and worker.Close on one worker.
CloseCall(g) ==
    /\ pc[g] = "idle"
    /\ IF g \in Closers
       THEN Goto(g, "once") /\ UNCHANGED wk
       ELSE Goto(g, "stop") /\ wk' \in {[wk EXCEPT ![g] = w] : w \in Workers}
    /\ UNCHANGED <<closed, hub, startDone, closeDone, active, starting, running,
                   listener, connVars, once, proxyClosed, snap>>

\* closeOnce.Do: the first caller runs the body, the others wait for it.
CloseOnce(g) ==
    /\ pc[g] = "once"
    /\ \/ /\ once = "idle"
          /\ once' = "running"
          /\ wk' = [wk EXCEPT ![g] = 1]
          /\ Goto(g, "stop")
       \/ /\ once = "done"
          /\ Goto(g, "returned")
          /\ UNCHANGED <<once, wk>>
    /\ UNCHANGED <<closed, hub, startDone, closeDone, active, starting, running,
                   listener, connVars, proxyClosed, snap>>

\* The locked part: close admission and detach what was admitted.
Stop(g) ==
    /\ pc[g] = "stop"
    /\ LET w == wk[g] IN
       IF closed[w]
       THEN /\ Goto(g, "waitCloseDone")
            /\ UNCHANGED <<closed, active, snap>>
       ELSE /\ closed' = [closed EXCEPT ![w] = TRUE]
            /\ snap' = [snap EXCEPT ![g] = active[w]]
            /\ active' = [active EXCEPT ![w] = {}]
            /\ Goto(g, "cancel")
    /\ UNCHANGED <<hub, startDone, closeDone, starting, running, listener,
                   connVars, once, proxyClosed, wk>>

\* Every request is cancelled before any socket is closed.
CancelAll(g) ==
    /\ pc[g] = "cancel"
    /\ canceled' = [c \in Conns |-> canceled[c] \/ c \in snap[g]]
    /\ Goto(g, "closeConns")
    /\ UNCHANGED <<closed, hub, startDone, closeDone, active, starting, running,
                   listener, cst, cw, connClosed, addr, once, proxyClosed, wk, snap>>

CloseConns(g) ==
    /\ pc[g] = "closeConns"
    /\ connClosed' = [c \in Conns |-> connClosed[c] \/ c \in snap[g]]
    /\ Goto(g, "closeHub")
    /\ UNCHANGED <<closed, hub, startDone, closeDone, active, starting, running,
                   listener, cst, cw, canceled, addr, once, proxyClosed, wk, snap>>

\* hub.Close on the hub read under the lock: once closed is set no hub is
\* published, so hub[w] is still what the locked part read.
CloseHub(g) ==
    /\ pc[g] = "closeHub"
    /\ listener' = IF hub[wk[g]] THEN [listener EXCEPT ![wk[g]] = "closed"]
                                 ELSE listener
    /\ Goto(g, "waitStarting")
    /\ UNCHANGED <<closed, hub, startDone, closeDone, active, starting, running,
                   connVars, once, proxyClosed, wk, snap>>

\* Where stop returns to: the handler goes to its next worker and then to the
\* proxy; a worker's Close waits for its connections.
Stopped(g) ==
    IF g \in WorkerClosers THEN Goto(g, "waitRunning") /\ UNCHANGED wk
    ELSE IF more(g) THEN Goto(g, "stop") /\ wk' = [wk EXCEPT ![g] = @ + 1]
    ELSE Goto(g, "proxy") /\ wk' = [wk EXCEPT ![g] = 1]

startingDone(w) == starting[w] = {}

\* starting.Wait, then the deferred close(closeDone).
WaitStarting(g) ==
    /\ pc[g] = "waitStarting"
    /\ startingDone(wk[g])
    /\ closeDone' = [closeDone EXCEPT ![wk[g]] = TRUE]
    /\ Stopped(g)
    /\ UNCHANGED <<closed, hub, startDone, active, starting, running, listener,
                   connVars, once, proxyClosed, snap>>

WaitCloseDone(g) ==
    /\ pc[g] = "waitCloseDone"
    /\ closeDone[wk[g]]
    /\ Stopped(g)
    /\ UNCHANGED <<closed, hub, startDone, closeDone, active, starting, running,
                   listener, connVars, once, proxyClosed, snap>>

-----------------------------------------------------------------------------
(* The rest of handler.Close. *)

\* Mutant: the proxy is closed only when the workers have been waited for.
CloseProxyLate(g) ==
    /\ pc[g] = "proxy"
    /\ \A w \in Workers : running[w] = {}
    /\ proxyClosed' = TRUE
    /\ Goto(g, "waitRunning")
    /\ UNCHANGED <<closed, hub, startDone, closeDone, active, starting, running,
                   listener, connVars, once, wk, snap>>

\* common.Close(h.proxy) and h.mux.Close().
CloseProxy(g) ==
    /\ pc[g] = "proxy"
    /\ proxyClosed' = TRUE
    /\ Goto(g, "waitRunning")
    /\ UNCHANGED <<closed, hub, startDone, closeDone, active, starting, running,
                   listener, connVars, once, wk, snap>>

\* Mutant: running.Wait is skipped.
runningDoneAlways(w) == TRUE

runningDone(w) == running[w] = {}

\* wait() of each worker in turn; then closeOnce is done.
WaitRunning(g) ==
    /\ pc[g] = "waitRunning"
    /\ runningDone(wk[g])
    /\ IF g \in WorkerClosers
       THEN Goto(g, "returned") /\ UNCHANGED <<once, wk>>
       ELSE IF more(g)
            THEN /\ Goto(g, "waitRunning")
                 /\ wk' = [wk EXCEPT ![g] = @ + 1]
                 /\ UNCHANGED once
            ELSE /\ Goto(g, "returned")
                 /\ once' = "done"
                 /\ UNCHANGED wk
    /\ UNCHANGED <<closed, hub, startDone, closeDone, active, starting, running,
                   listener, connVars, proxyClosed, snap>>

-----------------------------------------------------------------------------
\* What a goroutine inside Start or Close does next.
CallerStep(g) ==
    \/ BeginStart(g) \/ Listen(g) \/ Publish(g) \/ RejectHub(g) \/ FinishStart(g)
    \/ CloseOnce(g) \/ Stop(g) \/ CancelAll(g) \/ CloseConns(g) \/ CloseHub(g)
    \/ WaitStarting(g) \/ WaitCloseDone(g) \/ CloseProxy(g) \/ WaitRunning(g)

\* What the goroutine of a connection does next, Process aside.
ConnStep(c) ==
    \/ Accept(c) \/ ListenerAddr(c)
    \/ RetireClose(c) \/ RetireDelete(c) \/ RetireDone(c)

Next ==
    \/ \E g \in Starters : StartCall(g)
    \/ \E g \in Closers \cup WorkerClosers : CloseCall(g)
    \/ \E g \in Callers : CallerStep(g)
    \/ \E w \in Workers, c \in Conns : Arrive(w, c)
    \/ \E c \in Conns : ConnStep(c) \/ ProcessReturns(c)

Spec == Init /\ [][Next]_vars

\* Goroutines inside a call run on.  A Process owes its return only once its
\* context is cancelled and its socket closed.
Fairness ==
    /\ \A g \in Callers : WF_vars(CallerStep(g))
    /\ \A c \in Conns : WF_vars(ConnStep(c))
    /\ \A c \in Conns : WF_vars(canceled[c] /\ connClosed[c] /\ ProcessReturns(c))

FairSpec == Spec /\ Fairness

-----------------------------------------------------------------------------
(* Properties. *)

\* When handler.Close has returned to anybody, the first caller or one that
\* waited, no connection goroutine runs, no listener is open and the proxy is
\* closed; connections still in an accept loop can only be refused.
\* The state is well typed throughout.
CloseIsFinal ==
    /\ TypeOK
    /\ once = "done" =>
          /\ proxyClosed
          /\ \A w \in Workers : closed[w] /\ listener[w] # "open" /\ running[w] = {}
          /\ \A c \in Conns : cst[c] \notin Live

\* WaitGroup discipline: nothing is added to a WaitGroup that some goroutine
\* already waits for.
NoAddAfterWait ==
    [][\A g \in Callers :
          /\ pc[g] = "waitRunning" => running'[wk[g]] \subseteq running[wk[g]]
          /\ pc[g] = "waitStarting" => starting'[wk[g]] \subseteq starting[wk[g]]]_vars

\* The self-loop check of a redirected connection sees the listener's address
\* unless the worker is closing: a connection that arrives while Start is still
\* publishing is not let through unchecked.
LoopCheckSeesListener ==
    \A c \in Conns : addr[c] = "nil" => closed[cw[c]]

\* Every Start and every handler.Close returns, with any number of concurrent
\* callers, although some Process returns only once the proxy is closed; the
\* Close of one worker, which leaves the proxy alone, returns at the latest when
\* the handler is closed.
CallsReturn ==
    \A g \in Callers :
        (pc[g] # "idle" /\ (g \in WorkerClosers => once # "idle")) ~> pc[g] = "returned"
=============================================================================
