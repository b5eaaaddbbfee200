-------------------------- MODULE OutboundManager --------------------------
(***************************************************************************)
(* app/proxyman/outbound.Manager and the loop guard it shares with         *)
(* app/router.Router: handlers come and go and routing changes while the   *)
(* program runs, and no such change may close a loop.                      *)
(*                                                                         *)
(* AddHandler and the routing changes hold the graph mutex around a check  *)
(* and the publication; the registry itself is under the access lock, one  *)
(* section of which is one step.  RemoveHandler takes the access lock only *)
(* (and then retires the handler), as does Close.                          *)
(***************************************************************************)
EXTENDS LoopGraph

CONSTANTS
    Handlers,       \* the handlers that may be added
    Retiring,       \* those that support Retirement
    Routings,       \* the routings that AddRule, RemoveRule, ... may publish
    Adders, Removers, Routers, Closers,     \* goroutines, by what they call
    NoOwner         \* the graph mutex is free

\* The registry is finite; a goroutine makes one kind of call.
ASSUME ManagerAssumption ==
    /\ IsFiniteSet(Handlers) /\ Retiring \subseteq Handlers /\ NoHandler \notin Handlers
    /\ NoOwner \notin Adders \cup Routers
    /\ Adders \cap (Removers \cup Routers \cup Closers) = {}
    /\ Removers \cap (Routers \cup Closers) = {} /\ Routers \cap Closers = {}

VARIABLES
    published,      \* taggedHandler and untaggedHandlers
    defaultHandler,
    retiring,       \* handlers removed and not yet drained
    closed,
    routing,        \* the router's published rules and balancers
    graph,          \* who holds the graph mutex
    pc,             \* per goroutine
    arg,            \* per adder and remover: its handler
    def,            \* per adder: the default outbound its check is for
    hs,             \* per router, closer: the handlers it listed
    prop,           \* per router: the routing it proposes
    life,           \* history, per handler: not yet used, started, closed
    checkedDefault  \* history: the default outbound is one that a check has seen

vars == <<published, defaultHandler, retiring, closed, routing, graph, pc, arg, def, hs,
          prop, life, checkedDefault>>

Goroutines == Adders \cup Removers \cup Routers \cup Closers
AnyHandler == CHOOSE h \in Handlers : TRUE
AnyRouting == CHOOSE r \in Routings : TRUE

TypeOK ==
    /\ published \subseteq Handlers
    /\ defaultHandler \in Handlers \cup {NoHandler}
    /\ retiring \subseteq Retiring
    /\ closed \in BOOLEAN
    /\ routing \in Routings
    /\ graph \in Adders \cup Routers \cup {NoOwner}
    /\ \A g \in Adders \cup Routers :
          (graph = g) = (pc[g] \in {"default", "list", "publish"})
    /\ pc \in [Goroutines -> {"idle", "lock", "default", "list", "publish", "retire",
                              "drain", "close", "returned"}]
    /\ arg \in [Adders \cup Removers -> Handlers]
    /\ def \in [Adders -> Handlers \cup {NoHandler}]
    /\ hs \in [Routers \cup Closers -> SUBSET Handlers]
    /\ prop \in [Routers -> Routings]
    /\ life \in [Handlers -> {"new", "used", "started", "closed"}]
    /\ checkedDefault \in BOOLEAN

\* checkLoops: S1 and, through the router, S2.
loops(H, d, R) == dialerProxyCycle(H) \/ loopbackLoop(H, d, R)

UniqueTags(H) == \A h, k \in H : h.tag = k.tag /\ h.tag # NoTag => h = k

\* core.New added these handlers and checked them all; then Start started them.
Init ==
    /\ published \in SUBSET Handlers
    /\ defaultHandler \in published
    /\ UniqueTags(published)
    /\ routing \in Routings
    /\ ~loops(published, defaultHandler, routing)
    /\ retiring = {}
    /\ closed = FALSE
    /\ graph = NoOwner
    /\ pc = [g \in Goroutines |-> "idle"]
    /\ arg = [g \in Adders \cup Removers |-> AnyHandler]
    /\ def = [g \in Adders |-> NoHandler]
    /\ hs = [g \in Routers \cup Closers |-> {}]
    /\ prop = [g \in Routers |-> AnyRouting]
    /\ life = [h \in Handlers |-> IF h \in published THEN "started" ELSE "new"]
    /\ checkedDefault = TRUE

Goto(g, l) == pc' = [pc EXCEPT ![g] = l]

-----------------------------------------------------------------------------
(* AddHandler, on a manager that was started.  One that is closed, and so no *)
(* longer running, refuses the handler without a check.                      *)

AddCall(g, h) ==
    /\ pc[g] = "idle"
    /\ life[h] = "new"
    /\ life' = [life EXCEPT ![h] = "used"]
    /\ arg' = [arg EXCEPT ![g] = h]
    /\ Goto(g, IF closed THEN "returned" ELSE "lock")
    /\ UNCHANGED <<published, defaultHandler, retiring, closed, routing, graph, def, hs,
                   prop, checkedDefault>>

mayLock == graph = NoOwner

\* LockGraph, then the first test of the tag.
AddLock(g) ==
    /\ pc[g] = "lock"
    /\ mayLock
    /\ IF At(published, arg[g].tag) # {}
       THEN Goto(g, "returned") /\ UNCHANGED graph
       ELSE Goto(g, "default") /\ graph' = g
    /\ UNCHANGED <<published, defaultHandler, retiring, closed, routing, arg, def, hs, prop,
                   life, checkedDefault>>

\* GetDefaultHandler, or this handler if there is none.
AddDefault(g) ==
    /\ pc[g] = "default"
    /\ def' = [def EXCEPT ![g] = IF defaultHandler = NoHandler THEN arg[g] ELSE defaultHandler]
    /\ Goto(g, "list")
    /\ UNCHANGED <<published, defaultHandler, retiring, closed, routing, graph, arg, hs, prop,
                   life, checkedDefault>>

unlock == graph' = NoOwner

\* ListHandlers and checkLoops, on the routing published now.
AddCheck(g) ==
    /\ pc[g] = "list"
    /\ IF loops(published \cup {arg[g]}, def[g], routing)
       THEN Goto(g, "returned") /\ unlock
       ELSE Goto(g, "publish") /\ UNCHANGED graph
    /\ UNCHANGED <<published, defaultHandler, retiring, closed, routing, arg, def, hs, prop,
                   life, checkedDefault>>

\* Under the access lock: closed, the tag again, Start, and the publication.
\* Start may fail, in which case nothing is published.
AddPublish(g) ==
    /\ pc[g] = "publish"
    /\ LET h == arg[g] IN
       \/ /\ ~closed /\ At(published, h.tag) = {}
          /\ published' = published \cup {h}
          /\ life' = [life EXCEPT ![h] = "started"]
          /\ defaultHandler' = IF defaultHandler = NoHandler THEN h ELSE defaultHandler
          /\ checkedDefault' = (checkedDefault /\ (defaultHandler = NoHandler => def[g] = h))
       \/ UNCHANGED <<published, life, defaultHandler, checkedDefault>>
    /\ graph' = NoOwner
    /\ Goto(g, "returned")
    /\ UNCHANGED <<retiring, closed, routing, arg, def, hs, prop>>

-----------------------------------------------------------------------------
(* RemoveHandler. *)

defaultWithout(h) == IF defaultHandler = h THEN NoHandler ELSE defaultHandler

\* The registry forgets the tag, and the default if it has it.
RemoveCall(g, h) ==
    /\ pc[g] = "idle"
    /\ h \in published /\ h.tag # NoTag
    /\ published' = published \ {h}
    /\ defaultHandler' = defaultWithout(h)
    /\ checkedDefault' = (checkedDefault \/ defaultHandler = h)
    /\ arg' = [arg EXCEPT ![g] = h]
    /\ IF h \in Retiring
       THEN retiring' = retiring \cup {h} /\ Goto(g, "retire")
       ELSE Goto(g, "returned") /\ UNCHANGED retiring
    /\ UNCHANGED <<closed, routing, graph, def, hs, prop, life>>

\* Retire, outside the lock: the caller returns, a goroutine waits for the drain.
Retire(g) ==
    /\ pc[g] = "retire"
    /\ Goto(g, "drain")
    /\ UNCHANGED <<published, defaultHandler, retiring, closed, routing, graph, arg, def, hs,
                   prop, life, checkedDefault>>

\* The handler owns nothing any more: its streams ended, or Close closed it.
Drained(g) ==
    /\ pc[g] = "drain"
    /\ retiring' = retiring \ {arg[g]}
    /\ life' = [life EXCEPT ![arg[g]] = "closed"]
    /\ Goto(g, "returned")
    /\ UNCHANGED <<published, defaultHandler, closed, routing, graph, arg, def, hs, prop,
                   checkedDefault>>

-----------------------------------------------------------------------------
(* reloadRules, RemoveRule and SetOverrideTarget: propose, check, publish. *)

RouteCall(g, R) ==
    /\ pc[g] = "idle"
    /\ prop' = [prop EXCEPT ![g] = R]
    /\ Goto(g, "lock")
    /\ UNCHANGED <<published, defaultHandler, retiring, closed, routing, graph, arg, def, hs,
                   life, checkedDefault>>

RouteLock(g) ==
    /\ pc[g] = "lock"
    /\ mayLock
    /\ graph' = g
    /\ Goto(g, "list")
    /\ UNCHANGED <<published, defaultHandler, retiring, closed, routing, arg, def, hs, prop,
                   life, checkedDefault>>

\* guardRouting: ListHandlers ...
RouteList(g) ==
    /\ pc[g] = "list"
    /\ hs' = [hs EXCEPT ![g] = published]
    /\ Goto(g, "default")
    /\ UNCHANGED <<published, defaultHandler, retiring, closed, routing, graph, arg, def, prop,
                   life, checkedDefault>>

\* Mutant: RemoveRule and the others publish unchecked.
guardRoutingNot(H, R) == FALSE

guardRouting(H, R) == loopbackLoop(H, defaultHandler, R)

\* ... GetDefaultHandler and the check.
RouteCheck(g) ==
    /\ pc[g] = "default"
    /\ IF guardRouting(hs[g], prop[g])
       THEN Goto(g, "returned") /\ unlock
       ELSE Goto(g, "publish") /\ UNCHANGED graph
    /\ UNCHANGED <<published, defaultHandler, retiring, closed, routing, arg, def, hs, prop,
                   life, checkedDefault>>

RoutePublish(g) ==
    /\ pc[g] = "publish"
    /\ routing' = prop[g]
    /\ graph' = NoOwner
    /\ hs' = [hs EXCEPT ![g] = {}]
    /\ Goto(g, "returned")
    /\ UNCHANGED <<published, defaultHandler, retiring, closed, arg, def, prop, life,
                   checkedDefault>>

-----------------------------------------------------------------------------
(* Close. *)

\* Mutant: handlers that were removed and still drain are not closed.
ownedTagged == published

\* What Close collects under the lock.
owned == published \cup retiring

CloseCall(g) ==
    /\ pc[g] = "idle"
    /\ closed' = TRUE
    /\ hs' = [hs EXCEPT ![g] = owned]
    /\ Goto(g, "close")
    /\ UNCHANGED <<published, defaultHandler, retiring, routing, graph, arg, def, prop, life,
                   checkedDefault>>

\* h.Close, one after the other, without the lock.
CloseNext(g, h) ==
    /\ pc[g] = "close"
    /\ h \in hs[g]
    /\ hs' = [hs EXCEPT ![g] = @ \ {h}]
    /\ life' = [life EXCEPT ![h] = "closed"]
    /\ UNCHANGED <<published, defaultHandler, retiring, closed, routing, graph, pc, arg, def,
                   prop, checkedDefault>>

CloseReturns(g) ==
    /\ pc[g] = "close"
    /\ hs[g] = {}
    /\ Goto(g, "returned")
    /\ UNCHANGED <<published, defaultHandler, retiring, closed, routing, graph, arg, def, hs,
                   prop, life, checkedDefault>>

-----------------------------------------------------------------------------
AdderStep(g) == AddLock(g) \/ AddDefault(g) \/ AddCheck(g) \/ AddPublish(g)
RouterStep(g) == RouteLock(g) \/ RouteList(g) \/ RouteCheck(g) \/ RoutePublish(g)
CloserStep(g) == CloseReturns(g) \/ \E h \in Handlers : CloseNext(g, h)

Next ==
    \/ \E g \in Adders : AdderStep(g) \/ \E h \in Handlers : AddCall(g, h)
    \/ \E g \in Removers : Retire(g) \/ Drained(g) \/ \E h \in Handlers : RemoveCall(g, h)
    \/ \E g \in Routers : RouterStep(g) \/ \E R \in Routings : RouteCall(g, R)
    \/ \E g \in Closers : CloseCall(g) \/ CloserStep(g)

Spec == Init /\ [][Next]_vars

-----------------------------------------------------------------------------
(* Properties. *)

\* S1, S2 and S3.4: the dialerProxy graph of the published handlers never has a
\* cycle, and a change of routing and the addition of a handler never together
\* close a loop through loopbacks, as long as the default outbound is one that
\* some check has seen.
NoUncheckedLoop ==
    /\ ~dialerProxyCycle(published)
    /\ checkedDefault => ~loopbackLoop(published, defaultHandler, routing)

\* After Close no handler is left running: not one that was removed and still
\* drains, nor one that is being added; handlers without Retirement that were
\* removed are left to their connections, as RemoveHandler leaves them.
\* The state is well typed throughout.
CloseIsComplete ==
    /\ TypeOK
    /\ (\E g \in Closers : pc[g] = "returned") =>
          \A h \in published \cup retiring : life[h] = "closed"

\* spec/018-startup-loop-checks/spec.md, S3.3: "RemoveOutbound removes vertices
\* and edges only, and cannot create a loop."  No published graph has a loop.
NoLoop == ~loops(published, defaultHandler, routing)
=============================================================================
