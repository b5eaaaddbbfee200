--------------------------- MODULE InboundProofs ---------------------------
(***************************************************************************)
(* Proofs about InboundHandler, for any number of workers, connections and *)
(* callers of Start and of the two kinds of Close.                         *)
(*                                                                         *)
(* The argument has three parts.  A worker's start and its stop each have  *)
(* one owner: the goroutine that made startDone, the one that set closed.  *)
(* A listener that is open therefore has somebody who will close it, and   *)
(* closeDone means that nobody starts any more.  The body of closeOnce has *)
(* one owner too, which has closed the workers it has passed.              *)
(***************************************************************************)
EXTENDS InboundHandler, TLAPS

HandlerCallers == Starters \cup Closers

\* Between beginStart and finishStart; between the locked part of stop and the
\* close of closeDone; stop, seen by its caller; the body of closeOnce.
InStart == {"listen", "publish", "reject", "finish", "finishErr"}
InStop == {"cancel", "closeConns", "closeHub", "waitStarting"}
Stopping == InStop \cup {"stop", "waitCloseDone"}
InClose == Stopping \cup {"proxy", "waitRunning"}

\* Everywhere a caller can be.
Places == InStart \cup InClose \cup {"idle", "begin", "once", "returned"}

\* TypeOK with names for the sets of values, which most steps need not know.
StartStates == {"nil", "made", "closed"}
ListenerStates == {"none", "open", "closed"}
Answers == {"none", "nil", "hub"}
Stages == Live \cup {"new", "callback", "gone"}

CallerShape ==
    pc \in [Callers -> Places] /\ wk \in [Callers -> Workers] /\ snap \in [Callers -> SUBSET Conns]
FlagShape ==
    /\ closed \in [Workers -> BOOLEAN] /\ closeDone \in [Workers -> BOOLEAN]
    /\ hub \in [Workers -> BOOLEAN]
StageShape == startDone \in [Workers -> StartStates] /\ listener \in [Workers -> ListenerStates]
GroupShape ==
    /\ active \in [Workers -> SUBSET Conns] /\ running \in [Workers -> SUBSET Conns]
    /\ starting \in [Workers -> SUBSET Starters]
ConnShape ==
    /\ cst \in [Conns -> Stages] /\ addr \in [Conns -> Answers]
    /\ cw \in [Conns -> Workers] /\ canceled \in [Conns -> BOOLEAN]
    /\ connClosed \in [Conns -> BOOLEAN]
OnceShape == once \in {"idle", "running", "done"} /\ proxyClosed \in BOOLEAN

Shape == CallerShape /\ FlagShape /\ StageShape /\ GroupShape /\ ConnShape /\ OnceShape

\* Who can be where.
Roles ==
    \A g \in Callers :
        /\ pc[g] \in InStart \cup {"begin"} => g \in Starters
        /\ pc[g] \in {"once", "proxy"} => g \in HandlerCallers

\* A start is counted and is the only one of its worker.
OneStart ==
    /\ \A g \in Callers : pc[g] \in InStart =>
          g \in starting[wk[g]] /\ startDone[wk[g]] = "made"
    /\ \A g, h \in Callers :
          pc[g] \in InStart /\ pc[h] \in InStart /\ wk[g] = wk[h] => g = h

\* The hub of a worker is published by its start, at the end of it.
HubStages ==
    /\ \A g \in Callers : pc[g] \in InStart \ {"finish"} => ~hub[wk[g]]
    /\ \A g \in Callers : pc[g] = "finish" => hub[wk[g]]
    /\ \A w \in Workers : startDone[w] = "nil" => ~hub[w]

\* A start that is over has published a hub, or Listen has failed, or Close
\* came first.
ListenStages ==
    /\ \A g \in Callers : pc[g] = "listen" => listener[wk[g]] = "none"
    /\ \A g \in Callers : pc[g] = "reject" => closed[wk[g]]
    /\ \A g \in Callers : pc[g] = "finishErr" => listener[wk[g]] = "none" \/ closed[wk[g]]
    /\ \A w \in Workers : startDone[w] = "nil" => listener[w] = "none"
    /\ \A w \in Workers : startDone[w] = "closed" => listener[w] = "none" \/ hub[w] \/ closed[w]

\* The caller that set closed is the only one inside stop, until closeDone.
OneStop ==
    /\ \A g \in Callers : pc[g] \in InStop => closed[wk[g]] /\ ~closeDone[wk[g]]
    /\ \A g, h \in Callers :
          pc[g] \in InStop /\ pc[h] \in InStop /\ wk[g] = wk[h] => g = h
    /\ \A g \in Callers : pc[g] = "waitCloseDone" => closed[wk[g]]

\* An open listener has somebody who will close it once the worker is closed:
\* the starter that still holds it, or the stop that has not come to the hub.
OpenIsHeld ==
    /\ \A w \in Workers : listener[w] = "open" =>
          hub[w] \/ \E g \in Callers : pc[g] \in {"publish", "reject"} /\ wk[g] = w
    /\ \A w \in Workers : listener[w] = "open" /\ hub[w] /\ closed[w] =>
          \E g \in Callers : pc[g] \in {"cancel", "closeConns", "closeHub"} /\ wk[g] = w

\* closeDone: the worker is closed for good.
StoppedForGood ==
    \A w \in Workers : closeDone[w] =>
        closed[w] /\ starting[w] = {} /\ listener[w] # "open"

\* Connection goroutines are counted.
Counted == \A c \in Conns : cst[c] \in Live => c \in running[cw[c]]

\* One caller at most is in the body of closeOnce.
OneClose ==
    /\ \A g \in HandlerCallers : pc[g] \in InClose => once = "running"
    /\ \A g, h \in HandlerCallers : pc[g] \in InClose /\ pc[h] \in InClose => g = h

\* It has stopped the workers before the one it is at,
Passed ==
    \A g \in HandlerCallers : pc[g] \in Stopping =>
        \A w \in Workers : w < wk[g] => closeDone[w]

\* all of them when it comes to the proxy,
AllStopped ==
    /\ \A g \in HandlerCallers : pc[g] \in {"proxy", "waitRunning"} =>
          \A w \in Workers : closeDone[w]
    /\ \A g \in HandlerCallers : pc[g] = "proxy" => wk[g] = 1

\* and then waits for their connections.
Waited ==
    \A g \in HandlerCallers : pc[g] = "waitRunning" =>
        proxyClosed /\ \A w \in Workers : w < wk[g] => running[w] = {}

\* A worker that is waited for is closed.
WaitedIsClosed == \A g \in Callers : pc[g] = "waitRunning" => closeDone[wk[g]]

\* closeOnce is done.
ClosedForGood ==
    once = "done" => proxyClosed /\ \A w \in Workers : closeDone[w] /\ running[w] = {}

\* A connection is with a worker that has listened,
Taken == \A c \in Conns : cst[c] # "new" => listener[cw[c]] # "none"

\* and that worker, and its stop, are the only ones to know it.
AtWorker ==
    /\ \A w \in Workers, c \in Conns : c \in active[w] =>
          cw[c] = w /\ cst[c] \notin {"new", "callback"}
    /\ \A g \in Callers, c \in Conns : pc[g] = "cancel" /\ c \in snap[g] =>
          cw[c] = wk[g] /\ cst[c] \notin {"new", "callback"}

\* Only a closing worker cancels a request before its Process has returned.
CanceledIsClosing ==
    /\ \A c \in Conns : canceled[c] =>
          /\ cst[c] \notin {"new", "callback"}
          /\ closed[cw[c]] \/ cst[c] \in {"delete", "finish", "gone"}
    /\ \A c \in Conns : addr[c] = "nil" => cst[c] # "new" /\ closed[cw[c]]

Rest ==
    /\ Roles /\ OneStart /\ HubStages /\ ListenStages
    /\ OneStop /\ OpenIsHeld /\ StoppedForGood
    /\ Counted
    /\ OneClose /\ Passed /\ AllStopped /\ Waited /\ WaitedIsClosed /\ ClosedForGood
    /\ Taken /\ AtWorker /\ CanceledIsClosing

IInv == Shape /\ Rest

-----------------------------------------------------------------------------
\* h.workers has a first one, and one after every one but the last.
LEMMA WorkerNumbers == 1 \in Workers /\ \A w \in Workers : w < N => w + 1 \in Workers
BY HandlerAssumption DEF Workers

\* Nothing comes before the first one.
LEMMA NoneBeforeFirst == \A w \in Workers : ~(w < 1)
BY HandlerAssumption DEF Workers

\* The two ways of writing the type invariant.
LEMMA TypeShape == TypeOK <=> Shape
BY Zenon DEF TypeOK, Shape, CallerShape, FlagShape, StageShape, GroupShape, ConnShape,
   OnceShape, Places, InStart, InClose, Stopping, InStop, StartStates, ListenerStates, Answers,
   Stages

\* The callers of the handler, and those of one worker.
LEMMA CallerKinds ==
    /\ Starters \subseteq HandlerCallers /\ Closers \subseteq HandlerCallers
    /\ HandlerCallers \subseteq Callers /\ WorkerClosers \subseteq Callers
    /\ \A g \in Callers : g \in HandlerCallers <=> g \notin WorkerClosers
BY Zenon, HandlerAssumption DEF HandlerCallers, Callers

\* The initial state satisfies the inductive invariant.
LEMMA InitInv == Init => IInv
<1> SUFFICES ASSUME Init PROVE IInv
  BY Zenon
<1>1. Shape
  <2>1. TypeOK
    BY Zenon, WorkerNumbers DEF Init, TypeOK, Live
  <2> QED BY Zenon, <2>1, TypeShape
<1>2. Roles /\ OneStart /\ HubStages /\ ListenStages /\ OneStop /\ OpenIsHeld
      /\ StoppedForGood
  BY Zenon DEF Init, Roles, OneStart, HubStages, ListenStages, OneStop, OpenIsHeld,
     StoppedForGood, InStart, InStop
<1>3. Counted /\ WaitedIsClosed /\ ClosedForGood /\ Taken /\ AtWorker /\ CanceledIsClosing
  BY Zenon DEF Init, Counted, WaitedIsClosed, ClosedForGood, Taken, AtWorker,
     CanceledIsClosing, Live
<1>4. OneClose /\ Passed /\ AllStopped /\ Waited
  BY Zenon, CallerKinds DEF Init, OneClose, Passed, AllStopped, Waited, InClose, Stopping,
     InStop
<1> QED BY Zenon, <1>1, <1>2, <1>3, <1>4 DEF IInv, Rest


\* Start is called on the handler.
LEMMA StartCallStep == ASSUME NEW g \in Starters, IInv, StartCall(g) PROVE IInv'
<1> USE DEF IInv, Shape, Rest
<1> g \in Callers
  BY Zenon, CallerKinds DEF Callers
<1> /\ \A h \in Callers : h # g => pc'[h] = pc[h]
    /\ pc[g] = "idle" /\ pc'[g] = "begin"
    /\ \A h \in Callers : wk[h] \in Workers
  BY Zenon DEF StartCall, Goto, CallerShape
<1> UNCHANGED <<closed, hub, startDone, closeDone, active, starting, running, listener, cst, cw,
                canceled, connClosed, addr, once, proxyClosed, wk, snap>>
  BY Zenon DEF StartCall, connVars
<1>1. CallerShape'
  BY Zenon DEF StartCall, Goto, CallerShape, Places, InStart, InClose, Stopping, InStop
<1>2. FlagShape' /\ StageShape' /\ GroupShape' /\ ConnShape' /\ OnceShape'
  BY Zenon DEF FlagShape, StageShape, GroupShape, ConnShape, OnceShape
<1>3. StoppedForGood' /\ Counted' /\ ClosedForGood' /\ Taken' /\ CanceledIsClosing'
  BY Zenon DEF StoppedForGood, Counted, ClosedForGood, Taken, CanceledIsClosing
<1>4. Roles'
  BY Zenon, CallerKinds DEF Roles, InStart
<1>5. OneStart'
  BY Zenon DEF OneStart, InStart
<1>6. HubStages'
  BY Zenon DEF HubStages, InStart
<1>7. ListenStages'
  BY Zenon DEF ListenStages, InStart
<1>8. OneStop'
  BY Zenon DEF OneStop, InStop
<1>9. OpenIsHeld'
  BY ZenonT(40) DEF OpenIsHeld
<1>10. OneClose'
  BY Zenon, CallerKinds DEF OneClose, InClose, Stopping, InStop
<1>11. Passed'
  BY Zenon, CallerKinds DEF Passed, Stopping, InStop
<1>12. AllStopped'
  BY Zenon, CallerKinds DEF AllStopped
<1>13. Waited'
  BY Zenon, CallerKinds DEF Waited
<1>14. WaitedIsClosed'
  BY Zenon DEF WaitedIsClosed
<1>15. AtWorker'
  BY Zenon DEF AtWorker
<1> QED BY Zenon, <1>1, <1>2, <1>3, <1>4, <1>5, <1>6, <1>7, <1>8, <1>9, <1>10, <1>11, <1>12,
    <1>13, <1>14, <1>15

\* beginStart, under the worker's lock: a start that makes startDone becomes
\* its one owner.
LEMMA BeginStartStep == ASSUME NEW g \in Callers, IInv, BeginStart(g) PROVE IInv'
<1> USE DEF IInv, Shape, Rest
<1> /\ \A h \in Callers : h # g => pc'[h] = pc[h]
    /\ pc[g] = "begin"
    /\ \/ /\ pc'[g] = "listen" /\ ~closed[wk[g]] /\ startDone[wk[g]] = "nil"
          /\ startDone'[wk[g]] = "made" /\ g \in starting'[wk[g]]
       \/ pc'[g] = "once" /\ UNCHANGED <<startDone, starting>>
    /\ \A w \in Workers : w # wk[g] => startDone'[w] = startDone[w] /\ starting'[w] = starting[w]
    /\ starting[wk[g]] \subseteq starting'[wk[g]]
    /\ \A h \in Callers : wk[h] \in Workers
  BY DEF BeginStart, Goto, mayStart, CallerShape, StageShape, GroupShape, FlagShape
<1> UNCHANGED <<closed, hub, closeDone, active, running, listener, cst, cw, canceled,
                connClosed, addr, once, proxyClosed, wk, snap>>
  BY Zenon DEF BeginStart, connVars
<1>1. CallerShape'
  BY DEF BeginStart, Goto, mayStart, CallerShape, Places, InStart, InClose, Stopping, InStop
<1>2. StageShape'
  BY ZenonT(40) DEF BeginStart, mayStart, StageShape, StartStates, ListenerStates
<1>3. GroupShape'
  <2>1. g \in Starters
    BY Zenon DEF Roles
  <2> QED BY <2>1 DEF BeginStart, mayStart, GroupShape
<1>4. FlagShape' /\ ConnShape' /\ OnceShape'
  BY Zenon DEF FlagShape, ConnShape, OnceShape
<1>5. Counted' /\ ClosedForGood' /\ Taken' /\ CanceledIsClosing'
  BY Zenon DEF Counted, ClosedForGood, Taken, CanceledIsClosing
<1>6. Roles'
  BY Zenon, CallerKinds DEF Roles, InStart
<1>7. OneStart'
  BY DEF OneStart, InStart
<1>8. HubStages'
  BY Zenon DEF HubStages, InStart, OneStart
<1>9. ListenStages'
  BY DEF ListenStages, InStart
<1>10. OneStop'
  BY Zenon DEF OneStop, InStop
<1>11. OpenIsHeld'
  BY DEF OpenIsHeld
<1>12. StoppedForGood'
  BY Zenon DEF StoppedForGood
<1>13. OneClose'
  BY Zenon, CallerKinds DEF OneClose, InClose, Stopping, InStop
<1>14. Passed'
  BY Zenon, CallerKinds DEF Passed, Stopping, InStop
<1>15. AllStopped'
  BY Zenon, CallerKinds DEF AllStopped
<1>16. Waited'
  BY CallerKinds DEF Waited
<1>17. WaitedIsClosed'
  BY Zenon DEF WaitedIsClosed
<1>18. AtWorker'
  BY DEF AtWorker
<1> QED BY Zenon, <1>1, <1>2, <1>3, <1>4, <1>5, <1>6, <1>7, <1>8, <1>9, <1>10, <1>11, <1>12,
    <1>13, <1>14, <1>15, <1>16, <1>17, <1>18

\* Listen, outside the lock: the owner of the start now holds the listener, or
\* nothing.
LEMMA ListenStep == ASSUME NEW g \in Callers, IInv, Listen(g) PROVE IInv'
<1> USE DEF IInv, Shape, Rest
<1> /\ \A h \in Callers : h # g => pc'[h] = pc[h]
    /\ pc[g] = "listen"
    /\ \/ pc'[g] = "publish" /\ listener'[wk[g]] = "open"
       \/ pc'[g] = "finishErr" /\ listener' = listener
    /\ \A w \in Workers : w # wk[g] => listener'[w] = listener[w]
    /\ \A h \in Callers : wk[h] \in Workers
  BY Zenon DEF Listen, Goto, CallerShape, StageShape
<1> UNCHANGED <<closed, hub, startDone, closeDone, active, starting, running, cst, cw, canceled,
                connClosed, addr, once, proxyClosed, wk, snap>>
  BY Zenon DEF Listen, connVars
<1>1. CallerShape'
  BY DEF Listen, Goto, CallerShape, Places, InStart, InClose, Stopping, InStop
<1>2. StageShape'
  BY ZenonT(40) DEF Listen, StageShape, StartStates, ListenerStates
<1>3. FlagShape' /\ GroupShape' /\ ConnShape' /\ OnceShape'
  BY Zenon DEF FlagShape, GroupShape, ConnShape, OnceShape
<1>4. Counted' /\ ClosedForGood' /\ CanceledIsClosing'
  BY Zenon DEF Counted, ClosedForGood, CanceledIsClosing
<1>5. Roles'
  BY Zenon, CallerKinds DEF Roles, InStart
<1>6. OneStart'
  BY DEF OneStart, InStart
<1>7. HubStages'
  BY Zenon DEF HubStages, InStart
<1>8. ListenStages'
  BY DEF ListenStages, InStart, OneStart
<1>9. OneStop'
  BY Zenon DEF OneStop, InStop
<1>10. OpenIsHeld'
  BY DEF OpenIsHeld, HubStages, InStart
<1>11. StoppedForGood'
  BY Zenon DEF StoppedForGood, OneStart, InStart
<1>12. OneClose'
  BY Zenon, CallerKinds DEF OneClose, InClose, Stopping, InStop
<1>13. Passed'
  BY Zenon, CallerKinds DEF Passed, Stopping, InStop
<1>14. AllStopped'
  BY Zenon, CallerKinds DEF AllStopped
<1>15. Waited'
  BY Zenon, CallerKinds DEF Waited
<1>16. WaitedIsClosed'
  BY Zenon DEF WaitedIsClosed
<1>17. Taken'
  BY Zenon DEF Taken, ConnShape
<1>18. AtWorker'
  BY Zenon DEF AtWorker
<1> QED BY Zenon, <1>1, <1>2, <1>3, <1>4, <1>5, <1>6, <1>7, <1>8, <1>9, <1>10, <1>11, <1>12,
    <1>13, <1>14, <1>15, <1>16, <1>17, <1>18

\* publish, under the lock again: the hub changes hands unless Close came
\* first.
LEMMA PublishStep == ASSUME NEW g \in Callers, IInv, Publish(g) PROVE IInv'
<1> USE DEF IInv, Shape, Rest
<1> /\ \A h \in Callers : h # g => pc'[h] = pc[h]
    /\ pc[g] = "publish"
    /\ \/ pc'[g] = "finish" /\ hub'[wk[g]] /\ ~closed[wk[g]]
       \/ pc'[g] = "reject" /\ hub'[wk[g]] = hub[wk[g]] /\ closed[wk[g]]
    /\ \A w \in Workers : w # wk[g] => hub'[w] = hub[w]
    /\ \A h \in Callers : wk[h] \in Workers
  BY Zenon DEF Publish, Goto, mayPublish, CallerShape, FlagShape
<1> UNCHANGED <<closed, startDone, closeDone, active, starting, running, listener, cst, cw,
                canceled, connClosed, addr, once, proxyClosed, wk, snap>>
  BY Zenon DEF Publish, connVars
<1>1. CallerShape'
  BY DEF Publish, Goto, mayPublish, CallerShape, Places, InStart, InClose, Stopping, InStop
<1>2. FlagShape'
  BY Zenon DEF Publish, mayPublish, FlagShape
<1>3. StageShape' /\ GroupShape' /\ ConnShape' /\ OnceShape'
  BY Zenon DEF StageShape, GroupShape, ConnShape, OnceShape
<1>4. StoppedForGood' /\ Counted' /\ ClosedForGood' /\ Taken' /\ CanceledIsClosing'
  BY Zenon DEF StoppedForGood, Counted, ClosedForGood, Taken, CanceledIsClosing
<1>5. Roles'
  BY Zenon, CallerKinds DEF Roles, InStart
<1>6. OneStart'
  BY DEF OneStart, InStart
<1>7. HubStages'
  BY DEF HubStages, InStart, OneStart
<1>8. ListenStages'
  BY DEF ListenStages, InStart
<1>9. OneStop'
  BY Zenon DEF OneStop, InStop
<1>10. OpenIsHeld'
  BY DEF OpenIsHeld
<1>11. OneClose'
  BY Zenon, CallerKinds DEF OneClose, InClose, Stopping, InStop
<1>12. Passed'
  BY Zenon, CallerKinds DEF Passed, Stopping, InStop
<1>13. AllStopped'
  BY Zenon, CallerKinds DEF AllStopped
<1>14. Waited'
  BY Zenon, CallerKinds DEF Waited
<1>15. WaitedIsClosed'
  BY Zenon DEF WaitedIsClosed
<1>16. AtWorker'
  BY ZenonT(40) DEF AtWorker
<1> QED BY Zenon, <1>1, <1>2, <1>3, <1>4, <1>5, <1>6, <1>7, <1>8, <1>9, <1>10, <1>11, <1>12,
    <1>13, <1>14, <1>15, <1>16

\* A start that Close has overtaken closes the listener it still holds.
LEMMA RejectHubStep == ASSUME NEW g \in Callers, IInv, RejectHub(g) PROVE IInv'
<1> USE DEF IInv, Shape, Rest
<1> /\ \A h \in Callers : h # g => pc'[h] = pc[h]
    /\ pc[g] = "reject" /\ pc'[g] = "finishErr"
    /\ listener'[wk[g]] = "closed" /\ \A w \in Workers : w # wk[g] => listener'[w] = listener[w]
    /\ \A h \in Callers : wk[h] \in Workers
  BY Zenon DEF RejectHub, Goto, CallerShape, StageShape
<1> UNCHANGED <<closed, hub, startDone, closeDone, active, starting, running, cst, cw, canceled,
                connClosed, addr, once, proxyClosed, wk, snap>>
  BY Zenon DEF RejectHub, connVars
<1>1. CallerShape'
  BY Zenon DEF RejectHub, Goto, CallerShape, Places, InStart, InClose, Stopping, InStop
<1>2. StageShape'
  BY Zenon DEF RejectHub, StageShape, StartStates, ListenerStates
<1>3. FlagShape' /\ GroupShape' /\ ConnShape' /\ OnceShape'
  BY Zenon DEF FlagShape, GroupShape, ConnShape, OnceShape
<1>4. Counted' /\ ClosedForGood' /\ CanceledIsClosing'
  BY Zenon DEF Counted, ClosedForGood, CanceledIsClosing
<1>5. Roles'
  BY Zenon, CallerKinds DEF Roles, InStart
<1>6. OneStart'
  BY DEF OneStart, InStart
<1>7. HubStages'
  BY Zenon DEF HubStages, InStart
<1>8. ListenStages'
  BY DEF ListenStages, InStart, OneStart
<1>9. OneStop'
  BY Zenon DEF OneStop, InStop
<1>10. OpenIsHeld'
  BY DEF OpenIsHeld
<1>11. StoppedForGood'
  BY Zenon DEF StoppedForGood
<1>12. OneClose'
  BY Zenon, CallerKinds DEF OneClose, InClose, Stopping, InStop
<1>13. Passed'
  BY Zenon, CallerKinds DEF Passed, Stopping, InStop
<1>14. AllStopped'
  BY Zenon, CallerKinds DEF AllStopped
<1>15. Waited'
  BY Zenon, CallerKinds DEF Waited
<1>16. WaitedIsClosed'
  BY Zenon DEF WaitedIsClosed
<1>17. Taken'
  BY Zenon DEF Taken, ConnShape
<1>18. AtWorker'
  BY DEF AtWorker
<1> QED BY Zenon, <1>1, <1>2, <1>3, <1>4, <1>5, <1>6, <1>7, <1>8, <1>9, <1>10, <1>11, <1>12,
    <1>13, <1>14, <1>15, <1>16, <1>17, <1>18

\* finishStart: the owner of the start leaves it with the hub published or no
\* listener open.
LEMMA FinishStartStep == ASSUME NEW g \in Callers, IInv, FinishStart(g) PROVE IInv'
<1> USE DEF IInv, Shape, Rest
<1> /\ \A h \in Callers : h # g => pc'[h] = pc[h] /\ wk'[h] = wk[h]
    /\ pc[g] \in {"finish", "finishErr"} /\ pc'[g] \in {"once", "begin", "returned"}
    /\ startDone'[wk[g]] = "closed" /\ \A w \in Workers : w # wk[g] => startDone'[w] = startDone[w]
    /\ starting'[wk[g]] = starting[wk[g]] \ {g}
       /\ \A w \in Workers : w # wk[g] => starting'[w] = starting[w]
    /\ \A h \in Callers : wk[h] \in Workers
  BY Zenon DEF FinishStart, Goto, more, CallerShape, StageShape, GroupShape
<1> UNCHANGED <<closed, hub, closeDone, active, running, listener, cst, cw, canceled,
                connClosed, addr, once, proxyClosed, snap>>
  BY Zenon DEF FinishStart, connVars
<1>1. CallerShape'
  BY WorkerNumbers DEF FinishStart, Goto, more, CallerShape, Places, InStart, InClose,
     Stopping, InStop
<1>2. StageShape'
  BY Zenon DEF FinishStart, more, StageShape, StartStates, ListenerStates
<1>3. GroupShape'
  BY Zenon DEF FinishStart, more, GroupShape
<1>4. FlagShape' /\ ConnShape' /\ OnceShape'
  BY Zenon DEF FlagShape, ConnShape, OnceShape
<1>5. Counted' /\ ClosedForGood' /\ Taken' /\ CanceledIsClosing'
  BY Zenon DEF Counted, ClosedForGood, Taken, CanceledIsClosing
<1>6. Roles'
  BY Zenon, CallerKinds DEF Roles, InStart
<1>7. OneStart'
  BY DEF OneStart, InStart
<1>8. HubStages'
  BY Zenon DEF HubStages, InStart, OneStart
<1>9. ListenStages'
  BY DEF ListenStages, InStart, OneStart, HubStages
<1>10. OneStop'
  BY DEF OneStop, InStop
<1>11. OpenIsHeld'
  BY DEF OpenIsHeld
<1>12. StoppedForGood'
  BY Zenon DEF StoppedForGood
<1>13. OneClose'
  BY CallerKinds DEF OneClose, InClose, Stopping, InStop
<1>14. Passed'
  BY Zenon, CallerKinds DEF Passed, Stopping, InStop
<1>15. AllStopped'
  BY Zenon, CallerKinds DEF AllStopped
<1>16. Waited'
  BY Zenon, CallerKinds DEF Waited
<1>17. WaitedIsClosed'
  BY Zenon DEF WaitedIsClosed
<1>18. AtWorker'
  BY ZenonT(40) DEF AtWorker
<1> QED BY Zenon, <1>1, <1>2, <1>3, <1>4, <1>5, <1>6, <1>7, <1>8, <1>9, <1>10, <1>11, <1>12,
    <1>13, <1>14, <1>15, <1>16, <1>17, <1>18

\* The listener takes a connection, which is then with its worker.
LEMMA ArriveStep == ASSUME NEW w \in Workers, NEW c \in Conns, IInv, Arrive(w, c) PROVE IInv'
<1> USE DEF IInv, Shape, Rest
<1> /\ listener[w] = "open" /\ cst[c] = "new" /\ cst'[c] = "callback" /\ cw'[c] = w
    /\ \A d \in Conns : d # c => cst'[d] = cst[d] /\ cw'[d] = cw[d]
    /\ \A d \in Conns : cw[d] \in Workers
  BY Zenon DEF Arrive, ConnShape
<1> UNCHANGED <<closed, hub, startDone, closeDone, active, starting, running, listener,
                canceled, connClosed, addr, once, proxyClosed, pc, wk, snap>>
  BY Zenon DEF Arrive
<1>1. ConnShape'
  BY Zenon DEF Arrive, ConnShape, Stages, Live, Answers
<1>2. CallerShape' /\ FlagShape' /\ StageShape' /\ GroupShape' /\ OnceShape'
  BY Zenon DEF CallerShape, FlagShape, StageShape, GroupShape, OnceShape
<1>3. Roles' /\ OneStart' /\ HubStages' /\ ListenStages' /\ OneStop'
  BY Zenon DEF Roles, OneStart, HubStages, ListenStages, OneStop
<1>4. OpenIsHeld' /\ StoppedForGood' /\ OneClose' /\ Passed' /\ AllStopped'
  BY DEF OpenIsHeld, StoppedForGood, OneClose, Passed, AllStopped
<1>5. Waited' /\ WaitedIsClosed' /\ ClosedForGood'
  BY Zenon DEF Waited, WaitedIsClosed, ClosedForGood
<1>6. Counted'
  BY Zenon DEF Counted, Live
<1>7. Taken'
  BY Zenon DEF Taken
<1>8. AtWorker'
  BY DEF AtWorker
<1>9. CanceledIsClosing'
  BY Zenon DEF CanceledIsClosing
<1> QED BY Zenon, <1>1, <1>2, <1>3, <1>4, <1>5, <1>6, <1>7, <1>8, <1>9

\* The callback counts the connection under the lock only while the worker is
\* not closed.
LEMMA AcceptStep == ASSUME NEW c \in Conns, IInv, Accept(c) PROVE IInv'
<1> USE DEF IInv, Shape, Rest
<1> /\ cst[c] = "callback"
    /\ \/ /\ ~closed[cw[c]] /\ c \in running'[cw[c]] /\ active'[cw[c]] = active[cw[c]] \cup {c}
          /\ cst'[c] \in {"addr", "process"} /\ canceled' = canceled
       \/ closed[cw[c]] /\ cst'[c] = "gone" /\ canceled'[c] /\ UNCHANGED <<active, running>>
    /\ \A d \in Conns : d # c => cst'[d] = cst[d] /\ canceled'[d] = canceled[d]
    /\ \A w \in Workers : w # cw[c] => active'[w] = active[w] /\ running'[w] = running[w]
    /\ running[cw[c]] \subseteq running'[cw[c]]
    /\ \A d \in Conns : cw[d] \in Workers
  BY DEF Accept, mayAccept, ConnShape, GroupShape
<1> UNCHANGED <<closed, hub, startDone, closeDone, starting, listener, cw, addr, once,
                proxyClosed, pc, wk, snap>>
  BY Zenon DEF Accept
<1>1. GroupShape'
  BY DEF Accept, mayAccept, GroupShape
<1>2. ConnShape'
  <2>1. cst' \in [Conns -> Stages]
    BY DEF Accept, mayAccept, ConnShape, Stages, Live
  <2>2. canceled' \in [Conns -> BOOLEAN] /\ connClosed' \in [Conns -> BOOLEAN]
    BY Zenon DEF Accept, mayAccept, ConnShape
  <2> QED BY Zenon, <2>1, <2>2 DEF ConnShape
<1>3. CallerShape' /\ FlagShape' /\ StageShape' /\ OnceShape'
  BY Zenon DEF CallerShape, FlagShape, StageShape, OnceShape
<1>4. Roles' /\ OneStart' /\ HubStages' /\ ListenStages' /\ OneStop'
  BY Zenon DEF Roles, OneStart, HubStages, ListenStages, OneStop
<1>5. OpenIsHeld' /\ StoppedForGood' /\ OneClose' /\ Passed' /\ AllStopped'
  BY DEF OpenIsHeld, StoppedForGood, OneClose, Passed, AllStopped
<1>6. WaitedIsClosed'
  BY Zenon DEF WaitedIsClosed
<1>7. Counted'
  BY Zenon DEF Counted, Live
<1>8. Waited'
  BY Zenon, CallerKinds DEF Waited, StoppedForGood, AllStopped
<1>9. ClosedForGood'
  BY Zenon DEF ClosedForGood, StoppedForGood
<1>10. Taken'
  BY Zenon DEF Taken
<1>11. AtWorker'
  BY DEF AtWorker
<1>12. CanceledIsClosing'
  BY Zenon DEF CanceledIsClosing
<1> QED BY Zenon, <1>1, <1>2, <1>3, <1>4, <1>5, <1>6, <1>7, <1>8, <1>9, <1>10, <1>11, <1>12

\* listenerAddr answers nil only for a worker that has been closed.
LEMMA ListenerAddrStep == ASSUME NEW c \in Conns, IInv, ListenerAddr(c) PROVE IInv'
<1> USE DEF IInv, Shape, Rest
<1> /\ cst[c] = "addr" /\ cst'[c] = "process"
    /\ canceled[c] \/ startDone[cw[c]] \in {"nil", "closed"}
    /\ addr'[c] = "nil" => canceled[c] \/ ~hub[cw[c]]
    /\ \A d \in Conns : d # c => cst'[d] = cst[d] /\ addr'[d] = addr[d]
    /\ \A d \in Conns : cw[d] \in Workers
  BY Zenon DEF ListenerAddr, addrReady, ConnShape, StageShape, StartStates
<1> UNCHANGED <<closed, hub, startDone, closeDone, active, starting, running, listener, cw,
                canceled, connClosed, once, proxyClosed, pc, wk, snap>>
  BY Zenon DEF ListenerAddr
<1>1. ConnShape'
  BY Zenon DEF ListenerAddr, addrReady, ConnShape, Stages, Live, Answers
<1>2. CallerShape' /\ FlagShape' /\ StageShape' /\ GroupShape' /\ OnceShape'
  BY Zenon DEF CallerShape, FlagShape, StageShape, GroupShape, OnceShape
<1>3. Roles' /\ OneStart' /\ HubStages' /\ ListenStages' /\ OneStop'
  BY Zenon DEF Roles, OneStart, HubStages, ListenStages, OneStop
<1>4. OpenIsHeld' /\ StoppedForGood' /\ OneClose' /\ Passed' /\ AllStopped'
  BY DEF OpenIsHeld, StoppedForGood, OneClose, Passed, AllStopped
<1>5. Waited' /\ WaitedIsClosed' /\ ClosedForGood'
  BY Zenon DEF Waited, WaitedIsClosed, ClosedForGood
<1>6. Counted'
  BY Zenon DEF Counted, Live
<1>7. Taken'
  BY Zenon DEF Taken
<1>8. AtWorker'
  BY DEF AtWorker
<1>9. CanceledIsClosing'
  BY ZenonT(40) DEF CanceledIsClosing, ListenStages, Taken
<1> QED BY Zenon, <1>1, <1>2, <1>3, <1>4, <1>5, <1>6, <1>7, <1>8, <1>9

\* A connection's Process returns.
LEMMA ProcessReturnsStep == ASSUME NEW c \in Conns, IInv, ProcessReturns(c) PROVE IInv'
<1> USE DEF IInv, Shape, Rest
<1> /\ cst[c] = "process" /\ cst'[c] = "retire"
    /\ \A d \in Conns : d # c => cst'[d] = cst[d]
    /\ \A d \in Conns : cw[d] \in Workers
  BY Zenon DEF ProcessReturns, ConnShape
<1> UNCHANGED <<closed, hub, startDone, closeDone, active, starting, running, listener, cw,
                canceled, connClosed, addr, once, proxyClosed, pc, wk, snap>>
  BY Zenon DEF ProcessReturns
<1>1. ConnShape'
  BY Zenon DEF ProcessReturns, ConnShape, Stages, Live, Answers
<1>2. CallerShape' /\ FlagShape' /\ StageShape' /\ GroupShape' /\ OnceShape'
  BY Zenon DEF CallerShape, FlagShape, StageShape, GroupShape, OnceShape
<1>3. Roles' /\ OneStart' /\ HubStages' /\ ListenStages' /\ OneStop'
  BY Zenon DEF Roles, OneStart, HubStages, ListenStages, OneStop
<1>4. OpenIsHeld' /\ StoppedForGood' /\ OneClose' /\ Passed' /\ AllStopped'
  BY DEF OpenIsHeld, StoppedForGood, OneClose, Passed, AllStopped
<1>5. Waited' /\ WaitedIsClosed' /\ ClosedForGood'
  BY Zenon DEF Waited, WaitedIsClosed, ClosedForGood
<1>6. Counted'
  BY Zenon DEF Counted, Live
<1>7. Taken'
  BY Zenon DEF Taken
<1>8. AtWorker'
  BY Zenon DEF AtWorker
<1>9. CanceledIsClosing'
  BY Zenon DEF CanceledIsClosing
<1> QED BY Zenon, <1>1, <1>2, <1>3, <1>4, <1>5, <1>6, <1>7, <1>8, <1>9

\* The deferred cancel and close of a connection whose Process has returned.
LEMMA RetireCloseStep == ASSUME NEW c \in Conns, IInv, RetireClose(c) PROVE IInv'
<1> USE DEF IInv, Shape, Rest
<1> /\ cst[c] = "retire" /\ cst'[c] = "delete" /\ canceled'[c]
    /\ \A d \in Conns : d # c => cst'[d] = cst[d] /\ canceled'[d] = canceled[d]
    /\ \A d \in Conns : cw[d] \in Workers
  BY Zenon DEF RetireClose, ConnShape
<1> UNCHANGED <<closed, hub, startDone, closeDone, active, starting, running, listener, cw,
                addr, once, proxyClosed, pc, wk, snap>>
  BY Zenon DEF RetireClose
<1>1. ConnShape'
  BY Zenon DEF RetireClose, ConnShape, Stages, Live, Answers
<1>2. CallerShape' /\ FlagShape' /\ StageShape' /\ GroupShape' /\ OnceShape'
  BY Zenon DEF CallerShape, FlagShape, StageShape, GroupShape, OnceShape
<1>3. Roles' /\ OneStart' /\ HubStages' /\ ListenStages' /\ OneStop'
  BY Zenon DEF Roles, OneStart, HubStages, ListenStages, OneStop
<1>4. OpenIsHeld' /\ StoppedForGood' /\ OneClose' /\ Passed' /\ AllStopped'
  BY DEF OpenIsHeld, StoppedForGood, OneClose, Passed, AllStopped
<1>5. Waited' /\ WaitedIsClosed' /\ ClosedForGood'
  BY Zenon DEF Waited, WaitedIsClosed, ClosedForGood
<1>6. Counted'
  BY Zenon DEF Counted, Live
<1>7. Taken'
  BY Zenon DEF Taken
<1>8. AtWorker'
  BY DEF AtWorker
<1>9. CanceledIsClosing'
  BY Zenon DEF CanceledIsClosing
<1> QED BY Zenon, <1>1, <1>2, <1>3, <1>4, <1>5, <1>6, <1>7, <1>8, <1>9

\* The connection's entry is deleted.
LEMMA RetireDeleteStep == ASSUME NEW c \in Conns, IInv, RetireDelete(c) PROVE IInv'
<1> USE DEF IInv, Shape, Rest
<1> /\ cst[c] = "delete" /\ cst'[c] = "finish"
    /\ \A d \in Conns : d # c => cst'[d] = cst[d]
    /\ \A w \in Workers : active'[w] \subseteq active[w]
    /\ \A d \in Conns : cw[d] \in Workers
  BY Zenon DEF RetireDelete, ConnShape, GroupShape
<1> UNCHANGED <<closed, hub, startDone, closeDone, starting, running, listener, cw, canceled,
                connClosed, addr, once, proxyClosed, pc, wk, snap>>
  BY Zenon DEF RetireDelete
<1>1. GroupShape'
  BY Zenon DEF RetireDelete, GroupShape
<1>2. ConnShape'
  BY Zenon DEF RetireDelete, ConnShape, Stages, Live, Answers
<1>3. CallerShape' /\ FlagShape' /\ StageShape' /\ OnceShape'
  BY Zenon DEF CallerShape, FlagShape, StageShape, OnceShape
<1>4. Roles' /\ OneStart' /\ HubStages' /\ ListenStages' /\ OneStop'
  BY Zenon DEF Roles, OneStart, HubStages, ListenStages, OneStop
<1>5. OpenIsHeld' /\ StoppedForGood' /\ OneClose' /\ Passed' /\ AllStopped'
  BY DEF OpenIsHeld, StoppedForGood, OneClose, Passed, AllStopped
<1>6. Waited' /\ WaitedIsClosed' /\ ClosedForGood'
  BY Zenon DEF Waited, WaitedIsClosed, ClosedForGood
<1>7. Counted'
  BY Zenon DEF Counted, Live
<1>8. Taken'
  BY Zenon DEF Taken
<1>9. AtWorker'
  BY DEF AtWorker
<1>10. CanceledIsClosing'
  BY Zenon DEF CanceledIsClosing
<1> QED BY Zenon, <1>1, <1>2, <1>3, <1>4, <1>5, <1>6, <1>7, <1>8, <1>9, <1>10

\* The connection's goroutine leaves the wait group.
LEMMA RetireDoneStep == ASSUME NEW c \in Conns, IInv, RetireDone(c) PROVE IInv'
<1> USE DEF IInv, Shape, Rest
<1> /\ cst[c] = "finish" /\ cst'[c] = "gone"
    /\ \A d \in Conns : d # c => cst'[d] = cst[d]
    /\ \A w \in Workers : running[w] \ {c} \subseteq running'[w] /\ running'[w] \subseteq running[w]
    /\ \A d \in Conns : cw[d] \in Workers
  BY Zenon DEF RetireDone, ConnShape, GroupShape
<1> UNCHANGED <<closed, hub, startDone, closeDone, active, starting, listener, cw, canceled,
                connClosed, addr, once, proxyClosed, pc, wk, snap>>
  BY Zenon DEF RetireDone
<1>1. GroupShape'
  BY Zenon DEF RetireDone, GroupShape
<1>2. ConnShape'
  BY Zenon DEF RetireDone, ConnShape, Stages, Live, Answers
<1>3. CallerShape' /\ FlagShape' /\ StageShape' /\ OnceShape'
  BY Zenon DEF CallerShape, FlagShape, StageShape, OnceShape
<1>4. Roles' /\ OneStart' /\ HubStages' /\ ListenStages' /\ OneStop'
  BY Zenon DEF Roles, OneStart, HubStages, ListenStages, OneStop
<1>5. OpenIsHeld' /\ StoppedForGood' /\ OneClose' /\ Passed' /\ AllStopped'
  BY DEF OpenIsHeld, StoppedForGood, OneClose, Passed, AllStopped
<1>6. WaitedIsClosed'
  BY Zenon DEF WaitedIsClosed
<1>7. Counted'
  BY Zenon DEF Counted, Live
<1>8. Waited'
  BY Zenon, CallerKinds DEF Waited
<1>9. ClosedForGood'
  BY Zenon DEF ClosedForGood
<1>10. Taken'
  BY Zenon DEF Taken
<1>11. AtWorker'
  BY DEF AtWorker
<1>12. CanceledIsClosing'
  BY Zenon DEF CanceledIsClosing
<1> QED BY Zenon, <1>1, <1>2, <1>3, <1>4, <1>5, <1>6, <1>7, <1>8, <1>9, <1>10, <1>11, <1>12

\* A step that puts nobody into a start leaves the stages of the starts alone;
LEMMA StartsStay ==
    ASSUME ListenStages, UNCHANGED <<listener, closed, startDone, hub>>,
           \A h \in Callers : pc'[h] \in InStart => pc'[h] = pc[h] /\ wk'[h] = wk[h]
    PROVE  ListenStages'
BY Zenon DEF ListenStages, InStart

\* one that puts nobody into the cancelling of a stop, what the stops know.
LEMMA CancelsStay ==
    ASSUME AtWorker, UNCHANGED <<active, cw, cst, snap>>,
           \A h \in Callers : pc'[h] = "cancel" => pc[h] = "cancel" /\ wk'[h] = wk[h]
    PROVE  AtWorker'
BY Zenon DEF AtWorker

\* Close is called, on the handler or on a worker.
LEMMA CloseCallStep == ASSUME NEW g \in Closers \cup WorkerClosers, IInv, CloseCall(g) PROVE IInv'
<1> USE DEF IInv, Shape, Rest
<1> g \in Callers
  BY Zenon, CallerKinds DEF Callers
<1> /\ \A h \in Callers : h # g => pc'[h] = pc[h] /\ wk'[h] = wk[h]
    /\ pc[g] = "idle" /\ pc'[g] \in {"once", "stop"}
    /\ pc'[g] = "stop" => g \in WorkerClosers
    /\ pc'[g] = "once" => g \in Closers
    /\ wk'[g] \in Workers
    /\ \A h \in Callers : wk[h] \in Workers
  BY Zenon DEF CloseCall, Goto, CallerShape
<1> UNCHANGED <<closed, hub, startDone, closeDone, active, starting, running, listener, cst, cw,
                canceled, connClosed, addr, once, proxyClosed, snap>>
  BY Zenon DEF CloseCall, connVars
<1>1. CallerShape'
  BY Zenon DEF CloseCall, Goto, CallerShape, Places, InStart, InClose, Stopping, InStop
<1>2. FlagShape' /\ StageShape' /\ GroupShape' /\ ConnShape' /\ OnceShape'
  BY Zenon DEF FlagShape, StageShape, GroupShape, ConnShape, OnceShape
<1>3. StoppedForGood' /\ Counted' /\ ClosedForGood' /\ Taken' /\ CanceledIsClosing'
  BY Zenon DEF StoppedForGood, Counted, ClosedForGood, Taken, CanceledIsClosing
<1>4. Roles'
  BY Zenon, CallerKinds DEF Roles, InStart
<1>5. OneStart'
  BY ZenonT(40) DEF OneStart, InStart
<1>6. HubStages'
  BY Zenon DEF HubStages, InStart
<1>7. ListenStages'
  BY DEF ListenStages, InStart
<1>8. OneStop'
  BY DEF OneStop, InStop
<1>9. OpenIsHeld'
  BY DEF OpenIsHeld
<1>10. OneClose'
  BY Zenon, CallerKinds DEF OneClose, InClose, Stopping, InStop
<1>11. Passed'
  BY Zenon, CallerKinds DEF Passed, Stopping, InStop
<1>12. AllStopped'
  BY Zenon, CallerKinds DEF AllStopped
<1>13. Waited'
  BY Zenon, CallerKinds DEF Waited
<1>14. WaitedIsClosed'
  BY Zenon DEF WaitedIsClosed
<1>15. AtWorker'
  BY DEF AtWorker
<1> QED BY Zenon, <1>1, <1>2, <1>3, <1>4, <1>5, <1>6, <1>7, <1>8, <1>9, <1>10, <1>11, <1>12,
    <1>13, <1>14, <1>15

\* closeOnce lets one caller in and the others through when it is done.
LEMMA CloseOnceStep == ASSUME NEW g \in Callers, IInv, CloseOnce(g) PROVE IInv'
<1> USE DEF IInv, Shape, Rest
<1> /\ \A h \in Callers : h # g => pc'[h] = pc[h] /\ wk'[h] = wk[h]
    /\ pc[g] = "once"
    /\ \/ once = "idle" /\ once' = "running" /\ pc'[g] = "stop" /\ wk'[g] = 1
       \/ once = "done" /\ once' = once /\ pc'[g] = "returned" /\ wk'[g] = wk[g]
    /\ \A h \in Callers : wk[h] \in Workers
  BY Zenon DEF CloseOnce, Goto, CallerShape, OnceShape
<1> UNCHANGED <<closed, hub, startDone, closeDone, active, starting, running, listener, cst, cw,
                canceled, connClosed, addr, proxyClosed, snap>>
  BY Zenon DEF CloseOnce, connVars
<1>1. CallerShape'
  BY Zenon, WorkerNumbers DEF CloseOnce, Goto, CallerShape, Places, InStart, InClose, Stopping,
     InStop
<1>2. OnceShape'
  BY Zenon DEF CloseOnce, OnceShape
<1>3. FlagShape' /\ StageShape' /\ GroupShape' /\ ConnShape'
  BY Zenon DEF FlagShape, StageShape, GroupShape, ConnShape
<1>4. StoppedForGood' /\ Counted' /\ Taken' /\ CanceledIsClosing'
  BY Zenon DEF StoppedForGood, Counted, Taken, CanceledIsClosing
<1>5. Roles'
  BY Zenon, CallerKinds DEF Roles, InStart
<1>6. OneStart'
  BY DEF OneStart, InStart
<1>7. HubStages'
  BY Zenon DEF HubStages, InStart
<1>8. ListenStages'
  BY DEF ListenStages, InStart
<1>9. OneStop'
  BY ZenonT(40) DEF OneStop, InStop
<1>10. OpenIsHeld'
  BY DEF OpenIsHeld
<1>11. OneClose'
  BY Zenon, CallerKinds DEF OneClose, InClose, Stopping, InStop
<1>12. Passed'
  BY CallerKinds DEF Passed, Stopping, InStop, Workers
<1>13. AllStopped'
  BY Zenon, CallerKinds DEF AllStopped
<1>14. Waited'
  BY Zenon, CallerKinds DEF Waited
<1>15. WaitedIsClosed'
  BY Zenon DEF WaitedIsClosed
<1>16. ClosedForGood'
  BY Zenon DEF ClosedForGood
<1>17. AtWorker'
  BY DEF AtWorker
<1> QED BY Zenon, <1>1, <1>2, <1>3, <1>4, <1>5, <1>6, <1>7, <1>8, <1>9, <1>10, <1>11, <1>12,
    <1>13, <1>14, <1>15, <1>16, <1>17

\* The locked part of stop: whoever sets closed is the one that goes on to stop
\* the worker.
LEMMA StopStep == ASSUME NEW g \in Callers, IInv, Stop(g) PROVE IInv'
<1> USE DEF IInv, Shape, Rest
<1> /\ \A h \in Callers : h # g => pc'[h] = pc[h]
    /\ pc[g] = "stop"
    /\ \/ pc'[g] = "waitCloseDone" /\ closed[wk[g]] /\ snap' = snap
       \/ pc'[g] = "cancel" /\ ~closed[wk[g]] /\ snap'[g] = active[wk[g]]
    /\ closed'[wk[g]] /\ \A w \in Workers : w # wk[g] => closed'[w] = closed[w]
    /\ \A h \in Callers : h # g => snap'[h] = snap[h]
    /\ \A w \in Workers : active'[w] \subseteq active[w]
    /\ \A h \in Callers : wk[h] \in Workers
  BY DEF Stop, Goto, CallerShape, FlagShape, GroupShape
<1> UNCHANGED <<hub, startDone, closeDone, starting, running, listener, cst, cw, canceled,
                connClosed, addr, once, proxyClosed, wk>>
  BY Zenon DEF Stop, connVars
<1>1. CallerShape'
  <2>1. PICK p \in {"cancel", "waitCloseDone"} : pc' = [pc EXCEPT ![g] = p]
    BY Zenon DEF Stop, Goto
  <2>2. pc' \in [Callers -> Places]
    BY Zenon, <2>1 DEF CallerShape, Places, InClose, Stopping, InStop
  <2>3. snap' \in [Callers -> SUBSET Conns]
    BY Zenon DEF Stop, CallerShape, GroupShape
  <2> QED BY Zenon, <2>2, <2>3 DEF CallerShape
<1>2. FlagShape'
  BY ZenonT(40) DEF Stop, FlagShape
<1>3. GroupShape'
  BY Zenon DEF Stop, GroupShape
<1>4. StageShape' /\ ConnShape' /\ OnceShape'
  BY Zenon DEF StageShape, ConnShape, OnceShape
<1>5. Counted' /\ ClosedForGood' /\ Taken'
  BY Zenon DEF Counted, ClosedForGood, Taken
<1>6. Roles'
  BY Zenon, CallerKinds DEF Roles, InStart
<1>7. OneStart'
  BY Zenon DEF OneStart, InStart
<1>8. HubStages'
  BY Zenon DEF HubStages, InStart
<1>9. ListenStages'
  BY DEF ListenStages, InStart
<1>10. OneStop'
  BY DEF OneStop, InStop, StoppedForGood
<1>11. OpenIsHeld'
  BY DEF OpenIsHeld
<1>12. StoppedForGood'
  BY Zenon DEF StoppedForGood
<1>13. OneClose'
  BY CallerKinds DEF OneClose, InClose, Stopping, InStop
<1>14. Passed'
  BY Zenon, CallerKinds DEF Passed, Stopping, InStop
<1>15. AllStopped'
  BY Zenon, CallerKinds DEF AllStopped
<1>16. Waited'
  BY ZenonT(40), CallerKinds DEF Waited
<1>17. WaitedIsClosed'
  BY Zenon DEF WaitedIsClosed
<1>18. AtWorker'
  BY DEF AtWorker
<1>19. CanceledIsClosing'
  BY Zenon DEF CanceledIsClosing, ConnShape
<1> QED BY Zenon, <1>1, <1>2, <1>3, <1>4, <1>5, <1>6, <1>7, <1>8, <1>9, <1>10, <1>11, <1>12,
    <1>13, <1>14, <1>15, <1>16, <1>17, <1>18, <1>19

\* stop cancels the requests it has detached.
LEMMA CancelAllStep == ASSUME NEW g \in Callers, IInv, CancelAll(g) PROVE IInv'
<1> USE DEF IInv, Shape, Rest
<1> /\ \A h \in Callers : h # g => pc'[h] = pc[h]
    /\ pc[g] = "cancel" /\ pc'[g] = "closeConns"
    /\ \A c \in Conns : canceled'[c] = (canceled[c] \/ c \in snap[g])
    /\ \A h \in Callers : wk[h] \in Workers
  BY Zenon DEF CancelAll, Goto, CallerShape, ConnShape
<1> UNCHANGED <<closed, hub, startDone, closeDone, active, starting, running, listener, cst, cw,
                connClosed, addr, once, proxyClosed, wk, snap>>
  BY Zenon DEF CancelAll
<1>1. CallerShape'
  BY Zenon DEF CancelAll, Goto, CallerShape, Places, InStart, InClose, Stopping, InStop
<1>2. ConnShape'
  BY Zenon DEF CancelAll, ConnShape, Stages, Live, Answers
<1>3. FlagShape' /\ StageShape' /\ GroupShape' /\ OnceShape'
  BY Zenon DEF FlagShape, StageShape, GroupShape, OnceShape
<1>4. StoppedForGood' /\ Counted' /\ ClosedForGood' /\ Taken'
  BY Zenon DEF StoppedForGood, Counted, ClosedForGood, Taken
<1>5. Roles'
  BY Zenon, CallerKinds DEF Roles, InStart
<1>6. OneStart'
  BY Zenon DEF OneStart, InStart
<1>7. HubStages'
  BY Zenon DEF HubStages, InStart
<1>8. ListenStages'
  BY Zenon DEF ListenStages, InStart
<1>9. OneStop'
  BY Zenon DEF OneStop, InStop
<1>10. OpenIsHeld'
  BY DEF OpenIsHeld
<1>11. OneClose'
  BY Zenon, CallerKinds DEF OneClose, InClose, Stopping, InStop
<1>12. Passed'
  BY Zenon, CallerKinds DEF Passed, Stopping, InStop
<1>13. AllStopped'
  BY Zenon, CallerKinds DEF AllStopped
<1>14. Waited'
  BY Zenon, CallerKinds DEF Waited
<1>15. WaitedIsClosed'
  BY Zenon DEF WaitedIsClosed
<1>16. AtWorker'
  BY Zenon DEF AtWorker
<1>17. CanceledIsClosing'
  BY ZenonT(40) DEF CanceledIsClosing, AtWorker, OneStop, InStop
<1> QED BY Zenon, <1>1, <1>2, <1>3, <1>4, <1>5, <1>6, <1>7, <1>8, <1>9, <1>10, <1>11, <1>12,
    <1>13, <1>14, <1>15, <1>16, <1>17

\* stop closes their connections.
LEMMA CloseConnsStep == ASSUME NEW g \in Callers, IInv, CloseConns(g) PROVE IInv'
<1> USE DEF IInv, Shape, Rest
<1> /\ \A h \in Callers : h # g => pc'[h] = pc[h]
    /\ pc[g] = "closeConns" /\ pc'[g] = "closeHub"
    /\ \A h \in Callers : wk[h] \in Workers
  BY Zenon DEF CloseConns, Goto, CallerShape, ConnShape
<1> UNCHANGED <<closed, hub, startDone, closeDone, active, starting, running, listener, cst, cw,
                canceled, addr, once, proxyClosed, wk, snap>>
  BY Zenon DEF CloseConns
<1>1. CallerShape'
  BY Zenon DEF CloseConns, Goto, CallerShape, Places, InStart, InClose, Stopping, InStop
<1>2. ConnShape'
  BY Zenon DEF CloseConns, ConnShape, Stages, Live, Answers
<1>3. FlagShape' /\ StageShape' /\ GroupShape' /\ OnceShape'
  BY Zenon DEF FlagShape, StageShape, GroupShape, OnceShape
<1>4. StoppedForGood' /\ Counted' /\ ClosedForGood' /\ Taken' /\ CanceledIsClosing'
  BY Zenon DEF StoppedForGood, Counted, ClosedForGood, Taken, CanceledIsClosing
<1>5. Roles'
  BY Zenon, CallerKinds DEF Roles, InStart
<1>6. OneStart'
  BY Zenon DEF OneStart, InStart
<1>7. HubStages'
  BY Zenon DEF HubStages, InStart
<1>8. ListenStages'
  BY Zenon DEF ListenStages, InStart
<1>9. OneStop'
  BY Zenon DEF OneStop, InStop
<1>10. OpenIsHeld'
  BY DEF OpenIsHeld
<1>11. OneClose'
  BY Zenon, CallerKinds DEF OneClose, InClose, Stopping, InStop
<1>12. Passed'
  BY Zenon, CallerKinds DEF Passed, Stopping, InStop
<1>13. AllStopped'
  BY Zenon, CallerKinds DEF AllStopped
<1>14. Waited'
  BY Zenon, CallerKinds DEF Waited
<1>15. WaitedIsClosed'
  BY Zenon DEF WaitedIsClosed
<1>16. AtWorker'
  BY Zenon DEF AtWorker
<1> QED BY Zenon, <1>1, <1>2, <1>3, <1>4, <1>5, <1>6, <1>7, <1>8, <1>9, <1>10, <1>11, <1>12,
    <1>13, <1>14, <1>15, <1>16

\* stop closes the hub, if one was published.
LEMMA CloseHubStep == ASSUME NEW g \in Callers, IInv, CloseHub(g) PROVE IInv'
<1> USE DEF IInv, Shape, Rest
<1> /\ \A h \in Callers : h # g => pc'[h] = pc[h]
    /\ pc[g] = "closeHub" /\ pc'[g] = "waitStarting"
    /\ listener'[wk[g]] = (IF hub[wk[g]] THEN "closed" ELSE listener[wk[g]])
       /\ \A w \in Workers : w # wk[g] => listener'[w] = listener[w]
    /\ \A h \in Callers : wk[h] \in Workers
  BY Zenon DEF CloseHub, Goto, CallerShape, StageShape
<1> UNCHANGED <<closed, hub, startDone, closeDone, active, starting, running, cst, cw, canceled,
                connClosed, addr, once, proxyClosed, wk, snap>>
  BY Zenon DEF CloseHub, connVars
<1>1. CallerShape'
  BY Zenon DEF CloseHub, Goto, CallerShape, Places, InStart, InClose, Stopping, InStop
<1>2. StageShape'
  BY Zenon DEF CloseHub, StageShape, StartStates, ListenerStates
<1>3. FlagShape' /\ GroupShape' /\ ConnShape' /\ OnceShape'
  BY Zenon DEF FlagShape, GroupShape, ConnShape, OnceShape
<1>4. Counted' /\ ClosedForGood' /\ CanceledIsClosing'
  BY Zenon DEF Counted, ClosedForGood, CanceledIsClosing
<1>5. Roles'
  BY Zenon, CallerKinds DEF Roles, InStart
<1>6. OneStart'
  BY Zenon DEF OneStart, InStart
<1>7. HubStages'
  BY Zenon DEF HubStages, InStart
<1>8. ListenStages'
  BY DEF ListenStages, InStart, HubStages
<1>9. OneStop'
  BY Zenon DEF OneStop, InStop
<1>10. OpenIsHeld'
  BY DEF OpenIsHeld
<1>11. StoppedForGood'
  BY Zenon DEF StoppedForGood
<1>12. OneClose'
  BY CallerKinds DEF OneClose, InClose, Stopping, InStop
<1>13. Passed'
  BY Zenon, CallerKinds DEF Passed, Stopping, InStop
<1>14. AllStopped'
  BY Zenon, CallerKinds DEF AllStopped
<1>15. Waited'
  BY Zenon, CallerKinds DEF Waited
<1>16. WaitedIsClosed'
  BY Zenon DEF WaitedIsClosed
<1>17. Taken'
  BY ZenonT(40) DEF Taken, ConnShape
<1>18. AtWorker'
  BY Zenon DEF AtWorker
<1> QED BY Zenon, <1>1, <1>2, <1>3, <1>4, <1>5, <1>6, <1>7, <1>8, <1>9, <1>10, <1>11, <1>12,
    <1>13, <1>14, <1>15, <1>16, <1>17, <1>18

\* closeDone is closed once no start is counted, when the listener cannot be
\* open any more.
LEMMA WaitStartingStep == ASSUME NEW g \in Callers, IInv, WaitStarting(g) PROVE IInv'
<1> USE DEF IInv, Shape, Rest
<1> /\ \A h \in Callers : h # g => pc'[h] = pc[h] /\ wk'[h] = wk[h]
    /\ pc[g] = "waitStarting" /\ starting[wk[g]] = {}
    /\ \/ g \in WorkerClosers /\ pc'[g] = "waitRunning" /\ wk'[g] = wk[g]
       \/ g \notin WorkerClosers /\ wk[g] < N /\ pc'[g] = "stop" /\ wk'[g] = wk[g] + 1
       \/ g \notin WorkerClosers /\ ~(wk[g] < N) /\ pc'[g] = "proxy" /\ wk'[g] = 1
    /\ closeDone'[wk[g]] /\ \A w \in Workers : w # wk[g] => closeDone'[w] = closeDone[w]
    /\ \A h \in Callers : wk[h] \in Workers
  BY Zenon DEF WaitStarting, Goto, Stopped, more, startingDone, CallerShape, FlagShape
<1> UNCHANGED <<closed, hub, startDone, active, starting, running, listener, cst, cw, canceled,
                connClosed, addr, once, proxyClosed, snap>>
  BY Zenon DEF WaitStarting, connVars
<1>1. CallerShape'
  BY WorkerNumbers DEF WaitStarting, Goto, Stopped, more, startingDone, CallerShape, Places,
     InStart, InClose, Stopping, InStop
<1>2. FlagShape'
  BY Zenon DEF WaitStarting, Stopped, more, startingDone, FlagShape
<1>3. StageShape' /\ GroupShape' /\ ConnShape' /\ OnceShape'
  BY Zenon DEF StageShape, GroupShape, ConnShape, OnceShape
<1>4. Counted' /\ Taken' /\ CanceledIsClosing'
  BY Zenon DEF Counted, Taken, CanceledIsClosing
<1>5. Roles'
  BY Zenon, CallerKinds DEF Roles, InStart
<1>6. OneStart'
  BY DEF OneStart, InStart
<1>7. HubStages'
  BY Zenon DEF HubStages, InStart
<1>8. ListenStages'
  <2>1. ASSUME NEW h \in Callers, pc'[h] \in InStart PROVE pc'[h] = pc[h] /\ wk'[h] = wk[h]
    BY Zenon, <2>1 DEF InStart
  <2> QED BY Zenon, <2>1, StartsStay
<1>9. OneStop'
  BY DEF OneStop, InStop
<1>10. OpenIsHeld'
  BY DEF OpenIsHeld
<1>11. StoppedForGood'
  <2>1. closed[wk[g]]
    BY Zenon DEF OneStop, InStop
  <2>2. ~ \E h \in Callers : pc[h] \in {"publish", "reject"} /\ wk[h] = wk[g]
    BY Zenon DEF OneStart, InStart
  <2>3. ~ \E h \in Callers : pc[h] \in {"cancel", "closeConns", "closeHub"} /\ wk[h] = wk[g]
    BY Zenon DEF OneStop, InStop
  <2>4. listener[wk[g]] # "open"
    BY Zenon, <2>1, <2>2, <2>3 DEF OpenIsHeld
  <2> QED BY Zenon, <2>1, <2>4 DEF StoppedForGood
<1>12. OneClose'
  BY CallerKinds DEF OneClose, InClose, Stopping, InStop
<1>13. Passed'
  BY CallerKinds, HandlerAssumption DEF Passed, Stopping, InStop, Workers
<1>14. AllStopped'
  BY CallerKinds, HandlerAssumption DEF AllStopped, Workers, Passed, Stopping, InStop
<1>15. Waited'
  BY Zenon, CallerKinds DEF Waited
<1>16. WaitedIsClosed'
  BY Zenon DEF WaitedIsClosed
<1>17. ClosedForGood'
  BY Zenon DEF ClosedForGood
<1>18. AtWorker'
  <2>1. ASSUME NEW h \in Callers, pc'[h] = "cancel" PROVE pc[h] = "cancel" /\ wk'[h] = wk[h]
    BY Zenon, <2>1
  <2> QED BY Zenon, <2>1, CancelsStay
<1> QED BY Zenon, <1>1, <1>2, <1>3, <1>4, <1>5, <1>6, <1>7, <1>8, <1>9, <1>10, <1>11, <1>12,
    <1>13, <1>14, <1>15, <1>16, <1>17, <1>18

\* A second caller of stop goes on only after closeDone.
LEMMA WaitCloseDoneStep == ASSUME NEW g \in Callers, IInv, WaitCloseDone(g) PROVE IInv'
<1> USE DEF IInv, Shape, Rest
<1> /\ \A h \in Callers : h # g => pc'[h] = pc[h] /\ wk'[h] = wk[h]
    /\ pc[g] = "waitCloseDone" /\ closeDone[wk[g]]
    /\ \/ g \in WorkerClosers /\ pc'[g] = "waitRunning" /\ wk'[g] = wk[g]
       \/ g \notin WorkerClosers /\ wk[g] < N /\ pc'[g] = "stop" /\ wk'[g] = wk[g] + 1
       \/ g \notin WorkerClosers /\ ~(wk[g] < N) /\ pc'[g] = "proxy" /\ wk'[g] = 1
    /\ \A h \in Callers : wk[h] \in Workers
  BY Zenon DEF WaitCloseDone, Goto, Stopped, more, CallerShape
<1> UNCHANGED <<closed, hub, startDone, closeDone, active, starting, running, listener, cst, cw,
                canceled, connClosed, addr, once, proxyClosed, snap>>
  BY Zenon DEF WaitCloseDone, connVars
<1>1. CallerShape'
  BY WorkerNumbers DEF WaitCloseDone, Goto, Stopped, more, CallerShape, Places, InStart,
     InClose, Stopping, InStop
<1>2. FlagShape' /\ StageShape' /\ GroupShape' /\ ConnShape' /\ OnceShape'
  BY Zenon DEF FlagShape, StageShape, GroupShape, ConnShape, OnceShape
<1>3. StoppedForGood' /\ Counted' /\ ClosedForGood' /\ Taken' /\ CanceledIsClosing'
  BY Zenon DEF StoppedForGood, Counted, ClosedForGood, Taken, CanceledIsClosing
<1>4. Roles'
  BY Zenon, CallerKinds DEF Roles, InStart
<1>5. OneStart'
  BY DEF OneStart, InStart
<1>6. HubStages'
  BY Zenon DEF HubStages, InStart
<1>7. ListenStages'
  <2>1. ASSUME NEW h \in Callers, pc'[h] \in InStart PROVE pc'[h] = pc[h] /\ wk'[h] = wk[h]
    BY Zenon, <2>1 DEF InStart
  <2> QED BY Zenon, <2>1, StartsStay
<1>8. OneStop'
  BY DEF OneStop, InStop
<1>9. OpenIsHeld'
  BY DEF OpenIsHeld
<1>10. OneClose'
  BY CallerKinds DEF OneClose, InClose, Stopping, InStop
<1>11. Passed'
  BY CallerKinds, HandlerAssumption DEF Passed, Stopping, InStop, Workers
<1>12. AllStopped'
  BY CallerKinds, HandlerAssumption DEF AllStopped, Workers, Passed, Stopping, InStop
<1>13. Waited'
  BY Zenon, CallerKinds DEF Waited
<1>14. WaitedIsClosed'
  BY Zenon DEF WaitedIsClosed
<1>15. AtWorker'
  BY DEF AtWorker
<1> QED BY Zenon, <1>1, <1>2, <1>3, <1>4, <1>5, <1>6, <1>7, <1>8, <1>9, <1>10, <1>11, <1>12,
    <1>13, <1>14, <1>15

\* The handler closes its proxy after every worker has been stopped.
LEMMA CloseProxyStep == ASSUME NEW g \in Callers, IInv, CloseProxy(g) PROVE IInv'
<1> USE DEF IInv, Shape, Rest
<1> /\ \A h \in Callers : h # g => pc'[h] = pc[h]
    /\ pc[g] = "proxy" /\ pc'[g] = "waitRunning"
    /\ proxyClosed'
    /\ \A h \in Callers : wk[h] \in Workers
  BY Zenon DEF CloseProxy, Goto, CallerShape, OnceShape
<1> UNCHANGED <<closed, hub, startDone, closeDone, active, starting, running, listener, cst, cw,
                canceled, connClosed, addr, once, wk, snap>>
  BY Zenon DEF CloseProxy, connVars
<1>1. CallerShape'
  BY Zenon DEF CloseProxy, Goto, CallerShape, Places, InStart, InClose, Stopping, InStop
<1>2. OnceShape'
  BY Zenon DEF CloseProxy, OnceShape
<1>3. FlagShape' /\ StageShape' /\ GroupShape' /\ ConnShape'
  BY Zenon DEF FlagShape, StageShape, GroupShape, ConnShape
<1>4. StoppedForGood' /\ Counted' /\ Taken' /\ CanceledIsClosing'
  BY Zenon DEF StoppedForGood, Counted, Taken, CanceledIsClosing
<1>5. Roles'
  BY Zenon, CallerKinds DEF Roles, InStart
<1>6. OneStart'
  BY Zenon DEF OneStart, InStart
<1>7. HubStages'
  BY Zenon DEF HubStages, InStart
<1>8. ListenStages'
  BY Zenon DEF ListenStages, InStart
<1>9. OneStop'
  BY Zenon DEF OneStop, InStop
<1>10. OpenIsHeld'
  BY ZenonT(40) DEF OpenIsHeld
<1>11. OneClose'
  BY Zenon, CallerKinds DEF OneClose, InClose, Stopping, InStop
<1>12. Passed'
  BY Zenon, CallerKinds DEF Passed, Stopping, InStop
<1>13. AllStopped'
  BY Zenon, CallerKinds DEF AllStopped
<1>14. Waited'
  BY Zenon, CallerKinds, NoneBeforeFirst DEF Waited, AllStopped
<1>15. WaitedIsClosed'
  BY Zenon, CallerKinds DEF WaitedIsClosed, AllStopped, Roles
<1>16. ClosedForGood'
  BY Zenon DEF ClosedForGood
<1>17. AtWorker'
  BY Zenon DEF AtWorker
<1> QED BY Zenon, <1>1, <1>2, <1>3, <1>4, <1>5, <1>6, <1>7, <1>8, <1>9, <1>10, <1>11, <1>12,
    <1>13, <1>14, <1>15, <1>16, <1>17

\* The handler waits for the connections of one worker after the other.
LEMMA WaitRunningStep == ASSUME NEW g \in Callers, IInv, WaitRunning(g) PROVE IInv'
<1> USE DEF IInv, Shape, Rest
<1> /\ \A h \in Callers : h # g => pc'[h] = pc[h] /\ wk'[h] = wk[h]
    /\ pc[g] = "waitRunning" /\ running[wk[g]] = {}
    /\ \/ g \in WorkerClosers /\ pc'[g] = "returned" /\ once' = once
       \/ g \notin WorkerClosers /\ wk[g] < N /\ pc'[g] = "waitRunning"
          /\ wk'[g] = wk[g] + 1 /\ once' = once
       \/ g \notin WorkerClosers /\ ~(wk[g] < N) /\ pc'[g] = "returned" /\ once' = "done"
    /\ \A h \in Callers : wk[h] \in Workers
  BY Zenon DEF WaitRunning, Goto, runningDone, more, CallerShape, OnceShape
<1> UNCHANGED <<closed, hub, startDone, closeDone, active, starting, running, listener, cst, cw,
                canceled, connClosed, addr, proxyClosed, snap>>
  BY Zenon DEF WaitRunning, connVars
<1>1. CallerShape'
  BY WorkerNumbers DEF WaitRunning, Goto, runningDone, more, CallerShape, Places, InStart,
     InClose, Stopping, InStop
<1>2. OnceShape'
  BY Zenon DEF WaitRunning, runningDone, more, OnceShape
<1>3. FlagShape' /\ StageShape' /\ GroupShape' /\ ConnShape'
  BY Zenon DEF FlagShape, StageShape, GroupShape, ConnShape
<1>4. StoppedForGood' /\ Counted' /\ Taken' /\ CanceledIsClosing'
  BY Zenon DEF StoppedForGood, Counted, Taken, CanceledIsClosing
<1>5. Roles'
  BY Zenon, CallerKinds DEF Roles, InStart
<1>6. OneStart'
  BY DEF OneStart, InStart
<1>7. HubStages'
  BY Zenon DEF HubStages, InStart
<1>8. ListenStages'
  <2>1. ASSUME NEW h \in Callers, pc'[h] \in InStart PROVE pc'[h] = pc[h] /\ wk'[h] = wk[h]
    BY Zenon, <2>1 DEF InStart
  <2> QED BY Zenon, <2>1, StartsStay
<1>9. OneStop'
  BY DEF OneStop, InStop
<1>10. OpenIsHeld'
  BY DEF OpenIsHeld
<1>11. OneClose'
  BY Zenon, CallerKinds DEF OneClose, InClose, Stopping, InStop
<1>12. Passed'
  BY Zenon, CallerKinds DEF Passed, Stopping, InStop
<1>13. AllStopped'
  BY Zenon, CallerKinds DEF AllStopped
<1>14. Waited'
  <2>1. \A w \in Workers : w < wk[g] + 1 => w = wk[g] \/ w < wk[g]
    BY SMTT(30), HandlerAssumption DEF Workers
  <2> QED BY <2>1, CallerKinds DEF Waited
<1>15. WaitedIsClosed'
  BY CallerKinds, HandlerAssumption DEF WaitedIsClosed, AllStopped, Workers
<1>16. ClosedForGood'
  BY CallerKinds, HandlerAssumption DEF ClosedForGood, AllStopped, Waited, Workers
<1>17. AtWorker'
  <2>1. ASSUME NEW h \in Callers, pc'[h] = "cancel" PROVE pc[h] = "cancel" /\ wk'[h] = wk[h]
    BY Zenon, <2>1
  <2> QED BY Zenon, <2>1, CancelsStay
<1> QED BY Zenon, <1>1, <1>2, <1>3, <1>4, <1>5, <1>6, <1>7, <1>8, <1>9, <1>10, <1>11, <1>12,
    <1>13, <1>14, <1>15, <1>16, <1>17

\* Every step preserves the inductive invariant.
LEMMA InvStep == IInv /\ [Next]_vars => IInv'
<1> SUFFICES ASSUME IInv, [Next]_vars PROVE IInv'
  BY Zenon
<1>1. ASSUME NEW g \in Callers, CallerStep(g) PROVE IInv'
  BY Zenon, <1>1, BeginStartStep, ListenStep, PublishStep, RejectHubStep, FinishStartStep,
     CloseOnceStep, StopStep, CancelAllStep, CloseConnsStep, CloseHubStep, WaitStartingStep,
     WaitCloseDoneStep, CloseProxyStep, WaitRunningStep DEF CallerStep
<1>2. ASSUME NEW c \in Conns, ConnStep(c) PROVE IInv'
  BY Zenon, <1>2, AcceptStep, ListenerAddrStep, RetireCloseStep, RetireDeleteStep,
     RetireDoneStep DEF ConnStep
<1>3. CASE UNCHANGED vars
  <2>0. Shape'
    BY Zenon, <1>3 DEF vars, IInv, Shape, CallerShape, FlagShape, StageShape, GroupShape,
       ConnShape, OnceShape
  <2>1. Roles' /\ OneStart' /\ HubStages' /\ ListenStages'
    BY Zenon, <1>3 DEF vars, IInv, Rest, Roles, OneStart, HubStages, ListenStages
  <2>2. OneStop' /\ StoppedForGood' /\ Counted'
    BY Zenon, <1>3 DEF vars, IInv, Rest, OneStop, StoppedForGood, Counted, Live
  <2>5. OpenIsHeld'
    BY Zenon, <1>3 DEF vars, IInv, Rest, OpenIsHeld
  <2>3. OneClose' /\ Passed' /\ AllStopped' /\ Waited'
    BY Zenon, <1>3 DEF vars, IInv, Rest, OneClose, Passed, AllStopped, Waited
  <2>4. WaitedIsClosed' /\ ClosedForGood' /\ Taken' /\ AtWorker' /\ CanceledIsClosing'
    BY Zenon, <1>3 DEF vars, IInv, Rest, WaitedIsClosed, ClosedForGood, Taken, AtWorker,
       CanceledIsClosing
  <2> QED BY Zenon, <2>0, <2>1, <2>2, <2>3, <2>4, <2>5 DEF IInv, Rest
<1> QED BY Zenon, <1>1, <1>2, <1>3, StartCallStep, CloseCallStep, ArriveStep,
    ProcessReturnsStep DEF Next

-----------------------------------------------------------------------------
\* The inductive invariant always holds.
LEMMA AlwaysInv == Spec => []IInv
BY InvStep, InitInv, PTL DEF Spec

\* handler.Close is final (CloseIsFinal): when it has returned to anybody, the
\* proxy is closed, no listener is open and no connection goroutine runs, with
\* any number of concurrent Start, Close and worker Close calls.
THEOREM InboundCloseIsFinal == Spec => []CloseIsFinal
<1>1. IInv => CloseIsFinal
  BY Zenon, TypeShape DEF IInv, Rest, CloseIsFinal, ClosedForGood, StoppedForGood, Counted,
     Shape, ConnShape
<1> QED BY <1>1, AlwaysInv, PTL

\* The WaitGroup discipline of streamOwnership (NoAddAfterWait): nothing is
\* added to starting or running once somebody waits on it.
THEOREM InboundNoAddAfterWait == Spec => NoAddAfterWait
<1>1. ASSUME IInv, [Next]_vars
      PROVE  [\A g \in Callers :
                /\ pc[g] = "waitRunning" => running'[wk[g]] \subseteq running[wk[g]]
                /\ pc[g] = "waitStarting" => starting'[wk[g]] \subseteq starting[wk[g]]]_vars
  <2>1. \A g \in Callers : pc[g] \in {"waitRunning", "waitStarting"} => closed[wk[g]]
    BY Zenon, <1>1 DEF IInv, Rest, Shape, CallerShape, WaitedIsClosed, StoppedForGood, OneStop,
       InStop
  <2>2. ASSUME NEW c \in Conns, Accept(c)
        PROVE  starting' = starting /\ \A w \in Workers : closed[w] => running'[w] = running[w]
    BY Zenon, <1>1, <2>2 DEF IInv, Shape, GroupShape, ConnShape, Accept, mayAccept
  <2>3. ASSUME NEW c \in Conns, RetireDone(c)
        PROVE  starting' = starting /\ \A w \in Workers : running'[w] \subseteq running[w]
    BY Zenon, <1>1, <2>3 DEF IInv, Shape, GroupShape, RetireDone
  <2>4. ASSUME NEW g \in Callers, BeginStart(g)
        PROVE  running' = running /\ \A w \in Workers : closed[w] => starting'[w] = starting[w]
    BY Zenon, <1>1, <2>4 DEF IInv, Shape, GroupShape, BeginStart, mayStart
  <2>5. ASSUME NEW g \in Callers, FinishStart(g)
        PROVE  running' = running /\ \A w \in Workers : starting'[w] \subseteq starting[w]
    BY Zenon, <1>1, <2>5 DEF IInv, Shape, GroupShape, FinishStart
  <2>6. \/ \E c \in Conns : Accept(c) \/ RetireDone(c)
        \/ \E g \in Callers : BeginStart(g) \/ FinishStart(g)
        \/ UNCHANGED <<starting, running>>
    BY Zenon, <1>1 DEF Next, CallerStep, ConnStep, vars, StartCall, CloseCall, Listen, Publish,
       RejectHub, CloseOnce, Stop, CancelAll, CloseConns, CloseHub, WaitStarting,
       WaitCloseDone, CloseProxy, WaitRunning, Arrive, ListenerAddr, RetireClose, RetireDelete,
       ProcessReturns
  <2>7. wk \in [Callers -> Workers]
    BY Zenon, <1>1 DEF IInv, Shape, CallerShape
  <2> QED BY Zenon, <2>1, <2>2, <2>3, <2>4, <2>5, <2>6, <2>7
<1> QED BY <1>1, AlwaysInv, PTL DEF Spec, NoAddAfterWait

\* The self-loop check of a redirected connection is never skipped while its
\* worker is open (LoopCheckSeesListener).
THEOREM InboundLoopCheckSeesListener == Spec => []LoopCheckSeesListener
<1>1. IInv => LoopCheckSeesListener
  BY Zenon DEF IInv, Rest, LoopCheckSeesListener, CanceledIsClosing
<1> QED BY <1>1, AlwaysInv, PTL
=============================================================================
