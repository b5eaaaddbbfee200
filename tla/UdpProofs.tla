----------------------------- MODULE UdpProofs -----------------------------
(***************************************************************************)
(* Proofs about UdpWorker, for any number of packet sources, connections,  *)
(* timers and callers of Close.                                            *)
(*                                                                         *)
(* Every connection that is open is in the table under its own source or   *)
(* in the hands of the clean or the Close that took it out.  A connection  *)
(* leaves the table without being handed on only when it is done already.  *)
(* After Close the table is empty for good, and the checker can run only   *)
(* while the callback is inside the Start it will take back.               *)
(***************************************************************************)
EXTENDS UdpWorker, TLAPS, FiniteSetTheorems

\* TypeOK in the groups of variables that the steps change.
TableShape == closed \in BOOLEAN /\ activeConn \in Table /\ cid \in [Conns -> Ids]
ConnShape ==
    /\ done \in [Conns -> BOOLEAN] /\ idle \in [Conns -> BOOLEAN]
    /\ gpc \in [Conns -> {"free", "made", "process", "remove", "end"}]
CallbackShape ==
    /\ cb \in {"receive", "start", "starting", "failed"}
    /\ cbConn \in Conns \cup {NoConn}
    /\ cb = "receive" <=> cbConn = NoConn
CleanShape == expired \in [Exec -> SUBSET Conns]
CloseShape ==
    /\ kpc \in [CloseCallers -> {"idle", "conns", "checker", "returned"}]
    /\ list \in [CloseCallers -> SUBSET Conns]

Shape == PeriodicTypeOK /\ TableShape /\ ConnShape /\ CallbackShape /\ CleanShape /\ CloseShape

\* A connection in the table has been made, for the source it stands under.
OwnEntry ==
    \A i \in Ids, c \in Conns : activeConn[i] = c => cid[c] = i /\ gpc[c] # "free"

\* An open connection has an owner: the second half of Owned.
HasOwner ==
    \A c \in Conns : gpc[c] # "free" /\ ~done[c] =>
        \/ activeConn[cid[c]] = c
        \/ \E g \in Exec : c \in expired[g]
        \/ \E k \in CloseCallers : c \in list[k]

\* removeConn comes after conn.Close.
RemovedIsDone ==
    /\ \A c \in Conns : gpc[c] \in {"remove", "end"} => done[c]
    /\ cb = "failed" => done[cbConn]

\* The connection in the callback's hands has been made.
CallbackMade == cb # "receive" => gpc[cbConn] # "free"

\* Close holds connections only between its locked part and closing them.
ListInClose == \A k \in CloseCallers : kpc[k] # "conns" => list[k] = {}

\* A closed worker has no entries.
ClosedIsEmpty == closed => \A i \in Ids : activeConn[i] = NoConn

\* A Start that failed has stopped the task, and nobody else starts it.
FailedIsOff == ppc[checker][packets] \in {"startFail", "err"} => ~running[checker]

\* After Close, the checker is on only while the callback is in its Start.
ClosedIsOff ==
    closed /\ cb # "starting" /\ (\A k \in CloseCallers : kpc[k] \in {"idle", "returned"}) =>
        ~running[checker]

IInv ==
    /\ Shape
    /\ OwnEntry /\ HasOwner /\ RemovedIsDone /\ CallbackMade
    /\ ListInClose /\ ClosedIsEmpty
    /\ FailedIsOff /\ ClosedIsOff

\* The worker has one checker, which its packet goroutine starts.
LEMMA OneChecker ==
    /\ checker \in Tasks /\ packets \in Starters /\ packets \in Exec
    /\ packets \notin Timers
<1>1. Tasks # {} /\ Starters # {}
  BY WorkerAssumption, FS_EmptySet
<1> QED BY Zenon, <1>1, PeriodicAssumption DEF checker, packets, Exec

\* What a step of one goroutine of a Periodic does to its stage.
LEMMA ToStage ==
    ASSUME PeriodicTypeOK, NEW p \in Tasks, NEW g \in Exec, NEW l \in Stages, To(p, g, l)
    PROVE  /\ ppc' \in [Tasks -> [Exec -> Stages]]
           /\ ppc'[p][g] = l
           /\ \A h \in Exec : h # g => ppc'[p][h] = ppc[p][h]
<1>1. ppc[p] \in [Exec -> Stages]
  BY Zenon DEF PeriodicTypeOK
<1>2. [ppc[p] EXCEPT ![g] = l] \in [Exec -> Stages]
  BY Zenon, <1>1
<1>3. ppc' = [ppc EXCEPT ![p] = [ppc[p] EXCEPT ![g] = l]]
  BY Zenon DEF To
<1>4. ppc'[p] = [ppc[p] EXCEPT ![g] = l]
  BY Zenon, <1>3 DEF PeriodicTypeOK
<1> QED BY Zenon, <1>1, <1>2, <1>3, <1>4 DEF PeriodicTypeOK

\* timer.Stop leaves the stages well typed, and the packet goroutine where it is.
LEMMA StoppedStages ==
    ASSUME PeriodicTypeOK, NEW p \in Tasks
    PROVE  stopped(p) \in [Exec -> Stages] /\ stopped(p)[packets] = ppc[p][packets]
<1>1. packets \in Exec /\ packets # timer[p]
  BY Zenon, OneChecker, PeriodicAssumption DEF PeriodicTypeOK
<1>2. ppc[p] \in [Exec -> Stages]
  BY Zenon DEF PeriodicTypeOK
<1>3. stopped(p) \in [Exec -> Stages]
  BY Zenon, <1>2 DEF stopped, Stages
<1> QED BY Zenon, <1>1, <1>2, <1>3 DEF stopped

\* Arming the next timer leaves the stages well typed, and the packet goroutine
\* where it is unless it is the one that returns.
LEMMA ArmStages ==
    ASSUME PeriodicTypeOK, NEW g \in Exec, Arm(checker, g)
    PROVE  /\ ppc' \in [Tasks -> [Exec -> Stages]]
           /\ ppc'[checker][packets] \in {"nil", ppc[checker][packets]}
           /\ timer' \in [Tasks -> Timers \cup {NoTimer}]
<1>1. ppc[checker] \in [Exec -> Stages] /\ Ended(g, "nil") \in {"nil", "idle"}
  BY Zenon, OneChecker DEF PeriodicTypeOK, Ended
<1>2. g = packets => Ended(g, "nil") = "nil"
  BY Zenon, OneChecker DEF Ended
<1>3. CASE To(checker, g, Ended(g, "nil")) /\ UNCHANGED timer
  <2>1. PICK l \in {"nil", "idle"} : To(checker, g, l) /\ l = Ended(g, "nil")
    BY Zenon, <1>1, <1>3
  <2>2. ppc' \in [Tasks -> [Exec -> Stages]] /\ ppc'[checker][packets] \in {"nil", ppc[checker][packets]}
    BY ZenonT(40), <2>1, <1>2, OneChecker, ToStage DEF Stages
  <2> QED BY Zenon, <1>3, <2>2 DEF PeriodicTypeOK
<1>4. ASSUME NEW t \in Timers,
             ppc' = [ppc EXCEPT ![checker][t] = "armed", ![checker][g] = Ended(g, "nil")],
             timer' = [timer EXCEPT ![checker] = t]
      PROVE  /\ ppc' \in [Tasks -> [Exec -> Stages]]
             /\ ppc'[checker][packets] \in {"nil", ppc[checker][packets]}
             /\ timer' \in [Tasks -> Timers \cup {NoTimer}]
  <2> DEFINE f == [[ppc[checker] EXCEPT ![t] = "armed"] EXCEPT ![g] = Ended(g, "nil")]
  <2>1. t \in Exec /\ packets # t
    BY Zenon, OneChecker DEF Exec
  <2>2. f \in [Exec -> Stages] /\ f[packets] \in {"nil", ppc[checker][packets]}
    BY Zenon, <1>1, <1>2, <2>1, OneChecker DEF Stages
  <2>3. ppc' = [ppc EXCEPT ![checker] = f]
    BY Zenon, <1>4, OneChecker DEF PeriodicTypeOK
  <2> HIDE DEF f
  <2> QED BY Zenon, <1>4, <2>2, <2>3, OneChecker DEF PeriodicTypeOK
<1> QED BY Zenon, <1>3, <1>4 DEF Arm

\* The connections that a table holds.
LEMMA InTableConns ==
    ASSUME TableShape
    PROVE  /\ InTable(activeConn) \subseteq Conns
           /\ \A c \in Conns : c \in InTable(activeConn) <=> \E i \in Ids : activeConn[i] = c
BY Zenon, WorkerAssumption DEF TableShape, Table, InTable

\* The groups make up TypeOK.
LEMMA TypeShape == TypeOK <=> Shape
BY Zenon DEF TypeOK, Shape, TableShape, ConnShape, CallbackShape, CleanShape, CloseShape

\* A packet of a known source only notes activity.
LEMMA PacketKnownStep == ASSUME NEW i \in Ids, IInv, PacketKnown(i) PROVE IInv'
<1> USE DEF IInv, Shape
<1> idle' \in [Conns -> BOOLEAN]
  BY Zenon DEF PacketKnown, Vacant, ConnShape, TableShape, Table
<1> UNCHANGED <<running, timer, ppc, closed, activeConn, cid, done, gpc, cb, cbConn, expired,
                kpc, list>>
  BY Zenon DEF PacketKnown, periodicVars
<1>1. ConnShape'
  BY Zenon DEF ConnShape
<1>2. PeriodicTypeOK' /\ TableShape' /\ CallbackShape' /\ CleanShape' /\ CloseShape'
  BY Zenon DEF PeriodicTypeOK, TableShape, CallbackShape, CleanShape, CloseShape
<1>3. OwnEntry' /\ HasOwner' /\ RemovedIsDone' /\ CallbackMade' /\ ListInClose'
  BY DEF OwnEntry, HasOwner, RemovedIsDone, CallbackMade, ListInClose
<1>4. ClosedIsEmpty' /\ FailedIsOff' /\ ClosedIsOff'
  BY Zenon DEF ClosedIsEmpty, FailedIsOff, ClosedIsOff
<1> QED BY Zenon, <1>1, <1>2, <1>3, <1>4

\* A packet of a new source makes a connection.  The entry it replaces, if any,
\* is of a connection that is done.
LEMMA PacketNewStep == ASSUME NEW i \in Ids, NEW c \in Conns, IInv, PacketNew(i, c) PROVE IInv'
<1> USE DEF IInv, Shape
<1> /\ gpc[c] = "free" /\ gpc'[c] = "made" /\ cid'[c] = i /\ activeConn'[i] = c /\ ~closed
    /\ cb' = "start" /\ cbConn' = c /\ cb = "receive"
    /\ \A d \in Conns : activeConn[i] = d => done[d]
    /\ \A d \in Conns : d # c => gpc'[d] = gpc[d] /\ cid'[d] = cid[d]
    /\ \A j \in Ids : j # i => activeConn'[j] = activeConn[j]
    /\ \A d \in Conns : cid[d] \in Ids
  BY Zenon, WorkerAssumption DEF PacketNew, Vacant, TableShape, ConnShape, CallbackShape, Table
<1> UNCHANGED <<running, timer, ppc, closed, done, idle, expired, kpc, list>>
  BY Zenon DEF PacketNew, periodicVars
<1>1. TableShape'
  BY Zenon DEF PacketNew, Vacant, TableShape, Table
<1>2. ConnShape'
  BY Zenon DEF PacketNew, Vacant, ConnShape
<1>3. CallbackShape'
  BY Zenon, WorkerAssumption DEF PacketNew, Vacant, CallbackShape
<1>4. PeriodicTypeOK' /\ CleanShape' /\ CloseShape'
  BY Zenon DEF PeriodicTypeOK, CleanShape, CloseShape
<1>5. ListInClose' /\ FailedIsOff'
  BY Zenon DEF ListInClose, FailedIsOff
<1>6. OwnEntry'
  BY DEF OwnEntry
<1>7. HasOwner'
  BY DEF HasOwner, OwnEntry
<1>8. RemovedIsDone'
  BY Zenon DEF RemovedIsDone
<1>9. CallbackMade'
  BY Zenon DEF CallbackMade
<1>10. ClosedIsEmpty'
  BY Zenon DEF ClosedIsEmpty
<1>11. ClosedIsOff'
  BY Zenon DEF ClosedIsOff
<1> QED BY Zenon, <1>1, <1>2, <1>3, <1>4, <1>5, <1>6, <1>7, <1>8, <1>9, <1>10, <1>11

\* The callback starts the checker.
LEMMA StartCheckerStep == ASSUME IInv, StartChecker PROVE IInv'
<1> USE DEF IInv, Shape
<1> /\ cb = "start" /\ cb' = "starting"
    /\ ppc'[checker][packets] \in {"nil", "check"}
  <2>1. PICK l \in {"nil", "check"} : To(checker, packets, l)
    BY Zenon DEF StartChecker, Start
  <2> QED BY Zenon, <2>1, OneChecker, ToStage DEF StartChecker, PeriodicTypeOK, Stages
<1> UNCHANGED <<timer, closed, activeConn, cid, done, idle, gpc, cbConn, expired, kpc, list>>
  BY Zenon DEF StartChecker, Start
<1>1. PeriodicTypeOK'
  <2>1. PICK l \in {"nil", "check"} : To(checker, packets, l)
    BY Zenon DEF StartChecker, Start
  <2>2. ppc' \in [Tasks -> [Exec -> Stages]]
    BY <2>1, OneChecker, ToStage DEF PeriodicTypeOK, Stages
  <2> QED BY Zenon, <2>2 DEF StartChecker, Start, PeriodicTypeOK
<1>2. CallbackShape'
  BY Zenon DEF StartChecker, CallbackShape
<1>3. TableShape' /\ ConnShape' /\ CleanShape' /\ CloseShape'
  BY Zenon DEF TableShape, ConnShape, CleanShape, CloseShape
<1>4. OwnEntry' /\ HasOwner' /\ ListInClose' /\ ClosedIsEmpty'
  BY Zenon DEF OwnEntry, HasOwner, ListInClose, ClosedIsEmpty
<1>5. RemovedIsDone'
  BY Zenon DEF RemovedIsDone
<1>6. CallbackMade'
  BY Zenon DEF CallbackMade
<1>7. FailedIsOff'
  BY Zenon DEF FailedIsOff
<1>8. ClosedIsOff'
  BY Zenon DEF ClosedIsOff
<1> QED BY Zenon, <1>1, <1>2, <1>3, <1>4, <1>5, <1>6, <1>7, <1>8

\* The Start has returned nil: a callback that finds the worker closed stops
\* the checker again, any other serves the connection.
LEMMA StartedStep == ASSUME IInv, Started PROVE IInv'
<1> USE DEF IInv, Shape
<1> /\ cb = "starting" /\ cb' = "receive" /\ cbConn \in Conns
    /\ ppc'[checker][packets] = "idle" /\ (closed => ~running'[checker])
    /\ \A d \in Conns : gpc'[d] = gpc[d] \/ (gpc'[d] = "process" /\ d = cbConn /\ ~closed)
  <2>1. CASE closed
    BY Zenon, <2>1, StoppedStages, OneChecker DEF Started, PeriodicTypeOK, CallbackShape
  <2>2. CASE ~closed
    <3>1. To(checker, packets, "idle")
      BY Zenon, <2>2 DEF Started, Return
    <3> QED BY <2>2, <3>1, OneChecker, ToStage DEF Started, Stages, CallbackShape, ConnShape
  <2> QED BY Zenon, <2>1, <2>2
<1> UNCHANGED <<closed, activeConn, cid, done, idle, expired, kpc, list>>
  BY Zenon DEF Started, Return
<1>1. PeriodicTypeOK'
  <2>1. CASE closed
    <3>1. [stopped(checker) EXCEPT ![packets] = "idle"] \in [Exec -> Stages]
      BY Zenon, StoppedStages, OneChecker DEF Stages
    <3> QED BY Zenon, <2>1, <3>1, OneChecker DEF Started, PeriodicTypeOK
  <2>2. CASE ~closed
    <3>1. To(checker, packets, "idle") /\ UNCHANGED <<running, timer>>
      BY Zenon, <2>2 DEF Started, Return
    <3> QED BY Zenon, <3>1, OneChecker, ToStage DEF PeriodicTypeOK, Stages
  <2> QED BY Zenon, <2>1, <2>2
<1>2. ConnShape'
  BY Zenon DEF Started, ConnShape
<1>3. CallbackShape'
  BY Zenon, WorkerAssumption DEF Started, CallbackShape
<1>4. TableShape' /\ CleanShape' /\ CloseShape'
  BY Zenon DEF TableShape, CleanShape, CloseShape
<1>5. ListInClose' /\ ClosedIsEmpty'
  BY Zenon DEF ListInClose, ClosedIsEmpty
<1>6. OwnEntry'
  BY Zenon DEF OwnEntry
<1>7. HasOwner'
  BY Zenon DEF HasOwner, CallbackMade
<1>8. RemovedIsDone'
  BY Zenon DEF RemovedIsDone
<1>9. CallbackMade'
  BY Zenon DEF CallbackMade
<1>10. FailedIsOff'
  BY Zenon DEF FailedIsOff
<1>11. ClosedIsOff'
  BY Zenon DEF ClosedIsOff
<1> QED BY Zenon, <1>1, <1>2, <1>3, <1>4, <1>5, <1>6, <1>7, <1>8, <1>9, <1>10, <1>11

\* The Start has failed: the connection is closed.
LEMMA StartFailedStep == ASSUME IInv, StartFailed PROVE IInv'
<1> USE DEF IInv, Shape
<1> /\ cb = "starting" /\ cb' = "failed" /\ ppc[checker][packets] = "err"
    /\ ppc'[checker][packets] = "idle"
    /\ cbConn \in Conns /\ done'[cbConn] /\ \A d \in Conns : d # cbConn => done'[d] = done[d]
  <2>1. To(checker, packets, "idle")
    BY Zenon DEF StartFailed, Return
  <2> QED BY Zenon, <2>1, OneChecker, ToStage DEF StartFailed, Stages, CallbackShape, ConnShape
<1> UNCHANGED <<running, timer, closed, activeConn, cid, idle, gpc, cbConn, expired, kpc, list>>
  BY Zenon DEF StartFailed, Return
<1>1. PeriodicTypeOK'
  <2>1. To(checker, packets, "idle") /\ UNCHANGED <<running, timer>>
    BY Zenon DEF StartFailed, Return
  <2> QED BY Zenon, <2>1, OneChecker, ToStage DEF PeriodicTypeOK, Stages
<1>2. ConnShape'
  BY Zenon DEF StartFailed, ConnShape
<1>3. CallbackShape'
  BY Zenon DEF StartFailed, CallbackShape
<1>4. TableShape' /\ CleanShape' /\ CloseShape'
  BY Zenon DEF TableShape, CleanShape, CloseShape
<1>5. OwnEntry' /\ ListInClose' /\ ClosedIsEmpty'
  BY Zenon DEF OwnEntry, ListInClose, ClosedIsEmpty
<1>6. HasOwner'
  BY Zenon DEF HasOwner
<1>7. RemovedIsDone'
  BY Zenon DEF RemovedIsDone
<1>8. CallbackMade'
  BY Zenon DEF CallbackMade
<1>9. FailedIsOff'
  BY Zenon DEF FailedIsOff
<1>10. ClosedIsOff'
  BY Zenon DEF ClosedIsOff, FailedIsOff
<1> QED BY Zenon, <1>1, <1>2, <1>3, <1>4, <1>5, <1>6, <1>7, <1>8, <1>9, <1>10

\* removeConn after a failed Start: the entry, if it is its own, is of a
\* connection that is done.
LEMMA RemoveFailedStep == ASSUME IInv, RemoveFailed PROVE IInv'
<1> USE DEF IInv, Shape
<1> /\ cb = "failed" /\ cb' = "receive" /\ cbConn \in Conns
    /\ \A j \in Ids : activeConn'[j] = activeConn[j] \/ (activeConn'[j] = NoConn /\ activeConn[j] = cbConn)
  BY Zenon DEF RemoveFailed, without, TableShape, CallbackShape, Table
<1> UNCHANGED <<running, timer, ppc, closed, cid, done, idle, gpc, expired, kpc, list>>
  BY Zenon DEF RemoveFailed, periodicVars
<1>1. TableShape'
  BY Zenon DEF RemoveFailed, without, TableShape, Table
<1>2. CallbackShape'
  BY Zenon DEF RemoveFailed, without, CallbackShape
<1>3. PeriodicTypeOK' /\ ConnShape' /\ CleanShape' /\ CloseShape'
  BY Zenon DEF PeriodicTypeOK, ConnShape, CleanShape, CloseShape
<1>4. ListInClose' /\ FailedIsOff'
  BY Zenon DEF ListInClose, FailedIsOff
<1>5. OwnEntry'
  BY WorkerAssumption DEF OwnEntry
<1>6. HasOwner'
  BY Zenon DEF HasOwner, RemovedIsDone, TableShape
<1>7. RemovedIsDone'
  BY Zenon DEF RemovedIsDone
<1>8. CallbackMade'
  BY Zenon DEF CallbackMade
<1>9. ClosedIsEmpty'
  BY Zenon DEF ClosedIsEmpty
<1>10. ClosedIsOff'
  BY Zenon DEF ClosedIsOff
<1> QED BY Zenon, <1>1, <1>2, <1>3, <1>4, <1>5, <1>6, <1>7, <1>8, <1>9, <1>10

\* Process returns and the connection is closed.
LEMMA ProcessReturnsStep == ASSUME NEW c \in Conns, IInv, ProcessReturns(c) PROVE IInv'
<1> USE DEF IInv, Shape
<1> /\ done'[c] /\ gpc[c] = "process" /\ gpc'[c] = "remove"
    /\ \A d \in Conns : d # c => done'[d] = done[d] /\ gpc'[d] = gpc[d]
  BY Zenon DEF ProcessReturns, ConnShape
<1> UNCHANGED <<running, timer, ppc, closed, activeConn, cid, idle, cb, cbConn, expired, kpc,
                list>>
  BY Zenon DEF ProcessReturns, periodicVars
<1>1. ConnShape'
  BY Zenon DEF ProcessReturns, ConnShape
<1>2. PeriodicTypeOK' /\ TableShape' /\ CallbackShape' /\ CleanShape' /\ CloseShape'
  BY Zenon DEF PeriodicTypeOK, TableShape, CallbackShape, CleanShape, CloseShape
<1>3. ListInClose' /\ ClosedIsEmpty' /\ FailedIsOff' /\ ClosedIsOff'
  BY Zenon DEF ListInClose, ClosedIsEmpty, FailedIsOff, ClosedIsOff
<1>4. OwnEntry'
  BY Zenon DEF OwnEntry
<1>5. HasOwner'
  BY Zenon DEF HasOwner
<1>6. RemovedIsDone'
  BY Zenon, WorkerAssumption DEF RemovedIsDone, CallbackShape
<1>7. CallbackMade'
  BY Zenon DEF CallbackMade, CallbackShape
<1> QED BY Zenon, <1>1, <1>2, <1>3, <1>4, <1>5, <1>6, <1>7

\* removeConn takes out the entry of the connection itself, never that of its
\* replacement.
LEMMA RemoveConnStep == ASSUME NEW c \in Conns, IInv, RemoveConn(c) PROVE IInv'
<1> USE DEF IInv, Shape
<1> /\ gpc[c] = "remove" /\ gpc'[c] = "end"
    /\ \A d \in Conns : d # c => gpc'[d] = gpc[d]
    /\ \A j \in Ids : activeConn'[j] = activeConn[j] \/ (activeConn'[j] = NoConn /\ activeConn[j] = c)
  BY Zenon DEF RemoveConn, without, TableShape, ConnShape, Table
<1> UNCHANGED <<running, timer, ppc, closed, cid, done, idle, cb, cbConn, expired, kpc, list>>
  BY Zenon DEF RemoveConn, periodicVars
<1>1. TableShape'
  BY Zenon DEF RemoveConn, without, TableShape, Table
<1>2. ConnShape'
  BY Zenon DEF RemoveConn, without, ConnShape
<1>3. PeriodicTypeOK' /\ CallbackShape' /\ CleanShape' /\ CloseShape'
  BY Zenon DEF PeriodicTypeOK, CallbackShape, CleanShape, CloseShape
<1>4. ListInClose' /\ FailedIsOff' /\ ClosedIsOff'
  BY Zenon DEF ListInClose, FailedIsOff, ClosedIsOff
<1>5. OwnEntry'
  BY WorkerAssumption DEF OwnEntry
<1>6. HasOwner'
  BY DEF HasOwner, RemovedIsDone, TableShape
<1>7. RemovedIsDone'
  BY Zenon DEF RemovedIsDone
<1>8. CallbackMade'
  BY Zenon, WorkerAssumption DEF CallbackMade, CallbackShape
<1>9. ClosedIsEmpty'
  BY Zenon DEF ClosedIsEmpty
<1> QED BY Zenon, <1>1, <1>2, <1>3, <1>4, <1>5, <1>6, <1>7, <1>8, <1>9

\* Two minutes pass.
LEMMA GoIdleStep == ASSUME NEW c \in Conns, IInv, GoIdle(c) PROVE IInv'
<1> USE DEF IInv, Shape
<1> idle' \in [Conns -> BOOLEAN]
  BY Zenon DEF GoIdle, ConnShape
<1> UNCHANGED <<running, timer, ppc, closed, activeConn, cid, done, gpc, cb, cbConn, expired,
                kpc, list>>
  BY Zenon DEF GoIdle, periodicVars
<1>1. ConnShape'
  BY Zenon DEF ConnShape
<1>2. PeriodicTypeOK' /\ TableShape' /\ CallbackShape' /\ CleanShape' /\ CloseShape'
  BY Zenon DEF PeriodicTypeOK, TableShape, CallbackShape, CleanShape, CloseShape
<1>3. OwnEntry' /\ HasOwner' /\ RemovedIsDone' /\ CallbackMade' /\ ListInClose'
  BY DEF OwnEntry, HasOwner, RemovedIsDone, CallbackMade, ListInClose
<1>4. ClosedIsEmpty' /\ FailedIsOff' /\ ClosedIsOff'
  BY Zenon DEF ClosedIsEmpty, FailedIsOff, ClosedIsOff
<1> QED BY Zenon, <1>1, <1>2, <1>3, <1>4

\* The proxy reads or writes.
LEMMA ActivityStep == ASSUME NEW c \in Conns, IInv, Activity(c) PROVE IInv'
<1> USE DEF IInv, Shape
<1> idle' \in [Conns -> BOOLEAN]
  BY Zenon DEF Activity, ConnShape
<1> UNCHANGED <<running, timer, ppc, closed, activeConn, cid, done, gpc, cb, cbConn, expired,
                kpc, list>>
  BY Zenon DEF Activity, periodicVars
<1>1. ConnShape'
  BY Zenon DEF ConnShape
<1>2. PeriodicTypeOK' /\ TableShape' /\ CallbackShape' /\ CleanShape' /\ CloseShape'
  BY Zenon DEF PeriodicTypeOK, TableShape, CallbackShape, CleanShape, CloseShape
<1>3. OwnEntry' /\ HasOwner' /\ RemovedIsDone' /\ CallbackMade' /\ ListInClose'
  BY DEF OwnEntry, HasOwner, RemovedIsDone, CallbackMade, ListInClose
<1>4. ClosedIsEmpty' /\ FailedIsOff' /\ ClosedIsOff'
  BY Zenon DEF ClosedIsEmpty, FailedIsOff, ClosedIsOff
<1> QED BY Zenon, <1>1, <1>2, <1>3, <1>4

\* clean finds nothing to do and fails, which ends the task.
LEMMA CleanNoneStep == ASSUME NEW g \in Exec, IInv, CleanNone(g) PROVE IInv'
<1> USE DEF IInv, Shape
<1> /\ ppc' \in [Tasks -> [Exec -> Stages]]
    /\ ppc'[checker][packets] \in {"startFail", "err"} => ppc[checker][packets] \in {"startFail", "err"}
  <2>1. To(checker, g, "fail")
    BY Zenon DEF CleanNone, Executed
  <2> QED BY Zenon, <2>1, OneChecker, ToStage DEF PeriodicTypeOK, Stages
<1> UNCHANGED <<running, timer, closed, activeConn, cid, done, idle, gpc, cb, cbConn, expired,
                kpc, list>>
  BY Zenon DEF CleanNone, workerVars, Executed
<1>1. PeriodicTypeOK'
  BY Zenon DEF PeriodicTypeOK
<1>2. TableShape' /\ ConnShape' /\ CallbackShape' /\ CleanShape' /\ CloseShape'
  BY Zenon DEF TableShape, ConnShape, CallbackShape, CleanShape, CloseShape
<1>3. OwnEntry' /\ HasOwner' /\ RemovedIsDone' /\ CallbackMade' /\ ListInClose'
  BY Zenon DEF OwnEntry, HasOwner, RemovedIsDone, CallbackMade, ListInClose
<1>4. ClosedIsEmpty' /\ ClosedIsOff'
  BY Zenon DEF ClosedIsEmpty, ClosedIsOff
<1>5. FailedIsOff'
  BY Zenon DEF FailedIsOff
<1> QED BY Zenon, <1>1, <1>2, <1>3, <1>4, <1>5

\* The locked part of clean: what it takes out of the table it holds itself.
LEMMA CleanIdleStep == ASSUME NEW g \in Exec, IInv, CleanIdle(g) PROVE IInv'
<1> USE DEF IInv, Shape
<1> /\ ppc' \in [Tasks -> [Exec -> Stages]]
    /\ ppc'[checker][packets] \in {"startFail", "err"} => ppc[checker][packets] \in {"startFail", "err"}
    /\ ~closed /\ expired[g] = {} /\ \A h \in Exec : h # g => expired'[h] = expired[h]
    /\ \A j \in Ids : activeConn'[j] = activeConn[j] \/ (activeConn'[j] = NoConn /\ activeConn[j] \in expired'[g])
  <2>1. To(checker, g, "arm") \/ ppc' = ppc
    BY Zenon DEF CleanIdle, Executed, periodicVars
  <2>2. To(checker, g, "arm") => /\ ppc' \in [Tasks -> [Exec -> Stages]]
                                /\ ppc'[checker][packets] \in {"arm", ppc[checker][packets]}
    BY Zenon, OneChecker, ToStage DEF Stages
  <2>3. ppc' = ppc => ppc' \in [Tasks -> [Exec -> Stages]]
    BY Zenon DEF PeriodicTypeOK
  <2>4. ~closed /\ expired[g] = {} /\ \A h \in Exec : h # g => expired'[h] = expired[h]
    BY Zenon DEF CleanIdle, CleanShape
  <2>5. ASSUME NEW j \in Ids, activeConn'[j] # activeConn[j]
        PROVE  activeConn'[j] = NoConn /\ activeConn[j] \in expired'[g]
    BY Zenon, <2>5 DEF CleanIdle, closes, CleanShape
  <2> QED BY Zenon, <2>1, <2>2, <2>3, <2>4, <2>5
<1> UNCHANGED <<running, timer, closed, cid, done, idle, gpc, cb, cbConn, kpc, list>>
  BY Zenon DEF CleanIdle, Executed, periodicVars
<1>1. PeriodicTypeOK'
  BY Zenon DEF PeriodicTypeOK
<1>2. TableShape'
  BY Zenon DEF CleanIdle, TableShape, Table
<1>3. CleanShape'
  <2>1. {c \in InTable(activeConn) : idle[c]} \in SUBSET Conns
    BY Zenon, InTableConns
  <2>2. \/ expired' = expired
        \/ expired' = [expired EXCEPT ![g] = {c \in InTable(activeConn) : idle[c]}]
    BY Zenon DEF CleanIdle, closes
  <2> QED BY Zenon, <2>1, <2>2 DEF CleanShape
<1>4. ConnShape' /\ CallbackShape' /\ CloseShape'
  BY Zenon DEF ConnShape, CallbackShape, CloseShape
<1>5. RemovedIsDone' /\ CallbackMade' /\ ListInClose' /\ ClosedIsOff'
  BY Zenon DEF RemovedIsDone, CallbackMade, ListInClose, ClosedIsOff
<1>6. OwnEntry'
  BY WorkerAssumption DEF OwnEntry
<1>7. HasOwner'
  BY DEF HasOwner, TableShape
<1>8. ClosedIsEmpty'
  BY Zenon DEF ClosedIsEmpty
<1>9. FailedIsOff'
  BY Zenon DEF FailedIsOff
<1> QED BY Zenon, <1>1, <1>2, <1>3, <1>4, <1>5, <1>6, <1>7, <1>8, <1>9

\* clean closes the connections that it holds.
LEMMA CleanCloseStep == ASSUME NEW g \in Exec, IInv, CleanClose(g) PROVE IInv'
<1> USE DEF IInv, Shape
<1> /\ ppc' \in [Tasks -> [Exec -> Stages]]
    /\ ppc'[checker][packets] \in {"startFail", "err"} => ppc[checker][packets] \in {"startFail", "err"}
    /\ expired'[g] = {} /\ \A h \in Exec : h # g => expired'[h] = expired[h]
    /\ \A d \in Conns : done'[d] = (done[d] \/ d \in expired[g])
  <2>1. To(checker, g, "arm")
    BY Zenon DEF CleanClose, Executed
  <2>2. ppc' \in [Tasks -> [Exec -> Stages]] /\ ppc'[checker][packets] \in {"arm", ppc[checker][packets]}
    BY Zenon, <2>1, OneChecker, ToStage DEF PeriodicTypeOK, Stages
  <2> QED BY Zenon, <2>2 DEF CleanClose, CleanShape
<1> UNCHANGED <<running, timer, closed, activeConn, cid, idle, gpc, cb, cbConn, kpc, list>>
  BY Zenon DEF CleanClose, Executed
<1>1. PeriodicTypeOK'
  BY Zenon DEF PeriodicTypeOK
<1>2. ConnShape'
  BY Zenon DEF CleanClose, ConnShape
<1>3. CleanShape'
  BY Zenon DEF CleanClose, CleanShape
<1>4. TableShape' /\ CallbackShape' /\ CloseShape'
  BY Zenon DEF TableShape, CallbackShape, CloseShape
<1>5. OwnEntry' /\ CallbackMade' /\ ListInClose' /\ ClosedIsEmpty' /\ ClosedIsOff'
  BY Zenon DEF OwnEntry, CallbackMade, ListInClose, ClosedIsEmpty, ClosedIsOff
<1>6. HasOwner'
  BY Zenon DEF HasOwner
<1>7. RemovedIsDone'
  BY Zenon, WorkerAssumption DEF RemovedIsDone, CallbackShape
<1>8. FailedIsOff'
  BY Zenon DEF FailedIsOff
<1> QED BY Zenon, <1>1, <1>2, <1>3, <1>4, <1>5, <1>6, <1>7, <1>8

\* The locked part of Close: the first caller takes every connection out of the
\* table.
LEMMA CloseCallStep == ASSUME NEW k \in CloseCallers, IInv, CloseCall(k) PROVE IInv'
<1> USE DEF IInv, Shape
<1> /\ kpc[k] = "idle" /\ closed'
    /\ \/ closed /\ kpc'[k] = "returned" /\ UNCHANGED <<activeConn, list>>
       \/ /\ kpc'[k] = "conns" /\ list'[k] = InTable(activeConn)
          /\ \A j \in Ids : activeConn'[j] = NoConn
    /\ \A h \in CloseCallers : h # k => kpc'[h] = kpc[h] /\ list'[h] = list[h]
  BY Zenon DEF CloseCall, detachedConns, TableShape, CloseShape, Table, NoTable
<1> UNCHANGED <<running, timer, ppc, cid, done, idle, gpc, cb, cbConn, expired>>
  BY Zenon DEF CloseCall, periodicVars
<1>1. TableShape'
  BY Zenon DEF CloseCall, detachedConns, TableShape, Table, NoTable
<1>2. CloseShape'
  BY ZenonT(40), InTableConns DEF CloseCall, detachedConns, CloseShape
<1>3. PeriodicTypeOK' /\ ConnShape' /\ CallbackShape' /\ CleanShape'
  BY Zenon DEF PeriodicTypeOK, ConnShape, CallbackShape, CleanShape
<1>4. RemovedIsDone' /\ CallbackMade' /\ FailedIsOff'
  BY Zenon DEF RemovedIsDone, CallbackMade, FailedIsOff
<1>5. OwnEntry'
  BY ZenonT(40), WorkerAssumption DEF OwnEntry
<1>6. HasOwner'
  <2> SUFFICES ASSUME NEW c \in Conns, gpc[c] # "free", ~done[c]
               PROVE  \/ activeConn'[cid[c]] = c
                      \/ \E g \in Exec : c \in expired[g]
                      \/ \E h \in CloseCallers : c \in list'[h]
    BY Zenon DEF HasOwner
  <2>1. CASE UNCHANGED <<activeConn, list>>
    BY Zenon, <2>1 DEF HasOwner
  <2>2. CASE list'[k] = InTable(activeConn)
    <3>1. activeConn[cid[c]] = c => c \in list'[k]
      BY Zenon, <2>2, InTableConns DEF TableShape
    <3>2. \A h \in CloseCallers : c \in list[h] => c \in list'[h]
      BY Zenon DEF ListInClose
    <3> QED BY Zenon, <3>1, <3>2 DEF HasOwner
  <2> QED BY Zenon, <2>1, <2>2
<1>7. ListInClose'
  BY Zenon DEF ListInClose
<1>8. ClosedIsEmpty'
  BY Zenon DEF ClosedIsEmpty
<1>9. ClosedIsOff'
  BY Zenon DEF ClosedIsOff
<1> QED BY Zenon, <1>1, <1>2, <1>3, <1>4, <1>5, <1>6, <1>7, <1>8, <1>9

\* Close closes the connections it has taken.
LEMMA CloseConnsStep == ASSUME NEW k \in CloseCallers, IInv, CloseConns(k) PROVE IInv'
<1> USE DEF IInv, Shape
<1> /\ kpc[k] = "conns" /\ kpc'[k] = "checker" /\ list'[k] = {}
    /\ \A h \in CloseCallers : h # k => kpc'[h] = kpc[h] /\ list'[h] = list[h]
    /\ \A d \in Conns : done'[d] = (done[d] \/ d \in list[k])
  BY Zenon DEF CloseConns, ConnShape, CloseShape
<1> UNCHANGED <<running, timer, ppc, closed, activeConn, cid, idle, gpc, cb, cbConn, expired>>
  BY Zenon DEF CloseConns, periodicVars
<1>1. ConnShape'
  BY Zenon DEF CloseConns, ConnShape
<1>2. CloseShape'
  BY Zenon DEF CloseConns, CloseShape
<1>3. PeriodicTypeOK' /\ TableShape' /\ CallbackShape' /\ CleanShape'
  BY Zenon DEF PeriodicTypeOK, TableShape, CallbackShape, CleanShape
<1>4. OwnEntry' /\ CallbackMade' /\ ClosedIsEmpty' /\ FailedIsOff'
  BY Zenon DEF OwnEntry, CallbackMade, ClosedIsEmpty, FailedIsOff
<1>5. HasOwner'
  BY Zenon DEF HasOwner
<1>6. RemovedIsDone'
  BY Zenon, WorkerAssumption DEF RemovedIsDone, CallbackShape
<1>7. ListInClose'
  BY Zenon DEF ListInClose
<1>8. ClosedIsOff'
  BY Zenon DEF ClosedIsOff
<1> QED BY Zenon, <1>1, <1>2, <1>3, <1>4, <1>5, <1>6, <1>7, <1>8

\* Close stops the checker.
LEMMA CloseCheckerStep == ASSUME NEW k \in CloseCallers, IInv, CloseChecker(k) PROVE IInv'
<1> USE DEF IInv, Shape
<1> /\ kpc[k] = "checker" /\ kpc'[k] = "returned" /\ ~running'[checker]
    /\ \A h \in CloseCallers : h # k => kpc'[h] = kpc[h]
  BY Zenon, OneChecker DEF CloseChecker, Close, PeriodicTypeOK, CloseShape
<1> UNCHANGED <<closed, activeConn, cid, done, idle, gpc, cb, cbConn, expired, list>>
  BY Zenon DEF CloseChecker, Close
<1>1. PeriodicTypeOK'
  <2>1. \A p \in Tasks : ppc[p] \in [Exec -> Stages] /\ stopped(p) \in [Exec -> Stages]
    BY Zenon, StoppedStages DEF PeriodicTypeOK
  <2> QED BY Zenon, <2>1 DEF CloseChecker, Close, PeriodicTypeOK
<1>2. CloseShape'
  BY Zenon DEF CloseChecker, Close, CloseShape
<1>3. TableShape' /\ ConnShape' /\ CallbackShape' /\ CleanShape'
  BY Zenon DEF TableShape, ConnShape, CallbackShape, CleanShape
<1>4. OwnEntry' /\ HasOwner' /\ RemovedIsDone' /\ CallbackMade' /\ ClosedIsEmpty'
  BY Zenon DEF OwnEntry, HasOwner, RemovedIsDone, CallbackMade, ClosedIsEmpty
<1>5. ListInClose'
  BY Zenon DEF ListInClose
<1>6. FailedIsOff'
  BY Zenon DEF FailedIsOff
<1>7. ClosedIsOff'
  BY Zenon DEF ClosedIsOff
<1> QED BY Zenon, <1>1, <1>2, <1>3, <1>4, <1>5, <1>6, <1>7

\* hasClosed.
LEMMA CheckerCheckStep ==
    ASSUME NEW g \in Exec, IInv, Check(checker, g), UNCHANGED workerVars
    PROVE  IInv'
<1> USE DEF IInv, Shape
<1> /\ ppc'[checker][packets] \in {"startFail", "err"} =>
          ppc[checker][packets] \in {"startFail", "err"} \/ ~running'[checker]
    /\ running'[checker] => running[checker]
  <2>1. PICK l \in {"execute", "nil", "idle"} : To(checker, g, l)
    BY Zenon DEF Check, Ended
  <2> QED BY Zenon, <2>1, OneChecker, ToStage DEF Check, PeriodicTypeOK, Stages
<1> UNCHANGED <<running, timer, closed, activeConn, cid, done, idle, gpc, cb, cbConn, expired,
                kpc, list>>
  BY Zenon DEF Check, workerVars
<1>1. PeriodicTypeOK'
  <2>1. PICK l \in {"execute", "nil", "idle"} : To(checker, g, l)
    BY Zenon DEF Check, Ended
  <2> QED BY <2>1, OneChecker, ToStage DEF Check, PeriodicTypeOK, Stages
<1>2. TableShape' /\ ConnShape' /\ CallbackShape' /\ CleanShape' /\ CloseShape'
  BY Zenon DEF TableShape, ConnShape, CallbackShape, CleanShape, CloseShape
<1>3. OwnEntry' /\ HasOwner' /\ RemovedIsDone' /\ CallbackMade' /\ ListInClose'
  BY Zenon DEF OwnEntry, HasOwner, RemovedIsDone, CallbackMade, ListInClose
<1>4. ClosedIsEmpty' /\ ClosedIsOff'
  BY Zenon DEF ClosedIsEmpty, ClosedIsOff
<1>5. FailedIsOff'
  BY Zenon DEF FailedIsOff
<1> QED BY Zenon, <1>1, <1>2, <1>3, <1>4, <1>5

\* A task whose Execute failed is stopped.
LEMMA CheckerFailStep ==
    ASSUME NEW g \in Exec, IInv, Fail(checker, g), UNCHANGED workerVars
    PROVE  IInv'
<1> USE DEF IInv, Shape
<1> /\ ppc'[checker][packets] \in {"startFail", "err"} =>
          ppc[checker][packets] \in {"startFail", "err"} \/ ~running'[checker]
    /\ running'[checker] => running[checker]
  BY Zenon, OneChecker DEF Fail, PeriodicTypeOK
<1> UNCHANGED <<timer, closed, activeConn, cid, done, idle, gpc, cb, cbConn, expired, kpc, list>>
  BY Zenon DEF Fail, workerVars
<1>1. PeriodicTypeOK'
  <2>1. PICK l \in {"startFail", "err", "idle"} : To(checker, g, l)
    BY Zenon DEF Fail, Ended
  <2> QED BY <2>1, OneChecker, ToStage DEF Fail, PeriodicTypeOK, Stages
<1>2. TableShape' /\ ConnShape' /\ CallbackShape' /\ CleanShape' /\ CloseShape'
  BY Zenon DEF TableShape, ConnShape, CallbackShape, CleanShape, CloseShape
<1>3. OwnEntry' /\ HasOwner' /\ RemovedIsDone' /\ CallbackMade' /\ ListInClose'
  BY Zenon DEF OwnEntry, HasOwner, RemovedIsDone, CallbackMade, ListInClose
<1>4. ClosedIsEmpty'
  BY Zenon DEF ClosedIsEmpty
<1>5. FailedIsOff'
  BY Zenon DEF FailedIsOff
<1>6. ClosedIsOff'
  BY Zenon DEF ClosedIsOff
<1> QED BY Zenon, <1>1, <1>2, <1>3, <1>4, <1>5, <1>6

\* The checker arms its next timer.
LEMMA CheckerArmStep ==
    ASSUME NEW g \in Exec, IInv, Arm(checker, g), UNCHANGED workerVars
    PROVE  IInv'
<1> USE DEF IInv, Shape
<1> /\ ppc'[checker][packets] \in {"startFail", "err"} =>
          ppc[checker][packets] \in {"startFail", "err"} \/ ~running'[checker]
    /\ running'[checker] => running[checker]
  BY Zenon, ArmStages DEF Arm
<1> UNCHANGED <<running, closed, activeConn, cid, done, idle, gpc, cb, cbConn, expired, kpc,
                list>>
  BY Zenon DEF Arm, workerVars
<1>1. PeriodicTypeOK'
  BY Zenon, ArmStages DEF Arm, PeriodicTypeOK
<1>2. TableShape' /\ ConnShape' /\ CallbackShape' /\ CleanShape' /\ CloseShape'
  BY Zenon DEF TableShape, ConnShape, CallbackShape, CleanShape, CloseShape
<1>3. OwnEntry' /\ HasOwner' /\ RemovedIsDone' /\ CallbackMade' /\ ListInClose'
  BY Zenon DEF OwnEntry, HasOwner, RemovedIsDone, CallbackMade, ListInClose
<1>4. ClosedIsEmpty' /\ ClosedIsOff'
  BY Zenon DEF ClosedIsEmpty, ClosedIsOff
<1>5. FailedIsOff'
  BY Zenon DEF FailedIsOff
<1> QED BY Zenon, <1>1, <1>2, <1>3, <1>4, <1>5

\* The timer fires.
LEMMA FireStep ==
    ASSUME NEW t \in Timers, IInv, Fire(checker, t), UNCHANGED workerVars
    PROVE  IInv'
<1> USE DEF IInv, Shape
<1> ppc'[checker][packets] \in {"startFail", "err"} => ppc[checker][packets] \in {"startFail", "err"}
  <2>1. To(checker, t, "check") /\ t \in Exec
    BY Zenon DEF Fire, Exec
  <2> QED BY Zenon, <2>1, OneChecker, ToStage DEF PeriodicTypeOK, Stages
<1> UNCHANGED <<running, timer, closed, activeConn, cid, done, idle, gpc, cb, cbConn, expired,
                kpc, list>>
  BY Zenon DEF Fire, workerVars
<1>1. PeriodicTypeOK'
  <2>1. To(checker, t, "check") /\ t \in Exec
    BY Zenon DEF Fire, Exec
  <2> QED BY Zenon, <2>1, OneChecker, ToStage DEF Fire, PeriodicTypeOK, Stages
<1>2. TableShape' /\ ConnShape' /\ CallbackShape' /\ CleanShape' /\ CloseShape'
  BY Zenon DEF TableShape, ConnShape, CallbackShape, CleanShape, CloseShape
<1>3. OwnEntry' /\ HasOwner' /\ RemovedIsDone' /\ CallbackMade' /\ ListInClose'
  BY Zenon DEF OwnEntry, HasOwner, RemovedIsDone, CallbackMade, ListInClose
<1>4. ClosedIsEmpty' /\ ClosedIsOff'
  BY Zenon DEF ClosedIsEmpty, ClosedIsOff
<1>5. FailedIsOff'
  BY Zenon DEF FailedIsOff
<1> QED BY Zenon, <1>1, <1>2, <1>3, <1>4, <1>5

\* The initial state satisfies the inductive invariant.
LEMMA InitInv == Init => IInv
<1> SUFFICES ASSUME Init PROVE IInv
  BY Zenon
<1>1. PeriodicTypeOK /\ CleanShape /\ CloseShape
  BY Zenon DEF Init, PeriodicInit, PeriodicTypeOK, Stages, CleanShape, CloseShape
<1>2. TableShape /\ ConnShape /\ CallbackShape
  BY Zenon, WorkerAssumption DEF Init, TableShape, Table, NoTable, ConnShape, CallbackShape
<1>3. OwnEntry /\ HasOwner /\ RemovedIsDone /\ CallbackMade
  BY Zenon, WorkerAssumption DEF Init, NoTable, OwnEntry, HasOwner, RemovedIsDone, CallbackMade
<1>4. ListInClose /\ ClosedIsEmpty /\ FailedIsOff /\ ClosedIsOff
  BY Zenon, OneChecker DEF Init, PeriodicInit, NoTable, ListInClose, ClosedIsEmpty,
     FailedIsOff, ClosedIsOff
<1> QED BY Zenon, <1>1, <1>2, <1>3, <1>4 DEF IInv, Shape

\* Every step preserves the inductive invariant.
LEMMA InvStep == IInv /\ [Next]_vars => IInv'
<1> SUFFICES ASSUME IInv, [Next]_vars PROVE IInv'
  BY Zenon
<1>1. CASE CallbackStep
  BY Zenon, <1>1, StartCheckerStep, StartedStep, StartFailedStep, RemoveFailedStep
     DEF CallbackStep
<1>2. ASSUME NEW g \in Exec, CheckerStep(g) PROVE IInv'
  BY Zenon, <1>2, CheckerCheckStep, CheckerArmStep, CheckerFailStep, CleanNoneStep,
     CleanIdleStep, CleanCloseStep DEF CheckerStep
<1>3. ASSUME NEW t \in Timers, Tick(t) PROVE IInv'
  BY Zenon, <1>3, FireStep DEF Tick
<1>4. ASSUME NEW k \in CloseCallers, CloseCall(k) \/ CloserStep(k) PROVE IInv'
  BY Zenon, <1>4, CloseCallStep, CloseConnsStep, CloseCheckerStep DEF CloserStep
<1>5. ASSUME NEW c \in Conns, ProcessReturns(c) \/ RemoveConn(c) \/ GoIdle(c) \/ Activity(c)
      PROVE  IInv'
  BY Zenon, <1>5, ProcessReturnsStep, RemoveConnStep, GoIdleStep, ActivityStep
<1>6. CASE UNCHANGED vars
  <2> USE <1>6 DEF vars
  <2>1. Shape'
    BY Zenon DEF IInv, Shape, PeriodicTypeOK, TableShape, ConnShape, CallbackShape, CleanShape,
       CloseShape
  <2>2. OwnEntry' /\ HasOwner' /\ RemovedIsDone' /\ CallbackMade' /\ ListInClose'
    BY Zenon DEF IInv, OwnEntry, HasOwner, RemovedIsDone, CallbackMade, ListInClose
  <2>3. ClosedIsEmpty' /\ FailedIsOff' /\ ClosedIsOff'
    BY Zenon DEF IInv, ClosedIsEmpty, FailedIsOff, ClosedIsOff
  <2> QED BY Zenon, <2>1, <2>2, <2>3 DEF IInv
<1> QED BY Zenon, <1>1, <1>2, <1>3, <1>4, <1>5, <1>6, PacketKnownStep, PacketNewStep DEF Next

\* The inductive invariant holds throughout.
LEMMA AlwaysInv == Spec => []IInv
<1>1. Init => IInv
  BY Zenon, InitInv
<1>2. IInv /\ [Next]_vars => IInv'
  BY Zenon, InvStep
<1> QED BY <1>1, <1>2, PTL DEF Spec

\* No UDP connection is forgotten: one that is made and not done is in the
\* table or held by the clean or the Close that will close it (udpWorker's
\* callback, removeConn, clean and Close).
THEOREM UdpOwned == Spec => []Owned
<1>1. IInv => Owned
  BY Zenon, TypeShape DEF IInv, HasOwner, Owned
<1> QED BY <1>1, AlwaysInv, PTL

\* When Close has returned the worker is gone: no connection is open outside a
\* clean that is closing it, and the checker is off whatever the callback did.
THEOREM UdpCloseIsFinal == Spec => []CloseIsFinal
<1>1. IInv => CloseIsFinal
  <2> SUFFICES ASSUME IInv, closed, \A k \in CloseCallers : kpc[k] \in {"idle", "returned"}
               PROVE  /\ \A c \in Conns : gpc[c] # "free" =>
                             done[c] \/ \E g \in Exec : c \in expired[g]
                      /\ cb = "receive" => ~running[checker]
    BY Zenon DEF CloseIsFinal
  <2>1. \A c \in Conns : activeConn[cid[c]] # c
    BY Zenon, WorkerAssumption DEF IInv, Shape, TableShape, ClosedIsEmpty
  <2>2. \A k \in CloseCallers : list[k] = {}
    BY Zenon DEF IInv, ListInClose
  <2> QED BY Zenon, <2>1, <2>2 DEF IInv, HasOwner, ClosedIsOff
<1> QED BY <1>1, AlwaysInv, PTL
=============================================================================
