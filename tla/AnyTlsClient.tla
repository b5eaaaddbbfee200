---------------------------- MODULE AnyTlsClient ----------------------------
(***************************************************************************)
(* proxy/anytls, the outbound: Client (Process, Retire, Close) over the    *)
(* pool of physical sessions of internal/engine (client.go, session.go,    *)
(* stream.go).  A request takes an idle session or dials one, opens its    *)
(* stream, writes under the session's write lock while a watcher waits for *)
(* the stream's cancellation, and ends the stream with a FIN that is       *)
(* written under a "control" reservation; whoever lets go of the session   *)
(* last publishes it in the idle list again.                               *)
(*                                                                         *)
(* The options are those Client passes: CancelableWrites, reuse enabled.   *)
(* Frames carry no data; MaxWrites records are written.                    *)
(***************************************************************************)
EXTENDS Integers, FiniteSets, SequencesExt

CONSTANTS
    Requests,       \* calls of Process, each with one stream
    Sessions,       \* physical sessions that can be dialled
    maxSessions, maxIdleSessions, maxConcurrentDials, minIdleSession,
    MaxWrites,      \* bound: records written after the handshakes
    MaxEvents       \* bound: heartbeats, refusals, failures and timeouts of connections

VARIABLES
    retired, pendingOps, activeOps, finish,  \* Client of proxy/anytls
    closer,                             \* the thread that calls Retire and Close
    pc, ctx, sess, writes,              \* a request: step, context done, its session
    wr,                                 \* its writer inside session.write
    sdone, cancelled,                   \* its stream: done, writeCancel
    ctl, reading,                       \* finishStream and writeFrame, by whom
    closed, idle, sessions, creating, closeIdle, timer,   \* Client of the engine
    state, closing,                     \* session: life, and pending calls of Close
    streams, reserved, controls, lock,  \* session: fields
    reader, events

wrapperVars == <<retired, pendingOps, activeOps, finish, closer>>
requestVars == <<pc, ctx, sess, writes>>
streamVars == <<sdone, cancelled>>
controlVars == <<ctl, reading, events>>
listVars == <<idle, sessions, timer, closing>>
flagVars == <<closed, creating, closeIdle>>
holdVars == <<reserved, controls, lock>>
poolVars == <<wrapperVars, requestVars, wr, streamVars, controlVars, listVars, flagVars, state,
              streams, holdVars, reader>>

NoSession == "no session"
Free == "free"
Jobs == Requests \cup Sessions        \* a FIN of a stream, a heartbeat of a session
sessionOf(j) == IF j \in Requests THEN sess[j] ELSE j
Live(s) == state[s] = "open"
closeCalled(S) == closing \cup {s \in S : Live(s)}      \* closeOnce: later calls do nothing
IsClosed(s) == state[s] \in {"done", "gone"}
hasStreams(s) == streams[s] # {}
listed(s) == \E i \in DOMAIN idle : idle[i] = s
unlist(s) == SelectSeq(idle, LAMBDA t : t # s)
(* A connection that is open may fail on its own. *)
Event == events < MaxEvents /\ events' = events + 1
fails(s) == IF Live(s) THEN Event ELSE UNCHANGED events
Dialling == {r \in Requests : pc[r] \in {"dial", "join"}}

PoolInit ==
    /\ retired = FALSE /\ pendingOps = {} /\ activeOps = {} /\ finish = "no" /\ closer = "off"
    /\ pc = [r \in Requests |-> "new"] /\ ctx = [r \in Requests |-> FALSE]
    /\ sess = [r \in Requests |-> NoSession] /\ writes = 0
    /\ wr = [r \in Requests |-> "off"]
    /\ sdone = [r \in Requests |-> FALSE] /\ cancelled = [r \in Requests |-> FALSE]
    /\ ctl = [j \in Jobs |-> "no"] /\ reading = [r \in Requests |-> FALSE] /\ events = 0
    /\ closed = FALSE /\ idle = <<>> /\ sessions = {} /\ creating = 0 /\ closeIdle = FALSE
    /\ timer = FALSE
    /\ state = [s \in Sessions |-> "none"] /\ closing = {}
    /\ streams = [s \in Sessions |-> {}] /\ reserved = [s \in Sessions |-> FALSE]
    /\ controls = [s \in Sessions |-> 0] /\ lock = [s \in Sessions |-> Free]
    /\ reader = [s \in Sessions |-> "off"]

---------------------------------------------------------------------------
(* engine.Client.releaseSession: drop a closed session, leave a reserved   *)
(* one alone, close one that may not stay, publish one that is free.       *)

\* Mutants: the reservation is not looked at, the control frames are not.
mayPublishReserved(s) == controls[s] = 0 /\ ~hasStreams(s)
mayPublishControlled(s) == ~reserved[s] /\ ~hasStreams(s)

mayPublish(s) == ~reserved[s] /\ controls[s] = 0 /\ ~hasStreams(s)

\* Mutant: a session that finds the idle list full is forgotten before its Close.
evictedAtOnce(s) == sessions \ {s}

evicted(s) == sessions

releaseSession(s) ==
    \/ /\ IsClosed(s) \/ closed
       /\ idle' = unlist(s) /\ sessions' = sessions \ {s} /\ UNCHANGED <<timer, closing>>
    \/ /\ ~IsClosed(s) /\ ~closed /\ mayPublish(s) /\ closeIdle
       /\ idle' = unlist(s) /\ closing' = closeCalled({s}) /\ UNCHANGED <<sessions, timer>>
    \/ /\ ~IsClosed(s) /\ ~closed /\ mayPublish(s) /\ ~closeIdle
       /\ lock[s] = Free /\ ~listed(s)
       /\ IF Len(idle) >= maxIdleSessions
          THEN closing' = closeCalled({s}) /\ sessions' = evicted(s) /\ UNCHANGED <<idle, timer>>
          ELSE idle' = <<s>> \o idle /\ timer' = TRUE /\ UNCHANGED <<closing, sessions>>
    \/ /\ ~IsClosed(s) /\ ~closed
       /\ ~mayPublish(s) \/ (~closeIdle /\ (lock[s] # Free \/ listed(s)))
       /\ UNCHANGED listVars

beginControl(s) ==
    controls' = [controls EXCEPT ![s] = @ + 1] /\ idle' = unlist(s)

---------------------------------------------------------------------------
(* session.Close, one goroutine inside closeOnce: done is closed first,    *)
(* then the connection; the streams that are left end with it and          *)
(* removeSession forgets the session.                                      *)
CloseBegin(s) ==
    /\ s \in closing /\ Live(s)
    /\ state' = [state EXCEPT ![s] = "done"] /\ closing' = closing \ {s}
    /\ UNCHANGED <<wrapperVars, requestVars, wr, streamVars, controlVars, idle, sessions, timer,
                   flagVars, streams, holdVars, reader>>

CloseEnd(s) ==
    /\ state[s] = "done"
    /\ state' = [state EXCEPT ![s] = "gone"]
    /\ cancelled' = [r \in Requests |-> cancelled[r] \/ r \in streams[s]]
    /\ ctl' = [j \in Jobs |-> IF j \in streams[s] /\ ~sdone[j] THEN "over" ELSE ctl[j]]
    /\ sdone' = [r \in Requests |-> sdone[r] \/ r \in streams[s]]
    /\ streams' = [streams EXCEPT ![s] = {}]
    /\ idle' = unlist(s) /\ sessions' = sessions \ {s}
    /\ UNCHANGED <<wrapperVars, requestVars, wr, reading, events, timer, closing,
                   flagVars, holdVars, reader>>

---------------------------------------------------------------------------
(* Process, OpenContext and DialContext *)
Enter(r) ==
    /\ pc[r] = "new"
    /\ IF retired THEN pc' = [pc EXCEPT ![r] = "over"] /\ UNCHANGED pendingOps
       ELSE pc' = [pc EXCEPT ![r] = "take"] /\ pendingOps' = pendingOps \cup {r}
    /\ UNCHANGED <<retired, activeOps, finish, closer, ctx, sess, writes, wr, streamVars,
                   controlVars, listVars, flagVars, state, streams, holdVars, reader>>

takeIdleSession(r) ==
    /\ pc[r] = "take"
    /\ IF closed \/ idle = <<>>
       THEN pc' = [pc EXCEPT ![r] = "admit"] /\ UNCHANGED <<sess, idle, reserved>>
       ELSE /\ pc' = [pc EXCEPT ![r] = "openIdle"] /\ sess' = [sess EXCEPT ![r] = Head(idle)]
            /\ idle' = Tail(idle) /\ reserved' = [reserved EXCEPT ![Head(idle)] = TRUE]
    /\ UNCHANGED <<wrapperVars, ctx, writes, wr, streamVars, controlVars, sessions, timer, closing,
                   flagVars, state, streams, controls, lock, reader>>

(* openStream and finishReservation, and what DialContext does next: an    *)
(* idle session that died meanwhile is replaced by a new one.              *)
openStream(r) ==
    /\ pc[r] \in {"openIdle", "openNew"}
    /\ reserved' = [reserved EXCEPT ![sess[r]] = FALSE]
    /\ IF IsClosed(sess[r])
       THEN /\ pc' = [pc EXCEPT ![r] = IF @ = "openIdle" THEN "admit" ELSE "leave"]
            /\ UNCHANGED streams
       ELSE /\ pc' = [pc EXCEPT ![r] = "shake"]
            /\ streams' = [streams EXCEPT ![sess[r]] = @ \cup {r}]
    /\ UNCHANGED <<wrapperVars, ctx, sess, writes, wr, streamVars, controlVars, listVars, flagVars,
                   state, controls, lock, reader>>

poolLimit == Cardinality(sessions) + creating >= maxSessions \/ creating >= maxConcurrentDials

createSession(r) ==
    /\ pc[r] = "admit"
    /\ IF closed \/ ctx[r] \/ poolLimit
       THEN pc' = [pc EXCEPT ![r] = "leave"] /\ UNCHANGED creating
       ELSE pc' = [pc EXCEPT ![r] = "dial"] /\ creating' = creating + 1
    /\ UNCHANGED <<wrapperVars, ctx, sess, writes, wr, streamVars, controlVars, listVars, closed,
                   closeIdle, state, streams, holdVars, reader>>

(* dialOut and the authentication write fail when the request is cancelled *)
(* and whenever the network does; Sessions bounds the others.              *)
unused == {s \in Sessions : state[s] = "none"}
Dial(r) ==
    /\ pc[r] = "dial"
    /\ \/ /\ ~ctx[r] /\ Cardinality({q \in Requests : pc[q] = "join"}) < Cardinality(unused)
          /\ pc' = [pc EXCEPT ![r] = "join"] /\ UNCHANGED creating
       \/ pc' = [pc EXCEPT ![r] = "leave"] /\ creating' = creating - 1
    /\ UNCHANGED <<wrapperVars, ctx, sess, writes, wr, streamVars, controlVars, listVars, closed,
                   closeIdle, state, streams, holdVars, reader>>

\* Mutant: a session that comes back late joins the closed pool.
mayJoinLate == TRUE

mayJoin == ~closed

Join(r) ==          \* the new session, unless the pool was closed meanwhile
    /\ pc[r] = "join" /\ creating' = creating - 1
    /\ \/ /\ mayJoin
          /\ \E s \in unused :
                 /\ pc' = [pc EXCEPT ![r] = "openNew"] /\ sess' = [sess EXCEPT ![r] = s]
                 /\ state' = [state EXCEPT ![s] = "open"] /\ sessions' = sessions \cup {s}
                 /\ reserved' = [reserved EXCEPT ![s] = TRUE]
                 /\ reader' = [reader EXCEPT ![s] = "loop"]
       \/ /\ ~mayJoin /\ pc' = [pc EXCEPT ![r] = "leave"]
          /\ UNCHANGED <<sess, state, sessions, reserved, reader>>
    /\ UNCHANGED <<wrapperVars, ctx, writes, wr, streamVars, controlVars, idle, timer, closing,
                   closed, closeIdle, streams, controls, lock>>

---------------------------------------------------------------------------
(* session.write and writeRequest: lockWriteUntil looks at the stream, then*)
(* waits for the write lock or for the stream's end, whichever select takes*)
(* when both are there; watchWrite lets the cancellation of the stream     *)
(* close the session unless the writer resolved first, and stop joins it.  *)
WriteStart(r) ==
    /\ pc[r] = "run" /\ wr[r] = "off" /\ ~sdone[r] /\ writes < MaxWrites
    /\ writes' = writes + 1 /\ wr' = [wr EXCEPT ![r] = "pass"]
    /\ UNCHANGED <<wrapperVars, pc, ctx, sess, streamVars, controlVars, listVars, flagVars, state,
                   streams, holdVars, reader>>

WriteLock(r) ==
    /\ wr[r] = "pass" /\ lock[sess[r]] = Free
    /\ lock' = [lock EXCEPT ![sess[r]] = r] /\ wr' = [wr EXCEPT ![r] = "write"]
    /\ UNCHANGED <<wrapperVars, requestVars, streamVars, controlVars, listVars, flagVars, state,
                   streams, reserved, controls, reader>>

WriteGiveUp(r) ==
    /\ wr[r] = "pass" /\ sdone[r] /\ wr' = [wr EXCEPT ![r] = "failed"]
    /\ UNCHANGED <<wrapperVars, requestVars, streamVars, controlVars, listVars, flagVars, state,
                   streams, holdVars, reader>>

\* Mutant: unlockWrite does not release the session.
unlockReleasesNot(s) == FALSE

unlockReleases(s) == ~hasStreams(s)

(* stop, Close after an error, unlockWrite *)
unlockWrite(r, ok) ==
    /\ lock' = [lock EXCEPT ![sess[r]] = Free]
    /\ wr' = [wr EXCEPT ![r] = IF unlockReleases(sess[r])
                               THEN IF ok THEN "release" ELSE "releaseFailed"
                               ELSE IF ok THEN "off" ELSE "failed"]

WriteEnd(r) ==
    /\ wr[r] = "write"
    /\ \/ state[sess[r]] # "gone" /\ unlockWrite(r, TRUE) /\ UNCHANGED <<closing, events>>
       \/ unlockWrite(r, FALSE) /\ closing' = closeCalled({sess[r]}) /\ fails(sess[r])
    /\ UNCHANGED <<wrapperVars, requestVars, streamVars, ctl, reading, idle, sessions,
                   timer, flagVars, state, streams, reserved, controls, reader>>

WatchCut(r) ==
    /\ wr[r] = "write" /\ cancelled[r] /\ ~IsClosed(sess[r])
    /\ wr' = [wr EXCEPT ![r] = "cut"] /\ closing' = closeCalled({sess[r]})
    /\ UNCHANGED <<wrapperVars, requestVars, streamVars, controlVars, idle, sessions, timer,
                   flagVars, state, streams, holdVars, reader>>

CutJoined(r) ==
    /\ wr[r] = "cut" /\ state[sess[r]] = "gone"
    /\ \E ok \in BOOLEAN : unlockWrite(r, ok)
    /\ UNCHANGED <<wrapperVars, requestVars, streamVars, controlVars, listVars, flagVars, state,
                   streams, reserved, controls, reader>>

WriteRelease(r) ==
    /\ wr[r] \in {"release", "releaseFailed"}
    /\ releaseSession(sess[r])
    /\ wr' = [wr EXCEPT ![r] = IF @ = "release" THEN "off" ELSE "failed"]
    /\ UNCHANGED <<wrapperVars, requestVars, streamVars, controlVars, flagVars, state, streams,
                   holdVars, reader>>

---------------------------------------------------------------------------
(* OpenContext's end and the rest of Process *)
(* The handshake, which takes the write lock and lets go of it; when it    *)
(* fails or the context is done, the session is closed with it.            *)
handshake(r) ==
    /\ pc[r] = "shake"
    /\ \/ /\ ~sdone[r] /\ ~ctx[r] /\ lock[sess[r]] = Free /\ state[sess[r]] # "gone"
          /\ pc' = [pc EXCEPT ![r] = "enter"] /\ UNCHANGED <<closing, events>>
       \/ /\ pc' = [pc EXCEPT ![r] = "abort"] /\ closing' = closeCalled({sess[r]})
          /\ IF ctx[r] THEN UNCHANGED events ELSE fails(sess[r])
    /\ UNCHANGED <<wrapperVars, ctx, sess, writes, wr, streamVars, ctl, reading, idle,
                   sessions, timer, flagVars, state, streams, holdVars, reader>>

(* stream.Close: the first to close the stream finishes it *)
streamClose(r) ==
    /\ cancelled' = [cancelled EXCEPT ![r] = TRUE] /\ sdone' = [sdone EXCEPT ![r] = TRUE]
    /\ ctl' = [ctl EXCEPT ![r] = IF sdone[r] THEN @ ELSE "start"]

Cleanup(r) ==       \* the context is done (caller, inactivity), or a copy failed
    /\ pc[r] = "run" /\ ~cancelled[r] /\ streamClose(r)
    /\ UNCHANGED <<wrapperVars, requestVars, wr, reading, events, listVars, flagVars, state,
                   streams, holdVars, reader>>

Activate(r) ==
    /\ pc[r] = "enter" /\ ~retired /\ ~ctx[r]
    /\ pc' = [pc EXCEPT ![r] = "run"]
    /\ pendingOps' = pendingOps \ {r} /\ activeOps' = activeOps \cup {r}
    /\ UNCHANGED <<retired, finish, closer, ctx, sess, writes, wr, streamVars, controlVars, listVars,
                   flagVars, state, streams, holdVars, reader>>

ConnClose(r) ==     \* deferred: not admitted after all, or both copies are over
    /\ \/ pc[r] = "enter" /\ (retired \/ ctx[r])
       \/ pc[r] = "run" /\ sdone[r] /\ wr[r] \in {"off", "failed"}
    /\ streamClose(r)
    /\ pc' = [pc EXCEPT ![r] = IF sdone[r] THEN "leave" ELSE "finish"]
    /\ UNCHANGED <<wrapperVars, ctx, sess, writes, wr, reading, events, listVars,
                   flagVars, state, streams, holdVars, reader>>

complete(ops) ==
    /\ pendingOps' = pendingOps \ ops /\ activeOps' = activeOps \ ops
    /\ finish' = IF retired /\ pendingOps' = {} /\ activeOps' = {} /\ finish = "no"
                 THEN "pool" ELSE finish

(* A request that returned and whose stream is finished leaves no trace.   *)
forget(r, over) ==
    /\ sess' = IF over THEN [sess EXCEPT ![r] = NoSession] ELSE sess
    /\ reading' = IF over THEN [reading EXCEPT ![r] = FALSE] ELSE reading

Leave(r) ==
    /\ \/ pc[r] = "leave" \/ (pc[r] = "finish" /\ ctl[r] = "over")
       \/ pc[r] = "abort" /\ state[sess[r]] = "gone"
    /\ complete({r}) /\ ctx' = [ctx EXCEPT ![r] = TRUE]
    /\ pc' = [pc EXCEPT ![r] = "over"]
    /\ wr' = [wr EXCEPT ![r] = "off"] /\ sdone' = [sdone EXCEPT ![r] = TRUE]
    /\ cancelled' = [cancelled EXCEPT ![r] = TRUE]
    /\ ctl' = [ctl EXCEPT ![r] = IF @ = "no" THEN "over" ELSE @] /\ forget(r, ctl'[r] = "over")
    /\ UNCHANGED <<retired, closer, writes, events, listVars, flagVars, state, streams, holdVars,
                   reader>>

---------------------------------------------------------------------------
(* finishStream and writeFrame, for the FIN of a stream and for the answer *)
(* to a heartbeat.  The reservation writeFrame nests in finishStream's is  *)
(* never the last one and is left out.                                     *)
FinishStart(r) ==
    /\ ctl[r] \in {"start", "startQuiet"} /\ beginControl(sess[r])
    /\ streams' = [streams EXCEPT ![sess[r]] = @ \ {r}]
    /\ ctl' = [ctl EXCEPT ![r] = IF @ = "start" /\ ~IsClosed(sess[r]) THEN "frame" ELSE "end"]
    /\ UNCHANGED <<wrapperVars, requestVars, wr, streamVars, reading, events, sessions, timer,
                   closing, flagVars, state, reserved, lock, reader>>

writeFrame(j) ==    \* lockWrite, the write, unlockWrite: the reservation hides the lock
    /\ ctl[j] = "frame" /\ ctl' = [ctl EXCEPT ![j] = "end"]
    /\ \/ lock[sessionOf(j)] = Free /\ state[sessionOf(j)] # "gone" /\ UNCHANGED <<closing, events>>
       \/ IsClosed(sessionOf(j)) /\ UNCHANGED <<closing, events>>
       \/ Live(sessionOf(j)) /\ closing' = closeCalled({sessionOf(j)}) /\ fails(sessionOf(j))
    /\ UNCHANGED <<wrapperVars, requestVars, wr, streamVars, reading, idle, sessions, timer,
                   flagVars, state, streams, holdVars, reader>>

FrameTimeout(j) ==  \* controlFrameWriteTimeout, for the lock or the write
    /\ ctl[j] = "frame" /\ Live(sessionOf(j)) /\ sessionOf(j) \notin closing
    /\ closing' = closeCalled({sessionOf(j)}) /\ fails(sessionOf(j))
    /\ UNCHANGED <<wrapperVars, requestVars, wr, streamVars, ctl, reading, idle, sessions,
                   timer, flagVars, state, streams, holdVars, reader>>

endControl(j) ==
    /\ ctl[j] = "end" /\ controls' = [controls EXCEPT ![sessionOf(j)] = @ - 1]
    /\ ctl' = [ctl EXCEPT ![j] = "release"]
    /\ UNCHANGED <<wrapperVars, requestVars, wr, streamVars, reading, events, listVars,
                   flagVars, state, streams, reserved, lock, reader>>

ControlRelease(j) ==
    /\ ctl[j] = "release" /\ releaseSession(sessionOf(j))
    /\ ctl' = [ctl EXCEPT ![j] = IF j \in Requests THEN "over" ELSE "no"]
    /\ forget(j, j \in Requests /\ pc[j] = "over")
    /\ UNCHANGED <<wrapperVars, pc, ctx, writes, wr, streamVars, events, flagVars, state,
                   streams, holdVars, reader>>

---------------------------------------------------------------------------
(* readLoop: one frame of the peer at a time *)
readsNext(s) ==
    /\ reader[s] = "loop" /\ ctl[s] = "no"
    /\ \A r \in Requests : reading[r] /\ sess[r] = s => ctl[r] = "over"

synSent(r) == pc[r] \in {"enter", "run"}     \* the peer has the request's SYN

handleHeartRequest(s) ==
    /\ readsNext(s) /\ Live(s) /\ Event
    /\ beginControl(s) /\ ctl' = [ctl EXCEPT ![s] = "frame"]
    /\ UNCHANGED <<wrapperVars, requestVars, wr, streamVars, reading, sessions, timer,
                   closing, flagVars, state, streams, reserved, lock, reader>>

handleFIN(r) ==         \* closeByPeer: the writes of the stream go on
    /\ sess[r] \in Sessions /\ readsNext(sess[r]) /\ Live(sess[r])
    /\ r \in streams[sess[r]] /\ synSent(r) /\ ~sdone[r]
    /\ sdone' = [sdone EXCEPT ![r] = TRUE] /\ ctl' = [ctl EXCEPT ![r] = "startQuiet"]
    /\ reading' = [reading EXCEPT ![r] = TRUE]
    /\ UNCHANGED <<wrapperVars, requestVars, wr, cancelled, events, listVars, flagVars,
                   state, streams, holdVars, reader>>

handleSYNACK(r) ==      \* a refusal: closeWithError
    /\ sess[r] \in Sessions /\ readsNext(sess[r]) /\ Live(sess[r])
    /\ r \in streams[sess[r]] /\ synSent(r) /\ ~sdone[r] /\ streamClose(r) /\ Event
    /\ reading' = [reading EXCEPT ![r] = TRUE]
    /\ UNCHANGED <<wrapperVars, requestVars, wr, listVars, flagVars, state, streams,
                   holdVars, reader>>

ConnFails(s) ==         \* the peer, an alert or the watchdog of openTimeout ends the session
    /\ readsNext(s) /\ Live(s) /\ s \notin closing
    /\ closing' = closeCalled({s}) /\ fails(s)
    /\ UNCHANGED <<wrapperVars, requestVars, wr, streamVars, ctl, reading, idle, sessions,
                   timer, flagVars, state, streams, holdVars, reader>>

ReaderDone(s) ==
    /\ readsNext(s) /\ state[s] = "gone" /\ reader' = [reader EXCEPT ![s] = "over"]
    /\ UNCHANGED <<wrapperVars, requestVars, wr, streamVars, controlVars, listVars, flagVars, state,
                   streams, holdVars>>

---------------------------------------------------------------------------
(* cleanupIdleSessions: from the back, those idle too long *)
cleanupIdleSessions ==
    /\ timer
    /\ \E k \in 0 .. Len(idle) :
          /\ Len(idle) - k >= minIdleSession \/ k = 0
          /\ idle' = SubSeq(idle, 1, Len(idle) - k)
          /\ closing' = closeCalled({idle[i] : i \in Len(idle) - k + 1 .. Len(idle)})
          /\ timer' = (idle' # <<>>)
    /\ UNCHANGED <<wrapperVars, requestVars, wr, streamVars, controlVars, sessions, flagVars, state,
                   streams, holdVars, reader>>

(* engine.Client.Close: everything is closed, then dials and readers joined *)
poolClose ==
    /\ closed' = TRUE /\ timer' = FALSE
    /\ closing' = closeCalled(sessions) /\ sessions' = {} /\ idle' = <<>>

joined ==
    /\ Dialling = {} /\ closing = {}
    /\ \A s \in Sessions : reader[s] \in {"off", "over"} /\ state[s] \in {"none", "gone"}

Finish ==       \* finish.Do in complete
    \/ /\ finish = "pool" /\ ~closed /\ poolClose
       /\ UNCHANGED <<wrapperVars, requestVars, wr, streamVars, controlVars, creating, closeIdle,
                      state, streams, holdVars, reader>>
    \/ /\ finish = "pool" /\ closed /\ joined /\ finish' = "over"
       /\ UNCHANGED <<retired, pendingOps, activeOps, closer, requestVars, wr, streamVars, controlVars,
                      listVars, flagVars, state, streams, holdVars, reader>>

(* Retire: pending requests are cancelled, SetKeepIdleConnections(false)   *)
(* closes the idle sessions.  Close repeats it without effect and goes on. *)
Retire ==
    /\ closer = "off" /\ closer' = "retired" /\ retired' = TRUE
    /\ ctx' = [r \in Requests |-> ctx[r] \/ r \in pendingOps]
    /\ closeIdle' = TRUE /\ idle' = <<>>
    /\ closing' = closeCalled({idle[i] : i \in DOMAIN idle})
    /\ UNCHANGED <<pendingOps, activeOps, pc, sess, writes, wr, streamVars, controlVars, sessions,
                   timer, closed, creating, state, streams, holdVars, reader>>
    /\ finish' = IF pendingOps = {} /\ activeOps = {} THEN "pool" ELSE finish

ClientClose ==
    \/ /\ closer = "retired" /\ closer' = "pool" /\ poolClose
       /\ UNCHANGED <<retired, pendingOps, activeOps, finish, requestVars, wr, streamVars, controlVars,
                      creating, closeIdle, state, streams, holdVars, reader>>
    \/ /\ closer = "pool" /\ joined /\ closer' = "join"
       /\ ctx' = [r \in Requests |-> ctx[r] \/ r \in activeOps]
       /\ UNCHANGED <<retired, pendingOps, activeOps, finish, pc, sess, writes, wr, streamVars,
                      controlVars, listVars, flagVars, state, streams, holdVars, reader>>
    \/ /\ closer = "join" /\ finish = "over" /\ closer' = "over"
       /\ UNCHANGED <<retired, pendingOps, activeOps, finish, requestVars, wr, streamVars, controlVars,
                      listVars, flagVars, state, streams, holdVars, reader>>

---------------------------------------------------------------------------
RequestStep(r) ==
    \/ takeIdleSession(r) \/ openStream(r) \/ createSession(r) \/ Dial(r) \/ Join(r)
    \/ handshake(r) \/ Activate(r) \/ ConnClose(r) \/ Leave(r)
WriterStep(r) ==
    \/ WriteLock(r) \/ WriteGiveUp(r) \/ WatchCut(r) \/ CutJoined(r) \/ WriteRelease(r)
ControlStep(j) ==
    \/ j \in Requests /\ FinishStart(j)
    \/ writeFrame(j) \/ FrameTimeout(j) \/ endControl(j) \/ ControlRelease(j)
SessionStep(s) == CloseBegin(s) \/ CloseEnd(s) \/ ReaderDone(s)

(* Anything else that stands still is a deadlock. *)
AllOver ==
    /\ closer = "over" /\ \A r \in Requests : pc[r] = "over" /\ ctl[r] \in {"no", "over"}
    /\ UNCHANGED poolVars

PoolNext ==
    \/ \E r \in Requests : \/ Enter(r) \/ RequestStep(r) \/ WriterStep(r)
                            \/ WriteStart(r) \/ WriteEnd(r) \/ Cleanup(r)
                            \/ handleFIN(r) \/ handleSYNACK(r)
    \/ \E j \in Jobs : ControlStep(j)
    \/ \E s \in Sessions : SessionStep(s) \/ ConnFails(s) \/ handleHeartRequest(s)
    \/ cleanupIdleSessions \/ Finish \/ Retire \/ ClientClose \/ AllOver

PoolSpec == PoolInit /\ [][PoolNext]_poolVars

---------------------------------------------------------------------------
PoolTypeOK ==
    /\ retired \in BOOLEAN /\ closed \in BOOLEAN /\ closeIdle \in BOOLEAN /\ timer \in BOOLEAN
    /\ pendingOps \subseteq Requests /\ activeOps \subseteq Requests \ pendingOps
    /\ finish \in {"no", "pool", "over"}
    /\ sess \in [Requests -> Sessions \cup {NoSession}] /\ writes \in 0 .. MaxWrites
    /\ idle \in Seq(Sessions) /\ sessions \subseteq Sessions /\ closing \subseteq Sessions
    /\ creating = Cardinality(Dialling)
    /\ state \in [Sessions -> {"none", "open", "done", "gone"}]
    /\ streams \in [Sessions -> SUBSET Requests] /\ reserved \in [Sessions -> BOOLEAN]
    /\ controls \in [Sessions -> 0 .. 3] /\ lock \in [Sessions -> Jobs \cup {Free}]

(* The idle list only offers sessions that are really free: each once, in  *)
(* the pool, without a stream, a reservation or a control frame under way; *)
(* it keeps to its limit.                                                  *)
IdleIsFree ==
    /\ PoolTypeOK
    /\ Len(idle) <= maxIdleSessions
    /\ \A i \in DOMAIN idle :
          /\ \A k \in DOMAIN idle : idle[k] = idle[i] => k = i
          /\ idle[i] \in sessions /\ ~hasStreams(idle[i])
          /\ ~reserved[idle[i]] /\ controls[idle[i]] = 0

(* Two requests never share a physical session: a session has one stream,  *)
(* and none while it is reserved for another request.                      *)
ExclusiveUse ==
    \A s \in Sessions :
        Cardinality(streams[s] \cup {r \in Requests : /\ sess[r] = s
            /\ pc[r] \in {"openIdle", "openNew"}}) <= 1

(* While the pool is in use it counts every open session, an evicted one   *)
(* too until its Close runs, so that its limit bounds the connections.     *)
CountedUntilClosed ==
    /\ ~closed => {s \in Sessions : Live(s)} \subseteq sessions
    /\ Cardinality(sessions) + creating <= maxSessions

(* No session is lost to the pool: one that is open, unused and in nobody's*)
(* hands is in the idle list, and a list that is not empty has its timer.  *)
inHand(s) ==
    \/ reserved[s] \/ s \in closing \/ hasStreams(s)
    \/ \E j \in Jobs : sessionOf(j) = s /\ ctl[j] \notin {"no", "over"}
    \/ \E r \in Requests : sess[r] = s /\ wr[r] \notin {"off", "pass", "failed"}
NoneStranded ==
    /\ \A s \in Sessions : Live(s) /\ ~inHand(s) => listed(s)
    /\ idle # <<>> => timer

(* Closing the pool is final: from then on every session still open is     *)
(* being closed, also one whose dial comes back late, the pool is empty    *)
(* and its timer stopped; and when Close has returned there is no dial, no *)
(* reader and no open session left.                                        *)
ClosedIsFinal ==
    /\ closed => /\ \A s \in Sessions : Live(s) => s \in closing
                 /\ sessions = {} /\ idle = <<>> /\ ~timer
    /\ closer \in {"join", "over"} =>
          /\ Dialling = {}
          /\ \A s \in Sessions : state[s] \in {"none", "gone"} /\ reader[s] # "loop"

(* The comment of watchWrite: a late cancellation must not close a session *)
(* that has already been returned to the idle pool.                        *)
LateCancelSparesIdle ==
    \A r \in Requests : sess[r] \in Sessions /\ listed(sess[r]) =>
                           ~(wr[r] = "write" /\ cancelled[r])
=============================================================================
