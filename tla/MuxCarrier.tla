----------------------------- MODULE MuxCarrier -----------------------------
(***************************************************************************)
(* One Mux.Cool carrier of common/mux: a ClientWorker and a ServerWorker   *)
(* at the ends of a pair of bounded links.  Callers open sessions on the   *)
(* client; each side has, per session, a goroutine that copies the input   *)
(* of the session into frames (fetchInput, handle), one read loop that     *)
(* hands frames to sessions (fetchOutput, run), and a monitor.             *)
(*                                                                         *)
(* Session objects are named by the call that opened them; a frame carries *)
(* the ID the code puts there, and, for the properties only, the object    *)
(* and the number of its chunk.                                            *)
(***************************************************************************)
EXTENDS Integers, Sequences, FiniteSets

CONSTANTS
    Objs,               \* calls of ClientWorker.Dispatch
    MaxConcurrency, MaxConnection,      \* ClientStrategy
    LinkSize,           \* frames a link holds
    MaxUp, MaxDown,     \* chunks a session sends in each direction
    Events,             \* what may happen besides: "output", "tick", "fail", "break"
    NoObj

ASSUME MuxAssumption ==
    /\ IsFiniteSet(Objs) /\ NoObj \notin Objs
    /\ {MaxConcurrency, MaxConnection, LinkSize, MaxUp, MaxDown} \subseteq Nat /\ MaxUp > 0

Sides == {"c", "s"}
Peer(d) == IF d = "c" THEN "s" ELSE "c"
IDs == 1..Cardinality(Objs)
MaxChunks(d) == IF d = "c" THEN MaxUp ELSE MaxDown

VARIABLES
    caller,     \* per object: where its Dispatch call is
    id,         \* per object: the session ID
    sess,       \* per side and object: the state of the session
    sessions,   \* per side: SessionManager.sessions, from IDs to objects
    count, mgrClosed,
    cp,         \* per side and object: the copying goroutine
    sent,       \* per side and object: chunks put into frames
    got,        \* per side and object: chunks written to the session's output
    outDead,    \* per side and object: nobody reads the output any more
    net,        \* per side: the frames on the way from it
    broken,     \* the carrier's links are interrupted
    rl,         \* per side: the read loop; [pc, id]
    done, mon,  \* per side: done.Instance, and the monitor
    chk         \* per side: checkSize and checkCount of the monitor

vars == <<caller, id, sess, sessions, count, mgrClosed, cp, sent, got, outDead, net, broken, rl,
          done, mon, chk>>
mgrVars == <<sess, sessions, count, mgrClosed>>
copyVars == <<cp, sent>>
monVars == <<mon, chk>>

NoSessions == [i \in IDs |-> NoObj]
Live(d) == {i \in IDs : sessions[d][i] # NoObj}
Chunks(o, n) == [k \in 1..n |-> <<o, k>>]
Reading == [pc |-> "read", id |-> 0]

\* A carrier side that has interrupted its links has closed its sessions, and a
\* session in the map is open and there under its ID.
TypeOK ==
    /\ caller \in [Objs -> {"idle", "checked", "ok", "refused"}]
    /\ id \in [Objs -> IDs \cup {0}]
    /\ sess \in [Sides -> [Objs -> {"none", "open", "closed"}]]
    /\ sessions \in [Sides -> [IDs -> Objs \cup {NoObj}]]
    /\ count \in [Sides -> 0..Cardinality(Objs)]
    /\ mgrClosed \in [Sides -> BOOLEAN]
    /\ cp \in [Sides -> [Objs -> {"none", "first", "copy", "close", "over"}]]
    /\ \A d \in Sides : sent[d] \in [Objs -> 0..MaxChunks(d)]
    /\ outDead \in [Sides -> [Objs -> BOOLEAN]]
    /\ \A d \in Sides : Len(net[d]) <= LinkSize
    /\ broken \in BOOLEAN /\ done \in [Sides -> BOOLEAN]
    /\ rl \in [Sides -> [pc : {"read", "reply", "down"}, id : IDs \cup {0}]]
    /\ mon \in [Sides -> {"watch", "gone"}]
    /\ \A d \in Sides : \A o \in Objs :
          mon[d] = "gone" => mgrClosed[d] /\ sess[d][o] # "open"
    /\ \A d \in Sides : \A i \in Live(d) : sess[d][sessions[d][i]] = "open"
    \* However callers interleave between IsFull and Allocate.
    /\ MaxConcurrency > 0 => Cardinality({o \in Objs : sess["c"][o] = "open"}) <= MaxConcurrency
    /\ MaxConnection > 0 => Cardinality({o \in Objs : sess["c"][o] # "none"}) <= MaxConnection

Init ==
    /\ caller = [o \in Objs |-> "idle"]
    /\ id = [o \in Objs |-> 0]
    /\ sess = [d \in Sides |-> [o \in Objs |-> "none"]]
    /\ sessions = [d \in Sides |-> NoSessions]
    /\ count = [d \in Sides |-> 0]
    /\ mgrClosed = [d \in Sides |-> FALSE]
    /\ cp = [d \in Sides |-> [o \in Objs |-> "none"]]
    /\ sent = [d \in Sides |-> [o \in Objs |-> 0]]
    /\ got = [d \in Sides |-> [o \in Objs |-> <<>>]]
    /\ outDead = [d \in Sides |-> [o \in Objs |-> FALSE]]
    /\ net = [d \in Sides |-> <<>>]
    /\ broken = FALSE
    /\ rl = [d \in Sides |-> Reading]
    /\ done = [d \in Sides |-> FALSE]
    /\ mon = [d \in Sides |-> "watch"]
    /\ chk = [d \in Sides |-> <<0, 0>>]

-----------------------------------------------------------------------------
(* The session manager. *)

\* The sessions of side d after a Session.Close of object o.
SessionClose(d, o) ==
    /\ sess' = [sess EXCEPT ![d][o] = "closed"]
    /\ sessions' = IF mgrClosed[d] THEN sessions
                   ELSE [sessions EXCEPT ![d][id[o]] = NoObj]

Frame(t, o, k) == [t |-> t, id |-> id[o], o |-> o, k |-> k]

\* A write of a frame into the link of side d: it waits for room, and fails once
\* the carrier is broken.
Room(d) == ~broken /\ Len(net[d]) < LinkSize
Put(d, f) == net' = [net EXCEPT ![d] = Append(@, f)]

-----------------------------------------------------------------------------
(* ClientWorker.Dispatch. *)

IsFull ==
    \/ MaxConnection > 0 /\ count["c"] >= MaxConnection
    \/ done["c"]
    \/ MaxConcurrency > 0 /\ Cardinality(Live("c")) >= MaxConcurrency

CheckFull(o) ==
    /\ caller[o] = "idle"
    /\ caller' = [caller EXCEPT ![o] = IF IsFull THEN "refused" ELSE "checked"]
    /\ UNCHANGED <<id, mgrVars, copyVars, got, outDead, net, broken, rl, done, monVars>>

mayAllocate ==
    /\ ~mgrClosed["c"]
    /\ MaxConcurrency > 0 => Cardinality(Live("c")) < MaxConcurrency
    /\ MaxConnection > 0 => count["c"] < MaxConnection

\* Mutant: the lowest number of the sessions in use.
nextOfLive == Cardinality(Live("c")) + 1

nextID == count["c"] + 1

\* Allocate under the manager's lock, then go fetchInput.
Allocate(o) ==
    /\ caller[o] = "checked"
    /\ IF mayAllocate
       THEN /\ count' = [count EXCEPT !["c"] = @ + 1]
            /\ id' = [id EXCEPT ![o] = nextID]
            /\ sess' = [sess EXCEPT !["c"][o] = "open"]
            /\ sessions' = [sessions EXCEPT !["c"][nextID] = o]
            /\ cp' = [cp EXCEPT !["c"][o] = "first"]
            /\ caller' = [caller EXCEPT ![o] = "ok"]
       ELSE /\ caller' = [caller EXCEPT ![o] = "refused"]
            /\ UNCHANGED <<id, sess, sessions, count, cp>>
    /\ UNCHANGED <<mgrClosed, sent, got, outDead, net, broken, rl, done, monVars>>

-----------------------------------------------------------------------------
(* fetchInput and handle: from the input of a session into frames. *)

\* writeFirstPayload: the New frame, with a first chunk or, after 100 ms, without.
First(o) ==
    /\ cp["c"][o] = "first" /\ sess["c"][o] = "open"
    /\ Room("c")
    /\ \E k \in 0..1 :
          /\ Put("c", Frame("new", o, k))
          /\ sent' = [sent EXCEPT !["c"][o] = k]
    /\ cp' = [cp EXCEPT !["c"][o] = "copy"]
    /\ UNCHANGED <<caller, id, mgrVars, got, outDead, broken, rl, done, monVars>>

Copy(d, o) ==
    /\ cp[d][o] = "copy" /\ sess[d][o] = "open"
    /\ sent[d][o] < MaxChunks(d)
    /\ Room(d)
    /\ Put(d, Frame("keep", o, sent[d][o] + 1))
    /\ sent' = [sent EXCEPT ![d][o] = @ + 1]
    /\ cp' = cp
    /\ UNCHANGED <<caller, id, mgrVars, got, outDead, broken, rl, done, monVars>>


mustEnd(d, o) == ~broken

\* writer.Close: the End frame, which the carrier takes or refuses.
WriteEnd(d, o) ==
    /\ cp[d][o] \in {"first", "copy"}
    /\ IF mustEnd(d, o) THEN Room(d) /\ Put(d, Frame("end", o, sent[d][o])) ELSE UNCHANGED net
    /\ cp' = [cp EXCEPT ![d][o] = "close"]
    /\ UNCHANGED <<caller, id, mgrVars, sent, got, outDead, broken, rl, done, monVars>>

\* The input ends.
InputEnds(d, o) == sess[d][o] = "open" /\ WriteEnd(d, o)

\* The copy fails: the session is closed and its input interrupted, or the
\* carrier is broken.
CopyFails(d, o) == (sess[d][o] = "closed" \/ broken) /\ WriteEnd(d, o)

\* s.Close(false)
CopyCloses(d, o) ==
    /\ cp[d][o] = "close"
    /\ IF sess[d][o] = "open" THEN SessionClose(d, o) ELSE UNCHANGED <<sess, sessions>>
    /\ cp' = [cp EXCEPT ![d][o] = "over"]
    /\ UNCHANGED <<caller, id, count, mgrClosed, sent, got, outDead, net, broken, rl, done, monVars>>

\* Whoever reads the output of a session goes away.
OutputDies(d, o) ==
    /\ "output" \in Events
    /\ sess[d][o] = "open" /\ ~outDead[d][o]
    /\ outDead' = [outDead EXCEPT ![d][o] = TRUE]
    /\ UNCHANGED <<caller, id, mgrVars, copyVars, got, net, broken, rl, done, monVars>>

-----------------------------------------------------------------------------
(* fetchOutput and run: from frames to the outputs of sessions. *)

Takes(d, t) ==
    /\ rl[d].pc = "read" /\ mon[d] = "watch"
    /\ net[Peer(d)] # <<>> /\ Head(net[Peer(d)]).t = t
    /\ net' = [net EXCEPT ![Peer(d)] = Tail(@)]

\* The data of frame f goes to object o, whose output takes it or fails.
Deliver(d, o, f) ==
    IF outDead[d][o]
    THEN SessionClose(d, o) /\ UNCHANGED got
    ELSE got' = [got EXCEPT ![d][o] = Append(@, <<f.o, f.k>>)] /\ UNCHANGED <<sess, sessions>>

\* Mutant: the data that comes with the New frame is skipped.
firstDataSkipped(f) == <<>>

firstData(f) == IF f.k > 0 THEN <<<<f.o, f.k>>>> ELSE <<>>

\* handleStatusNew on the server: the session is added and handle started.
RecvNew ==
    /\ Takes("s", "new")
    /\ LET f == Head(net["c"]) IN
       IF mgrClosed["s"]
       THEN /\ rl' = [rl EXCEPT !["s"].pc = "down"]
            /\ done' = [done EXCEPT !["s"] = TRUE]
            /\ UNCHANGED <<sess, sessions, count, cp, got>>
       ELSE /\ count' = [count EXCEPT !["s"] = @ + 1]
            /\ sess' = [sess EXCEPT !["s"][f.o] = "open"]
            /\ sessions' = [sessions EXCEPT !["s"][f.id] = f.o]
            /\ cp' = [cp EXCEPT !["s"][f.o] = "copy"]
            /\ got' = [got EXCEPT !["s"][f.o] = firstData(f)]
            /\ UNCHANGED <<rl, done>>
    /\ UNCHANGED <<caller, id, mgrClosed, sent, outDead, broken, monVars>>

\* A dispatch that fails ends the carrier.
RecvNewFails ==
    /\ "fail" \in Events
    /\ Takes("s", "new")
    /\ rl' = [rl EXCEPT !["s"].pc = "down"]
    /\ done' = [done EXCEPT !["s"] = TRUE]
    /\ UNCHANGED <<caller, id, mgrVars, copyVars, got, outDead, broken, monVars>>

RecvKeep(d) ==
    /\ Takes(d, "keep")
    /\ LET f == Head(net[Peer(d)])
           o == sessions[d][f.id] IN
       IF o = NoObj \/ mgrClosed[d]
       THEN /\ rl' = [rl EXCEPT ![d] = [pc |-> "reply", id |-> f.id]]
            /\ UNCHANGED <<sess, sessions, got>>
       ELSE Deliver(d, o, f) /\ UNCHANGED rl
    /\ UNCHANGED <<caller, id, count, mgrClosed, copyVars, outDead, broken, done, monVars>>

\* The End frame for a session this side does not know.
Reply(d) ==
    /\ rl[d].pc = "reply"
    /\ IF broken THEN UNCHANGED net
       ELSE Room(d) /\ Put(d, [t |-> "end", id |-> rl[d].id, o |-> NoObj, k |-> 0])
    /\ rl' = [rl EXCEPT ![d] = Reading]
    /\ UNCHANGED <<caller, id, mgrVars, copyVars, got, outDead, broken, done, monVars>>

RecvEnd(d) ==
    /\ Takes(d, "end")
    /\ LET o == sessions[d][Head(net[Peer(d)]).id] IN
       IF o # NoObj /\ ~mgrClosed[d] THEN SessionClose(d, o) ELSE UNCHANGED <<sess, sessions>>
    /\ UNCHANGED <<caller, id, count, mgrClosed, copyVars, got, outDead, broken, rl, done, monVars>>

\* The link ends or fails: the loop leaves, and its defer closes done.
ReadFails(d) ==
    /\ rl[d].pc = "read" /\ broken
    /\ rl' = [rl EXCEPT ![d].pc = "down"]
    /\ done' = [done EXCEPT ![d] = TRUE]
    /\ UNCHANGED <<caller, id, mgrVars, copyVars, got, outDead, net, broken, monVars>>

-----------------------------------------------------------------------------
(* The monitor. *)

\* Mutant: the sizes read before the tick decide, not those of the moment.
idleThen(d) == chk[d][1] = 0

idle(d) == Live(d) = {} /\ chk[d][1] = 0 /\ chk[d][2] = count[d]

\* The ticker: CloseIfNoSessionAndIdle, then the sizes are read again.
Tick(d) ==
    /\ "tick" \in Events
    /\ mon[d] = "watch" /\ ~done[d]
    /\ LET close == mgrClosed[d] \/ idle(d) IN
       /\ mgrClosed' = [mgrClosed EXCEPT ![d] = close]
       /\ done' = [done EXCEPT ![d] = close]
    /\ chk' = [chk EXCEPT ![d] = <<Cardinality(Live(d)), count[d]>>]
    /\ UNCHANGED <<caller, id, sess, sessions, count, copyVars, got, outDead, net, broken, rl, mon>>

closedBy(d) == {sessions[d][i] : i \in Live(d)}

\* done: sessionManager.Close closes every session, and the links are interrupted.
MonitorEnds(d) ==
    /\ mon[d] = "watch" /\ done[d]
    /\ mon' = [mon EXCEPT ![d] = "gone"]
    /\ mgrClosed' = [mgrClosed EXCEPT ![d] = TRUE]
    /\ sess' = [sess EXCEPT ![d] = [o \in Objs |-> IF o \in closedBy(d) THEN "closed" ELSE @[o]]]
    /\ sessions' = [sessions EXCEPT ![d] = NoSessions]
    /\ broken' = TRUE
    /\ net' = [net EXCEPT ![Peer(d)] = <<>>]
    /\ UNCHANGED <<caller, id, count, copyVars, got, outDead, rl, done, chk>>

\* Nothing moves: both links are full and both loops wait to reply.
Stuck == \A d \in Sides : Len(net[d]) = LinkSize /\ rl[d].pc = "reply"

\* The connection of the carrier breaks, its proxy ends, or the activity timer
\* of the proxy ends a carrier on which nothing moves.
Break ==
    /\ ~broken /\ ("break" \in Events \/ Stuck)
    /\ broken' = TRUE
    /\ UNCHANGED <<caller, id, mgrVars, copyVars, got, outDead, net, rl, done, monVars>>

-----------------------------------------------------------------------------
CopyStep(d, o) == CopyCloses(d, o) \/ CopyFails(d, o)
ReadStep(d) == RecvKeep(d) \/ Reply(d) \/ RecvEnd(d) \/ ReadFails(d)

Next ==
    \/ \E o \in Objs : CheckFull(o) \/ Allocate(o) \/ First(o)
    \/ \E d \in Sides, o \in Objs :
          Copy(d, o) \/ InputEnds(d, o) \/ CopyStep(d, o) \/ OutputDies(d, o)
    \/ RecvNew \/ RecvNewFails
    \/ \E d \in Sides : ReadStep(d) \/ Tick(d) \/ MonitorEnds(d)
    \/ Break

Spec == Init /\ [][Next]_vars

\* Goroutines run, and the proxies at both ends have an activity timer.  An
\* application need not send, end or go away, and no carrier need become idle.
FairSpec ==
    /\ Spec
    /\ \A d \in Sides : /\ \A o \in Objs : WF_vars(CopyStep(d, o))
                        /\ WF_vars(ReadStep(d) \/ (d = "s" /\ (RecvNew \/ RecvNewFails)))
                        /\ WF_vars(MonitorEnds(d))
    /\ WF_vars(Stuck /\ Break)

-----------------------------------------------------------------------------
(* Properties. *)

\* What reaches the output of a session is what the other end of that session
\* sent, in order and without gaps: no frame reaches a session that has only
\* the same ID.  Session IDs are not reused while End replies for old sessions
\* and data of new ones are on the way.  The state is well typed throughout.
StreamPrefix ==
    /\ TypeOK
    /\ \A d \in Sides : \A o \in Objs :
          Len(got[d][o]) <= sent[Peer(d)][o] /\ got[d][o] = Chunks(o, Len(got[d][o]))

\* The End frame of an input that ended finds all its data delivered: ending a
\* session loses nothing that was sent before.
EndAfterData ==
    [][\A d \in Sides : RecvEnd(d) =>
          LET f == Head(net[Peer(d)])
              o == sessions[d][f.id] IN
          f.o # NoObj /\ o = f.o => Len(got[d][o]) = f.k]_vars

\* The idle timer ends no session: a side that closed its manager on a tick had
\* none, and no caller or frame added one since.
IdleCloseSparesSessions ==
    \A d \in Sides : mgrClosed[d] /\ mon[d] = "watch" => \A o \in Objs : sess[d][o] # "open"

=============================================================================
