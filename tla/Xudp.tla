-------------------------------- MODULE Xudp --------------------------------
(***************************************************************************)
(* XUDP in common/mux: a UDP flow, named by its GlobalID, outlives the mux *)
(* carrier it came over.  XUDPManager keeps the flow's link; a New frame   *)
(* with the same GlobalID on another carrier detaches it from the session  *)
(* of the old one and goes on with it; an entry nobody claims within a     *)
(* minute is interrupted and deleted.                                      *)
(*                                                                         *)
(* One GlobalID.  Each carrier handles one New frame: its number names the *)
(* session and the handle goroutine that it makes.  Session.Close holds    *)
(* the manager's lock of its carrier over several steps: the error it puts *)
(* into the pipe's errChan, the yield, and taking it back.                 *)
(***************************************************************************)
EXTENDS Integers, FiniteSets

CONSTANTS
    Carriers,
    Breakable,    \* the carriers that may break, and whose links may end
    NoX, NoMux, NoLink, NoLock

VARIABLES
    entry,          \* XUDPManager.Map[id]: the carrier that created it, or NoX
    status, mux,    \* per entry: Status, and the session Mux
    made,           \* sessions that exist; one is named by its carrier
    ofX, linkOf,    \* per session: XUDP, and the link input and output belong to
    shut,         \* sessions that are closed
    link,           \* per link (by the carrier that dispatched it): its state
    errChan,        \* links whose errChan holds an error
    managed,        \* per carrier: the session manager's map
    managerClosed, workerDone,
    mgrLock,           \* per carrier: the Close that holds the manager's lock
    run, x,          \* per carrier: its run loop, and the entry it works on
    overtaken,      \* history: a claim hit an entry whose last claim had not returned
    hpc, hs         \* per carrier: the handle goroutine it started, and its session

xudpVars == <<entry, status, mux, made, ofX, linkOf, shut, link, errChan, managed, managerClosed,
          workerDone, mgrLock, run, x, overtaken, hpc, hs>>
xVars == <<entry, status, mux>>
sessVars == <<made, ofX, linkOf>>
closeVars == <<shut, errChan, managed, mgrLock>>
workerVars == <<managerClosed, workerDone, overtaken>>
handleVars == <<hpc, hs>>

MuxSessions == Carriers
Links == Carriers

XudpTypeOK ==
    /\ entry \in Carriers \cup {NoX}
    /\ status \in [Carriers -> {"Initializing", "Active", "Expiring"}]
    /\ mux \in [Carriers -> MuxSessions \cup {NoMux}]
    /\ shut \subseteq made /\ made \subseteq MuxSessions
    /\ ofX \in [MuxSessions -> Carriers \cup {NoX}]
    /\ linkOf \in [MuxSessions -> Links \cup {NoLink}]
    /\ link \in [Links -> {"none", "open", "gone"}]
    /\ errChan \subseteq {l \in Links : \E c \in Carriers : mgrLock[c] # NoLock /\ mgrLock[c].step = "recover"
                                              /\ linkOf[mgrLock[c].s] = l}
    /\ managed \in [Carriers -> SUBSET MuxSessions]
    /\ managerClosed \subseteq workerDone /\ workerDone \subseteq Carriers
    /\ \A c \in Carriers : mgrLock[c] # NoLock => mgrLock[c].s \in made \cup {NoMux}
    /\ run \in [Carriers -> {"idle", "detach", "write", "dispatch", "make", "activate", "add",
                            "undo", "handle", "returned", "broken"}]
    /\ x \in [Carriers -> Carriers \cup {NoX}]
    /\ hpc \in [Carriers -> {"none", "poll", "wait", "write", "close", "over"}]
    /\ hs \in [Carriers -> MuxSessions \cup {NoMux}]

XudpInit ==
    /\ entry = NoX
    /\ status = [c \in Carriers |-> "Initializing"]
    /\ mux = [c \in Carriers |-> NoMux]
    /\ made = {} /\ shut = {}
    /\ ofX = [c \in Carriers |-> NoX]
    /\ linkOf = [c \in Carriers |-> NoLink]
    /\ link = [c \in Carriers |-> "none"]
    /\ errChan = {}
    /\ managed = [c \in Carriers |-> {}]
    /\ managerClosed = {} /\ workerDone = {}
    /\ mgrLock = [c \in Carriers |-> NoLock]
    /\ run = [c \in Carriers |-> "idle"]
    /\ x = [c \in Carriers |-> NoX]
    /\ hpc = [c \in Carriers |-> "none"]
    /\ hs = [c \in Carriers |-> NoMux]
    /\ overtaken = FALSE

Goto(c, l) == run' = [run EXCEPT ![c] = l]

-----------------------------------------------------------------------------
(* Session.Close.  The parent of session s is the manager of carrier s. *)

\* Under the lock of manager c: closed is set and io.EOF put into errChan,
\* which takes one error.
CloseUnder(c, s) ==
    /\ s \notin shut
    /\ linkOf[s] \notin errChan
    /\ shut' = shut \cup {s}
    /\ errChan' = errChan \cup {linkOf[s]}
    /\ mgrLock' = [mgrLock EXCEPT ![c] = [s |-> s, step |-> "recover"]]
    /\ UNCHANGED managed

SessionCloses(s) == mgrLock[s] = NoLock /\ CloseUnder(s, s)

recovered(l) == errChan \ {l}

\* After runtime.Gosched: the error is taken back if it is still there.
CloseRecover(c) ==
    /\ mgrLock[c] # NoLock /\ mgrLock[c].step = "recover"
    /\ errChan' = recovered(linkOf[mgrLock[c].s])
    /\ mgrLock' = [mgrLock EXCEPT ![c].step = "expire"]
    /\ UNCHANGED <<xVars, sessVars, shut, link, managed, workerVars, run, x, handleVars>>

\* Mutant: the entry is put whatever it is doing.
mayExpireAlways(e) == TRUE

mayExpire(e) == status[e] = "Active"

\* manager.Close keeps the lock until its map is gone.
inMgrClose(c) == c \in managerClosed /\ managed[c] # {}

\* Under XUDPManager's lock, then Remove and the unlock.
SessionClosed(c) ==
    /\ mgrLock[c] # NoLock /\ mgrLock[c].step = "expire"
    /\ LET s == mgrLock[c].s IN
       /\ status' = IF mayExpire(ofX[s]) THEN [status EXCEPT ![ofX[s]] = "Expiring"] ELSE status
       /\ managed' = IF s \in managerClosed THEN managed ELSE [managed EXCEPT ![s] = @ \ {s}]
    /\ mgrLock' = [mgrLock EXCEPT ![c] = IF inMgrClose(c) THEN [@ EXCEPT !.step = "next"] ELSE NoLock]
    /\ UNCHANGED <<entry, mux, sessVars, shut, link, errChan, workerVars, run, x, handleVars>>

\* A caller's Close is over when the session is closed and the lock is free.
Closed(s) == s \in shut /\ mgrLock[s] = NoLock

-----------------------------------------------------------------------------
(* handleStatusNew, with a GlobalID. *)

\* Under XUDPManager's lock: a new entry, a conflict, or a hit.
New(c) ==
    /\ run[c] = "idle" /\ c \notin workerDone
    /\ \/ /\ entry = NoX
          /\ entry' = c /\ x' = [x EXCEPT ![c] = c]
          /\ Goto(c, "dispatch")
          /\ UNCHANGED <<status, overtaken>>
       \/ /\ entry # NoX /\ status[entry] = "Initializing"
          /\ Goto(c, "returned")
          /\ UNCHANGED <<entry, status, x, overtaken>>
       \/ /\ entry # NoX /\ status[entry] # "Initializing"
          /\ status' = [status EXCEPT ![entry] = "Initializing"]
          /\ x' = [x EXCEPT ![c] = entry]
          /\ overtaken' = (overtaken \/ \E d \in Carriers : x[d] = entry)
          /\ Goto(c, "detach")
          /\ UNCHANGED entry
    /\ UNCHANGED <<mux, sessVars, closeVars, link, managerClosed, workerDone, handleVars>>

\* x.Mux.Close(false): detach from the previous Mux.
DetachBegin(c) ==
    /\ run[c] = "detach"
    /\ SessionCloses(mux[x[c]])
    /\ UNCHANGED <<xVars, sessVars, link, workerVars, run, x, handleVars>>

Detached(c) ==
    /\ run[c] = "detach"
    /\ Closed(mux[x[c]])
    /\ Goto(c, "write")
    /\ UNCHANGED <<xVars, sessVars, closeVars, link, workerVars, x, handleVars>>

\* The packet goes into the old link, or the link is interrupted and left.
WriteOld(c) ==
    /\ run[c] = "write"
    /\ Goto(c, IF link[linkOf[mux[x[c]]]] = "open" THEN "make" ELSE "dispatch")
    /\ UNCHANGED <<xVars, sessVars, closeVars, link, workerVars, x, handleVars>>

Dispatch(c) ==
    /\ run[c] = "dispatch"
    /\ link' = [link EXCEPT ![c] = "open"]
    /\ Goto(c, "make")
    /\ UNCHANGED <<xVars, sessVars, closeVars, workerVars, x, handleVars>>

\* A dispatch that fails breaks the whole carrier.
DispatchFails(c) ==
    /\ run[c] = "dispatch" /\ c \in Breakable
    /\ entry' = NoX
    /\ Goto(c, "broken") /\ x' = [x EXCEPT ![c] = NoX]
    /\ UNCHANGED <<status, mux, sessVars, closeVars, link, workerVars, handleVars>>

\* x.Mux becomes the session of this carrier.
Make(c) ==
    /\ run[c] = "make"
    /\ made' = made \cup {c}
    /\ ofX' = [ofX EXCEPT ![c] = x[c]]
    /\ linkOf' = [linkOf EXCEPT ![c] = IF link[c] # "none" THEN c ELSE linkOf[mux[x[c]]]]
    /\ mux' = [mux EXCEPT ![x[c]] = c]
    /\ Goto(c, "activate")
    /\ UNCHANGED <<entry, status, closeVars, link, workerVars, x, handleVars>>

SetActive(c) ==
    /\ run[c] = "activate"
    /\ status' = [status EXCEPT ![x[c]] = "Active"]
    /\ Goto(c, "add")
    /\ UNCHANGED <<entry, mux, sessVars, closeVars, link, workerVars, x, handleVars>>

\* Add reads x.Mux again.
Add(c) ==
    /\ run[c] = "add"
    /\ mgrLock[c] = NoLock
    /\ IF c \in managerClosed
       THEN Goto(c, "undo") /\ UNCHANGED managed
       ELSE managed' = [managed EXCEPT ![c] = @ \cup {mux[x[c]]}] /\ Goto(c, "handle")
    /\ UNCHANGED <<xVars, sessVars, shut, errChan, mgrLock, link, workerVars, x, handleVars>>

UndoBegin(c) ==
    /\ run[c] = "undo"
    /\ SessionCloses(mux[x[c]])
    /\ UNCHANGED <<xVars, sessVars, link, workerVars, run, x, handleVars>>

UndoEnd(c) ==
    /\ run[c] = "undo"
    /\ Closed(mux[x[c]])
    /\ Goto(c, "broken") /\ x' = [x EXCEPT ![c] = NoX]
    /\ UNCHANGED <<xVars, sessVars, closeVars, link, workerVars, handleVars>>

\* go handle(ctx, x.Mux, w.link.Writer)
Handle(c) ==
    /\ run[c] = "handle"
    /\ hs' = [hs EXCEPT ![c] = mux[x[c]]]
    /\ hpc' = [hpc EXCEPT ![c] = "poll"]
    /\ Goto(c, "returned") /\ x' = [x EXCEPT ![c] = NoX]
    /\ UNCHANGED <<xVars, sessVars, closeVars, link, workerVars>>

\* An End frame for this carrier's session.
EndFrame(c) ==
    /\ run[c] = "returned"
    /\ \E s \in managed[c] : SessionCloses(s)
    /\ UNCHANGED <<xVars, sessVars, link, workerVars, run, x, handleVars>>

-----------------------------------------------------------------------------
(* handle: copy from the link to the carrier. *)

\* A read that finds data takes it; one that finds none waits.
Poll(c) ==
    /\ hpc[c] = "poll"
    /\ \E l \in IF link[linkOf[hs[c]]] = "open" THEN {"write", "wait"} ELSE {"close"} :
          hpc' = [hpc EXCEPT ![c] = l]
    /\ UNCHANGED <<xVars, sessVars, closeVars, link, workerVars, run, x, hs>>

\* In the select: the error of ReturnAnError, or a signal or the pipe's end.
WaitError(c) ==
    /\ hpc[c] = "wait"
    /\ linkOf[hs[c]] \in errChan
    /\ errChan' = errChan \ {linkOf[hs[c]]}
    /\ hpc' = [hpc EXCEPT ![c] = "close"]
    /\ UNCHANGED <<xVars, sessVars, shut, managed, mgrLock, link, workerVars, run, x, hs>>

WaitOver(c) ==
    /\ hpc[c] = "wait"
    /\ hpc' = [hpc EXCEPT ![c] = "poll"]
    /\ UNCHANGED <<xVars, sessVars, closeVars, link, workerVars, run, x, hs>>

\* The write to the carrier ends, in an error once the carrier is gone.
Written(c) ==
    /\ hpc[c] = "write"
    /\ hpc' = [hpc EXCEPT ![c] = IF c \in workerDone THEN "close" ELSE "poll"]
    /\ UNCHANGED <<xVars, sessVars, closeVars, link, workerVars, run, x, hs>>

HandleCloses(c) ==
    /\ hpc[c] = "close"
    /\ SessionCloses(hs[c])
    /\ UNCHANGED <<xVars, sessVars, link, workerVars, run, x, handleVars>>

HandleOver(c) ==
    /\ hpc[c] = "close"
    /\ Closed(hs[c])
    /\ hpc' = [hpc EXCEPT ![c] = "over"] /\ hs' = [hs EXCEPT ![c] = NoMux]
    /\ UNCHANGED <<xVars, sessVars, closeVars, link, workerVars, run, x>>

-----------------------------------------------------------------------------
(* The end of a carrier, of a link, and of an entry. *)

\* The run loop breaks, or the carrier's connection does.
Done(c) ==
    /\ c \in Breakable \ workerDone
    /\ workerDone' = workerDone \cup {c}
    /\ UNCHANGED <<xVars, sessVars, closeVars, link, managerClosed, overtaken, run, x, handleVars>>

\* The monitor: sessionManager.Close closes one session after the other.  The
\* first step takes the lock and sets closed.
MgrClose(c) ==
    /\ c \in workerDone /\ c \notin managerClosed
    /\ mgrLock[c] = NoLock
    /\ managerClosed' = managerClosed \cup {c}
    /\ mgrLock' = [mgrLock EXCEPT ![c] = [s |-> NoMux, step |-> "next"]]
    /\ UNCHANGED <<xVars, sessVars, shut, errChan, managed, link, workerDone, overtaken, run, x, handleVars>>

left(c) == managed[c] \ shut

MgrCloseNext(c) ==
    /\ mgrLock[c] # NoLock /\ mgrLock[c].step = "next"
    /\ \E s \in left(c) : CloseUnder(c, s)
    /\ UNCHANGED <<xVars, sessVars, link, workerVars, run, x, handleVars>>

MgrCloseEnd(c) ==
    /\ mgrLock[c] # NoLock /\ mgrLock[c].step = "next"
    /\ left(c) = {}
    /\ managed' = [managed EXCEPT ![c] = {}]
    /\ mgrLock' = [mgrLock EXCEPT ![c] = NoLock]
    /\ UNCHANGED <<xVars, sessVars, shut, errChan, link, workerVars, run, x, handleVars>>

\* The outbound that serves the link ends (timeout only) or fails.
LinkEnds(l) ==
    /\ l \in Breakable /\ link[l] = "open"
    /\ link' = [link EXCEPT ![l] = "gone"]
    /\ UNCHANGED <<xVars, sessVars, closeVars, workerVars, run, x, handleVars>>

\* Mutant: the entry is deleted and its link left alone.
notInterrupted(l) == link

interrupted(l) == [link EXCEPT ![l] = "gone"]

\* The minute is over.
Expire ==
    /\ entry # NoX /\ status[entry] = "Expiring"
    /\ link' = interrupted(linkOf[mux[entry]])
    /\ entry' = NoX
    /\ UNCHANGED <<status, mux, sessVars, closeVars, workerVars, run, x, handleVars>>

-----------------------------------------------------------------------------
RunStep(c) ==
    \/ DetachBegin(c) \/ Detached(c) \/ WriteOld(c) \/ Dispatch(c) \/ DispatchFails(c)
    \/ Make(c) \/ SetActive(c) \/ Add(c) \/ UndoBegin(c) \/ UndoEnd(c) \/ Handle(c)
HandleStep(c) == Poll(c) \/ WaitError(c) \/ WaitOver(c) \/ Written(c) \/ HandleCloses(c) \/ HandleOver(c)
CloseStep(c) == CloseRecover(c) \/ SessionClosed(c)

XudpNext ==
    \/ \E c \in Carriers :
          \/ New(c) \/ RunStep(c) \/ EndFrame(c)
          \/ HandleStep(c) \/ CloseStep(c)
          \/ Done(c) \/ MgrClose(c) \/ MgrCloseNext(c) \/ MgrCloseEnd(c)
          \/ LinkEnds(c)
    \/ Expire

XudpSpec == XudpInit /\ [][XudpNext]_xudpVars

-----------------------------------------------------------------------------
(* Properties. *)

\* A link that is open can be found: it is the link of the session in the map,
\* or a New frame is being handled that will put it there.  A flow that is
\* dropped is interrupted, also when several carriers claim it at once.
\* The state is well typed throughout.
NoLinkLeaks ==
    /\ XudpTypeOK
    /\ \A l \in Links : link[l] = "open" =>
          \/ entry # NoX /\ mux[entry] # NoMux /\ linkOf[mux[entry]] = l
          \/ run[l] = "make"

\* An entry that waits to expire belongs to a session that is closed: the
\* reaper never interrupts the flow of a session in use.  This needs that no
\* claim hits the entry in the window that another one has between Status =
\* Active and its return, where it reads x.Mux again.
ExpiringIsClosed ==
    ~overtaken /\ entry # NoX /\ status[entry] = "Expiring" => mux[entry] \in shut
=============================================================================
