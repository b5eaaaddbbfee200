------------------------------ MODULE KcpStream -----------------------------
(***************************************************************************)
(* The data path of mKCP (transport/internet/kcp): the SendingWorker of    *)
(* one peer and the ReceivingWorker of the other, over a network that      *)
(* loses, duplicates and reorders.  One direction; the other is the same.  *)
(*                                                                         *)
(* Segment numbers are uint32 in the code.  The model numbers N segments,  *)
(* far from the wrap, but keeps the subtractions modulo Mod where the code *)
(* relies on them.  Timeouts pass at any moment: HandleFastAck, the round  *)
(* trip time and OnPacketLoss only decide when.  Both ends are Active.     *)
(***************************************************************************)
EXTENDS Integers, FiniteSets, FiniteSetsExt

CONSTANTS
    N,              \* segments the application writes
    SendBuffer,     \* SendingWorker.windowSize
    InFlight,       \* GetSendingInFlightSize, or controlWindow if that is less
    CwndMultiplier, \* the configured multiplier of the congestion window
    RecvWindow,     \* ReceivingWorker.windowSize
    FirstRemote,    \* the initial remoteNextNumber, 32 in the code
    Mod,            \* stands for 2^32
    ToRecvCap,      \* packets on the way to the receiver
    ToSendCap,      \* packets on the way to the sender
    Duplicates      \* whether the network delivers a packet more than once

\* A connection ends long before its numbers reach the width of a uint32.
ASSUME KcpAssumption ==
    /\ N \in Nat /\ Mod \in Nat
    /\ RecvWindow \in Nat \ {0} /\ FirstRemote \in Nat
    /\ N + RecvWindow < Mod

VARIABLES
    next, window,           \* SendingWorker: nextNumber, and the numbers in the window
    sentOnce,               \* those transmitted before
    una,                    \* firstUnacknowledged
    remoteNext,             \* remoteNextNumber
    rnext, cache,           \* ReceivingWorker: nextNumber, and the window's numbers
    acks, dirty,            \* AckList: numbers, dirty
    toRecv, toSend          \* the network

vars == <<next, window, sentOnce, una, remoteNext, rnext, cache, acks, dirty, toRecv, toSend>>
sendVars == <<next, window, sentOnce, una, remoteNext>>
recvVars == <<rnext, cache, acks, dirty>>

Numbers == 0..(N - 1)

\* The uint32 difference.
Sub(a, b) == IF a >= b THEN a - b ELSE a - b + Mod

Half == Mod \div 2 - 1

DataSegments == [t : {"data"}, n : Numbers, una : 0..N]
AckSegments == [t : {"ack"}, next : 0..N, list : SUBSET Numbers]
Pings == [t : {"ping"}, next : 0..N]

\* FindFirstUnacknowledged
First(S, next_) == IF S = {} THEN next_ ELSE Min(S)

TypeOK ==
    /\ next \in 0..N /\ window \subseteq 0..(next - 1) /\ sentOnce \subseteq window
    /\ una = First(window, next)
    /\ remoteNext \in Nat
    /\ rnext \in 0..N
    /\ cache \subseteq Numbers \cap (rnext..(rnext + RecvWindow - 1))
    /\ acks \subseteq Numbers /\ dirty \in BOOLEAN
    /\ toRecv \subseteq DataSegments \cup Pings
    /\ toSend \subseteq AckSegments \cup Pings

Init ==
    /\ next = 0 /\ window = {} /\ sentOnce = {} /\ una = 0
    /\ remoteNext = FirstRemote
    /\ rnext = 0 /\ cache = {} /\ acks = {} /\ dirty = FALSE
    /\ toRecv = {} /\ toSend = {}

\* The network after the packets ms went into it: any of them may be lost.
Carried(net, ms, cap) == {net \cup k : k \in {k \in SUBSET ms : Cardinality(net \cup k) <= cap}}

\* The network after packet m was delivered.
Taken(net, m) == {net \ {m}} \cup IF Duplicates THEN {net} ELSE {}

-----------------------------------------------------------------------------
(* SendingWorker *)

\* Push, when Connection.Write has a buffer for it.
Push ==
    /\ next < N
    /\ Cardinality(window) <= SendBuffer
    /\ window' = window \cup {next}
    /\ next' = next + 1
    /\ UNCHANGED <<sentOnce, una, remoteNext, recvVars, toRecv, toSend>>

\* Mutant: nothing is sent into a closed window.
atLeastNone(cwnd) == cwnd

\* SendingWindow.Flush looks at the limit after it has sent a segment.
atLeast(cwnd) == IF cwnd = 0 THEN 1 ELSE cwnd

\* The first k numbers of a set.
FirstOf(k, S) == {n \in S : Cardinality({m \in S : m < n}) < k}

\* Flush: the segments never sent and those whose timeout has passed, up to the
\* window that the peer announced.
Flush ==
    /\ window # {}
    /\ \E late \in SUBSET sentOnce :
          LET avail == Sub(remoteNext, una)
              cwnd == IF InFlight > avail THEN avail ELSE InFlight
              out == FirstOf(atLeast(cwnd * CwndMultiplier), (window \ sentOnce) \cup late)
          IN  /\ sentOnce' = sentOnce \cup out
              /\ toRecv' \in Carried(toRecv, {[t |-> "data", n |-> n, una |-> una] : n \in out}, ToRecvCap)
    /\ UNCHANGED <<next, window, una, remoteNext, recvVars, toSend>>

\* The ping of every three seconds, which a flush with nothing to send hastens
\* when una has moved.
SenderPing ==
    /\ toRecv' \in Carried(toRecv, {[t |-> "ping", next |-> una]}, ToRecvCap)
    /\ UNCHANGED <<next, window, sentOnce, una, remoteNext, recvVars, toSend>>

\* window.Clear and Remove, then FindFirstUnacknowledged.
Forget(gone) ==
    /\ window' = window \ gone
    /\ sentOnce' = sentOnce \ gone
    /\ una' = First(window', next)

Below(k) == {n \in window : n < k}

\* processAck: the numbers of the list that can be acknowledged.
Acknowledged(list) ==
    {n \in list \cap window : Sub(n, una) <= Half /\ Sub(n, next) >= Half}

\* ProcessSegment of an AckSegment
RecvAck(m) ==
    /\ m \in toSend /\ m.t = "ack"
    /\ LET wnd == m.next + RecvWindow IN remoteNext' = IF remoteNext < wnd THEN wnd ELSE remoteNext
    /\ Forget(Below(m.next) \cup Acknowledged(m.list))
    /\ toSend' \in Taken(toSend, m)
    /\ UNCHANGED <<next, recvVars, toRecv>>

\* ProcessReceivingNext, from a ping
RecvSenderPing(m) ==
    /\ m \in toSend /\ m.t = "ping"
    /\ Forget(Below(m.next))
    /\ toSend' \in Taken(toSend, m)
    /\ UNCHANGED <<next, remoteNext, recvVars, toRecv>>

-----------------------------------------------------------------------------
(* ReceivingWorker *)

\* Mutant: a segment beyond the window is acknowledged and not kept.
ackedAnyway(n) == {n}

acked(n) == IF Sub(n, rnext) >= RecvWindow THEN {} ELSE {n}

kept(n) == IF Sub(n, rnext) >= RecvWindow THEN {} ELSE {n}

\* Mutant: the list is cleared up to what the receiver has delivered.
unackedRead(k) == {n \in acks : n >= k /\ n >= rnext}

\* AckList.Clear
unacked(k) == {n \in acks : n >= k}

\* ProcessSegment of a DataSegment
RecvData(m) ==
    /\ m \in toRecv /\ m.t = "data"
    /\ cache' = cache \cup kept(m.n)
    /\ acks' = IF acked(m.n) = {} THEN acks ELSE unacked(m.una) \cup acked(m.n)
    /\ dirty' = (dirty \/ acked(m.n) # {})
    /\ toRecv' \in Taken(toRecv, m)
    /\ UNCHANGED <<sendVars, rnext, toSend>>

\* ProcessSendingNext, from a ping
RecvReceiverPing(m) ==
    /\ m \in toRecv /\ m.t = "ping"
    /\ acks' = unacked(m.next)
    /\ dirty' = (dirty \/ acks' # acks)
    /\ toRecv' \in Taken(toRecv, m)
    /\ UNCHANGED <<sendVars, rnext, cache, toSend>>

\* readMultiBufferLocked takes what is in order.
Read ==
    /\ rnext \in cache
    /\ \E k \in (rnext + 1)..N :
          /\ rnext..(k - 1) \subseteq cache /\ k \notin cache
          /\ rnext' = k
          /\ cache' = cache \ (rnext..(k - 1))
    /\ UNCHANGED <<sendVars, acks, dirty, toRecv, toSend>>

\* AckList.Flush: when one number is due, or the list has changed, all go.
AckFlush ==
    /\ acks # {} \/ dirty
    /\ dirty' = FALSE
    /\ toSend' \in Carried(toSend, {[t |-> "ack", next |-> rnext, list |-> acks]}, ToSendCap)
    /\ UNCHANGED <<sendVars, rnext, cache, acks, toRecv>>

ReceiverPing ==
    /\ toSend' \in Carried(toSend, {[t |-> "ping", next |-> rnext]}, ToSendCap)
    /\ UNCHANGED <<sendVars, recvVars, toRecv>>

LoseToRecv == \E m \in toRecv : toRecv' = toRecv \ {m} /\ UNCHANGED <<sendVars, recvVars, toSend>>
LoseToSend == \E m \in toSend : toSend' = toSend \ {m} /\ UNCHANGED <<sendVars, recvVars, toRecv>>

-----------------------------------------------------------------------------
Next ==
    \/ Push \/ Flush \/ SenderPing
    \/ \E m \in toSend : RecvAck(m) \/ RecvSenderPing(m)
    \/ \E m \in toRecv : RecvData(m) \/ RecvReceiverPing(m)
    \/ Read \/ AckFlush \/ ReceiverPing
    \/ LoseToRecv \/ LoseToSend

Spec == Init /\ [][Next]_vars

\* The network is lossy but not dead: a segment or a packet of a kind that is
\* sent again and again gets through again and again.
Carries(n) == \E m \in toRecv' \ toRecv : m.t = "data" /\ m.n = n
Arrives(n) == \E m \in toRecv : m.t = "data" /\ m.n = n /\ RecvData(m)
Answers == \E m \in toSend' \ toSend : m.t = "ack"

\* The updaters run, the timeout of every segment passes and the application
\* reads.
FairSpec ==
    /\ Spec
    /\ WF_vars(Push) /\ WF_vars(Read) /\ WF_vars(LoseToRecv) /\ WF_vars(LoseToSend)
    /\ \A n \in Numbers : SF_vars(Flush /\ Carries(n)) /\ SF_vars(Arrives(n))
    /\ SF_vars(AckFlush /\ Answers) /\ SF_vars(\E m \in toSend : RecvAck(m))

-----------------------------------------------------------------------------
(* Properties. *)

Received == 0..(rnext - 1) \cup cache

\* Every segment that was written is still in the sender's window or has reached
\* the receiver: no acknowledgement, by number or by ReceivingNext, late,
\* repeated or out of order, lets the sender forget a segment that is not there.
NothingForgotten == 0..(next - 1) \subseteq window \cup Received

\* A segment that was received and that the sender still keeps will be
\* acknowledged again, whichever acknowledgements were lost: it stays in the ack
\* list until the sender says it knows, and no old SendingNext takes it out.
AckRemembered == Received \cap window \subseteq acks

\* Packets on the way speak of the past: no number in them is ahead of the end
\* that sent it.
PacketsAreOld ==
    /\ \A m \in toRecv : IF m.t = "data" THEN m.una <= una ELSE m.next <= una
    /\ \A m \in toSend : m.next <= rnext /\ (m.t = "ack" => m.list \subseteq Received)

\* Only what was pushed is on the way or received, and only what was received is
\* acknowledged.
Causal ==
    /\ Received \subseteq 0..(next - 1) /\ acks \subseteq Received
    /\ \A m \in toRecv : m.t = "data" => m.n < next

\* What is written is received and acknowledged in full, although the window the
\* peer announced may be closed when the packet that opens it is lost.
AllDelivered == <>(rnext = N /\ next = N /\ window = {})
=============================================================================
