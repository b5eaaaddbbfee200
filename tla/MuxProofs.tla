----------------------------- MODULE MuxProofs -----------------------------
(***************************************************************************)
(* Proofs about MuxCarrier, for any number of calls, any limits of the     *)
(* strategy, any length of the links and any amount of data.               *)
(*                                                                         *)
(* What the proofs need beyond the properties is where the frames are.     *)
(* Those of one session stand in the link as they were written: the New    *)
(* frame first, then chunk by chunk from the first one that has not        *)
(* arrived up to the last that was sent, then the End frame.  They carry   *)
(* an ID that no other session has had, and so go to that session or to    *)
(* none.  This holds while the reading side goes on: a read loop that      *)
(* ended, or a session that is closed, may leave gaps behind.              *)
(***************************************************************************)
EXTENDS MuxCarrier, TLAPS

\* TypeOK in the groups of variables that the steps change, with the frames.
Frames == [t : {"new", "keep", "end"}, id : IDs, o : Objs \cup {NoObj}, k : Nat]
CallShape == caller \in [Objs -> {"idle", "checked", "ok", "refused"}] /\ id \in [Objs -> IDs \cup {0}]
SessShape ==
    /\ sess \in [Sides -> [Objs -> {"none", "open", "closed"}]]
    /\ sessions \in [Sides -> [IDs -> Objs \cup {NoObj}]]
    /\ mgrClosed \in [Sides -> BOOLEAN]
CopyShape ==
    /\ cp \in [Sides -> [Objs -> {"none", "first", "copy", "close", "over"}]]
    /\ sent \in [Sides -> [Objs -> Nat]]
    /\ \A d \in Sides, o \in Objs : sent[d][o] <= MaxChunks(d)
GotShape == got \in [Sides -> [Objs -> Seq(Objs \X Nat)]]
LinkShape ==
    /\ net \in [Sides -> Seq(Frames)] /\ broken \in BOOLEAN
    /\ \A d \in Sides : Len(net[d]) <= LinkSize
LoopShape ==
    /\ rl \in [Sides -> [pc : {"read", "reply", "down"}, id : IDs \cup {0}]]
    /\ \A d \in Sides : rl[d].pc = "reply" => rl[d].id \in IDs
    /\ done \in [Sides -> BOOLEAN] /\ mon \in [Sides -> {"watch", "gone"}]
    /\ outDead \in [Sides -> [Objs -> BOOLEAN]]

\* The calls that Dispatch has given a session, and what else tells them.
opened(d) == {o \in Objs : sess[d][o] # "none"}
Opening ==
    /\ \A o \in Objs : /\ (caller[o] = "ok") = (sess["c"][o] # "none")
                       /\ (id[o] # 0) = (sess["c"][o] # "none")
    /\ \A d \in Sides, o \in Objs : (cp[d][o] = "none") = (sess[d][o] = "none")

\* Sessions are counted, and IDs count up.
Counting ==
    /\ count \in [Sides -> Nat] /\ \A d \in Sides : count[d] = Cardinality(opened(d))
    /\ \A o \in Objs : id[o] <= count["c"]
    /\ \A o, p \in Objs : id[o] = id[p] /\ id[o] # 0 => o = p
    /\ MaxConcurrency > 0 => Cardinality({o \in Objs : sess["c"][o] = "open"}) <= MaxConcurrency
    /\ MaxConnection > 0 => count["c"] <= MaxConnection

\* The open sessions of a side are those in its map, each under its ID; a closed
\* manager has none.
Listed ==
    /\ \A d \in Sides, o \in Objs : sess[d][o] = "open" => id[o] # 0 /\ sessions[d][id[o]] = o
    /\ \A d \in Sides, i \in IDs : sessions[d][i] # NoObj =>
          id[sessions[d][i]] = i /\ sess[d][sessions[d][i]] = "open"
    /\ \A d \in Sides : mgrClosed[d] => \A o \in Objs : sess[d][o] # "open"
    /\ \A d \in Sides : mon[d] = "gone" => mgrClosed[d]

\* Frames carry the ID of their session; data is of a session.
Named ==
    \A d \in Sides : \A i \in DOMAIN net[d] :
        /\ net[d][i].t # "end" => net[d][i].o \in Objs
        /\ net[d][i].o \in Objs => net[d][i].id = id[net[d][i].o]

\* Frames on the way from side d with the session o.
none(q, o) == \A i \in DOMAIN q : q[i].o # o
hasNew(q, o) == \E i \in DOMAIN q : q[i].t = "new" /\ q[i].o = o

\* What the copying goroutine has not begun to send has not arrived.
Unsent ==
    /\ \A o \in Objs : cp["c"][o] \in {"none", "first"} =>
          none(net["c"], o) /\ sent["c"][o] = 0 /\ sess["s"][o] = "none"
    /\ \A o \in Objs : cp["s"][o] = "none" => none(net["s"], o) /\ sent["s"][o] = 0
    /\ \A d \in Sides, o \in Objs : sess[d][o] = "none" => got[d][o] = <<>>

\* The New frame of a session is on the way before the server has the session.
News ==
    /\ \A i \in DOMAIN net["s"] : net["s"][i].t # "new"
    /\ \A o \in Objs : hasNew(net["c"], o) => sess["s"][o] = "none"
    /\ \A i \in DOMAIN net["c"] : net["c"][i].t = "new" => net["c"][i].k <= 1

\* The frames of session o in q, of which m chunks have been sent: the End frame
\* is the last, says m and is written when the copy is over.
Line(q, o, m, c) ==
    /\ \A i \in DOMAIN q : q[i].o = o =>
          q[i].k <= m /\ (q[i].t = "end" => q[i].k = m /\ c \in {"close", "over"})
    /\ \A i, j \in DOMAIN q : i < j /\ q[i].o = o /\ q[j].o = o =>
          q[i].t # "end" /\ q[j].t # "new"
Lines == \A d \in Sides, o \in Objs : Line(net[d], o, sent[d][o], cp[d][o])

\* The data of session o in q goes on from the n chunks that have arrived and up
\* to the m that were sent, one by one.
base(st, n) == IF st = "none" THEN -1 ELSE n
data(q, i, o) == q[i].o = o /\ q[i].t # "end"
Flow(q, o, st, n, m) ==
    /\ \A i, j \in DOMAIN q : i < j /\ data(q, i, o) /\ data(q, j, o) => q[i].k < q[j].k
    /\ \A j \in DOMAIN q : data(q, j, o) /\ q[j].t = "keep" =>
          /\ q[j].k > base(st, n) /\ q[j].k > 0
          /\ q[j].k > base(st, n) + 1 => \E i \in DOMAIN q : i < j /\ data(q, i, o) /\ q[i].k = q[j].k - 1
    /\ (st = "open" \/ hasNew(q, o)) /\ m > base(st, n) => \E i \in DOMAIN q : data(q, i, o) /\ q[i].k = m

\* The read loop of side d goes on.
reads(d) == rl[d].pc # "down" /\ mon[d] = "watch"
Flows ==
    \A d \in Sides, o \in Objs : reads(d) /\ sess[d][o] # "closed" =>
        Flow(net[Peer(d)], o, sess[d][o], Len(got[d][o]), sent[Peer(d)][o])
NewOnWay ==
    \A o \in Objs : reads("s") /\ cp["c"][o] = "copy" /\ sess["s"][o] = "none" => hasNew(net["c"], o)

\* What has arrived is the first of what was sent.
Arrived ==
    \A d \in Sides, o \in Objs :
        \E n \in 0 .. sent[Peer(d)][o] : got[d][o] = Chunks(o, n)

RInv ==
    /\ CallShape /\ SessShape /\ CopyShape /\ GotShape /\ LinkShape /\ LoopShape
    /\ Opening /\ Listed /\ Named /\ Unsent /\ News /\ Lines /\ Flows /\ NewOnWay /\ Arrived
IInv == RInv /\ Counting

\* What a step does to the numbers of sessions: it adds none and may close some, or
\* adds one.
Fewer ==
    /\ count' = count /\ id' = id
    /\ \A d \in Sides, o \in Objs :
          sess'[d][o] = sess[d][o] \/ (sess[d][o] = "open" /\ sess'[d][o] = "closed")
Adds(d, o) ==
    /\ sess[d][o] = "none" /\ sess'[d][o] = "open" /\ count' = [count EXCEPT ![d] = @ + 1]
    /\ \A e \in Sides, p \in Objs : sess'[e][p] = sess[e][p] \/ (e = d /\ p = o)

\* IDs are numbers from one.
LEMMA IDsCount == \A i \in IDs : i \in Nat /\ i # 0
BY SMT DEF IDs

-----------------------------------------------------------------------------
(* Frames on a link. *)

\* A frame is written at the end of the link ...
LEMMA Appended ==
    ASSUME NEW q \in Seq(Frames), NEW f \in Frames, NEW r, r = Append(q, f)
    PROVE  /\ r \in Seq(Frames) /\ Len(q) \in Nat /\ Len(r) = Len(q) + 1
           /\ DOMAIN q = 1 .. Len(q) /\ DOMAIN r = 1 .. Len(q) + 1
           /\ \A i \in DOMAIN q : i \in DOMAIN r /\ r[i] = q[i] /\ i < Len(q) + 1
           /\ \A i \in DOMAIN r : i \in DOMAIN q \/ i = Len(q) + 1
           /\ Len(q) + 1 \in DOMAIN r /\ r[Len(q) + 1] = f
<1>1. /\ r \in Seq(Frames) /\ Len(r) = Len(q) + 1 /\ r[Len(q) + 1] = f
      /\ \A i \in 1 .. Len(q) : r[i] = q[i]
  OBVIOUS
<1>2. /\ Len(q) \in Nat /\ DOMAIN q = 1 .. Len(q) /\ DOMAIN r = 1 .. Len(q) + 1
  BY <1>1
<1> QED BY <1>1, <1>2

\* ... and taken from its front.
LEMMA Taken ==
    ASSUME NEW q \in Seq(Frames), q # <<>>, NEW r, r = Tail(q)
    PROVE  /\ r \in Seq(Frames) /\ Len(r) <= Len(q) /\ Len(r) \in Nat /\ Len(q) \in Nat
           /\ 1 \in DOMAIN q /\ Head(q) = q[1] /\ q[1] \in Frames
           /\ \A i \in DOMAIN q : q[i] \in Frames /\ q[i].k \in Nat
           /\ \A i \in DOMAIN r : i \in Nat /\ i + 1 \in DOMAIN q /\ r[i] = q[i + 1] /\ 1 < i + 1
           /\ \A i \in DOMAIN q : i \in Nat /\ ~(i < 1) /\ (i # 1 => i - 1 \in DOMAIN r /\ r[i - 1] = q[i])
<1>1. /\ r \in Seq(Frames) /\ Len(r) = Len(q) - 1
      /\ \A i \in 1 .. Len(r) : r[i] = q[i + 1]
  OBVIOUS
<1>2. /\ Len(q) \in Nat /\ Len(q) # 0 /\ DOMAIN q = 1 .. Len(q) /\ DOMAIN r = 1 .. Len(q) - 1
  BY <1>1
<1>3. Head(q) = q[1] /\ 1 \in DOMAIN q /\ q[1] \in Frames
  BY <1>2
<1>4. ASSUME NEW i \in DOMAIN q, i # 1 PROVE i \in Nat /\ i - 1 \in DOMAIN r /\ r[i - 1] = q[i]
  <2>1. i \in Nat /\ i - 1 \in 1 .. Len(r) /\ (i - 1) + 1 = i
    BY <1>1, <1>2, <1>4
  <2> QED BY Zenon, <2>1, <1>1, <1>2
<1>5. \A i \in DOMAIN q : q[i] \in Frames
  OBVIOUS
<1>6. \A i \in DOMAIN q : q[i].k \in Nat
  BY Zenon, <1>5 DEF Frames
<1> QED BY <1>1, <1>2, <1>3, <1>4, <1>5, <1>6

\* Only the frames with data of session o matter to its flow.
LEMMA FlowSame ==
    ASSUME NEW q \in Seq(Frames), NEW r \in Seq(Frames), NEW o,
           \A i \in DOMAIN q : data(q, i, o) => i \in DOMAIN r /\ r[i] = q[i],
           \A i \in DOMAIN r : data(r, i, o) => i \in DOMAIN q /\ r[i] = q[i],
           NEW st, NEW n, NEW m, Flow(q, o, st, n, m)
    PROVE  Flow(r, o, st, n, m)
<1>1. /\ \A i \in DOMAIN q : data(q, i, o) => i \in DOMAIN r /\ r[i] = q[i] /\ data(r, i, o)
      /\ \A i \in DOMAIN r : data(r, i, o) => i \in DOMAIN q /\ r[i] = q[i] /\ data(q, i, o)
  BY Zenon DEF data
<1>2. hasNew(r, o) => hasNew(q, o)
  <2>1. ASSUME NEW i \in DOMAIN r, r[i].t = "new", r[i].o = o PROVE hasNew(q, o)
    <3>1. data(r, i, o)
      BY Zenon, <2>1 DEF data
    <3> QED BY Zenon, <1>1, <2>1, <3>1 DEF hasNew
  <2> QED BY Zenon, <2>1 DEF hasNew
<1>3. ASSUME NEW i \in DOMAIN r, NEW j \in DOMAIN r, i < j, data(r, i, o), data(r, j, o)
      PROVE  r[i].k < r[j].k
  BY Zenon, <1>1, <1>3 DEF Flow
<1>4. ASSUME NEW j \in DOMAIN r, data(r, j, o) /\ r[j].t = "keep"
      PROVE  /\ r[j].k > base(st, n) /\ r[j].k > 0
             /\ r[j].k > base(st, n) + 1 =>
                   \E i \in DOMAIN r : i < j /\ data(r, i, o) /\ r[i].k = r[j].k - 1
  <2>1. j \in DOMAIN q /\ q[j] = r[j] /\ data(q, j, o) /\ q[j].t = "keep"
    BY Zenon, <1>1, <1>4
  <2>2. /\ r[j].k > base(st, n) /\ r[j].k > 0
        /\ r[j].k > base(st, n) + 1 =>
              \E i \in DOMAIN q : i < j /\ data(q, i, o) /\ q[i].k = r[j].k - 1
    BY Zenon, <2>1 DEF Flow
  <2> QED BY Zenon, <2>2, <1>1
<1>5. (st = "open" \/ hasNew(r, o)) /\ m > base(st, n) =>
         \E i \in DOMAIN r : data(r, i, o) /\ r[i].k = m
  BY Zenon, <1>1, <1>2 DEF Flow
<1> QED BY Zenon, <1>3, <1>4, <1>5 DEF Flow

\* A frame of another session does not matter to session o.
LEMMA PutOther ==
    ASSUME NEW q \in Seq(Frames), NEW f \in Frames, NEW r, r = Append(q, f), NEW o, f.o # o
    PROVE  /\ none(q, o) => none(r, o)
           /\ hasNew(q, o) <=> hasNew(r, o)
           /\ \A m, c : Line(q, o, m, c) => Line(r, o, m, c)
           /\ \A st, n, m : Flow(q, o, st, n, m) => Flow(r, o, st, n, m)
<1> DEFINE z == Len(q) + 1
<1>1. /\ \A i \in DOMAIN q : i \in DOMAIN r /\ r[i] = q[i]
      /\ \A i \in DOMAIN r : i \in DOMAIN q \/ i = z
      /\ z \in DOMAIN r /\ r[z] = f
  BY Appended
<1> HIDE DEF z
<1>2. none(q, o) => none(r, o)
  BY Zenon, <1>1 DEF none
<1>3. hasNew(q, o) <=> hasNew(r, o)
  BY Zenon, <1>1 DEF hasNew
<1>4. /\ \A i \in DOMAIN r : r[i].o = o => i \in DOMAIN q /\ r[i] = q[i]
      /\ \A i \in DOMAIN r : data(r, i, o) => i \in DOMAIN q /\ r[i] = q[i]
      /\ r \in Seq(Frames)
  BY Zenon, <1>1, Appended DEF data
<1>5. ASSUME NEW m, NEW c, Line(q, o, m, c) PROVE Line(r, o, m, c)
  <2>1. ASSUME NEW i \in DOMAIN r, r[i].o = o
        PROVE  r[i].k <= m /\ (r[i].t = "end" => r[i].k = m /\ c \in {"close", "over"})
    BY Zenon, <1>4, <1>5, <2>1 DEF Line
  <2>2. ASSUME NEW i \in DOMAIN r, NEW j \in DOMAIN r, i < j, r[i].o = o, r[j].o = o
        PROVE  r[i].t # "end" /\ r[j].t # "new"
    BY Zenon, <1>4, <1>5, <2>2 DEF Line
  <2> QED BY Zenon, <2>1, <2>2 DEF Line
<1>6. ASSUME NEW st, NEW n, NEW m, Flow(q, o, st, n, m) PROVE Flow(r, o, st, n, m)
  BY Zenon, <1>1, <1>4, <1>6, FlowSame
<1> QED BY Zenon, <1>2, <1>3, <1>5, <1>6

\* The New frame comes first.
LEMMA PutNew ==
    ASSUME NEW q \in Seq(Frames), NEW f \in Frames, NEW r, r = Append(q, f), NEW o,
           f.o = o, f.t = "new", none(q, o), NEW n
    PROVE  Line(r, o, f.k, "copy") /\ Flow(r, o, "none", n, f.k) /\ hasNew(r, o)
<1> DEFINE z == Len(q) + 1
<1>1. /\ \A i \in DOMAIN q : i \in DOMAIN r /\ r[i] = q[i]
      /\ \A i \in DOMAIN r : i \in DOMAIN q \/ i = z
      /\ z \in DOMAIN r /\ r[z] = f
  BY Appended
<1>2. ASSUME NEW i \in DOMAIN r, r[i].o = o PROVE i = z
  BY Zenon, <1>1, <1>2 DEF none
<1>3. z \in Nat /\ ~(z < z) /\ f.k \in Nat /\ f.k <= f.k
  BY Appended DEF Frames
<1> HIDE DEF z
<1>4. Line(r, o, f.k, "copy")
  <2>1. ASSUME NEW i \in DOMAIN r, r[i].o = o
        PROVE  r[i].k <= f.k /\ r[i].t # "end"
    BY Zenon, <1>1, <1>2, <1>3, <2>1
  <2>2. ASSUME NEW i \in DOMAIN r, NEW j \in DOMAIN r, i < j, r[i].o = o, r[j].o = o PROVE FALSE
    BY Zenon, <1>2, <1>3, <2>2
  <2> QED BY Zenon, <2>1, <2>2 DEF Line
<1>5. Flow(r, o, "none", n, f.k)
  BY Zenon, <1>1, <1>2, <1>3 DEF Flow, data
<1>6. hasNew(r, o)
  BY Zenon, <1>1 DEF hasNew
<1> QED BY Zenon, <1>4, <1>5, <1>6

\* The next number is above what the last one is not below.
LEMMA OneAbove ==
    ASSUME NEW m \in Nat, NEW b \in Int, b <= m
    PROVE  m + 1 > b /\ m + 1 > 0 /\ (m + 1) - 1 = m
OBVIOUS

\* The next chunk of a session whose data flows.
LEMMA PutKeep ==
    ASSUME NEW q \in Seq(Frames), NEW f \in Frames, NEW r, r = Append(q, f), NEW o,
           NEW st, NEW n \in Nat, NEW m \in Nat,
           f.o = o, f.t = "keep", f.k = m + 1, Line(q, o, m, "copy")
    PROVE  /\ Line(r, o, m + 1, "copy") /\ (hasNew(q, o) <=> hasNew(r, o))
           /\ Flow(q, o, st, n, m) /\ n <= m /\ (st = "open" \/ (st = "none" /\ hasNew(q, o)))
                 => Flow(r, o, st, n, m + 1)
<1> DEFINE z == Len(q) + 1
<1>1. /\ \A i \in DOMAIN q : i \in DOMAIN r /\ r[i] = q[i] /\ i < z /\ i \in Nat
      /\ \A i \in DOMAIN r : i \in DOMAIN q \/ i = z
      /\ z \in DOMAIN r /\ r[z] = f /\ z \in Nat
      /\ \A i \in DOMAIN q : q[i] \in Frames
  <2>1. \A i \in DOMAIN q : i \in Nat /\ q[i] \in Frames
    BY Appended
  <2> QED BY <2>1, Appended
<1> HIDE DEF z
<1>2. ASSUME NEW i \in DOMAIN q, q[i].o = o PROVE q[i].k \in Nat /\ q[i].k <= m /\ q[i].t # "end"
  BY Zenon, <1>1, <1>2 DEF Line, Frames
<1>3. Line(r, o, m + 1, "copy")
  <2>1. ASSUME NEW i \in DOMAIN r, r[i].o = o PROVE r[i].k <= m + 1 /\ r[i].t # "end"
    <3>1. CASE i \in DOMAIN q
      BY <3>1, <2>1, <1>1, <1>2
    <3>2. CASE i = z
      BY <3>2, <1>1
    <3> QED BY Zenon, <3>1, <3>2, <1>1
  <2>2. ASSUME NEW i \in DOMAIN r, NEW j \in DOMAIN r, i < j, r[i].o = o, r[j].o = o
        PROVE  r[j].t # "new"
    <3>1. i \in DOMAIN q
      BY <1>1, <2>2
    <3> QED BY Zenon, <3>1, <1>1, <2>2 DEF Line
  <2> QED BY Zenon, <2>1, <2>2 DEF Line
<1>4. hasNew(q, o) <=> hasNew(r, o)
  BY Zenon, <1>1 DEF hasNew
<1>5. ASSUME Flow(q, o, st, n, m), n <= m, st = "open" \/ (st = "none" /\ hasNew(q, o))
      PROVE  Flow(r, o, st, n, m + 1)
  <2>1. base(st, n) \in Int /\ base(st, n) <= m /\ base(st, n) >= -1
    BY <1>5 DEF base
  <2>2. ASSUME NEW i \in DOMAIN r, NEW j \in DOMAIN r, i < j, data(r, i, o), data(r, j, o)
        PROVE  r[i].k < r[j].k
    <3>1. i \in DOMAIN q
      BY <1>1, <2>2
    <3>2. CASE j \in DOMAIN q
      BY Zenon, <3>1, <3>2, <1>1, <1>5, <2>2 DEF Flow, data
    <3>3. CASE j = z
      BY <3>1, <3>3, <1>1, <1>2, <2>2 DEF data
    <3> QED BY Zenon, <3>2, <3>3, <1>1
  <2>3. (m > base(st, n)) => \E i \in DOMAIN q : data(q, i, o) /\ q[i].k = m
    BY Zenon, <1>5 DEF Flow
  <2>4. ASSUME NEW j \in DOMAIN r, data(r, j, o) /\ r[j].t = "keep"
        PROVE  /\ r[j].k > base(st, n) /\ r[j].k > 0
               /\ r[j].k > base(st, n) + 1 =>
                     \E i \in DOMAIN r : i < j /\ data(r, i, o) /\ r[i].k = r[j].k - 1
    <3>1. CASE j \in DOMAIN q
      BY ZenonT(40), <3>1, <1>1, <1>5, <2>4 DEF Flow, data
    <3>2. CASE j = z
      <4>0. r[j].k = m + 1
        BY Zenon, <3>2, <1>1
      <4>1. r[j].k > base(st, n) /\ r[j].k > 0 /\ r[j].k - 1 = m
        BY Zenon, <4>0, <2>1, OneAbove
      <4>2. ASSUME r[j].k > base(st, n) + 1 PROVE m > base(st, n)
        BY <4>0, <4>2, <2>1
      <4> QED BY Zenon, <4>1, <4>2, <2>3, <3>2, <1>1 DEF data
    <3> QED BY Zenon, <3>1, <3>2, <1>1
  <2>5. \E i \in DOMAIN r : data(r, i, o) /\ r[i].k = m + 1
    BY Zenon, <1>1 DEF data
  <2> QED BY Zenon, <2>2, <2>4, <2>5 DEF Flow
<1> QED BY Zenon, <1>3, <1>4, <1>5

\* The End frame.
LEMMA PutEnd ==
    ASSUME NEW q \in Seq(Frames), NEW f \in Frames, NEW r, r = Append(q, f), NEW o,
           NEW m \in Nat, NEW c, c \notin {"close", "over"},
           f.o = o, f.t = "end", f.k = m, Line(q, o, m, c)
    PROVE  /\ Line(r, o, m, "close") /\ (hasNew(q, o) <=> hasNew(r, o))
           /\ \A st, n : Flow(q, o, st, n, m) => Flow(r, o, st, n, m)
<1> DEFINE z == Len(q) + 1
<1>1. /\ \A i \in DOMAIN q : i \in DOMAIN r /\ r[i] = q[i] /\ i < z /\ i \in Nat
      /\ \A i \in DOMAIN r : i \in DOMAIN q \/ i = z
      /\ z \in DOMAIN r /\ r[z] = f /\ z \in Nat /\ ~(z < z) /\ m <= m
  <2>1. \A i \in DOMAIN q : i \in Nat
    BY Appended
  <2> QED BY <2>1, Appended
<1> HIDE DEF z
<1>2. Line(r, o, m, "close")
  <2>1. ASSUME NEW i \in DOMAIN r, r[i].o = o
        PROVE  r[i].k <= m /\ (r[i].t = "end" => r[i].k = m)
    BY Zenon, <1>1, <2>1 DEF Line
  <2>2. ASSUME NEW i \in DOMAIN r, NEW j \in DOMAIN r, i < j, r[i].o = o, r[j].o = o
        PROVE  r[i].t # "end" /\ r[j].t # "new"
    <3>1. i \in DOMAIN q
      BY <1>1, <2>2
    <3> QED BY Zenon, <3>1, <1>1, <2>2 DEF Line
  <2> QED BY Zenon, <2>1, <2>2 DEF Line
<1>3. hasNew(q, o) <=> hasNew(r, o)
  BY Zenon, <1>1 DEF hasNew
<1>4. ASSUME NEW st, NEW n, Flow(q, o, st, n, m) PROVE Flow(r, o, st, n, m)
  <2>1. \A i \in DOMAIN r : data(r, i, o) => i \in DOMAIN q /\ r[i] = q[i]
    BY Zenon, <1>1 DEF data
  <2> QED BY ZenonT(40), <1>1, <1>4, <2>1, FlowSame, Appended
<1> QED BY Zenon, <1>2, <1>3, <1>4

\* Taking a frame keeps the rest in line.
LEMMA TakeLine ==
    ASSUME NEW q \in Seq(Frames), q # <<>>, NEW r, r = Tail(q), NEW o
    PROVE  /\ none(q, o) => none(r, o)
           /\ hasNew(r, o) => hasNew(q, o)
           /\ hasNew(q, o) /\ ~(Head(q).t = "new" /\ Head(q).o = o) => hasNew(r, o)
           /\ \A m, c : Line(q, o, m, c) => Line(r, o, m, c)
<1>1. /\ \A i \in DOMAIN r : i \in Nat /\ i + 1 \in DOMAIN q /\ r[i] = q[i + 1]
      /\ \A i \in DOMAIN q : i # 1 => i - 1 \in DOMAIN r /\ r[i - 1] = q[i]
      /\ Head(q) = q[1]
  BY Taken
<1>2. none(q, o) => none(r, o)
  BY ZenonT(40), <1>1 DEF none
<1>3. hasNew(r, o) => hasNew(q, o)
  <2>1. ASSUME NEW i \in DOMAIN r, r[i].t = "new", r[i].o = o PROVE hasNew(q, o)
    <3>1. i + 1 \in DOMAIN q /\ q[i + 1].t = "new" /\ q[i + 1].o = o
      BY Zenon, <1>1, <2>1
    <3> QED BY Zenon, <3>1 DEF hasNew
  <2> QED BY Zenon, <2>1 DEF hasNew
<1>4. hasNew(q, o) /\ ~(Head(q).t = "new" /\ Head(q).o = o) => hasNew(r, o)
  BY ZenonT(40), <1>1 DEF hasNew
<1>5. ASSUME NEW m, NEW c, Line(q, o, m, c) PROVE Line(r, o, m, c)
  <2>1. ASSUME NEW i \in DOMAIN r, NEW j \in DOMAIN r, i < j PROVE i + 1 < j + 1
    BY <1>1, <2>1
  <2>2. ASSUME NEW i \in DOMAIN r, r[i].o = o
        PROVE  r[i].k <= m /\ (r[i].t = "end" => r[i].k = m /\ c \in {"close", "over"})
    BY Zenon, <1>1, <1>5, <2>2 DEF Line
  <2>3. ASSUME NEW i \in DOMAIN r, NEW j \in DOMAIN r, i < j, r[i].o = o, r[j].o = o
        PROVE  r[i].t # "end" /\ r[j].t # "new"
    <3>1. /\ i + 1 \in DOMAIN q /\ j + 1 \in DOMAIN q /\ i + 1 < j + 1
          /\ q[i + 1].o = o /\ q[j + 1].o = o /\ r[i] = q[i + 1] /\ r[j] = q[j + 1]
      BY Zenon, <1>1, <2>1, <2>3
    <3> QED BY Zenon, <3>1, <1>5 DEF Line
  <2> QED BY Zenon, <2>2, <2>3 DEF Line
<1> QED BY Zenon, <1>2, <1>3, <1>4, <1>5

\* A frame that is not data of session o is taken.
LEMMA TakeOther ==
    ASSUME NEW q \in Seq(Frames), q # <<>>, NEW r, r = Tail(q), NEW o,
           Head(q).o # o \/ Head(q).t = "end", NEW st, NEW n, NEW m, Flow(q, o, st, n, m)
    PROVE  Flow(r, o, st, n, m)
<1>1. /\ \A i \in DOMAIN r : i \in Nat /\ i + 1 \in DOMAIN q /\ r[i] = q[i + 1]
      /\ \A i \in DOMAIN q : i \in Nat /\ (i # 1 => i - 1 \in DOMAIN r /\ r[i - 1] = q[i])
      /\ Head(q) = q[1]
  BY ZenonT(40), Taken
<1>2. \A i \in DOMAIN q : data(q, i, o) => i # 1
  BY Zenon, <1>1 DEF data
<1>3. \A i \in DOMAIN r : data(r, i, o) <=> data(q, i + 1, o)
  BY Zenon, <1>1 DEF data
<1>4. \A i \in DOMAIN q : data(q, i, o) => i - 1 \in DOMAIN r /\ data(r, i - 1, o) /\ r[i - 1] = q[i]
  BY Zenon, <1>1, <1>2 DEF data
<1>5. ASSUME NEW i \in DOMAIN r, NEW j \in DOMAIN r, i < j, data(r, i, o), data(r, j, o)
      PROVE  r[i].k < r[j].k
  <2>1. i + 1 < j + 1
    BY <1>1, <1>5
  <2> QED BY Zenon, <1>1, <1>3, <1>5, <2>1 DEF Flow
<1>6. ASSUME NEW j \in DOMAIN r, data(r, j, o) /\ r[j].t = "keep"
      PROVE  /\ r[j].k > base(st, n) /\ r[j].k > 0
             /\ r[j].k > base(st, n) + 1 =>
                   \E i \in DOMAIN r : i < j /\ data(r, i, o) /\ r[i].k = r[j].k - 1
  <2>1. ASSUME NEW i \in DOMAIN q, i < j + 1 PROVE i - 1 < j
    BY <1>1, <2>1
  <2>2. /\ j + 1 \in DOMAIN q /\ q[j + 1] = r[j] /\ data(q, j + 1, o) /\ q[j + 1].t = "keep"
    BY Zenon, <1>1, <1>3, <1>6
  <2>3. /\ r[j].k > base(st, n) /\ r[j].k > 0
        /\ r[j].k > base(st, n) + 1 =>
              \E i \in DOMAIN q : i < j + 1 /\ data(q, i, o) /\ q[i].k = r[j].k - 1
    BY Zenon, <2>2 DEF Flow
  <2> QED BY Zenon, <2>1, <2>3, <1>4
<1>7. (st = "open" \/ hasNew(r, o)) /\ m > base(st, n) =>
         \E i \in DOMAIN r : data(r, i, o) /\ r[i].k = m
  <2>1. hasNew(r, o) => hasNew(q, o)
    BY Zenon, TakeLine
  <2> QED BY Zenon, <1>4, <2>1 DEF Flow
<1> QED BY Zenon, <1>5, <1>6, <1>7 DEF Flow

\* The data that is taken from an open session's flow is the next chunk; that of a
\* New frame is where the flow begins.
LEMMA TakeData ==
    ASSUME NEW q \in Seq(Frames), q # <<>>, NEW r, r = Tail(q), NEW o,
           Head(q).o = o, NEW n \in Nat, NEW m \in Nat, NEW st, Flow(q, o, st, n, m),
           \/ Head(q).t = "keep" /\ st = "open"
           \/ Head(q).t = "new" /\ st = "none"
    PROVE  /\ Flow(r, o, "open", Head(q).k, m)
           /\ Head(q).t = "keep" => Head(q).k = n + 1
<1> DEFINE h == q[1]
           b == base(st, n)
<1>1. /\ \A i \in DOMAIN r : i \in Nat /\ i + 1 \in DOMAIN q /\ r[i] = q[i + 1] /\ 1 < i + 1
      /\ \A i \in DOMAIN q : i \in Nat /\ ~(i < 1)
                             /\ (i # 1 => i - 1 \in DOMAIN r /\ r[i - 1] = q[i])
      /\ Head(q) = h /\ 1 \in DOMAIN q /\ h \in Frames
      /\ \A i \in DOMAIN q : q[i].k \in Nat
  BY ZenonT(40), Taken
<1>2. h.k \in Nat /\ data(q, 1, o) /\ b \in Int /\ h.o = o
  BY <1>1 DEF Frames, data, base
<1>3. \A i \in DOMAIN r : data(r, i, o) <=> data(q, i + 1, o)
  BY Zenon, <1>1 DEF data
<1>4. \A i \in DOMAIN q : data(q, i, o) /\ i # 1 =>
         i - 1 \in DOMAIN r /\ data(r, i - 1, o) /\ r[i - 1] = q[i]
  BY Zenon, <1>1 DEF data
<1>5. h.t = "keep" => h.k = n + 1
  <2> SUFFICES ASSUME h.t = "keep" PROVE h.k = n + 1
    BY Zenon
  <2>1. b = n /\ h.k > b
    BY Zenon, <1>1, <1>2 DEF Flow, base
  <2>2. ~(h.k > b + 1)
    BY Zenon, <1>1, <1>2 DEF Flow
  <2> QED BY <1>2, <2>1, <2>2
<1>6. h.k >= b + 1 \/ h.t = "new"
  BY <1>1, <1>5 DEF base
<1>7. ASSUME NEW i \in DOMAIN r, NEW j \in DOMAIN r, i < j, data(r, i, o), data(r, j, o)
      PROVE  r[i].k < r[j].k
  <2>1. i + 1 < j + 1
    BY <1>1, <1>7
  <2> QED BY ZenonT(40), <1>1, <1>3, <1>7, <2>1 DEF Flow
<1>8. ASSUME NEW j \in DOMAIN r, data(r, j, o) /\ r[j].t = "keep"
      PROVE  /\ r[j].k > h.k /\ r[j].k > 0
             /\ r[j].k > h.k + 1 =>
                   \E i \in DOMAIN r : i < j /\ data(r, i, o) /\ r[i].k = r[j].k - 1
  <2>1. r[j].k > 0 /\ data(q, j + 1, o) /\ j + 1 \in DOMAIN q /\ r[j] = q[j + 1]
    <3>1. data(q, j + 1, o) /\ j + 1 \in DOMAIN q /\ r[j] = q[j + 1] /\ q[j + 1].t = "keep"
      BY Zenon, <1>1, <1>3, <1>8
    <3> QED BY Zenon, <3>1 DEF Flow
  <2>2. r[j].k > h.k
    <3>1. h.k < q[j + 1].k
      BY Zenon, <1>1, <1>2, <2>1 DEF Flow
    <3>2. q[j + 1].k \in Nat
      BY Zenon, <2>1, <1>1
    <3> QED BY Zenon, <3>1, <3>2, <2>1, <1>2
  <2>3. ASSUME r[j].k > h.k + 1
        PROVE  \E i \in DOMAIN r : i < j /\ data(r, i, o) /\ r[i].k = r[j].k - 1
    <3>1. r[j].k \in Nat
      BY Zenon, <2>1, <1>1
    <3>2. r[j].k > b + 1
      <4>1. CASE st = "none"
        BY <4>1, <3>1, <2>1 DEF base
      <4>2. CASE st = "open"
        BY <4>2, <3>1, <2>3, <1>2, <1>5, <1>1 DEF base
      <4> QED BY Zenon, <4>1, <4>2
    <3>3. PICK i \in DOMAIN q : i < j + 1 /\ data(q, i, o) /\ q[i].k = q[j + 1].k - 1
      BY Zenon, <2>1, <3>2, <1>8 DEF Flow
    <3>4. i # 1
      BY <3>1, <3>3, <2>1, <2>3, <1>2
    <3>5. i - 1 < j
      BY <3>3, <1>1
    <3> QED BY Zenon, <3>3, <3>4, <3>5, <1>4, <2>1
  <2> QED BY Zenon, <2>1, <2>2, <2>3
<1>9. m > h.k => \E i \in DOMAIN r : data(r, i, o) /\ r[i].k = m
  <2> SUFFICES ASSUME m > h.k PROVE \E i \in DOMAIN r : data(r, i, o) /\ r[i].k = m
    BY Zenon
  <2>1. (st = "open" \/ hasNew(q, o)) /\ m > b
    <3>1. CASE st = "none"
      <4>1. m > b
        BY <3>1 DEF base
      <4> QED BY Zenon, <4>1, <3>1, <1>1, <1>2 DEF hasNew
    <3>2. CASE st = "open"
      BY <3>2, <1>1, <1>2, <1>5 DEF base
    <3> QED BY Zenon, <3>1, <3>2
  <2>2. PICK i \in DOMAIN q : data(q, i, o) /\ q[i].k = m
    BY Zenon, <2>1 DEF Flow
  <2>3. i # 1
    BY <2>2, <1>2
  <2> QED BY Zenon, <2>2, <2>3, <1>4
<1>10. Flow(r, o, "open", h.k, m)
  <2>1. base("open", h.k) = h.k
    BY Zenon DEF base
  <2> QED BY Zenon, <1>7, <1>8, <1>9, <2>1 DEF Flow
<1> QED BY Zenon, <1>1, <1>5, <1>10

\* The End frame of an open session finds all its data taken.
LEMMA TakeEnd ==
    ASSUME NEW q \in Seq(Frames), q # <<>>, NEW o, Head(q).o = o, Head(q).t = "end",
           NEW n \in Nat, NEW m \in Nat, n <= m, NEW c, Line(q, o, m, c), Flow(q, o, "open", n, m)
    PROVE  n = m /\ Head(q).k = m
<1>1. /\ \A i \in DOMAIN q : i \in Nat /\ ~(i < 1)
      /\ Head(q) = q[1] /\ 1 \in DOMAIN q
  BY Zenon, Taken
<1>2. Head(q).k = m
  BY Zenon, <1>1 DEF Line
<1>3. ASSUME NEW i \in DOMAIN q PROVE ~data(q, i, o)
  <2>1. i = 1 \/ 1 < i
    BY <1>1
  <2> QED BY Zenon, <2>1, <1>1 DEF Line, data
<1>4. ~(m > base("open", n)) /\ base("open", n) = n
  BY Zenon, <1>3 DEF Flow, base
<1> QED BY <1>2, <1>4

\* What arrives, chunk by chunk.
LEMMA ChunksGrow ==
    ASSUME NEW o, NEW n \in Nat
    PROVE  /\ Len(Chunks(o, n)) = n /\ Chunks(o, 0) = <<>>
           /\ Append(Chunks(o, n), <<o, n + 1>>) = Chunks(o, n + 1)
           /\ Chunks(o, 1) = <<<<o, 1>>>>
<1>1. Chunks(o, n) \in Seq({o} \X Nat) /\ Chunks(o, n + 1) \in Seq({o} \X Nat)
  BY DEF Chunks
<1>2. Len(Chunks(o, n)) = n /\ Len(Chunks(o, n + 1)) = n + 1
  BY DEF Chunks
<1>3. Append(Chunks(o, n), <<o, n + 1>>) = Chunks(o, n + 1)
  BY <1>1, <1>2 DEF Chunks
<1>4. Chunks(o, 0) = <<>> /\ Chunks(o, 1) = <<<<o, 1>>>>
  BY DEF Chunks
<1> QED BY Zenon, <1>2, <1>3, <1>4

\* No frames of a session yet: nothing is out of line, and nothing is missing.
LEMMA NoFrames ==
    ASSUME NEW q, NEW o, none(q, o)
    PROVE  /\ \A m, c : Line(q, o, m, c)
           /\ Flow(q, o, "open", 0, 0) /\ ~hasNew(q, o)
<1>1. \A m, c : Line(q, o, m, c)
  BY Zenon DEF none, Line
<1>2. ~hasNew(q, o)
  BY Zenon DEF none, hasNew
<1>3. ~(0 > base("open", 0))
  BY DEF base
<1>4. Flow(q, o, "open", 0, 0)
  BY Zenon, <1>3 DEF none, Flow, data
<1> QED BY Zenon, <1>1, <1>2, <1>4

\* A goroutine that ends its copy may have written an End frame.
LEMMA LineCloses ==
    ASSUME NEW q, NEW o, NEW m, NEW c, Line(q, o, m, c), NEW e \in {"close", "over"}
    PROVE  Line(q, o, m, e)
<1>1. \A i \in DOMAIN q : q[i].o = o =>
          q[i].k <= m /\ (q[i].t = "end" => q[i].k = m /\ e \in {"close", "over"})
  BY Zenon DEF Line
<1>2. \A i, j \in DOMAIN q : i < j /\ q[i].o = o /\ q[j].o = o =>
          q[i].t # "end" /\ q[j].t # "new"
  BY Zenon DEF Line
<1> QED BY Zenon, <1>1, <1>2 DEF Line

\* The data of a session that is not there yet begins with its New frame.
LEMMA KeepAfterNew ==
    ASSUME NEW q \in Seq(Frames), q # <<>>, NEW o, Head(q).o = o, Head(q).t = "keep",
           NEW n, NEW m, Flow(q, o, "none", n, m)
    PROVE  FALSE
<1>1. /\ \A i \in DOMAIN q : i \in Nat /\ ~(i < 1)
      /\ Head(q) = q[1] /\ 1 \in DOMAIN q /\ q[1].k \in Nat
  BY Zenon, Taken
<1>2. data(q, 1, o) /\ q[1].t = "keep"
  BY Zenon, <1>1 DEF data
<1>3. q[1].k > 0
  BY Zenon, <1>1, <1>2 DEF Flow
<1>4. q[1].k > base("none", n) + 1
  BY <1>1, <1>3 DEF base
<1> QED BY Zenon, <1>1, <1>2, <1>4 DEF Flow

\* The New frame of a session is its first, and comes once.
LEMMA NewOnce ==
    ASSUME NEW q \in Seq(Frames), q # <<>>, NEW o, Head(q).o = o, NEW m, NEW c, Line(q, o, m, c)
    PROVE  ~hasNew(Tail(q), o) /\ Head(q).k <= m
<1> DEFINE r == Tail(q)
<1>1. /\ \A i \in DOMAIN r : i + 1 \in DOMAIN q /\ r[i] = q[i + 1] /\ 1 < i + 1
      /\ Head(q) = q[1] /\ 1 \in DOMAIN q
  BY Taken
<1> HIDE DEF r
<1>2. ASSUME NEW i \in DOMAIN r, r[i].t = "new", r[i].o = o PROVE FALSE
  BY Zenon, <1>1, <1>2 DEF Line
<1>3. q[1].k <= m
  BY Zenon, <1>1 DEF Line
<1>4. ~hasNew(r, o)
  BY Zenon, <1>2 DEF hasNew
<1> QED BY Zenon, <1>1, <1>3, <1>4 DEF r

-----------------------------------------------------------------------------
(* What steps do to the links, and to the sessions of a side. *)

\* A carrier has two sides.
LEMMA Peers == \A d \in Sides : Peer(d) \in Sides /\ Peer(d) # d /\ Peer(Peer(d)) = d
BY Zenon DEF Peer, Sides

\* The other side is the only other one.
LEMMA TwoSides == \A d, e \in Sides : e = d \/ e = Peer(d)
BY Zenon DEF Peer, Sides

\* A frame is written.
LEMMA Writes ==
    ASSUME LinkShape, NEW d \in Sides, NEW f \in Frames, Room(d), Put(d, f), broken' = broken
    PROVE  /\ LinkShape' /\ net[d] \in Seq(Frames) /\ net'[d] = Append(net[d], f)
           /\ net'[Peer(d)] = net[Peer(d)]
<1>1. /\ net[d] \in Seq(Frames) /\ net'[d] = Append(net[d], f)
      /\ \A e \in Sides : e # d => net'[e] = net[e]
      /\ net' = [net EXCEPT ![d] = Append(net[d], f)]
  BY Zenon DEF LinkShape, Put
<1>2. Append(net[d], f) \in Seq(Frames) /\ Len(net'[d]) = Len(net[d]) + 1 /\ Len(net[d]) \in Nat
  BY Zenon, <1>1, Appended
<1>3. Len(net[d]) < LinkSize /\ LinkSize \in Nat
  BY Zenon, MuxAssumption DEF Room
<1>4. \A e \in Sides : Len(net'[e]) <= LinkSize
  <2>1. Len(net'[d]) <= LinkSize
    BY <1>2, <1>3
  <2> QED BY Zenon, <1>1, <2>1 DEF LinkShape
<1>5. net' \in [Sides -> Seq(Frames)]
  BY Zenon, <1>1, <1>2 DEF LinkShape
<1> QED BY Zenon, <1>1, <1>4, <1>5, Peers DEF LinkShape

\* It carries the ID of its session.
LEMMA WritesNamed ==
    ASSUME LinkShape, Named, NEW d \in Sides, NEW f \in Frames, Room(d), Put(d, f),
           broken' = broken, id' = id, f.t # "end" => f.o \in Objs, f.o \in Objs => f.id = id[f.o]
    PROVE  Named'
<1>1. net[d] \in Seq(Frames) /\ net'[d] = Append(net[d], f) /\ net'[Peer(d)] = net[Peer(d)]
  BY Zenon, Writes
<1> DEFINE q == net[d]
           r == net'[d]
<1>2. \A i \in DOMAIN r : (i \in DOMAIN q /\ r[i] = q[i]) \/ r[i] = f
  BY <1>1, Appended
<1>3. ASSUME NEW i \in DOMAIN r
      PROVE  (r[i].t # "end" => r[i].o \in Objs) /\ (r[i].o \in Objs => r[i].id = id[r[i].o])
  BY Zenon, <1>2 DEF Named
<1> HIDE DEF q, r
<1>4. ASSUME NEW e \in Sides, NEW i \in DOMAIN net'[e]
      PROVE  /\ net'[e][i].t # "end" => net'[e][i].o \in Objs
             /\ net'[e][i].o \in Objs => net'[e][i].id = id[net'[e][i].o]
  <2>1. CASE e = d
    BY Zenon, <1>3, <2>1 DEF r
  <2>2. CASE e = Peer(d)
    BY Zenon, <1>1, <2>2 DEF Named
  <2> QED BY Zenon, <2>1, <2>2, TwoSides
<1> QED BY Zenon, <1>4 DEF Named

\* The read loop takes a frame.
LEMMA Reads ==
    ASSUME LinkShape, Named, NEW d \in Sides, NEW t, Takes(d, t), broken' = broken, id' = id
    PROVE  /\ LinkShape' /\ Named'
           /\ net[Peer(d)] \in Seq(Frames) /\ net[Peer(d)] # <<>>
           /\ net'[Peer(d)] = Tail(net[Peer(d)]) /\ net'[d] = net[d]
           /\ LET f == Head(net[Peer(d)]) IN
              /\ f \in Frames /\ f.t = t /\ f.id \in IDs /\ f.k \in Nat
              /\ f.t # "end" => f.o \in Objs
              /\ f.o \in Objs => f.id = id[f.o]
              /\ ~none(net[Peer(d)], f.o)
              /\ f.t = "new" => hasNew(net[Peer(d)], f.o) 
<1> DEFINE p == Peer(d)
           q == net[p]
           r == Tail(q)
<1>0. p \in Sides /\ p # d
  BY Zenon, Peers
<1>1. /\ q \in Seq(Frames) /\ q # <<>> /\ net'[p] = r /\ net'[d] = net[d] /\ Head(q).t = t
      /\ net' = [net EXCEPT ![p] = r]
  BY Zenon, <1>0 DEF LinkShape, Takes
<1>2. /\ r \in Seq(Frames) /\ Len(r) <= Len(q) /\ Len(r) \in Nat /\ Len(q) \in Nat
      /\ 1 \in DOMAIN q /\ Head(q) = q[1] /\ q[1] \in Frames
      /\ \A i \in DOMAIN r : i + 1 \in DOMAIN q /\ r[i] = q[i + 1]
  BY <1>1, Taken
<1>3. net' \in [Sides -> Seq(Frames)]
  BY Zenon, <1>1, <1>2 DEF LinkShape
<1>4. \A e \in Sides : Len(net'[e]) <= LinkSize
  <2>1. Len(q) <= LinkSize /\ LinkSize \in Nat
    BY Zenon, <1>0, MuxAssumption DEF LinkShape
  <2>2. Len(net'[p]) <= LinkSize
    BY <1>1, <1>2, <2>1
  <2> QED BY Zenon, <1>1, <2>2, TwoSides DEF LinkShape
<1>5. Named'
  <2>1. ASSUME NEW e \in Sides, NEW i \in DOMAIN net'[e]
        PROVE  /\ net'[e][i].t # "end" => net'[e][i].o \in Objs
               /\ net'[e][i].o \in Objs => net'[e][i].id = id[net'[e][i].o]
    <3>1. CASE e = d
      <4>1. \A j \in DOMAIN net[d] : /\ net[d][j].t # "end" => net[d][j].o \in Objs
                                     /\ net[d][j].o \in Objs => net[d][j].id = id[net[d][j].o]
        BY Zenon DEF Named
      <4> QED BY Zenon, <1>1, <3>1, <4>1
    <3>2. CASE e = p
      <4>1. i + 1 \in DOMAIN q /\ net'[e][i] = q[i + 1]
        BY Zenon, <1>1, <1>2, <3>2
      <4>2. \A j \in DOMAIN q : /\ q[j].t # "end" => q[j].o \in Objs
                                /\ q[j].o \in Objs => q[j].id = id[q[j].o]
        BY Zenon, <1>0 DEF Named
      <4> QED BY Zenon, <4>1, <4>2
    <3> QED BY Zenon, <3>1, <3>2, TwoSides
  <2> QED BY Zenon, <2>1 DEF Named
<1>6. /\ q[1].t # "end" => q[1].o \in Objs
      /\ q[1].o \in Objs => q[1].id = id[q[1].o]
  BY Zenon, <1>0, <1>2 DEF Named
<1>7. q[1].id \in IDs /\ q[1].k \in Nat
  BY Zenon, <1>2 DEF Frames
<1>8. ~none(q, q[1].o) /\ (q[1].t = "new" => hasNew(q, q[1].o))
  BY Zenon, <1>2 DEF none, hasNew
<1>9. LinkShape'
  BY Zenon, <1>3, <1>4 DEF LinkShape
<1> QED BY Zenon, <1>1, <1>2, <1>5, <1>6, <1>7, <1>8, <1>9

\* What is left is still in line.
LEMMA ReadsLines ==
    ASSUME LinkShape, Named, Lines, News, NEW d \in Sides, NEW t, Takes(d, t),
           broken' = broken, id' = id, UNCHANGED <<sent, cp>>
    PROVE  /\ Lines'
           /\ \A e \in Sides, o \in Objs : none(net[e], o) => none(net'[e], o)
           /\ \A e \in Sides, o \in Objs : hasNew(net'[e], o) => hasNew(net[e], o)
           /\ \A e \in Sides, o \in Objs : hasNew(net[e], o) /\ t # "new" => hasNew(net'[e], o)
           /\ \A i \in DOMAIN net'["s"] : net'["s"][i].t # "new"
           /\ \A i \in DOMAIN net'["c"] : net'["c"][i].t = "new" => net'["c"][i].k <= 1
<1> DEFINE p == Peer(d)
           q == net[p]
           r == net'[p]
<1>1. q \in Seq(Frames) /\ q # <<>> /\ r = Tail(q) /\ net'[d] = net[d] /\ Head(q).t = t
  BY Zenon, Reads
<1>2. \A o : /\ none(q, o) => none(r, o)
             /\ hasNew(r, o) => hasNew(q, o)
             /\ hasNew(q, o) /\ t # "new" => hasNew(r, o)
             /\ \A m, c : Line(q, o, m, c) => Line(r, o, m, c)
  BY Zenon, <1>1, TakeLine
<1>3. \A i \in DOMAIN r : i + 1 \in DOMAIN q /\ r[i] = q[i + 1]
  BY ZenonT(40), <1>1, Taken
<1>4. p \in Sides /\ d \in Sides
  BY Zenon, Peers
<1> HIDE DEF q, r
<1>5. ASSUME NEW e \in Sides, NEW o \in Objs
      PROVE  /\ none(net[e], o) => none(net'[e], o)
             /\ hasNew(net'[e], o) => hasNew(net[e], o)
             /\ hasNew(net[e], o) /\ t # "new" => hasNew(net'[e], o)
             /\ Line(net'[e], o, sent[e][o], cp[e][o])
  <2>1. CASE e = d
    BY Zenon, <1>1, <2>1 DEF Lines
  <2>2. CASE e = p
    BY Zenon, <1>2, <1>4, <2>2 DEF Lines, q, r
  <2> QED BY Zenon, <2>1, <2>2, TwoSides
<1>6. ASSUME NEW e \in Sides
      PROVE  \A i \in DOMAIN net'[e] : \E j \in DOMAIN net[e] : net'[e][i] = net[e][j]
  <2>1. CASE e = d
    BY Zenon, <1>1, <2>1
  <2>2. CASE e = p
    BY Zenon, <1>3, <2>2 DEF q, r
  <2> QED BY Zenon, <2>1, <2>2, TwoSides
<1>7. "c" \in Sides /\ "s" \in Sides
  BY Zenon DEF Sides
<1>8. /\ \A i \in DOMAIN net'["s"] : net'["s"][i].t # "new"
      /\ \A i \in DOMAIN net'["c"] : net'["c"][i].t = "new" => net'["c"][i].k <= 1
  BY ZenonT(40), <1>6, <1>7 DEF News
<1>9. Lines'
  BY Zenon, <1>5 DEF Lines
<1> QED BY Zenon, <1>5, <1>8, <1>9

\* An open session is in the map, and what is in the map is an open session.
LEMMA OpenIsListed ==
    ASSUME Listed, NEW d \in Sides, NEW o \in Objs, sess[d][o] = "open"
    PROVE  id[o] # 0 /\ sessions[d][id[o]] = o /\ ~mgrClosed[d]
BY Zenon DEF Listed

\* Whatever the map of a side holds is an open session, under its own ID.
LEMMA ListedIsOpen ==
    ASSUME Listed, NEW d \in Sides, NEW i \in IDs, sessions[d][i] # NoObj
    PROVE  id[sessions[d][i]] = i /\ sess[d][sessions[d][i]] = "open"
BY Zenon DEF Listed

\* Session.Close of an open session.
LEMMA Closes ==
    ASSUME IInv, NEW d \in Sides, NEW o \in Objs, sess[d][o] = "open", SessionClose(d, o),
           UNCHANGED <<id, count, mgrClosed, mon>>
    PROVE  /\ SessShape' /\ Fewer /\ Listed'
           /\ sess'[d][o] = "closed"
           /\ \A e \in Sides, p \in Objs : sess'[e][p] = sess[e][p] \/ (e = d /\ p = o)
<1>0. SessShape /\ Listed /\ CallShape /\ Counting
  BY Zenon DEF IInv, RInv
<1>1. /\ sess \in [Sides -> [Objs -> {"none", "open", "closed"}]]
      /\ sessions \in [Sides -> [IDs -> Objs \cup {NoObj}]]
      /\ id[o] # 0 /\ sessions[d][id[o]] = o /\ ~mgrClosed[d] /\ id[o] \in IDs \cup {0}
  BY ZenonT(40), <1>0 DEF SessShape, Listed, CallShape
<1>2. id[o] \in IDs /\ sessions' = [sessions EXCEPT ![d][id[o]] = NoObj]
  BY Zenon, <1>1 DEF SessionClose
<1>3. /\ sess' \in [Sides -> [Objs -> {"none", "open", "closed"}]] /\ sess'[d][o] = "closed"
      /\ \A e \in Sides, p \in Objs : sess'[e][p] = sess[e][p] \/ (e = d /\ p = o)
  BY Zenon, <1>1 DEF SessionClose
<1>4. /\ sessions' \in [Sides -> [IDs -> Objs \cup {NoObj}]] /\ sessions'[d][id[o]] = NoObj
      /\ \A e \in Sides, i \in IDs : sessions'[e][i] = sessions[e][i] \/ (e = d /\ i = id[o])
  BY Zenon, <1>1, <1>2
<1>5. SessShape'
  BY Zenon, <1>0, <1>3, <1>4 DEF SessShape
<1>6. Fewer
  BY Zenon, <1>3 DEF Fewer
<1>7. Listed'
  <2>1. ASSUME NEW e \in Sides, NEW p \in Objs, sess'[e][p] = "open"
        PROVE  id[p] # 0 /\ sessions'[e][id[p]] = p
    <3>1. sess[e][p] = "open" /\ ~(e = d /\ p = o)
      BY Zenon, <1>3, <2>1
    <3>2. id[p] # 0 /\ id[p] \in IDs /\ sessions[e][id[p]] = p
      <4>1. id[p] # 0 /\ sessions[e][id[p]] = p
        BY Zenon, <1>0, <3>1 DEF Listed
      <4> QED BY Zenon, <1>0, <4>1 DEF CallShape
    <3>3. ~(e = d /\ id[p] = id[o])
      BY Zenon, <1>0, <3>1, <3>2 DEF Counting
    <3> QED BY Zenon, <1>4, <3>2, <3>3
  <2>2. ASSUME NEW e \in Sides, NEW i \in IDs, sessions'[e][i] # NoObj
        PROVE  id[sessions'[e][i]] = i /\ sess'[e][sessions'[e][i]] = "open"
    <3>1. sessions'[e][i] = sessions[e][i] /\ ~(e = d /\ i = id[o])
      BY Zenon, <1>4, <2>2
    <3>2. id[sessions[e][i]] = i /\ sess[e][sessions[e][i]] = "open" /\ sessions[e][i] \in Objs
      <4>1. sessions[e][i] \in Objs
        BY <1>1, <2>2, <3>1
      <4> QED BY Zenon, <1>0, <2>2, <3>1, <4>1 DEF Listed
    <3> QED BY Zenon, <1>3, <3>1, <3>2
  <2>3. ASSUME NEW e \in Sides, mgrClosed[e] PROVE \A p \in Objs : sess'[e][p] # "open"
    <3>1. \A p \in Objs : sess[e][p] # "open"
      BY Zenon, <1>0, <2>3 DEF Listed
    <3> QED BY Zenon, <1>1, <1>3, <2>3, <3>1
  <2>4. \A e \in Sides : mon[e] = "gone" => mgrClosed[e]
    BY Zenon, <1>0 DEF Listed
  <2> QED BY ZenonT(40), <2>1, <2>2, <2>3, <2>4 DEF Listed
<1> QED BY Zenon, <1>3, <1>5, <1>6, <1>7

-----------------------------------------------------------------------------
(* The steps. *)

\* The sessions and their counts depend on nothing else.
LEMMA SameBook ==
    ASSUME Listed, UNCHANGED <<id, sess, sessions, count, mgrClosed, mon>>
    PROVE  Fewer /\ Listed'
<1>1. \A d \in Sides, o \in Objs : sess'[d][o] = "open" => id'[o] # 0 /\ sessions'[d][id'[o]] = o
  BY Zenon DEF Listed
<1>2. \A d \in Sides, i \in IDs : sessions'[d][i] # NoObj =>
          id'[sessions'[d][i]] = i /\ sess'[d][sessions'[d][i]] = "open"
  BY ZenonT(40) DEF Listed
<1>3. /\ \A d \in Sides : mgrClosed'[d] => \A o \in Objs : sess'[d][o] # "open"
      /\ \A d \in Sides : mon'[d] = "gone" => mgrClosed'[d]
  BY Zenon DEF Listed
<1>4. Fewer
  BY Zenon DEF Fewer
<1> QED BY Zenon, <1>1, <1>2, <1>3, <1>4 DEF Listed

\* What the frames and the data that arrived say of sessions does not depend on
\* the callers.
LEMMA CallMoves ==
    ASSUME IInv, CallShape', Opening',
           UNCHANGED <<id, mgrVars, copyVars, got, outDead, net, broken, rl, done, mon>>
    PROVE  RInv' /\ Fewer
<1> USE DEF IInv, RInv, mgrVars, copyVars
<1>1. SessShape' /\ CopyShape' /\ GotShape' /\ LinkShape' /\ LoopShape'
  BY Zenon DEF SessShape, CopyShape, GotShape, LinkShape, LoopShape
<1>2. Listed' /\ Fewer
  BY Zenon, SameBook
<1>5. Named'
  BY Zenon DEF Named
<1>3. Unsent' /\ News'
  BY Zenon DEF Unsent, News
<1>4. Lines' /\ Flows' /\ NewOnWay' /\ Arrived'
  BY Zenon DEF Lines, Flows, NewOnWay, reads, Arrived
<1> QED BY Zenon, <1>1, <1>2, <1>3, <1>4, <1>5

\* IsFull, before the lock is taken.
LEMMA CheckFullStep == ASSUME IInv, NEW o \in Objs, CheckFull(o) PROVE RInv' /\ Fewer
<1>1. CallShape /\ Opening
  BY Zenon DEF IInv, RInv
<1>2. CallShape'
  BY Zenon, <1>1 DEF CheckFull, CallShape
<1>3. /\ caller[o] = "idle" /\ caller'[o] # "ok" /\ UNCHANGED <<id, sess, cp>>
      /\ \A p \in Objs : p # o => caller'[p] = caller[p]
  BY Zenon, <1>1 DEF CheckFull, CallShape, mgrVars, copyVars
<1>4. caller[o] # "ok"
  BY Zenon, <1>3
<1>5. \A p \in Objs : (caller'[p] = "ok") = (caller[p] = "ok")
  BY Zenon, <1>3, <1>4
<1>6. Opening'
  BY Zenon, <1>1, <1>3, <1>5 DEF Opening
<1>7. UNCHANGED <<id, mgrVars, copyVars, got, outDead, net, broken, rl, done, mon>>
  BY Zenon DEF CheckFull, monVars
<1> QED BY Zenon, <1>2, <1>6, <1>7, CallMoves

\* A session that is not there has neither an ID nor frames, nor a session at the server.
LEMMA Unborn ==
    ASSUME IInv, NEW o \in Objs, sess["c"][o] = "none"
    PROVE  /\ id[o] = 0 /\ cp["c"][o] = "none" /\ cp["s"][o] = "none" /\ sess["s"][o] = "none"
           /\ none(net["c"], o) /\ none(net["s"], o) /\ sent["c"][o] = 0 /\ sent["s"][o] = 0
           /\ got["c"][o] = <<>> /\ got["s"][o] = <<>>
<1>1. Opening /\ Unsent /\ "c" \in Sides /\ "s" \in Sides
  BY Zenon DEF IInv, RInv, Sides
<1>2. id[o] = 0 /\ cp["c"][o] = "none"
  BY Zenon, <1>1 DEF Opening
<1>3. none(net["c"], o) /\ sent["c"][o] = 0 /\ sess["s"][o] = "none"
  BY Zenon, <1>1, <1>2 DEF Unsent
<1>4. cp["s"][o] = "none"
  BY Zenon, <1>1, <1>3 DEF Opening
<1>5. none(net["s"], o) /\ sent["s"][o] = 0
  BY Zenon, <1>1, <1>4 DEF Unsent
<1>6. got["c"][o] = <<>> /\ got["s"][o] = <<>>
  BY Zenon, <1>1, <1>3 DEF Unsent
<1> QED BY Zenon, <1>2, <1>3, <1>4, <1>5, <1>6

\* Allocate: the new session has an ID that no other session has had, and no frame
\* with that ID is on the way.
LEMMA AllocateStep ==
    ASSUME IInv, NEW o \in Objs, Allocate(o),
           mayAllocate => nextID \in IDs /\ \A p \in Objs : id[p] # nextID
    PROVE  /\ RInv'
           /\ Fewer \/ (Adds("c", o) /\ mayAllocate /\ id' = [id EXCEPT ![o] = nextID])
<1>0. /\ CallShape /\ SessShape /\ CopyShape /\ GotShape /\ LinkShape /\ LoopShape /\ Opening
      /\ Counting /\ Listed /\ Named /\ Unsent /\ News /\ Lines /\ Flows /\ NewOnWay /\ Arrived
  BY Zenon DEF IInv, RInv
<1>1. sess["c"][o] = "none"
  <2>1. caller[o] # "ok"
    BY Zenon DEF Allocate
  <2> QED BY Zenon, <1>0, <2>1 DEF Opening
<1>2. CASE ~mayAllocate
  <2>1. CallShape'
    BY Zenon, <1>0, <1>2 DEF CallShape, Allocate
  <2>2. \A p \in Objs : (caller'[p] = "ok") = (caller[p] = "ok")
    <3>1. caller[o] # "ok" /\ caller'[o] # "ok" /\ \A p \in Objs : p # o => caller'[p] = caller[p]
      BY Zenon, <1>0, <1>2 DEF Allocate, CallShape
    <3> QED BY Zenon, <3>1
  <2>3. UNCHANGED <<id, mgrVars, copyVars, got, outDead, net, broken, rl, done, mon>>
    BY Zenon, <1>2 DEF Allocate, mgrVars, copyVars, monVars
  <2>4. Opening'
    BY Zenon, <1>0, <2>2, <2>3 DEF Opening, mgrVars, copyVars
  <2> QED BY Zenon, <2>1, <2>3, <2>4, CallMoves
<1>3. CASE mayAllocate
  <2> DEFINE n == nextID
  <2>1. n \in IDs /\ n # 0 /\ \A p \in Objs : id[p] # n
    BY Zenon, <1>3, IDsCount
  <2>2. /\ id[o] = 0 /\ cp["c"][o] = "none" /\ cp["s"][o] = "none" /\ sess["s"][o] = "none"
        /\ none(net["c"], o) /\ none(net["s"], o) /\ sent["c"][o] = 0 /\ sent["s"][o] = 0
        /\ got["c"][o] = <<>> /\ got["s"][o] = <<>>
    BY Zenon, <1>1, Unborn
  <2>3. /\ count' = [count EXCEPT !["c"] = @ + 1] /\ id' = [id EXCEPT ![o] = n]
        /\ sess' = [sess EXCEPT !["c"][o] = "open"] /\ sessions' = [sessions EXCEPT !["c"][n] = o]
        /\ cp' = [cp EXCEPT !["c"][o] = "first"] /\ caller' = [caller EXCEPT ![o] = "ok"]
        /\ UNCHANGED <<mgrClosed, sent, got, outDead, net, broken, rl, done, mon>>
    BY Zenon, <1>3 DEF Allocate, monVars
  <2> HIDE DEF n
  <2>4. "c" \in Sides /\ "s" \in Sides /\ "c" # "s" /\ \A d \in Sides : d = "c" \/ d = "s"
    BY Zenon DEF Sides
  <2>5. /\ id' \in [Objs -> IDs \cup {0}] /\ id'[o] = n /\ \A p \in Objs : p # o => id'[p] = id[p]
        /\ caller' \in [Objs -> {"idle", "checked", "ok", "refused"}] /\ caller'[o] = "ok"
        /\ \A p \in Objs : p # o => caller'[p] = caller[p]
    BY Zenon, <1>0, <2>1, <2>3 DEF CallShape
  <2>6. /\ sess' \in [Sides -> [Objs -> {"none", "open", "closed"}]] /\ sess'["c"][o] = "open"
        /\ \A e \in Sides, p \in Objs : sess'[e][p] = sess[e][p] \/ (e = "c" /\ p = o)
    BY Zenon, <1>0, <2>3, <2>4 DEF SessShape
  <2>7. /\ sessions' \in [Sides -> [IDs -> Objs \cup {NoObj}]] /\ sessions'["c"][n] = o
        /\ \A e \in Sides, i \in IDs : sessions'[e][i] = sessions[e][i] \/ (e = "c" /\ i = n)
    BY Zenon, <1>0, <2>1, <2>3, <2>4 DEF SessShape
  <2>8. /\ cp' \in [Sides -> [Objs -> {"none", "first", "copy", "close", "over"}]]
        /\ cp'["c"][o] = "first"
        /\ \A e \in Sides, p \in Objs : cp'[e][p] = cp[e][p] \/ (e = "c" /\ p = o)
    BY Zenon, <1>0, <2>3, <2>4 DEF CopyShape
  <2>9. CallShape' /\ SessShape' /\ CopyShape' /\ GotShape' /\ LinkShape' /\ LoopShape'
    BY Zenon, <1>0, <2>3, <2>5, <2>6, <2>7, <2>8 DEF CallShape, SessShape, CopyShape, GotShape,
       LinkShape, LoopShape
  <2>10. Opening'
    <3>1. ASSUME NEW p \in Objs
          PROVE  /\ (caller'[p] = "ok") = (sess'["c"][p] # "none")
                 /\ (id'[p] # 0) = (sess'["c"][p] # "none")
      <4>1. CASE p = o
        BY Zenon, <4>1, <2>1, <2>5, <2>6
      <4>2. CASE p # o
        <5>1. caller'[p] = caller[p] /\ id'[p] = id[p] /\ sess'["c"][p] = sess["c"][p]
          BY Zenon, <4>2, <2>4, <2>5, <2>6
        <5> QED BY Zenon, <5>1, <1>0 DEF Opening
      <4> QED BY Zenon, <4>1, <4>2
    <3>2. ASSUME NEW d \in Sides, NEW p \in Objs
          PROVE  (cp'[d][p] = "none") = (sess'[d][p] = "none")
      <4>1. CASE d = "c" /\ p = o
        BY Zenon, <4>1, <2>6, <2>8
      <4>2. CASE ~(d = "c" /\ p = o)
        <5>1. cp'[d][p] = cp[d][p] /\ sess'[d][p] = sess[d][p]
          BY Zenon, <4>2, <2>6, <2>8
        <5> QED BY Zenon, <5>1, <1>0 DEF Opening
      <4> QED BY Zenon, <4>1, <4>2
    <3> QED BY Zenon, <3>1, <3>2 DEF Opening
  <2>11. Adds("c", o) /\ mayAllocate /\ id' = [id EXCEPT ![o] = nextID]
    BY Zenon, <1>1, <1>3, <2>3, <2>6 DEF Adds, n
  <2>12. Listed'
    <3>1. ASSUME NEW e \in Sides, NEW p \in Objs, sess'[e][p] = "open"
          PROVE  id'[p] # 0 /\ sessions'[e][id'[p]] = p
      <4>1. CASE p = o
        <5>1. e = "c"
          BY <4>1, <3>1, <2>2, <2>4, <2>6
        <5> QED BY Zenon, <4>1, <5>1, <2>1, <2>5, <2>7
      <4>2. CASE p # o
        <5>1. id'[p] = id[p] /\ id[p] # 0 /\ sessions[e][id[p]] = p /\ id[p] # n
          <6>1. sess[e][p] = "open" /\ id'[p] = id[p] /\ id[p] # n
            BY Zenon, <4>2, <3>1, <2>1, <2>5, <2>6
          <6> QED BY Zenon, <6>1, <1>0, OpenIsListed
        <5>2. id[p] \in IDs
          BY Zenon, <5>1, <1>0 DEF CallShape
        <5> QED BY Zenon, <5>1, <5>2, <2>7
      <4> QED BY Zenon, <4>1, <4>2
    <3>2. ASSUME NEW e \in Sides, NEW i \in IDs, sessions'[e][i] # NoObj
          PROVE  id'[sessions'[e][i]] = i /\ sess'[e][sessions'[e][i]] = "open"
      <4>1. CASE e = "c" /\ i = n
        BY Zenon, <4>1, <2>5, <2>6, <2>7
      <4>2. CASE ~(e = "c" /\ i = n)
        <5>1. sessions'[e][i] = sessions[e][i]
          BY Zenon, <4>2, <2>7
        <5>2. sessions[e][i] \in Objs
          BY <5>1, <3>2, <1>0 DEF SessShape
        <5>3. id[sessions[e][i]] = i /\ sess[e][sessions[e][i]] = "open"
          BY Zenon, <5>1, <3>2, <1>0, ListedIsOpen
        <5>4. i # 0
          BY IDsCount
        <5>5. sessions[e][i] # o
          BY Zenon, <5>3, <5>4, <2>2
        <5>6. id'[sessions[e][i]] = id[sessions[e][i]] /\ sess'[e][sessions[e][i]] = sess[e][sessions[e][i]]
          BY Zenon, <5>2, <5>5, <2>5, <2>6
        <5> QED BY Zenon, <5>1, <5>3, <5>6
      <4> QED BY Zenon, <4>1, <4>2
    <3>3. ASSUME NEW e \in Sides, mgrClosed[e] PROVE \A p \in Objs : sess'[e][p] # "open"
      <4>1. e # "c"
        BY Zenon, <3>3, <1>3 DEF mayAllocate
      <4>2. \A p \in Objs : sess[e][p] # "open"
        BY Zenon, <3>3, <1>0 DEF Listed
      <4> QED BY Zenon, <4>1, <4>2, <2>6
    <3>4. \A e \in Sides : mon[e] = "gone" => mgrClosed[e]
      BY Zenon, <1>0 DEF Listed
    <3> QED BY Zenon, <3>1, <3>2, <3>3, <3>4, <2>3 DEF Listed
  <2>13. Named'
    <3>1. ASSUME NEW e \in Sides, NEW i \in DOMAIN net[e] PROVE net[e][i].o # o
      BY Zenon, <3>1, <2>2, <2>4 DEF none
    <3>2. ASSUME NEW e \in Sides, NEW i \in DOMAIN net[e]
          PROVE  /\ net[e][i].t # "end" => net[e][i].o \in Objs
                 /\ net[e][i].o \in Objs => net[e][i].id = id'[net[e][i].o]
      BY Zenon, <3>1, <1>0, <2>5 DEF Named
    <3> QED BY ZenonT(40), <3>2, <2>3 DEF Named
  <2>14. Unsent'
    <3>1. ASSUME NEW p \in Objs, cp'["c"][p] \in {"none", "first"}
          PROVE  none(net["c"], p) /\ sent["c"][p] = 0 /\ sess'["s"][p] = "none"
      BY ZenonT(40), <3>1, <1>0, <2>2, <2>4, <2>6, <2>8 DEF Unsent
    <3>2. ASSUME NEW p \in Objs, cp'["s"][p] = "none"
          PROVE  none(net["s"], p) /\ sent["s"][p] = 0
      BY Zenon, <3>2, <1>0, <2>4, <2>8 DEF Unsent
    <3>3. ASSUME NEW d \in Sides, NEW p \in Objs, sess'[d][p] = "none" PROVE got[d][p] = <<>>
      <4>1. sess[d][p] = "none"
        BY Zenon, <3>3, <1>1, <2>6
      <4> QED BY Zenon, <4>1, <1>0 DEF Unsent
    <3> QED BY Zenon, <3>1, <3>2, <3>3, <2>3 DEF Unsent
  <2>15. News' /\ Arrived'
    <3>1. \A p \in Objs : sess'["s"][p] = sess["s"][p]
      BY Zenon, <2>4, <2>6
    <3>2. News'
      BY Zenon, <3>1, <1>0, <2>3 DEF News
    <3> QED BY Zenon, <3>2, <1>0, <2>3 DEF Arrived
  <2>16. Lines'
    <3>1. ASSUME NEW d \in Sides, NEW p \in Objs PROVE Line(net[d], p, sent[d][p], cp'[d][p])
      BY Zenon, <1>0, <2>2, <2>8, NoFrames DEF Lines
    <3> QED BY Zenon, <3>1, <2>3 DEF Lines
  <2>17. Flows'
    <3>1. ASSUME NEW d \in Sides, NEW p \in Objs, reads(d), sess'[d][p] # "closed"
          PROVE  Flow(net[Peer(d)], p, sess'[d][p], Len(got[d][p]), sent[Peer(d)][p])
      <4>1. CASE d = "c" /\ p = o
        <5>1. Peer(d) = "s" /\ Len(got[d][p]) = 0 /\ sent["s"][p] = 0
          BY Zenon, <4>1, <2>2 DEF Peer
        <5> QED BY ZenonT(40), <4>1, <5>1, <2>2, <2>6, NoFrames
      <4>2. CASE ~(d = "c" /\ p = o)
        BY Zenon, <4>2, <3>1, <1>0, <2>6 DEF Flows
      <4> QED BY Zenon, <4>1, <4>2
    <3> QED BY Zenon, <3>1, <2>3 DEF Flows, reads
  <2>18. NewOnWay'
    <3>1. ASSUME NEW p \in Objs, reads("s"), cp'["c"][p] = "copy", sess'["s"][p] = "none"
          PROVE  hasNew(net["c"], p)
      <4>1. p # o
        BY Zenon, <3>1, <2>8
      <4> QED BY Zenon, <4>1, <3>1, <1>0, <2>4, <2>6, <2>8 DEF NewOnWay
    <3> QED BY Zenon, <3>1, <2>3 DEF NewOnWay, reads
  <2> QED BY Zenon, <2>9, <2>10, <2>11, <2>12, <2>13, <2>14, <2>15, <2>16, <2>17, <2>18 DEF IInv, RInv
<1> QED BY Zenon, <1>2, <1>3

\* A frame of session o is written: it is enough to look at that session.
LEMMA SendMoves ==
    ASSUME IInv, NEW d \in Sides, NEW o \in Objs \cup {NoObj}, NEW f \in Frames, f.o = o, Room(d), Put(d, f),
           UNCHANGED <<caller, id, sess, sessions, count, mgrClosed, got, outDead, broken, done, mon>>,
           CopyShape', LoopShape', \A e \in Sides : reads(e)' => reads(e),
           f.t = "new" => d = "c" /\ f.k <= 1 /\ sess["s"][o] = "none",
           f.t # "end" => o \in Objs,
           \A e \in Sides, p \in Objs :
               (e # d \/ p # o) => sent'[e][p] = sent[e][p] /\ cp'[e][p] = cp[e][p],
           o \in Objs =>
               /\ f.id = id[o]
               /\ sent'[d][o] >= sent[d][o] /\ cp[d][o] # "none"
               /\ cp'[d][o] \in {"copy", "close", "over"}
               /\ Line(net'[d], o, sent'[d][o], cp'[d][o])
               /\ reads(Peer(d)) /\ sess[Peer(d)][o] # "closed" =>
                     Flow(net'[d], o, sess[Peer(d)][o], Len(got[Peer(d)][o]), sent'[d][o])
               /\ reads("s") /\ d = "c" /\ cp'["c"][o] = "copy" /\ sess["s"][o] = "none" =>
                     hasNew(net'["c"], o)
    PROVE  RInv' /\ Fewer
<1>0. /\ CallShape /\ SessShape /\ CopyShape /\ GotShape /\ LinkShape /\ LoopShape /\ Opening
      /\ Counting /\ Listed /\ Named /\ Unsent /\ News /\ Lines /\ Flows /\ NewOnWay /\ Arrived
  BY Zenon DEF IInv, RInv
<1>1. LinkShape' /\ net[d] \in Seq(Frames) /\ net'[d] = Append(net[d], f) /\ net'[Peer(d)] = net[Peer(d)]
  BY Zenon, <1>0, Writes
<1>2. Named'
  BY Zenon, <1>0, WritesNamed
<1>3. "c" \in Sides /\ "s" \in Sides /\ "c" # "s" /\ \A e \in Sides : e = "c" \/ e = "s"
  BY Zenon DEF Sides
<1>4. \A p : p # o => /\ none(net[d], p) => none(net'[d], p)
                      /\ hasNew(net[d], p) <=> hasNew(net'[d], p)
                      /\ \A m, c : Line(net[d], p, m, c) => Line(net'[d], p, m, c)
                      /\ \A st, n, m : Flow(net[d], p, st, n, m) => Flow(net'[d], p, st, n, m)
  BY Zenon, <1>1, PutOther
<1>5. CallShape' /\ SessShape' /\ GotShape'
  BY Zenon, <1>0 DEF CallShape, SessShape, GotShape
<1>6. Fewer /\ Listed'
  BY Zenon, <1>0, SameBook
<1>7. \A e \in Sides, p \in Objs : (cp'[e][p] = "none") = (cp[e][p] = "none")
  <2>1. ASSUME NEW e \in Sides, NEW p \in Objs PROVE (cp'[e][p] = "none") = (cp[e][p] = "none")
    <3>1. CASE e = d /\ p = o
      <4>1. cp[d][o] # "none" /\ cp'[d][o] # "none"
        BY Zenon, <3>1
      <4> QED BY Zenon, <3>1, <4>1
    <3>2. CASE e # d \/ p # o
      BY Zenon, <3>2
    <3> QED BY Zenon, <3>1, <3>2
  <2> QED BY Zenon, <2>1
<1>8. Opening'
  BY Zenon, <1>0, <1>7 DEF Opening
<1>9. Unsent'
  <2>1. ASSUME NEW p \in Objs, cp'["c"][p] \in {"none", "first"}
        PROVE  none(net'["c"], p) /\ sent'["c"][p] = 0 /\ sess["s"][p] = "none"
    <3>1. ~(d = "c" /\ p = o)
      BY Zenon, <2>1
    <3>2. sent'["c"][p] = sent["c"][p] /\ cp'["c"][p] = cp["c"][p]
      BY Zenon, <1>3, <3>1
    <3>3. none(net["c"], p) /\ sent["c"][p] = 0 /\ sess["s"][p] = "none"
      BY Zenon, <1>0, <2>1, <3>2 DEF Unsent
    <3>4. none(net'["c"], p)
      <4>1. CASE d = "c"
        BY Zenon, <1>4, <3>1, <3>3, <4>1
      <4>2. CASE d = "s"
        <5>1. Peer(d) = "c"
          BY Zenon, <4>2 DEF Peer
        <5> QED BY Zenon, <1>1, <3>3, <5>1
      <4> QED BY Zenon, <1>3, <4>1, <4>2
    <3> QED BY Zenon, <3>2, <3>3, <3>4
  <2>2. ASSUME NEW p \in Objs, cp'["s"][p] = "none"
        PROVE  none(net'["s"], p) /\ sent'["s"][p] = 0
    <3>1. ~(d = "s" /\ p = o)
      BY Zenon, <2>2
    <3>2. sent'["s"][p] = sent["s"][p] /\ cp'["s"][p] = cp["s"][p]
      BY Zenon, <1>3, <3>1
    <3>3. none(net["s"], p) /\ sent["s"][p] = 0
      BY Zenon, <1>0, <2>2, <3>2 DEF Unsent
    <3>4. none(net'["s"], p)
      <4>1. CASE d = "s"
        BY Zenon, <1>4, <3>1, <3>3, <4>1
      <4>2. CASE d = "c"
        <5>1. Peer(d) = "s"
          BY Zenon, <4>2 DEF Peer
        <5> QED BY Zenon, <1>1, <3>3, <5>1
      <4> QED BY Zenon, <1>3, <4>1, <4>2
    <3> QED BY Zenon, <3>2, <3>3, <3>4
  <2>3. \A e \in Sides, p \in Objs : sess[e][p] = "none" => got[e][p] = <<>>
    BY Zenon, <1>0 DEF Unsent
  <2> QED BY Zenon, <2>1, <2>2, <2>3 DEF Unsent
<1>10. News'
  <2> DEFINE q == net[d]
             r == net'[d]
  <2>1. \A i \in DOMAIN r : (i \in DOMAIN q /\ r[i] = q[i]) \/ r[i] = f
    BY <1>1, Appended
  <2>2. \A e \in Sides : e = d \/ net'[e] = net[e]
    BY Zenon, <1>1, TwoSides
  <2> HIDE DEF q, r
  <2>3. ASSUME NEW i \in DOMAIN net'["s"] PROVE net'["s"][i].t # "new"
    <3>1. CASE d = "s"
      BY ZenonT(40), <2>1, <2>3, <3>1, <1>0, <1>3 DEF News, q, r
    <3>2. CASE d # "s"
      <4>1. net'["s"] = net["s"]
        BY Zenon, <2>2, <3>2, <1>3
      <4> QED BY Zenon, <2>3, <4>1, <1>0 DEF News
    <3> QED BY Zenon, <3>1, <3>2
  <2>4. ASSUME NEW i \in DOMAIN net'["c"], net'["c"][i].t = "new" PROVE net'["c"][i].k <= 1
    <3>1. CASE d = "c"
      BY Zenon, <2>1, <2>4, <3>1, <1>0, <1>3 DEF News, q, r
    <3>2. CASE d # "c"
      BY Zenon, <2>2, <2>4, <3>2, <1>0, <1>3 DEF News
    <3> QED BY Zenon, <3>1, <3>2
  <2>5. ASSUME NEW p \in Objs, hasNew(net'["c"], p) PROVE sess["s"][p] = "none"
    <3>1. CASE d = "c" /\ p = o /\ f.t = "new"
      BY Zenon, <3>1
    <3>2. CASE d = "c" /\ p = o /\ f.t # "new"
      <4>1. hasNew(net["c"], p)
        BY ZenonT(40), <2>1, <2>5, <3>2 DEF hasNew, q, r
      <4> QED BY Zenon, <4>1, <1>0 DEF News
    <3>3. CASE d = "c" /\ p # o
      BY Zenon, <1>0, <1>4, <2>5, <3>3 DEF News
    <3>4. CASE d # "c"
      BY Zenon, <1>0, <1>3, <2>2, <2>5, <3>4 DEF News
    <3> QED BY Zenon, <3>1, <3>2, <3>3, <3>4
  <2> QED BY Zenon, <2>3, <2>4, <2>5 DEF News
<1>11. Lines'
  <2>1. ASSUME NEW e \in Sides, NEW p \in Objs PROVE Line(net'[e], p, sent'[e][p], cp'[e][p])
    <3>1. CASE e = d /\ p = o
      BY Zenon, <3>1
    <3>2. CASE e = d /\ p # o
      BY Zenon, <3>2, <1>0, <1>4 DEF Lines
    <3>3. CASE e # d
      BY Zenon, <3>3, <1>0, <1>1, TwoSides DEF Lines
    <3> QED BY Zenon, <3>1, <3>2, <3>3
  <2> QED BY Zenon, <2>1 DEF Lines
<1>12. Flows'
  <2>1. ASSUME NEW e \in Sides, NEW p \in Objs, reads(e)', sess[e][p] # "closed"
        PROVE  Flow(net'[Peer(e)], p, sess[e][p], Len(got[e][p]), sent'[Peer(e)][p])
    <3>1. reads(e) /\ Flow(net[Peer(e)], p, sess[e][p], Len(got[e][p]), sent[Peer(e)][p])
      BY Zenon, <2>1, <1>0 DEF Flows
    <3>2. CASE e = d
      <4>1. net'[Peer(e)] = net[Peer(e)] /\ sent'[Peer(e)][p] = sent[Peer(e)][p]
        BY Zenon, <3>2, <1>1, Peers
      <4> QED BY Zenon, <3>1, <4>1
    <3>3. CASE e = Peer(d)
      <4>1. Peer(e) = d
        BY Zenon, <3>3, Peers
      <4>2. CASE p = o
        BY Zenon, <2>1, <3>1, <3>3, <4>1, <4>2
      <4>3. CASE p # o
        BY Zenon, <1>4, <3>1, <4>1, <4>3
      <4> QED BY Zenon, <4>2, <4>3
    <3> QED BY Zenon, <3>2, <3>3, TwoSides
  <2> QED BY Zenon, <2>1 DEF Flows
<1>13. NewOnWay'
  <2>1. ASSUME NEW p \in Objs, reads("s")', cp'["c"][p] = "copy", sess["s"][p] = "none"
        PROVE  hasNew(net'["c"], p)
    <3>1. CASE d = "c" /\ p = o
      BY Zenon, <2>1, <1>3, <3>1
    <3>2. CASE d = "c" /\ p # o
      BY Zenon, <2>1, <1>0, <1>3, <1>4, <3>2 DEF NewOnWay
    <3>3. CASE d = "s"
      <4>1. Peer(d) = "c" /\ cp'["c"][p] = cp["c"][p]
        BY Zenon, <1>3, <3>3 DEF Peer
      <4> QED BY Zenon, <2>1, <1>0, <1>1, <1>3, <4>1 DEF NewOnWay
    <3> QED BY Zenon, <1>3, <3>1, <3>2, <3>3
  <2> QED BY Zenon, <2>1 DEF NewOnWay
<1>14. Arrived'
  <2>1. ASSUME NEW e \in Sides, NEW p \in Objs
        PROVE  \E n \in 0 .. sent'[Peer(e)][p] : got[e][p] = Chunks(p, n)
    <3>1. PICK n \in 0 .. sent[Peer(e)][p] : got[e][p] = Chunks(p, n)
      BY Zenon, <1>0 DEF Arrived
    <3>2. sent'[Peer(e)][p] >= sent[Peer(e)][p] /\ sent[Peer(e)][p] \in Nat /\ sent'[Peer(e)][p] \in Nat
      <4>1. sent[Peer(e)][p] \in Nat /\ sent'[Peer(e)][p] \in Nat
        BY Zenon, <1>0, Peers DEF CopyShape
      <4>2. Peer(e) \in Sides
        BY Zenon, Peers
      <4> QED BY SMTT(30), <4>1, <4>2
    <3>3. n \in 0 .. sent'[Peer(e)][p]
      BY <3>1, <3>2
    <3> QED BY Zenon, <3>1, <3>3
  <2> QED BY Zenon, <2>1 DEF Arrived
<1> QED BY Zenon, <1>1, <1>2, <1>5, <1>6, <1>8, <1>9, <1>10, <1>11, <1>12, <1>13, <1>14 DEF IInv, RInv

\* The goroutines that copy are at sessions that are there, and their IDs are.
LEMMA CopierHasSession ==
    ASSUME IInv, NEW d \in Sides, NEW o \in Objs, cp[d][o] # "none"
    PROVE  /\ id[o] \in IDs /\ sess[d][o] # "none" /\ sess["c"][o] # "none"
           /\ sent[d][o] \in Nat
           /\ d = "s" => cp["c"][o] \notin {"none", "first"}
<1>0. CallShape /\ CopyShape /\ Opening /\ Unsent /\ "c" \in Sides /\ "s" \in Sides
  BY Zenon DEF IInv, RInv, Sides
<1>1. sess[d][o] # "none"
  BY Zenon, <1>0 DEF Opening
<1>2. ASSUME d = "s" PROVE cp["c"][o] \notin {"none", "first"}
  BY Zenon, <1>0, <1>1, <1>2 DEF Unsent
<1>3. sess["c"][o] # "none"
  <2>1. CASE d = "s"
    <3>1. cp["c"][o] # "none"
      BY Zenon, <1>2, <2>1
    <3> QED BY Zenon, <1>0, <3>1 DEF Opening
  <2>2. CASE d = "c"
    BY Zenon, <1>1, <2>2
  <2> QED BY Zenon, <2>1, <2>2 DEF Sides
<1>4. id[o] \in IDs
  <2>1. id[o] # 0
    BY Zenon, <1>0, <1>3 DEF Opening
  <2> QED BY Zenon, <1>0, <2>1 DEF CallShape
<1>5. sent[d][o] \in Nat
  BY Zenon, <1>0 DEF CopyShape
<1> QED BY Zenon, <1>1, <1>2, <1>3, <1>4, <1>5

\* The number of chunks that have arrived.
LEMMA Count ==
    ASSUME IInv, NEW d \in Sides, NEW o \in Objs
    PROVE  /\ Len(got[d][o]) \in Nat /\ sent[Peer(d)][o] \in Nat /\ Len(got[d][o]) <= sent[Peer(d)][o]
           /\ got[d][o] = Chunks(o, Len(got[d][o]))
<1>1. sent[Peer(d)][o] \in Nat
  BY Zenon, Peers DEF IInv, RInv, CopyShape
<1>2. PICK n \in 0 .. sent[Peer(d)][o] : got[d][o] = Chunks(o, n)
  BY Zenon DEF IInv, RInv, Arrived
<1>3. Len(Chunks(o, n)) = n
  BY <1>1, ChunksGrow
<1> QED BY <1>1, <1>2, <1>3

\* The New frame.
LEMMA FirstStep == ASSUME IInv, NEW o \in Objs, First(o) PROVE RInv' /\ Fewer
<1>0. CallShape /\ SessShape /\ CopyShape /\ LoopShape /\ LinkShape /\ Unsent /\ "c" \in Sides
  BY Zenon DEF IInv, RInv, Sides
<1>1. PICK k \in 0 .. 1 : Put("c", Frame("new", o, k)) /\ sent' = [sent EXCEPT !["c"][o] = k]
  BY Zenon DEF First
<1> DEFINE f == Frame("new", o, k)
<1>2. /\ cp["c"][o] = "first" /\ Room("c") /\ cp' = [cp EXCEPT !["c"][o] = "copy"]
      /\ UNCHANGED <<caller, id, sess, sessions, count, mgrClosed, got, outDead, broken, rl, done, mon>>
  BY Zenon DEF First, mgrVars, monVars
<1>3. id[o] \in IDs /\ cp["c"][o] # "none"
  BY Zenon, <1>0, <1>2, CopierHasSession
<1>4. /\ f \in Frames /\ f.o = o /\ f.t = "new" /\ f.k = k /\ f.id = id[o]
  BY <1>1, <1>3 DEF Frame, Frames
<1>5. none(net["c"], o) /\ sent["c"][o] = 0 /\ sess["s"][o] = "none"
  BY Zenon, <1>0, <1>2 DEF Unsent
<1>6. /\ cp' \in [Sides -> [Objs -> {"none", "first", "copy", "close", "over"}]] /\ cp'["c"][o] = "copy"
      /\ \A e \in Sides, p \in Objs : (e # "c" \/ p # o) => cp'[e][p] = cp[e][p]
  BY Zenon, <1>0, <1>2 DEF CopyShape
<1>7. /\ sent' \in [Sides -> [Objs -> Nat]] /\ sent'["c"][o] = k
      /\ \A e \in Sides, p \in Objs : (e # "c" \/ p # o) => sent'[e][p] = sent[e][p]
  BY <1>0, <1>1 DEF CopyShape
<1>8. k >= 0 /\ k <= 1 /\ k <= MaxUp /\ MaxChunks("c") = MaxUp
  BY <1>1, MuxAssumption DEF MaxChunks
<1>9. CopyShape'
  <2>1. ASSUME NEW e \in Sides, NEW p \in Objs PROVE sent'[e][p] <= MaxChunks(e)
    <3>1. CASE e = "c" /\ p = o
      BY Zenon, <3>1, <1>7, <1>8
    <3>2. CASE e # "c" \/ p # o
      BY Zenon, <3>2, <1>0, <1>7 DEF CopyShape
    <3> QED BY Zenon, <3>1, <3>2
  <2> QED BY Zenon, <2>1, <1>6, <1>7 DEF CopyShape
<1>10. LoopShape' /\ \A e \in Sides : reads(e)' => reads(e)
  BY Zenon, <1>0, <1>2 DEF LoopShape, reads
<1> HIDE DEF f
<1>11. net[("c")] \in Seq(Frames) /\ net'["c"] = Append(net["c"], f) /\ Put("c", f)
  BY Zenon, <1>0, <1>1, <1>2, <1>4, Writes DEF f
<1>12. /\ Line(net'["c"], o, k, "copy") /\ hasNew(net'["c"], o)
       /\ \A n : Flow(net'["c"], o, "none", n, k)
  BY Zenon, <1>4, <1>5, <1>11, PutNew
<1>13. Peer("c") = "s"
  BY Zenon DEF Peer
<1>14. sent'["c"][o] >= sent["c"][o]
  BY Zenon, <1>5, <1>7, <1>8
<1>15. /\ f.t = "new" => "c" = "c" /\ f.k <= 1 /\ sess["s"][o] = "none"
       /\ f.t # "end" => o \in Objs
       /\ o \in Objs \cup {NoObj}
  BY Zenon, <1>4, <1>5, <1>8
<1>16. \A e \in Sides, p \in Objs :
          (e # "c" \/ p # o) => sent'[e][p] = sent[e][p] /\ cp'[e][p] = cp[e][p]
  BY Zenon, <1>6, <1>7
<1>17. /\ f.id = id[o]
       /\ sent'["c"][o] >= sent["c"][o] /\ cp["c"][o] # "none"
       /\ cp'["c"][o] \in {"copy", "close", "over"}
       /\ Line(net'["c"], o, sent'["c"][o], cp'["c"][o])
       /\ Flow(net'["c"], o, sess[Peer("c")][o], Len(got[Peer("c")][o]), sent'["c"][o])
       /\ hasNew(net'["c"], o)
  BY Zenon, <1>3, <1>4, <1>5, <1>6, <1>7, <1>12, <1>13, <1>14
<1> QED BY Zenon, <1>0, <1>2, <1>4, <1>9, <1>10, <1>11, <1>15, <1>16, <1>17, SendMoves

\* The next chunk.
LEMMA CopyStepKeeps == ASSUME IInv, NEW d \in Sides, NEW o \in Objs, Copy(d, o) PROVE RInv' /\ Fewer
<1> DEFINE m == sent[d][o]
           f == Frame("keep", o, m + 1)
           e == Peer(d)
           n == Len(got[e][o])
<1>0. CallShape /\ SessShape /\ CopyShape /\ LoopShape /\ LinkShape /\ Lines /\ Flows /\ NewOnWay
  BY Zenon DEF IInv, RInv
<1>1. /\ cp[d][o] = "copy" /\ m < MaxChunks(d) /\ Room(d) /\ Put(d, f) /\ cp' = cp
      /\ sent' = [sent EXCEPT ![d][o] = @ + 1]
      /\ UNCHANGED <<caller, id, sess, sessions, count, mgrClosed, got, outDead, broken, rl, done, mon>>
  BY Zenon DEF Copy, mgrVars, monVars
<1>2. /\ id[o] \in IDs /\ cp[d][o] # "none" /\ sess["c"][o] # "none" /\ m \in Nat
      /\ d = "s" => cp["c"][o] \notin {"none", "first"}
  BY Zenon, <1>1, CopierHasSession
<1>3. f \in Frames /\ f.o = o /\ f.t = "keep" /\ f.k = m + 1 /\ f.id = id[o]
  BY <1>2 DEF Frame, Frames
<1>4. /\ e \in Sides /\ Peer(e) = d /\ n \in Nat /\ n <= m
  BY Zenon, Peers, Count
<1>5. /\ sent' \in [Sides -> [Objs -> Nat]] /\ sent'[d][o] = m + 1
      /\ \A g \in Sides, p \in Objs : (g # d \/ p # o) => sent'[g][p] = sent[g][p]
  BY <1>0, <1>1 DEF CopyShape
<1>6. CopyShape'
  <2>1. m + 1 <= MaxChunks(d)
    <3>1. MaxChunks(d) \in Nat
      BY Zenon, MuxAssumption DEF MaxChunks
    <3> QED BY <1>1, <1>2, <3>1
  <2>2. ASSUME NEW g \in Sides, NEW p \in Objs PROVE sent'[g][p] <= MaxChunks(g)
    <3>1. CASE g = d /\ p = o
      BY Zenon, <3>1, <1>5, <2>1
    <3>2. CASE g # d \/ p # o
      BY Zenon, <3>2, <1>0, <1>5 DEF CopyShape
    <3> QED BY Zenon, <3>1, <3>2
  <2> QED BY Zenon, <2>2, <1>0, <1>1, <1>5 DEF CopyShape
<1>7. LoopShape' /\ \A g \in Sides : reads(g)' => reads(g)
  BY Zenon, <1>0, <1>1 DEF LoopShape, reads
<1> HIDE DEF f, n, m
<1>8. net[d] \in Seq(Frames) /\ net'[d] = Append(net[d], f)
  BY Zenon, <1>0, <1>1, <1>3, Writes
<1>9. Line(net[d], o, m, "copy")
  BY Zenon, <1>0, <1>1 DEF Lines, m
<1>10. /\ Line(net'[d], o, m + 1, "copy") /\ (hasNew(net[d], o) <=> hasNew(net'[d], o))
       /\ \A st : Flow(net[d], o, st, n, m) /\ n <= m /\ (st = "open" \/ (st = "none" /\ hasNew(net[d], o)))
                     => Flow(net'[d], o, st, n, m + 1)
  BY Zenon, <1>2, <1>3, <1>4, <1>8, <1>9, PutKeep
<1>11. ASSUME reads(e), sess[e][o] # "closed" PROVE Flow(net'[d], o, sess[e][o], n, m + 1)
  <2>1. Flow(net[d], o, sess[e][o], n, m)
    BY Zenon, <1>0, <1>4, <1>11 DEF Flows, n, m
  <2>2. sess[e][o] \in {"none", "open", "closed"}
    BY Zenon, <1>0, <1>4 DEF SessShape
  <2>3. ASSUME sess[e][o] = "none" PROVE hasNew(net[d], o)
    <3>1. d = "c" /\ e = "s"
      BY Zenon, <1>2, <2>3 DEF Sides, Peer
    <3> QED BY Zenon, <1>0, <1>1, <1>11, <2>3, <3>1 DEF NewOnWay
  <2> QED BY Zenon, <1>4, <1>10, <1>11, <2>1, <2>2, <2>3
<1>12. ASSUME reads("s"), d = "c", sess["s"][o] = "none" PROVE hasNew(net'["c"], o)
  BY Zenon, <1>0, <1>1, <1>10, <1>12 DEF NewOnWay
<1>13. sent'[d][o] >= sent[d][o]
  BY <1>2, <1>5 DEF m
<1>14. o \in Objs \cup {NoObj} /\ f.t # "new"
  BY Zenon, <1>3
<1>15. \A g \in Sides, p \in Objs :
          (g # d \/ p # o) => sent'[g][p] = sent[g][p] /\ cp'[g][p] = cp[g][p]
  BY Zenon, <1>1, <1>5
<1>16. /\ f.id = id[o] /\ cp'[d][o] \in {"copy", "close", "over"}
       /\ Line(net'[d], o, sent'[d][o], cp'[d][o])
       /\ reads(e) /\ sess[e][o] # "closed" =>
             Flow(net'[d], o, sess[e][o], Len(got[e][o]), sent'[d][o])
       /\ reads("s") /\ d = "c" /\ cp'["c"][o] = "copy" /\ sess["s"][o] = "none" =>
             hasNew(net'["c"], o)
  BY Zenon, <1>1, <1>3, <1>5, <1>10, <1>11, <1>12 DEF n
<1> QED BY Zenon, <1>1, <1>2, <1>3, <1>6, <1>7, <1>13, <1>14, <1>15, <1>16, SendMoves

\* The End frame, unless the carrier is broken.
LEMMA WriteEndStep == ASSUME IInv, NEW d \in Sides, NEW o \in Objs, WriteEnd(d, o) PROVE RInv' /\ Fewer
<1> DEFINE m == sent[d][o]
           f == Frame("end", o, m)
           e == Peer(d)
<1>0. /\ CallShape /\ SessShape /\ CopyShape /\ GotShape /\ LinkShape /\ LoopShape /\ Opening
      /\ Counting /\ Listed /\ Named /\ Unsent /\ News /\ Lines /\ Flows /\ NewOnWay /\ Arrived
  BY Zenon DEF IInv, RInv
<1>1. /\ cp[d][o] \in {"first", "copy"} /\ cp' = [cp EXCEPT ![d][o] = "close"]
      /\ UNCHANGED <<caller, id, sess, sessions, count, mgrClosed, sent, got, outDead, broken, rl, done, mon>>
  BY Zenon DEF WriteEnd, mgrVars, monVars
<1>2. /\ cp' \in [Sides -> [Objs -> {"none", "first", "copy", "close", "over"}]] /\ cp'[d][o] = "close"
      /\ \A g \in Sides, p \in Objs : (g # d \/ p # o) => cp'[g][p] = cp[g][p]
  BY Zenon, <1>0, <1>1 DEF CopyShape
<1>3. CopyShape' /\ LoopShape' /\ \A g \in Sides : reads(g)' => reads(g)
  BY Zenon, <1>0, <1>1, <1>2 DEF CopyShape, LoopShape, reads
<1>4. cp[d][o] # "none"
  BY Zenon, <1>1
<1>5. id[o] \in IDs /\ m \in Nat
  BY Zenon, <1>4, CopierHasSession
<1>6. Line(net[d], o, m, cp[d][o])
  BY Zenon, <1>0 DEF Lines
<1>7. CASE ~broken
  <2>1. Room(d) /\ Put(d, f)
    BY Zenon, <1>7 DEF WriteEnd, mustEnd
  <2>2. f \in Frames /\ f.o = o /\ f.t = "end" /\ f.k = m /\ f.id = id[o]
    BY Zenon, <1>5 DEF Frame, Frames
  <2> HIDE DEF f, m
  <2>3. net[d] \in Seq(Frames) /\ net'[d] = Append(net[d], f)
    BY Zenon, <1>0, <1>1, <2>1, <2>2, Writes
  <2>4. /\ Line(net'[d], o, m, "close") /\ (hasNew(net[d], o) <=> hasNew(net'[d], o))
        /\ \A st, n : Flow(net[d], o, st, n, m) => Flow(net'[d], o, st, n, m)
    <3>1. cp[d][o] \notin {"close", "over"}
      BY Zenon, <1>1
    <3>2. m \in Nat /\ Line(net[d], o, m, cp[d][o])
      BY Zenon, <1>5, <1>6
    <3> QED BY Zenon, <2>2, <2>3, <3>1, <3>2, PutEnd
  <2>5. sent'[d][o] >= sent[d][o] /\ sent'[d][o] = m
    BY <1>1, <1>5 DEF m
  <2>6. o \in Objs \cup {NoObj} /\ f.t # "new" /\ (f.t # "end" => o \in Objs) /\ "close" # "copy"
    BY Zenon, <2>2
  <2>7. \A g \in Sides, p \in Objs :
            (g # d \/ p # o) => sent'[g][p] = sent[g][p] /\ cp'[g][p] = cp[g][p]
    BY Zenon, <1>1, <1>2
  <2>8. /\ f.id = id[o] /\ cp'[d][o] \in {"copy", "close", "over"}
        /\ Line(net'[d], o, sent'[d][o], cp'[d][o])
        /\ reads(e) /\ sess[e][o] # "closed" =>
              Flow(net'[d], o, sess[e][o], Len(got[e][o]), sent'[d][o])
        /\ reads("s") /\ d = "c" /\ cp'["c"][o] = "copy" /\ sess["s"][o] = "none" =>
              hasNew(net'["c"], o)
    <3>1. ASSUME reads(e), sess[e][o] # "closed" PROVE Flow(net[d], o, sess[e][o], Len(got[e][o]), m)
      <4>1. e \in Sides /\ Peer(e) = d
        BY Zenon, Peers
      <4> QED BY Zenon, <3>1, <4>1, <1>0 DEF Flows, m
    <3> QED BY Zenon, <3>1, <1>2, <2>2, <2>4, <2>5, <2>6
  <2> QED BY Zenon, <1>1, <1>3, <1>4, <2>1, <2>2, <2>5, <2>6, <2>7, <2>8, SendMoves
<1>8. CASE broken
  <2>1. net' = net
    BY Zenon, <1>8 DEF WriteEnd, mustEnd
  <2>2. CallShape' /\ SessShape' /\ GotShape' /\ LinkShape'
    BY Zenon, <1>0, <1>1, <2>1 DEF CallShape, SessShape, GotShape, LinkShape
  <2>3. Fewer /\ Listed'
    <3>1. /\ sess' = sess /\ id' = id /\ sessions' = sessions
          /\ mgrClosed' = mgrClosed /\ mon' = mon /\ count' = count
      BY Zenon, <1>1
    <3> QED BY Zenon, <1>0, <3>1, SameBook
  <2>4. ASSUME NEW g \in Sides, NEW p \in Objs
        PROVE  /\ (cp'[g][p] = "none") = (cp[g][p] = "none")
               /\ cp'[g][p] \in {"none", "first"} => cp[g][p] \in {"none", "first"}
               /\ cp'[g][p] = "copy" => cp[g][p] = "copy"
               /\ Line(net[g], p, sent[g][p], cp'[g][p])
    <3>1. CASE g = d /\ p = o
      <4>1. Line(net[g], p, sent[g][p], cp'[g][p])
        BY Zenon, <3>1, <1>2, <1>6, LineCloses
      <4> QED BY Zenon, <3>1, <4>1, <1>2, <1>4
    <3>2. CASE g # d \/ p # o
      BY Zenon, <3>2, <1>0, <1>2 DEF Lines
    <3> QED BY Zenon, <3>1, <3>2
  <2>5. Opening' /\ Named' /\ News'
    <3>1. Opening'
      BY ZenonT(40), <1>0, <1>1, <2>4 DEF Opening
    <3>2. Named' /\ News'
      BY Zenon, <1>0, <1>1, <2>1 DEF Named, News
    <3> QED BY Zenon, <3>1, <3>2
  <2>6. Unsent'
    <3>1. "c" \in Sides /\ "s" \in Sides
      BY Zenon DEF Sides
    <3> QED BY Zenon, <1>0, <1>1, <2>1, <2>4, <3>1 DEF Unsent
  <2>7. Lines'
    BY Zenon, <1>1, <2>1, <2>4 DEF Lines
  <2>8. Flows' /\ Arrived'
    BY Zenon, <1>0, <1>1, <2>1 DEF Flows, Arrived, reads
  <2>9. NewOnWay'
    <3>1. "c" \in Sides
      BY Zenon DEF Sides
    <3> QED BY Zenon, <1>0, <1>1, <2>1, <2>4, <3>1 DEF NewOnWay, reads
  <2> QED BY Zenon, <1>3, <2>2, <2>3, <2>5, <2>6, <2>7, <2>8, <2>9 DEF IInv, RInv
<1> QED BY Zenon, <1>7, <1>8

\* The End frame for a session that this side does not know is of no session.
LEMMA ReplyStep == ASSUME IInv, NEW d \in Sides, Reply(d) PROVE RInv' /\ Fewer
<1> DEFINE f == [t |-> "end", id |-> rl[d].id, o |-> NoObj, k |-> 0]
<1>0. /\ CallShape /\ SessShape /\ CopyShape /\ GotShape /\ LinkShape /\ LoopShape /\ Opening
      /\ Counting /\ Listed /\ Named /\ Unsent /\ News /\ Lines /\ Flows /\ NewOnWay /\ Arrived
  BY Zenon DEF IInv, RInv
<1>1. /\ rl[d].pc = "reply" /\ rl' = [rl EXCEPT ![d] = Reading]
      /\ UNCHANGED <<caller, id, sess, sessions, count, mgrClosed, cp, sent, got, outDead, broken, done, mon>>
  BY Zenon DEF Reply, mgrVars, copyVars, monVars
<1>2. LoopShape' /\ \A e \in Sides : rl'[e].pc # "down" => rl[e].pc # "down"
  <2>1. rl' \in [Sides -> [pc : {"read", "reply", "down"}, id : IDs \cup {0}]]
        /\ rl'[d] = Reading /\ Reading.pc = "read" /\ \A e \in Sides : e # d => rl'[e] = rl[e]
    BY Zenon, <1>0, <1>1 DEF LoopShape, Reading
  <2>2. \A e \in Sides : rl'[e].pc = "reply" => rl'[e].id \in IDs
    <3>1. \A e \in Sides : rl[e].pc = "reply" => rl[e].id \in IDs
      BY Zenon, <1>0 DEF LoopShape
    <3> QED BY Zenon, <2>1, <3>1
  <2>3. \A e \in Sides : rl'[e].pc # "down" => rl[e].pc # "down"
    BY Zenon, <1>1, <2>1
  <2> QED BY Zenon, <1>0, <1>1, <2>1, <2>2, <2>3 DEF LoopShape
<1>3. \A e \in Sides : reads(e)' => reads(e)
  BY Zenon, <1>1, <1>2 DEF reads
<1>4. CASE ~broken
  <2>1. Room(d) /\ Put(d, f)
    BY Zenon, <1>4 DEF Reply
  <2>2. f \in Frames /\ f.o = NoObj /\ f.t = "end"
    <3>1. rl[d].id \in IDs
      BY Zenon, <1>0, <1>1 DEF LoopShape
    <3> QED BY Zenon, <3>1 DEF Frames
  <2>3. CopyShape'
    BY Zenon, <1>0, <1>1 DEF CopyShape
  <2>4. NoObj \notin Objs /\ NoObj \in Objs \cup {NoObj} /\ f.t # "new"
    BY Zenon, <2>2, MuxAssumption
  <2>5. \A e \in Sides, p \in Objs : sent'[e][p] = sent[e][p] /\ cp'[e][p] = cp[e][p]
    BY Zenon, <1>1
  <2> HIDE DEF f
  <2> QED BY Zenon, <1>1, <1>2, <1>3, <2>1, <2>2, <2>3, <2>4, <2>5, SendMoves
<1>5. CASE broken
  <2>1. net' = net
    BY Zenon, <1>5 DEF Reply
  <2>2. CallShape' /\ SessShape' /\ CopyShape' /\ GotShape' /\ LinkShape'
    BY Zenon, <1>0, <1>1, <2>1 DEF CallShape, SessShape, CopyShape, GotShape, LinkShape
  <2>3. Fewer /\ Listed' /\ Opening'
    <3>1. /\ sess' = sess /\ id' = id /\ sessions' = sessions /\ mgrClosed' = mgrClosed /\ mon' = mon
          /\ count' = count /\ caller' = caller /\ cp' = cp
      BY Zenon, <1>1
    <3>2. Opening'
      BY Zenon, <1>0, <3>1 DEF Opening
    <3> QED BY Zenon, <1>0, <3>1, <3>2, SameBook
  <2>4. Named' /\ Unsent' /\ News' /\ Lines' /\ Arrived'
    BY Zenon, <1>0, <1>1, <2>1 DEF Named, Unsent, News, Lines, Arrived
  <2>5. Flows'
    BY Zenon, <1>0, <1>1, <1>3, <2>1 DEF Flows
  <2>6. NewOnWay'
    <3>1. "s" \in Sides
      BY Zenon DEF Sides
    <3> QED BY Zenon, <1>0, <1>1, <1>3, <2>1, <3>1 DEF NewOnWay
  <2> QED BY Zenon, <1>2, <2>2, <2>3, <2>4, <2>5, <2>6 DEF IInv, RInv
<1> QED BY Zenon, <1>4, <1>5

\* What else the invariant says when sessions close or data arrives.
LEMMA OpeningSame ==
    ASSUME Opening, UNCHANGED <<caller, id, cp>>,
           \A e \in Sides, o \in Objs : (sess'[e][o] = "none") = (sess[e][o] = "none")
    PROVE  Opening'
<1>1. "c" \in Sides
  BY Zenon DEF Sides
<1>2. \A o \in Objs : /\ (caller'[o] = "ok") = (sess'["c"][o] # "none")
                      /\ (id'[o] # 0) = (sess'["c"][o] # "none")
  BY Zenon, <1>1 DEF Opening
<1>3. \A e \in Sides, o \in Objs : (cp'[e][o] = "none") = (sess'[e][o] = "none")
  BY Zenon DEF Opening
<1> QED BY Zenon, <1>2, <1>3 DEF Opening

\* Nothing has arrived for a call that has no session yet.
LEMMA NothingArrived ==
    ASSUME Unsent, NEW d \in Sides, NEW o \in Objs, sess[d][o] = "none"
    PROVE  got[d][o] = <<>>
BY Zenon DEF Unsent

\* A step that delivers at one side: it is enough to look at that side.
LEMMA ArrivedAt ==
    ASSUME Arrived, NEW d \in Sides, sent' = sent,
           \A o \in Objs : \E n \in 0 .. sent[Peer(d)][o] : got'[d][o] = Chunks(o, n),
           \A e \in Sides, o \in Objs : e # d => got'[e][o] = got[e][o]
    PROVE  Arrived'
<1>1. ASSUME NEW e \in Sides, NEW o \in Objs
      PROVE  \E n \in 0 .. sent[Peer(e)][o] : got'[e][o] = Chunks(o, n)
  <2>1. CASE e = d
    BY Zenon, <2>1
  <2>2. CASE e # d
    BY ZenonT(40), <2>2 DEF Arrived
  <2> QED BY Zenon, <2>1, <2>2
<1> QED BY Zenon, <1>1 DEF Arrived

\* The same for the frames that are on the way to one side.
LEMMA FlowsAt ==
    ASSUME Flows, NEW d \in Sides, sent' = sent, net'[d] = net[d], reads(Peer(d))' => reads(Peer(d)),
           \A o \in Objs : sess'[Peer(d)][o] = sess[Peer(d)][o],
           \A o \in Objs : got'[Peer(d)][o] = got[Peer(d)][o],
           \A o \in Objs : reads(d)' /\ sess'[d][o] # "closed" =>
               Flow(net'[Peer(d)], o, sess'[d][o], Len(got'[d][o]), sent[Peer(d)][o])
    PROVE  Flows'
<1>1. ASSUME NEW e \in Sides, NEW o \in Objs, reads(e)', sess'[e][o] # "closed"
      PROVE  Flow(net'[Peer(e)], o, sess'[e][o], Len(got'[e][o]), sent[Peer(e)][o])
  <2>1. CASE e = d
    BY Zenon, <1>1, <2>1
  <2>2. CASE e = Peer(d)
    <3>1. Peer(e) = d
      BY Zenon, <2>2, Peers
    <3>2. sess'[e][o] = sess[e][o] /\ got'[e][o] = got[e][o] /\ reads(e)
      BY Zenon, <1>1, <2>2
    <3>3. Flow(net[Peer(e)], o, sess[e][o], Len(got[e][o]), sent[Peer(e)][o])
      BY Zenon, <1>1, <3>2 DEF Flows
    <3> QED BY Zenon, <3>1, <3>2, <3>3
  <2> QED BY Zenon, <2>1, <2>2, TwoSides
<1> QED BY Zenon, <1>1 DEF Flows

\* A side reads a frame and adds no session: it is enough to look at the sessions of that side.
LEMMA TakeMoves ==
    ASSUME IInv, NEW d \in Sides, NEW t, Takes(d, t),
           UNCHANGED <<caller, id, count, mgrClosed, cp, sent, outDead, broken, mon>>,
           SessShape', GotShape', LoopShape', Fewer, Listed',
           \A e \in Sides : reads(e)' => reads(e), t = "new" => d = "s" /\ ~reads("s")',
           \A e \in Sides, o \in Objs :
               sess'[e][o] = sess[e][o] \/ (sess[e][o] = "open" /\ sess'[e][o] = "closed"),
           \A e \in Sides, o \in Objs : got'[e][o] = got[e][o] \/ (e = d /\ sess[e][o] = "open"),
           Flows', Arrived'
    PROVE  RInv' /\ Fewer
<1>0. /\ CallShape /\ SessShape /\ CopyShape /\ GotShape /\ LinkShape /\ LoopShape /\ Opening
      /\ Counting /\ Listed /\ Named /\ Unsent /\ News /\ Lines /\ Flows /\ NewOnWay /\ Arrived
  BY Zenon DEF IInv, RInv
<1>1. LinkShape' /\ Named' /\ net'[d] = net[d]
  BY Zenon, <1>0, Reads
<1>2. /\ Lines'
      /\ \A e \in Sides, o \in Objs : none(net[e], o) => none(net'[e], o)
      /\ \A e \in Sides, o \in Objs : hasNew(net'[e], o) => hasNew(net[e], o)
      /\ \A e \in Sides, o \in Objs : hasNew(net[e], o) /\ t # "new" => hasNew(net'[e], o)
      /\ \A i \in DOMAIN net'["s"] : net'["s"][i].t # "new"
      /\ \A i \in DOMAIN net'["c"] : net'["c"][i].t = "new" => net'["c"][i].k <= 1
  BY Zenon, <1>0, ReadsLines
<1>3. "c" \in Sides /\ "s" \in Sides
  BY Zenon DEF Sides
<1>4. \A e \in Sides, o \in Objs : (sess'[e][o] = "none") = (sess[e][o] = "none")
  <2>1. "open" # "none" /\ "closed" # "none"
    BY Zenon
  <2> QED BY Zenon, <2>1
<1>5. CallShape' /\ CopyShape'
  BY Zenon, <1>0 DEF CallShape, CopyShape
<1>6. Opening'
  BY Zenon, <1>0, <1>4, OpeningSame
<1>7. Unsent'
  <2>1. ASSUME NEW o \in Objs, cp["c"][o] \in {"none", "first"}
        PROVE  none(net'["c"], o) /\ sent["c"][o] = 0 /\ sess'["s"][o] = "none"
    BY ZenonT(40), <2>1, <1>0, <1>2, <1>3, <1>4 DEF Unsent
  <2>2. ASSUME NEW o \in Objs, cp["s"][o] = "none" PROVE none(net'["s"], o) /\ sent["s"][o] = 0
    BY Zenon, <2>2, <1>0, <1>2, <1>3 DEF Unsent
  <2>3. ASSUME NEW e \in Sides, NEW o \in Objs, sess'[e][o] = "none" PROVE got'[e][o] = <<>>
    <3>1. sess[e][o] = "none" /\ "none" # "open"
      BY Zenon, <2>3, <1>4
    <3>2. got'[e][o] = got[e][o]
      BY Zenon, <3>1
    <3>3. got[e][o] = <<>>
      BY Zenon, <3>1, <1>0, NothingArrived
    <3> QED BY Zenon, <3>2, <3>3
  <2> QED BY Zenon, <2>1, <2>2, <2>3 DEF Unsent
<1>8. News'
  <2>1. \A o \in Objs : hasNew(net'["c"], o) => sess'["s"][o] = "none"
    BY Zenon, <1>0, <1>2, <1>3, <1>4 DEF News
  <2> QED BY Zenon, <1>2, <2>1 DEF News
<1>10. NewOnWay'
  <2>1. ASSUME NEW o \in Objs, reads("s")', cp["c"][o] = "copy", sess'["s"][o] = "none"
        PROVE  hasNew(net'["c"], o)
    <3>1. hasNew(net["c"], o) /\ t # "new"
      BY Zenon, <1>0, <1>3, <1>4, <2>1 DEF NewOnWay
    <3> QED BY Zenon, <3>1, <1>2, <1>3
  <2> QED BY Zenon, <2>1 DEF NewOnWay
<1> QED BY Zenon, <1>1, <1>2, <1>5, <1>6, <1>7, <1>8, <1>10 DEF IInv, RInv

\* The read loop leaves.
LEMMA LoopLeaves ==
    ASSUME LoopShape, NEW d \in Sides, rl' = [rl EXCEPT ![d].pc = "down"],
           done' = [done EXCEPT ![d] = TRUE], UNCHANGED <<mon, outDead>>
    PROVE  /\ LoopShape' /\ ~reads(d)' /\ \A e \in Sides : reads(e)' => reads(e)
<1>1. /\ rl' \in [Sides -> [pc : {"read", "reply", "down"}, id : IDs \cup {0}]]
      /\ rl'[d].pc = "down" /\ \A e \in Sides : e # d => rl'[e] = rl[e]
  BY ZenonT(40) DEF LoopShape
<1>2. \A e \in Sides : rl'[e].pc = "reply" => rl'[e].id \in IDs
  <2>1. \A e \in Sides : rl[e].pc = "reply" => rl[e].id \in IDs
    BY Zenon DEF LoopShape
  <2> QED BY Zenon, <1>1, <2>1
<1>3. done' \in [Sides -> BOOLEAN]
  BY Zenon DEF LoopShape
<1>4. LoopShape'
  BY Zenon, <1>1, <1>2, <1>3 DEF LoopShape
<1> QED BY Zenon, <1>1, <1>4 DEF reads

\* A New frame on a closed manager, or whose dispatch fails, ends the carrier.
LEMMA NewEndsLoop ==
    ASSUME IInv, Takes("s", "new"), rl' = [rl EXCEPT !["s"].pc = "down"],
           done' = [done EXCEPT !["s"] = TRUE],
           UNCHANGED <<caller, id, sess, sessions, count, mgrClosed, cp, sent, got, outDead, broken, mon>>
    PROVE  RInv' /\ Fewer
<1>0. /\ SessShape /\ GotShape /\ LoopShape /\ LinkShape /\ Counting /\ Listed /\ Named
      /\ Flows /\ Arrived /\ "s" \in Sides
  BY Zenon DEF IInv, RInv, Sides
<1>1. LoopShape' /\ ~reads("s")' /\ \A e \in Sides : reads(e)' => reads(e)
  BY Zenon, <1>0, LoopLeaves
<1>2. SessShape' /\ GotShape'
  BY Zenon, <1>0 DEF SessShape, GotShape
<1>3. Fewer /\ Listed'
  BY Zenon, <1>0, SameBook
<1>4. Arrived'
  BY Zenon, <1>0 DEF Arrived
<1>5. Flows'
  <2>1. net'["s"] = net["s"]
    BY Zenon, <1>0, Reads
  <2> QED BY Zenon, <1>0, <1>1, <2>1, Peers, FlowsAt
<1> QED BY Zenon, <1>0, <1>1, <1>2, <1>3, <1>4, <1>5, TakeMoves

\* handleStatusNew fails: the server leaves its read loop with the frame read.
LEMMA RecvNewFailsStep == ASSUME IInv, RecvNewFails PROVE RInv' /\ Fewer
BY Zenon, NewEndsLoop DEF RecvNewFails, mgrVars, copyVars, monVars

\* A New frame: the server adds the session, with the data that came along.
LEMMA RecvNewStep ==
    ASSUME IInv, RecvNew
    PROVE  RInv' /\ (Fewer \/ (id' = id /\ \E o \in Objs : Adds("s", o)))
<1> DEFINE q == net["c"]
           f == Head(q)
           o == f.o
           m == sent["c"][o]
<1>0. /\ CallShape /\ SessShape /\ CopyShape /\ GotShape /\ LinkShape /\ LoopShape /\ Opening
      /\ Counting /\ Listed /\ Named /\ Unsent /\ News /\ Lines /\ Flows /\ NewOnWay /\ Arrived
  BY Zenon DEF IInv, RInv
<1>1. "c" \in Sides /\ "s" \in Sides /\ "c" # "s" /\ Peer("s") = "c" /\ Peer("c") = "s"
      /\ \A e \in Sides : e = "c" \/ e = "s"
  BY Zenon DEF Sides, Peer
<1>2. /\ Takes("s", "new") /\ reads("s")
      /\ UNCHANGED <<caller, id, mgrClosed, sent, outDead, broken, mon>>
  <2>1. /\ Takes("s", "new") /\ UNCHANGED <<caller, id, mgrClosed, sent, outDead, broken, mon>>
    BY Zenon DEF RecvNew, monVars
  <2> QED BY Zenon, <2>1 DEF Takes, reads
<1>3. CASE mgrClosed["s"]
  <2>1. /\ rl' = [rl EXCEPT !["s"].pc = "down"] /\ done' = [done EXCEPT !["s"] = TRUE]
        /\ UNCHANGED <<sess, sessions, count, cp, got>>
    BY Zenon, <1>3 DEF RecvNew
  <2> QED BY Zenon, <1>2, <2>1, NewEndsLoop
<1>4. CASE ~mgrClosed["s"]
  <2>1. /\ count' = [count EXCEPT !["s"] = @ + 1] /\ sess' = [sess EXCEPT !["s"][o] = "open"]
        /\ sessions' = [sessions EXCEPT !["s"][f.id] = o] /\ cp' = [cp EXCEPT !["s"][o] = "copy"]
        /\ got' = [got EXCEPT !["s"][o] = firstData(f)] /\ UNCHANGED <<rl, done>>
    BY Zenon, <1>4 DEF RecvNew
  <2>2. /\ LinkShape' /\ Named' /\ q \in Seq(Frames) /\ q # <<>>
        /\ net'["c"] = Tail(q) /\ net'["s"] = net["s"]
        /\ f \in Frames /\ f.t = "new" /\ f.id \in IDs /\ f.k \in Nat /\ f.t # "end"
        /\ (f.t # "end" => o \in Objs) /\ (o \in Objs => f.id = id[o]) /\ ~none(q, o) /\ hasNew(q, o)
    <3>1. "new" # "end"
      BY Zenon
    <3>2. /\ LinkShape' /\ Named' /\ net'["s"] = net["s"]
          /\ net[Peer("s")] \in Seq(Frames) /\ net[Peer("s")] # <<>>
          /\ net'[Peer("s")] = Tail(net[Peer("s")])
      BY Zenon, <1>0, <1>1, <1>2, Reads
    <3>3. LET g == Head(net[Peer("s")]) IN
          /\ g \in Frames /\ g.t = "new" /\ g.id \in IDs /\ g.k \in Nat
          /\ g.t # "end" => g.o \in Objs
          /\ g.o \in Objs => g.id = id[g.o]
          /\ ~none(net[Peer("s")], g.o)
          /\ g.t = "new" => hasNew(net[Peer("s")], g.o)
      BY Zenon, <1>0, <1>1, <1>2, Reads
    <3> QED BY Zenon, <1>1, <3>1, <3>2, <3>3
  <2> HIDE DEF f, m, o
  <2>3. o \in Objs /\ f.id = id[o] /\ id[o] \in IDs
    BY Zenon, <2>2
  <2>4. /\ sess["s"][o] = "none" /\ cp["s"][o] = "none" /\ got["s"][o] = <<>>
        /\ none(net["s"], o) /\ cp["c"][o] \notin {"none", "first"} /\ m \in Nat
    <3>1. sess["s"][o] = "none"
      BY Zenon, <1>0, <2>2, <2>3 DEF News
    <3>2. cp["s"][o] = "none" /\ got["s"][o] = <<>>
      BY Zenon, <1>0, <1>1, <2>3, <3>1 DEF Opening, Unsent
    <3>3. none(net["s"], o) /\ cp["c"][o] \notin {"none", "first"}
      BY Zenon, <1>0, <2>2, <2>3, <3>2 DEF Unsent
    <3>4. m \in Nat
      BY Zenon, <1>0, <1>1, <2>3 DEF CopyShape, m
    <3> QED BY Zenon, <3>1, <3>2, <3>3, <3>4
  <2>5. f.k <= 1 /\ f.k <= m /\ ~hasNew(net'["c"], o)
    <3>1. Line(q, o, m, cp["c"][o])
      BY Zenon, <1>0, <1>1, <2>3 DEF Lines, m
    <3>2. f.k <= m /\ ~hasNew(net'["c"], o)
      BY Zenon, <2>2, <3>1, NewOnce DEF f, o
    <3>3. f = q[1] /\ 1 \in DOMAIN q
      BY Zenon, <2>2, Taken DEF f
    <3> QED BY Zenon, <1>0, <2>2, <3>2, <3>3 DEF News
  <2>6. firstData(f) = Chunks(o, f.k) /\ Len(firstData(f)) = f.k /\ firstData(f) \in Seq(Objs \X Nat)
    <3>1. CASE f.k = 0
      <4>1. firstData(f) = <<>>
        BY <3>1 DEF firstData
      <4>2. Chunks(o, 0) = <<>>
        BY Zenon, ChunksGrow
      <4> QED BY <3>1, <4>1, <4>2
    <3>2. CASE f.k = 1
      <4>1. firstData(f) = <<<<o, 1>>>>
        BY <3>2 DEF firstData, o
      <4>2. Chunks(o, 1) = <<<<o, 1>>>>
        BY Zenon, ChunksGrow
      <4> QED BY <2>3, <3>2, <4>1, <4>2
    <3> QED BY <2>2, <2>5, <3>1, <3>2
  <2>7. /\ sess' \in [Sides -> [Objs -> {"none", "open", "closed"}]] /\ sess'["s"][o] = "open"
        /\ \A e \in Sides, p \in Objs : sess'[e][p] = sess[e][p] \/ (e = "s" /\ p = o)
        /\ \A p \in Objs : sess'["c"][p] = sess["c"][p]
    BY Zenon, <1>0, <1>1, <2>1, <2>3 DEF SessShape
  <2>8. /\ sessions' \in [Sides -> [IDs -> Objs \cup {NoObj}]] /\ sessions'["s"][id[o]] = o
        /\ \A e \in Sides, i \in IDs : sessions'[e][i] = sessions[e][i] \/ (e = "s" /\ i = id[o])
    BY Zenon, <1>0, <1>1, <2>1, <2>3 DEF SessShape
  <2>9. /\ cp' \in [Sides -> [Objs -> {"none", "first", "copy", "close", "over"}]] /\ cp'["s"][o] = "copy"
        /\ \A e \in Sides, p \in Objs : cp'[e][p] = cp[e][p] \/ (e = "s" /\ p = o)
        /\ \A p \in Objs : cp'["c"][p] = cp["c"][p]
    BY Zenon, <1>0, <1>1, <2>1, <2>3 DEF CopyShape
  <2>10. /\ got' \in [Sides -> [Objs -> Seq(Objs \X Nat)]] /\ got'["s"][o] = firstData(f)
         /\ \A e \in Sides, p \in Objs : got'[e][p] = got[e][p] \/ (e = "s" /\ p = o)
    <3> HIDE <2>4
    <3> QED BY Zenon, <1>0, <1>1, <2>1, <2>3, <2>6 DEF GotShape
  <2>11. CallShape' /\ SessShape' /\ CopyShape' /\ GotShape' /\ LoopShape'
    BY Zenon, <1>0, <1>2, <2>1, <2>7, <2>8, <2>9, <2>10 DEF CallShape, SessShape, CopyShape,
       GotShape, LoopShape
  <2>12. Opening'
    <3>1. ASSUME NEW e \in Sides, NEW p \in Objs PROVE (cp'[e][p] = "none") = (sess'[e][p] = "none")
      <4>1. CASE e = "s" /\ p = o
        BY Zenon, <4>1, <2>7, <2>9
      <4>2. CASE ~(e = "s" /\ p = o)
        <5>1. cp'[e][p] = cp[e][p] /\ sess'[e][p] = sess[e][p]
          BY Zenon, <4>2, <2>7, <2>9
        <5> QED BY Zenon, <5>1, <1>0 DEF Opening
      <4> QED BY Zenon, <4>1, <4>2
    <3>2. \A p \in Objs : /\ (caller'[p] = "ok") = (sess'["c"][p] # "none")
                          /\ (id'[p] # 0) = (sess'["c"][p] # "none")
      BY ZenonT(40), <1>0, <1>2, <2>7 DEF Opening
    <3> QED BY Zenon, <3>1, <3>2 DEF Opening
  <2>13. id' = id /\ \E p \in Objs : Adds("s", p)
    <3>1. Adds("s", o)
      BY Zenon, <2>1, <2>4, <2>7 DEF Adds
    <3> QED BY Zenon, <1>2, <2>3, <3>1
  <2>14. Listed'
    <3>1. ASSUME NEW e \in Sides, NEW p \in Objs, sess'[e][p] = "open"
          PROVE  id[p] # 0 /\ sessions'[e][id[p]] = p
      <4>1. CASE e = "s" /\ p = o
        <5>1. id[o] # 0
          BY <2>3, IDsCount
        <5> QED BY Zenon, <4>1, <5>1, <2>8
      <4>2. CASE ~(e = "s" /\ p = o)
        <5>1. sess[e][p] = "open"
          BY Zenon, <4>2, <3>1, <2>7
        <5>2. id[p] # 0 /\ sessions[e][id[p]] = p
          BY Zenon, <5>1, <1>0 DEF Listed
        <5>3. id[p] \in IDs
          BY Zenon, <5>2, <1>0 DEF CallShape
        <5>4. ~(e = "s" /\ id[p] = id[o])
          BY Zenon, <4>2, <5>2, <2>3, <1>0 DEF Counting
        <5> QED BY Zenon, <5>2, <5>3, <5>4, <2>8
      <4> QED BY Zenon, <4>1, <4>2
    <3>2. ASSUME NEW e \in Sides, NEW i \in IDs, sessions'[e][i] # NoObj
          PROVE  id[sessions'[e][i]] = i /\ sess'[e][sessions'[e][i]] = "open"
      <4>1. CASE e = "s" /\ i = id[o]
        BY Zenon, <4>1, <2>7, <2>8
      <4>2. CASE ~(e = "s" /\ i = id[o])
        <5>1. sessions'[e][i] = sessions[e][i]
          BY Zenon, <4>2, <2>8
        <5>2. sessions[e][i] \in Objs
          BY <5>1, <3>2, <1>0 DEF SessShape
        <5>3. id[sessions[e][i]] = i /\ sess[e][sessions[e][i]] = "open"
          BY Zenon, <5>1, <3>2, <1>0 DEF Listed
        <5>4. ~(e = "s" /\ sessions[e][i] = o)
          BY Zenon, <4>2, <5>3
        <5>5. sess'[e][sessions[e][i]] = sess[e][sessions[e][i]]
          BY Zenon, <5>2, <5>4, <2>7
        <5> QED BY Zenon, <5>1, <5>3, <5>5
      <4> QED BY Zenon, <4>1, <4>2
    <3>3. ASSUME NEW e \in Sides, mgrClosed[e] PROVE \A p \in Objs : sess'[e][p] # "open"
      <4>1. e # "s"
        BY Zenon, <3>3, <1>4
      <4>2. \A p \in Objs : sess[e][p] # "open"
        BY Zenon, <3>3, <1>0 DEF Listed
      <4> QED BY Zenon, <4>1, <4>2, <2>7
    <3>4. \A e \in Sides : mon[e] = "gone" => mgrClosed[e]
      BY Zenon, <1>0 DEF Listed
    <3> QED BY ZenonT(40), <3>1, <3>2, <3>3, <3>4, <1>2 DEF Listed
  <2>15. \A p : /\ none(q, p) => none(net'["c"], p)
                /\ hasNew(net'["c"], p) => hasNew(q, p)
                /\ hasNew(q, p) /\ p # o => hasNew(net'["c"], p)
                /\ \A n, c : Line(q, p, n, c) => Line(net'["c"], p, n, c)
    BY Zenon, <2>2, TakeLine DEF f, o
  <2>16. Unsent'
    <3>1. ASSUME NEW p \in Objs, cp'["c"][p] \in {"none", "first"}
          PROVE  none(net'["c"], p) /\ sent["c"][p] = 0 /\ sess'["s"][p] = "none"
      <4>1. cp["c"][p] \in {"none", "first"} /\ p # o
        BY Zenon, <3>1, <2>4, <2>9
      <4>2. none(q, p) /\ sent["c"][p] = 0 /\ sess["s"][p] = "none"
        BY Zenon, <4>1, <1>0 DEF Unsent
      <4> QED BY Zenon, <4>1, <4>2, <1>1, <2>7, <2>15
    <3>2. ASSUME NEW p \in Objs, cp'["s"][p] = "none"
          PROVE  none(net["s"], p) /\ sent["s"][p] = 0
      <4>1. cp["s"][p] = "none"
        BY Zenon, <3>2, <2>4, <2>9, <1>1
      <4> QED BY Zenon, <4>1, <1>0 DEF Unsent
    <3>3. ASSUME NEW e \in Sides, NEW p \in Objs, sess'[e][p] = "none" PROVE got'[e][p] = <<>>
      <4>1. ~(e = "s" /\ p = o)
        BY Zenon, <3>3, <2>7
      <4>2. sess[e][p] = "none" /\ got'[e][p] = got[e][p]
        BY Zenon, <4>1, <3>3, <2>7, <2>10
      <4> QED BY Zenon, <4>2, <1>0 DEF Unsent
    <3> QED BY Zenon, <3>1, <3>2, <3>3, <1>2, <2>2 DEF Unsent
  <2>17. News'
    <3>1. \A i \in DOMAIN net'["s"] : net'["s"][i].t # "new"
      BY Zenon, <1>0, <2>2 DEF News
    <3>2. ASSUME NEW i \in DOMAIN net'["c"], net'["c"][i].t = "new" PROVE net'["c"][i].k <= 1
      <4>1. i + 1 \in DOMAIN q /\ net'["c"][i] = q[i + 1]
        BY ZenonT(40), <2>2, <3>2, Taken
      <4> QED BY Zenon, <4>1, <3>2, <1>0 DEF News
    <3>3. ASSUME NEW p \in Objs, hasNew(net'["c"], p) PROVE sess'["s"][p] = "none"
      <4>1. p # o /\ hasNew(q, p)
        BY Zenon, <3>3, <2>5, <2>15
      <4>2. sess["s"][p] = "none"
        BY Zenon, <4>1, <1>0 DEF News
      <4> QED BY Zenon, <4>1, <4>2, <1>1, <2>7
    <3> QED BY Zenon, <3>1, <3>2, <3>3 DEF News
  <2>18. Lines'
    <3>1. ASSUME NEW e \in Sides, NEW p \in Objs PROVE Line(net'[e], p, sent[e][p], cp'[e][p])
      <4>1. CASE e = "s" /\ p = o
        BY Zenon, <4>1, <2>2, <2>4, NoFrames
      <4>2. CASE e = "s" /\ p # o
        BY Zenon, <4>2, <1>0, <1>1, <2>2, <2>9 DEF Lines
      <4>3. CASE e = "c"
        BY Zenon, <4>3, <1>0, <1>1, <2>9, <2>15 DEF Lines
      <4> QED BY Zenon, <4>1, <4>2, <4>3, <1>1
    <3> QED BY Zenon, <3>1, <1>2 DEF Lines
  <2>19. Flows'
    <3>1. ASSUME NEW e \in Sides, NEW p \in Objs, reads(e), sess'[e][p] # "closed"
          PROVE  Flow(net'[Peer(e)], p, sess'[e][p], Len(got'[e][p]), sent[Peer(e)][p])
      <4>1. CASE e = "s" /\ p = o
        <5>1. Flow(q, o, "none", Len(got["s"][o]), m)
          BY Zenon, <1>0, <1>1, <1>2, <2>3, <2>4 DEF Flows, m
        <5>2. Len(got["s"][o]) \in Nat
          BY <2>4
        <5>3. Flow(net'["c"], o, "open", f.k, m)
          BY Zenon, <2>2, <2>4, <5>1, <5>2, TakeData DEF f, o
        <5> QED BY Zenon, <4>1, <5>3, <1>1, <2>6, <2>7, <2>10 DEF m
      <4>2. CASE e = "s" /\ p # o
        <5>1. Flow(q, p, sess["s"][p], Len(got["s"][p]), sent["c"][p]) /\ sess'["s"][p] = sess["s"][p]
              /\ got'["s"][p] = got["s"][p]
          BY ZenonT(40), <4>2, <3>1, <1>0, <1>1, <2>7, <2>10 DEF Flows
        <5>2. Flow(net'["c"], p, sess["s"][p], Len(got["s"][p]), sent["c"][p])
          BY Zenon, <5>1, <4>2, <2>2, TakeOther DEF f, o
        <5> QED BY Zenon, <4>2, <5>1, <5>2, <1>1
      <4>3. CASE e = "c"
        <5>1. sess'[e][p] = sess[e][p] /\ got'[e][p] = got[e][p]
          BY Zenon, <4>3, <1>1, <2>7, <2>10
        <5> QED BY Zenon, <4>3, <5>1, <3>1, <1>0, <1>1, <2>2 DEF Flows
      <4> QED BY Zenon, <4>1, <4>2, <4>3, <1>1
    <3> QED BY Zenon, <3>1, <1>2, <2>1 DEF Flows, reads
  <2>20. NewOnWay'
    <3>1. ASSUME NEW p \in Objs, reads("s"), cp["c"][p] = "copy", sess'["s"][p] = "none"
          PROVE  hasNew(net'["c"], p)
      <4>1. p # o
        BY Zenon, <3>1, <2>7
      <4>2. sess["s"][p] = "none"
        BY Zenon, <4>1, <3>1, <1>1, <2>7
      <4>3. hasNew(q, p)
        BY Zenon, <4>2, <3>1, <1>0 DEF NewOnWay
      <4> QED BY Zenon, <4>1, <4>3, <2>15
    <3> QED BY Zenon, <3>1, <1>2, <2>1, <2>9 DEF NewOnWay, reads
  <2>21. Arrived'
    <3>1. ASSUME NEW e \in Sides, NEW p \in Objs
          PROVE  \E n \in 0 .. sent[Peer(e)][p] : got'[e][p] = Chunks(p, n)
      <4>1. CASE e = "s" /\ p = o
        <5>1. f.k \in 0 .. m
          BY <2>2, <2>4, <2>5
        <5> QED BY Zenon, <4>1, <5>1, <1>1, <2>6, <2>10 DEF m
      <4>2. CASE ~(e = "s" /\ p = o)
        BY ZenonT(40), <4>2, <1>0, <2>10 DEF Arrived
      <4> QED BY Zenon, <4>1, <4>2
    <3> QED BY Zenon, <3>1, <1>2 DEF Arrived
  <2> QED BY Zenon, <2>2, <2>11, <2>12, <2>13, <2>14, <2>16, <2>17, <2>18, <2>19, <2>20,
      <2>21 DEF IInv, RInv
<1> QED BY Zenon, <1>3, <1>4

\* A Keep frame of a session that this side has is its next chunk, and goes to it.
LEMMA KeepIsNext ==
    ASSUME IInv, NEW d \in Sides, Takes(d, "keep"), broken' = broken, id' = id,
           NEW f, f = Head(net[Peer(d)])
    PROVE  /\ f.o \in Objs /\ f.id \in IDs /\ sess[d][f.o] # "none"
           /\ sess[d][f.o] = "open" =>
                 /\ sessions[d][f.id] = f.o /\ ~mgrClosed[d]
                 /\ f.k = Len(got[d][f.o]) + 1 /\ f.k <= sent[Peer(d)][f.o]
                 /\ Flow(net'[Peer(d)], f.o, "open", f.k, sent[Peer(d)][f.o])
           /\ sessions[d][f.id] # NoObj => sessions[d][f.id] = f.o /\ sess[d][f.o] = "open"
           /\ \A p \in Objs : p # f.o /\ sess[d][p] # "closed" =>
                 Flow(net'[Peer(d)], p, sess[d][p], Len(got[d][p]), sent[Peer(d)][p])
<1> DEFINE q == net[Peer(d)]
           o == f.o
           m == sent[Peer(d)][o]
           n == Len(got[d][o])
<1>0. CallShape /\ SessShape /\ LinkShape /\ Counting /\ Listed /\ Named /\ Lines /\ Flows
  BY Zenon DEF IInv, RInv
<1>1. q \in Seq(Frames) /\ q # <<>> /\ net'[Peer(d)] = Tail(q)
  BY Zenon, <1>0, Reads
<1>2. /\ f \in Frames /\ f.t = "keep" /\ f.id \in IDs /\ f.k \in Nat /\ ~none(q, f.o)
      /\ f.t # "end" => f.o \in Objs
      /\ f.o \in Objs => f.id = id[f.o]
  <2>1. LET g == Head(net[Peer(d)]) IN
        /\ g \in Frames /\ g.t = "keep" /\ g.id \in IDs /\ g.k \in Nat
        /\ g.t # "end" => g.o \in Objs
        /\ g.o \in Objs => g.id = id[g.o]
        /\ ~none(net[Peer(d)], g.o)
    BY Zenon, <1>0, Reads
  <2> QED BY Zenon, <2>1
<1>3. o \in Objs /\ f.id = id[o] /\ reads(d) /\ Peer(d) \in Sides
  <2>1. o \in Objs
    BY Zenon, <1>2
  <2>2. reads(d)
    BY Zenon DEF Takes, reads
  <2> QED BY Zenon, <1>2, <2>1, <2>2, Peers
<1>4. n \in Nat /\ m \in Nat
  BY Zenon, <1>3, Count
<1> HIDE DEF n, m, o
<1>5. \A p \in Objs : sess[d][p] # "closed" => Flow(q, p, sess[d][p], Len(got[d][p]), sent[Peer(d)][p])
  BY Zenon, <1>0, <1>3 DEF Flows
<1>6. sess[d][o] # "none"
  <2> SUFFICES ASSUME sess[d][o] = "none" PROVE FALSE
    BY Zenon
  <2>1. sess[d][o] # "closed"
    BY Zenon
  <2>2. Flow(q, o, "none", n, m)
    BY Zenon, <1>3, <1>5, <2>1 DEF n, m
  <2> QED BY Zenon, <1>1, <1>2, <2>2, KeepAfterNew DEF o
<1>7. ASSUME sess[d][o] = "open"
      PROVE  /\ sessions[d][f.id] = o /\ ~mgrClosed[d]
             /\ f.k = n + 1 /\ f.k <= m /\ Flow(net'[Peer(d)], o, "open", f.k, m)
  <2>1. sessions[d][f.id] = o /\ ~mgrClosed[d]
    BY ZenonT(40), <1>0, <1>3, <1>7, OpenIsListed
  <2>2. sess[d][o] # "closed"
    BY Zenon, <1>7
  <2>3. Flow(q, o, "open", n, m)
    BY Zenon, <1>3, <1>5, <1>7, <2>2 DEF n, m
  <2>4. f.k = n + 1 /\ Flow(Tail(q), o, "open", f.k, m)
    BY Zenon, <1>1, <1>2, <1>4, <2>3, TakeData DEF o
  <2>5. Line(q, o, m, cp[Peer(d)][o])
    BY Zenon, <1>0, <1>3 DEF Lines, m
  <2>6. f.k <= m
    BY Zenon, <1>1, <2>5, NewOnce DEF o
  <2> QED BY Zenon, <1>1, <2>1, <2>4, <2>6
<1>8. ASSUME sessions[d][f.id] # NoObj PROVE sessions[d][f.id] = o /\ sess[d][o] = "open"
  <2>1. sessions[d][f.id] \in Objs
    BY <1>0, <1>2, <1>8 DEF SessShape
  <2>2. id[sessions[d][f.id]] = f.id /\ sess[d][sessions[d][f.id]] = "open"
    BY Zenon, <1>0, <1>2, <1>8, ListedIsOpen
  <2>3. f.id # 0
    BY <1>2, IDsCount
  <2>4. sessions[d][f.id] = o
    BY Zenon, <1>0, <1>3, <2>1, <2>2, <2>3 DEF Counting
  <2> QED BY Zenon, <2>2, <2>4
<1>9. ASSUME NEW p \in Objs, p # o, sess[d][p] # "closed"
      PROVE  Flow(net'[Peer(d)], p, sess[d][p], Len(got[d][p]), sent[Peer(d)][p])
  <2>1. Flow(q, p, sess[d][p], Len(got[d][p]), sent[Peer(d)][p])
    BY Zenon, <1>5, <1>9
  <2> QED BY Zenon, <1>1, <1>9, <2>1, TakeOther DEF o
<1> QED BY Zenon, <1>2, <1>3, <1>6, <1>7, <1>8, <1>9 DEF n, m, o

\* A chunk more has arrived.
LEMMA OneChunk ==
    ASSUME IInv, NEW d \in Sides, NEW o \in Objs, NEW k \in Nat, k = Len(got[d][o]) + 1,
           k <= sent[Peer(d)][o], got' = [got EXCEPT ![d][o] = Append(@, <<o, k>>)]
    PROVE  /\ GotShape' /\ got'[d][o] = Chunks(o, k) /\ Len(got'[d][o]) = k
           /\ k \in 0 .. sent[Peer(d)][o]
           /\ \A e \in Sides, p \in Objs : got'[e][p] = got[e][p] \/ (e = d /\ p = o)
<1>0. GotShape
  BY Zenon DEF IInv, RInv
<1>1. Len(got[d][o]) \in Nat /\ got[d][o] = Chunks(o, Len(got[d][o])) /\ sent[Peer(d)][o] \in Nat
  BY Zenon, Count
<1>2. PICK n \in Nat : n = Len(got[d][o])
  BY Zenon, <1>1
<1>3. Append(Chunks(o, n), <<o, n + 1>>) = Chunks(o, n + 1) /\ Len(Chunks(o, k)) = k
  BY Zenon, <1>2, ChunksGrow
<1>4. Append(got[d][o], <<o, k>>) = Chunks(o, k)
  BY Zenon, <1>1, <1>2, <1>3
<1>5. Chunks(o, k) \in Seq(Objs \X Nat)
  BY DEF Chunks
<1> DEFINE c == Chunks(o, k)
<1>6. got' = [got EXCEPT ![d][o] = c]
  BY Zenon, <1>0, <1>4 DEF GotShape
<1> HIDE DEF c
<1>7. /\ got' \in [Sides -> [Objs -> Seq(Objs \X Nat)]] /\ got'[d][o] = c
      /\ \A e \in Sides, p \in Objs : got'[e][p] = got[e][p] \/ (e = d /\ p = o)
  <2> DEFINE V == Seq(Objs \X Nat)
  <2>1. c \in V /\ got \in [Sides -> [Objs -> V]]
    BY Zenon, <1>0, <1>5 DEF GotShape, c
  <2>2. SUFFICES /\ got' \in [Sides -> [Objs -> V]] /\ got'[d][o] = c
                 /\ \A e \in Sides, p \in Objs : got'[e][p] = got[e][p] \/ (e = d /\ p = o)
    BY Zenon
  <2> HIDE DEF V
  <2>3. got[d] \in [Objs -> V] /\ got' = [got EXCEPT ![d] = [got[d] EXCEPT ![o] = c]]
    BY Zenon, <1>6, <2>1
  <2>4. [got[d] EXCEPT ![o] = c] \in [Objs -> V]
    BY Zenon, <2>1, <2>3
  <2>5. got' \in [Sides -> [Objs -> V]] /\ got'[d] = [got[d] EXCEPT ![o] = c]
        /\ \A e \in Sides : e # d => got'[e] = got[e]
    BY Zenon, <2>1, <2>3, <2>4
  <2> QED BY Zenon, <2>3, <2>5
<1>8. k \in 0 .. sent[Peer(d)][o]
  BY <1>1
<1> QED BY Zenon, <1>3, <1>7, <1>8 DEF c, GotShape

\* A Keep frame.
LEMMA RecvKeepStep == ASSUME IInv, NEW d \in Sides, RecvKeep(d) PROVE RInv' /\ Fewer
<1> DEFINE f == Head(net[Peer(d)])
           o == f.o
           m == sent[Peer(d)][o]
<1>0. /\ SessShape /\ GotShape /\ LoopShape /\ LinkShape /\ Counting /\ Listed /\ Named
      /\ Flows /\ Arrived
  BY Zenon DEF IInv, RInv
<1>1. /\ Takes(d, "keep") /\ rl[d].pc = "read"
      /\ UNCHANGED <<caller, id, count, mgrClosed, cp, sent, outDead, broken, done, mon>>
  BY Zenon DEF RecvKeep, Takes, copyVars, monVars
<1>2. /\ o \in Objs /\ f.id \in IDs /\ sess[d][o] # "none"
      /\ sess[d][o] = "open" =>
            /\ sessions[d][f.id] = o /\ ~mgrClosed[d] /\ f.k = Len(got[d][o]) + 1 /\ f.k <= m
            /\ Flow(net'[Peer(d)], o, "open", f.k, m)
      /\ sessions[d][f.id] # NoObj => sessions[d][f.id] = o /\ sess[d][o] = "open"
      /\ \A p \in Objs : p # o /\ sess[d][p] # "closed" =>
            Flow(net'[Peer(d)], p, sess[d][p], Len(got[d][p]), sent[Peer(d)][p])
  BY Zenon, <1>1, KeepIsNext
<1>3. \A p \in Objs : \E n \in 0 .. sent[Peer(d)][p] : got[d][p] = Chunks(p, n)
  BY Zenon, <1>0 DEF Arrived
<1>4. "keep" # "new" /\ Peer(d) # d /\ Peer(d) \in Sides /\ sent' = sent /\ net'[d] = net[d]
  <2>1. "keep" # "new" /\ Peer(d) # d /\ Peer(d) \in Sides /\ sent' = sent
    BY Zenon, <1>1, Peers
  <2>2. net'[d] = net[d]
    BY Zenon, <1>0, <1>1, Reads
  <2> QED BY Zenon, <2>1, <2>2
<1> HIDE DEF f, o, m
<1>5. CASE sessions[d][f.id] = NoObj \/ mgrClosed[d]
  <2>1. rl' = [rl EXCEPT ![d] = [pc |-> "reply", id |-> f.id]] /\ UNCHANGED <<sess, sessions, got>>
    BY Zenon, <1>5 DEF RecvKeep, f
  <2>2. /\ rl' \in [Sides -> [pc : {"read", "reply", "down"}, id : IDs \cup {0}]]
        /\ rl'[d] = [pc |-> "reply", id |-> f.id] /\ \A e \in Sides : e # d => rl'[e] = rl[e]
    BY Zenon, <1>0, <1>2, <2>1 DEF LoopShape
  <2>3. \A e \in Sides : rl'[e].pc = "reply" => rl'[e].id \in IDs
    <3>1. \A e \in Sides : rl[e].pc = "reply" => rl[e].id \in IDs
      BY Zenon, <1>0 DEF LoopShape
    <3> QED BY <1>2, <2>2, <3>1
  <2>4. \A e \in Sides : rl'[e].pc # "down" => rl[e].pc # "down"
    BY Zenon, <1>1, <2>2
  <2>5. LoopShape' /\ \A e \in Sides : reads(e)' => reads(e)
    BY Zenon, <1>0, <1>1, <2>2, <2>3, <2>4 DEF LoopShape, reads
  <2>6. SessShape' /\ GotShape'
    BY Zenon, <1>0, <1>1, <2>1 DEF SessShape, GotShape
  <2>7. Fewer /\ Listed'
    BY Zenon, <1>0, <1>1, <2>1, SameBook
  <2>8. sess[d][o] # "open"
    <3>1. NoObj \notin Objs
      BY Zenon, MuxAssumption
    <3> QED BY Zenon, <1>2, <1>5, <3>1
  <2>9. sess[d][o] = "closed"
    <3>1. sess[d][o] \in {"none", "open", "closed"}
      BY Zenon, <1>0, <1>2 DEF SessShape
    <3> QED BY Zenon, <1>2, <2>8, <3>1
  <2>10. \A p \in Objs : sess'[d][p] # "closed" =>
             Flow(net'[Peer(d)], p, sess'[d][p], Len(got'[d][p]), sent[Peer(d)][p])
    BY Zenon, <1>2, <2>1, <2>9
  <2>11. Arrived'
    BY Zenon, <1>0, <1>4, <2>1 DEF Arrived
  <2>12. Flows'
    BY Zenon, <1>0, <1>4, <2>1, <2>5, <2>10, FlowsAt
  <2> QED BY Zenon, <1>1, <1>4, <2>1, <2>5, <2>6, <2>7, <2>11, <2>12, TakeMoves
<1>6. CASE ~(sessions[d][f.id] = NoObj \/ mgrClosed[d])
  <2>1. sessions[d][f.id] = o /\ sess[d][o] = "open" /\ f.k = Len(got[d][o]) + 1 /\ f.k <= m
        /\ Flow(net'[Peer(d)], o, "open", f.k, m)
    BY Zenon, <1>2, <1>6
  <2>2. Deliver(d, o, f) /\ rl' = rl
    BY Zenon, <1>6, <2>1 DEF RecvKeep, f
  <2>3. LoopShape' /\ \A e \in Sides : reads(e)' => reads(e)
    BY Zenon, <1>0, <1>1, <2>2 DEF LoopShape, reads
  <2>4. CASE outDead[d][o]
    <3>1. SessionClose(d, o) /\ got' = got
      BY Zenon, <2>2, <2>4 DEF Deliver
    <3>2. /\ SessShape' /\ Fewer /\ Listed' /\ sess'[d][o] = "closed"
          /\ \A e \in Sides, p \in Objs : sess'[e][p] = sess[e][p] \/ (e = d /\ p = o)
      <4>1. o \in Objs /\ sess[d][o] = "open" /\ UNCHANGED <<id, count, mgrClosed, mon>>
        BY Zenon, <1>1, <1>2, <2>1
      <4> QED BY Zenon, <3>1, <4>1, Closes
    <3>3. GotShape'
      BY Zenon, <1>0, <3>1 DEF GotShape
    <3>4. /\ \A e \in Sides, p \in Objs :
               sess'[e][p] = sess[e][p] \/ (sess[e][p] = "open" /\ sess'[e][p] = "closed")
          /\ \A p \in Objs : sess'[Peer(d)][p] = sess[Peer(d)][p]
      BY Zenon, <1>4, <2>1, <3>2
    <3>5. \A p \in Objs : sess'[d][p] # "closed" =>
              Flow(net'[Peer(d)], p, sess'[d][p], Len(got'[d][p]), sent[Peer(d)][p])
      BY Zenon, <1>2, <3>1, <3>2
    <3>6. Arrived'
      BY Zenon, <1>0, <1>4, <3>1 DEF Arrived
    <3>7. Flows'
      BY Zenon, <1>0, <1>4, <2>3, <3>1, <3>4, <3>5, FlowsAt
    <3> QED BY Zenon, <1>1, <1>4, <2>3, <3>1, <3>2, <3>3, <3>4, <3>6, <3>7, TakeMoves
  <2>5. CASE ~outDead[d][o]
    <3>1. got' = [got EXCEPT ![d][o] = Append(@, <<o, f.k>>)] /\ UNCHANGED <<sess, sessions>>
      BY Zenon, <2>2, <2>5 DEF Deliver, o
    <3>2. f.k \in Nat
      <4>1. Len(got[d][o]) \in Nat
        BY Zenon, <1>2, Count
      <4> QED BY <2>1, <4>1
    <3>3. /\ GotShape' /\ got'[d][o] = Chunks(o, f.k) /\ Len(got'[d][o]) = f.k /\ f.k \in 0 .. m
          /\ \A e \in Sides, p \in Objs : got'[e][p] = got[e][p] \/ (e = d /\ p = o)
      <4>1. o \in Objs /\ f.k = Len(got[d][o]) + 1 /\ f.k <= sent[Peer(d)][o]
        BY Zenon, <1>2, <2>1 DEF m
      <4>2. /\ GotShape' /\ got'[d][o] = Chunks(o, f.k) /\ Len(got'[d][o]) = f.k
            /\ f.k \in 0 .. sent[Peer(d)][o]
            /\ \A e \in Sides, p \in Objs : got'[e][p] = got[e][p] \/ (e = d /\ p = o)
        BY Zenon, <3>1, <3>2, <4>1, OneChunk
      <4> QED BY Zenon, <4>2 DEF m
    <3>4. Fewer /\ Listed'
      BY Zenon, <1>0, <1>1, <3>1, SameBook
    <3>5. SessShape'
      BY Zenon, <1>0, <1>1, <3>1 DEF SessShape
    <3>6. ASSUME NEW p \in Objs, sess'[d][p] # "closed"
          PROVE  Flow(net'[Peer(d)], p, sess'[d][p], Len(got'[d][p]), sent[Peer(d)][p])
      <4>1. CASE p = o
        BY Zenon, <4>1, <2>1, <3>1, <3>3 DEF m
      <4>2. CASE p # o
        BY Zenon, <4>2, <3>6, <1>2, <3>1, <3>3
      <4> QED BY Zenon, <4>1, <4>2
    <3>7. ASSUME NEW p \in Objs PROVE \E n \in 0 .. sent[Peer(d)][p] : got'[d][p] = Chunks(p, n)
      BY Zenon, <1>3, <3>3 DEF m
    <3>8. \A e \in Sides, p \in Objs : got'[e][p] = got[e][p] \/ (e = d /\ sess[e][p] = "open")
      BY Zenon, <2>1, <3>3
    <3>9. \A e \in Sides, p \in Objs : e # d => got'[e][p] = got[e][p]
      BY Zenon, <3>3
    <3>10. Arrived'
      BY Zenon, <1>0, <1>4, <3>7, <3>9, ArrivedAt
    <3>11. Flows'
      BY Zenon, <1>0, <1>4, <2>3, <3>1, <3>6, <3>9, FlowsAt
    <3> QED BY Zenon, <1>1, <1>4, <2>3, <3>1, <3>3, <3>4, <3>5, <3>8, <3>10, <3>11, TakeMoves
  <2> QED BY Zenon, <2>4, <2>5
<1> QED BY Zenon, <1>5, <1>6

\* An End frame.
LEMMA RecvEndStep == ASSUME IInv, NEW d \in Sides, RecvEnd(d) PROVE RInv' /\ Fewer
<1> DEFINE f == Head(net[Peer(d)])
           o == sessions[d][f.id]
<1>0. SessShape /\ GotShape /\ LoopShape /\ LinkShape /\ Named /\ Counting /\ Listed /\ Flows /\ Arrived
  BY Zenon DEF IInv, RInv
<1>1. /\ Takes(d, "end") /\ reads(d)
      /\ UNCHANGED <<caller, id, count, mgrClosed, cp, sent, got, outDead, broken, rl, done, mon>>
  <2>1. /\ Takes(d, "end")
        /\ UNCHANGED <<caller, id, count, mgrClosed, cp, sent, got, outDead, broken, rl, done, mon>>
    BY Zenon DEF RecvEnd, copyVars, monVars
  <2> QED BY Zenon, <2>1 DEF Takes, reads
<1>2. f.id \in IDs /\ f.t = "end"
  <2>1. LET g == Head(net[Peer(d)]) IN g.id \in IDs /\ g.t = "end"
    BY Zenon, <1>0, <1>1, Reads
  <2> QED BY Zenon, <2>1
<1>3. ASSUME NEW p \in Objs, sess[d][p] # "closed"
      PROVE  Flow(net'[Peer(d)], p, sess[d][p], Len(got[d][p]), sent[Peer(d)][p])
  <2>1. net[Peer(d)] \in Seq(Frames) /\ net[Peer(d)] # <<>> /\ net'[Peer(d)] = Tail(net[Peer(d)])
    BY Zenon, <1>0, <1>1, Reads
  <2>2. Flow(net[Peer(d)], p, sess[d][p], Len(got[d][p]), sent[Peer(d)][p])
    BY Zenon, <1>0, <1>1, <1>3 DEF Flows
  <2> QED BY Zenon, <1>2, <2>1, <2>2, TakeOther
<1>4. "end" # "new" /\ Peer(d) # d /\ Peer(d) \in Sides
  BY Zenon, Peers
<1>5. LoopShape' /\ GotShape' /\ \A e \in Sides : reads(e)' => reads(e)
  BY Zenon, <1>0, <1>1 DEF LoopShape, GotShape, reads
<1>6. Arrived' /\ net'[d] = net[d] /\ sent' = sent /\ got' = got
  <2>1. net'[d] = net[d]
    BY Zenon, <1>0, <1>1, Reads
  <2>2. sent' = sent /\ got' = got
    BY Zenon, <1>1
  <2> QED BY Zenon, <1>0, <2>1, <2>2 DEF Arrived
<1> HIDE DEF f, o
<1>7. CASE o # NoObj /\ ~mgrClosed[d]
  <2>1. SessionClose(d, o)
    BY Zenon, <1>7 DEF RecvEnd, f, o
  <2>2. o \in Objs
    BY <1>0, <1>2, <1>7 DEF SessShape, o
  <2>3. sess[d][o] = "open"
    BY ZenonT(40), <1>0, <1>2, <1>7 DEF Listed, o
  <2>4. /\ SessShape' /\ Fewer /\ Listed' /\ sess'[d][o] = "closed"
        /\ \A e \in Sides, p \in Objs : sess'[e][p] = sess[e][p] \/ (e = d /\ p = o)
    BY Zenon, <1>1, <2>1, <2>2, <2>3, Closes
  <2>5. /\ \A e \in Sides, p \in Objs :
             sess'[e][p] = sess[e][p] \/ (sess[e][p] = "open" /\ sess'[e][p] = "closed")
        /\ \A p \in Objs : sess'[Peer(d)][p] = sess[Peer(d)][p]
    BY Zenon, <1>4, <2>3, <2>4
  <2>6. \A p \in Objs : sess'[d][p] # "closed" =>
            Flow(net'[Peer(d)], p, sess'[d][p], Len(got'[d][p]), sent[Peer(d)][p])
    BY Zenon, <1>1, <1>3, <2>4
  <2>7. Flows'
    BY Zenon, <1>0, <1>4, <1>5, <1>6, <2>5, <2>6, FlowsAt
  <2> QED BY Zenon, <1>1, <1>4, <1>5, <1>6, <2>4, <2>5, <2>7, TakeMoves
<1>8. CASE ~(o # NoObj /\ ~mgrClosed[d])
  <2>1. UNCHANGED <<sess, sessions>>
    BY Zenon, <1>8 DEF RecvEnd, f, o
  <2>2. Fewer /\ Listed'
    BY Zenon, <1>0, <1>1, <2>1, SameBook
  <2>3. SessShape'
    BY Zenon, <1>0, <1>1, <2>1 DEF SessShape
  <2>4. \A p \in Objs : sess'[d][p] # "closed" =>
            Flow(net'[Peer(d)], p, sess'[d][p], Len(got'[d][p]), sent[Peer(d)][p])
    BY Zenon, <1>1, <1>3, <2>1
  <2>5. Flows'
    BY Zenon, <1>0, <1>4, <1>5, <1>6, <2>1, <2>4, FlowsAt
  <2> QED BY Zenon, <1>1, <1>4, <1>5, <1>6, <2>1, <2>2, <2>3, <2>5, TakeMoves
<1> QED BY Zenon, <1>7, <1>8

\* A session that its own goroutine closes: what is on the way to it is of no more use.
LEMMA CopyClosesStep == ASSUME IInv, NEW d \in Sides, NEW o \in Objs, CopyCloses(d, o) PROVE RInv' /\ Fewer
<1>0. /\ CallShape /\ SessShape /\ CopyShape /\ GotShape /\ LinkShape /\ LoopShape /\ Opening
      /\ Counting /\ Listed /\ Named /\ Unsent /\ News /\ Lines /\ Flows /\ NewOnWay /\ Arrived
  BY Zenon DEF IInv, RInv
<1>1. /\ cp[d][o] = "close" /\ cp' = [cp EXCEPT ![d][o] = "over"]
      /\ IF sess[d][o] = "open" THEN SessionClose(d, o) ELSE UNCHANGED <<sess, sessions>>
      /\ caller' = caller /\ id' = id /\ count' = count /\ mgrClosed' = mgrClosed /\ sent' = sent
      /\ got' = got /\ outDead' = outDead /\ net' = net /\ broken' = broken /\ rl' = rl
      /\ done' = done /\ mon' = mon
  BY Zenon DEF CopyCloses, monVars
<1>2. /\ cp' \in [Sides -> [Objs -> {"none", "first", "copy", "close", "over"}]] /\ cp'[d][o] = "over"
      /\ \A e \in Sides, p \in Objs : (e # d \/ p # o) => cp'[e][p] = cp[e][p]
  BY Zenon, <1>0, <1>1 DEF CopyShape
<1>3. /\ SessShape' /\ Fewer /\ Listed'
      /\ \A e \in Sides, p \in Objs :
            sess'[e][p] = sess[e][p] \/ (sess[e][p] = "open" /\ sess'[e][p] = "closed")
  <2>1. CASE sess[d][o] = "open"
    <3>1. SessionClose(d, o) /\ UNCHANGED <<id, count, mgrClosed, mon>>
      BY Zenon, <1>1, <2>1
    <3>2. /\ SessShape' /\ Fewer /\ Listed' /\ sess'[d][o] = "closed"
          /\ \A e \in Sides, p \in Objs : sess'[e][p] = sess[e][p] \/ (e = d /\ p = o)
      BY Zenon, <2>1, <3>1, Closes
    <3> QED BY Zenon, <2>1, <3>2
  <2>2. CASE sess[d][o] # "open"
    <3>1. sess' = sess /\ sessions' = sessions
      BY Zenon, <1>1, <2>2
    <3>2. Fewer /\ Listed'
      BY Zenon, <1>0, <1>1, <3>1, SameBook
    <3>3. SessShape'
      BY Zenon, <1>0, <1>1, <3>1 DEF SessShape
    <3> QED BY Zenon, <3>1, <3>2, <3>3
  <2> QED BY Zenon, <2>1, <2>2
<1>4. \A e \in Sides, p \in Objs : (sess'[e][p] = "none") = (sess[e][p] = "none")
  <2>1. "open" # "none" /\ "closed" # "none"
    BY Zenon
  <2> QED BY Zenon, <1>3, <2>1
<1>5. ASSUME NEW e \in Sides, NEW p \in Objs
      PROVE  /\ (cp'[e][p] = "none") = (cp[e][p] = "none")
             /\ cp'[e][p] \in {"none", "first"} => cp[e][p] \in {"none", "first"}
             /\ cp'[e][p] = "copy" => cp[e][p] = "copy"
             /\ Line(net[e], p, sent[e][p], cp'[e][p])
  <2>1. CASE e = d /\ p = o
    <3>1. Line(net[e], p, sent[e][p], cp'[e][p])
      BY Zenon, <2>1, <1>0, <1>2, LineCloses DEF Lines
    <3> QED BY Zenon, <2>1, <3>1, <1>1, <1>2
  <2>2. CASE e # d \/ p # o
    BY Zenon, <2>2, <1>0, <1>2 DEF Lines
  <2> QED BY Zenon, <2>1, <2>2
<1>6. "c" \in Sides /\ "s" \in Sides
  BY Zenon DEF Sides
<1>7. CallShape' /\ CopyShape' /\ GotShape' /\ LinkShape' /\ LoopShape'
  BY Zenon, <1>0, <1>1, <1>2 DEF CallShape, CopyShape, GotShape, LinkShape, LoopShape
<1>8. Opening'
  <2>1. \A p \in Objs : /\ (caller'[p] = "ok") = (sess'["c"][p] # "none")
                        /\ (id'[p] # 0) = (sess'["c"][p] # "none")
    BY Zenon, <1>0, <1>1, <1>4, <1>6 DEF Opening
  <2>2. \A e \in Sides, p \in Objs : (cp'[e][p] = "none") = (sess'[e][p] = "none")
    BY ZenonT(40), <1>0, <1>4, <1>5 DEF Opening
  <2> QED BY Zenon, <2>1, <2>2 DEF Opening
<1>9. Unsent'
  <2>1. ASSUME NEW p \in Objs, cp'["c"][p] \in {"none", "first"}
        PROVE  none(net["c"], p) /\ sent["c"][p] = 0 /\ sess'["s"][p] = "none"
    BY Zenon, <2>1, <1>0, <1>4, <1>5, <1>6 DEF Unsent
  <2>2. ASSUME NEW p \in Objs, cp'["s"][p] = "none" PROVE none(net["s"], p) /\ sent["s"][p] = 0
    BY Zenon, <2>2, <1>0, <1>5, <1>6 DEF Unsent
  <2>3. ASSUME NEW e \in Sides, NEW p \in Objs, sess'[e][p] = "none" PROVE got[e][p] = <<>>
    BY Zenon, <2>3, <1>0, <1>4, NothingArrived
  <2> QED BY Zenon, <2>1, <2>2, <2>3, <1>1 DEF Unsent
<1>10. Named'
  BY Zenon, <1>0, <1>1 DEF Named
<1>11. News'
  BY Zenon, <1>0, <1>1, <1>4, <1>6 DEF News
<1>12. Lines'
  BY Zenon, <1>1, <1>5 DEF Lines
<1>13. Flows'
  <2>1. ASSUME NEW e \in Sides, NEW p \in Objs, reads(e), sess'[e][p] # "closed"
        PROVE  Flow(net[Peer(e)], p, sess'[e][p], Len(got[e][p]), sent[Peer(e)][p])
    <3>1. sess'[e][p] = sess[e][p]
      BY Zenon, <2>1, <1>3
    <3> QED BY Zenon, <2>1, <3>1, <1>0 DEF Flows
  <2> QED BY Zenon, <2>1, <1>1 DEF Flows, reads
<1>14. NewOnWay'
  <2>1. ASSUME NEW p \in Objs, reads("s"), cp'["c"][p] = "copy", sess'["s"][p] = "none"
        PROVE  hasNew(net["c"], p)
    BY Zenon, <2>1, <1>0, <1>4, <1>5, <1>6 DEF NewOnWay
  <2> QED BY Zenon, <2>1, <1>1 DEF NewOnWay, reads
<1>15. Arrived'
  BY Zenon, <1>0, <1>1 DEF Arrived
<1> QED BY Zenon, <1>3, <1>7, <1>8, <1>9, <1>10, <1>11, <1>12, <1>13, <1>14, <1>15 DEF IInv, RInv

\* Steps that leave sessions, frames and data alone.
LEMMA QuietMoves ==
    ASSUME IInv, LinkShape', LoopShape', SessShape', Listed', \A e \in Sides : reads(e)' => reads(e),
           UNCHANGED <<caller, id, sess, sessions, count, cp, sent, got, net>>
    PROVE  RInv' /\ Fewer
<1>0. /\ CallShape /\ CopyShape /\ GotShape /\ Opening
      /\ Counting /\ Named /\ Unsent /\ News /\ Lines /\ Flows /\ NewOnWay /\ Arrived
  BY Zenon DEF IInv, RInv
<1>1. /\ caller' = caller /\ id' = id /\ sess' = sess /\ count' = count /\ cp' = cp /\ sent' = sent
      /\ got' = got /\ net' = net
  BY Zenon
<1>2. CallShape' /\ CopyShape' /\ GotShape' /\ Opening'
  <2>1. CallShape' /\ CopyShape' /\ GotShape'
    BY Zenon, <1>0, <1>1 DEF CallShape, CopyShape, GotShape
  <2>2. Opening'
    BY Zenon, <1>0, <1>1, OpeningSame
  <2> QED BY Zenon, <2>1, <2>2
<1>3. Fewer
  BY Zenon, <1>1 DEF Fewer
<1>4. Named' /\ Unsent' /\ News'
  <2>1. Named'
    BY Zenon, <1>0, <1>1 DEF Named
  <2>2. Unsent'
    BY Zenon, <1>0, <1>1 DEF Unsent
  <2>3. News'
    BY Zenon, <1>0, <1>1 DEF News
  <2> QED BY Zenon, <2>1, <2>2, <2>3
<1>5. Lines' /\ Arrived'
  BY Zenon, <1>0, <1>1 DEF Lines, Arrived
<1>6. Flows'
  BY Zenon, <1>0, <1>1 DEF Flows
<1>7. NewOnWay'
  <2>1. "s" \in Sides
    BY Zenon DEF Sides
  <2> QED BY Zenon, <1>0, <1>1, <2>1 DEF NewOnWay
<1> QED BY Zenon, <1>2, <1>3, <1>4, <1>5, <1>6, <1>7 DEF IInv, RInv

\* The reader of a session's output goes away.
LEMMA OutputDiesStep == ASSUME IInv, NEW d \in Sides, NEW o \in Objs, OutputDies(d, o) PROVE RInv' /\ Fewer
<1>0. SessShape /\ LinkShape /\ LoopShape /\ Counting /\ Listed
  BY Zenon DEF IInv, RInv
<1>1. /\ outDead' = [outDead EXCEPT ![d][o] = TRUE]
      /\ UNCHANGED <<caller, id, sess, sessions, count, mgrClosed, cp, sent, got, net, broken, rl, done, mon>>
  BY Zenon DEF OutputDies, mgrVars, copyVars, monVars
<1>2. outDead' \in [Sides -> [Objs -> BOOLEAN]]
  BY Zenon, <1>0, <1>1 DEF LoopShape
<1>3. LoopShape' /\ SessShape' /\ LinkShape' /\ \A e \in Sides : reads(e)' => reads(e)
  BY Zenon, <1>0, <1>1, <1>2 DEF LoopShape, SessShape, LinkShape, reads
<1>4. Listed'
  BY Zenon, <1>0, <1>1, SameBook
<1> QED BY Zenon, <1>1, <1>3, <1>4, QuietMoves

\* A read loop ends at a broken link.
LEMMA ReadFailsStep == ASSUME IInv, NEW d \in Sides, ReadFails(d) PROVE RInv' /\ Fewer
<1>0. SessShape /\ LinkShape /\ LoopShape /\ Counting /\ Listed
  BY Zenon DEF IInv, RInv
<1>1. /\ rl' = [rl EXCEPT ![d].pc = "down"] /\ done' = [done EXCEPT ![d] = TRUE]
      /\ UNCHANGED <<caller, id, sess, sessions, count, mgrClosed, cp, sent, got, outDead, net, broken, mon>>
  BY Zenon DEF ReadFails, mgrVars, copyVars, monVars
<1>2. LoopShape' /\ \A e \in Sides : reads(e)' => reads(e)
  BY Zenon, <1>0, <1>1, LoopLeaves
<1>3. SessShape' /\ LinkShape'
  BY Zenon, <1>0, <1>1 DEF SessShape, LinkShape
<1>4. Listed'
  BY Zenon, <1>0, <1>1, SameBook
<1> QED BY Zenon, <1>1, <1>2, <1>3, <1>4, QuietMoves

\* The carrying connection breaks.
LEMMA BreakStep == ASSUME IInv, Break PROVE RInv' /\ Fewer
<1>0. SessShape /\ LinkShape /\ LoopShape /\ Counting /\ Listed
  BY Zenon DEF IInv, RInv
<1>1. /\ broken' = TRUE
      /\ UNCHANGED <<caller, id, sess, sessions, count, mgrClosed, cp, sent, got, outDead, net, rl, done, mon>>
  BY Zenon DEF Break, mgrVars, copyVars, monVars
<1>2. LoopShape' /\ SessShape' /\ LinkShape' /\ \A e \in Sides : reads(e)' => reads(e)
  BY Zenon, <1>0, <1>1 DEF LoopShape, SessShape, LinkShape, reads
<1>3. Listed'
  BY Zenon, <1>0, <1>1, SameBook
<1> QED BY Zenon, <1>1, <1>2, <1>3, QuietMoves

\* The ticker closes a manager that has no session.
LEMMA TickStep == ASSUME IInv, NEW d \in Sides, Tick(d) PROVE RInv' /\ Fewer
<1>0. CallShape /\ SessShape /\ LinkShape /\ LoopShape /\ Listed
  BY Zenon DEF IInv, RInv
<1> DEFINE close == mgrClosed[d] \/ idle(d)
<1>1. /\ mgrClosed' = [mgrClosed EXCEPT ![d] = close] /\ done' = [done EXCEPT ![d] = close]
      /\ UNCHANGED <<caller, id, sess, sessions, count, cp, sent, got, outDead, net, broken, rl, mon>>
  BY Zenon DEF Tick, copyVars
<1>2. close \in BOOLEAN
  BY Zenon
<1>3. close => \A o \in Objs : sess[d][o] # "open"
  <2>1. CASE mgrClosed[d]
    BY Zenon, <1>0, <2>1 DEF Listed
  <2>2. CASE idle(d)
    <3> SUFFICES ASSUME NEW o \in Objs, sess[d][o] = "open" PROVE FALSE
      BY Zenon
    <3>1. id[o] # 0 /\ sessions[d][id[o]] = o
      BY Zenon, <1>0, OpenIsListed
    <3>2. id[o] \in IDs /\ o # NoObj
      BY Zenon, <1>0, <3>1, MuxAssumption DEF CallShape
    <3> QED BY Zenon, <2>2, <3>1, <3>2 DEF idle, Live
  <2> QED BY Zenon, <2>1, <2>2
<1> HIDE DEF close
<1>4. /\ mgrClosed' \in [Sides -> BOOLEAN] /\ done' \in [Sides -> BOOLEAN]
      /\ (mgrClosed'[d] <=> close) /\ \A e \in Sides : e # d => mgrClosed'[e] = mgrClosed[e]
  BY Zenon, <1>0, <1>1, <1>2 DEF SessShape, LoopShape
<1>5. LoopShape' /\ SessShape' /\ LinkShape' /\ \A e \in Sides : reads(e)' => reads(e)
  BY Zenon, <1>0, <1>1, <1>4 DEF LoopShape, SessShape, LinkShape, reads
<1>6. Listed'
  <2>1. \A e \in Sides, o \in Objs : sess[e][o] = "open" => id[o] # 0 /\ sessions[e][id[o]] = o
    BY Zenon, <1>0 DEF Listed
  <2>2. \A e \in Sides, i \in IDs : sessions[e][i] # NoObj =>
            id[sessions[e][i]] = i /\ sess[e][sessions[e][i]] = "open"
    BY Zenon, <1>0 DEF Listed
  <2>3. ASSUME NEW e \in Sides, mgrClosed'[e] PROVE \A o \in Objs : sess[e][o] # "open"
    BY ZenonT(40), <2>3, <1>0, <1>3, <1>4 DEF Listed
  <2>4. ASSUME NEW e \in Sides, mon[e] = "gone" PROVE mgrClosed'[e]
    <3>1. mgrClosed[e]
      BY Zenon, <2>4, <1>0 DEF Listed
    <3> QED BY Zenon, <3>1, <1>4 DEF close
  <2> QED BY ZenonT(40), <1>1, <2>1, <2>2, <2>3, <2>4 DEF Listed
<1> QED BY Zenon, <1>1, <1>5, <1>6, QuietMoves

\* The monitor ends: every session of its side is closed and its links are interrupted.
LEMMA MonitorEndsStep == ASSUME IInv, NEW d \in Sides, MonitorEnds(d) PROVE RInv' /\ Fewer
<1>0. /\ CallShape /\ SessShape /\ CopyShape /\ GotShape /\ LinkShape /\ LoopShape /\ Opening
      /\ Counting /\ Listed /\ Named /\ Unsent /\ News /\ Lines /\ Flows /\ NewOnWay /\ Arrived
  BY Zenon DEF IInv, RInv
<1>1. /\ mon' = [mon EXCEPT ![d] = "gone"] /\ mgrClosed' = [mgrClosed EXCEPT ![d] = TRUE]
      /\ sess' = [sess EXCEPT ![d] = [o \in Objs |-> IF o \in closedBy(d) THEN "closed" ELSE @[o]]]
      /\ sessions' = [sessions EXCEPT ![d] = NoSessions] /\ broken' = TRUE
      /\ net' = [net EXCEPT ![Peer(d)] = <<>>]
      /\ caller' = caller /\ id' = id /\ count' = count /\ cp' = cp /\ sent' = sent /\ got' = got
      /\ outDead' = outDead /\ rl' = rl /\ done' = done
  BY Zenon DEF MonitorEnds, copyVars
<1>2. \A o \in Objs : o \in closedBy(d) <=> sess[d][o] = "open"
  <2>1. ASSUME NEW o \in Objs, o \in closedBy(d) PROVE sess[d][o] = "open"
    <3>1. PICK i \in Live(d) : o = sessions[d][i]
      BY Zenon, <2>1 DEF closedBy
    <3>2. i \in IDs /\ sessions[d][i] # NoObj
      BY Zenon, <3>1 DEF Live
    <3> QED BY Zenon, <1>0, <3>1, <3>2, ListedIsOpen
  <2>2. ASSUME NEW o \in Objs, sess[d][o] = "open" PROVE o \in closedBy(d)
    <3>1. id[o] # 0 /\ sessions[d][id[o]] = o
      BY Zenon, <1>0, <2>2, OpenIsListed
    <3>2. id[o] \in IDs /\ o # NoObj
      BY Zenon, <1>0, <3>1, MuxAssumption DEF CallShape
    <3>3. id[o] \in Live(d)
      BY Zenon, <3>1, <3>2 DEF Live
    <3> QED BY Zenon, <3>1, <3>3 DEF closedBy
  <2> QED BY Zenon, <2>1, <2>2
<1>3. /\ sess' \in [Sides -> [Objs -> {"none", "open", "closed"}]]
      /\ \A o \in Objs : sess'[d][o] = IF sess[d][o] = "open" THEN "closed" ELSE sess[d][o]
      /\ \A e \in Sides : e # d => sess'[e] = sess[e]
  <2> DEFINE g == [o \in Objs |-> IF o \in closedBy(d) THEN "closed" ELSE sess[d][o]]
  <2>1. sess[d] \in [Objs -> {"none", "open", "closed"}]
    BY Zenon, <1>0 DEF SessShape
  <2>2. g \in [Objs -> {"none", "open", "closed"}]
    BY Zenon, <2>1
  <2>3. \A o \in Objs : g[o] = IF sess[d][o] = "open" THEN "closed" ELSE sess[d][o]
    BY Zenon, <1>2
  <2>4. sess' = [sess EXCEPT ![d] = g]
    BY Zenon, <1>0, <1>1 DEF SessShape
  <2> HIDE DEF g
  <2> QED BY Zenon, <1>0, <2>2, <2>3, <2>4 DEF SessShape
<1>4. /\ \A e \in Sides, o \in Objs :
            sess'[e][o] = sess[e][o] \/ (e = d /\ sess[e][o] = "open" /\ sess'[e][o] = "closed")
      /\ \A e \in Sides, o \in Objs : (sess'[e][o] = "none") = (sess[e][o] = "none")
      /\ \A e \in Sides, o \in Objs : sess'[e][o] = "open" => sess[e][o] = "open" /\ e # d
  <2>1. ASSUME NEW e \in Sides, NEW o \in Objs
        PROVE  /\ sess'[e][o] = sess[e][o] \/ (e = d /\ sess[e][o] = "open" /\ sess'[e][o] = "closed")
               /\ sess'[e][o] = "open" => sess[e][o] = "open" /\ e # d
    <3>1. CASE e = d
      <4>1. sess'[d][o] = IF sess[d][o] = "open" THEN "closed" ELSE sess[d][o]
        BY Zenon, <1>3
      <4> QED BY Zenon, <3>1, <4>1
    <3>2. CASE e # d
      BY Zenon, <1>3, <3>2
    <3> QED BY Zenon, <3>1, <3>2
  <2>2. "open" # "none" /\ "closed" # "none"
    BY Zenon
  <2> QED BY Zenon, <2>1, <2>2
<1>5. /\ sessions' \in [Sides -> [IDs -> Objs \cup {NoObj}]] /\ sessions'[d] = NoSessions
      /\ \A e \in Sides : e # d => sessions'[e] = sessions[e]
  <2>1. NoSessions \in [IDs -> Objs \cup {NoObj}]
    BY Zenon DEF NoSessions
  <2> QED BY Zenon, <1>0, <1>1, <2>1 DEF SessShape
<1>6. /\ mgrClosed' \in [Sides -> BOOLEAN] /\ mgrClosed'[d] = TRUE
      /\ mon' \in [Sides -> {"watch", "gone"}] /\ mon'[d] = "gone"
      /\ \A e \in Sides : e # d => mgrClosed'[e] = mgrClosed[e] /\ mon'[e] = mon[e]
  BY Zenon, <1>0, <1>1 DEF SessShape, LoopShape
<1>7. /\ net' \in [Sides -> Seq(Frames)] /\ net'[Peer(d)] = <<>> /\ net'[d] = net[d]
      /\ \A e \in Sides : Len(net'[e]) <= LinkSize
  <2>1. <<>> \in Seq(Frames) /\ Len(<<>>) <= LinkSize
    BY MuxAssumption
  <2>2. Peer(d) \in Sides /\ Peer(d) # d
    BY Zenon, Peers
  <2>3. net' \in [Sides -> Seq(Frames)] /\ net'[Peer(d)] = <<>> /\ net'[d] = net[d]
    BY Zenon, <1>0, <1>1, <2>1, <2>2 DEF LinkShape
  <2> QED BY Zenon, <1>0, <2>1, <2>3, TwoSides DEF LinkShape
<1>8. "c" \in Sides /\ "s" \in Sides /\ "watch" # "gone"
  BY Zenon DEF Sides
<1>9. CallShape' /\ SessShape' /\ CopyShape' /\ GotShape' /\ LinkShape' /\ LoopShape'
  <2>1. broken' \in BOOLEAN
    BY Zenon, <1>1
  <2> QED BY Zenon, <1>0, <1>1, <1>3, <1>5, <1>6, <1>7, <2>1 DEF CallShape, SessShape,
      CopyShape, GotShape, LinkShape, LoopShape
<1>10. Opening'
  BY Zenon, <1>0, <1>1, <1>4, OpeningSame
<1>11. Fewer
  BY ZenonT(40), <1>1, <1>4 DEF Fewer
<1>12. Listed'
  <2>1. ASSUME NEW e \in Sides, NEW o \in Objs, sess'[e][o] = "open"
        PROVE  id[o] # 0 /\ sessions'[e][id[o]] = o
    <3>1. sess[e][o] = "open" /\ e # d
      BY Zenon, <2>1, <1>4
    <3>2. id[o] # 0 /\ sessions[e][id[o]] = o
      BY Zenon, <3>1, <1>0, OpenIsListed
    <3> QED BY Zenon, <3>1, <3>2, <1>5
  <2>2. ASSUME NEW e \in Sides, NEW i \in IDs, sessions'[e][i] # NoObj
        PROVE  id[sessions'[e][i]] = i /\ sess'[e][sessions'[e][i]] = "open"
    <3>1. e # d
      BY Zenon, <2>2, <1>5 DEF NoSessions
    <3>2. sessions'[e] = sessions[e] /\ sess'[e] = sess[e]
      BY Zenon, <3>1, <1>3, <1>5
    <3>3. sessions[e][i] # NoObj
      BY Zenon, <2>2, <3>2
    <3>4. id[sessions[e][i]] = i /\ sess[e][sessions[e][i]] = "open"
      BY Zenon, <3>3, <1>0, ListedIsOpen
    <3> QED BY Zenon, <3>2, <3>4
  <2>3. ASSUME NEW e \in Sides, mgrClosed'[e] PROVE \A o \in Objs : sess'[e][o] # "open"
    <3> SUFFICES ASSUME NEW o \in Objs, sess'[e][o] = "open" PROVE FALSE
      BY Zenon
    <3>1. sess[e][o] = "open" /\ e # d
      BY Zenon, <1>4
    <3>2. mgrClosed[e]
      BY Zenon, <2>3, <3>1, <1>6
    <3> QED BY Zenon, <3>1, <3>2, <1>0, OpenIsListed
  <2>4. ASSUME NEW e \in Sides, mon'[e] = "gone" PROVE mgrClosed'[e]
    <3>1. CASE e = d
      BY Zenon, <3>1, <1>6
    <3>2. CASE e # d
      BY Zenon, <2>4, <3>2, <1>0, <1>6 DEF Listed
    <3> QED BY Zenon, <3>1, <3>2
  <2>5. id' = id
    BY Zenon, <1>1
  <2> QED BY ZenonT(40), <2>1, <2>2, <2>3, <2>4, <2>5 DEF Listed
<1>13. \A e \in Sides : \A i \in DOMAIN net'[e] : i \in DOMAIN net[e] /\ net'[e][i] = net[e][i]
  <2>1. DOMAIN <<>> = {}
    OBVIOUS
  <2> QED BY Zenon, <1>7, <2>1, TwoSides
<1>14. Named'
  <2>1. ASSUME NEW e \in Sides, NEW i \in DOMAIN net'[e]
        PROVE  /\ net'[e][i].t # "end" => net'[e][i].o \in Objs
               /\ net'[e][i].o \in Objs => net'[e][i].id = id[net'[e][i].o]
    <3>1. i \in DOMAIN net[e] /\ net'[e][i] = net[e][i]
      BY Zenon, <1>13
    <3> QED BY Zenon, <1>0, <3>1 DEF Named
  <2>2. id' = id
    BY Zenon, <1>1
  <2> QED BY Zenon, <2>1, <2>2 DEF Named
<1>15. \A e \in Sides, o \in Objs : /\ none(net[e], o) => none(net'[e], o)
                                    /\ hasNew(net'[e], o) => hasNew(net[e], o)
  BY Zenon, <1>13 DEF none, hasNew
<1>16. Unsent'
  <2>1. ASSUME NEW o \in Objs, cp["c"][o] \in {"none", "first"}
        PROVE  none(net'["c"], o) /\ sent["c"][o] = 0 /\ sess'["s"][o] = "none"
    <3>1. none(net["c"], o) /\ sent["c"][o] = 0 /\ sess["s"][o] = "none"
      BY Zenon, <2>1, <1>0 DEF Unsent
    <3> QED BY Zenon, <3>1, <1>4, <1>8, <1>15
  <2>2. ASSUME NEW o \in Objs, cp["s"][o] = "none" PROVE none(net'["s"], o) /\ sent["s"][o] = 0
    <3>1. none(net["s"], o) /\ sent["s"][o] = 0
      BY Zenon, <2>2, <1>0 DEF Unsent
    <3> QED BY Zenon, <3>1, <1>8, <1>15
  <2>3. ASSUME NEW e \in Sides, NEW o \in Objs, sess'[e][o] = "none" PROVE got[e][o] = <<>>
    BY Zenon, <2>3, <1>0, <1>4, NothingArrived
  <2> QED BY Zenon, <2>1, <2>2, <2>3, <1>1 DEF Unsent
<1>17. News'
  <2>1. \A i \in DOMAIN net'["s"] : net'["s"][i].t # "new"
    BY Zenon, <1>0, <1>8, <1>13 DEF News
  <2>2. \A i \in DOMAIN net'["c"] : net'["c"][i].t = "new" => net'["c"][i].k <= 1
    BY Zenon, <1>0, <1>8, <1>13 DEF News
  <2>3. \A o \in Objs : hasNew(net'["c"], o) => sess'["s"][o] = "none"
    <3>1. \A o \in Objs : hasNew(net["c"], o) => sess["s"][o] = "none"
      BY Zenon, <1>0 DEF News
    <3> QED BY ZenonT(40), <3>1, <1>4, <1>8, <1>15
  <2> QED BY Zenon, <2>1, <2>2, <2>3 DEF News
<1>18. Lines'
  <2>1. ASSUME NEW e \in Sides, NEW o \in Objs PROVE Line(net'[e], o, sent[e][o], cp[e][o])
    <3>1. Line(net[e], o, sent[e][o], cp[e][o])
      BY Zenon, <1>0 DEF Lines
    <3> QED BY Zenon, <3>1, <1>13 DEF Line
  <2> QED BY Zenon, <2>1, <1>1 DEF Lines
<1>19. \A e \in Sides : reads(e)' => reads(e) /\ e # d
  BY Zenon, <1>1, <1>6, <1>8 DEF reads
<1>20. Flows'
  <2>1. Peer(d) # d /\ Peer(d) \in Sides
    BY Zenon, Peers
  <2>2. ~reads(d)' /\ \A o \in Objs : sess'[Peer(d)][o] = sess[Peer(d)][o]
    BY Zenon, <2>1, <1>3, <1>19
  <2>3. reads(Peer(d))' => reads(Peer(d))
    BY Zenon, <2>1, <1>19
  <2>4. \A o \in Objs : reads(d)' /\ sess'[d][o] # "closed" =>
            Flow(net'[Peer(d)], o, sess'[d][o], Len(got'[d][o]), sent[Peer(d)][o])
    BY Zenon, <2>2
  <2> QED BY Zenon, <2>2, <2>3, <2>4, <1>0, <1>1, <1>7, FlowsAt
<1>21. NewOnWay'
  <2>1. ASSUME NEW o \in Objs, reads("s")', cp["c"][o] = "copy", sess'["s"][o] = "none"
        PROVE  hasNew(net'["c"], o)
    <3>1. reads("s") /\ "s" # d /\ sess["s"][o] = "none"
      BY Zenon, <2>1, <1>4, <1>8, <1>19
    <3>2. d = "c"
      BY Zenon, <3>1 DEF Sides
    <3> QED BY Zenon, <2>1, <3>1, <3>2, <1>0, <1>7 DEF NewOnWay
  <2> QED BY Zenon, <2>1, <1>1 DEF NewOnWay
<1>22. Arrived'
  BY Zenon, <1>0, <1>1 DEF Arrived
<1> QED BY Zenon, <1>9, <1>10, <1>11, <1>12, <1>14, <1>16, <1>17, <1>18, <1>20, <1>21,
    <1>22 DEF IInv, RInv

-----------------------------------------------------------------------------
(* Counting.  The facts about finite sets are needed from here on only. *)

FST == INSTANCE FiniteSetTheorems

\* The library counts as this module does.
LEMMA SameCount ==
    ASSUME NEW S
    PROVE  IsFiniteSet(S) = FST!IsFiniteSet(S) /\ Cardinality(S) = FST!Cardinality(S)
<1>1. IsFiniteSet(S) = FST!IsFiniteSet(S)
  BY DEF IsFiniteSet, FST!IsFiniteSet
<1>2. Cardinality(S) = FST!Cardinality(S)
  BY DEF Cardinality, FST!Cardinality
<1> QED BY Zenon, <1>1, <1>2

\* What finite sets, and subsets of them, count.
LEMMA SubsetCounts ==
    ASSUME NEW S, IsFiniteSet(S), NEW T \in SUBSET S
    PROVE  /\ IsFiniteSet(T) /\ Cardinality(T) <= Cardinality(S)
           /\ Cardinality(T) \in Nat /\ Cardinality(S) \in Nat
<1>1. FST!IsFiniteSet(S)
  BY Zenon, SameCount
<1>2. FST!IsFiniteSet(T) /\ FST!Cardinality(T) <= FST!Cardinality(S)
  BY Zenon, <1>1, FST!FS_Subset
<1>3. FST!Cardinality(T) \in Nat /\ FST!Cardinality(S) \in Nat
  BY Zenon, <1>1, <1>2, FST!FS_CardinalityType
<1> QED BY <1>2, <1>3, SameCount

\* One more element, and one less.
LEMMA ElementCounts ==
    ASSUME NEW S, IsFiniteSet(S), NEW x
    PROVE  /\ IsFiniteSet(S \cup {x}) /\ IsFiniteSet(S \ {x})
           /\ Cardinality(S \cup {x}) = IF x \in S THEN Cardinality(S) ELSE Cardinality(S) + 1
           /\ Cardinality(S \ {x}) = IF x \in S THEN Cardinality(S) - 1 ELSE Cardinality(S)
<1>1. FST!IsFiniteSet(S)
  BY Zenon, SameCount
<1>2. /\ FST!IsFiniteSet(S \cup {x})
      /\ FST!Cardinality(S \cup {x}) =
            IF x \in S THEN FST!Cardinality(S) ELSE FST!Cardinality(S) + 1
  BY Zenon, <1>1, FST!FS_AddElement
<1>3. /\ FST!IsFiniteSet(S \ {x})
      /\ FST!Cardinality(S \ {x}) =
            IF x \in S THEN FST!Cardinality(S) - 1 ELSE FST!Cardinality(S)
  BY Zenon, <1>1, FST!FS_RemoveElement
<1> QED BY <1>2, <1>3, SameCount

\* The numbers between two are finitely many.
LEMMA IntervalCounts == ASSUME NEW a \in Int, NEW b \in Int PROVE IsFiniteSet(a .. b)
<1>1. FST!IsFiniteSet(a .. b)
  BY FST!FS_Interval
<1> QED BY Zenon, <1>1, SameCount

\* Nothing counts as zero.
LEMMA EmptyCounts == Cardinality({}) = 0
BY Zenon, SameCount, FST!FS_EmptySet

\* A set that a function covers is no larger than the set that it starts from.
LEMMA CoverCounts ==
    ASSUME NEW S, IsFiniteSet(S), NEW T, NEW f \in [S -> T], \A t \in T : \E s \in S : f[s] = t
    PROVE  IsFiniteSet(T) /\ Cardinality(T) <= Cardinality(S)
<1>1. f \in FST!Surjection(S, T) /\ FST!IsFiniteSet(S)
  BY Zenon, SameCount DEF FST!Surjection
<1>2. FST!IsFiniteSet(T) /\ FST!Cardinality(T) <= FST!Cardinality(S)
  BY Zenon, <1>1, FST!FS_Surjection
<1> QED BY <1>2, SameCount

\* Fewer sessions are open.
LEMMA FewerOpen ==
    ASSUME Counting, Fewer
    PROVE  Counting'
<1>0. /\ \A d \in Sides, o \in Objs : (sess'[d][o] = "none") = (sess[d][o] = "none")
      /\ \A o \in Objs : sess'["c"][o] = "open" => sess["c"][o] = "open"
  <2>1. "c" \in Sides /\ "open" # "none" /\ "closed" # "none" /\ "closed" # "open"
    BY DEF Sides
  <2> QED BY Zenon, <2>1 DEF Fewer
<1>1. \A d \in Sides : opened(d)' = opened(d)
  BY Zenon, <1>0 DEF opened
<1>2. {o \in Objs : sess'["c"][o] = "open"} \subseteq {o \in Objs : sess["c"][o] = "open"}
  BY Zenon, <1>0
<1>3. /\ Cardinality({o \in Objs : sess'["c"][o] = "open"})
           <= Cardinality({o \in Objs : sess["c"][o] = "open"})
      /\ Cardinality({o \in Objs : sess'["c"][o] = "open"}) \in Nat
      /\ Cardinality({o \in Objs : sess["c"][o] = "open"}) \in Nat
  <2>1. {o \in Objs : sess["c"][o] = "open"} \in SUBSET Objs /\ IsFiniteSet(Objs)
    BY Zenon, MuxAssumption
  <2>2. IsFiniteSet({o \in Objs : sess["c"][o] = "open"})
    BY Zenon, <2>1, SubsetCounts
  <2> QED BY Zenon, <1>2, <2>2, SubsetCounts
<1>4. MaxConcurrency > 0 => Cardinality({o \in Objs : sess'["c"][o] = "open"}) <= MaxConcurrency
  <2>1. MaxConcurrency \in Nat
    BY Zenon, MuxAssumption
  <2> QED BY <1>3, <2>1 DEF Counting
<1> QED BY Zenon, <1>1, <1>4 DEF Counting, Fewer

\* An ID is given out: there is one, it is new, and there is room for the session.
LEMMA NextIsNew ==
    ASSUME IInv, NEW o \in Objs, sess["c"][o] = "none", mayAllocate
    PROVE  /\ nextID \in IDs /\ nextID # 0 /\ count["c"] \in Nat
           /\ \A p \in Objs : id[p] # nextID
           /\ MaxConcurrency > 0 => Cardinality({p \in Objs : sess["c"][p] = "open"}) < MaxConcurrency
           /\ MaxConnection > 0 => nextID <= MaxConnection
<1>0. CallShape /\ SessShape /\ Counting /\ Listed /\ "c" \in Sides
  BY Zenon DEF IInv, RInv, Sides
<1>1. count["c"] \in Nat /\ count["c"] = Cardinality(opened("c")) /\ Cardinality(Objs) \in Nat
      /\ IsFiniteSet(Objs)
  BY Zenon, <1>0, MuxAssumption, SubsetCounts DEF Counting
<1>2. opened("c") \subseteq Objs \ {o}
  BY Zenon DEF opened
<1>3. Cardinality(opened("c")) <= Cardinality(Objs) - 1
  <2>1. IsFiniteSet(Objs \ {o}) /\ Cardinality(Objs \ {o}) = Cardinality(Objs) - 1
    BY Zenon, <1>1, ElementCounts
  <2>2. Cardinality(opened("c")) <= Cardinality(Objs \ {o})
    BY Zenon, <1>2, <2>1, SubsetCounts
  <2> QED BY Zenon, <2>1, <2>2
<1>4. nextID \in IDs /\ nextID # 0
  BY <1>1, <1>3 DEF nextID, IDs
<1>5. ASSUME NEW p \in Objs PROVE id[p] # nextID
  <2>1. id[p] <= count["c"] /\ id[p] \in IDs \cup {0}
    BY Zenon, <1>0 DEF Counting, CallShape
  <2>2. id[p] \in Nat
    BY <1>1, <2>1 DEF IDs
  <2> QED BY <1>1, <2>1, <2>2 DEF nextID
<1>6. MaxConcurrency > 0 => Cardinality({p \in Objs : sess["c"][p] = "open"}) < MaxConcurrency
  <2> DEFINE L == Live("c")
             P == {p \in Objs : sess["c"][p] = "open"}
             f == [i \in L |-> sessions["c"][i]]
  <2>1. IsFiniteSet(L) /\ Cardinality(L) \in Nat
    <3>1. IsFiniteSet(IDs)
      BY <1>1, IntervalCounts DEF IDs
    <3>2. L \in SUBSET IDs
      BY Zenon DEF Live
    <3> QED BY Zenon, <3>1, <3>2, SubsetCounts
  <2>2. \A i \in L : sessions["c"][i] \in P
    <3> SUFFICES ASSUME NEW i \in L PROVE sessions["c"][i] \in P
      BY Zenon
    <3>1. i \in IDs /\ sessions["c"][i] # NoObj
      BY Zenon DEF Live
    <3>2. sessions["c"][i] \in Objs
      BY <1>0, <3>1 DEF SessShape
    <3> QED BY Zenon, <1>0, <3>1, <3>2 DEF Listed
  <2>3. \A p \in P : \E i \in L : f[i] = p
    <3> SUFFICES ASSUME NEW p \in P PROVE \E i \in L : f[i] = p
      BY Zenon
    <3>1. p \in Objs /\ sessions["c"][id[p]] = p /\ id[p] # 0
      BY Zenon, <1>0 DEF Listed
    <3>2. id[p] \in IDs
      BY Zenon, <1>0, <3>1 DEF CallShape
    <3>3. id[p] \in L
      BY Zenon, <3>1, <3>2, MuxAssumption DEF Live
    <3> QED BY Zenon, <3>1, <3>3
  <2>4. f \in [L -> P]
    BY Zenon, <2>2
  <2> HIDE DEF f, L, P
  <2>5. Cardinality(P) <= Cardinality(L) /\ IsFiniteSet(P)
    BY Zenon, <2>1, <2>3, <2>4, CoverCounts
  <2>6. Cardinality(P) \in Nat
    BY Zenon, <2>5, SubsetCounts
  <2>7. MaxConcurrency \in Nat /\ (MaxConcurrency > 0 => Cardinality(L) < MaxConcurrency)
    BY Zenon, MuxAssumption DEF mayAllocate, L
  <2>8. MaxConcurrency > 0 => Cardinality(P) < MaxConcurrency
    BY <2>1, <2>5, <2>6, <2>7
  <2> QED BY Zenon, <2>8 DEF P
<1>7. MaxConnection > 0 => nextID <= MaxConnection
  <2>1. MaxConnection \in Nat /\ (MaxConnection > 0 => count["c"] < MaxConnection)
    BY Zenon, MuxAssumption DEF mayAllocate
  <2> QED BY <1>1, <2>1 DEF nextID
<1> QED BY Zenon, <1>1, <1>4, <1>5, <1>6, <1>7

\* One more session is counted.
LEMMA OneMore ==
    ASSUME Counting, NEW d \in Sides, NEW o \in Objs, Adds(d, o)
    PROVE  /\ count' \in [Sides -> Nat] /\ \A e \in Sides : count'[e] = Cardinality(opened(e)')
           /\ count'[d] = count[d] + 1 /\ \A e \in Sides : e # d => count'[e] = count[e]
<1>0. /\ sess[d][o] = "none" /\ sess'[d][o] = "open" /\ count' = [count EXCEPT ![d] = @ + 1]
      /\ \A e \in Sides, p \in Objs : sess'[e][p] = sess[e][p] \/ (e = d /\ p = o)
  BY Zenon DEF Adds
<1>1. count \in [Sides -> Nat] /\ \A e \in Sides : count[e] = Cardinality(opened(e))
  BY Zenon DEF Counting
<1>2. /\ count' \in [Sides -> Nat] /\ count'[d] = count[d] + 1
      /\ \A e \in Sides : e # d => count'[e] = count[e]
  BY <1>0, <1>1
<1>3. opened(d)' = opened(d) \cup {o} /\ o \notin opened(d)
  <2>1. "open" # "none"
    BY Zenon
  <2> QED BY Zenon, <1>0, <2>1 DEF opened
<1>4. \A e \in Sides : e # d => opened(e)' = opened(e)
  BY Zenon, <1>0 DEF opened
<1>5. Cardinality(opened(d)') = count[d] + 1
  <2>1. IsFiniteSet(opened(d))
    <3>1. opened(d) \in SUBSET Objs
      BY Zenon DEF opened
    <3> QED BY Zenon, <3>1, MuxAssumption, SubsetCounts
  <2>2. Cardinality(opened(d) \cup {o}) = Cardinality(opened(d)) + 1
    BY Zenon, <1>3, <2>1, ElementCounts
  <2> QED BY Zenon, <1>1, <1>3, <2>2
<1> QED BY Zenon, <1>1, <1>2, <1>4, <1>5

\* A session of the client is counted, and its ID is the count.
LEMMA ClientCounts ==
    ASSUME IInv, NEW o \in Objs, Adds("c", o), mayAllocate, id' = [id EXCEPT ![o] = nextID]
    PROVE  Counting'
<1> DEFINE n == nextID
           P == {p \in Objs : sess["c"][p] = "open"}
<1>0. CallShape /\ Counting /\ "c" \in Sides
  BY Zenon DEF IInv, RInv, Sides
<1>1. /\ sess["c"][o] = "none" /\ sess'["c"][o] = "open"
      /\ \A e \in Sides, p \in Objs : sess'[e][p] = sess[e][p] \/ (e = "c" /\ p = o)
  BY Zenon DEF Adds
<1>2. /\ n \in IDs /\ n # 0 /\ n = count["c"] + 1 /\ \A p \in Objs : id[p] # n
      /\ MaxConcurrency > 0 => Cardinality(P) < MaxConcurrency
      /\ MaxConnection > 0 => n <= MaxConnection
  BY Zenon, <1>1, NextIsNew DEF nextID
<1>3. id'[o] = n /\ \A p \in Objs : p # o => id'[p] = id[p]
  BY Zenon, <1>0 DEF CallShape
<1> HIDE DEF n
<1>4. /\ count' \in [Sides -> Nat] /\ \A e \in Sides : count'[e] = Cardinality(opened(e)')
      /\ count'["c"] = count["c"] + 1
  BY Zenon, <1>0, OneMore
<1>5. ASSUME NEW p \in Objs PROVE id'[p] <= count'["c"]
  <2>1. count["c"] \in Nat /\ id[p] <= count["c"] /\ id[p] \in IDs \cup {0}
    BY Zenon, <1>0 DEF Counting, CallShape
  <2>2. id[p] \in Int
    BY <2>1, IDsCount
  <2> QED BY <1>2, <1>3, <1>4, <2>1, <2>2
<1>6. \A p, r \in Objs : id'[p] = id'[r] /\ id'[p] # 0 => p = r
  BY Zenon, <1>0, <1>2, <1>3 DEF Counting
<1>7. MaxConcurrency > 0 => Cardinality({p \in Objs : sess'["c"][p] = "open"}) <= MaxConcurrency
  <2>1. {p \in Objs : sess'["c"][p] = "open"} = P \cup {o}
    BY Zenon, <1>0, <1>1
  <2>2. P \in SUBSET Objs
    BY Zenon
  <2> HIDE DEF P
  <2>3. IsFiniteSet(P)
    BY Zenon, <2>2, MuxAssumption, SubsetCounts
  <2>4. Cardinality(P) \in Nat /\ IsFiniteSet(P \cup {o}) /\ Cardinality(P \cup {o}) \in Nat
    BY Zenon, <2>3, ElementCounts, SubsetCounts
  <2>5. Cardinality(P \cup {o}) <= Cardinality(P) + 1
    BY <2>3, <2>4, ElementCounts
  <2>6. MaxConcurrency \in Nat
    BY Zenon, MuxAssumption
  <2>7. MaxConcurrency > 0 => Cardinality(P \cup {o}) <= MaxConcurrency
    BY <1>2, <2>4, <2>5, <2>6
  <2> QED BY Zenon, <2>1, <2>7
<1>8. MaxConnection > 0 => count'["c"] <= MaxConnection
  BY Zenon, <1>2, <1>4
<1> QED BY Zenon, <1>4, <1>5, <1>6, <1>7, <1>8 DEF Counting

\* A session of the server is counted there.
LEMMA ServerCounts == ASSUME IInv, NEW o \in Objs, Adds("s", o), id' = id PROVE Counting'
<1>0. Counting /\ "c" \in Sides /\ "s" \in Sides /\ "c" # "s"
  BY DEF IInv, Sides
<1>1. /\ count' \in [Sides -> Nat] /\ \A e \in Sides : count'[e] = Cardinality(opened(e)')
      /\ count'["c"] = count["c"]
  BY Zenon, <1>0, OneMore
<1>2. {p \in Objs : sess'["c"][p] = "open"} = {p \in Objs : sess["c"][p] = "open"}
  BY Zenon, <1>0 DEF Adds
<1> QED BY Zenon, <1>0, <1>1, <1>2 DEF Counting

-----------------------------------------------------------------------------
(* The carrier. *)

\* A carrier without sessions.
LEMMA InitIsI == Init => IInv
<1> SUFFICES ASSUME Init PROVE IInv
  BY Zenon
<1> USE DEF Init
<1>1. 0 \in IDs \cup {0} /\ "c" \in Sides /\ "s" \in Sides /\ <<>> \in Seq(Frames)
      /\ <<>> \in Seq(Objs \X Nat) /\ DOMAIN <<>> = {} /\ Len(<<>>) = 0
  BY DEF Sides
<1>2. CallShape
  BY Zenon, <1>1 DEF CallShape
<1>3. SessShape
  BY Zenon DEF SessShape, NoSessions
<1>4. CopyShape
  <2>1. 0 \in Nat /\ \A d \in Sides : 0 <= MaxChunks(d)
    BY MuxAssumption DEF MaxChunks
  <2> QED BY Zenon, <2>1 DEF CopyShape
<1>5. GotShape
  BY Zenon, <1>1 DEF GotShape
<1>6. LinkShape
  <2>1. Len(<<>>) <= LinkSize
    BY MuxAssumption
  <2> QED BY Zenon, <1>1, <2>1 DEF LinkShape
<1>7. LoopShape
  <2>1. Reading \in [pc : {"read", "reply", "down"}, id : IDs \cup {0}] /\ Reading.pc # "reply"
    BY Zenon DEF Reading
  <2> QED BY Zenon, <2>1 DEF LoopShape
<1>8. Opening
  <2>1. "idle" # "ok" /\ "first" # "none"
    BY Zenon
  <2> QED BY Zenon, <1>1, <2>1 DEF Opening
<1>9. Counting
  <2>1. \A d \in Sides : opened(d) = {}
    BY Zenon DEF opened
  <2>2. {o \in Objs : sess["c"][o] = "open"} = {}
    <3>1. "none" # "open"
      BY Zenon
    <3> QED BY Zenon, <1>1, <3>1
  <2>3. Cardinality({}) = 0 /\ 0 \in Nat /\ 0 <= MaxConcurrency /\ 0 <= MaxConnection /\ 0 <= 0
    BY EmptyCounts, MuxAssumption
  <2>4. count \in [Sides -> Nat] /\ \A d \in Sides : count[d] = Cardinality(opened(d))
    BY Zenon, <2>1, <2>3
  <2> QED BY Zenon, <1>1, <2>2, <2>3, <2>4 DEF Counting
<1>10. Listed
  <2>1. "none" # "open" /\ "watch" # "gone"
    BY Zenon
  <2> QED BY Zenon, <2>1 DEF Listed, NoSessions
<1>11. Named /\ News
  BY Zenon, <1>1 DEF Named, News, hasNew
<1>12. Unsent
  BY Zenon, <1>1 DEF Unsent, none
<1>13. Lines
  BY Zenon, <1>1 DEF Lines, Line
<1>14. Flows
  <2>1. ASSUME NEW d \in Sides, NEW o \in Objs
        PROVE  Flow(<<>>, o, "none", 0, 0)
    BY Zenon, <1>1 DEF Flow, hasNew
  <2>2. \A d \in Sides, o \in Objs :
            /\ net[Peer(d)] = <<>> /\ sess[d][o] = "none" /\ Len(got[d][o]) = 0 /\ sent[Peer(d)][o] = 0
    BY Zenon, <1>1, Peers
  <2> QED BY Zenon, <2>1, <2>2 DEF Flows
<1>15. NewOnWay
  <2>1. "none" # "copy"
    BY Zenon
  <2> QED BY Zenon, <1>1, <2>1 DEF NewOnWay
<1>16. Arrived
  <2>1. ASSUME NEW d \in Sides, NEW o \in Objs
        PROVE  \E n \in 0 .. sent[Peer(d)][o] : got[d][o] = Chunks(o, n)
    <3>1. sent[Peer(d)][o] = 0 /\ got[d][o] = <<>>
      BY Zenon, Peers
    <3>2. 0 \in 0 .. 0 /\ Chunks(o, 0) = <<>>
      BY ChunksGrow
    <3> QED BY Zenon, <3>1, <3>2
  <2> QED BY Zenon, <2>1 DEF Arrived
<1> QED BY Zenon, <1>2, <1>3, <1>4, <1>5, <1>6, <1>7, <1>8, <1>9, <1>10, <1>11, <1>12, <1>13,
    <1>14, <1>15, <1>16 DEF IInv, RInv

\* IInv is inductive.
LEMMA NextKeepsI == IInv /\ [Next]_vars => IInv'
<1> SUFFICES ASSUME IInv, [Next]_vars PROVE RInv' /\ Counting'
  BY Zenon DEF IInv
<1> SUFFICES \/ RInv' /\ Fewer
             \/ RInv' /\ Counting'
  BY Zenon, FewerOpen DEF IInv
<1>1. ASSUME NEW o \in Objs, CheckFull(o) \/ First(o) PROVE RInv' /\ Fewer
  BY Zenon, <1>1, CheckFullStep, FirstStep
<1>2. ASSUME NEW o \in Objs, Allocate(o)
      PROVE  (RInv' /\ Fewer) \/ (RInv' /\ Counting')
  <2>1. sess["c"][o] = "none"
    <3>1. caller[o] # "ok"
      BY Zenon, <1>2 DEF Allocate
    <3> QED BY Zenon, <3>1 DEF IInv, RInv, Opening
  <2>2. mayAllocate => nextID \in IDs /\ \A p \in Objs : id[p] # nextID
    BY Zenon, <2>1, NextIsNew
  <2>3. RInv' /\ (Fewer \/ (Adds("c", o) /\ mayAllocate /\ id' = [id EXCEPT ![o] = nextID]))
    BY Zenon, <1>2, <2>2, AllocateStep
  <2> QED BY Zenon, <2>3, ClientCounts
<1>3. ASSUME NEW d \in Sides, NEW o \in Objs,
             Copy(d, o) \/ InputEnds(d, o) \/ CopyStep(d, o) \/ OutputDies(d, o)
      PROVE  RInv' /\ Fewer
  BY Zenon, <1>3, CopyStepKeeps, WriteEndStep, CopyClosesStep, OutputDiesStep
     DEF InputEnds, CopyStep, CopyFails
<1>4. CASE RecvNew
  BY Zenon, <1>4, RecvNewStep, ServerCounts
<1>5. CASE RecvNewFails
  BY Zenon, <1>5, RecvNewFailsStep
<1>6. ASSUME NEW d \in Sides, ReadStep(d) \/ Tick(d) \/ MonitorEnds(d) PROVE RInv' /\ Fewer
  BY Zenon, <1>6, RecvKeepStep, ReplyStep, RecvEndStep, ReadFailsStep, TickStep, MonitorEndsStep
     DEF ReadStep
<1>7. CASE Break
  BY Zenon, <1>7, BreakStep
<1>8. CASE UNCHANGED vars
  <2>1. /\ CallShape' /\ Opening'
        /\ UNCHANGED <<id, mgrVars, copyVars, got, outDead, net, broken, rl, done, mon>>
    BY Zenon, <1>8 DEF IInv, RInv, vars, mgrVars, copyVars, CallShape, Opening
  <2> QED BY Zenon, <2>1, CallMoves
<1> QED BY Zenon, <1>1, <1>2, <1>3, <1>4, <1>5, <1>6, <1>7, <1>8 DEF Next

\* The invariant says what StreamPrefix says.
LEMMA IImpliesStreams == IInv => StreamPrefix
<1> SUFFICES ASSUME IInv PROVE StreamPrefix
  BY Zenon
<1>0. CallShape /\ SessShape /\ CopyShape /\ LinkShape /\ LoopShape /\ Counting /\ Listed /\ "c" \in Sides
  BY Zenon DEF IInv, RInv, Sides
<1>1. count \in [Sides -> 0 .. Cardinality(Objs)]
  <2>1. ASSUME NEW d \in Sides PROVE count[d] \in 0 .. Cardinality(Objs)
    <3>1. opened(d) \in SUBSET Objs
      BY Zenon DEF opened
    <3>2. /\ Cardinality(opened(d)) <= Cardinality(Objs) /\ Cardinality(Objs) \in Nat
      BY Zenon, <3>1, MuxAssumption, SubsetCounts
    <3>3. count[d] = Cardinality(opened(d)) /\ count[d] \in Nat
      BY Zenon, <1>0 DEF Counting
    <3> QED BY <3>2, <3>3
  <2> QED BY Zenon, <1>0, <2>1 DEF Counting
<1>2. \A d \in Sides : sent[d] \in [Objs -> 0 .. MaxChunks(d)]
  <2>1. ASSUME NEW d \in Sides, NEW o \in Objs PROVE sent[d][o] \in 0 .. MaxChunks(d)
    <3>1. sent[d][o] \in Nat /\ sent[d][o] <= MaxChunks(d)
      BY Zenon, <1>0 DEF CopyShape
    <3>2. MaxChunks(d) \in Nat
      BY Zenon, MuxAssumption DEF MaxChunks
    <3> QED BY <3>1, <3>2
  <2> QED BY Zenon, <1>0, <2>1 DEF CopyShape
<1>3. \A d \in Sides : \A o \in Objs : mon[d] = "gone" => mgrClosed[d] /\ sess[d][o] # "open"
  <2>1. ASSUME NEW d \in Sides, mon[d] = "gone" PROVE mgrClosed[d]
    BY Zenon, <1>0, <2>1 DEF Listed
  <2>2. ASSUME NEW d \in Sides, mgrClosed[d] PROVE \A o \in Objs : sess[d][o] # "open"
    BY Zenon, <1>0, <2>2 DEF Listed
  <2> QED BY Zenon, <2>1, <2>2
<1>4. \A d \in Sides : \A i \in Live(d) : sess[d][sessions[d][i]] = "open"
  BY Zenon, <1>0 DEF Listed, Live
<1>5. /\ MaxConcurrency > 0 => Cardinality({o \in Objs : sess["c"][o] = "open"}) <= MaxConcurrency
      /\ MaxConnection > 0 => Cardinality({o \in Objs : sess["c"][o] # "none"}) <= MaxConnection
  BY Zenon, <1>0 DEF Counting, opened
<1>6. TypeOK
  BY Zenon, <1>0, <1>1, <1>2, <1>3, <1>4, <1>5 DEF TypeOK, CallShape, SessShape, CopyShape,
     LinkShape, LoopShape
<1>7. \A d \in Sides : \A o \in Objs :
          Len(got[d][o]) <= sent[Peer(d)][o] /\ got[d][o] = Chunks(o, Len(got[d][o]))
  BY Zenon, Count
<1> QED BY Zenon, <1>6, <1>7 DEF StreamPrefix

\* So no session is open behind a closed manager.
LEMMA IImpliesSpares == IInv => IdleCloseSparesSessions
BY Zenon DEF IInv, RInv, Listed, IdleCloseSparesSessions

\* The End frame of the session that it reaches finds its data delivered.
LEMMA EndFindsData ==
    ASSUME IInv, NEW d \in Sides, RecvEnd(d), NEW f, f = Head(net[Peer(d)]),
           f.o # NoObj, sessions[d][f.id] = f.o
    PROVE  Len(got[d][f.o]) = f.k
<1> DEFINE q == net[Peer(d)]
           o == f.o
           m == sent[Peer(d)][o]
           n == Len(got[d][o])
<1>0. SessShape /\ LinkShape /\ Named /\ Listed /\ Lines /\ Flows
  BY Zenon DEF IInv, RInv
<1>1. Takes(d, "end") /\ broken' = broken /\ id' = id
  BY Zenon DEF RecvEnd
<1>2. q \in Seq(Frames) /\ q # <<>>
  BY Zenon, <1>0, <1>1, Reads
<1>3. f.t = "end" /\ f.id \in IDs /\ f \in Frames
  <2>1. LET g == Head(net[Peer(d)]) IN g \in Frames /\ g.t = "end" /\ g.id \in IDs
    BY Zenon, <1>0, <1>1, Reads
  <2> QED BY Zenon, <2>1
<1>4. o \in Objs
  BY Zenon, <1>3 DEF Frames
<1>5. sess[d][o] = "open" /\ sess[d][o] # "closed"
  <2>1. sess[d][o] = "open"
    <3>1. sess[d][sessions[d][f.id]] = "open"
      BY Zenon, <1>0, <1>3, ListedIsOpen
    <3> QED BY Zenon, <3>1
  <2> QED BY Zenon, <2>1
<1>6. reads(d)
  BY Zenon, <1>1 DEF Takes, reads
<1>7. Flow(q, o, "open", n, m)
  BY Zenon, <1>0, <1>4, <1>5, <1>6 DEF Flows
<1>8. n \in Nat /\ m \in Nat /\ n <= m
  BY Zenon, <1>4, Count
<1>9. Line(q, o, m, cp[Peer(d)][o])
  BY Zenon, <1>0, <1>4, Peers DEF Lines
<1> HIDE DEF n, m, q
<1>10. n = m /\ Head(q).k = m
  BY Zenon, <1>2, <1>3, <1>7, <1>8, <1>9, TakeEnd DEF q
<1> QED BY Zenon, <1>10 DEF n, q

\* The strengthened invariant holds in every state that the two workers reach.
LEMMA Inductive == Spec => []IInv
BY InitIsI, NextKeepsI, PTL DEF Spec

\* What reaches the output of a session is what the other end of that session sent,
\* in order and without gaps, whatever is reordered between the goroutines of the
\* two workers, for any number of calls, any limits and any length of the links.
THEOREM MuxStreamPrefix == Spec => []StreamPrefix
BY Inductive, IImpliesStreams, PTL

\* The End frame that reaches a session of common/mux finds all the data that was
\* sent before it delivered.
THEOREM MuxEndAfterData == Spec => EndAfterData
<1>1. ASSUME IInv, [Next]_vars
      PROVE  [\A d \in Sides : RecvEnd(d) =>
                 LET f == Head(net[Peer(d)])
                     o == sessions[d][f.id] IN
                 f.o # NoObj /\ o = f.o => Len(got[d][o]) = f.k]_vars
  <2>1. ASSUME NEW d \in Sides, RecvEnd(d), NEW f, f = Head(net[Peer(d)]),
               f.o # NoObj, sessions[d][f.id] = f.o
        PROVE  Len(got[d][f.o]) = f.k
    BY Zenon, <1>1, <2>1, EndFindsData
  <2> QED BY Zenon, <2>1
<1> QED BY <1>1, Inductive, PTL DEF Spec, EndAfterData

\* CloseIfNoSessionAndIdle and the monitor's tick end no session: a side that has
\* closed its manager, and not yet its links, has no open session.
THEOREM MuxIdleCloseSparesSessions == Spec => []IdleCloseSparesSessions
BY Inductive, IImpliesSpares, PTL
====
