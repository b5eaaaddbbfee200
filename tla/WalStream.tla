----------------------------- MODULE WalStream -----------------------------
(***************************************************************************)
(* transport/internet/xdrive: one direction of a connection that is carried*)
(* by objects in a remote folder.  walWriter cuts the bytes into numbered  *)
(* segments and uploads several of them at once; walReader of the peer     *)
(* polls the folder, fetches runs of segments and hands them to Conn.Read  *)
(* in order, until it meets the end marker, the marker of a segment that   *)
(* could not be stored, or a hole that stays too long.                     *)
(*                                                                         *)
(* A byte is its position in the stream.  The storage (a folder, a drive)  *)
(* is external: a Put appears at once, later, or not at all; one that      *)
(* reports an error may have stored the object all the same.               *)
(***************************************************************************)
EXTENDS Integers, FiniteSets, SequencesExt

CONSTANTS
    MaxBytes,       \* bound: bytes the application writes
    segmentBytes, concurrency,
    maxCoalescedTicks,
    MaxFaults       \* bound: storage calls that fail

ASSUME WalAssumption ==
    /\ MaxBytes \in Nat /\ MaxFaults \in Nat /\ maxCoalescedTicks \in Nat
    /\ segmentBytes \in Nat \ {0} /\ concurrency \in Nat \ {0}

VARIABLES
    written,            \* bytes that Write took
    wbuf, wseq, lastSize, held, wclosed, werr,  \* the fields of walWriter
    up, chunk,          \* per segment: its upload goroutine, and its bytes
    wpc, wret,          \* the call of Close, and what it returned
    wctx,               \* the writer's context is done
    store,              \* external: the objects in the folder
    rseq, ch, hole,     \* the fields of walReader
    rpc, pending, batch,
    discards,           \* names on their way to storage.Delete
    rend,               \* why the reader ended
    got,                \* bytes that Conn.Read returned
    faults, stored, silent     \* history

writerVars == <<written, wbuf, wseq, lastSize, held, wclosed, werr, chunk>>
closeVars == <<wpc, wret>>
pollVars == <<hole, pending, batch, rpc, rend>>
readerVars == <<rseq, ch, pollVars, discards>>
history == <<faults, stored, silent>>
walVars == <<writerVars, up, closeVars, wctx, store, readerVars, got, history>>

Segments == 0 .. MaxBytes      \* numbers of segments and of the end marker
Kinds == {"seg", "end", "err"}
Object(s, k) == <<s, k>>
None == "none"

WalTypeOK ==
    /\ written \in 0 .. MaxBytes
    /\ wbuf \in Seq(1 .. MaxBytes) /\ Len(wbuf) < segmentBytes
    /\ wseq \in Segments /\ lastSize \in 0 .. Len(wbuf) /\ held \in 0 .. maxCoalescedTicks
    /\ wclosed \in BOOLEAN /\ werr \in BOOLEAN /\ wctx \in BOOLEAN
    /\ up \in [Segments -> {"none", "queued", "putting", "marking", "done"}]
    /\ chunk \in [Segments -> Seq(1 .. MaxBytes)]
    /\ wpc \in {"open", "wait", "end", "over"} /\ wret \in {None, "nil", "err"}
    /\ store \subseteq Segments \X Kinds
    /\ rseq \in Segments /\ Len(ch) <= concurrency
    /\ hole \in {"no", "since", "late"}
    /\ rpc \in {"poll", "next", "fetch", "push", "over"}
    /\ \A s \in DOMAIN pending : s \in Segments /\ pending[s] \in Kinds
    /\ batch \in 0 .. concurrency
    /\ rend \in {None, "eof", "err", "cancelled"}
    /\ discards \subseteq Segments \X Kinds
    /\ faults \in 0 .. MaxFaults

WalInit ==
    /\ written = 0 /\ wbuf = <<>> /\ wseq = 0 /\ lastSize = 0 /\ held = 0
    /\ wclosed = FALSE /\ werr = FALSE /\ wctx = FALSE
    /\ up = [s \in Segments |-> "none"]
    /\ chunk = [s \in Segments |-> <<>>]
    /\ wpc = "open" /\ wret = None
    /\ store = {}
    /\ rseq = 0 /\ ch = <<>> /\ hole = "no" /\ rpc = "poll" /\ pending = <<>> /\ batch = 0
    /\ discards = {} /\ rend = None /\ got = <<>>
    /\ faults = 0 /\ stored = {} /\ silent = FALSE

-----------------------------------------------------------------------------
(* walWriter *)

Least(a, b) == IF a < b THEN a ELSE b

\* k times flushLocked on the bytes b: segments wseq .. wseq + k - 1 are cut
\* off and an upload goroutine is started for each.
flushLocked(b, k) ==
    LET new == wseq .. (wseq + k - 1)
        from(s) == (s - wseq) * segmentBytes
    IN  /\ chunk' = [s \in Segments |->
                       IF s \in new THEN SubSeq(b, from(s) + 1, Least(from(s) + segmentBytes, Len(b)))
                                    ELSE chunk[s]]
        /\ up' = [s \in Segments |-> IF s \in new THEN "queued" ELSE up[s]]
        /\ wseq' = wseq + k
        /\ wbuf' = SubSeq(b, k * segmentBytes + 1, Len(b))
        /\ IF k > 0 THEN lastSize' = Len(wbuf') /\ held' = 0
                    ELSE UNCHANGED <<lastSize, held>>

\* Conn.Write and walWriter.Write of n bytes.
Write(n) ==
    /\ ~werr /\ ~wclosed
    /\ written + n <= MaxBytes
    /\ written' = written + n
    /\ LET b == wbuf \o [i \in 1 .. n |-> written + i]
       IN  flushLocked(b, Len(b) \div segmentBytes)
    /\ UNCHANGED <<wclosed, werr, closeVars, wctx, store, readerVars, got, faults, stored, silent>>

\* A tick of flushLoop: readyToFlush, and flushLocked.
Tick ==
    /\ ~wctx /\ ~wclosed /\ ~werr /\ wbuf # <<>>
    /\ IF Len(wbuf) > lastSize /\ held < maxCoalescedTicks
         THEN /\ held' = held + 1 /\ lastSize' = Len(wbuf)
              /\ UNCHANGED <<wbuf, wseq, chunk, up>>
         ELSE flushLocked(wbuf, 1)
    /\ UNCHANGED <<written, wclosed, werr, closeVars, wctx, store, readerVars, got,
                   faults, stored, silent>>

\* upload: take a slot of sem, or see the context done and give up in silence.
UploadStart(s) ==
    /\ up[s] = "queued"
    /\ \/ /\ Cardinality({t \in Segments : up[t] \in {"putting", "marking"}}) < concurrency
          /\ up' = [up EXCEPT ![s] = "putting"]
          /\ UNCHANGED silent
       \/ /\ wctx
          /\ up' = [up EXCEPT ![s] = "done"]
          /\ silent' = TRUE
    /\ UNCHANGED <<writerVars, closeVars, wctx, store, readerVars, got, faults, stored>>

\* A storage call may fail; with the context done it may do so at any time.
Fault ==
    \/ faults < MaxFaults /\ faults' = faults + 1
    \/ wctx /\ UNCHANGED faults

\* An object appears in the folder.
Stored(o) == store' = store \cup {o} /\ stored' = stored \cup {o}
Lost == UNCHANGED <<store, stored>>

Put(s) ==
    /\ up[s] = "putting"
    /\ \/ /\ Stored(Object(s, "seg"))
          /\ up' = [up EXCEPT ![s] = "done"]
          /\ UNCHANGED <<werr, faults, silent>>
       \/ /\ Fault
          /\ \/ Lost /\ UNCHANGED silent
             \/ Stored(Object(s, "seg")) /\ silent' = TRUE
          /\ up' = [up EXCEPT ![s] = "marking"]
          /\ werr' = TRUE
    /\ UNCHANGED <<written, wbuf, wseq, lastSize, held, wclosed, chunk, closeVars, wctx,
                   readerVars, got>>

\* The marker of a segment that could not be stored; its error is ignored.
Mark(s) ==
    /\ up[s] = "marking"
    /\ up' = [up EXCEPT ![s] = "done"]
    /\ \/ Stored(Object(s, "err")) /\ UNCHANGED <<faults, silent>>
       \/ Fault /\ Lost /\ silent' = TRUE
    /\ UNCHANGED <<writerVars, closeVars, wctx, readerVars, got>>


flushedAtClose == (Len(wbuf) + segmentBytes - 1) \div segmentBytes

\* walWriter.Close up to wg.Wait.
CloseCall ==
    /\ ~wclosed
    /\ wclosed' = TRUE
    /\ wpc' = "wait"
    /\ flushLocked(wbuf, IF werr THEN 0 ELSE flushedAtClose)
    /\ UNCHANGED <<written, werr, wret, wctx, store, readerVars, got, faults, stored, silent>>

\* Mutant: Close does not wait for the uploads.
uploadsDoneNot == TRUE

uploadsDone == \A s \in Segments : up[s] \in {"none", "done"}

CloseWait ==
    /\ wpc = "wait" /\ uploadsDone
    /\ wpc' = IF werr THEN "over" ELSE "end"
    /\ wret' = IF werr THEN "err" ELSE None
    /\ UNCHANGED <<writerVars, up, wctx, store, readerVars, got, history>>

\* The end marker, and what Close returns; Conn.Close then cancels the context.
CloseEnd ==
    /\ wpc = "end"
    /\ wpc' = "over"
    /\ \/ Stored(Object(wseq, "end")) /\ wret' = "nil" /\ UNCHANGED <<faults, silent>>
       \/ Fault /\ (Stored(Object(wseq, "end")) \/ Lost) /\ wret' = "err" /\ silent' = TRUE
    /\ UNCHANGED <<writerVars, up, wctx, readerVars, got>>

\* Listener.Close cancels the contexts of the connections it made.
Cancel ==
    /\ ~wctx /\ faults < MaxFaults
    /\ wctx' = TRUE /\ faults' = faults + 1
    /\ UNCHANGED <<writerVars, up, closeVars, store, readerVars, got, stored, silent>>

WriterStep ==
    \/ \E s \in Segments : UploadStart(s) \/ Put(s) \/ Mark(s)
    \/ CloseWait \/ CloseEnd

-----------------------------------------------------------------------------
(* walReader *)

Over(why) == rpc' = "over" /\ rend' = why

\* discard drops a name that finds the channel full.
Discard(o) ==
    discards' = IF Cardinality(discards) < 4 * concurrency THEN discards \cup {o} ELSE discards

\* poll: the listing, with one entry per number, whichever comes last; and
\* the watch for a hole before segments that are there.
Poll ==
    /\ rpc = "poll"
    /\ LET seqs == {o[1] : o \in store}
       IN  /\ \E p \in [seqs -> Kinds] :
                 /\ \A s \in seqs : Object(s, p[s]) \in store
                 /\ pending' = p
           /\ IF rseq \notin seqs /\ \E s \in seqs : s > rseq
                THEN IF hole = "late"
                       THEN Over("err") /\ UNCHANGED hole
                       ELSE hole' = "since" /\ rpc' = "next" /\ UNCHANGED rend
                ELSE /\ hole' = IF seqs = {} THEN hole ELSE "no"
                     /\ rpc' = "next" /\ UNCHANGED rend
    /\ UNCHANGED <<writerVars, up, closeVars, wctx, store, rseq, ch, batch, discards, got, history>>

\* A failed List ends the reader.
PollFails ==
    /\ rpc = "poll"
    /\ faults < MaxFaults /\ faults' = faults + 1
    /\ Over("err")
    /\ UNCHANGED <<writerVars, up, closeVars, wctx, store, rseq, ch, hole, pending, batch,
                   discards, got, stored, silent>>

\* holeTimeout passes.
HoleTimeout ==
    /\ hole = "since" /\ hole' = "late"
    /\ UNCHANGED <<writerVars, up, closeVars, wctx, store, rseq, ch, pending, batch, rpc, rend,
                   discards, got, history>>

Entry(s) == IF s \in DOMAIN pending THEN pending[s] ELSE None

\* Mutant: a batch goes on over a gap.
runOverGap(n) == \A i \in 0 .. (n - 1) : Entry(rseq + i) \in {"seg"} \cup (IF i > 0 THEN {None} ELSE {})

run(n) == \A i \in 0 .. (n - 1) : Entry(rseq + i) = "seg"

\* The segments nextBatch takes.
batchSize ==
    CHOOSE n \in 0 .. concurrency : run(n) /\ (n < concurrency => ~run(n + 1))

\* Mutant: the marker of a lost segment is taken for nothing.
endsStreamOnly(k) == k = "end"

endsReader(k) == k \in {"err", "end"}

\* The loop of poll: a marker, the end, nothing more, or a batch.
NextBatch ==
    /\ rpc = "next"
    /\ IF endsReader(Entry(rseq))
         THEN /\ Over(IF Entry(rseq) = "end" THEN "eof" ELSE "err")
              /\ Discard(Object(rseq, Entry(rseq)))
              /\ UNCHANGED batch
         ELSE /\ batch' = batchSize
              /\ rpc' = IF batchSize = 0 THEN "poll" ELSE "fetch"
              /\ UNCHANGED <<rend, discards>>
    /\ UNCHANGED <<writerVars, up, closeVars, wctx, store, rseq, ch, hole, pending, got, history>>

\* fetch: all of the batch, by Get or from the listing; one that is gone sends
\* the reader back to poll, another failure ends it.
Fetch ==
    /\ rpc = "fetch"
    /\ \/ rpc' = "push" /\ UNCHANGED <<rend, faults>>
       \/ /\ \E i \in 0 .. (batch - 1) : Object(rseq + i, "seg") \notin store
          /\ rpc' = "poll" /\ UNCHANGED <<rend, faults>>
       \/ faults < MaxFaults /\ faults' = faults + 1 /\ Over("err")
    /\ UNCHANGED <<writerVars, up, closeVars, wctx, store, rseq, ch, hole, pending, batch,
                   discards, got, stored, silent>>

Deliver ==
    /\ rpc = "push" /\ Len(ch) < concurrency
    /\ ch' = Append(ch, chunk[rseq])
    /\ rseq' = rseq + 1
    /\ batch' = batch - 1
    /\ rpc' = IF batch = 1 THEN "next" ELSE "push"
    /\ Discard(Object(rseq, "seg"))
    /\ UNCHANGED <<writerVars, up, closeVars, wctx, store, hole, pending, rend, got, history>>

\* discardLoop; the error of Delete is ignored.
Delete(o) ==
    /\ o \in discards
    /\ discards' = discards \ {o}
    /\ \/ store' = store \ {o} /\ UNCHANGED faults
       \/ faults < MaxFaults /\ faults' = faults + 1 /\ UNCHANGED store
    /\ UNCHANGED <<writerVars, up, closeVars, wctx, rseq, ch, pollVars, got, stored, silent>>

\* Conn.Read: the next chunk.
ConnRead ==
    /\ ch # <<>>
    /\ got' = got \o Head(ch)
    /\ ch' = Tail(ch)
    /\ UNCHANGED <<writerVars, up, closeVars, wctx, store, rseq, pollVars, discards, history>>

\* The reader's own connection is closed: its context is done.
ReaderCancel ==
    /\ rpc \in {"poll", "push"}
    /\ Over("cancelled")
    /\ UNCHANGED <<writerVars, up, closeVars, wctx, store, rseq, ch, hole, pending, batch,
                   discards, got, history>>

\* Listener.collect: the folder of a session it takes for abandoned.
Collect ==
    /\ store # {} /\ faults < MaxFaults /\ faults' = faults + 1
    /\ store' = {} /\ silent' = TRUE
    /\ UNCHANGED <<writerVars, up, closeVars, wctx, readerVars, got, stored>>

ReaderStep == Poll \/ NextBatch \/ Fetch \/ Deliver \/ ConnRead \/ HoleTimeout

WalNext ==
    \/ \E n \in 1 .. MaxBytes : Write(n)
    \/ Tick \/ CloseCall \/ Cancel
    \/ WriterStep
    \/ ReaderStep
    \/ PollFails \/ ReaderCancel \/ Collect
    \/ \E o \in discards : Delete(o)

WalSpec == WalInit /\ [][WalNext]_walVars

\* Goroutines run, tickers tick, storage calls return, and the application
\* reads what there is.
WalFairSpec ==
    /\ WalSpec
    /\ WF_walVars(WriterStep) /\ WF_walVars(Tick)
    /\ WF_walVars(Poll) /\ WF_walVars(NextBatch) /\ WF_walVars(Fetch)
    /\ WF_walVars(Deliver) /\ WF_walVars(ConnRead) /\ WF_walVars(HoleTimeout)

-----------------------------------------------------------------------------
(* Properties *)

Delivered == got \o FlattenSeq(ch)

\* Whatever the order in which uploads finish, objects are listed and segments
\* are fetched, Conn.Read returns the bytes that were written, in order, with
\* none missing and none twice.
WalInOrder ==
    /\ WalTypeOK
    /\ Len(Delivered) <= written
    /\ \A i \in DOMAIN Delivered : Delivered[i] = i


\* When Close returns nil and no context was cancelled, every byte that was
\* written has been stored, and the end marker after them.
CloseReports ==
    wret = "nil" /\ ~wctx =>
        /\ Object(wseq, "end") \in stored
        /\ \A i \in 1 .. written : \E s \in 0 .. (wseq - 1) :
              Object(s, "seg") \in stored /\ i \in ToSet(chunk[s])

\* A writer that is closed brings the reader to an end, of the stream if all was
\* stored and with an error if not, unless the reader cannot know: a marker was
\* lost, the folder cleaned, an upload given up, or a segment stored by a Put
\* that failed.
WalSettles == (wpc = "over" /\ ~silent) ~> (rpc = "over" \/ silent)
=============================================================================
