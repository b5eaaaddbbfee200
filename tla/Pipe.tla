-------------------------------- MODULE Pipe --------------------------------
(***************************************************************************)
(* transport/pipe: the in-memory stream between the two ends of a link.    *)
(*                                                                         *)
(* A pipe is a byte buffer under a mutex, two one-slot notifiers (package  *)
(* common/signal), a done channel (common/signal/done) and a one-slot      *)
(* error channel.  Any number of goroutines write, read, close and         *)
(* interrupt it.  One critical section of the mutex is one step here; so   *)
(* is every channel operation outside it: the notifier sends, the arms of  *)
(* the two select statements.                                              *)
(*                                                                         *)
(* A byte is a pair <<writer, n>>, the n-th byte that writer hands to the  *)
(* pipe, so that order and loss can be stated.  accepted, delivered, lost  *)
(* and released are history: the bytes appended to the pipe, taken out of  *)
(* it by readers, thrown away by Interrupt, and given back to the buffer   *)
(* pool by the writers whose write was refused or discarded.               *)
(***************************************************************************)
EXTENDS Integers, Sequences, FiniteSets

CONSTANTS
    Writers,    \* goroutines that call WriteMultiBuffer
    Readers,    \* goroutines that call ReadMultiBuffer and its timeout form
    Options,    \* the pipeOptions a pipe may be made with
    MaxMB,      \* bound: bytes of one MultiBuffer
    MaxBytes    \* bound: bytes one writer hands to the pipe in all

ASSUME PipeAssumption ==
    /\ Options \subseteq [limit : Int, discardOverflow : BOOLEAN]
    /\ MaxMB \in Nat \ {0}
    /\ MaxBytes \in Nat

VARIABLES
    option,         \* the pipe's limit and overflow mode
    state,          \* open, closed or errord
    data,           \* the bytes buffered
    readSignal,     \* the reader's notifier holds a token
    writeSignal,    \* the writer's notifier holds a token
    done,           \* the done channel is closed
    errChan,        \* the error channel holds an error
    wpc, mb, next,  \* per writer: where it is, the bytes it holds, bytes so far
    rpc, timed, rres,   \* per reader: where it is, which call, its last result
    accepted, delivered, lost, released     \* history

writerVars == <<wpc, mb, next>>
readerVars == <<rpc, timed, rres>>
vars == <<option, state, data, readSignal, writeSignal, done, errChan,
          wpc, mb, next, rpc, timed, rres, accepted, delivered, lost, released>>

Byte == Writers \X (1 .. MaxBytes)
ReadResults == {"none", "data", "EOF", "ErrClosedPipe", "ErrReadTimeout", "error"}

Elems(s) == {s[i] : i \in DOMAIN s}

TypeOK ==
    /\ option \in Options
    /\ state \in {"open", "closed", "errord"}
    /\ data \in Seq(Byte)
    /\ readSignal \in BOOLEAN
    /\ writeSignal \in BOOLEAN
    /\ done \in BOOLEAN
    /\ errChan \in BOOLEAN
    /\ wpc \in [Writers -> {"idle", "try", "wait", "signal"}]
    /\ mb \in [Writers -> Seq(Byte)]
    /\ next \in [Writers -> 0 .. MaxBytes]
    /\ rpc \in [Readers -> {"idle", "try", "wait", "signal"}]
    /\ timed \in [Readers -> BOOLEAN]
    /\ rres \in [Readers -> ReadResults]
    /\ accepted \in Seq(Byte)
    /\ delivered \in Seq(Byte)
    /\ lost \in Seq(Byte)
    /\ released \subseteq Byte

Init ==
    /\ option \in Options
    /\ state = "open"
    /\ data = <<>>
    /\ readSignal = FALSE
    /\ writeSignal = FALSE
    /\ done = FALSE
    /\ errChan = FALSE
    /\ wpc = [w \in Writers |-> "idle"]
    /\ mb = [w \in Writers |-> <<>>]
    /\ next = [w \in Writers |-> 0]
    /\ rpc = [r \in Readers |-> "idle"]
    /\ timed = [r \in Readers |-> FALSE]
    /\ rres = [r \in Readers |-> "none"]
    /\ accepted = <<>>
    /\ delivered = <<>>
    /\ lost = <<>>
    /\ released = {}

-----------------------------------------------------------------------------
(* The state tests. *)

isFull(curSize) == option.limit >= 0 /\ curSize > option.limit

\* Mutant: a closed pipe still takes writes.
writeStateClosed ==
    IF state = "errord" THEN "ErrClosedPipe"
    ELSE IF isFull(Len(data)) THEN "errBufferFull" ELSE "nil"

\* getState(false), what a writer finds under the lock.
writeState ==
    IF state # "open" THEN "ErrClosedPipe"
    ELSE IF isFull(Len(data)) THEN "errBufferFull" ELSE "nil"

\* getState(true), what a reader finds under the lock.
readState ==
    CASE state = "open"   -> "nil"
      [] state = "closed" -> IF data # <<>> THEN "nil" ELSE "EOF"
      [] state = "errord" -> "ErrClosedPipe"

\* Mutant: the token is not put.
SignalLost(slot) == slot

\* Notifier.Signal fills the slot or finds it full; it never blocks.
Signal(slot) == TRUE

-----------------------------------------------------------------------------
(* WriteMultiBuffer. *)

\* A call with a nonempty MultiBuffer; an empty one returns at once.
WriteCall(w) ==
    /\ wpc[w] = "idle"
    /\ \E n \in 1 .. MaxMB :
          /\ next[w] + n <= MaxBytes
          /\ mb' = [mb EXCEPT ![w] = [i \in 1 .. n |-> <<w, next[w] + i>>]]
          /\ next' = [next EXCEPT ![w] = @ + n]
    /\ wpc' = [wpc EXCEPT ![w] = "try"]
    /\ UNCHANGED <<option, state, data, readSignal, writeSignal, done, errChan,
                   readerVars, accepted, delivered, lost, released>>

\* Mutant: the bytes are forgotten, not released.
releaseNothing(w) ==
    /\ mb' = [mb EXCEPT ![w] = <<>>]
    /\ UNCHANGED released

\* buf.ReleaseMulti(mb): the writer gives its bytes back to the pool.
releaseMulti(w) ==
    /\ released' = released \cup Elems(mb[w])
    /\ mb' = [mb EXCEPT ![w] = <<>>]

\* Mutant: the merge keeps the new buffers only.
MergeMultiNew(dest, src) == src

\* The new buffers go behind the old ones.
MergeMulti(dest, src) == dest \o src

\* writeMultiBufferInternal finds room and appends.
WriteAppend(w) ==
    /\ wpc[w] = "try"
    /\ writeState = "nil"
    /\ data' = MergeMulti(data, mb[w])
    /\ accepted' = accepted \o mb[w]
    /\ mb' = [mb EXCEPT ![w] = <<>>]
    /\ wpc' = [wpc EXCEPT ![w] = "signal"]
    /\ UNCHANGED <<option, state, readSignal, writeSignal, done, errChan, next,
                   readerVars, delivered, lost, released>>

\* The pipe is full: an overflow-discarding pipe drops the payload and reports
\* success, any other blocks the writer.
WriteFull(w) ==
    /\ wpc[w] = "try"
    /\ writeState = "errBufferFull"
    /\ IF option.discardOverflow
       THEN /\ releaseMulti(w)
            /\ wpc' = [wpc EXCEPT ![w] = "idle"]
       ELSE /\ wpc' = [wpc EXCEPT ![w] = "wait"]
            /\ UNCHANGED <<mb, released>>
    /\ UNCHANGED <<option, state, data, readSignal, writeSignal, done, errChan,
                   next, readerVars, accepted, delivered, lost>>

\* The pipe is closed or interrupted: release, then signal readers and return.
WriteClosed(w) ==
    /\ wpc[w] = "try"
    /\ writeState = "ErrClosedPipe"
    /\ releaseMulti(w)
    /\ wpc' = [wpc EXCEPT ![w] = "signal"]
    /\ UNCHANGED <<option, state, data, readSignal, writeSignal, done, errChan,
                   next, readerVars, accepted, delivered, lost>>

\* readSignal.Signal(), then the call returns.
SignalReader(w) ==
    /\ wpc[w] = "signal"
    /\ readSignal' = Signal(readSignal)
    /\ wpc' = [wpc EXCEPT ![w] = "idle"]
    /\ UNCHANGED <<option, state, data, writeSignal, done, errChan, mb, next,
                   readerVars, accepted, delivered, lost, released>>

\* The blocked writer's select takes the token and tries again.
WriterWakes(w) ==
    /\ wpc[w] = "wait"
    /\ writeSignal
    /\ writeSignal' = FALSE
    /\ wpc' = [wpc EXCEPT ![w] = "try"]
    /\ UNCHANGED <<option, state, data, readSignal, done, errChan, mb, next,
                   readerVars, accepted, delivered, lost, released>>

\* The blocked writer's select sees done: release and return ErrClosedPipe.
WriterGivesUp(w) ==
    /\ wpc[w] = "wait"
    /\ done
    /\ releaseMulti(w)
    /\ wpc' = [wpc EXCEPT ![w] = "idle"]
    /\ UNCHANGED <<option, state, data, readSignal, writeSignal, done, errChan,
                   next, readerVars, accepted, delivered, lost>>

-----------------------------------------------------------------------------
(* ReadMultiBuffer and ReadMultiBufferTimeout. *)

ReadCall(r) ==
    /\ rpc[r] = "idle"
    /\ rpc' = [rpc EXCEPT ![r] = "try"]
    /\ timed' \in {[timed EXCEPT ![r] = t] : t \in BOOLEAN}
    /\ UNCHANGED <<option, state, data, readSignal, writeSignal, done, errChan,
                   writerVars, rres, accepted, delivered, lost, released>>

\* readMultiBufferInternal takes the whole buffer.
ReadData(r) ==
    /\ rpc[r] = "try"
    /\ readState = "nil" /\ data # <<>>
    /\ delivered' = delivered \o data
    /\ data' = <<>>
    /\ rres' = [rres EXCEPT ![r] = "data"]
    /\ rpc' = [rpc EXCEPT ![r] = "signal"]
    /\ UNCHANGED <<option, state, readSignal, writeSignal, done, errChan,
                   writerVars, timed, accepted, lost, released>>

\* The pipe is open and empty: the reader goes to its select.
ReadEmpty(r) ==
    /\ rpc[r] = "try"
    /\ readState = "nil" /\ data = <<>>
    /\ rpc' = [rpc EXCEPT ![r] = "wait"]
    /\ UNCHANGED <<option, state, data, readSignal, writeSignal, done, errChan,
                   writerVars, timed, rres, accepted, delivered, lost, released>>

\* The end of the stream, clean or not; the writers are signalled as well.
ReadEnd(r) ==
    /\ rpc[r] = "try"
    /\ readState # "nil"
    /\ rres' = [rres EXCEPT ![r] = readState]
    /\ rpc' = [rpc EXCEPT ![r] = "signal"]
    /\ UNCHANGED <<option, state, data, readSignal, writeSignal, done, errChan,
                   writerVars, timed, accepted, delivered, lost, released>>

\* writeSignal.Signal(), then the call returns.
SignalWriter(r) ==
    /\ rpc[r] = "signal"
    /\ writeSignal' = Signal(writeSignal)
    /\ rpc' = [rpc EXCEPT ![r] = "idle"]
    /\ UNCHANGED <<option, state, data, readSignal, done, errChan, writerVars,
                   timed, rres, accepted, delivered, lost, released>>

\* The waiting reader's select: the notifier, done, an error, the timer.
ReaderWakes(r) ==
    /\ rpc[r] = "wait"
    /\ readSignal
    /\ readSignal' = FALSE
    /\ rpc' = [rpc EXCEPT ![r] = "try"]
    /\ UNCHANGED <<option, state, data, writeSignal, done, errChan, writerVars,
                   timed, rres, accepted, delivered, lost, released>>

ReaderSeesDone(r) ==
    /\ rpc[r] = "wait"
    /\ done
    /\ rpc' = [rpc EXCEPT ![r] = "try"]
    /\ UNCHANGED <<option, state, data, readSignal, writeSignal, done, errChan,
                   writerVars, timed, rres, accepted, delivered, lost, released>>

ReaderTakesError(r) ==
    /\ rpc[r] = "wait"
    /\ ~timed[r]
    /\ errChan
    /\ errChan' = FALSE
    /\ rres' = [rres EXCEPT ![r] = "error"]
    /\ rpc' = [rpc EXCEPT ![r] = "idle"]
    /\ UNCHANGED <<option, state, data, readSignal, writeSignal, done,
                   writerVars, timed, accepted, delivered, lost, released>>

ReaderTimesOut(r) ==
    /\ rpc[r] = "wait"
    /\ timed[r]
    /\ rres' = [rres EXCEPT ![r] = "ErrReadTimeout"]
    /\ rpc' = [rpc EXCEPT ![r] = "idle"]
    /\ UNCHANGED <<option, state, data, readSignal, writeSignal, done, errChan,
                   writerVars, timed, accepted, delivered, lost, released>>

-----------------------------------------------------------------------------
(* Close, Interrupt and the error channel: any goroutine, at any time. *)

\* Mutant: Close without done.Close.
CloseQuietly ==
    /\ state = "open"
    /\ state' = "closed"
    /\ UNCHANGED <<option, data, readSignal, writeSignal, done, errChan,
                   writerVars, readerVars, accepted, delivered, lost, released>>

Close ==
    /\ state = "open"
    /\ state' = "closed"
    /\ done' = TRUE
    /\ UNCHANGED <<option, data, readSignal, writeSignal, errChan, writerVars,
                   readerVars, accepted, delivered, lost, released>>

\* A closed pipe that still held bytes becomes errord, a drained one stays
\* closed.
interruptedState == IF state = "closed" /\ data = <<>> THEN "closed" ELSE "errord"

Interrupt ==
    /\ state' = interruptedState
    /\ done' = (done \/ state = "open")
    /\ lost' = data \o lost
    /\ data' = <<>>
    /\ UNCHANGED <<option, readSignal, writeSignal, errChan, writerVars,
                   readerVars, accepted, delivered, released>>

\* ReturnAnError blocks while the slot is taken.
ReturnAnError ==
    /\ ~errChan
    /\ errChan' = TRUE
    /\ UNCHANGED <<option, state, data, readSignal, writeSignal, done,
                   writerVars, readerVars, accepted, delivered, lost, released>>

Recover ==
    /\ errChan
    /\ errChan' = FALSE
    /\ UNCHANGED <<option, state, data, readSignal, writeSignal, done,
                   writerVars, readerVars, accepted, delivered, lost, released>>

-----------------------------------------------------------------------------
\* The steps a writer, or a reader, takes inside a call.
WriterStep(w) ==
    \/ WriteAppend(w) \/ WriteFull(w) \/ WriteClosed(w)
    \/ SignalReader(w) \/ WriterWakes(w) \/ WriterGivesUp(w)

ReaderStep(r) ==
    \/ ReadData(r) \/ ReadEmpty(r) \/ ReadEnd(r) \/ SignalWriter(r)
    \/ ReaderWakes(r) \/ ReaderSeesDone(r)
    \/ ReaderTakesError(r) \/ ReaderTimesOut(r)

Next ==
    \/ \E w \in Writers : WriteCall(w) \/ WriterStep(w)
    \/ \E r \in Readers : ReadCall(r) \/ ReaderStep(r)
    \/ Close \/ Interrupt \/ ReturnAnError \/ Recover

Spec == Init /\ [][Next]_vars

\* A goroutine inside a call is scheduled, and a select with a ready arm fires.
\* Readers are copy loops (common/buf): they call again after every result.
\* Callers of write, Close, Interrupt and ReturnAnError owe nothing.
Fairness ==
    /\ \A w \in Writers : WF_vars(WriterStep(w))
    /\ \A r \in Readers : WF_vars(ReadCall(r)) /\ WF_vars(ReaderStep(r))

FairSpec == Spec /\ Fairness

-----------------------------------------------------------------------------
(* Safety. *)

\* The bytes taken by readers, those still buffered and those dropped by
\* Interrupt are, in this order, exactly the bytes accepted from writers: the
\* lock sections of WriteMultiBuffer, ReadMultiBuffer and Interrupt neither
\* lose, duplicate nor reorder, however they interleave.  Bytes are dropped
\* only by the transition to errord.
StreamIntegrity ==
    /\ accepted = (delivered \o data) \o lost
    /\ lost # <<>> => state = "errord"
    /\ state = "errord" => data = <<>>

\* ReadMultiBuffer says io.EOF only for a stream that was delivered whole: an
\* interrupted pipe never looks like a clean end, whichever of Close, Interrupt
\* and the last read came first.
CleanEnd ==
    \A r \in Readers : rres[r] = "EOF" => state = "closed" /\ delivered = accepted

\* No lost wake-up for readers: when a reader sleeps in its select although
\* there is something for it (bytes, or the end), then the read notifier or
\* done is set, or a writer is about to signal, or another reader is awake and
\* takes the bytes.
NoStrandedReader ==
    (\E r \in Readers : rpc[r] = "wait") /\ (data # <<>> \/ state # "open")
        => \/ readSignal
           \/ done
           \/ \E w \in Writers : wpc[w] = "signal"
           \/ \E r \in Readers : rpc[r] = "try"

\* No lost wake-up for writers although the write notifier holds one token for
\* all of them: when a writer sleeps in its select and the pipe holds nothing,
\* the token is there, or a reader is about to put it, or another writer took
\* it and is about to fill the pipe, or done is set.
NoStrandedWriter ==
    (\E w \in Writers : wpc[w] = "wait") /\ data = <<>>
        => \/ writeSignal
           \/ done
           \/ \E r \in Readers : rpc[r] = "signal"
           \/ \E w \in Writers : wpc[w] = "try"

\* The one-slot notifiers lose no wake-up, of readers or of writers.
NoLostWakeup == NoStrandedReader /\ NoStrandedWriter

\* The size limit is soft by one write and no more: isFull looks at what is
\* buffered before the append, and two writers cannot both overshoot.
BoundedBuffer ==
    option.limit >= 0 => Len(data) <= option.limit + MaxMB

\* Every byte handed to WriteMultiBuffer has one owner: the blocked call, the
\* pipe's side of the lock, or the buffer pool.  A refused, discarded or given
\* up write is released once and never reaches a reader.
OneOwner ==
    \A w \in Writers : \A i \in 1 .. next[w] :
        LET owners == {o \in {"call", "pipe", "pool"} :
                         \/ o = "call" /\ <<w, i>> \in Elems(mb[w])
                         \/ o = "pipe" /\ <<w, i>> \in Elems(accepted)
                         \/ o = "pool" /\ <<w, i>> \in released}
        IN  Cardinality(owners) = 1

-----------------------------------------------------------------------------
(* Liveness, of FairSpec. *)

\* Every write returns: a writer blocked on a full pipe is woken by the reads
\* that make room or by the end of the pipe; and once the pipe is closed or
\* interrupted no read stays blocked.
CallsReturn ==
    /\ \A w \in Writers : wpc[w] # "idle" ~> wpc[w] = "idle"
    /\ \A r \in Readers : (rpc[r] = "wait" /\ state # "open") ~> rpc[r] = "idle"

-----------------------------------------------------------------------------
(* What the pipe promises, as an atomic byte stream. *)

Stream == INSTANCE ByteStream WITH
              status <- CASE state = "open"   -> "open"
                          [] state = "closed" -> "closed"
                          [] OTHER            -> "broken",
              eof    <- \E r \in Readers : rres[r] = "EOF"

\* The pipe, with its lock, notifiers and blocked calls, implements the atomic
\* stream.
Refinement == Stream!Spec
=============================================================================
