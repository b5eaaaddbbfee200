----------------------------- MODULE PipeProofs -----------------------------
(***************************************************************************)
(* Proofs about Pipe, for any number of writers and readers, any options   *)
(* and any sizes.  IInv is the inductive invariant: the safety properties  *)
(* of Pipe and the two facts about its internals they rest on.             *)
(***************************************************************************)
EXTENDS Pipe, TLAPS, SequenceTheorems

\* The done channel is closed exactly when the pipe is no longer open.
DoneIffEnded == done <=> state # "open"

\* A writer in the middle of a call holds a nonempty MultiBuffer of bounded size.
HoldsBytes ==
    \A w \in Writers :
        /\ Len(mb[w]) <= MaxMB
        /\ wpc[w] \in {"try", "wait"} => mb[w] # <<>>

IInv ==
    /\ TypeOK
    /\ DoneIffEnded
    /\ HoldsBytes
    /\ StreamIntegrity
    /\ CleanEnd
    /\ NoStrandedReader
    /\ NoStrandedWriter
    /\ BoundedBuffer

-----------------------------------------------------------------------------
\* Concatenation of byte sequences is associative.
LEMMA ByteConcat ==
    \A s, t, u \in Seq(Byte) : (s \o t) \o u = s \o (t \o u)
<1> TAKE s, t, u \in Seq(Byte)
<1> QED BY ConcatAssociative

\* The initial pipe satisfies the inductive invariant.
LEMMA InitIInv == Init => IInv
<1> SUFFICES ASSUME Init PROVE IInv
  OBVIOUS
<1>1. TypeOK
  <2>1. <<>> \in Seq(Byte)
    BY EmptySeq
  <2>2. mb \in [Writers -> Seq(Byte)]
    BY <2>1 DEF Init
  <2>3. next \in [Writers -> 0 .. MaxBytes]
    BY PipeAssumption DEF Init
  <2>4. /\ wpc \in [Writers -> {"idle", "try", "wait", "signal"}]
        /\ rpc \in [Readers -> {"idle", "try", "wait", "signal"}]
        /\ timed \in [Readers -> BOOLEAN]
        /\ rres \in [Readers -> ReadResults]
    BY DEF Init, ReadResults
  <2> QED BY <2>1, <2>2, <2>3, <2>4, Zenon DEF Init, TypeOK
<1>2. DoneIffEnded /\ HoldsBytes /\ CleanEnd /\ NoStrandedReader /\ NoStrandedWriter
  BY PipeAssumption DEF Init, DoneIffEnded, HoldsBytes, CleanEnd,
        NoStrandedReader, NoStrandedWriter
<1>3. StreamIntegrity
  BY DEF Init, StreamIntegrity
<1>4. BoundedBuffer
  BY PipeAssumption DEF Init, BoundedBuffer
<1> QED BY <1>1, <1>2, <1>3, <1>4 DEF IInv

\* Every step preserves the types.
LEMMA TypeStep == TypeOK /\ [Next]_vars => TypeOK'
<1> SUFFICES ASSUME TypeOK, [Next]_vars PROVE TypeOK'
  OBVIOUS
<1> USE DEF TypeOK
<1>1. ASSUME NEW w \in Writers, WriteCall(w) PROVE TypeOK'
  <2> PICK n \in 1 .. MaxMB :
        /\ next[w] + n <= MaxBytes
        /\ mb' = [mb EXCEPT ![w] = [i \in 1 .. n |-> <<w, next[w] + i>>]]
        /\ next' = [next EXCEPT ![w] = @ + n]
    BY <1>1, Zenon DEF WriteCall
  <2>1. [i \in 1 .. n |-> <<w, next[w] + i>>] \in Seq(Byte)
    <3>1. n \in Nat
      BY PipeAssumption
    <3>2. \A i \in 1 .. n : <<w, next[w] + i>> \in Byte
      <4>1. next[w] \in 0 .. MaxBytes
        OBVIOUS
      <4>2. \A i \in 1 .. n : next[w] + i \in 1 .. MaxBytes
        BY <4>1, PipeAssumption
      <4> QED BY <4>2 DEF Byte
    <3> QED BY <3>1, <3>2, IsASeq
  <2>2. next[w] + n \in 0 .. MaxBytes
    BY PipeAssumption
  <2> QED BY <1>1, <2>1, <2>2 DEF WriteCall, readerVars
<1>2. ASSUME NEW w \in Writers, WriterStep(w) PROVE TypeOK'
  <2>1. Elems(mb[w]) \subseteq Byte
    BY ElementOfSeq DEF Elems
  <2>2. CASE WriteAppend(w)
    BY <2>2 DEF WriteAppend, MergeMulti, readerVars
  <2>3. CASE WriteFull(w)
    <3>1. CASE option.discardOverflow
      <4>1. releaseMulti(w) /\ wpc' = [wpc EXCEPT ![w] = "idle"]
        BY <2>3, <3>1, Zenon DEF WriteFull
      <4> QED BY <2>1, <2>3, <4>1 DEF WriteFull, releaseMulti, readerVars
    <3>2. CASE ~option.discardOverflow
      BY <2>3, <3>2, Zenon DEF WriteFull, readerVars
    <3> QED BY <3>1, <3>2
  <2>4. CASE WriteClosed(w)
    BY <2>1, <2>4 DEF WriteClosed, releaseMulti, readerVars
  <2>5. CASE SignalReader(w)
    BY <2>5 DEF SignalReader, Signal, readerVars
  <2>6. CASE WriterWakes(w)
    BY <2>6, Zenon DEF WriterWakes, readerVars
  <2>7. CASE WriterGivesUp(w)
    BY <2>1, <2>7 DEF WriterGivesUp, releaseMulti, readerVars
  <2> QED BY <1>2, <2>2, <2>3, <2>4, <2>5, <2>6, <2>7 DEF WriterStep
<1>3. ASSUME NEW r \in Readers, ReadCall(r) PROVE TypeOK'
  BY <1>3, Zenon DEF ReadCall, writerVars
<1>4. ASSUME NEW r \in Readers, ReaderStep(r) PROVE TypeOK'
  <2>1. CASE ReadData(r)
    BY <2>1 DEF ReadData, writerVars, ReadResults
  <2>2. CASE ReadEmpty(r)
    BY <2>2 DEF ReadEmpty, writerVars
  <2>3. CASE ReadEnd(r)
    BY <2>3 DEF ReadEnd, readState, writerVars, ReadResults
  <2>4. CASE SignalWriter(r)
    BY <2>4 DEF SignalWriter, Signal, writerVars
  <2>5. CASE ReaderWakes(r)
    BY <2>5, Zenon DEF ReaderWakes, writerVars
  <2>6. CASE ReaderSeesDone(r)
    BY <2>6 DEF ReaderSeesDone, writerVars
  <2>7. CASE ReaderTakesError(r)
    BY <2>7, Zenon DEF ReaderTakesError, writerVars, ReadResults
  <2>8. CASE ReaderTimesOut(r)
    BY <2>8 DEF ReaderTimesOut, writerVars, ReadResults
  <2> QED BY <1>4, <2>1, <2>2, <2>3, <2>4, <2>5, <2>6, <2>7, <2>8 DEF ReaderStep
<1>5. CASE Close
  BY <1>5 DEF Close, writerVars, readerVars
<1>6. CASE Interrupt
  BY <1>6 DEF Interrupt, interruptedState, writerVars, readerVars
<1>7. CASE ReturnAnError
  BY <1>7 DEF ReturnAnError, writerVars, readerVars
<1>8. CASE Recover
  BY <1>8, Zenon DEF Recover, writerVars, readerVars
<1>9. CASE UNCHANGED vars
  BY <1>9 DEF vars
<1> QED BY <1>1, <1>2, <1>3, <1>4, <1>5, <1>6, <1>7, <1>8, <1>9 DEF Next

\* Close and Interrupt are the only steps that end the pipe, and they close done.
LEMMA DoneStep == TypeOK /\ DoneIffEnded /\ [Next]_vars => DoneIffEnded'
<1> SUFFICES ASSUME TypeOK, DoneIffEnded, [Next]_vars PROVE DoneIffEnded'
  OBVIOUS
<1> USE DEF TypeOK, DoneIffEnded
<1>1. ASSUME NEW w \in Writers, WriteCall(w) \/ WriterStep(w)
      PROVE  UNCHANGED <<state, done>>
  BY <1>1 DEF WriteCall, WriterStep, WriteAppend, WriteFull, WriteClosed,
        SignalReader, WriterWakes, WriterGivesUp, releaseMulti, readerVars
<1>2. ASSUME NEW r \in Readers, ReadCall(r) \/ ReaderStep(r)
      PROVE  UNCHANGED <<state, done>>
  BY <1>2 DEF ReadCall, ReaderStep, ReadData, ReadEmpty, ReadEnd, SignalWriter,
        ReaderWakes, ReaderSeesDone, ReaderTakesError, ReaderTimesOut, writerVars
<1>3. CASE Close
  BY <1>3 DEF Close
<1>4. CASE Interrupt
  BY <1>4, Zenon DEF Interrupt, interruptedState
<1>5. CASE ReturnAnError \/ Recover \/ UNCHANGED vars
  BY <1>5 DEF ReturnAnError, Recover, vars
<1> QED BY <1>1, <1>2, <1>3, <1>4, <1>5 DEF Next

\* A call starts with 1 to MaxMB bytes and lets go of them when it stops trying.
LEMMA HoldsStep == TypeOK /\ HoldsBytes /\ [Next]_vars => HoldsBytes'
<1> SUFFICES ASSUME TypeOK, HoldsBytes, [Next]_vars PROVE HoldsBytes'
  OBVIOUS
<1> USE DEF TypeOK, HoldsBytes
<1>1. ASSUME NEW w \in Writers, WriteCall(w) PROVE HoldsBytes'
  <2> PICK n \in 1 .. MaxMB :
        mb' = [mb EXCEPT ![w] = [i \in 1 .. n |-> <<w, next[w] + i>>]]
    BY <1>1, Zenon DEF WriteCall
  <2> DEFINE q == [i \in 1 .. n |-> <<w, next[w] + i>>]
  <2>1. n \in Nat \ {0} /\ n <= MaxMB
    BY PipeAssumption
  <2>3. Len(q) = n
    BY <2>1
  <2>4. q # <<>> /\ Len(q) <= MaxMB
    BY <2>1, <2>3, Zenon
  <2>5. mb'[w] = q /\ \A v \in Writers \ {w} : mb'[v] = mb[v]
    OBVIOUS
  <2> QED BY <1>1, <2>4, <2>5, Zenon DEF WriteCall
<1>2. ASSUME NEW w \in Writers, WriterStep(w) PROVE HoldsBytes'
  <2>1. \/ mb' = mb /\ (wpc'[w] \in {"try", "wait"} => wpc[w] \in {"try", "wait"})
        \/ mb' = [mb EXCEPT ![w] = <<>>] /\ wpc'[w] \notin {"try", "wait"}
    BY <1>2 DEF WriterStep, WriteAppend, WriteFull, WriteClosed,
        SignalReader, WriterWakes, WriterGivesUp, releaseMulti
  <2>2. \A v \in Writers \ {w} : wpc'[v] = wpc[v]
    BY <1>2 DEF WriterStep, WriteAppend, WriteFull, WriteClosed,
        SignalReader, WriterWakes, WriterGivesUp
  <2>3. Len(<<>>) <= MaxMB
    BY PipeAssumption
  <2> QED BY <2>1, <2>2, <2>3
<1>3. ASSUME NEW r \in Readers, ReadCall(r) \/ ReaderStep(r)
      PROVE  UNCHANGED <<wpc, mb>>
  BY <1>3 DEF ReadCall, ReaderStep, ReadData, ReadEmpty, ReadEnd, SignalWriter,
        ReaderWakes, ReaderSeesDone, ReaderTakesError, ReaderTimesOut, writerVars
<1>4. CASE Close \/ Interrupt \/ ReturnAnError \/ Recover \/ UNCHANGED vars
  BY <1>4 DEF Close, Interrupt, ReturnAnError, Recover, writerVars, vars
<1> QED BY <1>1, <1>2, <1>3, <1>4 DEF Next

\* Appending at the end, taking the whole and dropping the rest keep the order.
LEMMA IntegrityStep ==
    TypeOK /\ StreamIntegrity /\ [Next]_vars => StreamIntegrity'
<1> SUFFICES ASSUME TypeOK, StreamIntegrity, [Next]_vars PROVE StreamIntegrity'
  OBVIOUS
<1> USE DEF TypeOK, StreamIntegrity
<1>1. ASSUME NEW w \in Writers, WriteCall(w) \/ WriterStep(w) PROVE StreamIntegrity'
  <2>1. CASE WriteAppend(w)
    <3>1. state = "open" /\ lost = <<>>
      BY <2>1 DEF WriteAppend, writeState
    <3>2. accepted = delivered \o data
      BY <3>1, ConcatEmptySeq
    <3>3. accepted \o mb[w] = delivered \o (data \o mb[w])
      <4>1. delivered \in Seq(Byte) /\ data \in Seq(Byte) /\ mb[w] \in Seq(Byte)
        OBVIOUS
      <4> HIDE DEF TypeOK, StreamIntegrity
      <4>2. (delivered \o data) \o mb[w] = delivered \o (data \o mb[w])
        BY <4>1, ByteConcat, Zenon
      <4> QED BY <3>2, <4>2
    <3>4. data \o mb[w] \in Seq(Byte) /\ delivered \o (data \o mb[w]) \in Seq(Byte)
      BY ConcatProperties
    <3> QED BY <2>1, <3>1, <3>3, <3>4, ConcatEmptySeq DEF WriteAppend, MergeMulti
  <2>2. CASE ~WriteAppend(w)
    <3>1. UNCHANGED <<state, data, accepted, delivered, lost>>
      BY <1>1, <2>2 DEF WriteCall, WriterStep, WriteFull, WriteClosed,
          SignalReader, WriterWakes, WriterGivesUp
    <3> QED BY <3>1
  <2> QED BY <2>1, <2>2
<1>2. ASSUME NEW r \in Readers, ReadCall(r) \/ ReaderStep(r) PROVE StreamIntegrity'
  <2>1. CASE ReadData(r)
    <3>1. (delivered \o data) \o <<>> = delivered \o data
      BY ConcatEmptySeq, ConcatProperties
    <3> QED BY <2>1, <3>1 DEF ReadData
  <2>2. CASE ~ReadData(r)
    <3>1. UNCHANGED <<state, data, accepted, delivered, lost>>
      BY <1>2, <2>2 DEF ReadCall, ReaderStep, ReadEmpty, ReadEnd, SignalWriter,
          ReaderWakes, ReaderSeesDone, ReaderTakesError, ReaderTimesOut
    <3> QED BY <3>1
  <2> QED BY <2>1, <2>2
<1>3. CASE Interrupt
  <2>1. (delivered \o <<>>) \o (data \o lost) = (delivered \o data) \o lost
    <3>1. delivered \o <<>> = delivered
      BY ConcatEmptySeq
    <3>2. (delivered \o data) \o lost = delivered \o (data \o lost)
      <4>1. delivered \in Seq(Byte) /\ data \in Seq(Byte) /\ lost \in Seq(Byte)
        OBVIOUS
      <4> HIDE DEF TypeOK, StreamIntegrity
      <4> QED BY <4>1, ByteConcat, Zenon
    <3> QED BY <3>1, <3>2
  <2>2. lost' # <<>> => state' = "errord"
    <3>1. CASE state = "closed" /\ data = <<>>
      <4>1. lost = <<>>
        BY <3>1
      <4>2. lost' = <<>>
        BY <1>3, <3>1, <4>1 DEF Interrupt
      <4> QED BY <4>2
    <3>2. CASE ~(state = "closed" /\ data = <<>>)
      BY <1>3, <3>2 DEF Interrupt, interruptedState
    <3> QED BY <3>1, <3>2
  <2> QED BY <1>3, <2>1, <2>2, Zenon DEF Interrupt
<1>4. CASE Close
  BY <1>4 DEF Close
<1>5. CASE ReturnAnError \/ Recover \/ UNCHANGED vars
  BY <1>5, Zenon DEF ReturnAnError, Recover, vars
<1> QED BY <1>1, <1>2, <1>3, <1>4, <1>5 DEF Next

\* A reader is told EOF only under the lock, on a closed and drained pipe, and
\* such a pipe does not change any more.
LEMMA CleanEndStep ==
    TypeOK /\ StreamIntegrity /\ CleanEnd /\ [Next]_vars => CleanEnd'
<1> SUFFICES ASSUME TypeOK, StreamIntegrity, CleanEnd, [Next]_vars PROVE CleanEnd'
  OBVIOUS
<1> USE DEF TypeOK, CleanEnd
<1>0. \A r \in Readers : rres[r] = "EOF" => data = <<>> /\ lost = <<>>
  <2> SUFFICES ASSUME NEW r \in Readers, rres[r] = "EOF"
               PROVE  data = <<>> /\ lost = <<>>
    OBVIOUS
  <2>1. state = "closed" /\ delivered = accepted
    OBVIOUS
  <2>2. lost = <<>>
    BY <2>1 DEF StreamIntegrity
  <2>3. delivered \o data = delivered
    <3>1. delivered \o data \in Seq(Byte)
      BY ConcatProperties
    <3> QED BY <2>1, <2>2, <3>1, ConcatEmptySeq DEF StreamIntegrity
  <2> QED BY <2>2, <2>3, ConcatEqualIffEmpty
<1>1. ASSUME NEW w \in Writers, WriteCall(w) \/ WriterStep(w) PROVE CleanEnd'
  <2>1. CASE WriteAppend(w)
    BY <2>1 DEF WriteAppend, writeState, readerVars
  <2>2. CASE ~WriteAppend(w)
    BY <1>1, <2>2 DEF WriteCall, WriterStep, WriteFull, WriteClosed,
        SignalReader, WriterWakes, WriterGivesUp, readerVars
  <2> QED BY <2>1, <2>2
<1>2. ASSUME NEW r \in Readers, ReadCall(r) \/ ReaderStep(r) PROVE CleanEnd'
  <2>1. CASE ReadData(r)
    BY <2>1, <1>0 DEF ReadData
  <2>2. CASE ReadEnd(r)
    <3>1. CASE readState = "EOF"
      <4>1. state = "closed" /\ data = <<>>
        BY <3>1 DEF readState
      <4>2. lost = <<>>
        BY <4>1 DEF StreamIntegrity
      <4>3. delivered \o <<>> = delivered
        BY ConcatEmptySeq
      <4>4. accepted = delivered
        BY <4>1, <4>2, <4>3 DEF StreamIntegrity
      <4> QED BY <2>2, <4>1, <4>4 DEF ReadEnd
    <3>2. CASE readState # "EOF"
      BY <2>2, <3>2 DEF ReadEnd
    <3> QED BY <3>1, <3>2
  <2>3. CASE ~ReadData(r) /\ ~ReadEnd(r)
    BY <1>2, <2>3 DEF ReadCall, ReaderStep, ReadEmpty, SignalWriter,
        ReaderWakes, ReaderSeesDone, ReaderTakesError, ReaderTimesOut
  <2> QED BY <2>1, <2>2, <2>3
<1>3. CASE Close
  BY <1>3 DEF Close, readerVars
<1>4. CASE Interrupt
  BY <1>4, <1>0 DEF Interrupt, interruptedState, readerVars
<1>5. CASE ReturnAnError \/ Recover \/ UNCHANGED vars
  BY <1>5 DEF ReturnAnError, Recover, vars, readerVars
<1> QED BY <1>1, <1>2, <1>3, <1>4, <1>5 DEF Next

\* A reader falls asleep only on an open, empty pipe, and whoever changes that
\* signals, or closes done.
LEMMA ReaderWakeStep ==
    TypeOK /\ DoneIffEnded /\ NoStrandedReader /\ [Next]_vars => NoStrandedReader'
<1> SUFFICES ASSUME TypeOK, DoneIffEnded, NoStrandedReader, [Next]_vars
             PROVE  NoStrandedReader'
  OBVIOUS
<1> USE DEF TypeOK, DoneIffEnded, NoStrandedReader
<1>1. ASSUME NEW w \in Writers, WriteCall(w) PROVE NoStrandedReader'
  BY <1>1 DEF WriteCall, readerVars
<1>2. ASSUME NEW w \in Writers, WriterStep(w) PROVE NoStrandedReader'
  <2>1. CASE WriteAppend(w)
    BY <2>1 DEF WriteAppend, readerVars
  <2>2. CASE WriteFull(w)
    BY <2>2 DEF WriteFull, readerVars
  <2>3. CASE WriteClosed(w)
    BY <2>3 DEF WriteClosed, readerVars
  <2>4. CASE SignalReader(w)
    BY <2>4 DEF SignalReader, Signal, readerVars
  <2>5. CASE WriterWakes(w)
    BY <2>5 DEF WriterWakes, readerVars
  <2>6. CASE WriterGivesUp(w)
    BY <2>6 DEF WriterGivesUp, readerVars
  <2> QED BY <1>2, <2>1, <2>2, <2>3, <2>4, <2>5, <2>6 DEF WriterStep
<1>3. ASSUME NEW r \in Readers, ReadCall(r) PROVE NoStrandedReader'
  BY <1>3 DEF ReadCall, writerVars
<1>4. ASSUME NEW r \in Readers, ReaderStep(r) PROVE NoStrandedReader'
  <2>1. CASE ReadData(r)
    BY <2>1 DEF ReadData, writerVars
  <2>2. CASE ReadEmpty(r)
    BY <2>2 DEF ReadEmpty, readState, writerVars
  <2>3. CASE ReadEnd(r)
    BY <2>3 DEF ReadEnd, readState, writerVars
  <2>4. CASE SignalWriter(r)
    BY <2>4 DEF SignalWriter, writerVars
  <2>5. CASE ReaderWakes(r)
    BY <2>5 DEF ReaderWakes, writerVars
  <2>6. CASE ReaderSeesDone(r)
    BY <2>6 DEF ReaderSeesDone, writerVars
  <2>7. CASE ReaderTakesError(r)
    BY <2>7 DEF ReaderTakesError, writerVars
  <2>8. CASE ReaderTimesOut(r)
    BY <2>8 DEF ReaderTimesOut, writerVars
  <2> QED BY <1>4, <2>1, <2>2, <2>3, <2>4, <2>5, <2>6, <2>7, <2>8 DEF ReaderStep
<1>5. CASE Close
  BY <1>5 DEF Close
<1>6. CASE Interrupt
  BY <1>6, Zenon DEF Interrupt, interruptedState
<1>7. CASE ReturnAnError \/ Recover \/ UNCHANGED vars
  BY <1>7 DEF ReturnAnError, Recover, vars, readerVars, writerVars
<1> QED BY <1>1, <1>2, <1>3, <1>4, <1>5, <1>6, <1>7, Zenon DEF Next

\* A writer falls asleep only on a full, hence nonempty pipe; the read that
\* empties it signals, and the writer that takes the token either fills the
\* pipe again or finds it ended.
LEMMA WriterWakeStep ==
    TypeOK /\ DoneIffEnded /\ HoldsBytes /\ NoStrandedWriter /\ [Next]_vars
        => NoStrandedWriter'
<1> SUFFICES ASSUME TypeOK, DoneIffEnded, HoldsBytes, NoStrandedWriter, [Next]_vars
             PROVE  NoStrandedWriter'
  OBVIOUS
<1> USE DEF TypeOK, DoneIffEnded, NoStrandedWriter
<1>1. ASSUME NEW w \in Writers, WriteCall(w) PROVE NoStrandedWriter'
  BY <1>1 DEF WriteCall, readerVars
<1>2. ASSUME NEW w \in Writers, WriterStep(w) PROVE NoStrandedWriter'
  <2>0. writeState = "errBufferFull" => data # <<>>
    <3>1. option.limit \in Int /\ Len(data) \in Nat
      BY PipeAssumption
    <3> QED BY <3>1 DEF writeState, isFull
  <2>1. CASE WriteAppend(w)
    <3>1. data \o mb[w] # <<>>
      <4>1. mb[w] \in Seq(Byte) /\ mb[w] # <<>>
        BY <2>1 DEF WriteAppend, HoldsBytes
      <4> QED BY <4>1, ConcatEqualIffEmpty
    <3> QED BY <2>1, <3>1 DEF WriteAppend, MergeMulti, readerVars
  <2>2. CASE WriteFull(w)
    BY <2>0, <2>2 DEF WriteFull, readerVars
  <2>3. CASE WriteClosed(w)
    BY <2>3 DEF WriteClosed, writeState, isFull, readerVars
  <2>4. CASE SignalReader(w)
    BY <2>4 DEF SignalReader, readerVars
  <2>5. CASE WriterWakes(w)
    BY <2>5 DEF WriterWakes, readerVars
  <2>6. CASE WriterGivesUp(w)
    BY <2>6 DEF WriterGivesUp, readerVars
  <2> QED BY <1>2, <2>1, <2>2, <2>3, <2>4, <2>5, <2>6 DEF WriterStep
<1>3. ASSUME NEW r \in Readers, ReadCall(r) PROVE NoStrandedWriter'
  BY <1>3 DEF ReadCall, writerVars
<1>4. ASSUME NEW r \in Readers, ReaderStep(r) PROVE NoStrandedWriter'
  <2>1. CASE ReadData(r)
    BY <2>1 DEF ReadData, writerVars
  <2>2. CASE ReadEmpty(r)
    BY <2>2 DEF ReadEmpty, writerVars
  <2>3. CASE ReadEnd(r)
    BY <2>3 DEF ReadEnd, writerVars
  <2>4. CASE SignalWriter(r)
    BY <2>4 DEF SignalWriter, Signal, writerVars
  <2>5. CASE ReaderWakes(r)
    BY <2>5 DEF ReaderWakes, writerVars
  <2>6. CASE ReaderSeesDone(r)
    BY <2>6 DEF ReaderSeesDone, writerVars
  <2>7. CASE ReaderTakesError(r)
    BY <2>7 DEF ReaderTakesError, writerVars
  <2>8. CASE ReaderTimesOut(r)
    BY <2>8 DEF ReaderTimesOut, writerVars
  <2> QED BY <1>4, <2>1, <2>2, <2>3, <2>4, <2>5, <2>6, <2>7, <2>8 DEF ReaderStep
<1>5. CASE Close
  BY <1>5 DEF Close
<1>6. CASE Interrupt
  BY <1>6, Zenon DEF Interrupt
<1>7. CASE ReturnAnError \/ Recover \/ UNCHANGED vars
  BY <1>7 DEF ReturnAnError, Recover, vars, readerVars, writerVars
<1> QED BY <1>1, <1>2, <1>3, <1>4, <1>5, <1>6, <1>7, Zenon DEF Next

\* Only an append makes the buffer grow, and it starts at or below the limit.
LEMMA BoundStep ==
    TypeOK /\ HoldsBytes /\ BoundedBuffer /\ [Next]_vars => BoundedBuffer'
<1> SUFFICES ASSUME TypeOK, HoldsBytes, BoundedBuffer, [Next]_vars
             PROVE  BoundedBuffer'
  OBVIOUS
<1> USE DEF TypeOK, BoundedBuffer
<1>0. option.limit \in Int /\ option' = option
  <2>1. ASSUME NEW w \in Writers, WriteCall(w) \/ WriterStep(w) PROVE option' = option
    BY <2>1, Zenon DEF WriteCall, WriterStep, WriteAppend, WriteFull, WriteClosed,
        SignalReader, WriterWakes, WriterGivesUp
  <2>2. ASSUME NEW r \in Readers, ReadCall(r) \/ ReaderStep(r) PROVE option' = option
    BY <2>2, Zenon DEF ReadCall, ReaderStep, ReadData, ReadEmpty, ReadEnd, SignalWriter,
        ReaderWakes, ReaderSeesDone, ReaderTakesError, ReaderTimesOut
  <2>3. ASSUME Close \/ Interrupt \/ ReturnAnError \/ Recover \/ UNCHANGED vars PROVE option' = option
    BY <2>3, Zenon DEF Close, Interrupt, ReturnAnError, Recover, vars
  <2>4. option.limit \in Int
    BY PipeAssumption
  <2> QED BY <2>1, <2>2, <2>3, <2>4, Zenon DEF Next
<1>1. ASSUME NEW w \in Writers, WriteAppend(w) PROVE BoundedBuffer'
  <2>1. mb[w] \in Seq(Byte) /\ Len(mb[w]) <= MaxMB /\ Len(mb[w]) \in Nat
    BY DEF HoldsBytes
  <2>2. Len(data \o mb[w]) = Len(data) + Len(mb[w]) /\ Len(data) \in Nat
    BY <2>1, ConcatProperties
  <2>3. option.limit >= 0 => Len(data) <= option.limit
    BY <1>0, <1>1, <2>2 DEF WriteAppend, writeState, isFull
  <2>4. data' = data \o mb[w]
    BY <1>1 DEF WriteAppend, MergeMulti
  <2> QED BY <1>0, <2>1, <2>2, <2>3, <2>4, PipeAssumption
<1>2. data' # data /\ data' # <<>> => \E w \in Writers : WriteAppend(w)
  <2>1. ASSUME NEW w \in Writers, WriteCall(w) \/ WriterStep(w) PROVE data' = data \/ WriteAppend(w)
    BY <2>1, Zenon DEF WriteCall, WriterStep, WriteFull, WriteClosed, SignalReader,
        WriterWakes, WriterGivesUp
  <2>2. ASSUME NEW r \in Readers, ReadCall(r) \/ ReaderStep(r) PROVE data' = data \/ data' = <<>>
    BY <2>2, Zenon DEF ReadCall, ReaderStep, ReadData, ReadEmpty, ReadEnd, SignalWriter,
        ReaderWakes, ReaderSeesDone, ReaderTakesError, ReaderTimesOut
  <2>3. CASE Close \/ Interrupt \/ ReturnAnError \/ Recover \/ UNCHANGED vars
    BY <2>3, Zenon DEF Close, Interrupt, ReturnAnError, Recover, vars
  <2> QED BY <2>1, <2>2, <2>3, Zenon DEF Next
<1>3. data' = <<>> => BoundedBuffer'
  BY <1>0, PipeAssumption
<1> QED BY <1>0, <1>1, <1>2, <1>3

\* The invariant is inductive.
LEMMA IInvStep == IInv /\ [Next]_vars => IInv'
<1> SUFFICES ASSUME IInv, [Next]_vars PROVE IInv'
  OBVIOUS
<1> QED BY TypeStep, DoneStep, HoldsStep, IntegrityStep, CleanEndStep,
           ReaderWakeStep, WriterWakeStep, BoundStep DEF IInv

\* The invariant holds in every reachable state.
LEMMA AlwaysIInv == Spec => []IInv
<1> QED BY InitIInv, IInvStep, PTL DEF Spec

-----------------------------------------------------------------------------
\* Every variable of the pipe keeps its type.
THEOREM PipeTypes == Spec => []TypeOK
<1>1. IInv => TypeOK
  BY DEF IInv
<1> QED BY <1>1, AlwaysIInv, PTL

\* For any number of goroutines on both ends, readers get exactly the bytes
\* that were accepted, in the order of the lock sections.
THEOREM PipeStreamIntegrity == Spec => []StreamIntegrity
<1>1. IInv => StreamIntegrity
  BY DEF IInv
<1> QED BY <1>1, AlwaysIInv, PTL

\* io.EOF is returned only for a stream delivered whole.
THEOREM PipeCleanEnd == Spec => []CleanEnd
<1>1. IInv => CleanEnd
  BY DEF IInv
<1> QED BY <1>1, AlwaysIInv, PTL

\* One-slot notifiers lose no wake-up, for any number of waiters.
THEOREM PipeNoLostWakeup == Spec => []NoLostWakeup
<1>1. IInv => NoLostWakeup
  BY DEF IInv, NoLostWakeup
<1> QED BY <1>1, AlwaysIInv, PTL

\* The buffer exceeds its limit by at most one write.
THEOREM PipeBoundedBuffer == Spec => []BoundedBuffer
<1>1. IInv => BoundedBuffer
  BY DEF IInv
<1> QED BY <1>1, AlwaysIInv, PTL

-----------------------------------------------------------------------------
(* Refinement of the atomic byte stream. *)

\* A reader that was told EOF never sleeps again.
EofNeverWaits == \A r \in Readers : rpc[r] = "wait" => rres[r] # "EOF"

\* It is preserved: a closed and drained pipe never sends a reader to sleep.
LEMMA EofStep == IInv /\ EofNeverWaits /\ [Next]_vars => EofNeverWaits'
<1> SUFFICES ASSUME IInv, EofNeverWaits, [Next]_vars PROVE EofNeverWaits'
  OBVIOUS
<1> USE DEF IInv, TypeOK, EofNeverWaits
<1>1. ASSUME NEW w \in Writers, WriteCall(w) \/ WriterStep(w)
      PROVE  UNCHANGED <<rpc, rres>>
  BY <1>1, Zenon DEF WriteCall, WriterStep, WriteAppend, WriteFull, WriteClosed,
      SignalReader, WriterWakes, WriterGivesUp, readerVars
<1>2. ASSUME NEW r \in Readers, ReadCall(r) \/ ReaderStep(r) PROVE EofNeverWaits'
  <2>1. CASE ReadEmpty(r)
    <3>1. rres[r] # "EOF"
      BY <2>1 DEF ReadEmpty, readState, CleanEnd
    <3> QED BY <2>1, <3>1 DEF ReadEmpty
  <2>2. CASE ~ReadEmpty(r)
    BY <1>2, <2>2 DEF ReadCall, ReaderStep, ReadData, ReadEnd, SignalWriter,
        ReaderWakes, ReaderSeesDone, ReaderTakesError, ReaderTimesOut
  <2> QED BY <2>1, <2>2
<1>3. CASE Close \/ Interrupt \/ ReturnAnError \/ Recover \/ UNCHANGED vars
  BY <1>3 DEF Close, Interrupt, ReturnAnError, Recover, readerVars, vars
<1> QED BY <1>1, <1>2, <1>3 DEF Next

\* What the refinement rests on holds in every reachable state.
LEMMA AlwaysRefInv == Spec => [](IInv /\ EofNeverWaits)
<1>1. Init => EofNeverWaits
  BY DEF Init, EofNeverWaits
<1> QED BY <1>1, InitIInv, IInvStep, EofStep, PTL DEF Spec

\* Bytes missing from what was delivered are the buffered and the lost ones.
LEMMA Undelivered ==
    ASSUME TypeOK, StreamIntegrity
    PROVE  /\ state # "errord" => accepted = delivered \o data
           /\ state # "errord" => (delivered = accepted <=> data = <<>>)
<1> SUFFICES ASSUME state # "errord"
             PROVE  accepted = delivered \o data /\ (delivered = accepted <=> data = <<>>)
  OBVIOUS
<1>1. lost = <<>>
  BY DEF StreamIntegrity
<1>2. delivered \o data \in Seq(Byte)
  BY ConcatProperties DEF TypeOK
<1>3. accepted = delivered \o data
  BY <1>1, <1>2, ConcatEmptySeq DEF StreamIntegrity
<1>4. delivered \o data = delivered <=> data = <<>>
  BY ConcatEqualIffEmpty DEF TypeOK
<1> QED BY <1>3, <1>4

\* Every step of the pipe is a step of the stream or changes none of it.
LEMMA RefinementStep ==
    IInv /\ EofNeverWaits /\ [Next]_vars => [Stream!Next]_(Stream!vars)
<1> SUFFICES ASSUME IInv, EofNeverWaits, [Next]_vars
             PROVE  [Stream!Next]_(Stream!vars)
  OBVIOUS
<1> USE DEF IInv, TypeOK
<1> DEFINE S == CASE state = "open"   -> "open"
                  [] state = "closed" -> "closed"
                  [] OTHER            -> "broken"
           E == \E r \in Readers : rres[r] = "EOF"
           Stutter == UNCHANGED <<accepted, delivered, S, E>>
<1>0. Stutter => UNCHANGED Stream!vars
  BY DEF Stream!vars
<1>1. ASSUME NEW w \in Writers, WriteCall(w) \/ WriterStep(w)
      PROVE  Stream!Accept \/ Stutter
  <2>1. CASE WriteAppend(w)
    <3>1. mb[w] \in Seq(Byte) /\ mb[w] # <<>>
      BY <2>1 DEF WriteAppend, HoldsBytes
    <3>2. Len(mb[w]) \in Nat \ {0}
      BY <3>1, LenProperties, EmptySeq
    <3>3. Len(accepted \o mb[w]) = Len(accepted) + Len(mb[w]) /\ Len(accepted) \in Nat
      BY <3>1, ConcatProperties
    <3>4. SubSeq(accepted \o mb[w], 1, Len(accepted)) = accepted
      BY <3>1, SubSeqOfConcat1, SubSeqFull
    <3>5. state = "open"
      BY <2>1 DEF WriteAppend, writeState
    <3>6. accepted' = accepted \o mb[w] /\ UNCHANGED <<delivered, state, rres>>
      BY <2>1 DEF WriteAppend, readerVars
    <3>7. Len(accepted') > Len(accepted)
      BY <3>2, <3>3, <3>6
    <3>8. SubSeq(accepted', 1, Len(accepted)) = accepted
      BY <3>4, <3>6
    <3>9. UNCHANGED <<delivered, S, E>>
      BY <3>6
    <3> QED BY <3>5, <3>7, <3>8, <3>9 DEF Stream!Accept
  <2>2. CASE ~WriteAppend(w)
    BY <1>1, <2>2 DEF WriteCall, WriterStep, WriteFull, WriteClosed,
        SignalReader, WriterWakes, WriterGivesUp, readerVars
  <2> QED BY <2>1, <2>2
<1>2. ASSUME NEW r \in Readers, ReadCall(r) \/ ReaderStep(r)
      PROVE  Stream!Deliver \/ Stream!SeeEof \/ Stutter
  <2>1. CASE ReadData(r)
    <3>1. state # "errord" /\ data # <<>>
      BY <2>1 DEF ReadData, readState
    <3>2. delivered # accepted /\ delivered \o data = accepted
      BY <3>1, Undelivered
    <3>3. ~E /\ ~E'
      BY <2>1, <3>2 DEF ReadData, CleanEnd
    <3> QED BY <2>1, <3>1, <3>2, <3>3 DEF ReadData, Stream!Deliver
  <2>2. CASE ReadEnd(r) /\ readState = "EOF"
    <3>1. state = "closed" /\ data = <<>>
      BY <2>2 DEF readState
    <3>2. delivered = accepted
      BY <3>1, Undelivered
    <3>3. E'
      BY <2>2 DEF ReadEnd
    <3> QED BY <2>2, <3>1, <3>2, <3>3 DEF ReadEnd, Stream!SeeEof
  <2>3. CASE ReadEnd(r) /\ readState # "EOF"
    <3>1. state # "closed"
      BY <2>3 DEF ReadEnd, readState
    <3>2. ~E /\ ~E'
      BY <2>3, <3>1 DEF ReadEnd, CleanEnd
    <3> QED BY <2>3, <3>2 DEF ReadEnd
  <2>4. CASE ReaderTakesError(r) \/ ReaderTimesOut(r)
    <3>1. E <=> E'
      BY <2>4 DEF ReaderTakesError, ReaderTimesOut, EofNeverWaits
    <3> QED BY <2>4, <3>1 DEF ReaderTakesError, ReaderTimesOut
  <2>5. CASE ReadCall(r) \/ ReadEmpty(r) \/ SignalWriter(r) \/ ReaderWakes(r)
             \/ ReaderSeesDone(r)
    BY <2>5 DEF ReadCall, ReadEmpty, SignalWriter, ReaderWakes, ReaderSeesDone
  <2> QED BY <1>2, <2>1, <2>2, <2>3, <2>4, <2>5 DEF ReaderStep
<1>3. ASSUME Close PROVE Stream!End
  BY <1>3 DEF Close, Stream!End, readerVars
<1>4. ASSUME Interrupt PROVE Stream!Break \/ Stutter
  <2>1. CASE state = "open"
    BY <1>4, <2>1 DEF Interrupt, interruptedState, Stream!Break, readerVars
  <2>2. CASE state = "closed" /\ data # <<>>
    <3>1. delivered # accepted
      BY <2>2, Undelivered
    <3> QED BY <1>4, <2>2, <3>1 DEF Interrupt, interruptedState, Stream!Break, readerVars
  <2>3. CASE state = "closed" /\ data = <<>>
    BY <1>4, <2>3 DEF Interrupt, interruptedState, readerVars
  <2>4. CASE state = "errord"
    BY <1>4, <2>4 DEF Interrupt, interruptedState, readerVars
  <2> QED BY <2>1, <2>2, <2>3, <2>4
<1>5. ASSUME ReturnAnError \/ Recover \/ UNCHANGED vars PROVE Stutter
  BY <1>5 DEF ReturnAnError, Recover, vars, readerVars
<1> QED BY <1>0, <1>1, <1>2, <1>3, <1>4, <1>5 DEF Next, Stream!Next

\* The pipe implements the atomic byte stream.
THEOREM PipeRefinesStream == Spec => Refinement
<1>1. Init => Stream!Init
  BY DEF Init, Stream!Init
<1> QED BY <1>1, AlwaysRefInv, RefinementStep, PTL DEF Spec, Refinement, Stream!Spec

=============================================================================
