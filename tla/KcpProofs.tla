------------------------------ MODULE KcpProofs -----------------------------
(***************************************************************************)
(* Proofs about KcpStream, for any number of segments, any windows and any *)
(* network.  IInv is the inductive invariant: what the packets on the way  *)
(* say is needed to know that nothing they cause is premature.             *)
(***************************************************************************)
EXTENDS KcpStream, TLAPS, WellFoundedInduction

IInv ==
    /\ TypeOK
    /\ NothingForgotten
    /\ AckRemembered
    /\ PacketsAreOld
    /\ Causal

-----------------------------------------------------------------------------
(* FindFirstUnacknowledged. *)

\* A nonempty set of numbers has a first one.
LEMMA MinOfNats ==
    ASSUME NEW S \in SUBSET Nat, S # {}
    PROVE  Min(S) \in S /\ \A y \in S : Min(S) <= y
<1> DEFINE R == {ss \in Nat \X Nat : ss[1] < ss[2]}
<1>1. IsWellFoundedOn(R, Nat)
  BY NatLessThanWellFounded, Zenon DEF OpToRel
<1>2. PICK x \in S : \A y \in S : <<y, x>> \notin R
  BY <1>1, WFMin, Zenon
<1>3. ASSUME NEW y \in S PROVE x <= y
  <2>1. <<y, x>> \in Nat \X Nat /\ <<y, x>>[1] = y /\ <<y, x>>[2] = x
    OBVIOUS
  <2>2. ~(y < x)
    BY <1>2, <2>1, Zenon
  <2> QED BY <2>2
<1> QED BY <1>3, Zenon DEF Min

\* What firstUnacknowledged is relative to the window.
LEMMA FirstIsLower ==
    ASSUME NEW k \in Nat, NEW S \in SUBSET (0..(k - 1))
    PROVE  /\ First(S, k) \in 0..k
           /\ \A y \in S : First(S, k) <= y
           /\ First(S, k) = k \/ First(S, k) \in S
<1>1. CASE S = {}
  BY <1>1 DEF First
<1>2. CASE S # {}
  <2>1. S \in SUBSET Nat
    OBVIOUS
  <2>2. Min(S) \in S /\ \A y \in S : Min(S) <= y
    BY <1>2, <2>1, MinOfNats
  <2>3. First(S, k) = Min(S)
    BY <1>2, Zenon DEF First
  <2>4. Min(S) \in 0..(k - 1)
    BY <2>2, Zenon
  <2> QED BY <2>2, <2>3, <2>4
<1> QED BY <1>1, <1>2

\* Acknowledgements move it forward only.
LEMMA FirstGrows ==
    ASSUME NEW k \in Nat, NEW S \in SUBSET (0..(k - 1)), NEW T \in SUBSET S
    PROVE  First(S, k) <= First(T, k)
BY FirstIsLower

\* So does a new segment, which is the last.
LEMMA FirstPushed ==
    ASSUME NEW k \in Nat, NEW S \in SUBSET (0..(k - 1))
    PROVE  First(S \cup {k}, k + 1) = First(S, k)
<1>1. CASE S = {}
  BY <1>1, MinOfNats DEF First
<1>2. CASE S # {}
  <2> DEFINE a == First(S, k)
             b == First(S \cup {k}, k + 1)
  <2>1. a \in S /\ \A y \in S : a <= y
    BY <1>2, MinOfNats, S \in SUBSET Nat, Zenon DEF First
  <2>2. b \in S \cup {k} /\ \A y \in S \cup {k} : b <= y
    BY MinOfNats, S \cup {k} \in SUBSET Nat DEF First
  <2> HIDE DEF a, b
  <2>3. a \in Nat /\ b \in Nat /\ a < k
    BY <2>1, <2>2
  <2>4. a = b
    BY <2>1, <2>2, <2>3
  <2> QED BY <2>4 DEF a, b
<1> QED BY <1>1, <1>2

-----------------------------------------------------------------------------
(* The network. *)

\* Packets come only from where they are sent.
LEMMA CarriedIsSent ==
    ASSUME NEW net, NEW ms, NEW cap, NEW new \in Carried(net, ms, cap)
    PROVE  new \subseteq net \cup ms
BY Zenon DEF Carried

\* Delivery adds none.
LEMMA TakenIsLess ==
    ASSUME NEW net, NEW m, NEW new \in Taken(net, m)
    PROVE  new \subseteq net
<1>1. CASE Duplicates
  BY <1>1, Zenon DEF Taken
<1>2. CASE ~Duplicates
  BY <1>2, Zenon DEF Taken
<1> QED BY <1>1, <1>2

-----------------------------------------------------------------------------
(* Types. *)

\* The initial state is of the type.
LEMMA InitTypeOK == Init => TypeOK
<1> SUFFICES ASSUME Init PROVE TypeOK
  OBVIOUS
<1>1. una = First(window, next)
  BY Zenon DEF Init, First
<1>2. next \in 0..N /\ rnext \in 0..N /\ remoteNext \in Nat
  BY KcpAssumption DEF Init
<1>3. dirty \in BOOLEAN
  BY Zenon DEF Init
<1> QED BY <1>1, <1>2, <1>3, Zenon DEF Init, TypeOK

\* Forgetting segments keeps the sender's part of TypeOK.
LEMMA ForgetTypes ==
    ASSUME TypeOK, NEW gone, Forget(gone), next' = next
    PROVE  /\ window' \subseteq 0..(next' - 1) /\ sentOnce' \subseteq window'
           /\ una' = First(window', next')
BY Zenon DEF TypeOK, Forget

\* Every step keeps it; the receiver's window keeps the cache near rnext.
LEMMA TypeOKStep == TypeOK /\ [Next]_vars => TypeOK'
<1> SUFFICES ASSUME TypeOK, [Next]_vars PROVE TypeOK'
  OBVIOUS
<1>1. CASE Push
  <2>1. una' = First(window', next')
    BY <1>1, FirstPushed DEF Push, TypeOK
  <2> QED BY <1>1, <2>1, KcpAssumption DEF Push, TypeOK, recvVars, Numbers
<1>2. CASE Flush
  <2>1. PICK late \in SUBSET sentOnce, out \in SUBSET (window \cup sentOnce) :
            /\ sentOnce' = sentOnce \cup out
            /\ toRecv' \in Carried(toRecv, {[t |-> "data", n |-> n, una |-> una] : n \in out}, ToRecvCap)
    BY <1>2, Zenon DEF Flush, FirstOf
  <2>2. una \in 0..N /\ window \subseteq Numbers
    BY FirstIsLower, KcpAssumption DEF TypeOK, Numbers
  <2>3. out \subseteq window
    BY <2>1 DEF TypeOK
  <2>4. {[t |-> "data", n |-> n, una |-> una] : n \in out} \subseteq DataSegments
    BY <2>2, <2>3 DEF DataSegments
  <2>5. toRecv' \subseteq toRecv \cup {[t |-> "data", n |-> n, una |-> una] : n \in out}
    BY <2>1, CarriedIsSent
  <2>6. toRecv' \subseteq DataSegments \cup Pings
    BY <2>4, <2>5 DEF TypeOK
  <2> QED BY <1>2, <2>1, <2>3, <2>6, Zenon DEF Flush, TypeOK, recvVars, Numbers
<1>3. CASE SenderPing
  <2>1. [t |-> "ping", next |-> una] \in Pings
    BY FirstIsLower, KcpAssumption DEF TypeOK, Pings
  <2>2. toRecv' \subseteq toRecv \cup {[t |-> "ping", next |-> una]}
    BY <1>3, CarriedIsSent DEF SenderPing
  <2>3. toRecv' \subseteq DataSegments \cup Pings
    BY <2>1, <2>2 DEF TypeOK
  <2> QED BY <1>3, <2>3 DEF SenderPing, TypeOK, recvVars, Numbers
<1>4. ASSUME NEW m \in toSend, RecvAck(m) PROVE TypeOK'
  <2>1. m.next \in Nat
    BY <1>4 DEF RecvAck, TypeOK, AckSegments, Pings
  <2>2. remoteNext' \in Nat
    BY <1>4, <2>1, KcpAssumption DEF RecvAck, TypeOK
  <2>3. toSend' \subseteq toSend
    BY <1>4, TakenIsLess DEF RecvAck
  <2>4. next' = next
    BY <1>4 DEF RecvAck
  <2>5. /\ window' \subseteq 0..(next' - 1) /\ sentOnce' \subseteq window'
        /\ una' = First(window', next')
    BY <1>4, <2>4, ForgetTypes DEF RecvAck
  <2> QED BY <1>4, <2>2, <2>3, <2>4, <2>5 DEF RecvAck, TypeOK, recvVars, Numbers
<1>5. ASSUME NEW m \in toSend, RecvSenderPing(m) PROVE TypeOK'
  <2>1. toSend' \subseteq toSend
    BY <1>5, TakenIsLess DEF RecvSenderPing
  <2>2. next' = next
    BY <1>5 DEF RecvSenderPing
  <2>3. /\ window' \subseteq 0..(next' - 1) /\ sentOnce' \subseteq window'
        /\ una' = First(window', next')
    BY <1>5, <2>2, ForgetTypes DEF RecvSenderPing
  <2> QED BY <1>5, <2>1, <2>2, <2>3 DEF RecvSenderPing, TypeOK, recvVars, Numbers
<1>6. ASSUME NEW m \in toRecv, RecvData(m) PROVE TypeOK'
  <2>1. m.n \in Numbers
    BY <1>6 DEF RecvData, TypeOK, DataSegments, Pings
  <2>2. kept(m.n) \subseteq Numbers \cap (rnext..(rnext + RecvWindow - 1))
    BY <2>1, KcpAssumption DEF kept, Sub, TypeOK, Numbers
  <2>3. acks' \subseteq Numbers
    BY <1>6, <2>1 DEF RecvData, acked, unacked, TypeOK
  <2>4. toRecv' \subseteq toRecv
    BY <1>6, TakenIsLess DEF RecvData
  <2>5. dirty' \in BOOLEAN
    BY <1>6 DEF RecvData
  <2> QED BY <1>6, <2>2, <2>3, <2>4, <2>5, Zenon DEF RecvData, TypeOK, sendVars, Numbers
<1>7. ASSUME NEW m \in toRecv, RecvReceiverPing(m) PROVE TypeOK'
  <2>1. toRecv' \subseteq toRecv
    BY <1>7, TakenIsLess DEF RecvReceiverPing
  <2> QED BY <1>7, <2>1, Zenon DEF RecvReceiverPing, unacked, TypeOK, sendVars, Numbers
<1>8. CASE Read
  <2>1. PICK k \in (rnext + 1)..N : rnext' = k /\ cache' = cache \ (rnext..(k - 1))
    BY <1>8 DEF Read
  <2>2. k \in Nat /\ k <= N
    BY <2>1, KcpAssumption DEF TypeOK
  <2>3. cache' \subseteq Numbers \cap (k..(k + RecvWindow - 1))
    BY <2>1, <2>2, KcpAssumption DEF TypeOK, Numbers
  <2> QED BY <1>8, <2>1, <2>2, <2>3 DEF Read, TypeOK, sendVars, Numbers
<1>9. CASE AckFlush
  <2>1. [t |-> "ack", next |-> rnext, list |-> acks] \in AckSegments
    BY DEF TypeOK, AckSegments
  <2>2. toSend' \subseteq toSend \cup {[t |-> "ack", next |-> rnext, list |-> acks]}
    BY <1>9, CarriedIsSent DEF AckFlush
  <2>3. toSend' \subseteq AckSegments \cup Pings
    BY <2>1, <2>2 DEF TypeOK
  <2> QED BY <1>9, <2>3, Zenon DEF AckFlush, TypeOK, sendVars, Numbers
<1>10. CASE ReceiverPing
  <2>1. [t |-> "ping", next |-> rnext] \in Pings
    BY DEF TypeOK, Pings
  <2>2. toSend' \subseteq toSend \cup {[t |-> "ping", next |-> rnext]}
    BY <1>10, CarriedIsSent DEF ReceiverPing
  <2>3. toSend' \subseteq AckSegments \cup Pings
    BY <2>1, <2>2 DEF TypeOK
  <2> QED BY <1>10, <2>3 DEF ReceiverPing, TypeOK, sendVars, recvVars, Numbers
<1>11. CASE LoseToRecv \/ LoseToSend
  BY <1>11, Zenon DEF LoseToRecv, LoseToSend, TypeOK, sendVars, recvVars, Numbers
<1>12. CASE UNCHANGED vars
  BY <1>12 DEF vars, TypeOK, Numbers
<1> QED BY <1>1, <1>2, <1>3, <1>4, <1>5, <1>6, <1>7, <1>8, <1>9, <1>10, <1>11, <1>12 DEF Next

-----------------------------------------------------------------------------
(* Nothing goes back. *)

\* firstUnacknowledged never decreases.
LEMMA UnaGrows ==
    ASSUME TypeOK, [Next]_vars
    PROVE  una \in Nat /\ una' \in Nat /\ una <= una'
<1>1. una \in Nat /\ una' \in Nat
  BY TypeOKStep, FirstIsLower, KcpAssumption DEF TypeOK
<1>2. ASSUME NEW gone, Forget(gone), next' = next PROVE una <= una'
  <2>1. una = First(window, next) /\ una' = First(window', next)
    BY <1>2 DEF TypeOK, Forget
  <2>2. window' \in SUBSET window
    BY <1>2 DEF Forget
  <2>3. next \in Nat /\ window \in SUBSET (0..(next - 1))
    BY KcpAssumption DEF TypeOK
  <2>4. First(window, next) <= First(window', next)
    BY <2>2, <2>3, FirstGrows
  <2> QED BY <2>1, <2>4
<1>3. CASE \E m \in toSend : RecvAck(m) \/ RecvSenderPing(m)
  <2>1. PICK gone : Forget(gone) /\ next' = next
    BY <1>3, Zenon DEF RecvAck, RecvSenderPing
  <2> QED BY <1>1, <1>2, <2>1
<1>4. CASE una' = una
  BY <1>1, <1>4
<1> QED BY <1>3, <1>4 DEF Next, vars, sendVars, Push, Flush, SenderPing, RecvData, RecvReceiverPing,
             Read, AckFlush, ReceiverPing, LoseToRecv, LoseToSend

\* What is received stays received, in the cache or delivered.
LEMMA ReceivedGrows ==
    ASSUME TypeOK, [Next]_vars
    PROVE  Received \subseteq Received' /\ rnext <= rnext'
<1>1. CASE Read
  <2>1. PICK k \in (rnext + 1)..N : rnext' = k /\ cache' = cache \ (rnext..(k - 1))
    BY <1>1 DEF Read
  <2>2. k \in Nat /\ rnext \in Nat /\ rnext < k /\ cache \subseteq Nat
    BY <2>1, KcpAssumption DEF TypeOK, Numbers
  <2> QED BY <2>1, <2>2 DEF Received
<1>2. CASE rnext' = rnext /\ cache \subseteq cache'
  BY <1>2, KcpAssumption DEF TypeOK, Received
<1> QED BY <1>1, <1>2, Zenon DEF Next, vars, recvVars, Push, Flush, SenderPing, RecvAck, RecvSenderPing,
             RecvData, RecvReceiverPing, AckFlush, ReceiverPing, LoseToRecv, LoseToSend

-----------------------------------------------------------------------------
(* What packets say. *)

\* A packet says what its sender knew, and both ends only learn.
LEMMA PacketsAreOldStep ==
    TypeOK /\ Causal /\ PacketsAreOld /\ [Next]_vars => PacketsAreOld'
<1> SUFFICES ASSUME TypeOK, Causal, PacketsAreOld, [Next]_vars PROVE PacketsAreOld'
  OBVIOUS
<1> DEFINE Data(m) == IF m.t = "data" THEN m.una <= una' ELSE m.next <= una'
           Ack(m) == m.next <= rnext' /\ (m.t = "ack" => m.list \subseteq Received')
<1>1. TypeOK'
  BY TypeOKStep
<1>2. una \in Nat /\ una' \in Nat /\ una <= una'
  BY UnaGrows
<1>3. Received \subseteq Received' /\ rnext \in Nat /\ rnext' \in Nat /\ rnext <= rnext'
  BY <1>1, ReceivedGrows, KcpAssumption DEF TypeOK
<1>4. \A m \in toRecv : Data(m)
  BY <1>2, KcpAssumption DEF PacketsAreOld, TypeOK, DataSegments, Pings
<1>5. \A m \in toSend : Ack(m)
  BY <1>3, KcpAssumption DEF PacketsAreOld, TypeOK, AckSegments, Pings
<1>6. \A m \in toRecv' : Data(m)
  <2>1. CASE Flush
    <3>1. PICK out : toRecv' \in Carried(toRecv, {[t |-> "data", n |-> n, una |-> una] : n \in out}, ToRecvCap)
      BY <2>1, Zenon DEF Flush
    <3>2. toRecv' \subseteq toRecv \cup {[t |-> "data", n |-> n, una |-> una] : n \in out}
      BY <3>1, CarriedIsSent
    <3> QED BY <1>2, <1>4, <3>2
  <2>2. CASE SenderPing
    <3>1. toRecv' \subseteq toRecv \cup {[t |-> "ping", next |-> una]}
      BY <2>2, CarriedIsSent DEF SenderPing
    <3> QED BY <1>2, <1>4, <3>1
  <2>3. CASE \E m \in toRecv : RecvData(m) \/ RecvReceiverPing(m)
    BY <1>4, <2>3, TakenIsLess, Zenon DEF RecvData, RecvReceiverPing
  <2>4. CASE toRecv' \subseteq toRecv
    BY <1>4, <2>4
  <2> QED BY <2>1, <2>2, <2>3, <2>4, Zenon DEF Next, vars, Push, RecvAck, RecvSenderPing, Read, AckFlush,
               ReceiverPing, LoseToRecv, LoseToSend
<1>7. \A m \in toSend' : Ack(m)
  <2>1. CASE AckFlush
    <3>1. toSend' \subseteq toSend \cup {[t |-> "ack", next |-> rnext, list |-> acks]}
      BY <2>1, CarriedIsSent DEF AckFlush
    <3>2. acks \subseteq Received'
      BY <1>3 DEF Causal
    <3> QED BY <1>3, <1>5, <3>1, <3>2
  <2>2. CASE ReceiverPing
    <3>1. toSend' \subseteq toSend \cup {[t |-> "ping", next |-> rnext]}
      BY <2>2, CarriedIsSent DEF ReceiverPing
    <3> QED BY <1>3, <1>5, <3>1
  <2>3. CASE \E m \in toSend : RecvAck(m) \/ RecvSenderPing(m)
    BY <1>5, <2>3, TakenIsLess, Zenon DEF RecvAck, RecvSenderPing
  <2>4. CASE toSend' \subseteq toSend
    BY <1>5, <2>4
  <2> QED BY <2>1, <2>2, <2>3, <2>4 DEF Next, vars, Push, Flush, SenderPing, RecvData,
               RecvReceiverPing, Read, LoseToRecv, LoseToSend
<1> QED BY <1>6, <1>7 DEF PacketsAreOld

\* RecvData keeps a segment exactly when it acknowledges it.
LEMMA DataReceived ==
    ASSUME TypeOK, NEW m \in toRecv, RecvData(m)
    PROVE  /\ m.n \in Numbers /\ m.una \in Nat
           /\ acked(m.n) = kept(m.n) /\ kept(m.n) \subseteq {m.n}
           /\ Received' = Received \cup kept(m.n)
<1>1. m.n \in Numbers /\ m.una \in Nat
  BY DEF RecvData, TypeOK, DataSegments, Pings
<1>2. acked(m.n) = kept(m.n) /\ kept(m.n) \subseteq {m.n}
  BY Zenon DEF acked, kept
<1>3. rnext' = rnext /\ cache' = cache \cup kept(m.n)
  BY Zenon DEF RecvData
<1> QED BY <1>1, <1>2, <1>3 DEF Received

\* Reading moves segments from the cache to what is delivered.
LEMMA ReadReceived ==
    ASSUME TypeOK, Read
    PROVE  Received' = Received
<1>1. PICK k \in (rnext + 1)..N : /\ rnext' = k /\ rnext..(k - 1) \subseteq cache
                                  /\ cache' = cache \ (rnext..(k - 1))
  BY DEF Read
<1>2. k \in Nat /\ rnext \in Nat /\ rnext < k /\ cache \subseteq Nat
  BY <1>1, KcpAssumption DEF TypeOK, Numbers
<1>3. 0..(k - 1) = 0..(rnext - 1) \cup (rnext..(k - 1))
  BY <1>2
<1> HIDE DEF Received
<1>4. Received' = 0..(k - 1) \cup (cache \ (rnext..(k - 1)))
  BY <1>1 DEF Received
<1>5. Received = 0..(rnext - 1) \cup cache
  BY DEF Received
<1> QED BY <1>1, <1>3, <1>4, <1>5, Zenon

\* Segments enter by Push alone, and acknowledgements by RecvData.
LEMMA CausalStep ==
    TypeOK /\ Causal /\ [Next]_vars => Causal'
<1> SUFFICES ASSUME TypeOK, Causal, [Next]_vars PROVE Causal'
  OBVIOUS
<1> DEFINE Sent(net, k) == \A m \in net : m.t = "data" => m.n < k
<1>1. CASE Push
  <2>1. next \in Nat /\ next' = next + 1 /\ toRecv' = toRecv /\ acks' = acks /\ Received' = Received
    BY <1>1, KcpAssumption DEF Push, TypeOK, recvVars, Received
  <2>2. Sent(toRecv, next)
    BY DEF Causal
  <2>3. \A m \in toRecv : m.t = "data" => m.n \in Nat
    BY KcpAssumption DEF TypeOK, DataSegments, Pings, Numbers
  <2>4. Sent(toRecv', next')
    BY <2>1, <2>2, <2>3
  <2>5. Received' \subseteq 0..(next' - 1)
    BY <2>1 DEF Causal
  <2> QED BY <2>1, <2>4, <2>5 DEF Causal
<1>2. CASE Flush
  <2>1. PICK late \in SUBSET sentOnce, out \in SUBSET (window \cup sentOnce) :
            toRecv' \in Carried(toRecv, {[t |-> "data", n |-> n, una |-> una] : n \in out}, ToRecvCap)
    BY <1>2, Zenon DEF Flush, FirstOf
  <2>2. toRecv' \subseteq toRecv \cup {[t |-> "data", n |-> n, una |-> una] : n \in out}
    BY <2>1, CarriedIsSent
  <2>3. \A n \in out : n < next
    BY <2>1, KcpAssumption DEF TypeOK
  <2>4. Sent(toRecv', next)
    BY <2>2, <2>3 DEF Causal
  <2> QED BY <1>2, <2>4 DEF Causal, Flush, recvVars, Received
<1>3. CASE SenderPing
  <2>1. toRecv' \subseteq toRecv \cup {[t |-> "ping", next |-> una]}
    BY <1>3, CarriedIsSent DEF SenderPing
  <2>2. Sent(toRecv', next)
    BY <2>1 DEF Causal
  <2> QED BY <1>3, <2>2 DEF Causal, SenderPing, recvVars, Received
<1>4. CASE \E m \in toSend : RecvAck(m) \/ RecvSenderPing(m)
  BY <1>4, Zenon DEF Causal, RecvAck, RecvSenderPing, recvVars, Received
<1>5. ASSUME NEW m \in toRecv, RecvData(m) PROVE Causal'
  <2>0. m.n \in Nat
    BY <1>5, DataReceived, KcpAssumption DEF Numbers
  <2>1. Received' = Received \cup kept(m.n) /\ kept(m.n) \subseteq {m.n} /\ acked(m.n) = kept(m.n)
    BY <1>5, DataReceived, Zenon
  <2>2. acks' \subseteq acks \cup kept(m.n)
    BY <1>5, <2>1 DEF RecvData, unacked
  <2>3. m.n < next /\ next \in Nat /\ next' = next
    BY <1>5, KcpAssumption DEF RecvData, Causal, TypeOK, sendVars
  <2>4. toRecv' \subseteq toRecv
    BY <1>5, TakenIsLess DEF RecvData
  <2>5. Received' \subseteq 0..(next - 1)
    <3>1. {m.n} \subseteq 0..(next - 1)
      BY <2>0, <2>3
    <3> QED BY <2>1, <3>1, Zenon DEF Causal
  <2>6. acks' \subseteq Received'
    BY <2>1, <2>2 DEF Causal
  <2> QED BY <2>3, <2>4, <2>5, <2>6 DEF Causal
<1>6. ASSUME NEW m \in toRecv, RecvReceiverPing(m) PROVE Causal'
  <2>1. toRecv' \subseteq toRecv
    BY <1>6, TakenIsLess DEF RecvReceiverPing
  <2> QED BY <1>6, <2>1, Zenon DEF Causal, RecvReceiverPing, unacked, sendVars, Received
<1>7. CASE Read
  BY <1>7, ReadReceived, Zenon DEF Read, Causal, sendVars
<1>8. CASE AckFlush \/ ReceiverPing \/ LoseToRecv \/ LoseToSend \/ UNCHANGED vars
  BY <1>8, Zenon DEF AckFlush, ReceiverPing, LoseToRecv, LoseToSend, vars, sendVars, recvVars, Causal, Received
<1> QED BY <1>1, <1>2, <1>3, <1>4, <1>5, <1>6, <1>7, <1>8 DEF Next

-----------------------------------------------------------------------------
(* The invariants. *)

\* The sender forgets a segment only when a packet says it was received, and
\* such packets tell the truth.
LEMMA NothingForgottenStep ==
    TypeOK /\ PacketsAreOld /\ NothingForgotten /\ [Next]_vars => NothingForgotten'
<1> SUFFICES ASSUME TypeOK, PacketsAreOld, NothingForgotten, [Next]_vars PROVE NothingForgotten'
  OBVIOUS
<1>1. Received \subseteq Received'
  BY ReceivedGrows
<1>2. ASSUME NEW m \in toSend, NEW gone, Forget(gone), next' = next,
             gone \subseteq Below(m.next) \cup Received
      PROVE  NothingForgotten'
  <2>1. m.next \in Nat /\ m.next <= rnext /\ rnext \in Nat
    BY <1>2, KcpAssumption DEF PacketsAreOld, TypeOK, AckSegments, Pings
  <2>2. Below(m.next) \subseteq Received
    <3>1. window \subseteq Nat
      BY KcpAssumption DEF TypeOK
    <3>2. \A n \in Nat : n < m.next => n \in 0..(rnext - 1)
      BY <2>1
    <3> QED BY <3>1, <3>2, Zenon DEF Below, Received
  <2> QED BY <1>1, <1>2, <2>2, Zenon DEF NothingForgotten, Forget
<1>3. ASSUME NEW m \in toSend, RecvAck(m) PROVE NothingForgotten'
  <2>1. Acknowledged(m.list) \subseteq Received
    BY <1>3, Zenon DEF RecvAck, Acknowledged, PacketsAreOld
  <2> QED BY <1>2, <1>3, <2>1, Zenon DEF RecvAck
<1>4. ASSUME NEW m \in toSend, RecvSenderPing(m) PROVE NothingForgotten'
  BY <1>2, <1>4, Zenon DEF RecvSenderPing
<1>5. CASE Push
  <2>1. window' = window \cup {next} /\ next' = next + 1
    BY <1>5 DEF Push
  <2>2. 0..(next' - 1) = 0..(next - 1) \cup {next}
    BY <2>1, KcpAssumption DEF TypeOK
  <2> QED BY <1>1, <2>1, <2>2, Zenon DEF NothingForgotten
<1>6. CASE window' = window /\ next' = next
  BY <1>1, <1>6, Zenon DEF NothingForgotten
<1> QED BY <1>3, <1>4, <1>5, <1>6 DEF Next, vars, sendVars, Flush, SenderPing, RecvData,
             RecvReceiverPing, Read, AckFlush, ReceiverPing, LoseToRecv, LoseToSend

\* The ack list is cleared only below a number that the sender has passed.
LEMMA AckRememberedStep ==
    TypeOK /\ PacketsAreOld /\ Causal /\ AckRemembered /\ [Next]_vars => AckRemembered'
<1> SUFFICES ASSUME TypeOK, PacketsAreOld, Causal, AckRemembered, [Next]_vars PROVE AckRemembered'
  OBVIOUS
<1>1. ASSUME NEW k \in Nat, k <= una PROVE Received \cap window \subseteq unacked(k)
  <2>1. una \in Nat /\ window \subseteq Nat /\ \A n \in window : una <= n
    BY FirstIsLower, KcpAssumption DEF TypeOK
  <2>2. \A n \in window : k <= n
    BY <1>1, <2>1
  <2> QED BY <2>1, <2>2, Zenon DEF unacked, AckRemembered
<1>2. CASE Push
  <2>1. next \notin Received
    BY KcpAssumption DEF Causal, TypeOK
  <2>2. window' = window \cup {next} /\ Received' = Received /\ acks' = acks
    BY <1>2 DEF Push, recvVars, Received
  <2> QED BY <2>1, <2>2, Zenon DEF AckRemembered
<1>3. CASE \E m \in toSend : RecvAck(m) \/ RecvSenderPing(m)
  <2>1. window' \subseteq window
    BY <1>3 DEF RecvAck, RecvSenderPing, Forget
  <2>2. Received' = Received /\ acks' = acks
    BY <1>3 DEF RecvAck, RecvSenderPing, recvVars, Received
  <2> QED BY <2>1, <2>2, Zenon DEF AckRemembered
<1>4. ASSUME NEW m \in toRecv, RecvData(m) PROVE AckRemembered'
  <2>1. window' = window /\ Received' = Received \cup kept(m.n) /\ acked(m.n) = kept(m.n)
    BY <1>4, DataReceived, Zenon DEF RecvData, sendVars
  <2>2. CASE kept(m.n) = {}
    BY <1>4, <2>1, <2>2, Zenon DEF RecvData, AckRemembered
  <2>3. CASE kept(m.n) # {}
    <3>1. m.una \in Nat /\ m.una <= una
      BY <1>4, DataReceived, Zenon DEF RecvData, PacketsAreOld
    <3>2. acks' = unacked(m.una) \cup kept(m.n)
      BY <1>4, <2>1, <2>3, Zenon DEF RecvData
    <3>3. Received \cap window \subseteq unacked(m.una)
      BY <1>1, <3>1
    <3> QED BY <2>1, <3>2, <3>3, Zenon DEF AckRemembered
  <2> QED BY <2>2, <2>3
<1>5. ASSUME NEW m \in toRecv, RecvReceiverPing(m) PROVE AckRemembered'
  <2>1. window' = window /\ Received' = Received /\ acks' = unacked(m.next)
    BY <1>5 DEF RecvReceiverPing, sendVars, Received
  <2>2. m.next \in Nat /\ m.next <= una
    BY <1>5, KcpAssumption DEF RecvReceiverPing, PacketsAreOld, TypeOK, DataSegments, Pings
  <2>3. Received \cap window \subseteq unacked(m.next)
    BY <1>1, <2>2
  <2> QED BY <2>1, <2>3, Zenon DEF AckRemembered
<1>6. CASE Read
  BY <1>6, ReadReceived, Zenon DEF Read, sendVars, AckRemembered
<1>7. CASE window' = window /\ Received' = Received /\ acks' = acks
  BY <1>7, Zenon DEF AckRemembered
<1> QED BY <1>2, <1>3, <1>4, <1>5, <1>6, <1>7 DEF Next, vars, sendVars, recvVars, Flush, SenderPing,
             AckFlush, ReceiverPing, LoseToRecv, LoseToSend, Received

\* IInv holds initially.
LEMMA InitIInv == Init => IInv
<1> SUFFICES ASSUME Init PROVE IInv
  OBVIOUS
<1>1. Received = {}
  BY DEF Init, Received
<1>2. 0..(next - 1) = {}
  BY DEF Init
<1> QED BY <1>1, <1>2, InitTypeOK, Zenon
    DEF IInv, Init, NothingForgotten, AckRemembered, PacketsAreOld, Causal

\* IInv is inductive.
LEMMA IInvStep == IInv /\ [Next]_vars => IInv'
BY TypeOKStep, PacketsAreOldStep, CausalStep, NothingForgottenStep, AckRememberedStep, Zenon DEF IInv

\* IInv always holds.
THEOREM KcpInvariant == Spec => []IInv
<1> QED BY InitIInv, IInvStep, PTL DEF Spec

\* However the network loses, repeats and reorders, the two workers keep the
\* types and windows of TypeOK.
THEOREM KcpTypes == Spec => []TypeOK
<1>1. IInv => TypeOK
  BY DEF IInv
<1> QED BY <1>1, KcpInvariant, PTL

\* The SendingWorker never forgets a segment that the ReceivingWorker does not
\* have.
THEOREM KcpNothingForgotten == Spec => []NothingForgotten
<1>1. IInv => NothingForgotten
  BY DEF IInv
<1> QED BY <1>1, KcpInvariant, PTL

\* The AckList keeps every received number that the sender still waits for.
THEOREM KcpAckRemembered == Spec => []AckRemembered
<1>1. IInv => AckRemembered
  BY DEF IInv
<1> QED BY <1>1, KcpInvariant, PTL
=============================================================================
