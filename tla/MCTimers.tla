------------------------------ MODULE MCTimers ------------------------------
(* Retransmission and idleness: three segments through mKCP windows of two,  *)
(* and an activity timer with two SetTimeout calls with a task each.  A      *)
(* behaviour is one of one of the two, and the other stays as it is.         *)
EXTENDS KcpStream, ActivityTimer

CONSTANTS p1, p2, s1, s2, t1, t2

VARIABLE part

stream == part = "stream"

MCInit == part \in {"stream", "timer"} /\ Init /\ TimerInit

MCNext ==
    \/ stream /\ Next /\ UNCHANGED <<part, allTimerVars>>
    \/ ~stream /\ TimerNext /\ UNCHANGED <<part, vars>>

(* The fairness of FairSpec, if there is a stream; a timer that nobody has set *)
(* owes no step.                                                               *)
StreamFairness ==
    /\ WF_vars(stream /\ Push) /\ WF_vars(stream /\ Read)
    /\ WF_vars(stream /\ LoseToRecv) /\ WF_vars(stream /\ LoseToSend)
    /\ \A n \in Numbers :
          SF_vars(stream /\ Flush /\ Carries(n)) /\ SF_vars(stream /\ Arrives(n))
    /\ SF_vars(stream /\ AckFlush /\ Answers)
    /\ SF_vars(stream /\ \E m \in toSend : RecvAck(m))

MCSpec ==
    /\ MCInit /\ [][MCNext]_<<part, vars, allTimerVars>>
    /\ StreamFairness /\ TimerFairness

\* What is written to an mKCP stream is received: AllDelivered of KcpStream.
StreamDelivers == stream => AllDelivered
=============================================================================
