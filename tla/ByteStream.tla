----------------------------- MODULE ByteStream -----------------------------
(***************************************************************************)
(* What a pipe promises its two ends, without locks, signals or blocking:  *)
(* bytes are accepted while the stream is open, a read hands over          *)
(* everything accepted so far, a closed stream still drains, a broken one  *)
(* gives nothing more, and the end of file is seen only on a closed stream *)
(* that was drained.                                                       *)
(***************************************************************************)
EXTENDS Integers, Sequences

VARIABLES accepted, delivered, status, eof

vars == <<accepted, delivered, status, eof>>

Init ==
    /\ accepted = <<>>
    /\ delivered = <<>>
    /\ status = "open"
    /\ eof = FALSE

Accept ==
    /\ status = "open"
    /\ Len(accepted') > Len(accepted)
    /\ SubSeq(accepted', 1, Len(accepted)) = accepted
    /\ UNCHANGED <<delivered, status, eof>>

Deliver ==
    /\ status # "broken"
    /\ delivered # accepted
    /\ delivered' = accepted
    /\ UNCHANGED <<accepted, status, eof>>

End ==
    /\ status = "open"
    /\ status' = "closed"
    /\ UNCHANGED <<accepted, delivered, eof>>

\* A drained, closed stream can no longer break.
Break ==
    /\ status = "open" \/ (status = "closed" /\ delivered # accepted)
    /\ status' = "broken"
    /\ UNCHANGED <<accepted, delivered, eof>>

SeeEof ==
    /\ status = "closed"
    /\ delivered = accepted
    /\ eof' = TRUE
    /\ UNCHANGED <<accepted, delivered, status>>

Next == Accept \/ Deliver \/ End \/ Break \/ SeeEof

Spec == Init /\ [][Next]_vars
=============================================================================
