--------------------------- MODULE MCAnyTlsClient ---------------------------
(* Two requests over two physical sessions. *)
EXTENDS AnyTlsClient, TLC

PoolSymmetry == Permutations(Requests) \cup Permutations(Sessions)
=============================================================================
