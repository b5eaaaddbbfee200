---------------------------- MODULE MCMuxCarrier ----------------------------
(* A few sessions over links that hold one or two frames. *)
EXTENDS MuxCarrier, TLC

CONSTANTS o1, o2

Symmetry == Permutations(Objs)
=============================================================================
