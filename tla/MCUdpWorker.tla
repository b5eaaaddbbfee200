---------------------------- MODULE MCUdpWorker ----------------------------
(* Bounds for UdpWorker. *)
EXTENDS UdpWorker, TLC

CONSTANTS c1, c2, c3, i1, i2, k1, k2, t1, t2, t3, checkTask, rx

MCSymmetry == Permutations(Conns) \cup Permutations(Timers) \cup Permutations(CloseCallers)
=============================================================================
