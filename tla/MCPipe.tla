------------------------------- MODULE MCPipe -------------------------------
(* An instance of Pipe for TLC. *)
EXTENDS Pipe

\* A limit of one byte that blocks, and a limit of zero that discards.
MCOptions == {[limit |-> 1, discardOverflow |-> FALSE],
              [limit |-> 0, discardOverflow |-> TRUE]}
=============================================================================
