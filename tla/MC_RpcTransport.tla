--------------------------- MODULE MC_RpcTransport ---------------------------
(***************************************************************************)
(* One server and two processes: two threads in the game, one in the tool. *)
(* RpcProcesses checks the requests of processes that restart, RpcThreads  *)
(* the answers to the calls the game's threads make one after the other,   *)
(* and RpcReturns that calls return.                                       *)
(***************************************************************************)
EXTENDS RpcTransport, TLC

CONSTANTS game, tool, main, worker, other

MCProcOf == [t \in Thread |-> IF t = other THEN tool ELSE game]

\* The game's threads are alike.
Alike == Permutations({main, worker})
=============================================================================
