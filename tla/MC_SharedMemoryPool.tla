------------------------- MODULE MC_SharedMemoryPool -------------------------
(***************************************************************************)
(* Two threads of one process, sections of one and two pages.  Processes   *)
(* share nothing in the pool, a second one would only multiply the states. *)
(***************************************************************************)
EXTENDS SharedMemoryPool

CONSTANTS game, main, worker

MCProcOf == [t \in {main, worker} |-> game]
=============================================================================
