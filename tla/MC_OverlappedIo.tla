---------------------------- MODULE MC_OverlappedIo ----------------------------
(***************************************************************************)
(* One socket, the two OVERLAPPED of two threads, and three programs: one  *)
(* that ends an operation before it starts the next, over ws2_32, one that *)
(* calls WSACleanup besides, and one that does none of what would be       *)
(* careful, over the zero-tier backend.                                    *)
(***************************************************************************)
EXTENDS OverlappedIo

CONSTANTS s1, o1, o2

TheCareful ==
  [kinds |-> {"read", "write"}, targets |-> {"event", "callback"}, backend |-> "ws2_32",
   patient |-> TRUE, reissues |-> FALSE, tidy |-> TRUE, cleans |-> FALSE]

TheCareless ==
  [kinds |-> {"read"}, targets |-> {"event", "callback"}, backend |-> "zero-tier",
   patient |-> FALSE, reissues |-> TRUE, tidy |-> TRUE, cleans |-> TRUE]

TheCleaning == [TheCareful EXCEPT !.kinds = {"read"}, !.cleans = TRUE]

MCPrograms == {TheCareful, TheCareless, TheCleaning}
=============================================================================
