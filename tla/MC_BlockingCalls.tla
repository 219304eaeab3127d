---------------------------- MODULE MC_BlockingCalls ----------------------------
(***************************************************************************)
(* Instances of BlockingCalls: two threads and the overlapped worker, or   *)
(* one thread that switches the socket's mode; and of AsyncLookup, which   *)
(* has no state in common with it.  A behaviour is one of either.          *)
(***************************************************************************)
EXTENDS BlockingCalls

CONSTANTS main, other, h1, h2, Handle, MaxLookups

ASSUME LookupAssumption == "none" \notin Handle /\ MaxLookups \in Nat

VARIABLES
  part,  \* whose behaviour this is
  lookup, event, messages, place, buffer, told, refused, mixed, reused

Lookups == INSTANCE AsyncLookup

lookupVars == <<lookup, event, messages, place, buffer, told, refused, mixed, reused>>

BothInit ==
  /\ part \in {"calls", "look-ups"}
  /\ Init /\ Lookups!Init

BothNext ==
  /\ UNCHANGED part
  /\ \/ part = "calls" /\ Next /\ UNCHANGED lookupVars
     \/ part = "look-ups" /\ Lookups!Next /\ UNCHANGED vars

\* The part that does not move has nothing to do that could be unfair to it: no
\* call has begun, and no look-up was asked for.
BothSpec ==
  /\ BothInit
  /\ [][BothNext]_<<part, vars, lookupVars>>
  /\ Fairness /\ Lookups!Fairness

\* The property of the look-ups.
LookupTold == Lookups!LookupTold
=============================================================================
