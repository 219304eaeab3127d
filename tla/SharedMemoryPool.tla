--------------------------- MODULE SharedMemoryPool ---------------------------
(***************************************************************************)
(* The pool of shared-memory sections a client of the socket server keeps. *)
(*                                                                         *)
(* Every call of ws2_32-rpc-client.cpp passes its parameters to the server *)
(* in a named section it takes from this pool; a call that also moves data *)
(* takes a second section while it holds the first.  A section is known by *)
(* its name, and the name is the process id followed by the number of      *)
(* sections the process had when it was created: inside one process a      *)
(* section is that number.  Sections are never destroyed while the library *)
(* stays loaded, they only move between "cache" (free) and "used".         *)
(***************************************************************************)
EXTENDS Integers, FiniteSets

CONSTANTS
  Process,    \* client processes
  Thread,     \* their threads
  ProcOf,     \* the process of each thread
  Size,       \* section sizes, in pages, a call may ask for
  ParamSize,  \* the size of a parameter block, one page
  MaxSlots,   \* bound: sections one process may create
  NoSlot      \* "holds no section"

ASSUME PoolAssumption ==
  /\ ProcOf \in [Thread -> Process]
  /\ Size \subseteq Nat \ {0}
  /\ ParamSize \in Size
  /\ MaxSlots \in Nat
  /\ NoSlot \notin Nat

VARIABLES
  cache,      \* free sections of each process
  used,       \* sections of each process some call holds
  length,     \* pages of each section, 0 when it does not exist
  params,     \* the section each thread passes its parameters in
  buffer      \* the section each thread passes its data in

poolVars == <<cache, used, length, params, buffer>>

Slot == 0 .. MaxSlots - 1

PoolInit ==
  /\ cache  = [p \in Process |-> {}]
  /\ used   = [p \in Process |-> {}]
  /\ length = [p \in Process |-> [i \in Slot |-> 0]]
  /\ params = [t \in Thread |-> NoSlot]
  /\ buffer = [t \in Thread |-> NoSlot]

-----------------------------------------------------------------------------
\* Mutant of NewName: sections in use are not counted.
FreeCount(p) == Cardinality(cache[p])

\* The number in the name of a new section: how many the process has.
NewName(p) == Cardinality(cache[p]) + Cardinality(used[p])

\* Mutant of Fitting: sections are never found again.
NeverFitting(p, n) == {}

\* The free sections a request for n pages can be served from.
Fitting(p, n) == {i \in cache[p] : length[p][i] >= n}

\* Mutant of GetGlobalMemory: the section it gives out stays in the cache.
StillCached(p, n, i) ==
  /\ \/ i \in Fitting(p, n) /\ UNCHANGED length
     \/ Fitting(p, n) = {} /\ i = NewName(p) /\ length' = [length EXCEPT ![p][i] = n]
  /\ used'  = [used EXCEPT ![p] = @ \cup {i}]
  /\ cache' = [cache EXCEPT ![p] = @ \cup {i}]

\* get_global_memory: a free section that is large enough (the map is ordered
\* by atom, which says nothing about names, so any of them), a new one only
\* when there is none.  The whole body runs under cache_mutex.
GetGlobalMemory(p, n, i) ==
  /\ \/ i \in Fitting(p, n) /\ UNCHANGED length
     \/ /\ Fitting(p, n) = {}
        /\ i = NewName(p)
        /\ length' = [length EXCEPT ![p][i] = n]
  /\ used'  = [used EXCEPT ![p] = @ \cup {i}]
  /\ cache' = [cache EXCEPT ![p] = @ \ {i}]

\* The deleter of the pointer get_global_memory returned.
PutBack(p, i) ==
  /\ cache' = [cache EXCEPT ![p] = IF i \in used[p] THEN @ \cup {i} ELSE @]
  /\ used'  = [used EXCEPT ![p] = @ \ {i}]
  /\ UNCHANGED length

-----------------------------------------------------------------------------
\* A call takes the section for its parameters...
TakeParams(t) ==
  /\ params[t] = NoSlot
  /\ buffer[t] = NoSlot
  /\ \E i \in Slot :
       /\ GetGlobalMemory(ProcOf[t], ParamSize, i)
       /\ params' = [params EXCEPT ![t] = i]
  /\ UNCHANGED buffer

\* ... and, while it fills them in, the one for its data.
TakeBuffer(t) ==
  /\ params[t] # NoSlot
  /\ buffer[t] = NoSlot
  /\ \E n \in Size, i \in Slot :
       /\ GetGlobalMemory(ProcOf[t], n, i)
       /\ buffer' = [buffer EXCEPT ![t] = i]
  /\ UNCHANGED params

\* send_message_to_server returns: its section goes back first ...
PutParams(t) ==
  /\ params[t] # NoSlot
  /\ PutBack(ProcOf[t], params[t])
  /\ params' = [params EXCEPT ![t] = NoSlot]
  /\ UNCHANGED buffer

\* ... and the section of the data when the enclosing lambda returns.
PutBuffer(t) ==
  /\ params[t] = NoSlot
  /\ buffer[t] # NoSlot
  /\ PutBack(ProcOf[t], buffer[t])
  /\ buffer' = [buffer EXCEPT ![t] = NoSlot]
  /\ UNCHANGED params

\* The process ends, or the library is unloaded: "deferred" deletes the atoms,
\* the views and the handles, and the names are free to be given again.
Unload(p) ==
  /\ cache'  = [cache EXCEPT ![p] = {}]
  /\ used'   = [used EXCEPT ![p] = {}]
  /\ length' = [length EXCEPT ![p] = [i \in Slot |-> 0]]
  /\ params' = [t \in Thread |-> IF ProcOf[t] = p THEN NoSlot ELSE params[t]]
  /\ buffer' = [t \in Thread |-> IF ProcOf[t] = p THEN NoSlot ELSE buffer[t]]

\* There is no memory for a new section, and std::bad_alloc leaves get_global_memory.
\* The calls that take two sections, and most others, are noexcept: the process ends.
\* WSAStartup, which takes two in advance, catches it and gives the first back.  (Of
\* the calls it does leave it leaves nothing behind.)
BadAlloc(t) ==
  /\ buffer[t] = NoSlot
  /\ \E n \in Size : Fitting(ProcOf[t], n) = {}
  /\ Unload(ProcOf[t]) \/ PutParams(t)

PoolNext ==
  \/ \E t \in Thread : \/ TakeParams(t)
                       \/ TakeBuffer(t)
                       \/ PutParams(t)
                       \/ PutBuffer(t)
                       \/ BadAlloc(t)
  \/ \E p \in Process : Unload(p)

PoolSpec == PoolInit /\ [][PoolNext]_poolVars

-----------------------------------------------------------------------------
\* The sections thread t holds.
Holding(t) == {params[t], buffer[t]} \ {NoSlot}

\* Types of the pool's two maps, of the sizes and of what the threads hold.
PoolTypeOK ==
  /\ cache  \in [Process -> SUBSET Slot]
  /\ used   \in [Process -> SUBSET Slot]
  /\ length \in [Process -> [Slot -> Size \cup {0}]]
  /\ params \in [Thread -> Slot \cup {NoSlot}]
  /\ buffer \in [Thread -> Slot \cup {NoSlot}]

\* No section is ever used by two calls at once, nor for the parameters and
\* the data of one call: get_global_memory gives out a section only once
\* between two runs of its deleter.
ExclusiveSlots ==
  /\ \A t, u \in Thread :
       t # u /\ ProcOf[t] = ProcOf[u] => Holding(t) \cap Holding(u) = {}
  /\ \A t \in Thread : params[t] # NoSlot => params[t] # buffer[t]

\* No section leaks: whatever path a call leaves by, a section in "used" is one
\* that some thread holds, and every section held is in "used".
UsedIsHeld ==
  \A p \in Process, i \in Slot :
    i \in used[p] <=> \E t \in Thread : ProcOf[t] = p /\ i \in Holding(t)

\* The two maps of get_global_memory partition the sections that exist, and
\* those are numbered 0, 1, 2, ... without a gap: that is what makes a count a
\* name nobody has.
Ledger ==
  \A p \in Process :
    /\ cache[p] \cap used[p] = {}
    /\ cache[p] \cup used[p] = 0 .. NewName(p) - 1
    /\ \A i \in Slot : length[p][i] # 0 <=> i \in cache[p] \cup used[p]

\* The name computed for a new section, a count, is never the name of a section
\* the process still has: CreateFileMapping would silently open that one.
FreshNames ==
  [][\A p \in Process, i \in Slot :
       length[p][i] # length'[p][i] /\ length'[p][i] # 0 => length[p][i] = 0]_poolVars

\* Calls cannot make the pool grow without end: a process never has more
\* sections than two for each of its threads and each size ever asked for.
PoolBounded ==
  \A p \in Process :
    Cardinality({i \in Slot : length[p][i] # 0})
      <= 2 * Cardinality({t \in Thread : ProcOf[t] = p}) * Cardinality(Size)
=============================================================================
