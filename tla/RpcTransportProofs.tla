--------------------------- MODULE RpcTransportProofs ---------------------------
(***************************************************************************)
(* Proofs about SharedMemoryPool and about RpcTransport, which implements  *)
(* it, for any processes, threads, sizes and bounds.                       *)
(*                                                                         *)
(* The pool.  ExclusiveSlots is not inductive alone: that a section taken  *)
(* from "cache" is held by nobody needs the two maps to be disjoint        *)
(* (Ledger) and "used" to be what the threads hold (UsedIsHeld); that a    *)
(* section that is created is held by nobody needs its name to be new,     *)
(* which is again Ledger, since the name is the number of sections there   *)
(* are.                                                                    *)
(*                                                                         *)
(* The transport.  What its steps do to the sections is what               *)
(* SharedMemoryPool allows, so what is proved of the pool holds of it.     *)
(*                                                                         *)
(* A call is carried out on what it wrote and is answered with its own     *)
(* results.  Neither is inductive alone.  That the handler writes into the *)
(* sections of the call it serves needs the views to be of the sections    *)
(* that have the names now (Views), one message at most to be on its way   *)
(* for a call (Messages, Served), and the sections of a call to hold what  *)
(* the call put there (Filled).  That no other handler writes there after  *)
(* the call was answered is more than the pool's ExclusiveSlots: a call    *)
(* that was given up leaves its message behind and its sections to others. *)
(* But its message is older than theirs, and the server takes messages in  *)
(* the order they were sent: when a call is answered, every message that   *)
(* names one of its sections has been dealt with (Ordered, ServedFirst).   *)
(***************************************************************************)
EXTENDS RpcTransport, FiniteSetTheorems, FunctionTheorems, TLAPS

-----------------------------------------------------------------------------
(* The requests.                                                           *)

\* The two halves of the transport fit, whatever the request: the messages are told
\* apart, the handlers in the server take only what the client's calls fill in, and
\* the calls read only what the handlers give.
THEOREM RequestsMatch == Matched
<1> DEFINE Fits(r) == /\ Server[r].takes \subseteq Client[r].fills
                      /\ Client[r].reads \subseteq Server[r].gives
                      /\ Client[r].fills \cup Server[r].gives \subseteq Params[r]
<1>1. \A r, s \in Name : Id[r] = Id[s] => r = s
  BY DEF Name, Id
<1>2. Fits("shutdown") /\ Fits("close") /\ Fits("cleanup")
  BY DEF Client, Server, Params, Asks, Handles, AskShutdown, AskClose, AskCleanup, HandleShutdown, HandleClose,
         HandleCleanup
<1>3. Fits("socket") /\ Fits("ioctl") /\ Fits("listen") /\ Fits("isset")
  BY DEF Client, Server, Params, Asks, Handles, AskSocket, AskIoctl, AskListen, AskIsSet, HandleSocket, HandleIoctl,
         HandleListen, HandleIsSet
<1>4. Fits("getsockopt") /\ Fits("setsockopt")
  BY DEF Client, Server, Params, Asks, Handles, AskGetSockOpt, AskSetSockOpt, HandleGetSockOpt, HandleSetSockOpt, Option
<1>5. Fits("bind") /\ Fits("connect") /\ Fits("getsockname") /\ Fits("getpeername")
  BY DEF Client, Server, Params, Asks, Handles, AskBind, AskConnect, AskGetSockName, AskGetPeerName, HandleBind, HandleName,
         Address
<1>6. Fits("accept") /\ Fits("sendto") /\ Fits("recvfrom")
  BY DEF Client, Server, Params, Asks, Handles, AskAccept, AskSendTo, AskRecvFrom, HandleAccept, HandleSendTo, HandleRecvFrom,
         From, To, Transfer
<1>7. Fits("select") /\ Fits("gethostbyname")
  BY DEF Client, Server, Params, Asks, Handles, AskSelect, AskHostByName, HandleSelect, HandleHostByName, Sets
<1> HIDE DEF Fits
<1>8. \A r \in Name : Fits(r)
  BY <1>2, <1>3, <1>4, <1>5, <1>6, <1>7 DEF Name, Id
<1> QED BY <1>1, <1>8 DEF Fits, Matched

-----------------------------------------------------------------------------
(* The pool.                                                               *)

\* The inductive invariant.
PoolIInv == PoolTypeOK /\ Ledger /\ UsedIsHeld /\ ExclusiveSlots

\* The number in a new name, when the maps are disjoint sets of slots.
LEMMA NewNameIsNat ==
  ASSUME PoolTypeOK, NEW p \in Process
  PROVE  /\ IsFiniteSet(cache[p]) /\ IsFiniteSet(used[p])
         /\ Cardinality(cache[p]) \in Nat /\ Cardinality(used[p]) \in Nat
         /\ NewName(p) \in Nat
<1>1. IsFiniteSet(Slot)
  BY PoolAssumption, FS_Interval DEF Slot
<1>2. cache[p] \in SUBSET Slot /\ used[p] \in SUBSET Slot
  BY DEF PoolTypeOK
<1>3. IsFiniteSet(cache[p]) /\ IsFiniteSet(used[p])
  BY <1>1, <1>2, FS_Subset
<1>4. Cardinality(cache[p]) \in Nat /\ Cardinality(used[p]) \in Nat
  BY <1>3, FS_CardinalityType
<1> QED BY <1>3, <1>4 DEF NewName

\* Taking a section: it was held by nobody, and the books stay in order.
LEMMA GetKeepsLedger ==
  ASSUME PoolTypeOK, Ledger, NEW p \in Process, NEW n \in Size, NEW i \in Slot,
         GetGlobalMemory(p, n, i)
  PROVE  /\ i \notin used[p]
         /\ used' = [used EXCEPT ![p] = @ \cup {i}]
         /\ cache' \in [Process -> SUBSET Slot]
         /\ used' \in [Process -> SUBSET Slot]
         /\ length' \in [Process -> [Slot -> Size \cup {0}]]
         /\ Ledger'
<1>1. /\ cache[p] \subseteq Slot /\ used[p] \subseteq Slot
      /\ cache' = [cache EXCEPT ![p] = @ \ {i}]
      /\ used' = [used EXCEPT ![p] = @ \cup {i}]
  BY DEF PoolTypeOK, GetGlobalMemory
<1>2. /\ cache' \in [Process -> SUBSET Slot]
      /\ used' \in [Process -> SUBSET Slot]
      /\ length' \in [Process -> [Slot -> Size \cup {0}]]
  BY DEF PoolTypeOK, GetGlobalMemory
<1>3. /\ cache'[p] = cache[p] \ {i}
      /\ used'[p] = used[p] \cup {i}
      /\ \A q \in Process : q # p => cache'[q] = cache[q] /\ used'[q] = used[q]
  BY <1>1 DEF PoolTypeOK
<1>4. /\ IsFiniteSet(cache[p]) /\ IsFiniteSet(used[p])
      /\ Cardinality(cache[p]) \in Nat /\ Cardinality(used[p]) \in Nat
  BY NewNameIsNat
<1>5. /\ cache[p] \cap used[p] = {}
      /\ \A j \in Slot : length[p][j] # 0 <=> j \in cache[p] \cup used[p]
  BY DEF Ledger
<1>6. cache[p] \cup used[p] = 0 .. NewName(p) - 1
  BY DEF Ledger
<1>7. /\ NewName(p) = Cardinality(cache[p]) + Cardinality(used[p])
      /\ NewName(p)' = Cardinality(cache'[p]) + Cardinality(used'[p])
  BY DEF NewName
<1>8. /\ i \notin used[p]
      /\ cache'[p] \cap used'[p] = {}
      /\ cache'[p] \cup used'[p] = 0 .. NewName(p)' - 1
      /\ \A j \in Slot : length'[p][j] # 0 <=> j \in cache'[p] \cup used'[p]
  <2>1. CASE i \in cache[p] /\ UNCHANGED length
    <3>1. i \notin used[p] /\ cache'[p] \cup used'[p] = cache[p] \cup used[p]
      BY <2>1, <1>3, <1>5
    <3>2. Cardinality(cache[p] \ {i}) = Cardinality(cache[p]) - 1
      BY <2>1, <1>4, FS_RemoveElement
    <3>3. Cardinality(used[p] \cup {i}) = Cardinality(used[p]) + 1
      BY <3>1, <1>4, FS_AddElement
    <3>4. NewName(p)' = NewName(p)
      BY <3>2, <3>3, <1>3, <1>4, <1>7
    <3>5. cache'[p] \cup used'[p] = 0 .. NewName(p)' - 1
      BY <3>1, <3>4, <1>6
    <3>6. cache'[p] \cap used'[p] = {}
      BY <3>1, <1>3, <1>5
    <3>7. \A j \in Slot : length'[p][j] # 0 <=> j \in cache'[p] \cup used'[p]
      BY <2>1, <3>1, <1>5
    <3> QED BY <3>1, <3>5, <3>6, <3>7
  <2>2. CASE i = NewName(p) /\ length' = [length EXCEPT ![p][i] = n]
    <3>1. NewName(p) \in Nat
      BY <1>4, <1>7
    <3>2. i \notin cache[p] \cup used[p]
      BY <2>2, <3>1, <1>6
    <3>3. cache'[p] = cache[p]
      BY <3>2, <1>3
    <3>4. Cardinality(used[p] \cup {i}) = Cardinality(used[p]) + 1
      BY <3>2, <1>4, FS_AddElement
    <3>5. NewName(p)' = NewName(p) + 1
      <4>1. Cardinality(used'[p]) = Cardinality(used[p]) + 1
        BY <3>4, <1>3
      <4>2. Cardinality(cache'[p]) = Cardinality(cache[p])
        BY <3>3
      <4> QED BY <4>1, <4>2, <1>4, <1>7
    <3>6. cache'[p] \cup used'[p] = (0 .. NewName(p) - 1) \cup {NewName(p)}
      BY <2>2, <3>3, <1>3, <1>6
    <3>7. (0 .. NewName(p) - 1) \cup {NewName(p)} = 0 .. NewName(p)
      BY <3>1
    <3>8. cache'[p] \cup used'[p] = 0 .. NewName(p)' - 1
      <4>1. NewName(p)' - 1 = NewName(p)
        BY <3>1, <3>5
      <4> QED BY <4>1, <3>6, <3>7
    <3>9. \A j \in Slot : length'[p][j] = IF j = i THEN n ELSE length[p][j]
      BY <2>2 DEF PoolTypeOK
    <3>10. n # 0
      BY PoolAssumption
    <3>11. cache'[p] \cap used'[p] = {}
      BY <3>2, <3>3, <1>3, <1>5
    <3>12. \A j \in Slot : length'[p][j] # 0 <=> j \in cache'[p] \cup used'[p]
      BY <3>3, <3>9, <3>10, <1>3, <1>5
    <3> QED BY <3>2, <3>8, <3>11, <3>12
  <2> QED BY <2>1, <2>2 DEF GetGlobalMemory, Fitting
<1>9. Ledger'
  <2> SUFFICES ASSUME NEW q \in Process
               PROVE  /\ cache'[q] \cap used'[q] = {}
                      /\ cache'[q] \cup used'[q] = 0 .. NewName(q)' - 1
                      /\ \A j \in Slot : length'[q][j] # 0 <=> j \in cache'[q] \cup used'[q]
    BY DEF Ledger
  <2>1. CASE q = p
    BY <2>1, <1>8
  <2>2. CASE q # p
    <3>1. length'[q] = length[q]
      BY <2>2 DEF GetGlobalMemory, PoolTypeOK
    <3> QED BY <2>2, <3>1, <1>3 DEF Ledger, NewName
  <2> QED BY <2>1, <2>2
<1> QED BY <1>1, <1>2, <1>8, <1>9

\* Giving a section back that is in use.
LEMMA PutKeepsLedger ==
  ASSUME PoolTypeOK, Ledger, NEW p \in Process, NEW i \in used[p], PutBack(p, i)
  PROVE  /\ used' = [used EXCEPT ![p] = @ \ {i}]
         /\ cache' \in [Process -> SUBSET Slot]
         /\ used' \in [Process -> SUBSET Slot]
         /\ length' \in [Process -> [Slot -> Size \cup {0}]]
         /\ Ledger'
<1>1. /\ cache' = [cache EXCEPT ![p] = @ \cup {i}]
      /\ used' = [used EXCEPT ![p] = @ \ {i}]
      /\ length' = length
      /\ i \in Slot
  BY DEF PoolTypeOK, PutBack
<1>2. /\ cache' \in [Process -> SUBSET Slot]
      /\ used' \in [Process -> SUBSET Slot]
      /\ length' \in [Process -> [Slot -> Size \cup {0}]]
  BY <1>1 DEF PoolTypeOK
<1>3. /\ cache'[p] = cache[p] \cup {i}
      /\ used'[p] = used[p] \ {i}
      /\ \A q \in Process : q # p => cache'[q] = cache[q] /\ used'[q] = used[q]
  BY <1>1 DEF PoolTypeOK
<1>4. /\ IsFiniteSet(cache[p]) /\ IsFiniteSet(used[p])
      /\ Cardinality(cache[p]) \in Nat /\ Cardinality(used[p]) \in Nat
  BY NewNameIsNat
<1>5. i \notin cache[p]
  BY DEF Ledger
<1>6. /\ Cardinality(cache'[p]) = Cardinality(cache[p]) + 1
      /\ Cardinality(used'[p]) = Cardinality(used[p]) - 1
  <2>1. Cardinality(cache[p] \cup {i}) = Cardinality(cache[p]) + 1
    BY <1>4, <1>5, FS_AddElement
  <2>2. Cardinality(used[p] \ {i}) = Cardinality(used[p]) - 1
    BY <1>4, FS_RemoveElement
  <2> QED BY <1>3, <2>1, <2>2
<1>7. /\ cache'[p] \cap used'[p] = {}
      /\ cache'[p] \cup used'[p] = cache[p] \cup used[p]
      /\ NewName(p)' = NewName(p)
  BY <1>3, <1>4, <1>6 DEF Ledger, NewName
<1>8. Ledger'
  <2> SUFFICES ASSUME NEW q \in Process
               PROVE  /\ cache'[q] \cap used'[q] = {}
                      /\ cache'[q] \cup used'[q] = 0 .. NewName(q)' - 1
                      /\ \A j \in Slot : length'[q][j] # 0 <=> j \in cache'[q] \cup used'[q]
    BY DEF Ledger
  <2>1. CASE q = p
    BY <2>1, <1>1, <1>7 DEF Ledger
  <2>2. CASE q # p
    BY <2>2, <1>1, <1>3 DEF Ledger, NewName
  <2> QED BY <2>1, <2>2
<1> QED BY <1>1, <1>2, <1>8

\* One more section is used and its thread holds it ...
LEMMA OneMoreHeld ==
  ASSUME PoolTypeOK, UsedIsHeld, NEW t \in Thread, NEW i \in Slot,
         used' = [used EXCEPT ![ProcOf[t]] = @ \cup {i}],
         Holding(t)' = Holding(t) \cup {i},
         \A u \in Thread : u # t => Holding(u)' = Holding(u)
  PROVE  UsedIsHeld'
<1> SUFFICES ASSUME NEW p \in Process, NEW j \in Slot
             PROVE  j \in used'[p] <=> \E u \in Thread : ProcOf[u] = p /\ j \in Holding(u)'
  BY DEF UsedIsHeld
<1>1. j \in used[p] <=> \E u \in Thread : ProcOf[u] = p /\ j \in Holding(u)
  BY DEF UsedIsHeld
<1>2. used'[p] = IF p = ProcOf[t] THEN used[p] \cup {i} ELSE used[p]
  BY DEF PoolTypeOK
<1>3. CASE p = ProcOf[t] /\ j = i
  BY <1>2, <1>3
<1>4. CASE ~(p = ProcOf[t] /\ j = i)
  <2>1. j \in used'[p] <=> j \in used[p]
    BY <1>2, <1>4
  <2>2. \A u \in Thread : ProcOf[u] = p => (j \in Holding(u)' <=> j \in Holding(u))
    BY <1>4
  <2> QED BY <1>1, <2>1, <2>2
<1> QED BY <1>3, <1>4

\* ... or one section fewer is used, and nobody holds it.
LEMMA OneFewerHeld ==
  ASSUME PoolTypeOK, UsedIsHeld, NEW t \in Thread, NEW i \in Slot,
         used' = [used EXCEPT ![ProcOf[t]] = @ \ {i}],
         Holding(t)' = Holding(t) \ {i},
         \A u \in Thread : u # t => Holding(u)' = Holding(u),
         \A u \in Thread : u # t /\ ProcOf[u] = ProcOf[t] => i \notin Holding(u)
  PROVE  UsedIsHeld'
<1> SUFFICES ASSUME NEW p \in Process, NEW j \in Slot
             PROVE  j \in used'[p] <=> \E u \in Thread : ProcOf[u] = p /\ j \in Holding(u)'
  BY DEF UsedIsHeld
<1>1. j \in used[p] <=> \E u \in Thread : ProcOf[u] = p /\ j \in Holding(u)
  BY DEF UsedIsHeld
<1>2. used'[p] = IF p = ProcOf[t] THEN used[p] \ {i} ELSE used[p]
  BY DEF PoolTypeOK
<1>3. CASE p = ProcOf[t] /\ j = i
  <2>1. j \notin used'[p]
    BY <1>2, <1>3
  <2>2. \A u \in Thread : ProcOf[u] = p => j \notin Holding(u)'
    BY <1>3
  <2> QED BY <2>1, <2>2
<1>4. CASE ~(p = ProcOf[t] /\ j = i)
  <2>1. j \in used'[p] <=> j \in used[p]
    BY <1>2, <1>4
  <2>2. \A u \in Thread : ProcOf[u] = p => (j \in Holding(u)' <=> j \in Holding(u))
    BY <1>4
  <2> QED BY <1>1, <2>1, <2>2
<1> QED BY <1>3, <1>4

\* A section just taken belongs to nobody else.
LEMMA TakeParamsKeepsIInv ==
  ASSUME PoolIInv, NEW t \in Thread, TakeParams(t)
  PROVE  PoolIInv'
<1> DEFINE p == ProcOf[t]
<1>1. p \in Process
  BY PoolAssumption
<1>2. PICK i \in Slot : /\ GetGlobalMemory(p, ParamSize, i)
                        /\ params' = [params EXCEPT ![t] = i]
  BY DEF TakeParams
<1>3. /\ i \notin used[p]
      /\ used' = [used EXCEPT ![p] = @ \cup {i}]
      /\ cache' \in [Process -> SUBSET Slot]
      /\ used' \in [Process -> SUBSET Slot]
      /\ length' \in [Process -> [Slot -> Size \cup {0}]]
      /\ Ledger'
  BY <1>1, <1>2, PoolAssumption, GetKeepsLedger DEF PoolIInv
<1>4. buffer' = buffer /\ params[t] = NoSlot /\ buffer[t] = NoSlot
  BY DEF TakeParams
<1>5. PoolTypeOK'
  BY <1>2, <1>3, <1>4 DEF PoolIInv, PoolTypeOK
<1>6. i # NoSlot
  BY PoolAssumption DEF Slot
<1>7. /\ Holding(t) = {} /\ Holding(t)' = {i}
      /\ \A u \in Thread : u # t => Holding(u)' = Holding(u)
  BY <1>2, <1>4, <1>6 DEF PoolIInv, PoolTypeOK, Holding
<1>8. UsedIsHeld'
  <2>1. Holding(t)' = Holding(t) \cup {i}
    BY <1>7
  <2> QED BY <2>1, <1>3, <1>7, OneMoreHeld DEF PoolIInv
<1>9. ExclusiveSlots'
  <2>1. \A u \in Thread : ProcOf[u] = p => i \notin Holding(u)
    BY <1>1, <1>3 DEF PoolIInv, UsedIsHeld
  <2> QED BY <2>1, <1>2, <1>4, <1>6, <1>7 DEF PoolIInv, PoolTypeOK, ExclusiveSlots
<1> QED BY <1>3, <1>5, <1>8, <1>9 DEF PoolIInv

LEMMA TakeBufferKeepsIInv ==
  ASSUME PoolIInv, NEW t \in Thread, TakeBuffer(t)
  PROVE  PoolIInv'
<1> DEFINE p == ProcOf[t]
<1>1. p \in Process
  BY PoolAssumption
<1>2. PICK n \in Size, i \in Slot : /\ GetGlobalMemory(p, n, i)
                                   /\ buffer' = [buffer EXCEPT ![t] = i]
  BY DEF TakeBuffer
<1>3. /\ i \notin used[p]
      /\ used' = [used EXCEPT ![p] = @ \cup {i}]
      /\ cache' \in [Process -> SUBSET Slot]
      /\ used' \in [Process -> SUBSET Slot]
      /\ length' \in [Process -> [Slot -> Size \cup {0}]]
      /\ Ledger'
  BY <1>1, <1>2, GetKeepsLedger DEF PoolIInv
<1>4. params' = params /\ params[t] # NoSlot /\ buffer[t] = NoSlot
  BY DEF TakeBuffer
<1>5. PoolTypeOK'
  BY <1>2, <1>3, <1>4 DEF PoolIInv, PoolTypeOK
<1>6. i # NoSlot
  BY PoolAssumption DEF Slot
<1>7. /\ Holding(t) = {params[t]} /\ Holding(t)' = {params[t], i}
      /\ \A u \in Thread : u # t => Holding(u)' = Holding(u)
  BY <1>2, <1>4, <1>6 DEF PoolIInv, PoolTypeOK, Holding
<1>8. UsedIsHeld'
  <2>1. Holding(t)' = Holding(t) \cup {i}
    BY <1>7
  <2> QED BY <2>1, <1>3, <1>7, OneMoreHeld DEF PoolIInv
<1>9. ExclusiveSlots'
  <2>1. \A u \in Thread : ProcOf[u] = p => i \notin Holding(u)
    BY <1>1, <1>3 DEF PoolIInv, UsedIsHeld
  <2>2. i # params[t]
    BY <2>1, <1>7
  <2> QED BY <2>1, <2>2, <1>2, <1>4, <1>6, <1>7 DEF PoolIInv, PoolTypeOK, ExclusiveSlots
<1> QED BY <1>3, <1>5, <1>8, <1>9 DEF PoolIInv

\* A section given back was held by this thread alone.
LEMMA PutParamsKeepsIInv ==
  ASSUME PoolIInv, NEW t \in Thread, PutParams(t)
  PROVE  PoolIInv'
<1> DEFINE p == ProcOf[t]
           i == params[t]
<1>1. p \in Process
  BY PoolAssumption
<1>2. /\ PutBack(p, i)
      /\ params' = [params EXCEPT ![t] = NoSlot]
      /\ buffer' = buffer
      /\ i # NoSlot
  BY DEF PutParams
<1>3. i \in Slot /\ i \in Holding(t)
  BY <1>2 DEF PoolIInv, PoolTypeOK, Holding
<1>4. i \in used[p]
  BY <1>1, <1>3 DEF PoolIInv, UsedIsHeld
<1>5. /\ used' = [used EXCEPT ![p] = @ \ {i}]
      /\ cache' \in [Process -> SUBSET Slot]
      /\ used' \in [Process -> SUBSET Slot]
      /\ length' \in [Process -> [Slot -> Size \cup {0}]]
      /\ Ledger'
  BY <1>1, <1>2, <1>4, PutKeepsLedger DEF PoolIInv
<1>6. PoolTypeOK'
  BY <1>2, <1>5 DEF PoolIInv, PoolTypeOK
<1>7. /\ Holding(t)' = Holding(t) \ {i}
      /\ \A u \in Thread : u # t => Holding(u)' = Holding(u)
  BY <1>2 DEF PoolIInv, PoolTypeOK, Holding, ExclusiveSlots
<1>8. \A u \in Thread : u # t /\ ProcOf[u] = p => i \notin Holding(u)
  BY <1>3 DEF PoolIInv, ExclusiveSlots
<1>9. UsedIsHeld'
  BY <1>3, <1>5, <1>7, <1>8, OneFewerHeld DEF PoolIInv
<1>10. ExclusiveSlots'
  BY <1>2, <1>7 DEF PoolIInv, PoolTypeOK, ExclusiveSlots
<1> QED BY <1>5, <1>6, <1>9, <1>10 DEF PoolIInv

LEMMA PutBufferKeepsIInv ==
  ASSUME PoolIInv, NEW t \in Thread, PutBuffer(t)
  PROVE  PoolIInv'
<1> DEFINE p == ProcOf[t]
           i == buffer[t]
<1>1. p \in Process
  BY PoolAssumption
<1>2. /\ PutBack(p, i)
      /\ buffer' = [buffer EXCEPT ![t] = NoSlot]
      /\ params' = params
      /\ params[t] = NoSlot /\ i # NoSlot
  BY DEF PutBuffer
<1>3. i \in Slot /\ i \in Holding(t)
  BY <1>2 DEF PoolIInv, PoolTypeOK, Holding
<1>4. i \in used[p]
  BY <1>1, <1>3 DEF PoolIInv, UsedIsHeld
<1>5. /\ used' = [used EXCEPT ![p] = @ \ {i}]
      /\ cache' \in [Process -> SUBSET Slot]
      /\ used' \in [Process -> SUBSET Slot]
      /\ length' \in [Process -> [Slot -> Size \cup {0}]]
      /\ Ledger'
  BY <1>1, <1>2, <1>4, PutKeepsLedger DEF PoolIInv
<1>6. PoolTypeOK'
  BY <1>2, <1>5 DEF PoolIInv, PoolTypeOK
<1>7. /\ Holding(t)' = Holding(t) \ {i}
      /\ \A u \in Thread : u # t => Holding(u)' = Holding(u)
  BY <1>2 DEF PoolIInv, PoolTypeOK, Holding
<1>8. \A u \in Thread : u # t /\ ProcOf[u] = p => i \notin Holding(u)
  BY <1>3 DEF PoolIInv, ExclusiveSlots
<1>9. UsedIsHeld'
  BY <1>3, <1>5, <1>7, <1>8, OneFewerHeld DEF PoolIInv
<1>10. ExclusiveSlots'
  BY <1>2, <1>7 DEF PoolIInv, PoolTypeOK, ExclusiveSlots
<1> QED BY <1>5, <1>6, <1>9, <1>10 DEF PoolIInv

\* An unloaded library leaves an empty pool, and nobody who holds of it.
LEMMA UnloadKeepsIInv ==
  ASSUME PoolIInv, NEW p \in Process, Unload(p)
  PROVE  PoolIInv'
<1>1. /\ cache' = [cache EXCEPT ![p] = {}]
      /\ used' = [used EXCEPT ![p] = {}]
      /\ length' = [length EXCEPT ![p] = [i \in Slot |-> 0]]
      /\ params' = [t \in Thread |-> IF ProcOf[t] = p THEN NoSlot ELSE params[t]]
      /\ buffer' = [t \in Thread |-> IF ProcOf[t] = p THEN NoSlot ELSE buffer[t]]
  BY DEF Unload
<1>2. PoolTypeOK'
  BY <1>1 DEF PoolIInv, PoolTypeOK
<1>3. Ledger'
  <2>1. NewName(p)' = 0
    BY <1>1, FS_EmptySet DEF PoolIInv, PoolTypeOK, NewName
  <2>2. 0 .. NewName(p)' - 1 = {}
    BY <2>1
  <2>3. cache'[p] = {} /\ used'[p] = {} /\ length'[p] = [i \in Slot |-> 0]
    BY <1>1 DEF PoolIInv, PoolTypeOK
  <2>4. \A q \in Process : q # p => /\ cache'[q] = cache[q] /\ used'[q] = used[q]
                                    /\ length'[q] = length[q] /\ NewName(q)' = NewName(q)
    BY <1>1 DEF PoolIInv, PoolTypeOK, NewName
  <2> QED BY <2>2, <2>3, <2>4 DEF PoolIInv, Ledger
<1>4. \A t \in Thread : Holding(t)' = IF ProcOf[t] = p THEN {} ELSE Holding(t)
  BY <1>1 DEF Holding
<1>5. UsedIsHeld'
  BY <1>1, <1>4 DEF PoolIInv, PoolTypeOK, UsedIsHeld
<1>6. ExclusiveSlots'
  BY <1>1, <1>4 DEF PoolIInv, ExclusiveSlots
<1> QED BY <1>2, <1>3, <1>5, <1>6 DEF PoolIInv

LEMMA PoolInitIInv == PoolInit => PoolIInv
<1> SUFFICES ASSUME PoolInit PROVE PoolIInv
  OBVIOUS
<1>1. PoolTypeOK
  BY DEF PoolInit, PoolTypeOK
<1>2. Ledger
  <2> SUFFICES ASSUME NEW p \in Process
               PROVE  /\ cache[p] \cap used[p] = {}
                      /\ cache[p] \cup used[p] = 0 .. NewName(p) - 1
                      /\ \A i \in Slot : length[p][i] # 0 <=> i \in cache[p] \cup used[p]
    BY DEF Ledger
  <2>1. cache[p] = {} /\ used[p] = {} /\ \A i \in Slot : length[p][i] = 0
    BY DEF PoolInit
  <2>2. NewName(p) = 0
    BY <2>1, FS_EmptySet DEF NewName
  <2>3. 0 .. NewName(p) - 1 = {}
    BY <2>2
  <2> QED BY <2>1, <2>3
<1>3. UsedIsHeld /\ ExclusiveSlots
  BY DEF PoolInit, UsedIsHeld, ExclusiveSlots, Holding
<1> QED BY <1>1, <1>2, <1>3 DEF PoolIInv

LEMMA PoolNextIInv == PoolIInv /\ [PoolNext]_poolVars => PoolIInv'
<1> SUFFICES ASSUME PoolIInv, [PoolNext]_poolVars PROVE PoolIInv'
  OBVIOUS
<1>1. CASE UNCHANGED poolVars
  BY <1>1 DEF poolVars, PoolIInv, PoolTypeOK, Ledger, NewName, UsedIsHeld, ExclusiveSlots, Holding
<1>2. ASSUME NEW t \in Thread, TakeParams(t) PROVE PoolIInv'
  BY <1>2, TakeParamsKeepsIInv
<1>3. ASSUME NEW t \in Thread, TakeBuffer(t) PROVE PoolIInv'
  BY <1>3, TakeBufferKeepsIInv
<1>4. ASSUME NEW t \in Thread, PutParams(t) PROVE PoolIInv'
  BY <1>4, PutParamsKeepsIInv
<1>5. ASSUME NEW t \in Thread, PutBuffer(t) PROVE PoolIInv'
  BY <1>5, PutBufferKeepsIInv
<1>6. ASSUME NEW p \in Process, Unload(p) PROVE PoolIInv'
  BY <1>6, UnloadKeepsIInv
<1>7. ASSUME NEW t \in Thread, BadAlloc(t) PROVE PoolIInv'
  BY <1>7, PutParamsKeepsIInv, UnloadKeepsIInv, PoolAssumption DEF BadAlloc
<1> QED BY <1>1, <1>2, <1>3, <1>4, <1>5, <1>6, <1>7 DEF PoolNext

\* The pool's maps, sizes and holders keep their types in every behaviour.
THEOREM PoolTypeCorrect == PoolSpec => []PoolTypeOK
<1>1. PoolIInv => PoolTypeOK
  BY DEF PoolIInv
<1> QED BY PoolInitIInv, PoolNextIInv, <1>1, PTL DEF PoolSpec

\* Two calls never share a section of shared memory, for any number of threads,
\* sections and sizes (get_global_memory and its deleter).
THEOREM PoolExclusive == PoolSpec => []ExclusiveSlots
<1>1. PoolIInv => ExclusiveSlots
  BY DEF PoolIInv
<1> QED BY PoolInitIInv, PoolNextIInv, <1>1, PTL DEF PoolSpec

\* No call leaks a section and the two maps always partition what exists.
THEOREM PoolBooksInOrder == PoolSpec => [](UsedIsHeld /\ Ledger)
<1>1. PoolIInv => UsedIsHeld /\ Ledger
  BY DEF PoolIInv
<1> QED BY PoolInitIInv, PoolNextIInv, <1>1, PTL DEF PoolSpec
\* A mapping is created only under a name no section of the process has.
THEOREM PoolFreshNames == PoolSpec => FreshNames
<1> DEFINE Fresh == \A p \in Process, i \in Slot :
                      length[p][i] # length'[p][i] /\ length'[p][i] # 0 => length[p][i] = 0
<1>1. PoolIInv /\ [PoolNext]_poolVars => [Fresh]_poolVars
  <2> SUFFICES ASSUME PoolIInv, PoolNext, NEW p \in Process, NEW i \in Slot,
                      length[p][i] # length'[p][i], length'[p][i] # 0
               PROVE  length[p][i] = 0
    OBVIOUS
  <2>1. ASSUME NEW q \in Process, NEW n \in Size, NEW j \in Slot, GetGlobalMemory(q, n, j)
        PROVE  length[p][i] = 0
    <3>1. j = NewName(q) /\ length' = [length EXCEPT ![q][j] = n]
      BY <2>1 DEF GetGlobalMemory
    <3>2. p = q /\ i = j
      BY <3>1 DEF PoolIInv, PoolTypeOK
    <3>3. NewName(p) \in Nat
      BY NewNameIsNat DEF PoolIInv
    <3>4. cache[p] \cup used[p] = 0 .. NewName(p) - 1
      BY DEF PoolIInv, Ledger
    <3>5. i \notin cache[p] \cup used[p]
      BY <3>1, <3>2, <3>3, <3>4
    <3> QED BY <3>5 DEF PoolIInv, Ledger
  <2>2. ASSUME NEW t \in Thread, TakeParams(t) PROVE length[p][i] = 0
    BY <2>1, <2>2, PoolAssumption DEF TakeParams
  <2>3. ASSUME NEW t \in Thread, TakeBuffer(t) PROVE length[p][i] = 0
    BY <2>1, <2>3, PoolAssumption DEF TakeBuffer
  <2>4. ASSUME NEW t \in Thread, PutParams(t) \/ PutBuffer(t) PROVE length[p][i] = 0
    BY <2>4 DEF PutParams, PutBuffer, PutBack
  <2>5. ASSUME NEW q \in Process, Unload(q) PROVE length[p][i] = 0
    BY <2>5 DEF Unload, PoolIInv, PoolTypeOK
  <2>6. ASSUME NEW t \in Thread, BadAlloc(t) PROVE length[p][i] = 0
    BY <2>4, <2>5, <2>6, PoolAssumption DEF BadAlloc
  <2> QED BY <2>2, <2>3, <2>4, <2>5, <2>6 DEF PoolNext
<1> QED BY <1>1, PoolInitIInv, PoolNextIInv, PTL DEF PoolSpec, FreshNames

-----------------------------------------------------------------------------
\* What the threads of T hold, one as parameters and one as data each, is at most
\* twice as many as there are threads.
LEMMA HeldAreFew ==
  ASSUME NEW S, NEW T, IsFiniteSet(T), NEW pa, NEW bu,
         \A i \in S : \E t \in T : i \in {pa[t], bu[t]}
  PROVE  /\ IsFiniteSet(S)
         /\ Cardinality(S) <= 2 * Cardinality(T)
<1> DEFINE Hand == {"params", "buffer"}
           In(h) == IF h[2] = "params" THEN pa[h[1]] ELSE bu[h[1]]
           f == [i \in S |-> CHOOSE h \in T \X Hand : In(h) = i]
<1>1. IsFiniteSet(Hand) /\ Cardinality(Hand) = 2
  <2>1. Hand = {"params"} \cup {"buffer"} /\ "buffer" \notin {"params"}
    OBVIOUS
  <2>2. IsFiniteSet({"params"}) /\ Cardinality({"params"}) = 1
    BY FS_Singleton
  <2> QED BY <2>1, <2>2, FS_AddElement
<1>2. /\ IsFiniteSet(T \X Hand)
      /\ Cardinality(T \X Hand) = 2 * Cardinality(T)
  <2>1. Cardinality(T \X Hand) = Cardinality(T) * Cardinality(Hand) /\ IsFiniteSet(T \X Hand)
    BY <1>1, FS_Product
  <2>2. Cardinality(T) \in Nat
    BY FS_CardinalityType
  <2>3. Cardinality(T) * 2 = 2 * Cardinality(T)
    BY <2>2
  <2> QED BY <1>1, <2>1, <2>3
<1>3. ASSUME NEW i \in S PROVE \E h \in T \X Hand : In(h) = i
  <2>1. PICK t \in T : i = pa[t] \/ i = bu[t]
    OBVIOUS
  <2>2. CASE i = pa[t]
    <3>1. <<t, "params">> \in T \X Hand /\ In(<<t, "params">>) = i
      BY <2>2
    <3> QED BY <3>1
  <2>3. CASE i = bu[t]
    <3>1. <<t, "buffer">> \in T \X Hand /\ In(<<t, "buffer">>) = i
      BY <2>3
    <3> QED BY <3>1
  <2> QED BY <2>1, <2>2, <2>3
<1>4. \A i \in S : f[i] \in T \X Hand /\ In(f[i]) = i
  <2> HIDE DEF In
  <2> QED BY <1>3
<1>5. f \in Injection(S, T \X Hand)
  <2>1. f \in [S -> T \X Hand]
    BY <1>4
  <2>2. ASSUME NEW i \in S, NEW j \in S, f[i] = f[j] PROVE i = j
    <3> HIDE DEF f, In
    <3> QED BY <1>4, <2>2
  <2> QED BY <2>1, <2>2 DEF Injection, IsInjective
<1> QED BY <1>2, <1>5, FS_Injection

\* The sections of n pages a process has.
OfSize(p, n) == {i \in Slot : length[p][i] = n}
ThreadsOf(p) == {t \in Thread : ProcOf[t] = p}

\* A section is created only when all of its size are held: so there are no more of
\* one size than can be held at once.
FewOfSize ==
  \A p \in Process, n \in Size : Cardinality(OfSize(p, n)) <= 2 * Cardinality(ThreadsOf(p))

LEMMA ThreadsAreFinite ==
  ASSUME IsFiniteSet(Thread), NEW p \in Process
  PROVE  IsFiniteSet(ThreadsOf(p)) /\ Cardinality(ThreadsOf(p)) \in Nat
<1>1. ThreadsOf(p) \in SUBSET Thread
  BY DEF ThreadsOf
<1> QED BY <1>1, FS_Subset, FS_CardinalityType

\* Taking a section keeps the sections of each size few.
LEMMA GetKeepsFew ==
  ASSUME IsFiniteSet(Thread), PoolIInv, PoolIInv', FewOfSize,
         NEW q \in Process, NEW m \in Size, NEW j \in Slot, GetGlobalMemory(q, m, j)
  PROVE  FewOfSize'
<1> SUFFICES ASSUME NEW p \in Process, NEW n \in Size
             PROVE  Cardinality(OfSize(p, n)') <= 2 * Cardinality(ThreadsOf(p))
  BY DEF FewOfSize, ThreadsOf
<1>1. CASE UNCHANGED length
  BY <1>1 DEF FewOfSize, OfSize
<1>2. CASE /\ Fitting(q, m) = {}
           /\ length' = [length EXCEPT ![q][j] = m]
  <2>1. CASE p = q /\ n = m
    <3>1. ASSUME NEW i \in OfSize(p, n)' PROVE \E t \in ThreadsOf(p) : i \in {params'[t], buffer'[t]}
      <4>1. i \in Slot /\ (i = j \/ length[p][i] = n)
        BY <1>2, <2>1, <3>1 DEF OfSize, PoolIInv, PoolTypeOK
      <4>2. used'[p] = used[p] \cup {j}
        BY <2>1 DEF GetGlobalMemory, PoolIInv, PoolTypeOK
      <4>3. i \in used'[p]
        <5>1. CASE i = j
          BY <4>2, <5>1
        <5>2. CASE length[p][i] = n
          <6>1. n \in Nat /\ n # 0
            BY PoolAssumption
          <6>2. i \in cache[p] \cup used[p]
            BY <4>1, <5>2, <6>1 DEF PoolIInv, Ledger
          <6>3. i \notin cache[p]
            BY <1>2, <2>1, <5>2, <6>1 DEF Fitting
          <6> QED BY <4>2, <6>2, <6>3
        <5> QED BY <4>1, <5>1, <5>2
      <4>4. PICK t \in Thread : ProcOf[t] = p /\ i \in {params'[t], buffer'[t]}
        BY <4>1, <4>3 DEF PoolIInv, UsedIsHeld, Holding
      <4> QED BY <4>4 DEF ThreadsOf
    <3>2. IsFiniteSet(ThreadsOf(p))
      BY ThreadsAreFinite
    <3> QED BY <3>1, <3>2, HeldAreFew
  <2>2. CASE ~(p = q /\ n = m)
    <3>1. OfSize(p, n)' \in SUBSET OfSize(p, n)
      BY <1>2, <2>2 DEF OfSize, PoolIInv, PoolTypeOK
    <3>2. IsFiniteSet(OfSize(p, n))
      <4>1. IsFiniteSet(Slot)
        BY PoolAssumption, FS_Interval DEF Slot
      <4>2. OfSize(p, n) \in SUBSET Slot
        BY DEF OfSize
      <4> QED BY <4>1, <4>2, FS_Subset
    <3>3. Cardinality(OfSize(p, n)') <= Cardinality(OfSize(p, n)) /\ IsFiniteSet(OfSize(p, n)')
      BY <3>1, <3>2, FS_Subset
    <3>4. Cardinality(OfSize(p, n)') \in Nat /\ Cardinality(OfSize(p, n)) \in Nat
      BY <3>2, <3>3, FS_CardinalityType
    <3>5. Cardinality(OfSize(p, n)) <= 2 * Cardinality(ThreadsOf(p)) /\ Cardinality(ThreadsOf(p)) \in Nat
      BY ThreadsAreFinite DEF FewOfSize
    <3> QED BY <3>3, <3>4, <3>5
  <2> QED BY <2>1, <2>2
<1> QED BY <1>1, <1>2 DEF GetGlobalMemory

\* Few of each size are few in all: a section is one of the sections of its size.
LEMMA FewInAll ==
  ASSUME IsFiniteSet(Thread), IsFiniteSet(Size), PoolIInv, FewOfSize
  PROVE  PoolBounded
<1> SUFFICES ASSUME NEW p \in Process
             PROVE  Cardinality({i \in Slot : length[p][i] # 0})
                      <= 2 * Cardinality(ThreadsOf(p)) * Cardinality(Size)
  BY DEF PoolBounded, ThreadsOf
<1> DEFINE E == {i \in Slot : length[p][i] # 0}
           N == 2 * Cardinality(ThreadsOf(p))
           Numbering(n) == Injection(OfSize(p, n), 1 .. N)
           number == [n \in Size |-> CHOOSE f : f \in Numbering(n)]
           g == [i \in E |-> <<number[length[p][i]][i], length[p][i]>>]
<1>1. N \in Nat /\ Cardinality(Size) \in Nat
  BY ThreadsAreFinite, FS_CardinalityType
<1>2. \A n \in Size : number[n] \in Numbering(n)
  <2> SUFFICES ASSUME NEW n \in Size PROVE \E f : f \in Numbering(n)
    OBVIOUS
  <2>1. IsFiniteSet(OfSize(p, n))
    <3>1. IsFiniteSet(Slot)
      BY PoolAssumption, FS_Interval DEF Slot
    <3>2. OfSize(p, n) \in SUBSET Slot
      BY DEF OfSize
    <3> QED BY <3>1, <3>2, FS_Subset
  <2>2. PICK k \in Nat : ExistsBijection(1 .. k, OfSize(p, n))
    BY <2>1, FS_NatBijection
  <2>3. Cardinality(OfSize(p, n)) = k
    BY <2>2, FS_CountingElements
  <2>4. k <= N
    BY <2>3 DEF FewOfSize
  <2>5. PICK f : f \in Bijection(OfSize(p, n), 1 .. k)
    BY <2>2, Fun_ExistsBijSymmetric DEF ExistsBijection
  <2>6. f \in Numbering(n)
    BY <1>1, <2>4, <2>5 DEF Bijection, Injection, IsInjective
  <2> QED BY <2>6
<1>3. \A i \in E : length[p][i] \in Size /\ i \in OfSize(p, length[p][i])
  BY DEF OfSize, PoolIInv, PoolTypeOK
<1>4. g \in Injection(E, (1 .. N) \X Size)
  <2>1. \A i \in E : g[i] \in (1 .. N) \X Size
    <3> SUFFICES ASSUME NEW i \in E PROVE number[length[p][i]][i] \in 1 .. N
      BY <1>3
    <3>1. number[length[p][i]] \in [OfSize(p, length[p][i]) -> 1 .. N]
      BY <1>2, <1>3 DEF Injection
    <3> QED BY <1>3, <3>1
  <2>2. ASSUME NEW i \in E, NEW j \in E, g[i] = g[j] PROVE i = j
    <3>1. length[p][i] = length[p][j] /\ number[length[p][i]][i] = number[length[p][i]][j]
      <4> HIDE DEF number, E, N
      <4> QED BY <2>2
    <3>2. number[length[p][i]] \in Injection(OfSize(p, length[p][i]), 1 .. N)
      BY <1>2, <1>3
    <3>3. i \in OfSize(p, length[p][i]) /\ j \in OfSize(p, length[p][i])
      BY <1>3, <3>1
    <3> HIDE DEF number, g, E, N
    <3> QED BY <3>1, <3>2, <3>3 DEF Injection, IsInjective
  <2> HIDE DEF number
  <2> QED BY <2>1, <2>2 DEF Injection, IsInjective
<1>5. /\ IsFiniteSet((1 .. N) \X Size)
      /\ Cardinality((1 .. N) \X Size) = N * Cardinality(Size)
  <2>1. IsFiniteSet(1 .. N) /\ Cardinality(1 .. N) = N
    <3> HIDE DEF N
    <3>1. N \in Int /\ 1 \in Int
      BY <1>1
    <3>2. Cardinality(1 .. N) = IF 1 > N THEN 0 ELSE N - 1 + 1
      BY <3>1, FS_Interval, Zenon
    <3>3. IsFiniteSet(1 .. N)
      BY <3>1, FS_Interval, Zenon
    <3> QED BY <1>1, <3>2, <3>3
  <2> HIDE DEF N
  <2> QED BY <2>1, FS_Product
<1> HIDE DEF g, N
<1>6. Cardinality(E) <= N * Cardinality(Size)
  BY <1>4, <1>5, FS_Injection
<1> QED BY <1>6 DEF N

\* Calls cannot make the pool grow without end, however many there are: a process
\* of finitely many threads, which asks for finitely many sizes, has at most two
\* sections for each of both (get_global_memory makes one only if none is free).
THEOREM PoolStaysBounded ==
  ASSUME IsFiniteSet(Thread), IsFiniteSet(Size)
  PROVE  PoolSpec => []PoolBounded
<1>1. PoolInit => FewOfSize
  <2> SUFFICES ASSUME PoolInit, NEW p \in Process, NEW n \in Size
               PROVE  Cardinality(OfSize(p, n)) <= 2 * Cardinality(ThreadsOf(p))
    BY DEF FewOfSize
  <2>1. OfSize(p, n) = {}
    BY PoolAssumption DEF PoolInit, OfSize
  <2>2. Cardinality(ThreadsOf(p)) \in Nat
    BY ThreadsAreFinite
  <2> QED BY <2>1, <2>2, FS_EmptySet
<1>2. PoolIInv /\ PoolIInv' /\ FewOfSize /\ [PoolNext]_poolVars => FewOfSize'
  <2> SUFFICES ASSUME PoolIInv, PoolIInv', FewOfSize, [PoolNext]_poolVars PROVE FewOfSize'
    OBVIOUS
  <2>1. ASSUME UNCHANGED length PROVE FewOfSize'
    BY <2>1 DEF FewOfSize, OfSize, ThreadsOf
  <2>2. ASSUME NEW t \in Thread, TakeParams(t) PROVE FewOfSize'
    BY <2>2, GetKeepsFew, PoolAssumption DEF TakeParams
  <2>3. ASSUME NEW t \in Thread, TakeBuffer(t) PROVE FewOfSize'
    BY <2>3, GetKeepsFew, PoolAssumption DEF TakeBuffer
  <2>4. ASSUME NEW t \in Thread, PutParams(t) \/ PutBuffer(t) PROVE FewOfSize'
    BY <2>1, <2>4 DEF PutParams, PutBuffer, PutBack
  <2>5. ASSUME NEW q \in Process, Unload(q) PROVE FewOfSize'
    <3> SUFFICES ASSUME NEW p \in Process, NEW n \in Size
                 PROVE  Cardinality(OfSize(p, n)') <= 2 * Cardinality(ThreadsOf(p))
      BY DEF FewOfSize, ThreadsOf
    <3>1. CASE p = q
      <4>1. OfSize(p, n)' = {}
        BY <2>5, <3>1, PoolAssumption DEF Unload, OfSize, PoolIInv, PoolTypeOK
      <4>2. Cardinality(ThreadsOf(p)) \in Nat
        BY ThreadsAreFinite
      <4> QED BY <4>1, <4>2, FS_EmptySet
    <3>2. CASE p # q
      <4>1. OfSize(p, n)' = OfSize(p, n)
        BY <2>5, <3>2 DEF Unload, OfSize, PoolIInv, PoolTypeOK
      <4> QED BY <4>1 DEF FewOfSize
    <3> QED BY <3>1, <3>2
  <2>6. ASSUME NEW t \in Thread, BadAlloc(t) PROVE FewOfSize'
    BY <2>4, <2>5, <2>6, PoolAssumption DEF BadAlloc
  <2> QED BY <2>1, <2>2, <2>3, <2>4, <2>5, <2>6 DEF PoolNext, poolVars
<1>3. PoolIInv /\ FewOfSize => PoolBounded
  BY FewInAll
<1> QED BY <1>1, <1>2, <1>3, PoolInitIInv, PoolNextIInv, PTL DEF PoolSpec

-----------------------------------------------------------------------------
(* The transport.                                                          *)

\* The pool's step of a thread that takes or returns a section.
LEMMA ThreadSteps ==
  ASSUME NEW t \in Thread,
         BeginCall(t) \/ FillBuffer(t) \/ Collect(t) \/ Return(t)
  PROVE  PoolNext
<1>1. CASE BeginCall(t)  BY <1>1 DEF BeginCall, PoolNext
<1>2. CASE FillBuffer(t) BY <1>2 DEF FillBuffer, PoolNext
<1>3. CASE Collect(t)    BY <1>3 DEF Collect, PoolNext
<1>4. CASE Return(t)     BY <1>4 DEF Return, PoolNext
<1> QED BY <1>1, <1>2, <1>3, <1>4

\* Messages, answers and the server's work leave the client's pool alone.
LEMMA OtherSteps ==
  ASSUME \/ \E t \in Thread : Send(t) \/ Abandon(t) \/ SendFails(t)
         \/ Take \/ Complete \/ Hang \/ ServerEnds
  PROVE  UNCHANGED poolVars
<1>1. CASE \E t \in Thread : Send(t) \/ Abandon(t) \/ SendFails(t)
  BY <1>1 DEF Send, Abandon, SendFails, Fail, poolVars
<1>2. CASE Take     BY <1>2 DEF Take, poolVars
<1>3. CASE Complete BY <1>3 DEF Complete, poolVars
<1>4. CASE Hang \/ ServerEnds BY <1>4 DEF Hang, ServerEnds, poolVars
<1> QED BY <1>1, <1>2, <1>3, <1>4

\* Every step of the transport is a step of the pool or leaves it as it is.
LEMMA StepIsPoolStep == [Next]_vars => [PoolNext]_poolVars
<1> SUFFICES ASSUME [Next]_vars PROVE [PoolNext]_poolVars
  OBVIOUS
<1>1. CASE \E t \in Thread : BeginCall(t) \/ FillBuffer(t) \/ Collect(t) \/ Return(t)
  BY <1>1, ThreadSteps
<1>2. CASE \/ \E t \in Thread : Send(t) \/ Abandon(t) \/ SendFails(t)
           \/ Take \/ Complete \/ Hang \/ ServerEnds
  BY <1>2, OtherSteps
<1>3. CASE \E p \in Process : Restart(p)
  BY <1>3 DEF Restart, PoolNext
<1>4. CASE UNCHANGED vars
  BY <1>4 DEF vars, poolVars
<1> QED BY <1>1, <1>2, <1>3, <1>4 DEF Next

-----------------------------------------------------------------------------
\* What a section the thread has in this life of its process holds.
Mem(t, i) == memory[ProcOf[t]][gen[ProcOf[t]]][i]

Sound(t) == ~stranded[ProcOf[t]]

\* The call a message was sent for is the one its thread waits in.
Current(m) ==
  LET t == m.call[1]
  IN pc[t] = "waiting" /\ m.call = CallOf(t) /\ m.op = op[t]

\* A call that was given up is over, and was not the thread's next one.
Lost ==
  \A c \in lost :
    /\ c[2] <= calls[c[1]]
    /\ CallOf(c[1]) = c => pc[c[1]] \in {"failed", "returning", "idle"}

\* A message is the only one of its call; its thread waits for it, with the section
\* the message names as its parameters, or gave it up.
Messages ==
  \A k \in 1 .. Len(inbox) : Sound(inbox[k].call[1]) =>
    /\ \/ inbox[k].call \in lost
       \/ Current(inbox[k]) /\ inbox[k].slot = params[inbox[k].call[1]]
    /\ \A j \in 1 .. Len(inbox) : inbox[j].call = inbox[k].call => j = k

\* The message that is handled has no other behind it, and the handler works on
\* the sections the call holds, unless the call was given up.
Served ==
  serving # NoCall /\ Sound(serving.call[1]) =>
    LET t == serving.call[1]
    IN /\ serving.call \in lost \/ (Current(serving) /\ serving.slots = Holding(t))
       /\ \A i \in serving.slots : view[ProcOf[t]][i] = gen[ProcOf[t]]
       /\ \A k \in 1 .. Len(inbox) : inbox[k].call # serving.call

\* A view is of the section that has the name now; after WSACleanup there is none.
Views ==
  \A p \in Process :
    /\ clean[p] => \A i \in Slot : view[p][i] = NoView
    /\ ~stranded[p] =>
         \A i \in Slot : view[p][i] # NoView => view[p][i] = gen[p] /\ length[p][i] # 0

\* The sections the handler of a message would work on if it were served now.
Touched(m) ==
  {m.slot} \cup
  (IF m.op \in {"transfer", "empty"} THEN {Mem(m.call[1], m.slot).buf} ELSE {})

\* The thread has not got its answer; its message, when it was sent, is among those
\* from the k-th on.
Later(u, k) ==
  /\ pc[u] # "answered"
  /\ pc[u] = "waiting" => \E j \in 1 .. Len(inbox) : j >= k /\ inbox[j].call = CallOf(u)

\* A message works on the sections of a call only before that call is served: the
\* one it was sent for, or one that took over a section of a call given up.
Ordered ==
  \A k \in 1 .. Len(inbox), m \in Message, u \in Thread :
    /\ m = inbox[k]
    /\ Sound(u) /\ ProcOf[m.call[1]] = ProcOf[u]
    /\ Holding(u) \cap Touched(m) # {}
    => Later(u, k)

\* So does the message being handled.
ServedFirst ==
  serving # NoCall =>
    \A u \in Thread :
      /\ Sound(u) /\ ProcOf[serving.call[1]] = ProcOf[u]
      /\ Holding(u) \cap serving.slots # {}
      => (pc[u] = "waiting" /\ serving.call = CallOf(u)) \/ Later(u, 1)

\* What the sections of a call hold, as far as the call is.
Filled(t) ==
  Sound(t) =>
    /\ pc[t] = "filling" => op[t] = "transfer" /\ buffer[t] = NoSlot
    /\ pc[t] \in {"ready", "waiting", "answered"} => (op[t] = "transfer" <=> buffer[t] # NoSlot)
    /\ pc[t] \in {"filling", "ready", "waiting", "answered"} =>
         /\ \A i \in Holding(t) : Mem(t, i).in = CallOf(t)
         /\ op[t] \in {"transfer", "empty"} => Mem(t, params[t]).buf \in {buffer[t], NoSlot}
    /\ pc[t] \in {"filling", "ready", "waiting"} =>
         \A i \in Holding(t) : Mem(t, i).out \in lost \cup {NoCall}
    /\ pc[t] = "answered" /\ op[t] # "cleanup" =>
         \A i \in Holding(t) : Mem(t, i).out = CallOf(t)

AllFilled == \A t \in Thread : Filled(t)

\* A call under way has begun, and has a section for its parameters.
Begun ==
  \A t \in Thread :
    /\ pc[t] # "idle" => calls[t] # 0
    /\ pc[t] \notin {"idle", "returning"} => params[t] # NoSlot

\* The inductive invariant.
Rest == /\ TypeOK /\ Lost /\ Messages /\ Served /\ Views /\ Ordered /\ ServedFirst
        /\ AllFilled /\ Begun /\ OwnParameters

IInv == PoolIInv /\ Rest


\* What is true of a call stays true while nothing touches it or its sections.
LEMMA FilledStays ==
  ASSUME NEW u \in Thread, Filled(u), Begun, Sound(u)' => Sound(u), lost \subseteq lost',
         params'[u] = params[u], buffer'[u] = buffer[u], pc'[u] = pc[u],
         calls'[u] = calls[u], op'[u] = op[u],
         \A i \in Holding(u) : Mem(u, i)' = Mem(u, i)
  PROVE  Filled(u)'
<1>1. Holding(u)' = Holding(u) /\ CallOf(u)' = CallOf(u)
  BY DEF Holding, CallOf
<1>2. params[u] # NoSlot => Mem(u, params[u])' = Mem(u, params[u])
  BY DEF Holding, Mem
<1> SUFFICES ASSUME Sound(u)' PROVE Filled(u)'
  BY DEF Filled
<1>3. Sound(u)
  OBVIOUS
<1>4. pc[u] \in {"ready", "waiting", "answered"} => (op[u] = "transfer" <=> buffer[u] # NoSlot)
  BY <1>3 DEF Filled
<1>5. pc[u] \in {"filling", "ready", "waiting", "answered"} =>
        /\ \A i \in Holding(u) : Mem(u, i)'.in = CallOf(u)
        /\ op[u] \in {"transfer", "empty"} => Mem(u, params[u]).buf \in {buffer[u], NoSlot}
  BY <1>3 DEF Filled
<1>6. pc[u] \in {"filling", "ready", "waiting"} =>
        \A i \in Holding(u) : Mem(u, i)'.out \in lost' \cup {NoCall}
  BY <1>3 DEF Filled
<1>7. /\ pc[u] = "filling" => op[u] = "transfer" /\ buffer[u] = NoSlot
      /\ pc[u] = "answered" /\ op[u] # "cleanup" =>
           \A i \in Holding(u) : Mem(u, i)'.out = CallOf(u)
  BY <1>3 DEF Filled
<1>8. pc[u] \in {"filling", "ready", "waiting", "answered"} /\ op[u] \in {"transfer", "empty"} =>
        Mem(u, params[u])'.buf \in {buffer[u], NoSlot}
  BY <1>2, <1>5 DEF Begun
<1> QED BY <1>1, <1>4, <1>5, <1>6, <1>7, <1>8 DEF Filled

\* A section a call holds exists, and no other call of the process holds it.
LEMMA HeldSections ==
  ASSUME PoolIInv, NEW t \in Thread, NEW i \in Holding(t)
  PROVE  /\ i \in Slot /\ i # NoSlot
         /\ length[ProcOf[t]][i] # 0
         /\ \A u \in Thread : u # t /\ ProcOf[u] = ProcOf[t] => i \notin Holding(u)
<1>1. i \in Slot /\ i # NoSlot
  BY DEF PoolIInv, PoolTypeOK, Holding
<1>2. ProcOf[t] \in Process
  BY PoolAssumption
<1>3. i \in used[ProcOf[t]]
  BY <1>1, <1>2 DEF PoolIInv, UsedIsHeld
<1>4. length[ProcOf[t]][i] # 0
  BY <1>1, <1>2, <1>3 DEF PoolIInv, Ledger
<1>5. \A u \in Thread : u # t /\ ProcOf[u] = ProcOf[t] => i \notin Holding(u)
  BY DEF PoolIInv, ExclusiveSlots
<1> QED BY <1>1, <1>4, <1>5

\* The pool's part of the invariant.
LEMMA PoolPart == PoolIInv /\ [Next]_vars => PoolIInv'
BY StepIsPoolStep, PoolNextIInv

\* Pool steps never take a section's existence away, except the unloading.
LEMMA SectionsStay ==
  ASSUME PoolIInv, NEW t \in Thread,
         TakeParams(t) \/ TakeBuffer(t) \/ PutParams(t) \/ PutBuffer(t)
  PROVE  \A p \in Process, i \in Slot : length[p][i] # 0 => length'[p][i] # 0
<1>1. PoolTypeOK
  BY DEF PoolIInv
<1>2. ASSUME NEW q \in Process, NEW n \in Size, NEW j \in Slot, GetGlobalMemory(q, n, j)
      PROVE  \A p \in Process, i \in Slot : length[p][i] # 0 => length'[p][i] # 0
  <2>1. n # 0 BY PoolAssumption
  <2> QED BY <1>1, <1>2, <2>1 DEF GetGlobalMemory, PoolTypeOK
<1>3. ProcOf[t] \in Process /\ ParamSize \in Size
  BY PoolAssumption
<1>4. CASE TakeParams(t) BY <1>2, <1>3, <1>4 DEF TakeParams
<1>5. CASE TakeBuffer(t) BY <1>2, <1>3, <1>5 DEF TakeBuffer
<1>6. CASE PutParams(t)  BY <1>6 DEF PutParams, PutBack
<1>7. CASE PutBuffer(t)  BY <1>7 DEF PutBuffer, PutBack
<1> QED BY <1>4, <1>5, <1>6, <1>7

\* What is in the inbox.
LEMMA Messaged ==
  ASSUME TypeOK, NEW k \in 1 .. Len(inbox)
  PROVE  /\ inbox[k] \in Message /\ inbox[k].call \in Call /\ inbox[k].call[1] \in Thread
         /\ inbox[k].slot \in Slot
<1>1. inbox[k] \in Message
  BY DEF TypeOK
<1> QED BY <1>1 DEF Message, Call

\* What the server handles.
LEMMA Handled ==
  ASSUME TypeOK, serving # NoCall
  PROVE  /\ serving \in [call : Call, op : Op, slots : SUBSET Slot, saw : SUBSET CellType]
         /\ serving.call \in Call /\ serving.call[1] \in Thread
BY DEF TypeOK, Call

\* What of the invariant is not about one call, its counts and its sections.
Elsewhere == Messages /\ Served /\ Views /\ Ordered /\ ServedFirst /\ OwnParameters

\* What a thread does in a call that is not on its way: the messages, the one that is
\* served and the views are as before, and touch the sections they touched.
ClientTurn(t) ==
  /\ pc[t] # "waiting" /\ pc'[t] \notin {"waiting", "answered"}
  /\ UNCHANGED <<inbox, serving, server, view, gen, lost, clean, stranded>>
  /\ \A u \in Thread : u # t => /\ pc'[u] = pc[u] /\ calls'[u] = calls[u] /\ op'[u] = op[u]
                                /\ params'[u] = params[u] /\ buffer'[u] = buffer[u]
  /\ \A p \in Process, i \in Slot : length[p][i] # 0 => length'[p][i] # 0

LEMMA ClientStep ==
  ASSUME IInv, PoolIInv', NEW t \in Thread, ClientTurn(t),
         \A m \in Message : ProcOf[m.call[1]] = ProcOf[t] =>
           Touched(m)' \subseteq Touched(m) \cup {NoSlot} \cup Holding(t)',
         \A m \in Message : ProcOf[m.call[1]] # ProcOf[t] => Touched(m)' = Touched(m)
  PROVE  Elsewhere'
<1>1. /\ pc[t] # "waiting" /\ pc'[t] \notin {"waiting", "answered"}
      /\ inbox' = inbox /\ serving' = serving /\ view' = view /\ gen' = gen
      /\ lost' = lost /\ clean' = clean /\ stranded' = stranded
      /\ \A u \in Thread : u # t => /\ pc'[u] = pc[u] /\ calls'[u] = calls[u] /\ op'[u] = op[u]
                                    /\ params'[u] = params[u] /\ buffer'[u] = buffer[u]
      /\ \A p \in Process, i \in Slot : length[p][i] # 0 => length'[p][i] # 0
  BY DEF ClientTurn
<1>2. /\ TypeOK /\ Messages /\ Served /\ Views /\ Ordered /\ ServedFirst /\ OwnParameters
  BY DEF IInv, Rest
<1>3. \A u \in Thread : u # t => /\ Holding(u)' = Holding(u) /\ CallOf(u)' = CallOf(u)
  BY <1>1 DEF Holding, CallOf
<1>4. \A u \in Thread : Sound(u)' = Sound(u)
  BY <1>1 DEF Sound
<1>5. \A k \in 1 .. Len(inbox) : /\ inbox[k] \in Message /\ inbox[k].call \in Call
                                 /\ inbox[k].call[1] \in Thread /\ inbox[k].slot \in Slot
  BY <1>2, Messaged
<1>6. serving # NoCall => serving.call \in Call /\ serving.call[1] \in Thread
  BY <1>2, Handled
<1>7. Messages'
  <2> SUFFICES ASSUME NEW k \in 1 .. Len(inbox), Sound(inbox[k].call[1])
               PROVE  /\ \/ inbox[k].call \in lost
                         \/ Current(inbox[k])' /\ inbox[k].slot = params'[inbox[k].call[1]]
                      /\ \A j \in 1 .. Len(inbox) : inbox[j].call = inbox[k].call => j = k
    BY <1>1, <1>4 DEF Messages, Sound, Current, CallOf
  <2>1. Current(inbox[k]) => inbox[k].call[1] # t
    BY <1>1 DEF Current
  <2>2. Current(inbox[k]) => Current(inbox[k])' /\ params'[inbox[k].call[1]] = params[inbox[k].call[1]]
    BY <2>1, <1>1, <1>5 DEF Current, CallOf
  <2> QED BY <2>2, <1>2 DEF Messages
<1>8. Served'
  <2> SUFFICES ASSUME serving # NoCall, Sound(serving.call[1])
               PROVE  /\ \/ serving.call \in lost
                         \/ Current(serving)' /\ serving.slots = Holding(serving.call[1])'
                      /\ \A i \in serving.slots : view[ProcOf[serving.call[1]]][i] = gen[ProcOf[serving.call[1]]]
                      /\ \A k \in 1 .. Len(inbox) : inbox[k].call # serving.call
    BY <1>1, <1>4 DEF Served, Sound, Current, CallOf
  <2>1. Current(serving) => Current(serving)' /\ Holding(serving.call[1])' = Holding(serving.call[1])
    BY <1>1, <1>3, <1>6 DEF Current, CallOf
  <2> QED BY <2>1, <1>2 DEF Served
<1>9. Views'
  BY <1>1, <1>2 DEF Views
<1>10. \A u \in Thread, k \in 1 .. Len(inbox) : Later(u, k) => Later(u, k)'
  BY <1>1, <1>3 DEF Later
<1>11. \A k \in 1 .. Len(inbox) : Later(t, k)'
  BY <1>1 DEF Later
<1>12. Later(t, 1)'
  BY <1>1 DEF Later
<1>13. ASSUME NEW u \in Thread, u # t, NEW m \in Message, ProcOf[m.call[1]] = ProcOf[u]
       PROVE  Holding(u)' \cap Touched(m)' \subseteq Holding(u) \cap Touched(m)
  <2>1. NoSlot \notin Holding(u)
    BY DEF Holding
  <2>2. ProcOf[u] = ProcOf[t] => Holding(u)' \cap Holding(t)' = {}
    BY <1>13 DEF PoolIInv, ExclusiveSlots
  <2> QED BY <2>1, <2>2, <1>3, <1>13
<1>14. Ordered'
  <2> SUFFICES ASSUME NEW k \in 1 .. Len(inbox), NEW m \in Message, m = inbox[k],
                      NEW u \in Thread, Sound(u)', ProcOf[m.call[1]] = ProcOf[u],
                      Holding(u)' \cap Touched(m)' # {}
               PROVE  Later(u, k)'
    BY <1>1 DEF Ordered
  <2>1. CASE u = t
    BY <2>1, <1>11
  <2>2. CASE u # t
    <3>1. Holding(u) \cap Touched(m) # {}
      BY <2>2, <1>13
    <3> QED BY <3>1, <1>2, <1>4, <1>10 DEF Ordered
  <2> QED BY <2>1, <2>2
<1>15. ServedFirst'
  <2> SUFFICES ASSUME serving # NoCall, NEW u \in Thread, Sound(u),
                      ProcOf[serving.call[1]] = ProcOf[u],
                      Holding(u)' \cap serving.slots # {}
               PROVE  (pc'[u] = "waiting" /\ serving.call = CallOf(u)') \/ Later(u, 1)'
    BY <1>1, <1>4 DEF ServedFirst
  <2>1. CASE u = t
    BY <2>1, <1>12
  <2>2. CASE u # t
    <3>1. (pc[u] = "waiting" /\ serving.call = CallOf(u)) \/ Later(u, 1)
      BY <2>2, <1>2, <1>3 DEF ServedFirst
    <3>2. Later(u, 1) => Later(u, 1)'
      BY <1>1, <1>3, <2>2 DEF Later
    <3> QED BY <3>1, <3>2, <2>2, <1>1, <1>3
  <2> QED BY <2>1, <2>2
<1>16. OwnParameters'
  <2> SUFFICES ASSUME serving # NoCall, pc'[serving.call[1]] = "waiting",
                      CallOf(serving.call[1])' = serving.call, ~stranded[ProcOf[serving.call[1]]],
                      NEW cell \in serving.saw
               PROVE  cell.in = serving.call /\ cell.out \in lost \cup {NoCall}
    BY <1>1 DEF OwnParameters
  <2>1. serving.call[1] # t /\ serving.call[1] \in Thread
    BY <1>1, <1>6
  <2> QED BY <2>1, <1>1, <1>2, <1>3 DEF OwnParameters
<1> QED BY <1>7, <1>8, <1>9, <1>14, <1>15, <1>16 DEF Elsewhere

LEMMA OpsAreOp == Ops \subseteq Op
BY DEF Ops, Ways, Op

PCs == {"idle", "filling", "ready", "waiting", "answered", "unresolved", "failed", "returning"}

\* A section of data may be named in the parameters when it was the last time, or not.
LEMMA LeftoverNames ==
  ASSUME NEW o \in Op, NEW b, NEW x \in Leftover(o, b)
  PROVE  x \in {b, NoSlot} /\ (o \in {"transfer", "empty"} => x = NoSlot)
BY DEF Leftover

\* A call begins: what it writes goes to a section nobody else holds.
LEMMA BeginKeeps ==
  ASSUME IInv, NEW t \in Thread, BeginCall(t), PoolIInv'
  PROVE  Rest'
<1> DEFINE p == ProcOf[t]
           i == params'[t]
           c == <<t, calls'[t]>>
<1>1. /\ TypeOK /\ PoolTypeOK /\ PoolTypeOK' /\ p \in Process /\ gen[p] \in Gen /\ Lost /\ Begun
      /\ \A u \in Thread : Filled(u)
  BY PoolAssumption DEF IInv, Rest, PoolIInv, TypeOK, AllFilled
<1>2. /\ pc[t] = "idle" /\ calls[t] < MaxCalls
      /\ TakeParams(t)
      /\ calls' = [calls EXCEPT ![t] = @ + 1]
      /\ UNCHANGED <<inbox, serving, server, view, gen, lost, clean, stranded>>
  BY DEF BeginCall, serverVars, history
<1>3. PICK o \in Ops : \E b \in Leftover(o, memory[p][gen[p]][i].buf) :
        /\ op' = [op EXCEPT ![t] = o]
        /\ pc' = [pc EXCEPT ![t] = IF o = "transfer" THEN "filling" ELSE "ready"]
        /\ memory' = [memory EXCEPT ![p][gen[p]][i] = Cell(c, b, o = "cleanup")]
  BY DEF BeginCall, Fill
<1>4. PICK b \in Leftover(o, memory[p][gen[p]][i].buf) :
        /\ op' = [op EXCEPT ![t] = o]
        /\ pc' = [pc EXCEPT ![t] = IF o = "transfer" THEN "filling" ELSE "ready"]
        /\ memory' = [memory EXCEPT ![p][gen[p]][i] = Cell(c, b, o = "cleanup")]
  BY <1>3
<1>5. o \in Op
  BY <1>4, OpsAreOp
<1>6. /\ buffer[t] = NoSlot /\ buffer' = buffer
      /\ i \in Slot /\ i # NoSlot
      /\ \A u \in Thread : u # t => params'[u] = params[u]
  BY <1>1, <1>2, PoolAssumption DEF TakeParams, PoolTypeOK, Slot
<1>7. /\ b \in {memory[p][gen[p]][i].buf, NoSlot} /\ (o \in {"transfer", "empty"} => b = NoSlot)
  BY <1>5, LeftoverNames
<1>8. calls[t] \in 0 .. MaxCalls /\ calls'[t] = calls[t] + 1 /\ c \in Call
      /\ calls' \in [Thread -> 0 .. MaxCalls]
  BY <1>1, <1>2, TransportAssumption DEF TypeOK, Call
<1>9. PICK cell \in CellType : /\ cell = Cell(c, b, o = "cleanup")
                               /\ cell.in = c /\ cell.buf = b /\ cell.out = NoCall
  <2> DEFINE f == o = "cleanup"
             x == Cell(c, b, f)
  <2>1. f \in BOOLEAN
    OBVIOUS
  <2>2. memory[p][gen[p]][i].buf \in Slot \cup {NoSlot}
    BY <1>1, <1>6 DEF TypeOK, CellType
  <2>3. b \in Slot \cup {NoSlot}
    BY <2>2, <1>7
  <2> HIDE DEF f, c
  <2>4. x \in CellType /\ x.in = c /\ x.buf = b /\ x.out = NoCall
    BY <2>1, <2>3, <1>8 DEF Cell, CellType
  <2> QED BY <2>4 DEF f
<1>10. /\ memory' \in [Process -> [Gen -> [Slot -> CellType]]]
      /\ memory'[p][gen[p]][i] = cell
      /\ \A q \in Process, h \in Gen, j \in Slot :
           q # p \/ j # i => memory'[q][h][j] = memory[q][h][j]
  <2>1. memory' = [memory EXCEPT ![p][gen[p]][i] = cell]
    BY <1>4, <1>9
  <2> HIDE DEF i, c, p
  <2> QED BY <2>1, <1>1, <1>2, <1>6, <1>9 DEF TypeOK
<1>11. pc' \in [Thread -> PCs] /\ op' \in [Thread -> Op] /\ op'[t] = o
  BY <1>1, <1>4, <1>5 DEF TypeOK, PCs
<1>12. TypeOK'
  BY <1>1, <1>2, <1>8, <1>10, <1>11 DEF TypeOK, PCs
<1>13. /\ \A u \in Thread : u # t => /\ pc'[u] = pc[u] /\ calls'[u] = calls[u] /\ op'[u] = op[u]
                                     /\ params'[u] = params[u] /\ buffer'[u] = buffer[u]
       /\ pc'[t] = IF o = "transfer" THEN "filling" ELSE "ready"
  BY <1>1, <1>2, <1>4, <1>6 DEF TypeOK
<1>14. Holding(t)' = {i}
  BY <1>6 DEF Holding
<1>15. Lost'
  <2> SUFFICES ASSUME NEW d \in lost
               PROVE  /\ d[2] <= calls'[d[1]]
                      /\ CallOf(d[1])' = d => pc'[d[1]] \in {"failed", "returning", "idle"}
    BY <1>2 DEF Lost
  <2>1. d[1] \in Thread /\ d[2] \in Nat /\ d[2] <= calls[d[1]]
    BY <1>1, TransportAssumption DEF TypeOK, Call, Lost
  <2>2. CASE d[1] = t
    <3>1. CallOf(t)' # d
      BY <2>1, <2>2, <1>8 DEF CallOf
    <3> QED BY <3>1, <2>1, <2>2, <1>8
  <2>3. CASE d[1] # t
    BY <2>1, <2>3, <1>1, <1>13 DEF Lost, CallOf
  <2> QED BY <2>2, <2>3
<1>16. Elsewhere'
  <2>1. ClientTurn(t)
    <3>1. \A q \in Process, j \in Slot : length[q][j] # 0 => length'[q][j] # 0
      BY <1>2, SectionsStay DEF IInv
    <3> QED BY <3>1, <1>2, <1>13 DEF ClientTurn
  <2>2. ASSUME NEW m \in Message
        PROVE  /\ ProcOf[m.call[1]] = ProcOf[t] =>
                    Touched(m)' \subseteq Touched(m) \cup {NoSlot} \cup Holding(t)'
               /\ ProcOf[m.call[1]] # ProcOf[t] => Touched(m)' = Touched(m)
    <3>1. m.slot \in Slot /\ ProcOf[m.call[1]] \in Process /\ gen[ProcOf[m.call[1]]] \in Gen
      BY <1>1, PoolAssumption DEF Message, Call, TypeOK
    <3>2. ProcOf[m.call[1]] # p \/ m.slot # i => Mem(m.call[1], m.slot)' = Mem(m.call[1], m.slot)
      BY <3>1, <1>2, <1>10 DEF Mem
    <3>3. ProcOf[m.call[1]] = p /\ m.slot = i =>
            Mem(m.call[1], m.slot)'.buf \in {Mem(m.call[1], m.slot).buf, NoSlot}
      BY <1>2, <1>7, <1>9, <1>10 DEF Mem
    <3>4. Mem(m.call[1], m.slot)'.buf \in {Mem(m.call[1], m.slot).buf, NoSlot}
      BY <3>2, <3>3
    <3> QED BY <3>2, <3>4 DEF Touched
  <2> QED BY <2>1, <2>2, ClientStep
<1>17. ASSUME NEW u \in Thread, u # t PROVE Filled(u)'
  <2>1. ASSUME NEW j \in Holding(u) PROVE Mem(u, j)' = Mem(u, j)
    <3>1. j \in Holding(u)'
      BY <1>13, <1>17 DEF Holding
    <3>2. ProcOf[u] = p => j # i
      BY <3>1, <1>6, <1>17 DEF PoolIInv, ExclusiveSlots, Holding
    <3>3. j \in Slot /\ ProcOf[u] \in Process /\ gen[ProcOf[u]] \in Gen
      BY <1>1, HeldSections, PoolAssumption DEF IInv, TypeOK
    <3> QED BY <3>2, <3>3, <1>2, <1>10 DEF Mem
  <2>2. (Sound(u)' => Sound(u)) /\ lost \subseteq lost'
    BY <1>2 DEF Sound
  <2>3. Filled(u)
    BY <1>1
  <2> QED BY <2>1, <2>2, <2>3, <1>1, <1>13, <1>17, FilledStays
<1>18. Filled(t)'
  <2>1. /\ Mem(t, params[t])' = cell
        /\ CallOf(t)' = c
    BY <1>2, <1>10 DEF Mem, CallOf
  <2>2. \A j \in Holding(t)' : Mem(t, j)'.in = CallOf(t)' /\ Mem(t, j)'.out = NoCall
    BY <2>1, <1>9, <1>14 DEF Mem
  <2> QED BY <2>1, <2>2, <1>6, <1>7, <1>9, <1>11, <1>13 DEF Filled
<1>19. Begun'
  <2>1. calls'[t] # 0 /\ params'[t] # NoSlot
    BY <1>6, <1>8
  <2> QED BY <2>1, <1>1, <1>13 DEF Begun
<1> QED BY <1>12, <1>15, <1>16, <1>17, <1>18, <1>19 DEF AllFilled, Elsewhere, Rest

\* The section of the data is taken while that of the parameters is held.
LEMMA FillKeeps ==
  ASSUME IInv, NEW t \in Thread, FillBuffer(t), PoolIInv'
  PROVE  Rest'
<1>0. PICK a, b, d : a = params[t] /\ b = buffer'[t] /\ d = Cell(CallOf(t), NoSlot, FALSE)
  OBVIOUS
<1> DEFINE p == ProcOf[t]
           g == gen[p]
<1>1. /\ TypeOK /\ PoolTypeOK /\ PoolTypeOK' /\ p \in Process /\ g \in Gen /\ Lost /\ Begun
      /\ \A u \in Thread : Filled(u)
  BY PoolAssumption DEF IInv, Rest, PoolIInv, TypeOK, AllFilled
<1>2. /\ pc[t] = "filling"
      /\ TakeBuffer(t)
      /\ memory' = [memory EXCEPT ![p][g] = [@ EXCEPT ![a].buf = b, ![b] = d]]
      /\ pc' = [pc EXCEPT ![t] = "ready"]
      /\ UNCHANGED <<calls, op, inbox, serving, server, view, gen, lost, clean, stranded>>
  BY <1>0 DEF FillBuffer, serverVars, history
<1>3. /\ a # NoSlot /\ a \in Slot /\ params' = params /\ buffer[t] = NoSlot
      /\ b \in Slot /\ b # NoSlot
      /\ \A u \in Thread : u # t => buffer'[u] = buffer[u]
  BY <1>0, <1>1, <1>2, PoolAssumption DEF TakeBuffer, PoolTypeOK, Slot
<1>4. a # b
  BY <1>0, <1>3 DEF PoolIInv, ExclusiveSlots
<1>5. /\ CallOf(t) \in Call
      /\ memory[p][g] \in [Slot -> CellType]
  BY <1>1, <1>2, TransportAssumption DEF CallOf, Call, TypeOK, Begun
<1>6. /\ [memory[p][g][a] EXCEPT !.buf = b] \in CellType
      /\ d \in CellType /\ d.in = CallOf(t) /\ d.buf = NoSlot /\ d.out = NoCall
  BY <1>0, <1>3, <1>5 DEF CellType, Cell
<1>7. PICK row \in [Slot -> CellType] :
        /\ row = [memory[p][g] EXCEPT ![a].buf = b, ![b] = d]
        /\ row[a] = [memory[p][g][a] EXCEPT !.buf = b]
        /\ row[b] = d
        /\ \A j \in Slot : j \notin {a, b} => row[j] = memory[p][g][j]
  <2> DEFINE r == [memory[p][g] EXCEPT ![a].buf = b, ![b] = d]
  <2> HIDE DEF p, g
  <2>1. r \in [Slot -> CellType]
    BY <1>3, <1>4, <1>5, <1>6
  <2>2. r[b] = d
    BY <1>3, <1>4, <1>5, <1>6
  <2>3. r[a] = [memory[p][g][a] EXCEPT !.buf = b]
    BY <1>3, <1>4, <1>5, <1>6
  <2>4. \A j \in Slot : j \notin {a, b} => r[j] = memory[p][g][j]
    BY <1>3, <1>4, <1>5, <1>6
  <2> HIDE DEF r
  <2>5. \E row \in [Slot -> CellType] : row = r
    BY <2>1
  <2> QED BY <2>2, <2>3, <2>4, <2>5 DEF r
<1>8. memory' = [memory EXCEPT ![p][g] = row]
  BY <1>2, <1>7
<1>9. /\ memory' \in [Process -> [Gen -> [Slot -> CellType]]]
      /\ memory'[p][g] = row
      /\ \A q \in Process, h \in Gen, j \in Slot :
           q # p \/ j \notin {a, b} => memory'[q][h][j] = memory[q][h][j]
  <2> HIDE DEF p, g
  <2> QED BY <1>1, <1>7, <1>8 DEF TypeOK
<1>10. TypeOK'
  BY <1>1, <1>2, <1>9 DEF TypeOK
<1>11. /\ \A u \in Thread : u # t => /\ pc'[u] = pc[u] /\ calls'[u] = calls[u] /\ op'[u] = op[u]
                                     /\ params'[u] = params[u] /\ buffer'[u] = buffer[u]
       /\ pc'[t] = "ready"
  BY <1>1, <1>2, <1>3 DEF TypeOK
<1>12. /\ Holding(t)' = {a, b} /\ Holding(t) = {a}
       /\ \A u \in Thread : CallOf(u)' = CallOf(u)
  BY <1>0, <1>2, <1>3 DEF Holding, CallOf
<1>13. Lost'
  <2>1. CallOf(t) \notin lost
    BY <1>1, <1>2 DEF Lost, CallOf
  <2> QED BY <2>1, <1>1, <1>2, <1>11, <1>12 DEF Lost, TypeOK, Call
<1>14. Mem(t, a)' = [Mem(t, a) EXCEPT !.buf = b] /\ Mem(t, b)' = d
  BY <1>2, <1>3, <1>7, <1>9 DEF Mem
<1>15. Mem(t, a)'.buf = b /\ Mem(t, a)'.in = Mem(t, a).in /\ Mem(t, a)'.out = Mem(t, a).out
  <2>1. Mem(t, a) \in CellType
    BY <1>3, <1>5 DEF Mem
  <2> QED BY <2>1, <1>14 DEF CellType
<1>16. Elsewhere'
  <2>1. ClientTurn(t)
    <3>1. \A q \in Process, j \in Slot : length[q][j] # 0 => length'[q][j] # 0
      BY <1>2, SectionsStay DEF IInv
    <3> QED BY <3>1, <1>2, <1>11 DEF ClientTurn
  <2>2. ASSUME NEW m \in Message
        PROVE  /\ ProcOf[m.call[1]] = ProcOf[t] =>
                    Touched(m)' \subseteq Touched(m) \cup {NoSlot} \cup Holding(t)'
               /\ ProcOf[m.call[1]] # ProcOf[t] => Touched(m)' = Touched(m)
    <3>1. m.slot \in Slot /\ ProcOf[m.call[1]] \in Process /\ gen[ProcOf[m.call[1]]] \in Gen
      BY <1>1, PoolAssumption DEF Message, Call, TypeOK
    <3>2. ProcOf[m.call[1]] # p \/ m.slot \notin {a, b} =>
            Mem(m.call[1], m.slot)' = Mem(m.call[1], m.slot)
      BY <3>1, <1>2, <1>9 DEF Mem
    <3>3. ProcOf[m.call[1]] = p /\ m.slot \in {a, b} =>
            Mem(m.call[1], m.slot)'.buf \in {b, NoSlot}
      BY <1>6, <1>14, <1>15 DEF Mem
    <3>4. ProcOf[m.call[1]] = ProcOf[t] =>
            Mem(m.call[1], m.slot)'.buf \in {Mem(m.call[1], m.slot).buf, NoSlot} \cup Holding(t)'
      BY <3>2, <3>3, <1>12
    <3> QED BY <3>2, <3>4 DEF Touched
  <2> QED BY <2>1, <2>2, ClientStep
<1>17. ASSUME NEW u \in Thread, u # t PROVE Filled(u)'
  <2>1. ASSUME NEW j \in Holding(u) PROVE Mem(u, j)' = Mem(u, j)
    <3>1. j \in Holding(u)'
      BY <1>11, <1>17 DEF Holding
    <3>2. ProcOf[u] = p => j \notin {a, b}
      BY <3>1, <1>3, <1>12, <1>17 DEF PoolIInv, ExclusiveSlots
    <3>3. j \in Slot /\ ProcOf[u] \in Process /\ gen[ProcOf[u]] \in Gen
      BY <1>1, HeldSections, PoolAssumption DEF IInv, TypeOK
    <3> QED BY <3>2, <3>3, <1>2, <1>9 DEF Mem
  <2>2. (Sound(u)' => Sound(u)) /\ lost \subseteq lost'
    BY <1>2 DEF Sound
  <2>3. Filled(u)
    BY <1>1
  <2> QED BY <2>1, <2>2, <2>3, <1>1, <1>11, <1>17, FilledStays
<1>18. Filled(t)'
  <2>1. Sound(t)' => Sound(t)
    BY <1>2 DEF Sound
  <2>2. Sound(t) => op[t] = "transfer" /\ Mem(t, a).in = CallOf(t) /\ Mem(t, a).out \in lost \cup {NoCall}
    <3>1. Filled(t)
      BY <1>1
    <3> QED BY <3>1, <1>2, <1>12 DEF Filled
  <2>3. /\ Mem(t, params[t])'.buf = b
        /\ Sound(t) => \A j \in Holding(t)' : /\ Mem(t, j)'.in = CallOf(t)'
                                              /\ Mem(t, j)'.out \in lost \cup {NoCall}
    BY <2>2, <1>0, <1>3, <1>6, <1>12, <1>14, <1>15 DEF Mem
  <2> QED BY <2>1, <2>2, <2>3, <1>0, <1>2, <1>3, <1>11 DEF Filled
<1>19. Begun'
  BY <1>1, <1>2, <1>3, <1>11 DEF Begun, TypeOK
<1> QED BY <1>10, <1>13, <1>16, <1>17, <1>18, <1>19 DEF AllFilled, Elsewhere, Rest

\* A call that was answered, or given up, gives its sections back.
LEMMA ReturnsKeep ==
  ASSUME IInv, NEW t \in Thread, Collect(t) \/ Return(t), PoolIInv'
  PROVE  Rest'
<1>1. /\ TypeOK /\ PoolTypeOK /\ PoolIInv /\ PoolTypeOK' /\ Lost /\ Begun
      /\ \A u \in Thread : Filled(u)
  BY DEF IInv, Rest, PoolIInv, AllFilled
<1>2. /\ pc[t] \in {"answered", "unresolved", "failed", "returning"}
      /\ PutParams(t) \/ PutBuffer(t)
      /\ UNCHANGED <<calls, op, inbox, serving, server, view, gen, memory, lost, clean, stranded>>
  BY DEF Collect, Return, serverVars, history
<1>3. /\ \A u \in Thread : u # t => pc'[u] = pc[u] /\ params'[u] = params[u] /\ buffer'[u] = buffer[u]
      /\ pc'[t] = "idle" \/ pc'[t] = "returning"
      /\ pc' \in [Thread -> PCs]
  BY <1>1, <1>2 DEF Collect, Return, PutParams, PutBuffer, PoolTypeOK, TypeOK, PCs
<1>4. TypeOK'
  BY <1>1, <1>2, <1>3 DEF TypeOK, PCs
<1>5. Elsewhere'
  <2>1. ClientTurn(t)
    <3>1. \A q \in Process, j \in Slot : length[q][j] # 0 => length'[q][j] # 0
      BY <1>1, <1>2, SectionsStay
    <3> QED BY <3>1, <1>2, <1>3 DEF ClientTurn
  <2>2. \A m \in Message : Touched(m)' = Touched(m)
    BY <1>2 DEF Touched, Mem
  <2> QED BY <2>1, <2>2, ClientStep
<1>6. ASSUME NEW u \in Thread PROVE Filled(u)'
  <2>1. CASE u = t
    BY <2>1, <1>3 DEF Filled
  <2>2. CASE u # t
    <3>1. \A i \in Holding(u) : Mem(u, i)' = Mem(u, i)
      BY <1>2 DEF Mem
    <3>2. (Sound(u)' => Sound(u)) /\ lost \subseteq lost'
      BY <1>2 DEF Sound
    <3>3. Filled(u)
      BY <1>1
    <3> QED BY <3>1, <3>2, <3>3, <2>2, <1>1, <1>2, <1>3, FilledStays
  <2> QED BY <2>1, <2>2
<1>7. Begun'
  BY <1>1, <1>2, <1>3 DEF Begun
<1>8. Lost'
  BY <1>1, <1>2, <1>3 DEF Lost, CallOf, TypeOK, Call
<1> QED BY <1>4, <1>5, <1>6, <1>7, <1>8 DEF AllFilled, Elsewhere, Rest

\* A message is sent: it is the only one of its call, and the last.
LEMMA SendKeeps ==
  ASSUME IInv, NEW t \in Thread, Send(t), PoolIInv'
  PROVE  Rest'
<1>1. /\ TypeOK /\ PoolTypeOK /\ Lost /\ Messages /\ Served /\ Views /\ Ordered /\ ServedFirst
      /\ OwnParameters /\ Begun /\ Filled(t) /\ \A u \in Thread : Filled(u)
  BY DEF IInv, Rest, PoolIInv, AllFilled
<1>2. PICK m : m = [call |-> CallOf(t), op |-> op[t], slot |-> params[t]]
  OBVIOUS
<1>3. /\ pc[t] = "ready"
      /\ inbox' = Append(inbox, m)
      /\ pc' = [pc EXCEPT ![t] = "waiting"]
      /\ UNCHANGED <<cache, used, length, params, buffer, calls, op, serving, server, view, gen,
                     memory, lost, clean, stranded>>
  BY <1>2 DEF Send, poolVars, history
<1>4. /\ m.call = CallOf(t) /\ m.call[1] = t /\ m.op = op[t] /\ m.slot = params[t]
      /\ m \in Message /\ params[t] # NoSlot
  <2>1. CallOf(t) \in Call
    BY <1>1, <1>3, TransportAssumption DEF CallOf, Call, TypeOK, Begun
  <2>2. params[t] \in Slot /\ op[t] \in Op /\ params[t] # NoSlot
    BY <1>1, <1>3 DEF PoolTypeOK, TypeOK, Begun
  <2> QED BY <2>1, <2>2, <1>2 DEF Message, CallOf
<1>5. inbox \in Seq(Message) /\ Len(inbox) \in Nat
  BY <1>1 DEF TypeOK
<1>6. /\ inbox' \in Seq(Message)
      /\ Len(inbox') = Len(inbox) + 1
      /\ 1 .. Len(inbox') = 1 .. Len(inbox) \cup {Len(inbox) + 1}
      /\ \A k \in 1 .. Len(inbox) : inbox'[k] = inbox[k]
      /\ inbox'[Len(inbox) + 1] = m
  BY <1>3, <1>4, <1>5
<1>7. /\ pc'[t] = "waiting" /\ \A u \in Thread : u # t => pc'[u] = pc[u]
      /\ pc' \in [Thread -> PCs]
  BY <1>1, <1>3 DEF TypeOK, PCs
<1>8. TypeOK'
  BY <1>1, <1>3, <1>6, <1>7 DEF TypeOK, PoolTypeOK, PCs
<1>9. \A k \in 1 .. Len(inbox) : /\ inbox[k] \in Message /\ inbox[k].call \in Call
                                 /\ inbox[k].call[1] \in Thread /\ inbox[k].slot \in Slot
  BY <1>1, Messaged
<1>10. CallOf(t) \notin lost
  BY <1>1, <1>3 DEF Lost, CallOf
<1>11. /\ \A k \in 1 .. Len(inbox) : Sound(inbox[k].call[1]) => inbox[k].call # CallOf(t)
       /\ \A k \in 1 .. Len(inbox) : Sound(t) => inbox[k].call # CallOf(t)
  <2>1. ASSUME NEW k \in 1 .. Len(inbox), Sound(inbox[k].call[1]), inbox[k].call = CallOf(t)
        PROVE  FALSE
    <3>1. inbox[k].call[1] = t
      BY <2>1 DEF CallOf
    <3>2. ~Current(inbox[k])
      BY <3>1, <1>3 DEF Current
    <3>3. inbox[k].call \in lost \/ Current(inbox[k])
      BY <2>1, <1>1 DEF Messages
    <3> QED BY <3>2, <3>3, <2>1, <1>10
  <2> QED BY <2>1 DEF CallOf
<1>12. /\ \A u \in Thread : CallOf(u)' = CallOf(u) /\ Holding(u)' = Holding(u) /\ Sound(u)' = Sound(u)
       /\ \A n \in Message : Touched(n)' = Touched(n)
  BY <1>3 DEF CallOf, Holding, Sound, Touched, Mem
<1>13. Lost'
  BY <1>1, <1>3, <1>7, <1>10, <1>12 DEF Lost, TypeOK, Call
<1>14. \A n : n.call[1] \in Thread /\ Current(n) => n.call[1] # t
  BY <1>3 DEF Current
<1>15. Messages'
  <2> SUFFICES ASSUME NEW k \in 1 .. Len(inbox'), Sound(inbox'[k].call[1]),
                      inbox'[k].call[1] \in Thread
               PROVE  LET n == inbox'[k]
                          u == n.call[1]
                      IN /\ \/ n.call \in lost
                            \/ /\ pc'[u] = "waiting" /\ n.call = <<u, calls[u]>> /\ n.op = op[u]
                               /\ n.slot = params[u]
                         /\ \A j \in 1 .. Len(inbox') : inbox'[j].call = n.call => j = k
    <3>1. \A k \in 1 .. Len(inbox') : inbox'[k].call[1] \in Thread
      BY <1>4, <1>6, <1>9
    <3> QED BY <1>3, <3>1 DEF Messages, Sound, Current, CallOf
  <2>1. CASE k = Len(inbox) + 1
    <3>1. inbox'[k] = m /\ Sound(t)
      BY <2>1, <1>4, <1>6
    <3>2. \A j \in 1 .. Len(inbox) : inbox'[j].call # CallOf(t)
      BY <3>1, <1>6, <1>11
    <3>3. \A j \in 1 .. Len(inbox') : inbox'[j].call = m.call => j = k
      BY <3>2, <2>1, <1>4, <1>6
    <3> QED BY <3>1, <3>3, <1>4, <1>7 DEF CallOf
  <2>2. CASE k \in 1 .. Len(inbox)
    <3>1. inbox'[k] = inbox[k] /\ Sound(inbox[k].call[1])
      BY <2>2, <1>6
    <3>2. /\ \/ inbox[k].call \in lost
             \/ Current(inbox[k]) /\ inbox[k].slot = params[inbox[k].call[1]]
          /\ \A j \in 1 .. Len(inbox) : inbox[j].call = inbox[k].call => j = k
      BY <2>2, <3>1, <1>1 DEF Messages
    <3>3. inbox[k].call # m.call
      BY <2>2, <3>1, <1>4, <1>11
    <3>4. \A j \in 1 .. Len(inbox') : inbox'[j].call = inbox[k].call => j = k
      BY <3>2, <3>3, <1>6
    <3>5. Current(inbox[k]) => inbox[k].call[1] # t
      BY <1>3 DEF Current
    <3> QED BY <3>1, <3>2, <3>4, <3>5, <1>7, <1>9, <2>2 DEF Current, CallOf
  <2> QED BY <2>1, <2>2, <1>6
<1>16. Served'
  <2> SUFFICES ASSUME serving # NoCall, Sound(serving.call[1])
               PROVE  LET u == serving.call[1]
                      IN /\ \/ serving.call \in lost
                            \/ /\ pc'[u] = "waiting" /\ serving.call = <<u, calls[u]>>
                               /\ serving.op = op[u] /\ serving.slots = Holding(u)'
                         /\ \A i \in serving.slots : view[ProcOf[u]][i] = gen[ProcOf[u]]
                         /\ \A k \in 1 .. Len(inbox') : inbox'[k].call # serving.call
    BY <1>3 DEF Served, Sound, Current, CallOf
  <2>1. serving.call[1] \in Thread /\ serving.call \in Call
    BY <1>1, Handled
  <2>2. Current(serving) => serving.call[1] # t
    BY <1>3 DEF Current
  <2>0. serving.call \in lost \/ (Current(serving) /\ serving.slots = Holding(serving.call[1]))
    BY <1>1 DEF Served
  <2>3. serving.call # CallOf(t)
    <3> SUFFICES ASSUME serving.call = CallOf(t) PROVE FALSE
      OBVIOUS
    <3>1. serving.call[1] = t
      BY DEF CallOf
    <3> QED BY <3>1, <2>0, <2>2, <1>10
  <2>4. \A k \in 1 .. Len(inbox') : inbox'[k].call # serving.call
    <3>1. \A k \in 1 .. Len(inbox) : inbox[k].call # serving.call
      BY <1>1 DEF Served
    <3> QED BY <3>1, <2>3, <1>4, <1>6
  <2>5. \A i \in serving.slots : view[ProcOf[serving.call[1]]][i] = gen[ProcOf[serving.call[1]]]
    BY <1>1 DEF Served
  <2>6. Current(serving) => /\ pc'[serving.call[1]] = "waiting"
                            /\ serving.call = <<serving.call[1], calls[serving.call[1]]>>
                            /\ serving.op = op[serving.call[1]]
    BY <2>1, <2>2, <1>7 DEF Current, CallOf
  <2>7. Holding(serving.call[1])' = Holding(serving.call[1])
    BY <1>3 DEF Holding
  <2> QED BY <2>0, <2>4, <2>5, <2>6, <2>7
<1>17. Views'
  BY <1>1, <1>3 DEF Views
<1>18. \A u \in Thread, k \in 1 .. Len(inbox) + 1 :
         (k \in 1 .. Len(inbox) => Later(u, k)) => Later(u, k)' \/ (k = Len(inbox) + 1 /\ u # t)
  <2> SUFFICES ASSUME NEW u \in Thread, NEW k \in 1 .. Len(inbox) + 1,
                      k \in 1 .. Len(inbox) => Later(u, k), u = t \/ k # Len(inbox) + 1
               PROVE  /\ pc'[u] # "answered"
                      /\ pc'[u] = "waiting" =>
                           \E j \in 1 .. Len(inbox') : j >= k /\ inbox'[j].call = CallOf(u)'
    BY DEF Later
  <2>1. CASE u = t
    <3>1. Len(inbox) + 1 \in 1 .. Len(inbox') /\ Len(inbox) + 1 >= k
      BY <1>5, <1>6
    <3>2. inbox'[Len(inbox) + 1].call = CallOf(t)'
      BY <1>4, <1>6, <1>12
    <3> QED BY <2>1, <3>1, <3>2, <1>7
  <2>2. CASE u # t
    <3>1. k \in 1 .. Len(inbox) /\ Later(u, k)
      BY <2>2, <1>6, <1>5
    <3> QED BY <2>2, <3>1, <1>6, <1>7, <1>12 DEF Later
  <2> QED BY <2>1, <2>2
<1>19. Ordered'
  <2> SUFFICES ASSUME NEW k \in 1 .. Len(inbox'), NEW n \in Message, n = inbox'[k],
                      NEW u \in Thread, Sound(u), ProcOf[n.call[1]] = ProcOf[u],
                      Holding(u) \cap Touched(n) # {}
               PROVE  Later(u, k)'
    BY <1>12 DEF Ordered
  <2>1. CASE k \in 1 .. Len(inbox)
    <3>1. Later(u, k)
      BY <2>1, <1>1, <1>6 DEF Ordered
    <3>2. k \in 1 .. Len(inbox) + 1 /\ k # Len(inbox) + 1
      BY <2>1, <1>5
    <3> QED BY <3>1, <3>2, <1>18
  <2>2. CASE k = Len(inbox) + 1
    <3>1. n = m
      BY <2>2, <1>6
    <3>2. Sound(t) /\ ProcOf[u] = ProcOf[t]
      BY <3>1, <1>4 DEF Sound
    <3>3. Touched(m) \subseteq Holding(t) \cup {NoSlot}
      <4>1. op[t] \in {"transfer", "empty"} => Mem(t, params[t]).buf \in {buffer[t], NoSlot}
        BY <3>2, <1>1, <1>3 DEF Filled
      <4> QED BY <4>1, <1>4 DEF Touched, Holding
    <3>4. u = t
      <4>1. NoSlot \notin Holding(u)
        BY DEF Holding
      <4>2. Holding(u) \cap Holding(t) # {}
        BY <3>1, <3>3, <4>1
      <4> QED BY <4>2, <3>2 DEF IInv, PoolIInv, ExclusiveSlots
    <3>5. k \in 1 .. Len(inbox) + 1 /\ k \notin 1 .. Len(inbox)
      BY <2>2, <1>5
    <3> QED BY <3>4, <3>5, <1>18
  <2> QED BY <2>1, <2>2, <1>6
<1>20. ServedFirst'
  <2> SUFFICES ASSUME serving # NoCall, NEW u \in Thread, Sound(u),
                      ProcOf[serving.call[1]] = ProcOf[u],
                      Holding(u) \cap serving.slots # {}
               PROVE  (pc'[u] = "waiting" /\ serving.call = CallOf(u)) \/ Later(u, 1)'
    BY <1>3, <1>12 DEF ServedFirst
  <2>1. (pc[u] = "waiting" /\ serving.call = CallOf(u)) \/ Later(u, 1)
    BY <1>1 DEF ServedFirst
  <2>2. pc[u] = "waiting" => pc'[u] = "waiting"
    BY <1>3, <1>7
  <2>3. CASE Later(u, 1)
    <3>1. CASE u = t
      <4>1. Len(inbox) + 1 \in 1 .. Len(inbox') /\ Len(inbox) + 1 >= 1
        BY <1>5, <1>6
      <4>2. inbox'[Len(inbox) + 1].call = CallOf(t)'
        BY <1>4, <1>6, <1>12
      <4> QED BY <3>1, <4>1, <4>2, <1>7 DEF Later
    <3>2. CASE u # t
      BY <2>3, <3>2, <1>6, <1>7, <1>12 DEF Later
    <3> QED BY <3>1, <3>2
  <2> QED BY <2>1, <2>2, <2>3
<1>21. OwnParameters'
  <2> SUFFICES ASSUME serving # NoCall, pc'[serving.call[1]] = "waiting",
                      CallOf(serving.call[1])' = serving.call, ~stranded[ProcOf[serving.call[1]]]
               PROVE  \A cell \in serving.saw : cell.in = serving.call /\ cell.out \in lost \cup {NoCall}
    BY <1>3 DEF OwnParameters
  <2>1. serving.call[1] \in Thread
    BY <1>1, Handled
  <2>2. serving.call[1] # t
    BY <2>1, <1>1, <1>3, <1>10, <1>12 DEF Served, Current, Sound
  <2>3. pc[serving.call[1]] = "waiting" /\ CallOf(serving.call[1]) = serving.call
    BY <2>1, <2>2, <1>3, <1>7 DEF CallOf
  <2> QED BY <2>3, <1>1 DEF OwnParameters
<1>22. ASSUME NEW u \in Thread PROVE Filled(u)'
  <2>1. /\ Holding(u)' = Holding(u) /\ CallOf(u)' = CallOf(u) /\ Sound(u)' = Sound(u)
        /\ \A i : Mem(u, i)' = Mem(u, i)
    BY <1>3, <1>12 DEF Mem
  <2>2. pc[u] # pc'[u] => pc[u] = "ready" /\ pc'[u] = "waiting"
    BY <1>3, <1>7
  <2>3. Filled(u)
    BY <1>1
  <2> QED BY <2>1, <2>2, <2>3, <1>3 DEF Filled
<1>23. Begun'
  BY <1>1, <1>3, <1>7 DEF Begun
<1> QED BY <1>8, <1>13, <1>15, <1>16, <1>17, <1>19, <1>20, <1>21, <1>22, <1>23 DEF AllFilled, Rest

\* What is left of the inbox without the messages at S, f says where each was.
Follows(f, S) ==
  /\ inbox' \in Seq(Message)
  /\ f \in [1 .. Len(inbox') -> (1 .. Len(inbox)) \ S]
  /\ \A i \in 1 .. Len(inbox') : inbox'[i] = inbox[f[i]]
  /\ \A i, j \in 1 .. Len(inbox') : i < j => f[i] < f[j]
  /\ \A k \in (1 .. Len(inbox)) \ S : \E i \in 1 .. Len(inbox') : f[i] = k

LEMMA NoneLeaves ==
  ASSUME TypeOK, UNCHANGED inbox
  PROVE  \E f : Follows(f, {})
<1>1. inbox \in Seq(Message)
  BY DEF TypeOK
<1>2. Follows([i \in 1 .. Len(inbox) |-> i], {})
  BY <1>1 DEF Follows
<1> QED BY <1>2

LEMMA OneLeaves ==
  ASSUME TypeOK, NEW x \in 1 .. Len(inbox),
         inbox' = Without(x) \/ (x = 1 /\ inbox' = Tail(inbox))
  PROVE  \E f : Follows(f, {x})
<1>1. inbox \in Seq(Message) /\ Len(inbox) \in Nat \ {0} /\ x \in Nat /\ 1 <= x /\ x <= Len(inbox)
  BY DEF TypeOK
<1>2. PICK n \in Nat : n = Len(inbox) - 1 /\ Len(inbox) = n + 1
  BY <1>1
<1> DEFINE f == [i \in 1 .. n |-> IF i < x THEN i ELSE i + 1]
<1>3. /\ f \in [1 .. n -> (1 .. Len(inbox)) \ {x}]
      /\ \A i, j \in 1 .. n : i < j => f[i] < f[j]
      /\ \A k \in (1 .. Len(inbox)) \ {x} : \E i \in 1 .. n : f[i] = k
  <2>1. \A i \in 1 .. n : f[i] \in (1 .. Len(inbox)) \ {x}
    BY <1>1, <1>2
  <2>2. \A i, j \in 1 .. n : i < j => f[i] < f[j]
    BY <1>1, <1>2
  <2>3. ASSUME NEW k \in (1 .. Len(inbox)) \ {x} PROVE \E i \in 1 .. n : f[i] = k
    <3>1. CASE k < x
      <4>1. k \in 1 .. n /\ f[k] = k
        BY <3>1, <1>1, <1>2
      <4> QED BY <4>1
    <3>2. CASE ~(k < x)
      <4>1. k - 1 \in 1 .. n /\ f[k - 1] = k
        BY <3>2, <1>1, <1>2
      <4> QED BY <4>1
    <3> QED BY <3>1, <3>2
  <2> QED BY <2>1, <2>2, <2>3
<1>4. /\ inbox' \in Seq(Message) /\ Len(inbox') = n
      /\ \A i \in 1 .. n : inbox'[i] = inbox[f[i]]
  <2>1. CASE inbox' = Without(x)
    <3>1. inbox' = [j \in 1 .. n |-> inbox[IF j < x THEN j ELSE j + 1]]
      BY <2>1, <1>1, <1>2 DEF Without
    <3>2. \A j \in 1 .. n : inbox[IF j < x THEN j ELSE j + 1] \in Message
      BY <1>1, <1>2
    <3>3. inbox' \in [1 .. n -> Message]
      BY <3>1, <3>2
    <3>4. inbox' \in Seq(Message)
      BY <3>3
    <3>5. Len(inbox') = n
      BY <3>3, <3>4
    <3> QED BY <3>1, <3>4, <3>5
  <2>2. CASE x = 1 /\ inbox' = Tail(inbox)
    <3>1. inbox # <<>>
      BY <1>1
    <3>2. inbox' \in Seq(Message) /\ Len(inbox') = n
      BY <2>2, <3>1, <1>1, <1>2
    <3>3. \A i \in 1 .. n : inbox'[i] = inbox[i + 1]
      BY <2>2, <3>1, <1>1, <1>2
    <3> QED BY <2>2, <3>2, <3>3
  <2> QED BY <2>1, <2>2
<1> HIDE DEF f
<1>5. Follows(f, {x})
  BY <1>3, <1>4 DEF Follows
<1> QED BY <1>5

\* A message that stays keeps its place among those that stay.
LEMMA StillLater ==
  ASSUME TypeOK, NEW f, NEW S, Follows(f, S), NEW u \in Thread,
         \A x \in S : x \in 1 .. Len(inbox) => inbox[x].call # CallOf(u),
         pc'[u] = pc[u], calls'[u] = calls[u]
  PROVE  /\ \A k \in 1 .. Len(inbox') : Later(u, f[k]) => Later(u, k)'
         /\ Later(u, 1) => Later(u, 1)'
<1>1. inbox \in Seq(Message) /\ inbox' \in Seq(Message) /\ Len(inbox) \in Nat /\ Len(inbox') \in Nat
  BY DEF TypeOK, Follows
<1>2. CallOf(u)' = CallOf(u)
  BY DEF CallOf
<1>3. ASSUME NEW l \in 1 .. Len(inbox), inbox[l].call = CallOf(u)
      PROVE  \E j \in 1 .. Len(inbox') : f[j] = l /\ inbox'[j].call = CallOf(u)'
  <2>1. l \in (1 .. Len(inbox)) \ S
    BY <1>3
  <2> QED BY <2>1, <1>2, <1>3 DEF Follows
<1>4. ASSUME NEW k \in 1 .. Len(inbox'), Later(u, f[k]) PROVE Later(u, k)'
  <2> SUFFICES ASSUME pc[u] = "waiting"
               PROVE  \E j \in 1 .. Len(inbox') : j >= k /\ inbox'[j].call = CallOf(u)'
    BY <1>4 DEF Later
  <2>1. PICK l \in 1 .. Len(inbox) : l >= f[k] /\ inbox[l].call = CallOf(u)
    BY <1>4 DEF Later
  <2>2. PICK j \in 1 .. Len(inbox') : f[j] = l /\ inbox'[j].call = CallOf(u)'
    BY <1>3, <2>1
  <2>3. f[k] \in 1 .. Len(inbox) /\ f[j] \in 1 .. Len(inbox)
    BY DEF Follows
  <2>4. j < k => f[j] < f[k]
    BY DEF Follows
  <2>5. j >= k
    BY <2>1, <2>2, <2>3, <2>4
  <2> QED BY <2>2, <2>5
<1>5. ASSUME Later(u, 1) PROVE Later(u, 1)'
  <2> SUFFICES ASSUME pc[u] = "waiting"
               PROVE  \E j \in 1 .. Len(inbox') : j >= 1 /\ inbox'[j].call = CallOf(u)'
    BY <1>5 DEF Later
  <2>1. PICK l \in 1 .. Len(inbox) : inbox[l].call = CallOf(u)
    BY <1>5 DEF Later
  <2>2. PICK j \in 1 .. Len(inbox') : inbox'[j].call = CallOf(u)'
    BY <1>3, <2>1
  <2> QED BY <2>2
<1> QED BY <1>4, <1>5

\* A message that stays is as it was and the only one of its call.
LEMMA StillMessages ==
  ASSUME TypeOK, Messages, NEW f, NEW S, Follows(f, S), lost \subseteq lost',
         UNCHANGED <<calls, op, params, stranded>>,
         \A k \in (1 .. Len(inbox)) \ S :
           Sound(inbox[k].call[1]) /\ pc[inbox[k].call[1]] = "waiting" /\ inbox[k].call = CallOf(inbox[k].call[1]) =>
             pc'[inbox[k].call[1]] = "waiting" \/ inbox[k].call \in lost'
  PROVE  Messages'
<1> SUFFICES ASSUME NEW i \in 1 .. Len(inbox'), Sound(inbox'[i].call[1])
             PROVE  LET n == inbox'[i]
                        u == n.call[1]
                    IN /\ \/ n.call \in lost'
                          \/ /\ pc'[u] = "waiting" /\ n.call = <<u, calls[u]>> /\ n.op = op[u]
                             /\ n.slot = params[u]
                       /\ \A j \in 1 .. Len(inbox') : inbox'[j].call = n.call => j = i
  BY DEF Messages, Sound, Current, CallOf
<1>1. PICK k \in (1 .. Len(inbox)) \ S : k = f[i] /\ inbox'[i] = inbox[k] /\ Sound(inbox[k].call[1])
  BY DEF Follows
<1>2. /\ \/ inbox[k].call \in lost
         \/ Current(inbox[k]) /\ inbox[k].slot = params[inbox[k].call[1]]
      /\ \A j \in 1 .. Len(inbox) : inbox[j].call = inbox[k].call => j = k
  BY <1>1 DEF Messages
<1>3. ASSUME NEW j \in 1 .. Len(inbox'), inbox'[j].call = inbox[k].call PROVE j = i
  <2>1. f[j] = k
    <3>1. f[j] \in 1 .. Len(inbox) /\ inbox'[j] = inbox[f[j]]
      BY DEF Follows
    <3> QED BY <3>1, <1>2, <1>3
  <2>2. (i < j => f[i] < f[j]) /\ (j < i => f[j] < f[i])
    BY DEF Follows
  <2>3. k \in Int /\ i \in Int /\ j \in Int
    OBVIOUS
  <2> QED BY <2>1, <2>2, <2>3, <1>1
<1>4. CASE inbox[k].call \in lost
  BY <1>1, <1>3, <1>4
<1>5. CASE Current(inbox[k]) /\ inbox[k].slot = params[inbox[k].call[1]]
  BY <1>1, <1>3, <1>5 DEF Current, CallOf
<1> QED BY <1>2, <1>4, <1>5

\* A call is given up: its message leaves the inbox or stays behind.
LEMMA FailKeeps ==
  ASSUME IInv, NEW t \in Thread, pc[t] \in {"ready", "waiting"}, Fail(t),
         NEW f, NEW S, Follows(f, S),
         \A x \in S : x \in 1 .. Len(inbox) => inbox[x].call = CallOf(t)
  PROVE  Rest'
<1>1. /\ TypeOK /\ PoolTypeOK /\ Lost /\ Messages /\ Served /\ Views /\ Ordered /\ ServedFirst
      /\ OwnParameters /\ Begun /\ \A u \in Thread : Filled(u)
  BY DEF IInv, Rest, PoolIInv, AllFilled
<1>2. /\ lost' = lost \cup {CallOf(t)}
      /\ pc' = [pc EXCEPT ![t] = "failed"]
      /\ UNCHANGED <<cache, used, length, params, buffer, calls, op, serving, server, view, gen,
                     memory, clean, stranded>>
  BY DEF Fail, poolVars
<1>3. /\ pc'[t] = "failed" /\ \A u \in Thread : u # t => pc'[u] = pc[u]
      /\ pc' \in [Thread -> PCs]
  BY <1>1, <1>2 DEF TypeOK, PCs
<1>4. CallOf(t) \in Call /\ CallOf(t)[1] = t /\ CallOf(t)[2] = calls[t]
  BY <1>1, TransportAssumption DEF CallOf, Call, TypeOK, Begun
<1>5. TypeOK'
  BY <1>1, <1>2, <1>3, <1>4 DEF TypeOK, PoolTypeOK, PCs, Follows
<1>6. /\ \A u \in Thread : CallOf(u)' = CallOf(u) /\ Holding(u)' = Holding(u) /\ Sound(u)' = Sound(u)
      /\ \A n \in Message : Touched(n)' = Touched(n)
  BY <1>2 DEF CallOf, Holding, Sound, Touched, Mem
<1>7. Lost'
  <2> SUFFICES ASSUME NEW c \in lost'
               PROVE  /\ c[2] <= calls[c[1]]
                      /\ CallOf(c[1])' = c => pc'[c[1]] \in {"failed", "returning", "idle"}
    BY <1>2 DEF Lost
  <2>1. CASE c = CallOf(t)
    BY <2>1, <1>1, <1>3, <1>4 DEF TypeOK
  <2>2. CASE c \in lost
    <3>1. c[1] \in Thread
      BY <2>2, <1>1 DEF TypeOK, Call
    <3>2. CallOf(c[1])' = CallOf(c[1])
      BY <3>1, <1>6
    <3> QED BY <2>2, <3>1, <3>2, <1>1, <1>3 DEF Lost
  <2> QED BY <2>1, <2>2, <1>2
<1>8. Messages'
  <2>1. ASSUME NEW k \in (1 .. Len(inbox)) \ S, inbox[k].call = CallOf(inbox[k].call[1]),
               pc[inbox[k].call[1]] = "waiting"
        PROVE  pc'[inbox[k].call[1]] = "waiting" \/ inbox[k].call \in lost'
    <3>1. inbox[k].call[1] \in Thread
      BY <1>1, Messaged
    <3> QED BY <2>1, <3>1, <1>2, <1>3
  <2> QED BY <2>1, <1>1, <1>2, StillMessages
<1>9. Served'
  <2> SUFFICES ASSUME serving # NoCall, Sound(serving.call[1])
               PROVE  LET u == serving.call[1]
                      IN /\ \/ serving.call \in lost'
                            \/ /\ pc'[u] = "waiting" /\ serving.call = <<u, calls[u]>>
                               /\ serving.op = op[u] /\ serving.slots = Holding(u)'
                         /\ \A i \in serving.slots : view[ProcOf[u]][i] = gen[ProcOf[u]]
                         /\ \A k \in 1 .. Len(inbox') : inbox'[k].call # serving.call
    BY <1>2 DEF Served, Sound, Current, CallOf
  <2>1. serving.call[1] \in Thread /\ serving.call \in Call
    BY <1>1, Handled
  <2>2. /\ serving.call \in lost \/ (Current(serving) /\ serving.slots = Holding(serving.call[1]))
        /\ \A i \in serving.slots : view[ProcOf[serving.call[1]]][i] = gen[ProcOf[serving.call[1]]]
        /\ \A k \in 1 .. Len(inbox) : inbox[k].call # serving.call
    BY <1>1 DEF Served
  <2>3. \A k \in 1 .. Len(inbox') : inbox'[k].call # serving.call
    BY <2>2 DEF Follows
  <2>4. Holding(serving.call[1])' = Holding(serving.call[1])
    BY <1>2 DEF Holding
  <2>5. CASE serving.call \in lost
    BY <2>2, <2>3, <2>5, <1>2
  <2>6. CASE Current(serving) /\ serving.slots = Holding(serving.call[1])
    <3>1. CASE serving.call[1] = t
      <4>1. serving.call \in lost'
        BY <2>6, <3>1, <1>2 DEF Current
      <4> QED BY <4>1, <2>2, <2>3
    <3>2. CASE serving.call[1] # t
      BY <2>1, <2>2, <2>3, <2>4, <2>6, <3>2, <1>3 DEF Current, CallOf
    <3> QED BY <3>1, <3>2
  <2> QED BY <2>2, <2>5, <2>6
<1>10. Views'
  BY <1>1, <1>2 DEF Views
<1>11. ASSUME NEW u \in Thread
       PROVE  /\ \A k \in 1 .. Len(inbox') : Later(u, f[k]) => Later(u, k)'
              /\ Later(u, 1) => Later(u, 1)'
  <2>1. CASE u = t
    BY <2>1, <1>3 DEF Later
  <2>2. CASE u # t
    <3>1. CallOf(u) # CallOf(t)
      BY <2>2 DEF CallOf
    <3>2. \A x \in S : x \in 1 .. Len(inbox) => inbox[x].call # CallOf(u)
      BY <3>1
    <3> QED BY <2>2, <3>2, <1>1, <1>2, <1>3, StillLater
  <2> QED BY <2>1, <2>2
<1>12. Ordered'
  <2> SUFFICES ASSUME NEW k \in 1 .. Len(inbox'), NEW n \in Message, n = inbox'[k],
                      NEW u \in Thread, Sound(u), ProcOf[n.call[1]] = ProcOf[u],
                      Holding(u) \cap Touched(n) # {}
               PROVE  Later(u, k)'
    BY <1>6 DEF Ordered
  <2>1. f[k] \in 1 .. Len(inbox) /\ n = inbox[f[k]]
    BY DEF Follows
  <2>2. Later(u, f[k])
    BY <2>1, <1>1 DEF Ordered
  <2> QED BY <2>2, <1>11
<1>13. ServedFirst'
  <2> SUFFICES ASSUME serving # NoCall, NEW u \in Thread, Sound(u),
                      ProcOf[serving.call[1]] = ProcOf[u],
                      Holding(u) \cap serving.slots # {}
               PROVE  (pc'[u] = "waiting" /\ serving.call = CallOf(u)) \/ Later(u, 1)'
    BY <1>2, <1>6 DEF ServedFirst
  <2>1. (pc[u] = "waiting" /\ serving.call = CallOf(u)) \/ Later(u, 1)
    BY <1>1 DEF ServedFirst
  <2>2. u = t => Later(u, 1)'
    BY <1>3 DEF Later
  <2> QED BY <2>1, <2>2, <1>3, <1>11
<1>14. OwnParameters'
  <2> SUFFICES ASSUME serving # NoCall, pc'[serving.call[1]] = "waiting",
                      <<serving.call[1], calls[serving.call[1]]>> = serving.call,
                      ~stranded[ProcOf[serving.call[1]]]
               PROVE  \A cell \in serving.saw : cell.in = serving.call /\ cell.out \in lost' \cup {NoCall}
    BY <1>2 DEF OwnParameters, CallOf
  <2>1. serving.call[1] \in Thread
    BY <1>1, Handled
  <2>2. pc[serving.call[1]] = "waiting"
    BY <2>1, <1>3
  <2>3. \A cell \in serving.saw : cell.in = serving.call /\ cell.out \in lost \cup {NoCall}
    BY <2>2, <1>1 DEF OwnParameters, CallOf
  <2> QED BY <2>3, <1>2
<1>15. ASSUME NEW u \in Thread PROVE Filled(u)'
  <2>1. CASE u = t
    BY <2>1, <1>3 DEF Filled
  <2>2. CASE u # t
    <3>1. \A i \in Holding(u) : Mem(u, i)' = Mem(u, i)
      BY <1>2 DEF Mem
    <3>2. (Sound(u)' => Sound(u)) /\ lost \subseteq lost'
      BY <1>2, <1>6
    <3>3. Filled(u)
      BY <1>1
    <3> QED BY <3>1, <3>2, <3>3, <2>2, <1>1, <1>2, <1>3, FilledStays
  <2> QED BY <2>1, <2>2
<1>16. Begun'
  BY <1>1, <1>2, <1>3 DEF Begun
<1> QED BY <1>5, <1>7, <1>8, <1>9, <1>10, <1>12, <1>13, <1>14, <1>15, <1>16 DEF AllFilled, Rest

LEMMA AbandonKeeps ==
  ASSUME IInv, NEW t \in Thread, Abandon(t)
  PROVE  Rest'
<1>1. TypeOK /\ pc[t] = "waiting" /\ Fail(t)
  BY DEF IInv, Rest, Abandon
<1>2. CASE UNCHANGED inbox
  <2>1. PICK f : Follows(f, {})
    BY <1>1, <1>2, NoneLeaves
  <2> QED BY <2>1, <1>1, FailKeeps
<1>3. ASSUME NEW x \in DOMAIN inbox, inbox[x].call = CallOf(t), inbox' = Without(x) PROVE Rest'
  <2>1. x \in 1 .. Len(inbox)
    BY <1>1 DEF TypeOK
  <2>2. PICK f : Follows(f, {x})
    BY <2>1, <1>1, <1>3, OneLeaves
  <2>3. \A y \in {x} : y \in 1 .. Len(inbox) => inbox[y].call = CallOf(t)
    BY <1>3
  <2> QED BY <2>2, <2>3, <1>1, FailKeeps
<1> QED BY <1>2, <1>3 DEF Abandon

LEMMA SendFailsKeeps ==
  ASSUME IInv, NEW t \in Thread, SendFails(t)
  PROVE  Rest'
<1>1. TypeOK /\ pc[t] = "ready" /\ Fail(t) /\ UNCHANGED inbox
  BY DEF IInv, Rest, SendFails
<1>2. PICK f : Follows(f, {})
  BY <1>1, NoneLeaves
<1> QED BY <1>1, <1>2, FailKeeps

\* A process ends and another has its names: one that stays sound had no message on
\* its way and none being handled, and the server has no view of it.
LEMMA RestartKeeps ==
  ASSUME IInv, NEW p \in Process, Restart(p), PoolIInv'
  PROVE  Rest'
<1>1. /\ TypeOK /\ PoolTypeOK /\ PoolTypeOK' /\ Lost /\ Messages /\ Served /\ Views /\ Ordered
      /\ ServedFirst /\ OwnParameters /\ Begun /\ \A u \in Thread : Filled(u)
  BY DEF IInv, Rest, PoolIInv, AllFilled
<1>2. /\ gen[p] < MaxRestart
      /\ gen' = [gen EXCEPT ![p] = @ + 1]
      /\ pc' = [t \in Thread |-> IF ProcOf[t] = p THEN "idle" ELSE pc[t]]
      /\ length' = [length EXCEPT ![p] = [i \in Slot |-> 0]]
      /\ params' = [t \in Thread |-> IF ProcOf[t] = p THEN NoSlot ELSE params[t]]
      /\ buffer' = [t \in Thread |-> IF ProcOf[t] = p THEN NoSlot ELSE buffer[t]]
      /\ UNCHANGED <<calls, op, inbox, serving, server, view, memory, lost, clean>>
  BY DEF Restart, Unload, serverVars
<1>3. /\ stranded' \in [Process -> BOOLEAN]
      /\ \A q \in Process : ~stranded'[q] => ~stranded[q]
      /\ ~stranded'[p] => clean[p] /\ ~Pending(p)
  <2> DEFINE rough == ~clean[p] \/ Pending(p)
  <2>1. stranded' = [stranded EXCEPT ![p] = @ \/ rough]
    BY DEF Restart
  <2>2. rough \in BOOLEAN
    OBVIOUS
  <2> HIDE DEF rough
  <2>3. /\ stranded' \in [Process -> BOOLEAN]
        /\ \A q \in Process : ~stranded'[q] => ~stranded[q]
        /\ ~stranded'[p] => ~rough
    BY <2>1, <2>2, <1>1, Zenon DEF TypeOK
  <2> QED BY <2>3 DEF rough
<1>4. \A u \in Thread : Sound(u)' => Sound(u)
  BY <1>3, PoolAssumption DEF Sound
<1>5. /\ \A u \in Thread : ProcOf[u] # p => /\ pc'[u] = pc[u] /\ params'[u] = params[u]
                                            /\ buffer'[u] = buffer[u]
                                            /\ gen'[ProcOf[u]] = gen[ProcOf[u]]
      /\ \A u \in Thread : ProcOf[u] = p => /\ pc'[u] = "idle" /\ params'[u] = NoSlot
                                            /\ buffer'[u] = NoSlot
  BY <1>1, <1>2, PoolAssumption DEF TypeOK
<1>6. TypeOK'
  <2>1. gen' \in [Process -> Gen]
    BY <1>1, <1>2, TransportAssumption DEF TypeOK, Gen
  <2>2. pc' \in [Thread -> PCs]
    BY <1>1, <1>2 DEF TypeOK, PCs
  <2> QED BY <2>1, <2>2, <1>1, <1>2, <1>3 DEF TypeOK, PCs
<1>7. \A k \in 1 .. Len(inbox) : /\ inbox[k].call[1] \in Thread
                                 /\ ProcOf[inbox[k].call[1]] = p => stranded'[p]
  <2> SUFFICES ASSUME NEW k \in 1 .. Len(inbox), ProcOf[inbox[k].call[1]] = p PROVE Pending(p)
    BY <1>1, <1>3, Messaged
  <2>1. k \in DOMAIN inbox
    BY <1>1 DEF TypeOK
  <2> QED BY <2>1 DEF Pending
<1>8. serving # NoCall => /\ serving.call[1] \in Thread
                          /\ ProcOf[serving.call[1]] = p => stranded'[p]
  BY <1>1, <1>3, Handled DEF Pending
<1>9. \A u \in Thread : CallOf(u)' = CallOf(u)
  BY <1>2 DEF CallOf
<1>10. \A u \in Thread : ProcOf[u] # p => Holding(u)' = Holding(u)
  BY <1>5 DEF Holding
<1>11. \A u \in Thread : ProcOf[u] = p => Holding(u)' = {}
  BY <1>5 DEF Holding
<1>12. \A m \in Message : ProcOf[m.call[1]] # p => Touched(m)' = Touched(m)
  BY <1>2, <1>5 DEF Touched, Mem, Message, Call
<1>13. Lost'
  <2> SUFFICES ASSUME NEW c \in lost
               PROVE  /\ c[2] <= calls[c[1]]
                      /\ CallOf(c[1])' = c => pc'[c[1]] \in {"failed", "returning", "idle"}
    BY <1>2 DEF Lost
  <2>1. c[1] \in Thread
    BY <1>1 DEF TypeOK, Call
  <2>2. CallOf(c[1])' = CallOf(c[1])
    BY <2>1, <1>9
  <2> QED BY <2>1, <2>2, <1>1, <1>5 DEF Lost
<1>14. Messages'
  <2> SUFFICES ASSUME NEW k \in 1 .. Len(inbox), ~stranded'[ProcOf[inbox[k].call[1]]]
               PROVE  LET n == inbox[k]
                          u == n.call[1]
                      IN /\ \/ n.call \in lost
                            \/ /\ pc'[u] = "waiting" /\ n.call = <<u, calls[u]>> /\ n.op = op[u]
                               /\ n.slot = params'[u]
                         /\ \A j \in 1 .. Len(inbox) : inbox[j].call = n.call => j = k
    BY <1>2 DEF Messages, Sound, Current, CallOf
  <2>1. inbox[k].call[1] \in Thread /\ Sound(inbox[k].call[1]) /\ ProcOf[inbox[k].call[1]] # p
    BY <1>3, <1>7, PoolAssumption DEF Sound
  <2>2. /\ \/ inbox[k].call \in lost
           \/ Current(inbox[k]) /\ inbox[k].slot = params[inbox[k].call[1]]
        /\ \A j \in 1 .. Len(inbox) : inbox[j].call = inbox[k].call => j = k
    BY <2>1, <1>1 DEF Messages
  <2> QED BY <2>1, <2>2, <1>5 DEF Current, CallOf
<1>15. Served'
  <2> SUFFICES ASSUME serving # NoCall, ~stranded'[ProcOf[serving.call[1]]]
               PROVE  LET u == serving.call[1]
                      IN /\ \/ serving.call \in lost
                            \/ /\ pc'[u] = "waiting" /\ serving.call = <<u, calls[u]>>
                               /\ serving.op = op[u] /\ serving.slots = Holding(u)'
                         /\ \A i \in serving.slots : view[ProcOf[u]][i] = gen'[ProcOf[u]]
                         /\ \A k \in 1 .. Len(inbox) : inbox[k].call # serving.call
    BY <1>2 DEF Served, Sound, Current, CallOf
  <2>1. serving.call[1] \in Thread /\ Sound(serving.call[1]) /\ ProcOf[serving.call[1]] # p
    BY <1>3, <1>8, PoolAssumption DEF Sound
  <2>2. /\ serving.call \in lost \/ (Current(serving) /\ serving.slots = Holding(serving.call[1]))
        /\ \A i \in serving.slots : view[ProcOf[serving.call[1]]][i] = gen[ProcOf[serving.call[1]]]
        /\ \A k \in 1 .. Len(inbox) : inbox[k].call # serving.call
    BY <2>1, <1>1 DEF Served
  <2>3. Holding(serving.call[1])' = Holding(serving.call[1])
    BY <2>1, <1>2, <1>5 DEF Holding
  <2> QED BY <2>1, <2>2, <2>3, <1>5 DEF Current, CallOf
<1>16. Views'
  <2> SUFFICES ASSUME NEW q \in Process
               PROVE  /\ clean[q] => \A i \in Slot : view[q][i] = NoView
                      /\ ~stranded'[q] => \A i \in Slot : view[q][i] # NoView =>
                                            view[q][i] = gen'[q] /\ length'[q][i] # 0
    BY <1>2 DEF Views
  <2>1. CASE q = p
    BY <2>1, <1>1, <1>3 DEF Views
  <2>2. CASE q # p
    <3>1. gen'[q] = gen[q] /\ length'[q] = length[q]
      BY <2>2, <1>1, <1>2 DEF TypeOK, PoolTypeOK
    <3> QED BY <3>1, <1>1, <1>3 DEF Views
  <2> QED BY <2>1, <2>2
<1>17. Ordered'
  <2> SUFFICES ASSUME NEW k \in 1 .. Len(inbox), NEW m \in Message, m = inbox[k],
                      NEW u \in Thread, Sound(u)', ProcOf[m.call[1]] = ProcOf[u],
                      Holding(u)' \cap Touched(m)' # {}
               PROVE  Later(u, k)'
    BY <1>2 DEF Ordered
  <2>1. ProcOf[u] # p
    BY <1>11
  <2>2. Holding(u) \cap Touched(m) # {} /\ Sound(u)
    BY <2>1, <1>4, <1>10, <1>12
  <2>3. Later(u, k)
    BY <2>2, <1>1 DEF Ordered
  <2> QED BY <2>1, <2>3, <1>2, <1>5, <1>9 DEF Later
<1>18. ServedFirst'
  <2> SUFFICES ASSUME serving # NoCall, NEW u \in Thread, Sound(u)',
                      ProcOf[serving.call[1]] = ProcOf[u],
                      Holding(u)' \cap serving.slots # {}
               PROVE  (pc'[u] = "waiting" /\ serving.call = CallOf(u)) \/ Later(u, 1)'
    BY <1>2, <1>9 DEF ServedFirst
  <2>1. ProcOf[u] # p /\ Sound(u)
    BY <1>4, <1>11
  <2>2. (pc[u] = "waiting" /\ serving.call = CallOf(u)) \/ Later(u, 1)
    BY <2>1, <1>1, <1>10 DEF ServedFirst
  <2>3. Later(u, 1) => Later(u, 1)'
    BY <2>1, <1>2, <1>5, <1>9 DEF Later
  <2> QED BY <2>1, <2>2, <2>3, <1>5
<1>19. OwnParameters'
  <2> SUFFICES ASSUME serving # NoCall, pc'[serving.call[1]] = "waiting",
                      <<serving.call[1], calls[serving.call[1]]>> = serving.call,
                      ~stranded'[ProcOf[serving.call[1]]]
               PROVE  \A cell \in serving.saw : cell.in = serving.call /\ cell.out \in lost \cup {NoCall}
    BY <1>2 DEF OwnParameters, CallOf
  <2>1. serving.call[1] \in Thread /\ ~stranded[ProcOf[serving.call[1]]]
    BY <1>3, <1>8, PoolAssumption
  <2>2. pc[serving.call[1]] = "waiting"
    BY <2>1, <1>5
  <2> QED BY <2>1, <2>2, <1>1 DEF OwnParameters, CallOf
<1>20. ASSUME NEW u \in Thread PROVE Filled(u)'
  <2>1. CASE ProcOf[u] = p
    BY <2>1, <1>5 DEF Filled
  <2>2. CASE ProcOf[u] # p
    <3>1. \A i \in Holding(u) : Mem(u, i)' = Mem(u, i)
      BY <2>2, <1>2, <1>5 DEF Mem
    <3>2. Filled(u) /\ (Sound(u)' => Sound(u)) /\ lost \subseteq lost'
      BY <1>1, <1>2, <1>4
    <3> QED BY <3>1, <3>2, <2>2, <1>1, <1>2, <1>5, FilledStays
  <2> QED BY <2>1, <2>2
<1>21. Begun'
  BY <1>1, <1>2, <1>5 DEF Begun
<1> QED BY <1>6, <1>13, <1>14, <1>15, <1>16, <1>17, <1>18, <1>19, <1>20, <1>21 DEF AllFilled, Rest

\* The server ends, and what it was to do with it.
LEMMA ServerEndsKeeps ==
  ASSUME IInv, ServerEnds
  PROVE  Rest'
<1>1. /\ TypeOK /\ PoolTypeOK /\ Lost /\ Views /\ Begun /\ \A u \in Thread : Filled(u)
  BY DEF IInv, Rest, PoolIInv, AllFilled
<1>2. /\ inbox' = <<>> /\ serving' = NoCall /\ server' = "gone"
      /\ view' = [p \in Process |-> [i \in Slot |-> NoView]]
      /\ clean' = [p \in Process |-> TRUE]
      /\ UNCHANGED <<cache, used, length, params, buffer, calls, op, pc, gen, memory, lost, stranded>>
  BY DEF ServerEnds, poolVars
<1>3. TypeOK'
  <2>1. inbox' \in Seq(Message) /\ clean' \in [Process -> BOOLEAN]
    BY <1>2
  <2>2. view' \in [Process -> [Slot -> Gen \cup {NoView}]]
    BY <1>2
  <2> QED BY <2>1, <2>2, <1>1, <1>2 DEF TypeOK, PoolTypeOK
<1>4. Lost' /\ Begun'
  BY <1>1, <1>2 DEF Lost, CallOf, Begun, TypeOK, Call
<1>5. Messages' /\ Served' /\ Ordered' /\ ServedFirst' /\ OwnParameters'
  BY <1>2 DEF Messages, Served, Ordered, ServedFirst, OwnParameters
<1>6. Views'
  BY <1>2 DEF Views
<1>7. ASSUME NEW u \in Thread PROVE Filled(u)'
  <2>1. \A i \in Holding(u) : Mem(u, i)' = Mem(u, i)
    BY <1>2 DEF Mem
  <2>2. Filled(u) /\ (Sound(u)' => Sound(u)) /\ lost \subseteq lost'
    BY <1>1, <1>2 DEF Sound
  <2> QED BY <2>1, <2>2, <1>1, <1>2, FilledStays
<1> QED BY <1>3, <1>4, <1>5, <1>6, <1>7 DEF AllFilled, Rest

\* Nothing the invariant is about changes.
LEMMA SameRest ==
  ASSUME IInv, server' \in {"up", "hung", "gone"},
         UNCHANGED <<cache, used, length, params, buffer, calls, op, pc, inbox, serving,
                     view, gen, memory, lost, clean, stranded>>
  PROVE  Rest'
<1>1. TypeOK' /\ Lost' /\ Begun'
  BY DEF IInv, Rest, TypeOK, PoolTypeOK, Lost, CallOf, Begun
<1>2. Messages' /\ Served' /\ Views' /\ OwnParameters'
  BY DEF IInv, Rest, Messages, Served, Views, OwnParameters, Sound, Current, CallOf, Holding
<1>3. Ordered' /\ ServedFirst'
  <2>1. \A u \in Thread : /\ Sound(u)' = Sound(u) /\ CallOf(u)' = CallOf(u) /\ Holding(u)' = Holding(u)
                          /\ \A k : Later(u, k)' <=> Later(u, k)
    BY DEF Sound, CallOf, Holding, Later
  <2>2. \A m \in Message : Touched(m)' = Touched(m)
    BY DEF Touched, Mem
  <2> QED BY <2>1, <2>2 DEF IInv, Rest, Ordered, ServedFirst
<1>4. ASSUME NEW u \in Thread PROVE Filled(u)'
  BY DEF IInv, Rest, AllFilled, Filled, Sound, Mem, Holding, CallOf
<1> QED BY <1>1, <1>2, <1>3, <1>4 DEF AllFilled, Rest

\* The server resolves a name of a sound process to its present section.
LEMMA Resolved ==
  ASSUME TypeOK, PoolTypeOK, NEW p \in Process, NEW i \in Slot \cup {NoSlot}
  PROVE  /\ Resolve(p, i) \in Gen \cup {NoView}
         /\ Resolve(p, i) # NoView => i \in Slot /\ Resolve(p, i) \in Gen
         /\ Views /\ ~stranded[p] /\ Resolve(p, i) # NoView =>
              Resolve(p, i) = gen[p] /\ length[p][i] # 0
<1>1. NoSlot \notin Slot
  BY PoolAssumption DEF Slot
<1>2. gen[p] \in Gen /\ gen[p] # NoView
  BY TransportAssumption DEF TypeOK, Gen, NoView
<1>3. \A j \in Slot : view[p][j] \in Gen \cup {NoView}
  BY DEF TypeOK
<1>4. CASE i = NoSlot
  BY <1>1, <1>4 DEF Resolve
<1>5. CASE i \in Slot
  <2>1. i # NoSlot
    BY <1>1, <1>5
  <2>2. CASE view[p][i] # NoView
    <3>1. Resolve(p, i) = view[p][i]
      BY <2>1, <2>2 DEF Resolve
    <3> QED BY <3>1, <2>2, <1>2, <1>3, <1>5 DEF Views
  <2>3. CASE view[p][i] = NoView
    <3>1. Resolve(p, i) = IF length[p][i] # 0 THEN gen[p] ELSE NoView
      BY <2>1, <2>3 DEF Resolve
    <3> QED BY <3>1, <2>3, <1>2, <1>5
  <2> QED BY <2>2, <2>3
<1> QED BY <1>4, <1>5

\* Nobody but the thread that waits in the call is answered.
Answered(c) ==
  /\ pc' \in [Thread -> PCs]
  /\ \A u \in Thread : pc'[u] # pc[u] => /\ pc[u] = "waiting" /\ CallOf(u) = c
                                         /\ pc'[u] \in {"answered", "unresolved"}

LEMMA AnswerIsAnswered ==
  ASSUME TypeOK, NEW c \in Call, NEW how \in {"answered", "unresolved"}, Answer(c, how)
  PROVE  Answered(c)
<1>1. c[1] \in Thread
  BY DEF Call
<1>2. \A u \in Thread : pc'[u] # pc[u] => u = c[1] /\ pc[u] = "waiting" /\ CallOf(u) = c /\ pc'[u] = how
  <2> SUFFICES ASSUME NEW u \in Thread, pc'[u] # pc[u]
               PROVE  u = c[1] /\ pc[u] = "waiting" /\ CallOf(u) = c /\ pc'[u] = how
    OBVIOUS
  <2> DEFINE mine == pc[c[1]] = "waiting" /\ CallOf(c[1]) = c
  <2>1. pc' = [pc EXCEPT ![c[1]] = IF mine THEN how ELSE @]
    BY DEF Answer
  <2>2. u = c[1] /\ pc'[u] = IF mine THEN how ELSE pc[u]
    <3> HIDE DEF mine
    <3> QED BY <2>1, <1>1 DEF TypeOK
  <2>3. mine
    BY <2>2
  <2> QED BY <2>2, <2>3
<1>3. pc' \in [Thread -> PCs]
  BY <1>1 DEF Answer, TypeOK, PCs
<1> QED BY <1>2, <1>3 DEF Answered

\* What stays true when an answer is sent, of calls and of messages that stay.
LEMMA AnswerKeeps ==
  ASSUME IInv, NEW c \in Call, Answered(c), NEW f, NEW S, Follows(f, S),
         UNCHANGED <<calls, op, params, buffer, lost, stranded>>,
         \A k \in 1 .. Len(inbox) : k \notin S /\ Sound(inbox[k].call[1]) => inbox[k].call # c
  PROVE  Lost' /\ Messages' /\ Begun'
<1>1. /\ TypeOK /\ Lost /\ Messages /\ Begun
  BY DEF IInv, Rest
<1>2. Lost'
  <2> SUFFICES ASSUME NEW d \in lost
               PROVE  /\ d[2] <= calls[d[1]]
                      /\ CallOf(d[1])' = d => pc'[d[1]] \in {"failed", "returning", "idle"}
    BY DEF Lost
  <2>1. d[1] \in Thread
    BY <1>1 DEF TypeOK, Call
  <2>2. CallOf(d[1])' = CallOf(d[1])
    BY <2>1 DEF CallOf
  <2>3. d[2] <= calls[d[1]] /\ (CallOf(d[1]) = d => pc[d[1]] \in {"failed", "returning", "idle"})
    BY <1>1 DEF Lost
  <2> QED BY <2>1, <2>2, <2>3 DEF Answered
<1>3. Messages'
  <2>1. ASSUME NEW k \in (1 .. Len(inbox)) \ S, Sound(inbox[k].call[1]),
               pc[inbox[k].call[1]] = "waiting", inbox[k].call = CallOf(inbox[k].call[1])
        PROVE  pc'[inbox[k].call[1]] = "waiting"
    <3>1. inbox[k].call[1] \in Thread /\ inbox[k].call # c
      BY <2>1, <1>1, Messaged
    <3> QED BY <2>1, <3>1 DEF Answered
  <2> QED BY <2>1, <1>1, StillMessages
<1>4. Begun'
  BY <1>1 DEF Begun, Answered
<1> QED BY <1>2, <1>3, <1>4

\* The server takes a message.
LEMMA TakeKeeps ==
  ASSUME IInv, Take
  PROVE  Rest'
<1>1. /\ TypeOK /\ PoolTypeOK /\ PoolIInv /\ Lost /\ Messages /\ Served /\ Views /\ Ordered /\ Begun
      /\ \A u \in Thread : Filled(u)
  BY DEF IInv, Rest, PoolIInv, AllFilled
<1>2. inbox \in Seq(Message) /\ inbox # <<>> /\ Len(inbox) \in Nat \ {0} /\ serving = NoCall
  <2>1. serving = NoCall /\ inbox # <<>>
    BY DEF Take
  <2>2. inbox \in Seq(Message)
    BY <1>1 DEF TypeOK
  <2> QED BY <2>1, <2>2
<1>3. PICK m \in Message : m = inbox[1] /\ m = Head(inbox)
  BY <1>2
<1>4. PICK t \in Thread : t = m.call[1]
  BY <1>3 DEF Message, Call
<1>5. PICK p \in Process : p = ProcOf[t]
  BY PoolAssumption
<1>6. m.call \in Call /\ m.op \in Op /\ m.slot \in Slot
  BY DEF Message
<1>7. PICK v \in Gen \cup {NoView} :
        v = Resolve(p, m.slot) /\ (Views /\ ~stranded[p] /\ v # NoView => v = gen[p])
  BY <1>1, <1>6, Resolved
<1> DEFINE cell == IF v = NoView THEN Blank ELSE memory[p][v][m.slot]
<1>8. PICK c \in CellType : c = cell
  <2>1. Blank \in CellType
    BY DEF CellType, Cell, Blank
  <2>2. v # NoView => memory[p][v][m.slot] \in CellType
    BY <1>1, <1>6, <1>7 DEF TypeOK
  <2> QED BY <2>1, <2>2
<1>9. PICK need \in SUBSET (Slot \cup {NoSlot}) :
        need = IF v = NoView THEN {m.slot} ELSE SlotsOf(m, c)
  BY <1>6, <1>8 DEF SlotsOf, CellType
<1>10. /\ inbox' = Tail(inbox)
       /\ view' = [view EXCEPT ![p] =
                     [i \in Slot |-> IF i \in need THEN Resolve(p, i) ELSE @[i]]]
       /\ clean' = [clean EXCEPT ![p] = FALSE]
       /\ IF \E i \in need : Resolve(p, i) = NoView
          THEN Answer(m.call, "unresolved") /\ UNCHANGED serving
          ELSE /\ serving' = [call |-> m.call, op |-> m.op, slots |-> need,
                              saw |-> {memory[p][Resolve(p, i)][i] : i \in need}]
               /\ UNCHANGED pc
       /\ UNCHANGED <<cache, used, length, params, buffer, calls, op, server, gen, memory,
                      lost, stranded>>
  <2>1. /\ inbox' = Tail(inbox)
        /\ UNCHANGED <<cache, used, length, params, buffer, calls, op, server, gen, memory,
                       lost, stranded>>
    BY DEF Take, poolVars
  <2>2. /\ m = Head(inbox) /\ p = ProcOf[m.call[1]] /\ v = Resolve(p, m.slot)
        /\ c = (IF v = NoView THEN Blank ELSE memory[p][v][m.slot])
        /\ need = (IF v = NoView THEN {m.slot} ELSE SlotsOf(m, c))
    BY <1>3, <1>4, <1>5, <1>7, <1>8, <1>9
  <2> HIDE DEF cell
  <2>3. /\ view' = [view EXCEPT ![p] =
                      [i \in Slot |-> IF i \in need THEN Resolve(p, i) ELSE @[i]]]
        /\ clean' = [clean EXCEPT ![p] = FALSE]
        /\ IF \E i \in need : Resolve(p, i) = NoView
           THEN Answer(m.call, "unresolved") /\ UNCHANGED serving
           ELSE /\ serving' = [call |-> m.call, op |-> m.op, slots |-> need,
                               saw |-> {memory[p][Resolve(p, i)][i] : i \in need}]
                /\ UNCHANGED pc
    BY <2>2, Zenon DEF Take
  <2> QED BY <2>1, <2>3
<1> HIDE DEF cell
<1>11. /\ \A i \in need : Resolve(p, i) \in Gen \cup {NoView}
       /\ \A i \in need : Resolve(p, i) # NoView => i \in Slot /\ Resolve(p, i) \in Gen
       /\ ~stranded[p] => \A i \in need : Resolve(p, i) # NoView =>
                                            Resolve(p, i) = gen[p] /\ length[p][i] # 0
  BY <1>1, <1>9, Resolved
<1>12. /\ view' \in [Process -> [Slot -> Gen \cup {NoView}]]
       /\ \A q \in Process : q # p => view'[q] = view[q]
       /\ \A i \in Slot : view'[p][i] = IF i \in need THEN Resolve(p, i) ELSE view[p][i]
  <2>1. PICK row \in [Slot -> Gen \cup {NoView}] :
          row = [i \in Slot |-> IF i \in need THEN Resolve(p, i) ELSE view[p][i]]
    <3> DEFINE r == [i \in Slot |-> IF i \in need THEN Resolve(p, i) ELSE view[p][i]]
    <3>1. \A i \in Slot : view[p][i] \in Gen \cup {NoView}
      BY <1>1 DEF TypeOK
    <3>2. r \in [Slot -> Gen \cup {NoView}]
      BY <3>1, <1>11
    <3> QED BY <3>2, Zenon
  <2>2. view' = [view EXCEPT ![p] = row]
    BY <2>1, <1>10
  <2> QED BY <2>1, <2>2, <1>1 DEF TypeOK
<1>13. /\ clean' \in [Process -> BOOLEAN]
       /\ clean'[p] = FALSE
       /\ \A q \in Process : q # p => clean'[q] = clean[q]
  BY <1>1, <1>10, Zenon DEF TypeOK
<1>14. Answered(m.call)
  <2>1. CASE \E i \in need : Resolve(p, i) = NoView
    BY <2>1, <1>1, <1>6, <1>10, AnswerIsAnswered
  <2>2. CASE ~\E i \in need : Resolve(p, i) = NoView
    BY <2>2, <1>1, <1>10 DEF Answered, TypeOK, PCs
  <2> QED BY <2>1, <2>2
<1>15. PICK f : Follows(f, {1})
  <2>1. 1 \in 1 .. Len(inbox)
    BY <1>2
  <2> QED BY <2>1, <1>1, <1>10, OneLeaves
<1>16. 1 \in 1 .. Len(inbox) /\ inbox[1] = m
  BY <1>2, <1>3
<1>17. /\ Sound(t) => /\ m.call \in lost \/ (Current(m) /\ m.slot = params[t])
                      /\ \A k \in 1 .. Len(inbox) : inbox[k].call = m.call => k = 1
       /\ \A k \in 1 .. Len(inbox) : k \notin {1} /\ Sound(inbox[k].call[1]) => inbox[k].call # m.call
  BY <1>1, <1>4, <1>16 DEF Messages
<1>18. Lost' /\ Messages' /\ Begun'
  BY <1>6, <1>10, <1>14, <1>15, <1>17, AnswerKeeps
<1>19. \A i \in need : Resolve(p, i) # NoView => memory[p][Resolve(p, i)][i] \in CellType
  BY <1>1, <1>11 DEF TypeOK
<1>20. TypeOK'
  <2>1. serving' = NoCall \/
        serving' \in [call : Call, op : Op, slots : SUBSET Slot, saw : SUBSET CellType]
    <3>1. CASE \E i \in need : Resolve(p, i) = NoView
      BY <3>1, <1>2, <1>10
    <3>2. CASE ~\E i \in need : Resolve(p, i) = NoView
      <4>1. need \in SUBSET Slot
        BY <3>2, <1>11
      <4>2. {memory[p][Resolve(p, i)][i] : i \in need} \in SUBSET CellType
        BY <3>2, <1>19
      <4> QED BY <3>2, <4>1, <4>2, <1>6, <1>10
    <3> QED BY <3>1, <3>2
  <2>2. inbox' \in Seq(Message) /\ pc' \in [Thread -> PCs]
    BY <1>14, <1>15 DEF Follows, Answered
  <2> QED BY <2>1, <2>2, <1>1, <1>10, <1>12, <1>13 DEF TypeOK, PoolTypeOK, PCs
<1>21. /\ \A u \in Thread : CallOf(u)' = CallOf(u) /\ Holding(u)' = Holding(u) /\ Sound(u)' = Sound(u)
       /\ \A n \in Message : Touched(n)' = Touched(n)
       /\ \A u \in Thread, i \in Slot : Mem(u, i)' = Mem(u, i)
  BY <1>10 DEF CallOf, Holding, Sound, Touched, Mem
<1>22. ASSUME Sound(t), \A i \in need : Resolve(p, i) # NoView
       PROVE  /\ \A i \in need : /\ Resolve(p, i) = gen[p] /\ i \in Slot
                                 /\ memory[p][Resolve(p, i)][i] = Mem(t, i)
              /\ need \subseteq Touched(m)
              /\ m.call \notin lost => /\ Current(m) /\ need = Holding(t)
                                       /\ \A i \in need : /\ Mem(t, i).in = CallOf(t)
                                                          /\ Mem(t, i).out \in lost \cup {NoCall}
  <2>1. \A i \in need : /\ Resolve(p, i) = gen[p] /\ i \in Slot
                        /\ memory[p][Resolve(p, i)][i] = Mem(t, i)
    BY <1>5, <1>11, <1>22 DEF Mem, Sound
  <2>2. v = gen[p] /\ v # NoView
    <3>1. m.slot \in need
      BY <1>9 DEF SlotsOf
    <3> QED BY <3>1, <1>1, <1>5, <1>7, <1>22 DEF Sound
  <2>3. c = Mem(t, m.slot)
    BY <2>2, <1>5, <1>8 DEF cell, Mem
  <2>4. need = {m.slot} \cup (IF m.op \in {"transfer", "empty"} THEN {c.buf} ELSE {})
    BY <2>2, <1>9 DEF SlotsOf
  <2>5. need \subseteq Touched(m)
    BY <2>3, <2>4, <1>4 DEF Touched
  <2>6. ASSUME m.call \notin lost
        PROVE  /\ Current(m) /\ need = Holding(t)
               /\ \A i \in need : Mem(t, i).in = CallOf(t) /\ Mem(t, i).out \in lost \cup {NoCall}
    <3>1. /\ Current(m) /\ m.slot = params[t] /\ pc[t] = "waiting" /\ m.op = op[t]
          /\ params[t] # NoSlot
      BY <2>6, <1>1, <1>4, <1>17, <1>22 DEF Current, Begun
    <3>2. Filled(t)
      BY <1>1
    <3>3. /\ op[t] = "transfer" <=> buffer[t] # NoSlot
          /\ op[t] \in {"transfer", "empty"} => Mem(t, params[t]).buf \in {buffer[t], NoSlot}
          /\ \A i \in Holding(t) : Mem(t, i).in = CallOf(t) /\ Mem(t, i).out \in lost \cup {NoCall}
      BY <3>1, <3>2, <1>22 DEF Filled
    <3>4. NoSlot \notin need
      <4>1. NoSlot \notin Slot
        BY PoolAssumption DEF Slot
      <4> QED BY <4>1, <2>1
    <3>5. op[t] \in {"transfer", "empty"} => c.buf = buffer[t] /\ buffer[t] # NoSlot
      BY <2>3, <2>4, <3>1, <3>3, <3>4
    <3>6. need = Holding(t)
      BY <2>4, <3>1, <3>3, <3>5 DEF Holding
    <3> QED BY <3>1, <3>3, <3>6
  <2> QED BY <2>1, <2>5, <2>6
<1>23. Served' /\ OwnParameters' /\ ServedFirst'
  <2>1. CASE \E i \in need : Resolve(p, i) = NoView
    BY <2>1, <1>2, <1>10 DEF Served, OwnParameters, ServedFirst
  <2>2. CASE ~\E i \in need : Resolve(p, i) = NoView
    <3>1. /\ serving'.call = m.call /\ serving'.op = m.op /\ serving'.slots = need
          /\ serving'.saw = {memory[p][Resolve(p, i)][i] : i \in need}
          /\ pc' = pc /\ serving'.call[1] = t
      BY <2>2, <1>4, <1>10
    <3>2. Served'
      <4> SUFFICES ASSUME Sound(t)
                   PROVE  /\ m.call \in lost \/ (/\ pc[t] = "waiting" /\ m.call = <<t, calls[t]>>
                                                 /\ m.op = op[t] /\ need = Holding(t)')
                          /\ \A i \in need : view'[p][i] = gen[p]
                          /\ \A k \in 1 .. Len(inbox') : inbox'[k].call # m.call
        BY <3>1, <1>5, <1>10 DEF Served, Sound, Current, CallOf
      <4>1. \A i \in need : view'[p][i] = gen[p]
        BY <2>2, <1>12, <1>22
      <4>2. \A k \in 1 .. Len(inbox') : inbox'[k].call # m.call
        BY <1>15, <1>17 DEF Follows
      <4> QED BY <4>1, <4>2, <2>2, <1>4, <1>21, <1>22 DEF Current, CallOf
    <3>3. OwnParameters'
      <4> SUFFICES ASSUME Sound(t), pc[t] = "waiting", CallOf(t) = m.call
                   PROVE  \A x \in serving'.saw : x.in = m.call /\ x.out \in lost \cup {NoCall}
        BY <3>1, <1>5, <1>10 DEF OwnParameters, Sound, CallOf
      <4>1. m.call \notin lost
        BY <1>1, <1>4 DEF Lost
      <4> QED BY <4>1, <2>2, <3>1, <1>22
    <3>4. ServedFirst'
      <4> SUFFICES ASSUME NEW u \in Thread, Sound(u), p = ProcOf[u], Holding(u) \cap need # {}
                   PROVE  (pc[u] = "waiting" /\ m.call = CallOf(u)) \/ Later(u, 1)'
        BY <3>1, <1>5, <1>10, <1>21 DEF ServedFirst
      <4>1. Sound(t)
        BY <1>5 DEF Sound
      <4>2. Holding(u) \cap Touched(m) # {}
        BY <4>1, <2>2, <1>22
      <4>3. Later(u, 1)
        BY <4>2, <1>1, <1>4, <1>5, <1>16 DEF Ordered
      <4>4. ASSUME m.call # CallOf(u) PROVE Later(u, 1)'
        <5>1. \A x \in {1} : x \in 1 .. Len(inbox) => inbox[x].call # CallOf(u)
          BY <4>4, <1>16
        <5>2. pc'[u] = pc[u] /\ calls'[u] = calls[u]
          BY <3>1, <1>10
        <5> HIDE DEF Later, Follows
        <5> QED BY <4>3, <5>1, <5>2, <1>1, <1>15, StillLater
      <4>5. ASSUME pc[u] # "waiting" PROVE Later(u, 1)'
        BY <4>3, <4>5, <3>1 DEF Later
      <4> QED BY <4>4, <4>5
    <3> QED BY <3>2, <3>3, <3>4
  <2> QED BY <2>1, <2>2
<1>24. Views'
  <2> SUFFICES ASSUME NEW q \in Process
               PROVE  /\ clean'[q] => \A i \in Slot : view'[q][i] = NoView
                      /\ ~stranded[q] => \A i \in Slot : view'[q][i] # NoView =>
                                           view'[q][i] = gen[q] /\ length[q][i] # 0
    BY <1>10 DEF Views
  <2>1. CASE q = p
    BY <2>1, <1>1, <1>11, <1>12, <1>13 DEF Views
  <2>2. CASE q # p
    BY <2>2, <1>1, <1>12, <1>13 DEF Views
  <2> QED BY <2>1, <2>2
<1>25. Ordered'
  <2> SUFFICES ASSUME NEW k \in 1 .. Len(inbox'), NEW n \in Message, n = inbox'[k],
                      NEW u \in Thread, Sound(u), ProcOf[n.call[1]] = ProcOf[u],
                      Holding(u) \cap Touched(n) # {}
               PROVE  Later(u, k)'
    BY <1>21 DEF Ordered
  <2>1. f[k] \in 1 .. Len(inbox) /\ n = inbox[f[k]] /\ f[k] # 1
    BY <1>15 DEF Follows
  <2>2. Later(u, f[k])
    BY <2>1, <1>1 DEF Ordered
  <2>3. CASE pc'[u] # pc[u]
    <3>1. pc'[u] = "unresolved"
      <4>1. CASE \E i \in need : Resolve(p, i) = NoView
        <5>1. Answer(m.call, "unresolved")
          BY <4>1, <1>10
        <5> QED BY <5>1, <2>3, <1>1, <1>4 DEF Answer, TypeOK
      <4>2. CASE ~\E i \in need : Resolve(p, i) = NoView
        BY <4>2, <2>3, <1>10
      <4> QED BY <4>1, <4>2
    <3> QED BY <3>1 DEF Later
  <2>4. CASE pc'[u] = pc[u] /\ CallOf(u) # m.call
    <3>1. \A x \in {1} : x \in 1 .. Len(inbox) => inbox[x].call # CallOf(u)
      BY <2>4, <1>16
    <3>2. pc'[u] = pc[u] /\ calls'[u] = calls[u]
      BY <2>4, <1>10
    <3> HIDE DEF Later, Follows
    <3> QED BY <2>2, <3>1, <3>2, <1>1, <1>15, StillLater
  <2>5. CASE pc'[u] = pc[u] /\ CallOf(u) = m.call
    <3>1. u = t
      BY <2>5, <1>4 DEF CallOf
    <3>2. pc[u] # "waiting"
      <4> SUFFICES ASSUME pc[u] = "waiting" PROVE FALSE
        OBVIOUS
      <4>1. PICK l \in 1 .. Len(inbox) : l >= f[k] /\ inbox[l].call = m.call
        BY <2>2, <2>5 DEF Later
      <4>2. l = 1
        BY <3>1, <4>1, <1>17
      <4> QED BY <4>1, <4>2, <2>1, <1>2
    <3> QED BY <2>2, <2>5, <3>2 DEF Later
  <2> QED BY <2>3, <2>4, <2>5
<1>26. ASSUME NEW u \in Thread PROVE Filled(u)'
  <2>1. Filled(u) /\ Holding(u)' = Holding(u) /\ CallOf(u)' = CallOf(u) /\ Sound(u)' = Sound(u)
    BY <1>1, <1>21
  <2>2. \A i : Mem(u, i)' = Mem(u, i)
    BY <1>10 DEF Mem
  <2>3. pc'[u] # pc[u] => pc'[u] = "unresolved"
    <3>1. CASE \E i \in need : Resolve(p, i) = NoView
      <4>1. Answer(m.call, "unresolved")
        BY <3>1, <1>10
      <4> QED BY <4>1, <1>1, <1>4 DEF Answer, TypeOK
    <3>2. CASE ~\E i \in need : Resolve(p, i) = NoView
      BY <3>2, <1>10
    <3> QED BY <3>1, <3>2
  <2> QED BY <2>1, <2>2, <2>3, <1>10 DEF Filled
<1> QED BY <1>18, <1>20, <1>23, <1>24, <1>25, <1>26 DEF AllFilled, Rest

\* The server ends what it handles.
LEMMA CompleteKeeps ==
  ASSUME IInv, Complete
  PROVE  Rest'
<1>1. /\ TypeOK /\ PoolTypeOK /\ PoolIInv /\ Lost /\ Messages /\ Served /\ Views /\ Ordered
      /\ ServedFirst /\ Begun /\ \A u \in Thread : Filled(u)
  BY DEF IInv, Rest, PoolIInv, AllFilled
<1>2. /\ serving # NoCall
      /\ serving \in [call : Call, op : Op, slots : SUBSET Slot, saw : SUBSET CellType]
      /\ serving.call \in Call /\ serving.call[1] \in Thread
  <2>1. serving # NoCall
    BY DEF Complete
  <2> QED BY <2>1, <1>1, Handled
<1>3. PICK t \in Thread, c \in Call, S \in SUBSET Slot, o \in Op :
        t = c[1] /\ c = serving.call /\ S = serving.slots /\ o = serving.op
  BY <1>2
<1>4. PICK p \in Process : p = ProcOf[t]
  BY PoolAssumption
<1>5. /\ serving' = NoCall
      /\ IF o = "cleanup" THEN Unmap(p) ELSE WriteResults(p)
      /\ Answer(c, "answered")
      /\ UNCHANGED <<cache, used, length, params, buffer, calls, op, inbox, server, gen, lost, stranded>>
  BY <1>3, <1>4 DEF Complete, poolVars
<1>6. Answered(c)
  BY <1>1, <1>5, AnswerIsAnswered
<1>7. /\ \A u \in Thread : pc'[u] # pc[u] => /\ u = t /\ pc[u] = "waiting" /\ CallOf(u) = c
                                             /\ pc'[u] = "answered"
      /\ pc[t] = "waiting" /\ CallOf(t) = c => pc'[t] = "answered"
  <2>1. pc' = [pc EXCEPT ![t] = IF @ = "waiting" /\ CallOf(t) = c THEN "answered" ELSE @]
    BY <1>3, <1>5 DEF Answer
  <2> HIDE DEF CallOf
  <2> QED BY <2>1, <1>1 DEF TypeOK
<1>8. /\ view' \in [Process -> [Slot -> Gen \cup {NoView}]]
      /\ clean' \in [Process -> BOOLEAN]
      /\ \A q \in Process : q # p => view'[q] = view[q] /\ clean'[q] = clean[q]
      /\ \/ view'[p] = view[p] /\ clean'[p] = clean[p]
         \/ \A i \in Slot : view'[p][i] = NoView
  <2>1. CASE view' = view /\ clean' = clean
    BY <2>1, <1>1 DEF TypeOK
  <2>2. CASE /\ view' = [view EXCEPT ![p] = [i \in Slot |-> NoView]]
             /\ clean' = [clean EXCEPT ![p] = TRUE]
    <3>1. clean' \in [Process -> BOOLEAN] /\ \A q \in Process : q # p => clean'[q] = clean[q]
      BY <2>2, <1>1, Zenon DEF TypeOK
    <3> QED BY <2>2, <3>1, <1>1 DEF TypeOK
  <2> QED BY <2>1, <2>2, <1>5 DEF Unmap, WriteResults
<1>9. \A g \in Gen, i \in Slot : memory[p][g][i] \in CellType
  BY <1>1 DEF TypeOK
<1>10. \A x \in CellType, hit \in BOOLEAN :
         /\ Written(x, c, hit) \in CellType /\ Written(x, c, hit).in = x.in
         /\ Written(x, c, hit).out = c /\ Written(x, c, hit).buf \in {x.buf, NoSlot}
  BY <1>3 DEF CellType, Written
<1>11. /\ memory' \in [Process -> [Gen -> [Slot -> CellType]]]
       /\ \A q \in Process : q # p => memory'[q] = memory[q]
       /\ \A g \in Gen, i \in Slot :
            /\ memory'[p][g][i].in = memory[p][g][i].in
            /\ memory'[p][g][i].buf \in {memory[p][g][i].buf, NoSlot}
            /\ memory'[p][g][i] # memory[p][g][i] => i \in S /\ view[p][i] = g /\ memory'[p][g][i].out = c
            /\ o # "cleanup" /\ i \in S /\ view[p][i] = g => memory'[p][g][i].out = c
  <2>1. CASE o = "cleanup"
    <3>1. memory' = memory
      BY <2>1, <1>5 DEF Unmap
    <3> QED BY <2>1, <3>1, <1>1 DEF TypeOK
  <2>2. CASE o # "cleanup"
    <3>1. PICK hit \in BOOLEAN :
            memory' = [memory EXCEPT ![p] = [g \in Gen |-> [i \in Slot |->
                         IF i \in S /\ view[p][i] = g THEN Written(memory[p][g][i], c, hit)
                         ELSE memory[p][g][i]]]]
      BY <2>2, <1>3, <1>5 DEF WriteResults
    <3> DEFINE cell(g, i) == IF i \in S /\ view[p][i] = g THEN Written(memory[p][g][i], c, hit)
                             ELSE memory[p][g][i]
               rows == [g \in Gen |-> [i \in Slot |-> cell(g, i)]]
    <3>2. \A g \in Gen, i \in Slot :
            /\ cell(g, i) \in CellType /\ cell(g, i).in = memory[p][g][i].in
            /\ cell(g, i).buf \in {memory[p][g][i].buf, NoSlot}
            /\ cell(g, i) # memory[p][g][i] => i \in S /\ view[p][i] = g /\ cell(g, i).out = c
            /\ i \in S /\ view[p][i] = g => cell(g, i).out = c
      BY <1>9, <1>10
    <3>3. memory' = [memory EXCEPT ![p] = rows]
      BY <3>1
    <3> HIDE DEF cell
    <3>4. rows \in [Gen -> [Slot -> CellType]] /\ \A g \in Gen, i \in Slot : rows[g][i] = cell(g, i)
      BY <3>2
    <3> HIDE DEF rows
    <3>5. /\ memory' \in [Process -> [Gen -> [Slot -> CellType]]] /\ memory'[p] = rows
          /\ \A q \in Process : q # p => memory'[q] = memory[q]
      BY <3>3, <3>4, <1>1 DEF TypeOK
    <3> QED BY <3>2, <3>4, <3>5
  <2> QED BY <2>1, <2>2
<1>12. TypeOK'
  <2>1. pc' \in [Thread -> PCs]
    BY <1>6 DEF Answered
  <2> QED BY <2>1, <1>1, <1>5, <1>8, <1>11 DEF TypeOK, PoolTypeOK, PCs
<1>13. /\ Sound(t) => /\ c \in lost \/ (Current(serving) /\ S = Holding(t))
                      /\ \A i \in S : view[p][i] = gen[p]
                      /\ \A k \in 1 .. Len(inbox) : inbox[k].call # c
       /\ \A k \in 1 .. Len(inbox) : Sound(inbox[k].call[1]) => inbox[k].call # c
  <2>1. Sound(t) => /\ c \in lost \/ (Current(serving) /\ S = Holding(t))
                    /\ \A i \in S : view[p][i] = gen[p]
                    /\ \A k \in 1 .. Len(inbox) : inbox[k].call # c
    BY <1>1, <1>2, <1>3, <1>4 DEF Served
  <2> QED BY <2>1, <1>3
<1>14. Lost' /\ Messages' /\ Begun'
  <2>1. PICK f : Follows(f, {})
    BY <1>1, <1>5, NoneLeaves
  <2> QED BY <2>1, <1>5, <1>6, <1>13, AnswerKeeps
<1>15. Served' /\ ServedFirst' /\ OwnParameters'
  BY <1>5 DEF Served, ServedFirst, OwnParameters
<1>16. Views'
  <2> SUFFICES ASSUME NEW q \in Process
               PROVE  /\ clean'[q] => \A i \in Slot : view'[q][i] = NoView
                      /\ ~stranded[q] => \A i \in Slot : view'[q][i] # NoView =>
                                           view'[q][i] = gen[q] /\ length[q][i] # 0
    BY <1>5 DEF Views
  <2>1. CASE view'[q] = view[q] /\ clean'[q] = clean[q]
    BY <2>1, <1>1 DEF Views
  <2>2. CASE \A i \in Slot : view'[q][i] = NoView
    BY <2>2
  <2> QED BY <2>1, <2>2, <1>8
<1>17. /\ \A u \in Thread : /\ CallOf(u)' = CallOf(u) /\ Holding(u)' = Holding(u)
                            /\ Sound(u)' = Sound(u) /\ gen[ProcOf[u]] \in Gen /\ ProcOf[u] \in Process
       /\ \A k \in 1 .. Len(inbox) : inbox[k] \in Message
  BY <1>1, <1>5, Messaged, PoolAssumption DEF CallOf, Holding, Sound, TypeOK
<1>18. ASSUME NEW u \in Thread, NEW i \in Slot
       PROVE  /\ Mem(u, i)'.in = Mem(u, i).in
              /\ Mem(u, i)'.buf \in {Mem(u, i).buf, NoSlot}
              /\ Mem(u, i)' # Mem(u, i) => ProcOf[u] = p /\ i \in S /\ Mem(u, i)'.out = c
  <2>1. gen[ProcOf[u]] \in Gen /\ ProcOf[u] \in Process
    BY <1>17
  <2>2. Mem(u, i) = memory[ProcOf[u]][gen[ProcOf[u]]][i] /\ Mem(u, i)' = memory'[ProcOf[u]][gen[ProcOf[u]]][i]
    BY <1>5 DEF Mem
  <2>3. CASE ProcOf[u] = p
    BY <2>1, <2>2, <2>3, <1>11
  <2>4. CASE ProcOf[u] # p
    BY <2>1, <2>2, <2>4, <1>11
  <2> QED BY <2>3, <2>4
<1>19. ASSUME NEW n \in Message PROVE Touched(n)' \subseteq Touched(n) \cup {NoSlot}
  <2>1. n.call[1] \in Thread /\ n.slot \in Slot
    BY DEF Message, Call
  <2>2. Mem(n.call[1], n.slot)'.buf \in {Mem(n.call[1], n.slot).buf, NoSlot}
    BY <2>1, <1>18
  <2>3. PICK a, b : a = Mem(n.call[1], n.slot).buf /\ b = Mem(n.call[1], n.slot)'.buf
    OBVIOUS
  <2>4. /\ Touched(n) = {n.slot} \cup (IF n.op \in {"transfer", "empty"} THEN {a} ELSE {})
        /\ Touched(n)' = {n.slot} \cup (IF n.op \in {"transfer", "empty"} THEN {b} ELSE {})
    BY <2>3 DEF Touched
  <2> QED BY <2>2, <2>3, <2>4
<1>20. Ordered'
  <2> SUFFICES ASSUME NEW k \in 1 .. Len(inbox), NEW n \in Message, n = inbox[k],
                      NEW u \in Thread, Sound(u), ProcOf[n.call[1]] = ProcOf[u],
                      Holding(u) \cap Touched(n)' # {}
               PROVE  Later(u, k)'
    BY <1>5, <1>17 DEF Ordered
  <2>1. NoSlot \notin Holding(u)
    BY DEF Holding
  <2>2. Holding(u) \cap Touched(n) # {}
    BY <2>1, <1>19
  <2>3. Later(u, k)
    BY <2>2, <1>1 DEF Ordered
  <2>4. pc'[u] = pc[u]
    <3> SUFFICES ASSUME pc'[u] # pc[u] PROVE FALSE
      OBVIOUS
    <3>1. u = t /\ pc[u] = "waiting" /\ CallOf(u) = c
      BY <1>7
    <3>2. PICK j \in 1 .. Len(inbox) : inbox[j].call = c
      BY <2>3, <3>1 DEF Later
    <3> QED BY <3>1, <3>2, <1>13
  <2> QED BY <2>3, <2>4, <1>5, <1>17 DEF Later
<1>21. ASSUME NEW u \in Thread PROVE Filled(u)'
  <2> SUFFICES ASSUME Sound(u) PROVE Filled(u)'
    BY <1>17 DEF Filled
  <2>1. Filled(u)
    BY <1>1
  <2>2. \A i \in Holding(u) : i \in Slot
    BY <1>1, HeldSections
  <2>5. PICK a \in Slot \cup {NoSlot} : a = params[u] /\ a = params'[u]
    BY <1>1, <1>5 DEF PoolTypeOK
  <2>6. \A i \in Holding(u) : /\ Mem(u, i)'.in = Mem(u, i).in
                              /\ Mem(u, i)'.buf \in {Mem(u, i).buf, NoSlot}
    BY <2>2, <1>18
  <2>7. pc[u] \in {"filling", "ready", "waiting", "answered"} =>
          /\ \A i \in Holding(u) : Mem(u, i)'.in = CallOf(u)
          /\ op[u] \in {"transfer", "empty"} => Mem(u, a)'.buf \in {buffer[u], NoSlot}
    <3>1. pc[u] \in {"filling", "ready", "waiting", "answered"} => a \in Holding(u)
      BY <2>5, <1>1 DEF Begun, Holding
    <3>2. pc[u] \in {"filling", "ready", "waiting", "answered"} =>
            /\ \A i \in Holding(u) : Mem(u, i).in = CallOf(u)
            /\ op[u] \in {"transfer", "empty"} => Mem(u, a).buf \in {buffer[u], NoSlot}
      BY <2>1, <2>5 DEF Filled
    <3> QED BY <2>6, <3>1, <3>2
  <2>8. pc[u] \in {"ready", "waiting", "answered"} => (op[u] = "transfer" <=> buffer[u] # NoSlot)
    BY <2>1 DEF Filled
  <2>9. pc[u] = "filling" => op[u] = "transfer" /\ buffer[u] = NoSlot
    BY <2>1 DEF Filled
  <2>3. CASE pc'[u] = pc[u]
    <3>1. \A i \in Holding(u) : Mem(u, i)' # Mem(u, i) =>
            pc[u] # "answered" /\ Mem(u, i)'.out \in lost
      <4> SUFFICES ASSUME NEW i \in Holding(u), Mem(u, i)' # Mem(u, i)
                   PROVE  pc[u] # "answered" /\ c \in lost
        BY <2>2, <1>18
      <4>1. ProcOf[u] = p /\ i \in S /\ Sound(t)
        BY <2>2, <1>4, <1>18 DEF Sound
      <4>2. (pc[u] = "waiting" /\ c = CallOf(u)) \/ Later(u, 1)
        <5>1. Holding(u) \cap S # {}
          BY <4>1
        <5> QED BY <4>1, <5>1, <1>1, <1>2, <1>3, <1>4 DEF ServedFirst
      <4>3. pc[u] # "answered"
        BY <4>2 DEF Later
      <4>4. ASSUME c \notin lost PROVE FALSE
        <5>1. Current(serving) /\ S = Holding(t)
          BY <4>1, <4>4, <1>13
        <5>2. u = t
          BY <4>1, <5>1, <1>1, <1>4, HeldSections
        <5>3. pc[t] = "waiting" /\ CallOf(t) = c
          BY <5>1, <1>3 DEF Current
        <5> QED BY <5>2, <5>3, <2>3, <1>7
      <4> QED BY <4>3, <4>4
    <3>3. pc[u] \in {"filling", "ready", "waiting"} =>
            \A i \in Holding(u) : Mem(u, i)'.out \in lost \cup {NoCall}
      BY <2>1, <3>1 DEF Filled
    <3>4. pc[u] = "answered" /\ op[u] # "cleanup" =>
            \A i \in Holding(u) : Mem(u, i)'.out = CallOf(u)
      BY <2>1, <3>1 DEF Filled
    <3> QED BY <2>5, <2>7, <2>8, <2>9, <2>3, <3>3, <3>4, <1>5, <1>17 DEF Filled
  <2>4. CASE pc'[u] # pc[u]
    <3>1. u = t /\ pc[u] = "waiting" /\ CallOf(u) = c /\ pc'[u] = "answered"
      BY <2>4, <1>7
    <3>2. c \notin lost
      BY <3>1, <1>1, <1>3 DEF Lost
    <3>3. op[u] = o /\ S = Holding(u) /\ ProcOf[u] = p /\ \A i \in S : view[p][i] = gen[p]
      BY <3>1, <3>2, <1>3, <1>4, <1>13 DEF Current
    <3>4. o # "cleanup" => \A i \in Holding(u) : Mem(u, i)'.out = c
      <4> SUFFICES ASSUME o # "cleanup", NEW i \in S PROVE Mem(u, i)'.out = c
        BY <3>3
      <4>1. Mem(u, i)' = memory'[p][gen[p]][i] /\ gen[p] \in Gen
        BY <3>3, <1>5, <1>17 DEF Mem
      <4>2. i \in Slot /\ view[p][i] = gen[p]
        BY <3>3
      <4>3. memory'[p][gen[p]][i].out = c
        BY <4>1, <4>2, <1>11
      <4> QED BY <4>1, <4>3
    <3> QED BY <2>5, <2>7, <2>8, <3>1, <3>3, <3>4, <1>5, <1>17 DEF Filled
  <2> QED BY <2>3, <2>4
<1> QED BY <1>12, <1>14, <1>15, <1>16, <1>20, <1>21 DEF AllFilled, Rest

LEMMA InitIInv == Init => IInv
<1> SUFFICES ASSUME Init PROVE IInv
  OBVIOUS
<1>1. PoolIInv
  BY PoolInitIInv DEF Init
<1>2. TypeOK
  <2>1. 0 \in Gen /\ Blank \in CellType
    BY TransportAssumption DEF Gen, Blank, Cell, CellType
  <2>2. memory \in [Process -> [Gen -> [Slot -> CellType]]]
    BY <2>1 DEF Init
  <2>3. /\ calls \in [Thread -> 0 .. MaxCalls]
        /\ op \in [Thread -> Op]
        /\ pc \in [Thread -> PCs]
        /\ inbox \in Seq(Message)
        /\ lost \subseteq Call
    BY TransportAssumption DEF Init, Op, PCs
  <2>4. /\ view \in [Process -> [Slot -> Gen \cup {NoView}]]
        /\ gen \in [Process -> Gen]
    BY <2>1 DEF Init
  <2>5. clean \in [Process -> BOOLEAN] /\ stranded \in [Process -> BOOLEAN]
    BY DEF Init
  <2> QED BY <1>1, <2>2, <2>3, <2>4, <2>5 DEF TypeOK, PoolIInv, Init, PCs
<1>3. Lost /\ Messages /\ Served /\ Ordered /\ ServedFirst /\ OwnParameters
  BY DEF Init, Lost, Messages, Served, Ordered, ServedFirst, OwnParameters
<1>4. Views
  BY DEF Init, Views
<1>5. AllFilled /\ Begun
  BY DEF Init, AllFilled, Filled, Begun
<1> QED BY <1>1, <1>2, <1>3, <1>4, <1>5 DEF IInv, Rest

LEMMA NextIInv == IInv /\ [Next]_vars => IInv'
<1> SUFFICES ASSUME IInv, [Next]_vars PROVE IInv'
  OBVIOUS
<1>1. PoolIInv'
  BY PoolPart DEF IInv
<1> SUFFICES Rest'
  BY <1>1 DEF IInv
<1>2. ASSUME NEW t \in Thread, BeginCall(t) PROVE Rest'
  BY <1>1, <1>2, BeginKeeps
<1>3. ASSUME NEW t \in Thread, FillBuffer(t) PROVE Rest'
  BY <1>1, <1>3, FillKeeps
<1>4. ASSUME NEW t \in Thread, Send(t) PROVE Rest'
  BY <1>1, <1>4, SendKeeps
<1>5. ASSUME NEW t \in Thread, Abandon(t) \/ SendFails(t) PROVE Rest'
  BY <1>1, <1>5, AbandonKeeps, SendFailsKeeps
<1>6. ASSUME NEW t \in Thread, Collect(t) \/ Return(t) PROVE Rest'
  BY <1>1, <1>6, ReturnsKeep
<1>7. CASE Take
  BY <1>7, TakeKeeps
<1>8. CASE Complete
  BY <1>8, CompleteKeeps
<1>9. CASE Hang
  <2>1. /\ server' \in {"up", "hung", "gone"}
        /\ UNCHANGED <<cache, used, length, params, buffer, calls, op, pc, inbox, serving,
                       view, gen, memory, lost, clean, stranded>>
    BY <1>9 DEF Hang, poolVars, history
  <2> QED BY <2>1, SameRest
<1>10. CASE ServerEnds
  BY <1>10, ServerEndsKeeps
<1>11. ASSUME NEW p \in Process, Restart(p) PROVE Rest'
  BY <1>1, <1>11, RestartKeeps
<1>12. CASE UNCHANGED vars
  <2>1. server' \in {"up", "hung", "gone"}
    BY <1>12 DEF vars, IInv, Rest, TypeOK
  <2>2. UNCHANGED <<cache, used, length, params, buffer, calls, op, pc, inbox, serving,
                    view, gen, memory, lost, clean, stranded>>
    BY <1>12 DEF vars
  <2> QED BY <2>1, <2>2, SameRest
<1> QED BY <1>2, <1>3, <1>4, <1>5, <1>6, <1>7, <1>8, <1>9, <1>10, <1>11, <1>12 DEF Next

\* The request of a call that still waits is carried out on its own parameters and
\* data, whatever other calls were given up, and whatever other processes do
\* (get_value in ws2_32-rpc-server.cpp).
THEOREM TransportOwnParameters == Spec => []OwnParameters
<1>1. IInv => OwnParameters
  BY DEF IInv, Rest
<1> QED BY InitIInv, NextIInv, <1>1, PTL DEF Spec

\* What an answered call reads are the results of its own request, though a call that
\* was given up may have left its message and its section behind.
THEOREM TransportOwnAnswer == Spec => []OwnAnswer
<1>1. IInv => OwnAnswer
  <2> SUFFICES ASSUME IInv, NEW t \in Thread, pc[t] = "answered", ~stranded[ProcOf[t]],
                      NEW i \in Holding(t)
               PROVE  Mem(t, i).in = CallOf(t) /\ (op[t] # "cleanup" => Mem(t, i).out = CallOf(t))
    BY DEF OwnAnswer, Mem
  <2>1. Filled(t)
    BY DEF IInv, Rest, AllFilled
  <2> QED BY <2>1 DEF Filled, Sound
<1> QED BY InitIInv, NextIInv, <1>1, PTL DEF Spec

\* No two calls of a process hold one section, however calls of all processes,
\* their ends and the server's work are interleaved.
THEOREM TransportExclusiveSlots == Spec => []ExclusiveSlots
<1>1. IInv => ExclusiveSlots
  BY DEF IInv, PoolIInv
<1> QED BY InitIInv, NextIInv, <1>1, PTL DEF Spec
=============================================================================
