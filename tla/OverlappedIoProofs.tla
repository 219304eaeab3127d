--------------------------- MODULE OverlappedIoProofs ---------------------------
(***************************************************************************)
(* Proofs about overlapped operations, for any sockets, OVERLAPPEDs,       *)
(* programs and bounds.                                                    *)
(*                                                                         *)
(* ReadsInOrder and ToldMeansDone are about programs that are careful, and *)
(* neither is inductive.  The code finds an operation by the address of    *)
(* its OVERLAPPED, so what it stores, removes and announces is right only  *)
(* because an OVERLAPPED in use has one entry in all queues, that of the   *)
(* operation the program has in mind (Tied, Home), in the queue it was put *)
(* into (Placed) and in the order of the calls (Sorted).  The worker acts  *)
(* on copies it took three steps before: they are still the first that     *)
(* wait, since a careful program removes only what is done (Jobs).  What   *)
(* the program was told agrees with the entry (Settled), and a signal or   *)
(* an APC is there only for an entry with a result (Announced).            *)
(*                                                                         *)
(* Data then says of each socket that the data came to the operations in   *)
(* their order, that each went to one of them or is in the worker's hands  *)
(* (Holding), and that all that came is in front of what waits.            *)
(***************************************************************************)
EXTENDS OverlappedIo, FiniteSetTheorems, WellFoundedInduction, TLAPS

-----------------------------------------------------------------------------
(* Types, and what the invariant says of the queues alone.                 *)

Outcomes   == {Pending, Failed} \cup {Ok(n) : n \in Nat}
EntryType  == [overlapped : Overlapped, target : {"event", "callback"}, op : Nat, result : Outcomes]
OpType     == [socket : Socket, kind : Kind, overlapped : Overlapped]
QueuesType == [Socket -> [Kind -> Seq(EntryType)]]
JobsType   == UNION {[kinds -> EntryType] : kinds \in SUBSET Kind}

OverlappedTypeOK ==
  /\ program \in Programs
  /\ net \in [Socket -> [open : BOOLEAN, took : Nat, came : Nat, room : BOOLEAN]]
  /\ ctx \in QueuesType
  /\ where \in [Overlapped -> Socket \cup {NoSocket}]
  /\ signaled \subseteq Overlapped
  /\ apcs \in [Overlapped -> Nat]
  /\ user \in [Overlapped -> [at : {"idle", "issued", "waiting", "taken", "called", "reissued"}, op : Nat]]
  /\ worker \in [at : {"rest", "each", "select", "call", "store", "dispatch"}, left : SUBSET Socket,
                 socket : Socket \cup {NoSocket}, jobs : JobsType, result : Outcomes, stopping : BOOLEAN]
  /\ worker.at \in {"select", "call", "store", "dispatch"} => worker.socket \in Socket /\ DOMAIN worker.jobs # {}
  /\ ops \in Seq(OpType)
  /\ got \in [1 .. MaxOps -> Outcomes \cup {Told("invalid"), Told("aborted")}]

\* The entries of queues, whose places tell which operations they are.
In(c) == UNION {UNION {Range(c[s][kind]) : kind \in Kind} : s \in Socket}

Placed(c, p) ==
  \A s \in Socket, kind \in Kind : \A i \in DOMAIN c[s][kind] :
    /\ c[s][kind][i].op \in DOMAIN p
    /\ p[c[s][kind][i].op] = [socket |-> s, kind |-> kind, overlapped |-> c[s][kind][i].overlapped]

Sorted(c) ==
  \A s \in Socket, kind \in Kind : \A i, j \in DOMAIN c[s][kind] :
    i < j => c[s][kind][i].op < c[s][kind][j].op

\* Is e the only entry of its OVERLAPPED?
Alone(c, e) == e \in In(c) /\ \A f \in In(c) : f.overlapped = e.overlapped => f = e

\* Kept and Came, of the entries Q and what the program was told, g.
KeptIn(Q, k) ==
  LET found == {e \in Q : e.op = k}
  IN IF found = {} THEN Pending ELSE (CHOOSE e \in found : TRUE).result

CameIn(Q, g, k) == IF g[k] # Pending THEN g[k] ELSE KeptIn(Q, k)

-----------------------------------------------------------------------------

\* A set of numbers that is not empty has a least one, which Min gives.
LEMMA MinOfNats ==
  ASSUME NEW I, I \subseteq Nat, I # {}
  PROVE  Min(I) \in I /\ \A i \in I : Min(I) <= i
<1>1. \E x \in I : \A y \in I : ~(<<y, x>> \in OpToRel(<, Nat))
  BY NatLessThanWellFounded, WFMin
<1>3. OpToRel(<, Nat) = {ss \in Nat \X Nat : ss[1] < ss[2]}
  BY Zenon DEF OpToRel
<1>2. \E x \in I : \A y \in I : x <= y
  <2>1. PICK x \in I : \A y \in I : ~(<<y, x>> \in {ss \in Nat \X Nat : ss[1] < ss[2]})
    BY <1>1, <1>3
  <2>2. \A y \in I : ~(y < x)
    BY <2>1
  <2> QED BY <2>2
<1> QED BY <1>2 DEF Min

\* The operation found by an OVERLAPPED is one of it; nothing is found if there is none.
LEMMA FirstOf ==
  ASSUME NEW S, NEW q \in Seq(S), NEW o
  PROVE  /\ OfOverlapped(q, o) = 0 => \A i \in DOMAIN q : q[i].overlapped # o
         /\ OfOverlapped(q, o) # 0 => OfOverlapped(q, o) \in DOMAIN q /\ q[OfOverlapped(q, o)].overlapped = o
<1> DEFINE I == {i \in 1 .. Len(q) : q[i].overlapped = o}
<1>1. OfOverlapped(q, o) = IF I # {} THEN Min(I) ELSE 0
  BY DEF OfOverlapped, SelectInSeq
<1>2. I \subseteq Nat /\ DOMAIN q = 1 .. Len(q) /\ 0 \notin I
  OBVIOUS
<1>3. I # {} => Min(I) \in I
  BY <1>2, MinOfNats
<1> QED BY <1>1, <1>2, <1>3

\* The first that waits does, and nothing in front of it does.
LEMMA FirstWaits ==
  ASSUME NEW S, NEW q \in Seq(S)
  PROVE  /\ FirstPending(q) = 0 => \A i \in DOMAIN q : q[i].result # Pending
         /\ FirstPending(q) # 0 => /\ FirstPending(q) \in DOMAIN q /\ q[FirstPending(q)].result = Pending
                                   /\ \A j \in DOMAIN q : j < FirstPending(q) => q[j].result # Pending
<1> DEFINE I == {i \in 1 .. Len(q) : q[i].result = Pending}
<1>1. FirstPending(q) = IF I # {} THEN Min(I) ELSE 0
  BY DEF FirstPending, SelectInSeq
<1>2. I \subseteq Nat /\ DOMAIN q = 1 .. Len(q) /\ 0 \notin I
  OBVIOUS
<1>3. ASSUME I # {} PROVE Min(I) \in I /\ \A i \in I : Min(I) <= i
  BY <1>2, <1>3, MinOfNats
<1>4. CASE I = {}
  BY <1>1, <1>2, <1>4
<1>5. CASE I # {}
  <2>1. FirstPending(q) = Min(I) /\ Min(I) # 0
    BY <1>1, <1>2, <1>3, <1>5
  <2>2. Min(I) \in DOMAIN q /\ q[Min(I)].result = Pending
    BY <1>2, <1>3, <1>5
  <2>3. ASSUME NEW j \in DOMAIN q, j < Min(I) PROVE q[j].result # Pending
    <3>1. j \in Nat /\ Min(I) \in Nat
      BY <1>2, <2>2
    <3> QED BY <1>2, <1>3, <1>5, <2>3, <3>1
  <2> QED BY <2>1, <2>2, <2>3
<1> QED BY <1>4, <1>5

\* The place in a queue of what is at place i once the operation at r is out.
Before(r, i) == IF i < r THEN i ELSE i + 1

\* What is left of a queue is what was there, in the same order.
LEMMA RemovedAt ==
  ASSUME NEW S, NEW q \in Seq(S), NEW r \in DOMAIN q
  PROVE  /\ RemoveAt(q, r) \in Seq(S)
         /\ \A i \in DOMAIN RemoveAt(q, r) :
              /\ i \in Nat /\ Before(r, i) \in DOMAIN q /\ Before(r, i) # r
              /\ RemoveAt(q, r)[i] = q[Before(r, i)]
         /\ \A i, j \in DOMAIN RemoveAt(q, r) : i < j => Before(r, i) < Before(r, j)
         /\ \A i \in DOMAIN q : i # r => \E j \in DOMAIN RemoveAt(q, r) : Before(r, j) = i
<1> DEFINE a == SubSeq(q, 1, r - 1)
           b == SubSeq(q, r + 1, Len(q))
<1>1. a \in Seq(S) /\ Len(a) = r - 1 /\ \A i \in 1 .. r - 1 : a[i] = q[i]
  OBVIOUS
<1>2. b \in Seq(S) /\ Len(b) = Len(q) - r /\ \A i \in 1 .. Len(q) - r : b[i] = q[r + i]
  OBVIOUS
<1>3. RemoveAt(q, r) = a \o b
  BY DEF RemoveAt
<1> HIDE DEF a, b
<1>4. /\ RemoveAt(q, r) \in Seq(S)
      /\ DOMAIN RemoveAt(q, r) = 1 .. Len(q) - 1
      /\ \A i \in DOMAIN RemoveAt(q, r) : RemoveAt(q, r)[i] = q[IF i < r THEN i ELSE i + 1]
  BY <1>1, <1>2, <1>3
<1>5. DOMAIN q = 1 .. Len(q) /\ Len(q) \in Nat /\ r \in 1 .. Len(q)
  OBVIOUS
<1>6. \A i \in 1 .. Len(q) - 1 : i \in Nat /\ Before(r, i) \in DOMAIN q /\ Before(r, i) # r
  BY <1>5 DEF Before
<1>7. \A i, j \in 1 .. Len(q) - 1 : i < j => Before(r, i) < Before(r, j)
  BY <1>5 DEF Before
<1>8. ASSUME NEW i \in DOMAIN q, i # r PROVE \E j \in 1 .. Len(q) - 1 : Before(r, j) = i
  <2>1. CASE i < r
    BY <2>1, <1>5 DEF Before
  <2>2. CASE i > r
    <3>1. i - 1 \in 1 .. Len(q) - 1 /\ Before(r, i - 1) = i
      BY <2>2, <1>5 DEF Before
    <3> QED BY <3>1
  <2> QED BY <2>1, <2>2, <1>5, <1>8
<1>9. \A i \in DOMAIN RemoveAt(q, r) : RemoveAt(q, r)[i] = q[Before(r, i)]
  BY <1>4 DEF Before
<1> QED BY <1>4, <1>6, <1>7, <1>8, <1>9

\* The entries are what stands at the places of the queues.
LEMMA InIs ==
  ASSUME NEW c \in QueuesType
  PROVE  /\ \A s \in Socket, kind \in Kind : \A i \in DOMAIN c[s][kind] : c[s][kind][i] \in In(c)
         /\ \A e \in In(c) : \E s \in Socket, kind \in Kind : \E i \in DOMAIN c[s][kind] : e = c[s][kind][i]
<1>1. \A e : e \in In(c) <=> \E s \in Socket, kind \in Kind : e \in Range(c[s][kind])
  <2> DEFINE Of(s) == UNION {Range(c[s][kind]) : kind \in Kind}
  <2>1. \A s, e : e \in Of(s) <=> \E kind \in Kind : e \in Range(c[s][kind])
    OBVIOUS
  <2>2. In(c) = UNION {Of(s) : s \in Socket}
    BY DEF In
  <2> HIDE DEF Of
  <2>3. \A e : e \in In(c) <=> \E s \in Socket : e \in Of(s)
    BY <2>2
  <2> QED BY <2>1, <2>3
<1>2. \A s \in Socket, kind \in Kind : \A e : e \in Range(c[s][kind]) <=> \E i \in DOMAIN c[s][kind] : e = c[s][kind][i]
  BY DEF Range
<1>3. ASSUME NEW s \in Socket, NEW kind \in Kind, NEW i \in DOMAIN c[s][kind] PROVE c[s][kind][i] \in In(c)
  <2>1. c[s][kind][i] \in Range(c[s][kind])
    BY <1>2
  <2> QED BY <2>1, <1>1
<1>4. ASSUME NEW e \in In(c) PROVE \E s \in Socket, kind \in Kind : \E i \in DOMAIN c[s][kind] : e = c[s][kind][i]
  <2>1. PICK s \in Socket, kind \in Kind : e \in Range(c[s][kind])
    BY <1>1
  <2> QED BY <2>1, <1>2
<1> QED BY <1>3, <1>4

\* What stands in a queue is an entry.
LEMMA EntryIn ==
  ASSUME NEW c \in QueuesType, NEW s \in Socket, NEW kind \in Kind, NEW i \in DOMAIN c[s][kind]
  PROVE  c[s][kind][i] \in In(c)
BY InIs

\* Entries and queues have their types.
LEMMA EntriesTyped ==
  ASSUME NEW c \in QueuesType
  PROVE  /\ In(c) \subseteq EntryType
         /\ \A s \in Socket, kind \in Kind :
              /\ c[s][kind] \in Seq(EntryType) /\ DOMAIN c[s][kind] = 1 .. Len(c[s][kind])
              /\ \A i \in DOMAIN c[s][kind] : c[s][kind][i] \in EntryType
<1>1. \A s \in Socket, kind \in Kind :
        /\ c[s][kind] \in Seq(EntryType) /\ DOMAIN c[s][kind] = 1 .. Len(c[s][kind])
        /\ \A i \in DOMAIN c[s][kind] : c[s][kind][i] \in EntryType
  BY DEF QueuesType
<1> QED BY <1>1, InIs

\* An operation has one entry.
LEMMA OneEntry ==
  ASSUME NEW c \in QueuesType, NEW p, Placed(c, p), Sorted(c),
         NEW s \in Socket, NEW kind \in Kind, NEW i \in DOMAIN c[s][kind],
         NEW t \in Socket, NEW other \in Kind, NEW j \in DOMAIN c[t][other],
         c[s][kind][i].op = c[t][other][j].op
  PROVE  s = t /\ kind = other /\ i = j
<1>1. s = t /\ kind = other
  <2>1. /\ p[c[s][kind][i].op] = [socket |-> s, kind |-> kind, overlapped |-> c[s][kind][i].overlapped]
        /\ p[c[t][other][j].op] = [socket |-> t, kind |-> other, overlapped |-> c[t][other][j].overlapped]
    BY DEF Placed
  <2> QED BY <2>1
<1>2. i \in Nat /\ j \in Nat /\ c[s][kind][i].op \in Nat
  BY EntriesTyped DEF EntryType
<1>3. ~(i < j) /\ ~(j < i)
  BY <1>1, <1>2 DEF Sorted
<1> QED BY <1>1, <1>2, <1>3

\* Entries of one operation are the same.
LEMMA EntryOfOp ==
  ASSUME NEW c \in QueuesType, NEW p, Placed(c, p), Sorted(c),
         NEW e \in In(c), NEW f \in In(c), e.op = f.op
  PROVE  e = f
<1>1. PICK s \in Socket, kind \in Kind : \E i \in DOMAIN c[s][kind] : e = c[s][kind][i]
  BY InIs
<1>2. PICK i \in DOMAIN c[s][kind] : e = c[s][kind][i]
  BY <1>1
<1>3. PICK t \in Socket, other \in Kind : \E j \in DOMAIN c[t][other] : f = c[t][other][j]
  BY InIs
<1>4. PICK j \in DOMAIN c[t][other] : f = c[t][other][j]
  BY <1>3
<1>5. s = t /\ kind = other /\ i = j
  BY <1>2, <1>4, OneEntry
<1> QED BY <1>2, <1>4, <1>5

\* An entry is of an operation the program began, with its OVERLAPPED.
LEMMA WhereEntryIs ==
  ASSUME NEW c \in QueuesType, NEW p, Placed(c, p), NEW e \in In(c)
  PROVE  /\ e.op \in DOMAIN p /\ p[e.op].socket \in Socket /\ p[e.op].kind \in Kind
         /\ p[e.op].overlapped = e.overlapped
<1>1. PICK s \in Socket, kind \in Kind : \E i \in DOMAIN c[s][kind] : e = c[s][kind][i]
  BY InIs
<1>2. PICK i \in DOMAIN c[s][kind] : e = c[s][kind][i]
  BY <1>1
<1>3. e.op \in DOMAIN p /\ p[e.op] = [socket |-> s, kind |-> kind, overlapped |-> e.overlapped]
  BY <1>2 DEF Placed
<1> QED BY <1>2, <1>3

\* An entry is in the queue of its operation's socket and kind.
LEMMA EntryAt ==
  ASSUME NEW c \in QueuesType, NEW p, Placed(c, p), NEW e \in In(c)
  PROVE  \E i \in DOMAIN c[p[e.op].socket][p[e.op].kind] : e = c[p[e.op].socket][p[e.op].kind][i]
<1>1. PICK s \in Socket, kind \in Kind : \E i \in DOMAIN c[s][kind] : e = c[s][kind][i]
  BY InIs
<1>2. PICK i \in DOMAIN c[s][kind] : e = c[s][kind][i]
  BY <1>1
<1>3. p[e.op] = [socket |-> s, kind |-> kind, overlapped |-> e.overlapped]
  BY <1>2 DEF Placed
<1>4. p[e.op].socket = s /\ p[e.op].kind = kind
  BY <1>3
<1> QED BY <1>2, <1>4

\* A new operation goes to the end of a queue.
LEMMA AppendEntry ==
  ASSUME NEW c \in QueuesType, NEW d \in QueuesType, NEW p \in Seq(OpType), NEW r \in Seq(OpType),
         NEW s \in Socket, NEW kind \in Kind, NEW e \in EntryType,
         Placed(c, p), Sorted(c), e.op = Len(p) + 1,
         d[s][kind] = Append(c[s][kind], e),
         \A t \in Socket, other \in Kind : t # s \/ other # kind => d[t][other] = c[t][other],
         Len(r) = Len(p) + 1, \A k \in 1 .. Len(p) : r[k] = p[k],
         r[Len(p) + 1] = [socket |-> s, kind |-> kind, overlapped |-> e.overlapped]
  PROVE  /\ Placed(d, r) /\ Sorted(d)
         /\ \A f : f \in In(d) <=> f \in In(c) \/ f = e
         /\ e \notin In(c) /\ \A f \in In(c) : f.op < e.op
<1>1. c[s][kind] \in Seq(EntryType) /\ d[s][kind] \in Seq(EntryType)
  BY EntriesTyped
<1>4. \A t \in Socket, other \in Kind : t # s \/ other # kind => d[t][other] = c[t][other]
  OBVIOUS
<1>5. /\ DOMAIN d[s][kind] = 1 .. Len(c[s][kind]) + 1 /\ DOMAIN c[s][kind] = 1 .. Len(c[s][kind])
      /\ d[s][kind][Len(c[s][kind]) + 1] = e
      /\ \A i \in DOMAIN c[s][kind] : d[s][kind][i] = c[s][kind][i]
      /\ Len(c[s][kind]) \in Nat
  BY <1>1
<1>6. /\ DOMAIN r = 1 .. Len(p) + 1 /\ DOMAIN p = 1 .. Len(p) /\ Len(p) \in Nat
      /\ r[Len(p) + 1] = [socket |-> s, kind |-> kind, overlapped |-> e.overlapped]
      /\ \A k \in DOMAIN p : r[k] = p[k]
  OBVIOUS
<1>7. \A t \in Socket, other \in Kind : \A i \in DOMAIN c[t][other] : c[t][other][i].op \in DOMAIN p
  BY DEF Placed
<1> DEFINE New(t, other, i) == t = s /\ other = kind /\ i = Len(c[s][kind]) + 1
<1>13. ASSUME NEW t \in Socket, NEW other \in Kind, NEW i \in DOMAIN d[t][other], ~New(t, other, i)
       PROVE  i \in DOMAIN c[t][other] /\ d[t][other][i] = c[t][other][i]
  <2>1. CASE t # s \/ other # kind
    <3>1. d[t][other] = c[t][other]
      BY <2>1
    <3> QED BY <3>1
  <2>2. CASE t = s /\ other = kind
    <3>1. i \in DOMAIN c[s][kind]
      BY SMTT(20), <2>2, <1>5, <1>13
    <3> QED BY <3>1, <2>2, <1>5
  <2> QED BY <2>1, <2>2
<1>8. Placed(d, r)
  <2> SUFFICES ASSUME NEW t \in Socket, NEW other \in Kind, NEW i \in DOMAIN d[t][other]
               PROVE  /\ d[t][other][i].op \in DOMAIN r
                      /\ r[d[t][other][i].op] =
                           [socket |-> t, kind |-> other, overlapped |-> d[t][other][i].overlapped]
    BY DEF Placed
  <2>1. CASE t = s /\ other = kind /\ i = Len(c[s][kind]) + 1
    BY <2>1, <1>5, <1>6
  <2>2. CASE ~(t = s /\ other = kind /\ i = Len(c[s][kind]) + 1)
    <3>1. i \in DOMAIN c[t][other] /\ d[t][other][i] = c[t][other][i]
      BY <2>2, <1>13
    <3>2. /\ c[t][other][i].op \in DOMAIN p
          /\ p[c[t][other][i].op] = [socket |-> t, kind |-> other, overlapped |-> c[t][other][i].overlapped]
      BY <3>1 DEF Placed
    <3> QED BY <3>1, <3>2, <1>6
  <2> QED BY <2>1, <2>2
<1>9. Sorted(d)
  <2> SUFFICES ASSUME NEW t \in Socket, NEW other \in Kind, NEW i \in DOMAIN d[t][other],
                      NEW j \in DOMAIN d[t][other], i < j
               PROVE  d[t][other][i].op < d[t][other][j].op
    BY DEF Sorted
  <2>1. CASE t = s /\ other = kind
    <3>0. i \in DOMAIN c[s][kind]
      BY SMTT(20), <2>1, <1>5
    <3>1. i \in DOMAIN c[s][kind] /\ d[s][kind][i] = c[s][kind][i] /\ c[s][kind][i].op \in 1 .. Len(p)
      BY <3>0, <1>5, <1>6, <1>7
    <3>2. CASE j = Len(c[s][kind]) + 1
      <4>1. d[t][other][i].op <= Len(p) /\ d[t][other][j] = e
        BY SMTT(20), <2>1, <3>1, <3>2, <1>5, <1>6
      <4>2. d[t][other][i].op \in 1 .. Len(p)
        BY <2>1, <3>1
      <4> QED BY <4>1, <4>2, <1>6
    <3>3. CASE j # Len(c[s][kind]) + 1
      <4>1. j \in DOMAIN c[s][kind]
        BY SMTT(20), <2>1, <3>3, <1>5
      <4> QED BY <2>1, <3>1, <4>1, <1>5 DEF Sorted
    <3> QED BY <3>2, <3>3
  <2>2. CASE ~(t = s /\ other = kind)
    BY <2>2, <1>4 DEF Sorted
  <2> QED BY <2>1, <2>2
<1>10. In(d) = In(c) \cup {e}
  <2>1. ASSUME NEW f \in In(d) PROVE f \in In(c) \cup {e}
    <3>1. PICK t \in Socket, other \in Kind : \E i \in DOMAIN d[t][other] : f = d[t][other][i]
      BY InIs
    <3>2. PICK i \in DOMAIN d[t][other] : f = d[t][other][i]
      BY <3>1
    <3>3. CASE t = s /\ other = kind /\ i = Len(c[s][kind]) + 1
      BY <3>2, <3>3, <1>5
    <3>4. CASE ~(t = s /\ other = kind /\ i = Len(c[s][kind]) + 1)
      <4>1. i \in DOMAIN c[t][other]
        BY <3>4, <1>13
      <4>2. f = c[t][other][i]
        BY <3>2, <3>4, <1>13
      <4>3. c[t][other][i] \in In(c)
        BY <4>1, EntryIn
      <4> QED BY <4>2, <4>3
    <3> QED BY <3>3, <3>4
  <2>2. e \in In(d)
    <3>1. Len(c[s][kind]) + 1 \in DOMAIN d[s][kind]
      BY <1>5
    <3>2. d[s][kind][Len(c[s][kind]) + 1] \in In(d)
      BY <3>1, EntryIn
    <3> QED BY <3>2, <1>5
  <2>3. ASSUME NEW f \in In(c) PROVE f \in In(d)
    <3>1. PICK t \in Socket, other \in Kind : \E i \in DOMAIN c[t][other] : f = c[t][other][i]
      BY InIs
    <3>2. PICK i \in DOMAIN c[t][other] : f = c[t][other][i]
      BY <3>1
    <3>3. i \in DOMAIN d[t][other]
      BY <1>4, <1>5
    <3>4. d[t][other][i] = f
      BY <3>2, <1>4, <1>5
    <3>5. d[t][other][i] \in In(d)
      BY <3>3, EntryIn
    <3> QED BY <3>4, <3>5
  <2> QED BY <2>1, <2>2, <2>3
<1>11. \A f \in In(c) : f.op < e.op
  <2>1. ASSUME NEW f \in In(c) PROVE f.op \in DOMAIN p
    BY WhereEntryIs
  <2> QED BY <2>1, <1>6
<1>12. e \notin In(c)
  BY <1>11, <1>6
<1> QED BY <1>8, <1>9, <1>10, <1>11, <1>12


\* An OVERLAPPED is found in the queue its operation is in, and in no other.
LEMMA FoundThere ==
  ASSUME NEW c \in QueuesType, NEW p, Placed(c, p), Sorted(c), NEW e, Alone(c, e),
         NEW s \in Socket, NEW kind \in Kind
  PROVE  LET i == OfOverlapped(c[s][kind], e.overlapped)
         IN IF s = p[e.op].socket /\ kind = p[e.op].kind
            THEN i \in DOMAIN c[s][kind] /\ i # 0 /\ c[s][kind][i] = e
            ELSE i = 0
<1> DEFINE o == e.overlapped
           i == OfOverlapped(c[s][kind], o)
<1>1. c[s][kind] \in Seq(EntryType) /\ DOMAIN c[s][kind] = 1 .. Len(c[s][kind])
  BY EntriesTyped
<1>2. /\ i = 0 => \A j \in DOMAIN c[s][kind] : c[s][kind][j].overlapped # o
      /\ i # 0 => i \in DOMAIN c[s][kind] /\ c[s][kind][i].overlapped = o
  BY <1>1, FirstOf
<1>3. i # 0 => c[s][kind][i] = e
  BY <1>2, EntryIn DEF Alone
<1>4. i # 0 => s = p[e.op].socket /\ kind = p[e.op].kind
  <2>1. \A j \in DOMAIN c[s][kind] :
          p[c[s][kind][j].op] = [socket |-> s, kind |-> kind, overlapped |-> c[s][kind][j].overlapped]
    BY DEF Placed
  <2>2. i # 0 => p[e.op] = [socket |-> s, kind |-> kind, overlapped |-> e.overlapped]
    BY <2>1, <1>2, <1>3
  <2> QED BY <2>2
<1>5. ASSUME s = p[e.op].socket, kind = p[e.op].kind PROVE i # 0
  <2>1. PICK j \in DOMAIN c[s][kind] : e = c[s][kind][j]
    <3>1. e \in In(c)
      BY DEF Alone
    <3>2. \E j \in DOMAIN c[p[e.op].socket][p[e.op].kind] : e = c[p[e.op].socket][p[e.op].kind][j]
      BY <3>1, EntryAt
    <3> QED BY <3>2, <1>5
  <2> QED BY <2>1, <1>2
<1>6. CASE s = p[e.op].socket /\ kind = p[e.op].kind
  BY <1>2, <1>3, <1>5, <1>6
<1>7. CASE ~(s = p[e.op].socket /\ kind = p[e.op].kind)
  BY <1>4, <1>7
<1> QED BY <1>6, <1>7

\* remove_overlapped_work takes that entry out, and no other.
LEMMA RemoveEntry ==
  ASSUME NEW c \in QueuesType, NEW d \in QueuesType, NEW p, Placed(c, p), Sorted(c),
         NEW s \in Socket, NEW kind \in Kind, NEW r \in DOMAIN c[s][kind],
         d[s][kind] = RemoveAt(c[s][kind], r),
         \A t \in Socket, other \in Kind : t # s \/ other # kind => d[t][other] = c[t][other]
  PROVE  Placed(d, p) /\ Sorted(d) /\ \A f : f \in In(d) <=> f \in In(c) /\ f # c[s][kind][r]
<1> DEFINE q == c[s][kind]
           e == q[r]
<1>1. e \in In(c) /\ q \in Seq(EntryType)
  BY EntriesTyped, EntryIn
<1>2. r \in DOMAIN q /\ q[r] = e
  OBVIOUS
<1>15. q = c[s][kind]
  OBVIOUS
<1>7. d[s][kind] = RemoveAt(q, r)
  OBVIOUS
<1>10. \A t \in Socket, other \in Kind : t # s \/ other # kind => d[t][other] = c[t][other]
  OBVIOUS
<1> HIDE DEF q, e
<1>17. \A i \in DOMAIN RemoveAt(q, r) :
         /\ i \in Nat /\ Before(r, i) \in DOMAIN q /\ Before(r, i) # r
         /\ RemoveAt(q, r)[i] = q[Before(r, i)]
  BY <1>1, <1>2, RemovedAt
<1>8. \A i, j \in DOMAIN RemoveAt(q, r) : i < j => Before(r, i) < Before(r, j)
  BY <1>1, <1>2, RemovedAt
<1>9. \A i \in DOMAIN q : i # r => \E j \in DOMAIN RemoveAt(q, r) : Before(r, j) = i
  BY <1>1, <1>2, RemovedAt
<1>11. Placed(d, p)
  <2> SUFFICES ASSUME NEW t \in Socket, NEW other \in Kind, NEW i \in DOMAIN d[t][other]
               PROVE  /\ d[t][other][i].op \in DOMAIN p
                      /\ p[d[t][other][i].op] =
                           [socket |-> t, kind |-> other, overlapped |-> d[t][other][i].overlapped]
    BY DEF Placed
  <2>1. CASE t = s /\ other = kind
    <3>1. d[t][other][i] = c[t][other][Before(r, i)] /\ Before(r, i) \in DOMAIN c[t][other]
      BY <2>1, <1>7, <1>15, <1>17
    <3> QED BY <3>1 DEF Placed
  <2>2. CASE t # s \/ other # kind
    BY <2>2, <1>10 DEF Placed
  <2> QED BY <2>1, <2>2
<1>12. Sorted(d)
  <2> SUFFICES ASSUME NEW t \in Socket, NEW other \in Kind, NEW i \in DOMAIN d[t][other],
                      NEW j \in DOMAIN d[t][other], i < j
               PROVE  d[t][other][i].op < d[t][other][j].op
    BY DEF Sorted
  <2>1. CASE t = s /\ other = kind
    <3>1. /\ d[t][other][i] = c[t][other][Before(r, i)] /\ Before(r, i) \in DOMAIN c[t][other]
          /\ d[t][other][j] = c[t][other][Before(r, j)] /\ Before(r, j) \in DOMAIN c[t][other]
      BY <2>1, <1>7, <1>15, <1>17
    <3>2. Before(r, i) < Before(r, j)
      BY <2>1, <1>7, <1>8
    <3> QED BY <3>1, <3>2 DEF Sorted
  <2>2. CASE t # s \/ other # kind
    BY <2>2, <1>10 DEF Sorted
  <2> QED BY <2>1, <2>2
<1>13. ASSUME NEW f \in In(d) PROVE f \in In(c) \ {e}
  <2>1. PICK t \in Socket, other \in Kind : \E i \in DOMAIN d[t][other] : f = d[t][other][i]
    BY InIs
  <2>2. PICK i \in DOMAIN d[t][other] : f = d[t][other][i]
    BY <2>1
  <2>3. CASE t = s /\ other = kind
    <3>1. Before(r, i) \in DOMAIN q /\ Before(r, i) # r /\ f = q[Before(r, i)]
      BY <2>2, <2>3, <1>7, <1>17
    <3>2. q[Before(r, i)] \in In(c)
      BY <3>1, <1>1, <1>15, EntryIn
    <3>3. f # e
      <4>1. SUFFICES ASSUME f = e PROVE FALSE
        OBVIOUS
      <4>2. q[Before(r, i)].op = q[r].op
        BY <4>1, <3>1, <1>2
      <4> QED BY <4>2, <3>1, <1>1, <1>2, <1>15, OneEntry
    <3> QED BY <3>1, <3>2, <3>3
  <2>4. CASE t # s \/ other # kind
    <3>1. i \in DOMAIN c[t][other]
      BY <2>4, <1>10
    <3>2. f = c[t][other][i]
      BY <2>2, <2>4, <1>10
    <3>3. c[t][other][i] \in In(c)
      BY <3>1, EntryIn
    <3>4. f # e
      <4>1. SUFFICES ASSUME f = e PROVE FALSE
        OBVIOUS
      <4>2. c[t][other][i].op = q[r].op
        BY <4>1, <3>2, <1>2
      <4>3. t = s /\ other = kind
        BY <4>2, <3>1, <1>1, <1>2, <1>15, OneEntry
      <4> QED BY <4>3, <2>4
    <3> QED BY <3>2, <3>3, <3>4
  <2> QED BY <2>3, <2>4
<1>14. ASSUME NEW f \in In(c), f # e PROVE f \in In(d)
  <2>1. PICK t \in Socket, other \in Kind : \E i \in DOMAIN c[t][other] : f = c[t][other][i]
    BY InIs
  <2>2. PICK i \in DOMAIN c[t][other] : f = c[t][other][i]
    BY <2>1
  <2>3. CASE t = s /\ other = kind
    <3>1. i \in DOMAIN q /\ i # r
      BY <2>2, <2>3, <1>2, <1>14, <1>15
    <3>2. PICK j \in DOMAIN d[s][kind] : Before(r, j) = i
      BY <3>1, <1>7, <1>9
    <3>3. d[s][kind][j] = f
      BY <3>2, <2>2, <2>3, <1>7, <1>15, <1>17
    <3>4. d[s][kind][j] \in In(d)
      BY <1>1, EntryIn
    <3> QED BY <3>3, <3>4
  <2>4. CASE t # s \/ other # kind
    <3>1. i \in DOMAIN d[t][other]
      BY <2>4, <1>10
    <3>2. f = d[t][other][i]
      BY <2>2, <2>4, <1>10
    <3>3. d[t][other][i] \in In(d)
      BY <3>1, EntryIn
    <3> QED BY <3>2, <3>3
  <2> QED BY <2>3, <2>4
<1> QED BY <1>11, <1>12, <1>13, <1>14 DEF q, e

\* A result goes to that entry, and to no other.
LEMMA StoreEntry ==
  ASSUME NEW c \in QueuesType, NEW d \in QueuesType, NEW p, Placed(c, p), Sorted(c),
         NEW s \in Socket, NEW kind \in Kind, NEW r \in DOMAIN c[s][kind],
         NEW f, f.op = c[s][kind][r].op, f.overlapped = c[s][kind][r].overlapped,
         d[s][kind] = [c[s][kind] EXCEPT ![r] = f],
         \A t \in Socket, other \in Kind : t # s \/ other # kind => d[t][other] = c[t][other]
  PROVE  Placed(d, p) /\ Sorted(d) /\ \A g : g \in In(d) <=> (g \in In(c) /\ g # c[s][kind][r]) \/ g = f
<1> DEFINE e == c[s][kind][r]
<1>1. e \in In(c)
  BY EntryIn
<1>2. r \in DOMAIN c[s][kind] /\ c[s][kind][r] = e
  OBVIOUS
<1>4. f.op = e.op /\ f.overlapped = e.overlapped
  OBVIOUS
<1>8. \A t \in Socket, other \in Kind :
        d[t][other] = IF t = s /\ other = kind THEN [c[s][kind] EXCEPT ![r] = f] ELSE c[t][other]
  OBVIOUS
<1> HIDE DEF e
<1>9. \A t \in Socket, other \in Kind : DOMAIN d[t][other] = DOMAIN c[t][other]
  BY <1>8
<1>10. \A t \in Socket, other \in Kind : \A i \in DOMAIN c[t][other] :
         /\ d[t][other][i] = IF t = s /\ other = kind /\ i = r THEN f ELSE c[t][other][i]
         /\ t = s /\ other = kind /\ i = r => c[t][other][i] = e
  BY <1>2, <1>8
<1>11. \A t \in Socket, other \in Kind : \A i \in DOMAIN d[t][other] :
         d[t][other][i].op = c[t][other][i].op /\ d[t][other][i].overlapped = c[t][other][i].overlapped
  BY <1>4, <1>9, <1>10
<1>12. Placed(d, p)
  <2> SUFFICES ASSUME NEW t \in Socket, NEW other \in Kind, NEW i \in DOMAIN d[t][other]
               PROVE  /\ d[t][other][i].op \in DOMAIN p
                      /\ p[d[t][other][i].op] =
                           [socket |-> t, kind |-> other, overlapped |-> d[t][other][i].overlapped]
    BY DEF Placed
  <2>1. i \in DOMAIN c[t][other]
    BY <1>9
  <2>2. /\ c[t][other][i].op \in DOMAIN p
        /\ p[c[t][other][i].op] = [socket |-> t, kind |-> other, overlapped |-> c[t][other][i].overlapped]
    BY <2>1 DEF Placed
  <2>3. d[t][other][i].op = c[t][other][i].op /\ d[t][other][i].overlapped = c[t][other][i].overlapped
    BY <1>11
  <2> QED BY <2>2, <2>3
<1>13. Sorted(d)
  BY <1>9, <1>11 DEF Sorted
<1>14. ASSUME NEW g \in In(d) PROVE g \in (In(c) \ {e}) \cup {f}
  <2>1. PICK t \in Socket, other \in Kind : \E i \in DOMAIN d[t][other] : g = d[t][other][i]
    BY InIs
  <2>2. PICK i \in DOMAIN d[t][other] : g = d[t][other][i]
    BY <2>1
  <2>3. i \in DOMAIN c[t][other] /\ c[t][other][i] \in In(c)
    BY <1>9, EntryIn
  <2>4. ASSUME ~(t = s /\ other = kind /\ i = r) PROVE c[t][other][i] # e
    <3>1. SUFFICES ASSUME c[t][other][i] = e PROVE FALSE
      OBVIOUS
    <3>2. c[t][other][i].op = c[s][kind][r].op
      BY <3>1, <1>2
    <3> QED BY <3>2, <2>3, <2>4, <1>1, <1>2, OneEntry
  <2> QED BY <2>2, <2>3, <2>4, <1>10
<1>15. f \in In(d)
  <2>1. r \in DOMAIN d[s][kind] /\ d[s][kind][r] = f
    BY <1>1, <1>2, <1>9, <1>10
  <2>2. d[s][kind][r] \in In(d)
    BY <2>1, <1>1, EntryIn
  <2> QED BY <2>1, <2>2
<1>16. ASSUME NEW g \in In(c), g # e PROVE g \in In(d)
  <2>1. PICK t \in Socket, other \in Kind : \E i \in DOMAIN c[t][other] : g = c[t][other][i]
    BY InIs
  <2>2. PICK i \in DOMAIN c[t][other] : g = c[t][other][i]
    BY <2>1
  <2>3. i \in DOMAIN d[t][other] /\ d[t][other][i] = g
    BY <2>2, <1>9, <1>10, <1>16
  <2>4. d[t][other][i] \in In(d)
    BY <2>3, EntryIn
  <2> QED BY <2>3, <2>4
<1> QED BY <1>12, <1>13, <1>14, <1>15, <1>16 DEF e

\* What is kept for an operation is the result of its entry.
LEMMA KeptIs ==
  ASSUME NEW c \in QueuesType, NEW p, Placed(c, p), Sorted(c)
  PROVE  /\ \A e \in In(c) : KeptIn(In(c), e.op) = e.result
         /\ \A k : (\A e \in In(c) : e.op # k) => KeptIn(In(c), k) = Pending
<1>1. ASSUME NEW e \in In(c) PROVE KeptIn(In(c), e.op) = e.result
  <2> DEFINE found == {f \in In(c) : f.op = e.op}
  <2>1. e \in found /\ \A f \in found : f = e
    BY EntryOfOp
  <2>2. found # {} /\ (CHOOSE f \in found : TRUE) = e
    BY <2>1
  <2> QED BY <2>2 DEF KeptIn
<1>2. ASSUME NEW k, \A e \in In(c) : e.op # k PROVE KeptIn(In(c), k) = Pending
  BY <1>2 DEF KeptIn
<1> QED BY <1>1, <1>2

-----------------------------------------------------------------------------
\* What a function of the kinds is, and what is left of it.
LEMMA JobsAre ==
  ASSUME NEW jobs \in JobsType, NEW kinds
  PROVE  /\ DOMAIN jobs \subseteq Kind /\ \A kind \in DOMAIN jobs : jobs[kind] \in EntryType
         /\ Restrict(jobs, DOMAIN jobs \cap kinds) \in JobsType
<1>1. PICK k \in SUBSET Kind : jobs \in [k -> EntryType]
  BY DEF JobsType
<1>2. Restrict(jobs, DOMAIN jobs \cap kinds) \in [k \cap kinds -> EntryType]
  BY <1>1 DEF Restrict
<1> QED BY <1>1, <1>2 DEF JobsType

\* Copies of entries for some kinds are jobs.
LEMMA MakesJobs ==
  ASSUME NEW kinds \in SUBSET Kind, NEW jobs \in [kinds -> EntryType]
  PROVE  jobs \in JobsType
BY DEF JobsType

\* So are none.
LEMMA NoJobsTyped == NoJobs \in JobsType
<1>1. NoJobs \in [{} -> EntryType]
  BY DEF NoJobs
<1> QED BY <1>1, MakesJobs

\* Whose turn it is has a job.
LEMMA TurnIn ==
  ASSUME worker.jobs \in JobsType, DOMAIN worker.jobs # {}
  PROVE  Turn \in DOMAIN worker.jobs /\ Turn \in Kind /\ worker.jobs[Turn] \in EntryType
<1>1. DOMAIN worker.jobs \subseteq {"read", "write"}
  BY JobsAre DEF Kind
<1>2. Turn \in DOMAIN worker.jobs
  BY <1>1 DEF Turn
<1> QED BY <1>2, JobsAre

\* Storing a result keeps the types of the queues.
LEMMA StoredTyped ==
  ASSUME NEW q \in [Kind -> Seq(EntryType)], NEW kind \in Kind, NEW o, NEW x \in Outcomes
  PROVE  Stored(q, kind, o, x) \in [Kind -> Seq(EntryType)]
<1> DEFINE i == OfOverlapped(q[kind], o)
<1>1. q[kind] \in Seq(EntryType)
  OBVIOUS
<1>2. i # 0 => i \in DOMAIN q[kind]
  BY <1>1, FirstOf
<1> DEFINE f == [q[kind][i] EXCEPT !.result = x]
<1>3. Stored(q, kind, o, x) = IF i = 0 THEN q ELSE [q EXCEPT ![kind] = [@ EXCEPT ![i] = f]]
  BY DEF Stored
<1> HIDE DEF i
<1>4. CASE i = 0
  BY <1>3, <1>4
<1>5. CASE i # 0
  <2>1. q[kind][i] \in EntryType
    BY <1>1, <1>2, <1>5
  <2>2. f \in EntryType
    BY <2>1 DEF EntryType
  <2> HIDE DEF f
  <2>3. [q[kind] EXCEPT ![i] = f] \in Seq(EntryType)
    BY <1>1, <1>2, <1>5, <2>2
  <2> QED BY <1>3, <1>5, <2>3
<1> QED BY <1>4, <1>5

\* Removing an operation keeps the types of the queues.
LEMMA WithoutTyped ==
  ASSUME NEW q \in [Kind -> Seq(EntryType)], NEW o
  PROVE  Without(q, o) \in [Kind -> Seq(EntryType)]
<1>1. ASSUME NEW kind \in Kind
      PROVE  (LET i == OfOverlapped(q[kind], o) IN IF i = 0 THEN q[kind] ELSE RemoveAt(q[kind], i)) \in Seq(EntryType)
  <2> DEFINE i == OfOverlapped(q[kind], o)
  <2>1. q[kind] \in Seq(EntryType)
    OBVIOUS
  <2>2. i # 0 => i \in DOMAIN q[kind]
    BY <2>1, FirstOf
  <2>3. i # 0 => RemoveAt(q[kind], i) \in Seq(EntryType)
    BY <2>1, <2>2, RemovedAt
  <2> QED BY <2>1, <2>3
<1> QED BY <1>1 DEF Without

\* What the program is told is one of the outcomes, or that there is no such operation.
LEMMA ResultTyped ==
  ASSUME OverlappedTypeOK, NEW o \in Overlapped
  PROVE  Result(o) \in Outcomes \cup {Told("invalid")}
<1>1. where[o] = NoSocket => Result(o) = Told("invalid")
  BY DEF Result
<1>2. ASSUME where[o] # NoSocket PROVE Result(o) \in Outcomes
  <2> DEFINE c == ctx[where[o]]
             r == OfOverlapped(c["read"], o)
             w == OfOverlapped(c["write"], o)
  <2>1. /\ where[o] \in Socket /\ "read" \in Kind /\ "write" \in Kind
        /\ c["read"] \in Seq(EntryType) /\ c["write"] \in Seq(EntryType)
    BY <1>2 DEF OverlappedTypeOK, QueuesType, Kind
  <2>2. (r # 0 => c["read"][r] \in EntryType) /\ (w # 0 => c["write"][w] \in EntryType)
    BY <2>1, FirstOf
  <2>3. (r # 0 => c["read"][r].result \in Outcomes) /\ (w # 0 => c["write"][w].result \in Outcomes)
    BY <2>2 DEF EntryType
  <2>4. Result(o) = IF r # 0 /\ c["read"][r].result # Pending THEN c["read"][r].result
                    ELSE IF w # 0 /\ c["write"][w].result # Pending THEN c["write"][w].result
                    ELSE Pending
    BY <1>2 DEF Result
  <2> HIDE DEF c, r, w
  <2> QED BY <2>3, <2>4 DEF Outcomes
<1> QED BY <1>1, <1>2

\* Queueing an operation keeps the types.
LEMMA QueueTyped ==
  ASSUME OverlappedTypeOK, NEW s \in Socket, NEW kind \in Kind, NEW o \in Overlapped,
         NEW target \in {"event", "callback"}, Queue(s, kind, o, target)
  PROVE  /\ ctx' \in QueuesType /\ where' \in [Overlapped -> Socket \cup {NoSocket}] /\ ops' \in Seq(OpType)
         /\ worker' = [worker EXCEPT !.stopping = FALSE] /\ Len(ops) + 1 \in Nat
<1> DEFINE e == [overlapped |-> o, target |-> target, op |-> Len(ops) + 1, result |-> Pending]
<1>1. e \in EntryType /\ Len(ops) + 1 \in Nat
  BY DEF OverlappedTypeOK, EntryType, Outcomes
<1>2. ctx' = [ctx EXCEPT ![s] = Enqueued(@, kind, e)]
  BY DEF Queue
<1>3. ops' = Append(ops, [socket |-> s, kind |-> kind, overlapped |-> o])
  BY DEF Queue
<1>4. where' = [where EXCEPT ![o] = IF @ = NoSocket THEN s ELSE @]
  BY DEF Queue
<1> HIDE DEF e
<1>5. Enqueued(ctx[s], kind, e) \in [Kind -> Seq(EntryType)]
  <2>1. ctx[s] \in [Kind -> Seq(EntryType)] /\ ctx[s][kind] \in Seq(EntryType)
    BY DEF OverlappedTypeOK, QueuesType
  <2>2. Append(ctx[s][kind], e) \in Seq(EntryType)
    BY <2>1, <1>1
  <2> QED BY <2>1, <2>2 DEF Enqueued
<1>6. ctx' \in QueuesType
  BY <1>2, <1>5 DEF OverlappedTypeOK, QueuesType
<1>7. ops' \in Seq(OpType)
  BY <1>3 DEF OverlappedTypeOK, OpType
<1>8. where' \in [Overlapped -> Socket \cup {NoSocket}]
  BY <1>4 DEF OverlappedTypeOK
<1> QED BY <1>1, <1>6, <1>7, <1>8 DEF Queue

\* Telling the program keeps the types.
LEMMA LearnTyped ==
  ASSUME OverlappedTypeOK, NEW o \in Overlapped, NEW result \in Outcomes \cup {Told("invalid"), Told("aborted")},
         NEW at \in {"idle", "taken", "called"}, Learn(o, result, at)
  PROVE  /\ got' \in [1 .. MaxOps -> Outcomes \cup {Told("invalid"), Told("aborted")}]
         /\ user' \in [Overlapped -> [at : {"idle", "issued", "waiting", "taken", "called", "reissued"}, op : Nat]]
BY DEF OverlappedTypeOK, Learn

\* What the network holds of a socket, and a change of a part of it.
NetType == [open : BOOLEAN, took : Nat, came : Nat, room : BOOLEAN]

LEMMA NetParts ==
  ASSUME NEW r \in NetType, NEW b \in BOOLEAN, NEW n \in Nat
  PROVE  /\ [r EXCEPT !.open = b] \in NetType /\ [r EXCEPT !.room = b] \in NetType
         /\ [r EXCEPT !.took = n] \in NetType /\ [r EXCEPT !.came = n] \in NetType
         /\ [r EXCEPT !.open = b, !.came = n] \in NetType
BY DEF NetType

LEMMA NetIs ==
  ASSUME OverlappedTypeOK, NEW s \in Socket
  PROVE  net[s] \in NetType /\ net[s].took \in Nat /\ net[s].came \in Nat
BY DEF OverlappedTypeOK, NetType

LEMMA NetPut ==
  ASSUME OverlappedTypeOK, NEW s \in Socket, NEW r \in NetType, net' = [net EXCEPT ![s] = r]
  PROVE  net' \in [Socket -> [open : BOOLEAN, took : Nat, came : Nat, room : BOOLEAN]]
BY DEF OverlappedTypeOK, NetType

\* The types hold at the start ...
LEMMA OverlappedInitTyped == Init => OverlappedTypeOK
<1> SUFFICES ASSUME Init PROVE OverlappedTypeOK
  OBVIOUS
<1>1. ctx \in QueuesType
  BY DEF Init, Nothing, QueuesType
<1>2. worker \in [at : {"rest", "each", "select", "call", "store", "dispatch"}, left : SUBSET Socket,
                 socket : Socket \cup {NoSocket}, jobs : JobsType, result : Outcomes, stopping : BOOLEAN]
  BY NoJobsTyped DEF Init, Resting, Outcomes
<1>3. got \in [1 .. MaxOps -> Outcomes \cup {Told("invalid"), Told("aborted")}]
  BY DEF Init, Outcomes
<1>4. worker.at = "rest"
  BY DEF Init, Resting
<1>5. /\ program \in Programs
      /\ net \in [Socket -> [open : BOOLEAN, took : Nat, came : Nat, room : BOOLEAN]]
      /\ where \in [Overlapped -> Socket \cup {NoSocket}]
      /\ signaled \subseteq Overlapped
      /\ apcs \in [Overlapped -> Nat]
      /\ user \in [Overlapped -> [at : {"idle", "issued", "waiting", "taken", "called", "reissued"}, op : Nat]]
  BY DEF Init
<1>6. ops \in Seq(OpType)
  BY DEF Init
<1> QED BY <1>1, <1>2, <1>3, <1>4, <1>5, <1>6 DEF OverlappedTypeOK

\* What the program does keeps the types ...
LEMMA FinishTyped ==
  ASSUME OverlappedTypeOK, NEW o \in Overlapped, Finish(o)
  PROVE  OverlappedTypeOK'
<1>1. CASE Ask(o)
  <2>1. Result(o) \in Outcomes \cup {Told("invalid"), Told("aborted")}
    BY ResultTyped
  <2>2. CASE Result(o) = Pending
    <3>1. user' = [user EXCEPT ![o].at = "waiting"] /\ UNCHANGED <<program, net, ctx, where, signaled, apcs, worker, ops, got>>
      BY <1>1, <2>2 DEF Ask
    <3>2. user' \in [Overlapped -> [at : {"idle", "issued", "waiting", "taken", "called", "reissued"}, op : Nat]]
      BY <3>1 DEF OverlappedTypeOK
    <3> QED BY <3>1, <3>2 DEF OverlappedTypeOK
  <2>3. CASE Result(o) # Pending
    <3>1. Learn(o, Result(o), IF Result(o).is = "invalid" THEN "idle" ELSE "taken")
      BY <1>1, <2>3 DEF Ask
    <3>2. /\ got' \in [1 .. MaxOps -> Outcomes \cup {Told("invalid"), Told("aborted")}]
          /\ user' \in [Overlapped -> [at : {"idle", "issued", "waiting", "taken", "called", "reissued"}, op : Nat]]
      BY <2>1, <3>1, LearnTyped
    <3> QED BY <1>1, <3>2 DEF Ask, OverlappedTypeOK
  <2> QED BY <2>2, <2>3
<1>2. CASE Wake(o)
  <2>1. Result(o) \in Outcomes \cup {Told("invalid"), Told("aborted")}
    BY ResultTyped
  <2>2. PICK x \in Outcomes \cup {Told("invalid"), Told("aborted")}, at \in {"idle", "taken"} : Learn(o, x, at)
    BY <1>2, <2>1 DEF Wake
  <2>3. /\ got' \in [1 .. MaxOps -> Outcomes \cup {Told("invalid"), Told("aborted")}]
        /\ user' \in [Overlapped -> [at : {"idle", "issued", "waiting", "taken", "called", "reissued"}, op : Nat]]
    BY <2>2, LearnTyped
  <2> QED BY <1>2, <2>3 DEF Wake, OverlappedTypeOK
<1>3. CASE RunApc(o)
  <2>1. Result(o) \in Outcomes \cup {Told("invalid"), Told("aborted")}
    BY ResultTyped
  <2>2. apcs' \in [Overlapped -> Nat]
    <3>1. apcs[o] \in Nat /\ apcs[o] > 0 /\ apcs' = [apcs EXCEPT ![o] = apcs[o] - 1]
      BY <1>3 DEF RunApc, OverlappedTypeOK
    <3> QED BY <3>1 DEF OverlappedTypeOK
  <2>3. /\ got' \in [1 .. MaxOps -> Outcomes \cup {Told("invalid"), Told("aborted")}]
        /\ user' \in [Overlapped -> [at : {"idle", "issued", "waiting", "taken", "called", "reissued"}, op : Nat]]
    <3>1. CASE UNCHANGED <<user, got>>
      BY <3>1 DEF OverlappedTypeOK
    <3>2. CASE Learn(o, Result(o), "called")
      BY <3>2, <2>1, LearnTyped
    <3> QED BY <1>3, <3>1, <3>2 DEF RunApc
  <2> QED BY <1>3, <2>2, <2>3 DEF RunApc, OverlappedTypeOK
<1>4. CASE RemoveWork(o)
  <2>1. ctx' \in QueuesType
    <3>1. CASE UNCHANGED ctx
      BY <3>1 DEF OverlappedTypeOK
    <3>2. CASE where[o] # NoSocket /\ ctx' = [ctx EXCEPT ![where[o]] = Without(@, o)]
      <4>1. where[o] \in Socket /\ ctx[where[o]] \in [Kind -> Seq(EntryType)]
        BY <3>2 DEF OverlappedTypeOK, QueuesType
      <4>2. Without(ctx[where[o]], o) \in [Kind -> Seq(EntryType)]
        BY <4>1, WithoutTyped
      <4> QED BY <3>2, <4>1, <4>2 DEF OverlappedTypeOK, QueuesType
    <3> QED BY <1>4, <3>1, <3>2 DEF RemoveWork
  <2>2. where' \in [Overlapped -> Socket \cup {NoSocket}]
    BY <1>4 DEF RemoveWork, OverlappedTypeOK
  <2>3. user' \in [Overlapped -> [at : {"idle", "issued", "waiting", "taken", "called", "reissued"}, op : Nat]]
    <3> DEFINE r == [user[o] EXCEPT !.at = IF @ = "reissued" THEN "issued" ELSE "idle"]
    <3>1. user[o] \in [at : {"idle", "issued", "waiting", "taken", "called", "reissued"}, op : Nat]
      BY DEF OverlappedTypeOK
    <3>2. r \in [at : {"idle", "issued", "waiting", "taken", "called", "reissued"}, op : Nat]
      BY <3>1
    <3>3. user' = [user EXCEPT ![o] = r]
      BY <1>4 DEF RemoveWork
    <3> HIDE DEF r
    <3> QED BY <3>2, <3>3 DEF OverlappedTypeOK
  <2> QED BY <1>4, <2>1, <2>2, <2>3 DEF RemoveWork, OverlappedTypeOK
<1> QED BY <1>1, <1>2, <1>3, <1>4 DEF Finish

\* ... when an operation begins ...
LEMMA StartTyped ==
  ASSUME OverlappedTypeOK, NEW o \in Overlapped, Issue(o) \/ Reissue(o)
  PROVE  OverlappedTypeOK'
<1>1. program \in Program
  BY OverlappedAssumption DEF OverlappedTypeOK
<1>2. CASE Issue(o)
  <2>1. PICK s \in Socket, kind \in program.kinds, target \in program.targets : Queue(s, kind, o, target)
    BY <1>2 DEF Issue, RecvFrom, SendTo, Start
  <2>2. kind \in Kind /\ target \in {"event", "callback"}
    BY <1>1 DEF Program
  <2>3. /\ ctx' \in QueuesType /\ where' \in [Overlapped -> Socket \cup {NoSocket}] /\ ops' \in Seq(OpType)
        /\ worker' = [worker EXCEPT !.stopping = FALSE] /\ Len(ops) + 1 \in Nat
    BY <2>1, <2>2, QueueTyped
  <2>4. user' \in [Overlapped -> [at : {"idle", "issued", "waiting", "taken", "called", "reissued"}, op : Nat]]
    <3>1. user' = [user EXCEPT ![o] = [at |-> "issued", op |-> Len(ops) + 1]]
      BY <1>2 DEF Issue, RecvFrom, SendTo, Start
    <3> QED BY <2>3, <3>1 DEF OverlappedTypeOK
  <2> QED BY <1>2, <2>3, <2>4 DEF Issue, RecvFrom, SendTo, Start, ResetEvent, OverlappedTypeOK
<1>3. CASE Reissue(o)
  <2>1. PICK s \in Socket, kind \in program.kinds : Queue(s, kind, o, "callback")
    BY <1>3 DEF Reissue
  <2>2. kind \in Kind
    BY <1>1 DEF Program
  <2>3. /\ ctx' \in QueuesType /\ where' \in [Overlapped -> Socket \cup {NoSocket}] /\ ops' \in Seq(OpType)
        /\ worker' = [worker EXCEPT !.stopping = FALSE] /\ Len(ops) + 1 \in Nat
    BY <2>1, <2>2, QueueTyped
  <2>4. user' \in [Overlapped -> [at : {"idle", "issued", "waiting", "taken", "called", "reissued"}, op : Nat]]
    BY <1>3, <2>3 DEF Reissue, OverlappedTypeOK
  <2> QED BY <1>3, <2>3, <2>4 DEF Reissue, OverlappedTypeOK
<1> QED BY <1>2, <1>3

\* ... as does what the server and the network do ...
LEMMA NetTyped ==
  ASSUME OverlappedTypeOK, NEW s \in Socket, Close(s) \/ Open(s) \/ Arrive(s) \/ Room(s)
  PROVE  OverlappedTypeOK'
<1> DEFINE closed == [net[s] EXCEPT !.open = FALSE, !.came = net[s].took]
           opened == [net[s] EXCEPT !.open = TRUE]
           more   == [net[s] EXCEPT !.came = @ + 1]
           free   == [net[s] EXCEPT !.room = TRUE]
<1>1. net[s] \in NetType /\ net[s].took \in Nat /\ net[s].came + 1 \in Nat
  BY NetIs
<1>2. closed \in NetType /\ opened \in NetType /\ more \in NetType /\ free \in NetType
  BY <1>1, NetParts
<1>3. PICK r \in NetType : net' = [net EXCEPT ![s] = r]
  <2>1. \/ net' = [net EXCEPT ![s] = closed] \/ net' = [net EXCEPT ![s] = opened]
        \/ net' = [net EXCEPT ![s] = more] \/ net' = [net EXCEPT ![s] = free]
    BY DEF Close, Open, Arrive, Room
  <2> HIDE DEF closed, opened, more, free
  <2> QED BY <1>2, <2>1
<1>4. net' \in [Socket -> [open : BOOLEAN, took : Nat, came : Nat, room : BOOLEAN]]
  BY <1>3, NetPut
<1>5. ctx' \in QueuesType
  <2>1. CASE Open(s)
    BY <2>1 DEF Open, Nothing, OverlappedTypeOK, QueuesType
  <2>2. CASE UNCHANGED ctx
    BY <2>2 DEF OverlappedTypeOK
  <2> QED BY <2>1, <2>2 DEF Close, Arrive, Room
<1>6. UNCHANGED <<program, where, signaled, apcs, user, worker, ops, got>>
  BY DEF Close, Open, Arrive, Room
<1> QED BY <1>4, <1>5, <1>6 DEF OverlappedTypeOK

\* ... and the worker.
LEMMA WorkerTyped ==
  ASSUME OverlappedTypeOK, Worker
  PROVE  OverlappedTypeOK'
<1>1. CASE Cycle
  BY <1>1 DEF Cycle, OverlappedTypeOK
<1>2. CASE EndCycle
  BY <1>2, NoJobsTyped DEF EndCycle, Resting, Outcomes, OverlappedTypeOK
<1>3. CASE Select
  <2>1. Chosen(worker.socket, worker.jobs) \in JobsType
    <3> DEFINE kinds == {kind \in DOMAIN worker.jobs : Ready(worker.socket, kind)}
    <3>1. worker.jobs \in JobsType /\ kinds = DOMAIN worker.jobs \cap kinds
      BY DEF OverlappedTypeOK
    <3> HIDE DEF kinds
    <3>2. Restrict(worker.jobs, kinds) \in JobsType
      BY <3>1, JobsAre
    <3> QED BY <3>1, <3>2 DEF Chosen, kinds
  <2> QED BY <1>3, <2>1 DEF Select, OverlappedTypeOK
<1>4. CASE Call
  <2>1. worker.socket \in Socket
    BY <1>4 DEF Call, OverlappedTypeOK
  <2>2. Failed \in Outcomes /\ Ok(0) \in Outcomes /\ Ok(net[worker.socket].took + 1) \in Outcomes
    BY <2>1 DEF OverlappedTypeOK, Outcomes
  <2>3. net' \in [Socket -> [open : BOOLEAN, took : Nat, came : Nat, room : BOOLEAN]]
    <3>1. \/ net' = net
          \/ net' = [net EXCEPT ![worker.socket].took = @ + 1]
          \/ \E room \in BOOLEAN : net' = [net EXCEPT ![worker.socket].room = room]
      BY <1>4 DEF Call
    <3>2. net[worker.socket] \in NetType /\ net[worker.socket].took + 1 \in Nat
      BY <2>1, NetIs
    <3>3. CASE net' = [net EXCEPT ![worker.socket].took = @ + 1]
      <4> DEFINE r == [net[worker.socket] EXCEPT !.took = @ + 1]
      <4>1. r \in NetType /\ net' = [net EXCEPT ![worker.socket] = r]
        BY <3>2, <3>3, NetParts
      <4> QED BY <2>1, <4>1, NetPut
    <3>4. ASSUME NEW room \in BOOLEAN, net' = [net EXCEPT ![worker.socket].room = room]
          PROVE  net' \in [Socket -> [open : BOOLEAN, took : Nat, came : Nat, room : BOOLEAN]]
      <4> DEFINE r == [net[worker.socket] EXCEPT !.room = room]
      <4>1. r \in NetType /\ net' = [net EXCEPT ![worker.socket] = r]
        BY <3>2, <3>4, NetParts
      <4> QED BY <2>1, <4>1, NetPut
    <3>5. CASE net' = net
      BY <3>5 DEF OverlappedTypeOK
    <3> QED BY <3>1, <3>3, <3>4, <3>5
  <2>4. PICK x \in Outcomes : worker' = [worker EXCEPT !.at = "store", !.result = x]
    BY <1>4, <2>2 DEF Call
  <2> QED BY <1>4, <2>1, <2>3, <2>4 DEF Call, OverlappedTypeOK
<1>5. CASE Store
  <2>1. Turn \in DOMAIN worker.jobs /\ Turn \in Kind /\ worker.jobs[Turn] \in EntryType
    BY <1>5, TurnIn DEF Store, OverlappedTypeOK
  <2> DEFINE o == worker.jobs[Turn].overlapped
  <2>2. o \in Overlapped /\ worker.result \in Outcomes
    BY <2>1 DEF EntryType, OverlappedTypeOK
  <2>3. CASE where[o] = NoSocket
    BY <1>5, <2>3 DEF Store, OverlappedTypeOK
  <2>4. CASE where[o] # NoSocket
    <3>1. where[o] \in Socket /\ ctx[where[o]] \in [Kind -> Seq(EntryType)]
      BY <2>2, <2>4 DEF OverlappedTypeOK, QueuesType
    <3>2. /\ "read" \in Kind /\ "write" \in Kind /\ Failed \in Outcomes
      BY DEF Kind, Outcomes
    <3>3. StoredError(ctx[where[o]], o) \in [Kind -> Seq(EntryType)]
      <4>1. /\ Stored(ctx[where[o]], "read", o, Failed) \in [Kind -> Seq(EntryType)]
            /\ Stored(ctx[where[o]], "write", o, Failed) \in [Kind -> Seq(EntryType)]
        BY <3>1, <3>2, StoredTyped
      <4> QED BY <4>1 DEF StoredError
    <3>4. Stored(ctx[where[o]], Turn, o, worker.result) \in [Kind -> Seq(EntryType)]
      BY <2>1, <2>2, <3>1, StoredTyped
    <3>5. ctx' \in QueuesType
      BY <1>5, <2>4, <3>1, <3>3, <3>4 DEF Store, OverlappedTypeOK, QueuesType
    <3> QED BY <1>5, <3>5 DEF Store, OverlappedTypeOK
  <2> QED BY <2>3, <2>4
<1>6. CASE Dispatch
  <2>1. Turn \in DOMAIN worker.jobs /\ Turn \in Kind /\ worker.jobs[Turn] \in EntryType
    BY <1>6, TurnIn DEF Dispatch, OverlappedTypeOK
  <2>2. worker.jobs[Turn].overlapped \in Overlapped
    BY <2>1 DEF EntryType
  <2>3. apcs' \in [Overlapped -> Nat] /\ signaled' \subseteq Overlapped
    <3>1. \/ UNCHANGED apcs /\ signaled' = signaled \cup {worker.jobs[Turn].overlapped}
          \/ UNCHANGED signaled /\ apcs' = [apcs EXCEPT ![worker.jobs[Turn].overlapped] = @ + 1]
      BY <1>6 DEF Dispatch
    <3>2. apcs[worker.jobs[Turn].overlapped] + 1 \in Nat
      BY <2>2 DEF OverlappedTypeOK
    <3> QED BY <2>2, <3>1, <3>2 DEF OverlappedTypeOK
  <2>4. Restrict(worker.jobs, DOMAIN worker.jobs \ {Turn}) \in JobsType
    <3>1. worker.jobs \in JobsType /\ DOMAIN worker.jobs \ {Turn} = DOMAIN worker.jobs \cap (DOMAIN worker.jobs \ {Turn})
      BY DEF OverlappedTypeOK
    <3> QED BY <3>1, JobsAre
  <2>5. DOMAIN Restrict(worker.jobs, DOMAIN worker.jobs \ {Turn}) = DOMAIN worker.jobs \ {Turn}
    BY DEF Restrict
  <2>6. worker.socket \in Socket /\ Pending \in Outcomes
    BY <1>6 DEF Dispatch, OverlappedTypeOK, Outcomes
  <2> DEFINE rest == Restrict(worker.jobs, DOMAIN worker.jobs \ {Turn})
  <2>7. /\ worker' = [worker EXCEPT !.jobs = rest, !.result = Pending,
                                     !.at = IF DOMAIN worker.jobs = {Turn} THEN "each" ELSE "call"]
        /\ UNCHANGED <<program, net, ctx, where, user, ops, got>>
    BY <1>6 DEF Dispatch
  <2>8. DOMAIN worker.jobs # {Turn} => DOMAIN rest # {}
    BY <2>1, <2>5
  <2> HIDE DEF rest
  <2>9. worker' \in [at : {"rest", "each", "select", "call", "store", "dispatch"}, left : SUBSET Socket,
                     socket : Socket \cup {NoSocket}, jobs : JobsType, result : Outcomes, stopping : BOOLEAN]
    BY <2>4, <2>6, <2>7 DEF OverlappedTypeOK, rest
  <2>10. worker'.socket = worker.socket /\ worker'.jobs = rest /\ (worker'.at = "each" \/ DOMAIN rest # {})
    BY <2>7, <2>8 DEF OverlappedTypeOK
  <2> QED BY <2>3, <2>6, <2>7, <2>9, <2>10 DEF OverlappedTypeOK
<1>7. ASSUME NEW s \in Socket, Peek(s) PROVE OverlappedTypeOK'
  <2> DEFINE waiting == {kind \in Kind : FirstPending(ctx[s][kind]) # 0}
             jobs == [kind \in waiting |-> ctx[s][kind][FirstPending(ctx[s][kind])]]
  <2>1. \A kind \in waiting : ctx[s][kind][FirstPending(ctx[s][kind])] \in EntryType
    <3> SUFFICES ASSUME NEW kind \in waiting PROVE ctx[s][kind][FirstPending(ctx[s][kind])] \in EntryType
      OBVIOUS
    <3>1. kind \in Kind /\ ctx[s][kind] \in Seq(EntryType) /\ FirstPending(ctx[s][kind]) # 0
      BY DEF OverlappedTypeOK, QueuesType
    <3>2. FirstPending(ctx[s][kind]) \in DOMAIN ctx[s][kind]
      BY <3>1, FirstWaits
    <3> QED BY <3>1, <3>2
  <2>2. jobs \in JobsType /\ DOMAIN jobs = waiting
    BY <2>1, MakesJobs
  <2>3. worker' = [worker EXCEPT !.left = @ \ {s}, !.socket = s, !.jobs = jobs,
                                 !.at = IF waiting = {} THEN "each" ELSE "select"]
    BY <1>7 DEF Peek, Waiting
  <2> HIDE DEF waiting, jobs
  <2>4. worker' \in [at : {"rest", "each", "select", "call", "store", "dispatch"}, left : SUBSET Socket,
                     socket : Socket \cup {NoSocket}, jobs : JobsType, result : Outcomes, stopping : BOOLEAN]
    BY <2>2, <2>3 DEF OverlappedTypeOK
  <2>5. worker'.socket = s /\ worker'.jobs = jobs /\ (worker'.at = "each" \/ waiting # {})
    BY <2>3 DEF OverlappedTypeOK
  <2> QED BY <1>7, <2>2, <2>4, <2>5 DEF Peek, OverlappedTypeOK
<1> QED BY <1>1, <1>2, <1>3, <1>4, <1>5, <1>6, <1>7 DEF Worker

\* ... and after every step.
LEMMA OverlappedStepTyped == OverlappedTypeOK /\ [Next]_vars => OverlappedTypeOK'
<1> SUFFICES ASSUME OverlappedTypeOK, [Next]_vars PROVE OverlappedTypeOK'
  OBVIOUS
<1>1. CASE \E o \in Overlapped : Issue(o) \/ Reissue(o) \/ Finish(o)
  BY <1>1, StartTyped, FinishTyped
<1>2. CASE \E s \in Socket : Close(s) \/ Open(s) \/ Arrive(s) \/ Room(s)
  BY <1>2, NetTyped
<1>3. CASE Cleanup
  BY <1>3 DEF Cleanup, OverlappedTypeOK
<1>4. CASE Worker
  BY <1>4, WorkerTyped
<1>5. CASE UNCHANGED vars
  BY <1>5 DEF vars, OverlappedTypeOK
<1> QED BY <1>1, <1>2, <1>3, <1>4, <1>5 DEF Next

\* Every variable keeps to its type.
THEOREM OverlappedTypes == Spec => []OverlappedTypeOK
<1>1. Init => OverlappedTypeOK
  BY OverlappedInitTyped
<1>2. OverlappedTypeOK /\ [Next]_vars => OverlappedTypeOK'
  BY OverlappedStepTyped
<1> QED BY <1>1, <1>2, PTL DEF Spec

-----------------------------------------------------------------------------
\* The rest is about a program that is careful.  The thread of an OVERLAPPED has
\* an operation exactly while there is an entry of it, in the context the map
\* leads to ...
Tied ==
  \A e \in In(ctx) :
    /\ user[e.overlapped].at # "idle" /\ user[e.overlapped].op = e.op
    /\ where[e.overlapped] = ops[e.op].socket

Home ==
  \A o \in Overlapped :
    IF user[o].at = "idle" THEN where[o] = NoSocket
    ELSE user[o].at \in {"issued", "taken", "called"} /\ \E e \in In(ctx) : e.overlapped = o

\* ... it was told what the entry keeps, or nothing yet ...
Settled ==
  /\ \A e \in In(ctx) :
       IF user[e.overlapped].at = "issued" THEN got[e.op] = Pending
       ELSE got[e.op] = e.result /\ e.result # Pending
  /\ Len(ops) <= MaxOps
  /\ \A k \in 1 .. MaxOps : k > Len(ops) => got[k] = Pending

\* ... and nobody announces an operation that waits.
Announced ==
  /\ \A e \in In(ctx) :
       /\ e.result = Pending => e.overlapped \notin signaled /\ apcs[e.overlapped] = 0
       /\ apcs[e.overlapped] > 0 => e.target = "callback"
  /\ \A o \in Overlapped : apcs[o] > 0 => apcs[o] = 1 /\ user[o].at = "issued"

\* The worker's copies are the first operations that wait in the queues of its
\* socket, though the one it stored a result for waits no longer.
Waits(kind) ==
  LET job == worker.jobs[kind]
  IN /\ job \in In(ctx) /\ job.result = Pending
     /\ ops[job.op].socket = worker.socket /\ ops[job.op].kind = kind
     /\ \A e \in In(ctx) :
          e.result = Pending /\ ops[e.op].socket = worker.socket /\ ops[e.op].kind = kind => job.op <= e.op

JustStored ==
  LET job == worker.jobs[Turn]
  IN \E e \in In(ctx) :
       /\ e.op = job.op /\ e.overlapped = job.overlapped /\ e.target = job.target
       /\ e.result # Pending
       /\ user[e.overlapped].at = "issued"
       /\ e.overlapped \notin signaled /\ apcs[e.overlapped] = 0

Jobs ==
  /\ worker.at \in {"select", "call", "store"} => \A kind \in DOMAIN worker.jobs : Waits(kind)
  /\ worker.at = "dispatch" => JustStored /\ \A kind \in DOMAIN worker.jobs \ {Turn} : Waits(kind)

\* What came of an operation, the read operations of a socket, and whether the
\* worker holds the last datum it took from there.
CameNow(k) == CameIn(In(ctx), got, k)
Reads(s)   == {k \in DOMAIN ops : ops[k].socket = s /\ ops[k].kind = "read"}
InHand(s)  == worker.at = "store" /\ worker.socket = s /\ Turn = "read" /\ worker.result # Failed

Holding ==
  worker.at = "store" =>
    \/ worker.result = Failed
    \/ /\ Turn = "read" /\ worker.result = Ok(net[worker.socket].took)
       /\ net[worker.socket].took > 0
    \/ Turn = "write" /\ worker.result = Ok(0)

\* The data came in the order of the operations, each to one of them, and what
\* waits is behind all that did not.
DataCame ==
  \A s \in Socket : \A k \in Reads(s) :
    CameNow(k).is = "ok" => /\ CameNow(k).datum \in 1 .. net[s].took
                            /\ InHand(s) => CameNow(k).datum # net[s].took

DataFound ==
  \A s \in Socket : \A n \in 1 .. net[s].took :
    (InHand(s) /\ n = net[s].took) \/ \E k \in Reads(s) : CameNow(k) = Ok(n)

DataSorted ==
  \A s \in Socket : \A j, k \in Reads(s) :
    j < k /\ CameNow(j).is = "ok" /\ CameNow(k).is = "ok" => CameNow(j).datum < CameNow(k).datum

DataFront ==
  \A e \in In(ctx) :
    e.result = Pending /\ ops[e.op].kind = "read" =>
      \A k \in Reads(ops[e.op].socket) : CameNow(k) # Pending => k < e.op

Data == DataCame /\ DataFound /\ DataSorted /\ DataFront

CarefulInv ==
  /\ Placed(ctx, ops) /\ Sorted(ctx)
  /\ Tied /\ Home /\ Settled /\ Announced
  /\ Jobs /\ Holding /\ Data

-----------------------------------------------------------------------------

\* What came of an operation that is queued is what its entry keeps; of any
\* other, what the program was told.
LEMMA CameIs ==
  ASSUME NEW c \in QueuesType, NEW p, Placed(c, p), Sorted(c), NEW g,
         \A e \in In(c) : g[e.op] = Pending \/ g[e.op] = e.result
  PROVE  /\ \A e \in In(c) : CameIn(In(c), g, e.op) = e.result
         /\ \A k : (\A e \in In(c) : e.op # k) => CameIn(In(c), g, k) = g[k]
<1>1. ASSUME NEW e \in In(c) PROVE CameIn(In(c), g, e.op) = e.result
  <2>1. KeptIn(In(c), e.op) = e.result
    BY KeptIs
  <2> QED BY <2>1 DEF CameIn
<1>2. ASSUME NEW k, \A e \in In(c) : e.op # k PROVE CameIn(In(c), g, k) = g[k]
  <2>1. KeptIn(In(c), k) = Pending
    BY <1>2, KeptIs
  <2> QED BY <2>1 DEF CameIn
<1> QED BY <1>1, <1>2

\* Of an OVERLAPPED there is no second entry.
LEMMA OwnEntry ==
  ASSUME OverlappedTypeOK, CarefulInv, NEW e \in In(ctx)
  PROVE  /\ Alone(ctx, e) /\ e \in EntryType /\ e.overlapped \in Overlapped /\ e.op \in 1 .. Len(ops)
         /\ e.op \in 1 .. MaxOps
<1>1. ctx \in QueuesType /\ Placed(ctx, ops) /\ Sorted(ctx) /\ Tied /\ Len(ops) <= MaxOps
  BY DEF OverlappedTypeOK, CarefulInv, Settled
<1>2. \A f \in In(ctx) : f.overlapped = e.overlapped => f = e
  BY <1>1, EntryOfOp DEF Tied
<1>3. e \in EntryType /\ e.overlapped \in Overlapped
  BY <1>1, EntriesTyped DEF EntryType
<1>4. e.op \in DOMAIN ops
  BY <1>1, WhereEntryIs
<1>5. e.op \in 1 .. Len(ops) /\ Len(ops) \in Nat
  BY <1>4 DEF OverlappedTypeOK
<1> QED BY <1>1, <1>2, <1>3, <1>5, OverlappedAssumption DEF Alone

\* get_overlapped_result finds the result of that entry.
LEMMA ResultIs ==
  ASSUME OverlappedTypeOK, CarefulInv, NEW e \in In(ctx)
  PROVE  Result(e.overlapped) = e.result
<1>1. ctx \in QueuesType /\ Placed(ctx, ops) /\ Sorted(ctx) /\ Alone(ctx, e)
  BY OwnEntry DEF OverlappedTypeOK, CarefulInv
<1> DEFINE o == e.overlapped
           s == ops[e.op].socket
           r == OfOverlapped(ctx[s]["read"], o)
           w == OfOverlapped(ctx[s]["write"], o)
<1>2. s \in Socket /\ ops[e.op].kind \in Kind /\ "read" \in Kind /\ "write" \in Kind
  BY <1>1, WhereEntryIs DEF Kind
<1>3. where[o] = s /\ where[o] # NoSocket
  BY <1>2, OverlappedAssumption DEF CarefulInv, Tied
<1>4. IF ops[e.op].kind = "read" THEN r # 0 /\ ctx[s]["read"][r] = e ELSE r = 0
  BY <1>1, <1>2, FoundThere
<1>5. IF ops[e.op].kind = "write" THEN w # 0 /\ ctx[s]["write"][w] = e ELSE w = 0
  BY <1>1, <1>2, FoundThere
<1>6. Result(o) = IF r # 0 /\ ctx[s]["read"][r].result # Pending THEN ctx[s]["read"][r].result
                  ELSE IF w # 0 /\ ctx[s]["write"][w].result # Pending THEN ctx[s]["write"][w].result
                  ELSE Pending
  BY <1>3 DEF Result
<1> HIDE DEF r, w, s
<1>7. ops[e.op].kind = "read" \/ ops[e.op].kind = "write"
  BY <1>2 DEF Kind
<1> QED BY <1>4, <1>5, <1>6, <1>7

\* The data stay in order if what came of the reads stays, and new ones come last.
LEMMA DataKept ==
  ASSUME OverlappedTypeOK, CarefulInv,
         \A s \in Socket : net'[s].took = net[s].took /\ InHand(s)' = InHand(s),
         \A s \in Socket : \A k \in Reads(s) : k \in Reads(s)' /\ CameNow(k)' = CameNow(k),
         \A s \in Socket : \A k \in Reads(s)' : k \in Reads(s) \/ CameNow(k)' = Pending,
         \A e \in In(ctx)' : e.result = Pending =>
           \/ e \in In(ctx) /\ ops'[e.op] = ops[e.op] /\ ops[e.op].socket \in Socket
           \/ ops'[e.op].socket \in Socket /\ \A k \in DOMAIN ops : k < e.op
  PROVE  Data'
<1>0. Pending.is # "ok" /\ Data
  BY DEF Pending, CarefulInv
<1>1. DataCame'
  BY <1>0 DEF Data, DataCame
<1>2. DataFound'
  BY <1>0 DEF Data, DataFound
<1>3. DataSorted'
  BY <1>0 DEF Data, DataSorted
<1>4. DataFront'
  <2>1. ASSUME NEW e \in In(ctx)', e.result = Pending, ops'[e.op].kind = "read",
               NEW t \in Socket, t = ops'[e.op].socket, NEW k \in Reads(t)', CameNow(k)' # Pending
        PROVE  k < e.op
    <3>1. k \in Reads(t) /\ CameNow(k) # Pending
      BY <2>1
    <3>2. CASE e \in In(ctx) /\ ops'[e.op] = ops[e.op] /\ ops[e.op].socket \in Socket
      BY <2>1, <3>1, <3>2, <1>0 DEF Data, DataFront
    <3>3. CASE ops'[e.op].socket \in Socket /\ \A j \in DOMAIN ops : j < e.op
      BY <3>1, <3>3 DEF Reads
    <3> QED BY <2>1, <3>2, <3>3
  <2>2. \A e \in In(ctx)' : e.result = Pending => ops'[e.op].socket \in Socket
    OBVIOUS
  <2> QED BY <2>1, <2>2 DEF DataFront
<1> QED BY <1>1, <1>2, <1>3, <1>4 DEF Data

\* The worker's copies stay true if what waits stays, new operations come last,
\* and the operation it stored a result for is left alone.
LEMMA JobsKept ==
  ASSUME OverlappedTypeOK, OverlappedTypeOK', CarefulInv,
         worker'.at = worker.at /\ worker'.socket = worker.socket /\ worker'.jobs = worker.jobs,
         \A e \in In(ctx) : e.result = Pending => e \in In(ctx)' /\ ops'[e.op] = ops[e.op],
         \A e \in In(ctx)' : e.result = Pending =>
           \/ e \in In(ctx) /\ ops'[e.op] = ops[e.op] /\ ops[e.op].socket \in Socket
           \/ ops'[e.op].socket \in Socket /\ \A k \in DOMAIN ops : k < e.op,
         \A e \in In(ctx) :
           /\ e.result # Pending /\ user[e.overlapped].at = "issued"
           /\ e.overlapped \notin signaled /\ apcs[e.overlapped] = 0
           => /\ e \in In(ctx)' /\ user'[e.overlapped].at = "issued"
              /\ e.overlapped \notin signaled' /\ apcs'[e.overlapped] = 0
  PROVE  Jobs'
<1>1. Turn' = Turn
  BY DEF Turn
<1>2. ASSUME NEW kind, Waits(kind) PROVE Waits(kind)'
  <2> DEFINE job == worker.jobs[kind]
  <2>1. /\ job \in In(ctx) /\ job.result = Pending
        /\ ops[job.op].socket = worker.socket /\ ops[job.op].kind = kind
    BY <1>2 DEF Waits
  <2>2. job \in In(ctx)' /\ ops'[job.op] = ops[job.op]
    BY <2>1
  <2>3. job.op \in DOMAIN ops /\ job.op \in Nat
    BY <2>1, OwnEntry DEF OverlappedTypeOK
  <2>4. ASSUME NEW e \in In(ctx)', e.result = Pending, ops'[e.op].socket = worker.socket, ops'[e.op].kind = kind
        PROVE  job.op <= e.op
    <3>1. CASE e \in In(ctx) /\ ops'[e.op] = ops[e.op]
      BY <1>2, <2>4, <3>1 DEF Waits
    <3>2. CASE \A k \in DOMAIN ops : k < e.op
      <4>1. job.op < e.op
        BY <2>3, <3>2
      <4>2. ctx' \in QueuesType /\ e \in In(ctx')
        BY DEF OverlappedTypeOK
      <4>3. e.op \in Nat
        BY <4>2, EntriesTyped DEF EntryType
      <4> QED BY <2>3, <4>1, <4>3
    <3> QED BY <2>4, <3>1, <3>2
  <2> QED BY <2>1, <2>2, <2>4 DEF Waits
<1>3. ASSUME JustStored PROVE JustStored'
  <2> DEFINE job == worker.jobs[Turn]
  <2>1. PICK e \in In(ctx) :
          /\ e.op = job.op /\ e.overlapped = job.overlapped /\ e.target = job.target
          /\ e.result # Pending
          /\ user[e.overlapped].at = "issued"
          /\ e.overlapped \notin signaled /\ apcs[e.overlapped] = 0
    BY <1>3 DEF JustStored
  <2>2. /\ e \in In(ctx)' /\ user'[e.overlapped].at = "issued"
        /\ e.overlapped \notin signaled' /\ apcs'[e.overlapped] = 0
    BY <2>1
  <2>3. worker'.jobs[Turn'] = job
    BY <1>1
  <2> QED BY <2>1, <2>2, <2>3 DEF JustStored
<1> QED BY <1>1, <1>2, <1>3 DEF CarefulInv, Jobs

\* The invariant holds at the start ...
LEMMA CarefulInit == Init => CarefulInv
<1> SUFFICES ASSUME Init PROVE CarefulInv
  OBVIOUS
<1>1. OverlappedTypeOK
  BY OverlappedInitTyped
<1>2. \A s \in Socket, kind \in Kind : ctx[s][kind] = <<>>
  BY DEF Init, Nothing
<1>3. In(ctx) = {}
  <2>1. \A e \in In(ctx) : \E s \in Socket, kind \in Kind : \E i \in DOMAIN ctx[s][kind] : e = ctx[s][kind][i]
    BY <1>1, InIs DEF OverlappedTypeOK
  <2> QED BY <2>1, <1>2
<1>4. Placed(ctx, ops) /\ Sorted(ctx)
  BY <1>2 DEF Placed, Sorted
<1>5. Tied /\ Home /\ Settled /\ Announced
  <2>1. Len(ops) = 0 /\ Len(ops) <= MaxOps
    BY OverlappedAssumption DEF Init
  <2> QED BY <1>3, <2>1 DEF Init, Tied, Home, Settled, Announced
<1>6. Jobs /\ Holding /\ \A s \in Socket : ~InHand(s)
  BY DEF Init, Resting, Jobs, Holding, InHand
<1>7. \A s \in Socket : Reads(s) = {} /\ net[s].took = 0
  BY DEF Init, Reads
<1>8. Data
  BY <1>3, <1>7 DEF Data, DataCame, DataFound, DataSorted, DataFront
<1> QED BY <1>4, <1>5, <1>6, <1>8 DEF CarefulInv

\* The network, closesocket, a handle given out again and WSACleanup change
\* nothing that the invariant is about: under a tidy program there is nothing
\* in the context that goes.
LEMMA StillKeeps ==
  ASSUME OverlappedTypeOK, OverlappedTypeOK', CarefulInv,
         UNCHANGED <<ctx, where, signaled, apcs, user, ops, got>>,
         \A s \in Socket : net'[s].took = net[s].took,
         worker'.at = worker.at /\ worker'.socket = worker.socket /\ worker'.jobs = worker.jobs,
         worker'.result = worker.result
  PROVE  CarefulInv'
<1>1. Placed(ctx, ops)' /\ Sorted(ctx)' /\ Tied' /\ Home' /\ Settled' /\ Announced'
  BY DEF CarefulInv, Placed, Sorted, Tied, Home, Settled, Announced, In
<1>2. In(ctx') = In(ctx) /\ \A k : CameNow(k)' = CameNow(k)
  BY DEF In, CameNow
<1>3. \A e \in In(ctx) : ops[e.op].socket \in Socket
  BY WhereEntryIs DEF CarefulInv, OverlappedTypeOK
<1>4. Turn' = Turn
  BY DEF Turn
<1>5. Jobs'
  BY <1>2, <1>3, JobsKept
<1>6. \A s \in Socket : InHand(s)' = InHand(s)
  BY <1>4 DEF InHand
<1>7. Data'
  BY <1>2, <1>3, <1>6, DataKept DEF Reads
<1>8. Holding'
  <2>1. worker.at = "store" => worker.socket \in Socket
    BY DEF OverlappedTypeOK
  <2> QED BY <1>4, <2>1 DEF CarefulInv, Holding
<1> QED BY <1>1, <1>5, <1>7, <1>8 DEF CarefulInv

\* ... when sockets are closed and opened, data arrive and room is made ...
LEMMA NetKeeps ==
  ASSUME OverlappedTypeOK, OverlappedTypeOK', Careful, CarefulInv,
         NEW s \in Socket, Close(s) \/ Open(s) \/ Arrive(s) \/ Room(s)
  PROVE  CarefulInv'
<1>1. CASE Close(s)
  <2>1. \A t \in Socket : net'[t].took = net[t].took
    BY <1>1 DEF Close, OverlappedTypeOK
  <2> QED BY <1>1, <2>1, StillKeeps DEF Close
<1>2. CASE Arrive(s)
  <2>1. \A t \in Socket : net'[t].took = net[t].took
    BY <1>2 DEF Arrive, OverlappedTypeOK
  <2> QED BY <1>2, <2>1, StillKeeps DEF Arrive
<1>3. CASE Room(s)
  <2>1. \A t \in Socket : net'[t].took = net[t].took
    BY <1>3 DEF Room, OverlappedTypeOK
  <2> QED BY <1>3, <2>1, StillKeeps DEF Room
<1>4. CASE Open(s)
  <2>1. \A t \in Socket : net'[t].took = net[t].took
    BY <1>4 DEF Open, OverlappedTypeOK
  <2>2. Quiet(s)
    BY <1>4 DEF Open, Careful
  <2>3. ASSUME NEW kind \in Kind PROVE ctx[s][kind] = <<>>
    <3>1. ctx[s][kind] \in Seq(EntryType) /\ ctx \in QueuesType
      BY DEF OverlappedTypeOK, QueuesType
    <3>2. ASSUME NEW i \in DOMAIN ctx[s][kind] PROVE FALSE
      <4> DEFINE e == ctx[s][kind][i]
      <4>1. e \in In(ctx)
        BY <3>1, EntryIn
      <4>2. e.overlapped \in Overlapped /\ user[e.overlapped].at # "idle" /\ user[e.overlapped].op = e.op
        BY <4>1, OwnEntry DEF CarefulInv, Tied
      <4>3. ops[e.op].socket = s
        <5>1. ops[ctx[s][kind][i].op] = [socket |-> s, kind |-> kind, overlapped |-> ctx[s][kind][i].overlapped]
          BY DEF CarefulInv, Placed
        <5> QED BY <5>1
      <4>4. Uses(e.overlapped, s)
        BY <4>2, <4>3 DEF Uses
      <4> HIDE DEF e
      <4>5. ~Uses(e.overlapped, s)
        BY <2>2, <4>2 DEF Quiet
      <4> QED BY <4>4, <4>5
    <3>3. 1 \notin DOMAIN ctx[s][kind]
      BY <3>2
    <3>4. Len(ctx[s][kind]) = 0
      BY <3>1, <3>3
    <3> QED BY <3>1, <3>4
  <2>4. ctx' = ctx
    <3>1. ctx[s] = Nothing
      <4>1. ctx[s] \in [Kind -> Seq(EntryType)]
        BY DEF OverlappedTypeOK, QueuesType
      <4> QED BY <4>1, <2>3 DEF Nothing
    <3> QED BY <1>4, <3>1 DEF Open, OverlappedTypeOK, QueuesType
  <2> QED BY <1>4, <2>1, <2>4, StillKeeps DEF Open
<1> QED BY <1>1, <1>2, <1>3, <1>4

\* ... when the library is left ...
LEMMA CleanupKeeps ==
  ASSUME OverlappedTypeOK, OverlappedTypeOK', Careful, CarefulInv, Cleanup
  PROVE  CarefulInv'
<1>1. /\ worker'.at = worker.at /\ worker'.socket = worker.socket /\ worker'.jobs = worker.jobs
      /\ worker'.result = worker.result
  BY DEF Cleanup, OverlappedTypeOK
<1> QED BY <1>1, StillKeeps DEF Cleanup

\* A queued operation is the last one, of an OVERLAPPED that had none.
LEMMA IssueKeeps ==
  ASSUME OverlappedTypeOK, OverlappedTypeOK', Careful, CarefulInv, NEW o \in Overlapped, Issue(o)
  PROVE  CarefulInv'
<1>1. program \in Program
  BY OverlappedAssumption DEF OverlappedTypeOK
<1>2. PICK s \in Socket, kind \in program.kinds, target \in program.targets : Queue(s, kind, o, target)
  BY DEF Issue, RecvFrom, SendTo, Start
<1>3. kind \in Kind /\ target \in {"event", "callback"}
  BY <1>1 DEF Program
<1>0. PICK n : n = Len(ops) + 1
  OBVIOUS
<1> DEFINE e == [overlapped |-> o, target |-> target, op |-> n, result |-> Pending]
<1>4. /\ ctx \in QueuesType /\ ops \in Seq(OpType) /\ ctx' \in QueuesType /\ ops' \in Seq(OpType)
      /\ Placed(ctx, ops) /\ Sorted(ctx)
      /\ Tied /\ Home /\ Settled /\ Announced
  BY DEF OverlappedTypeOK, CarefulInv
<1>5. Len(ops) \in Nat /\ n \in Nat /\ DOMAIN ops = 1 .. Len(ops) /\ Len(ops) < MaxOps /\ n \in 1 .. MaxOps
      /\ n > Len(ops) /\ \A k \in DOMAIN ops : k < n
  BY <1>0, <1>2, <1>4, OverlappedAssumption DEF Queue
<1>6. e \in EntryType
  BY <1>3, <1>5 DEF EntryType, Outcomes
<1>7. /\ ctx' = [ctx EXCEPT ![s] = Enqueued(@, kind, e)]
      /\ ops' = Append(ops, [socket |-> s, kind |-> kind, overlapped |-> e.overlapped])
      /\ where' = [where EXCEPT ![o] = IF @ = NoSocket THEN s ELSE @]
      /\ worker' = [worker EXCEPT !.stopping = FALSE]
  BY <1>0, <1>2 DEF Queue
<1>8. user[o].at = "idle" /\ user' = [user EXCEPT ![o] = [at |-> "issued", op |-> n]]
      /\ signaled' = signaled \ {o} /\ UNCHANGED <<program, net, apcs, got>>
  BY <1>0 DEF Issue, RecvFrom, SendTo, Start, ResetEvent
<1>9. e.op = n /\ e.overlapped = o /\ e.result = Pending
  OBVIOUS
<1> HIDE DEF e
<1>10. Placed(ctx', ops') /\ Sorted(ctx') /\ In(ctx') = In(ctx) \cup {e} /\ e \notin In(ctx)
  <2>1. e.op = Len(ops) + 1 /\ Len(ops') = Len(ops) + 1 /\ \A k \in 1 .. Len(ops) : ops'[k] = ops[k]
    BY <1>0, <1>4, <1>7, <1>9
  <2>2. ops'[Len(ops) + 1] = [socket |-> s, kind |-> kind, overlapped |-> e.overlapped]
    BY <1>4, <1>7
  <2>3. ctx'[s] = Enqueued(ctx[s], kind, e) /\ \A t \in Socket : t # s => ctx'[t] = ctx[t]
    BY <1>4, <1>7 DEF QueuesType
  <2>4. ctx[s] \in [Kind -> Seq(EntryType)]
    BY <1>4 DEF QueuesType
  <2>5. ctx'[s][kind] = Append(ctx[s][kind], e) /\ \A other \in Kind : other # kind => ctx'[s][other] = ctx[s][other]
    BY <2>3, <2>4, <1>3 DEF Enqueued
  <2>6. \A t \in Socket, other \in Kind : t # s \/ other # kind => ctx'[t][other] = ctx[t][other]
    BY <2>3, <2>5
  <2>7. Placed(ctx', ops') /\ Sorted(ctx')
    BY <2>1, <2>2, <2>5, <2>6, <1>3, <1>4, <1>6, AppendEntry
  <2>8. \A f : f \in In(ctx') <=> f \in In(ctx) \/ f = e
    BY <2>1, <2>2, <2>5, <2>6, <1>3, <1>4, <1>6, AppendEntry
  <2>9. e \notin In(ctx)
    BY <2>1, <2>2, <2>5, <2>6, <1>3, <1>4, <1>6, AppendEntry
  <2> QED BY <2>7, <2>8, <2>9
<1>11. DOMAIN ops' = 1 .. n /\ Len(ops') = n
       /\ ops'[n] = [socket |-> s, kind |-> kind, overlapped |-> o]
       /\ \A k \in DOMAIN ops : ops'[k] = ops[k]
  BY <1>0, <1>4, <1>5, <1>7, <1>9
<1>12. \A f \in In(ctx) : /\ f.overlapped \in Overlapped /\ f.overlapped # o
                          /\ f.op \in 1 .. Len(ops) /\ f.op \in DOMAIN ops /\ f.op < n
                          /\ ops'[f.op] = ops[f.op] /\ ops[f.op].socket \in Socket
  <2> SUFFICES ASSUME NEW f \in In(ctx)
               PROVE  /\ f.overlapped \in Overlapped /\ f.overlapped # o
                      /\ f.op \in 1 .. Len(ops) /\ f.op \in DOMAIN ops /\ f.op < n
                      /\ ops'[f.op] = ops[f.op] /\ ops[f.op].socket \in Socket
    OBVIOUS
  <2>1. f.overlapped \in Overlapped /\ f.op \in 1 .. Len(ops)
    BY OwnEntry
  <2>2. f.overlapped # o
    BY <1>4, <1>8 DEF Tied
  <2>3. ops[f.op].socket \in Socket
    BY <1>4, WhereEntryIs
  <2>4. f.op \in DOMAIN ops /\ f.op < n
    BY <2>1, <1>5
  <2>5. ops'[f.op] = ops[f.op]
    BY <2>4, <1>11
  <2> QED BY <2>1, <2>2, <2>3, <2>4, <2>5
<1>13. where[o] = NoSocket /\ apcs[o] = 0
  <2>1. where[o] = NoSocket
    BY <1>4, <1>8 DEF Home
  <2>2. ~(apcs[o] > 0) /\ apcs[o] \in Nat
    BY <1>4, <1>8 DEF Announced, OverlappedTypeOK
  <2> QED BY <2>1, <2>2
<1>14. /\ user'[o] = [at |-> "issued", op |-> n] /\ where'[o] = s
       /\ \A f \in In(ctx) : /\ user'[f.overlapped] = user[f.overlapped]
                             /\ where'[f.overlapped] = where[f.overlapped]
                             /\ (f.overlapped \in signaled') = (f.overlapped \in signaled)
       /\ \A q \in Overlapped : q # o => user'[q] = user[q] /\ where'[q] = where[q]
  BY <1>7, <1>8, <1>12, <1>13 DEF OverlappedTypeOK
<1>15. Tied'
  <2> SUFFICES ASSUME NEW f \in In(ctx')
               PROVE  /\ user'[f.overlapped].at # "idle" /\ user'[f.overlapped].op = f.op
                      /\ where'[f.overlapped] = ops'[f.op].socket
    BY DEF Tied, In
  <2>1. CASE f = e
    BY <2>1, <1>9, <1>11, <1>14
  <2>2. CASE f \in In(ctx)
    BY <2>2, <1>4, <1>12, <1>14 DEF Tied
  <2> QED BY <2>1, <2>2, <1>10
<1>16. Home'
  <2> SUFFICES ASSUME NEW q \in Overlapped
               PROVE  IF user'[q].at = "idle" THEN where'[q] = NoSocket
                      ELSE user'[q].at \in {"issued", "taken", "called"} /\ \E f \in In(ctx') : f.overlapped = q
    BY DEF Home, In
  <2>1. CASE q = o
    BY <2>1, <1>9, <1>10, <1>14
  <2>2. CASE q # o
    BY <2>2, <1>4, <1>10, <1>14 DEF Home
  <2> QED BY <2>1, <2>2
<1>17. Settled'
  <2>1. ASSUME NEW f \in In(ctx')
        PROVE  IF user'[f.overlapped].at = "issued" THEN got[f.op] = Pending
               ELSE got[f.op] = f.result /\ f.result # Pending
    <3>1. CASE f = e
      <4>1. got[n] = Pending
        BY <1>4, <1>5 DEF Settled
      <4> QED BY <3>1, <4>1, <1>9, <1>14
    <3>2. CASE f \in In(ctx)
      BY <3>2, <1>4, <1>14 DEF Settled
    <3> QED BY <3>1, <3>2, <1>10
  <2>2. Len(ops') <= MaxOps /\ \A k \in 1 .. MaxOps : k > Len(ops') => got[k] = Pending
    <3>1. Len(ops') = n /\ n <= MaxOps /\ \A k \in 1 .. MaxOps : k > n => k > Len(ops)
      BY <1>5, <1>11
    <3> QED BY <3>1, <1>4 DEF Settled
  <2> QED BY <2>1, <2>2, <1>8 DEF Settled, In
<1>18. Announced'
  <2>1. ASSUME NEW f \in In(ctx')
        PROVE  /\ f.result = Pending => f.overlapped \notin signaled' /\ apcs[f.overlapped] = 0
               /\ apcs[f.overlapped] > 0 => f.target = "callback"
    <3>1. CASE f = e
      BY <3>1, <1>8, <1>9, <1>13
    <3>2. CASE f \in In(ctx)
      BY <3>2, <1>4, <1>14 DEF Announced
    <3> QED BY <3>1, <3>2, <1>10
  <2>2. \A q \in Overlapped : apcs[q] > 0 => apcs[q] = 1 /\ user'[q].at = "issued"
    BY <1>4, <1>14 DEF Announced
  <2> QED BY <2>1, <2>2, <1>8 DEF Announced, In
<1>19. In(ctx)' = In(ctx') /\ \A k : CameNow(k)' = CameIn(In(ctx'), got, k)
  BY <1>8 DEF CameNow, In
<1>20. worker'.at = worker.at /\ worker'.socket = worker.socket /\ worker'.jobs = worker.jobs
       /\ worker'.result = worker.result /\ Turn' = Turn
  BY <1>7 DEF OverlappedTypeOK, Turn
<1>21. \A f \in In(ctx') : f.result = Pending =>
         \/ f \in In(ctx) /\ ops'[f.op] = ops[f.op] /\ ops[f.op].socket \in Socket
         \/ ops'[f.op].socket \in Socket /\ \A k \in DOMAIN ops : k < f.op
  <2> SUFFICES ASSUME NEW f \in In(ctx')
               PROVE  \/ f \in In(ctx) /\ ops'[f.op] = ops[f.op] /\ ops[f.op].socket \in Socket
                      \/ ops'[f.op].socket \in Socket /\ \A k \in DOMAIN ops : k < f.op
    OBVIOUS
  <2>1. CASE f = e
    BY <2>1, <1>5, <1>9, <1>11
  <2>2. CASE f \in In(ctx)
    BY <2>2, <1>12
  <2> QED BY <2>1, <2>2, <1>10
<1>22. Jobs'
  <2>1. \A f \in In(ctx) : f.result = Pending => f \in In(ctx)' /\ ops'[f.op] = ops[f.op]
    BY <1>10, <1>12, <1>19
  <2>2. \A f \in In(ctx) :
           /\ f.result # Pending /\ user[f.overlapped].at = "issued"
           /\ f.overlapped \notin signaled /\ apcs[f.overlapped] = 0
           => /\ f \in In(ctx)' /\ user'[f.overlapped].at = "issued"
              /\ f.overlapped \notin signaled' /\ apcs'[f.overlapped] = 0
    BY <1>8, <1>10, <1>14, <1>19
  <2>3. worker'.at = worker.at /\ worker'.socket = worker.socket /\ worker'.jobs = worker.jobs
    BY <1>20
  <2> QED BY <2>1, <2>2, <2>3, <1>19, <1>21, JobsKept
<1>23. \A k \in DOMAIN ops : CameNow(k)' = CameNow(k)
  <2>1. \A f \in In(ctx') : got[f.op] = Pending \/ got[f.op] = f.result
    BY <1>8, <1>17 DEF Settled, In
  <2>2. ctx' \in QueuesType
    BY DEF OverlappedTypeOK
  <2>3. \A f \in In(ctx) : got[f.op] = Pending \/ got[f.op] = f.result
    BY <1>4 DEF Settled
  <2>4. /\ \A f \in In(ctx') : CameIn(In(ctx'), got, f.op) = f.result
        /\ \A k : (\A f \in In(ctx') : f.op # k) => CameIn(In(ctx'), got, k) = got[k]
    BY <2>1, <2>2, <1>10, CameIs
  <2>5. /\ \A f \in In(ctx) : CameIn(In(ctx), got, f.op) = f.result
        /\ \A k : (\A f \in In(ctx) : f.op # k) => CameIn(In(ctx), got, k) = got[k]
    BY <2>3, <1>4, CameIs
  <2> SUFFICES ASSUME NEW k \in DOMAIN ops PROVE CameIn(In(ctx'), got, k) = CameIn(In(ctx), got, k)
    BY <1>19 DEF CameNow
  <2>6. CASE \E f \in In(ctx) : f.op = k
    BY <2>4, <2>5, <2>6, <1>10
  <2>7. CASE \A f \in In(ctx) : f.op # k
    <3>1. \A f \in In(ctx') : f.op # k
      <4>1. k # n
        BY <1>5
      <4> QED BY <4>1, <2>7, <1>9, <1>10
    <3> QED BY <2>4, <2>5, <2>7, <3>1
  <2> QED BY <2>6, <2>7
<1>24. \A k : k = n => CameNow(k)' = Pending
  <2>1. \A f \in In(ctx') : got[f.op] = Pending \/ got[f.op] = f.result
    BY <1>8, <1>17 DEF Settled, In
  <2>2. ctx' \in QueuesType
    BY DEF OverlappedTypeOK
  <2>3. \A f \in In(ctx') : CameIn(In(ctx'), got, f.op) = f.result
    BY <2>1, <2>2, <1>10, CameIs
  <2> QED BY <2>3, <1>9, <1>10, <1>19
<1>25. Data'
  <2>1. \A t \in Socket : net'[t].took = net[t].took /\ InHand(t)' = InHand(t)
    BY <1>8, <1>20 DEF InHand
  <2>2. \A t \in Socket : \A k \in Reads(t) : k \in Reads(t)' /\ CameNow(k)' = CameNow(k)
    <3> SUFFICES ASSUME NEW t \in Socket, NEW k \in Reads(t) PROVE k \in Reads(t)' /\ CameNow(k)' = CameNow(k)
      OBVIOUS
    <3>1. k \in DOMAIN ops /\ ops[k].socket = t /\ ops[k].kind = "read"
      BY DEF Reads
    <3>2. k \in DOMAIN ops' /\ ops'[k] = ops[k]
      BY <3>1, <1>5, <1>11
    <3> QED BY <3>1, <3>2, <1>23 DEF Reads
  <2>3. \A t \in Socket : \A k \in Reads(t)' : k \in Reads(t) \/ CameNow(k)' = Pending
    <3> SUFFICES ASSUME NEW t \in Socket, NEW k \in Reads(t)' PROVE k \in Reads(t) \/ CameNow(k)' = Pending
      OBVIOUS
    <3>1. k \in 1 .. n /\ ops'[k].socket = t /\ ops'[k].kind = "read"
      BY <1>11 DEF Reads
    <3>2. CASE k = n
      BY <3>2, <1>24
    <3>3. CASE k # n
      <4>1. k \in DOMAIN ops
        BY <3>1, <3>3, <1>0, <1>5
      <4> QED BY <4>1, <3>1, <1>11 DEF Reads
    <3> QED BY <3>2, <3>3
  <2> QED BY <2>1, <2>2, <2>3, <1>19, <1>21, DataKept
<1>26. Holding'
  <2>1. worker.at = "store" => worker.socket \in Socket
    BY DEF OverlappedTypeOK
  <2> QED BY <2>1, <1>8, <1>20 DEF CarefulInv, Holding
<1>27. Placed(ctx, ops)' /\ Sorted(ctx)'
  BY <1>10 DEF Placed, Sorted
<1> QED BY <1>15, <1>16, <1>17, <1>18, <1>22, <1>25, <1>26, <1>27 DEF CarefulInv

\* The program takes the result of an operation that is done.
LEMMA LearnKeeps ==
  ASSUME OverlappedTypeOK, OverlappedTypeOK', Careful, CarefulInv,
         NEW o \in Overlapped, NEW e \in In(ctx), e.overlapped = o, e.result # Pending,
         user[o].at = "issued", o \in signaled \/ apcs[o] > 0,
         NEW at \in {"taken", "called"}, Learn(o, e.result, at),
         apcs' = [apcs EXCEPT ![o] = 0],
         UNCHANGED <<program, net, ctx, where, signaled, worker, ops>>
  PROVE  CarefulInv'
<1>1. /\ ctx \in QueuesType /\ Placed(ctx, ops) /\ Sorted(ctx) /\ Tied /\ Home /\ Settled /\ Announced
  BY DEF OverlappedTypeOK, CarefulInv
<1>2. e.op \in 1 .. MaxOps /\ e.op \in 1 .. Len(ops) /\ user[o].op = e.op
  BY <1>1, OwnEntry DEF Tied
<1>3. /\ user' = [user EXCEPT ![o].at = at] /\ got' = [got EXCEPT ![e.op] = e.result]
  BY <1>2 DEF Learn
<1>4. /\ user'[o].at = at /\ user'[o].op = user[o].op
      /\ \A q \in Overlapped : q # o => user'[q] = user[q] /\ apcs'[q] = apcs[q]
      /\ apcs'[o] = 0
  BY <1>3 DEF OverlappedTypeOK
<1>5. \A f \in In(ctx) : /\ f.overlapped \in Overlapped /\ (f.overlapped = o => f = e)
                         /\ f.op \in 1 .. MaxOps /\ (f # e => f.op # e.op) /\ ops[f.op].socket \in Socket
  BY <1>1, OwnEntry, EntryOfOp, WhereEntryIs DEF Alone
<1>6. got'[e.op] = e.result /\ \A k \in 1 .. MaxOps : k # e.op => got'[k] = got[k]
  BY <1>2, <1>3 DEF OverlappedTypeOK
<1>7. Tied'
  <2> SUFFICES ASSUME NEW f \in In(ctx)
               PROVE  /\ user'[f.overlapped].at # "idle" /\ user'[f.overlapped].op = f.op
                      /\ where[f.overlapped] = ops[f.op].socket
    BY DEF Tied, In
  <2> QED BY <1>1, <1>4, <1>5 DEF Tied
<1>8. Home'
  <2> SUFFICES ASSUME NEW q \in Overlapped
               PROVE  IF user'[q].at = "idle" THEN where[q] = NoSocket
                      ELSE user'[q].at \in {"issued", "taken", "called"} /\ \E f \in In(ctx) : f.overlapped = q
    BY DEF Home, In
  <2> QED BY <1>1, <1>4 DEF Home
<1>9. Settled'
  <2>1. ASSUME NEW f \in In(ctx)
        PROVE  IF user'[f.overlapped].at = "issued" THEN got'[f.op] = Pending
               ELSE got'[f.op] = f.result /\ f.result # Pending
    <3>1. CASE f = e
      BY <3>1, <1>4, <1>6
    <3>2. CASE f # e
      <4>1. f.overlapped # o /\ f.op # e.op /\ f.op \in 1 .. MaxOps /\ f.overlapped \in Overlapped
        BY <3>2, <1>5
      <4>2. user'[f.overlapped] = user[f.overlapped] /\ got'[f.op] = got[f.op]
        BY <4>1, <1>4, <1>6
      <4> QED BY <4>2, <1>1 DEF Settled
    <3> QED BY <3>1, <3>2
  <2>2. Len(ops) <= MaxOps /\ \A k \in 1 .. MaxOps : k > Len(ops) => got'[k] = Pending
    <3>1. \A k \in 1 .. MaxOps : k > Len(ops) => k # e.op
      BY <1>2
    <3> QED BY <3>1, <1>1, <1>6 DEF Settled
  <2> QED BY <2>1, <2>2 DEF Settled, In
<1>10. Announced'
  <2>1. ASSUME NEW f \in In(ctx)
        PROVE  /\ f.result = Pending => f.overlapped \notin signaled /\ apcs'[f.overlapped] = 0
               /\ apcs'[f.overlapped] > 0 => f.target = "callback"
    <3>1. CASE f = e
      BY <3>1, <1>4
    <3>2. CASE f # e
      BY <3>2, <1>1, <1>4, <1>5 DEF Announced
    <3> QED BY <3>1, <3>2
  <2>2. \A q \in Overlapped : apcs'[q] > 0 => apcs'[q] = 1 /\ user'[q].at = "issued"
    BY <1>1, <1>4 DEF Announced
  <2> QED BY <2>1, <2>2 DEF Announced, In
<1>11. In(ctx)' = In(ctx) /\ \A k : CameNow(k)' = CameIn(In(ctx), got', k)
  BY DEF CameNow, In
<1>12. \A k : k \in DOMAIN ops => CameNow(k)' = CameNow(k)
  <2>1. \A f \in In(ctx) : got'[f.op] = Pending \/ got'[f.op] = f.result
    BY <1>9 DEF Settled, In
  <2>2. \A f \in In(ctx) : got[f.op] = Pending \/ got[f.op] = f.result
    BY <1>1 DEF Settled
  <2>3. /\ \A f \in In(ctx) : CameIn(In(ctx), got', f.op) = f.result
        /\ \A k : (\A f \in In(ctx) : f.op # k) => CameIn(In(ctx), got', k) = got'[k]
    BY <2>1, <1>1, CameIs
  <2>4. /\ \A f \in In(ctx) : CameIn(In(ctx), got, f.op) = f.result
        /\ \A k : (\A f \in In(ctx) : f.op # k) => CameIn(In(ctx), got, k) = got[k]
    BY <2>2, <1>1, CameIs
  <2> SUFFICES ASSUME NEW k \in DOMAIN ops PROVE CameIn(In(ctx), got', k) = CameIn(In(ctx), got, k)
    BY <1>11 DEF CameNow
  <2>5. CASE \E f \in In(ctx) : f.op = k
    BY <2>3, <2>4, <2>5
  <2>6. CASE \A f \in In(ctx) : f.op # k
    <3>1. k # e.op /\ k \in 1 .. MaxOps
      <4>1. k \in 1 .. Len(ops) /\ Len(ops) <= MaxOps
        BY <1>1 DEF OverlappedTypeOK, Settled
      <4> QED BY <4>1, <2>6, OverlappedAssumption DEF OverlappedTypeOK
    <3> QED BY <3>1, <2>3, <2>4, <2>6, <1>6
  <2> QED BY <2>5, <2>6
<1>13. Jobs'
  <2>1. \A f \in In(ctx) :
           /\ f.result # Pending /\ user[f.overlapped].at = "issued"
           /\ f.overlapped \notin signaled /\ apcs[f.overlapped] = 0
           => /\ f \in In(ctx)' /\ user'[f.overlapped].at = "issued"
              /\ f.overlapped \notin signaled' /\ apcs'[f.overlapped] = 0
    <3> SUFFICES ASSUME NEW f \in In(ctx), f.result # Pending, user[f.overlapped].at = "issued",
                        f.overlapped \notin signaled, apcs[f.overlapped] = 0
                 PROVE  /\ f \in In(ctx)' /\ user'[f.overlapped].at = "issued"
                        /\ f.overlapped \notin signaled' /\ apcs'[f.overlapped] = 0
      OBVIOUS
    <3>1. f.overlapped # o /\ f.overlapped \in Overlapped
      BY <1>5
    <3> QED BY <3>1, <1>4, <1>11
  <2> QED BY <2>1, <1>5, <1>11, JobsKept
<1>14. Turn' = Turn
  BY DEF Turn
<1>15. Data'
  <2>1. \A t \in Socket : net'[t].took = net[t].took /\ InHand(t)' = InHand(t)
    BY <1>14 DEF InHand
  <2>2. \A t \in Socket : \A k \in Reads(t) : k \in Reads(t)' /\ CameNow(k)' = CameNow(k)
    BY <1>12 DEF Reads
  <2>3. \A t \in Socket : \A k \in Reads(t)' : k \in Reads(t) \/ CameNow(k)' = Pending
    BY DEF Reads
  <2> QED BY <2>1, <2>2, <2>3, <1>5, <1>11, DataKept
<1>16. Holding'
  BY <1>14 DEF CarefulInv, Holding
<1>17. Placed(ctx, ops)' /\ Sorted(ctx)'
  BY <1>1 DEF Placed, Sorted
<1> QED BY <1>7, <1>8, <1>9, <1>10, <1>13, <1>15, <1>16, <1>17 DEF CarefulInv

\* ... when a program asks for a result ...
LEMMA AskKeeps ==
  ASSUME OverlappedTypeOK, OverlappedTypeOK', Careful, CarefulInv, NEW o \in Overlapped, Ask(o)
  PROVE  CarefulInv'
<1>1. user[o].at = "issued" /\ ~CalledBack(o) /\ o \in signaled
  BY DEF Ask, EventSet, Careful
<1>2. PICK e \in In(ctx) : e.overlapped = o
  BY <1>1 DEF CarefulInv, Home
<1>3. e.result # Pending
  BY <1>1, <1>2 DEF CarefulInv, Announced
<1>4. Result(o) = e.result /\ e.result \in Outcomes
  BY <1>2, ResultIs, OwnEntry DEF EntryType
<1>5. e.result.is # "invalid"
  BY <1>4 DEF Outcomes, Pending, Failed, Ok
<1>6. Learn(o, e.result, "taken") /\ UNCHANGED <<program, net, ctx, where, signaled, apcs, worker, ops>>
  BY <1>3, <1>4, <1>5 DEF Ask
<1>7. apcs[o] = 0
  <2>1. SUFFICES ASSUME apcs[o] > 0 PROVE FALSE
    BY DEF OverlappedTypeOK
  <2>2. e.target = "callback" /\ e.op = user[o].op
    BY <2>1, <1>2 DEF CarefulInv, Announced, Tied
  <2>3. PICK s \in Socket, kind \in Kind : \E i \in DOMAIN ctx[s][kind] : e = ctx[s][kind][i]
    BY InIs DEF OverlappedTypeOK
  <2> QED BY <2>2, <2>3, <1>1 DEF CalledBack
<1>8. apcs' = [apcs EXCEPT ![o] = 0]
  BY <1>6, <1>7 DEF OverlappedTypeOK
<1> QED BY <1>1, <1>2, <1>3, <1>6, <1>8, LearnKeeps

\* ... when a completion routine runs ...
LEMMA RunApcKeeps ==
  ASSUME OverlappedTypeOK, OverlappedTypeOK', Careful, CarefulInv, NEW o \in Overlapped, RunApc(o)
  PROVE  CarefulInv'
<1>1. apcs[o] = 1 /\ user[o].at = "issued"
  BY DEF RunApc, CarefulInv, Announced
<1>2. PICK e \in In(ctx) : e.overlapped = o
  BY <1>1 DEF CarefulInv, Home
<1>3. e.result # Pending
  BY <1>1, <1>2 DEF CarefulInv, Announced
<1>4. Result(o) = e.result /\ e.result \in Outcomes
  BY <1>2, ResultIs, OwnEntry DEF EntryType
<1>5. e.result.is # "invalid" /\ e.result.is # "pending"
  BY <1>3, <1>4 DEF Outcomes, Pending, Failed, Ok
<1>6. Learn(o, e.result, "called") /\ UNCHANGED <<program, net, ctx, where, signaled, worker, ops>>
  BY <1>1, <1>4, <1>5 DEF RunApc
<1>7. apcs' = [apcs EXCEPT ![o] = 0]
  <2>1. apcs' = [apcs EXCEPT ![o] = apcs[o] - 1] /\ apcs[o] - 1 = 0
    BY <1>1 DEF RunApc
  <2> QED BY <2>1
<1>8. o \in signaled \/ apcs[o] > 0
  BY <1>1
<1> QED BY <1>1, <1>2, <1>3, <1>6, <1>7, <1>8, LearnKeeps

\* The operation of an OVERLAPPED whose thread has its result is removed.
LEMMA RemoveKeeps ==
  ASSUME OverlappedTypeOK, OverlappedTypeOK', Careful, CarefulInv, NEW o \in Overlapped, RemoveWork(o)
  PROVE  CarefulInv'
<1>1. /\ ctx \in QueuesType /\ ctx' \in QueuesType /\ Placed(ctx, ops) /\ Sorted(ctx)
      /\ Tied /\ Home /\ Settled /\ Announced
  BY DEF OverlappedTypeOK, CarefulInv
<1>2. user[o].at \in {"taken", "called"}
  BY <1>1 DEF RemoveWork, Home
<1>3. PICK e \in In(ctx) : e.overlapped = o
  BY <1>1, <1>2 DEF Home
<1>4. Alone(ctx, e) /\ e.op \in 1 .. MaxOps /\ e.op \in 1 .. Len(ops)
  BY OwnEntry
<1>5. PICK s \in Socket, kind \in Kind : s = ops[e.op].socket /\ kind = ops[e.op].kind
  BY <1>1, WhereEntryIs
<1> DEFINE r == OfOverlapped(ctx[s][kind], o)
<1>6. where[o] = s /\ where[o] # NoSocket
  BY <1>1, <1>3, <1>5, OverlappedAssumption DEF Tied
<1>7. /\ ctx' = [ctx EXCEPT ![s] = Without(@, o)] /\ where' = [where EXCEPT ![o] = NoSocket]
      /\ user' = [user EXCEPT ![o].at = "idle"]
      /\ UNCHANGED <<program, net, signaled, apcs, worker, ops, got>>
  BY <1>2, <1>6 DEF RemoveWork
<1>8. r \in DOMAIN ctx[s][kind] /\ r # 0 /\ ctx[s][kind][r] = e
  BY <1>1, <1>3, <1>4, <1>5, FoundThere
<1>9. \A other \in Kind : other # kind => OfOverlapped(ctx[s][other], o) = 0
  BY <1>1, <1>3, <1>4, <1>5, FoundThere
<1>10. Placed(ctx', ops) /\ Sorted(ctx') /\ \A f : f \in In(ctx') <=> f \in In(ctx) /\ f # e
  <2>1. ctx'[s] = Without(ctx[s], o) /\ \A t \in Socket : t # s => ctx'[t] = ctx[t]
    BY <1>1, <1>7 DEF QueuesType
  <2>2. ctx'[s][kind] = RemoveAt(ctx[s][kind], r)
    BY <2>1, <1>8 DEF Without
  <2>3. \A other \in Kind : other # kind => ctx'[s][other] = ctx[s][other]
    BY <2>1, <1>9 DEF Without
  <2>4. \A t \in Socket, other \in Kind : t # s \/ other # kind => ctx'[t][other] = ctx[t][other]
    BY <2>1, <2>3
  <2> HIDE DEF r
  <2>5. Placed(ctx', ops) /\ Sorted(ctx')
    BY <2>2, <2>4, <1>1, <1>8, RemoveEntry
  <2>6. \A f : f \in In(ctx') <=> f \in In(ctx) /\ f # ctx[s][kind][r]
    BY <2>2, <2>4, <1>1, <1>8, RemoveEntry
  <2> QED BY <2>5, <2>6, <1>8
<1> HIDE DEF r
<1>11. /\ user'[o].at = "idle" /\ where'[o] = NoSocket
       /\ \A q \in Overlapped : q # o => user'[q] = user[q] /\ where'[q] = where[q]
  BY <1>7 DEF OverlappedTypeOK
<1>12. \A f \in In(ctx') : /\ f \in In(ctx) /\ f # e /\ f.overlapped \in Overlapped /\ f.overlapped # o
                           /\ f.op # e.op /\ ops[f.op].socket \in Socket
  <2> SUFFICES ASSUME NEW f \in In(ctx')
               PROVE  /\ f \in In(ctx) /\ f # e /\ f.overlapped \in Overlapped /\ f.overlapped # o
                      /\ f.op # e.op /\ ops[f.op].socket \in Socket
    OBVIOUS
  <2>1. f \in In(ctx) /\ f # e
    BY <1>10
  <2>2. f.overlapped \in Overlapped /\ f.overlapped # o
    BY <2>1, <1>3, <1>4, OwnEntry DEF Alone
  <2>3. f.op # e.op
    BY <2>1, <1>1, EntryOfOp
  <2>4. ops[f.op].socket \in Socket
    BY <2>1, <1>1, WhereEntryIs
  <2> QED BY <2>1, <2>2, <2>3, <2>4
<1>13. e.result # Pending /\ got[e.op] = e.result
  BY <1>1, <1>2, <1>3 DEF Settled
<1>14. apcs[o] = 0
  <2>1. ~(apcs[o] > 0) /\ apcs[o] \in Nat
    BY <1>1, <1>2 DEF Announced, OverlappedTypeOK
  <2> QED BY <2>1
<1>15. Tied'
  <2> SUFFICES ASSUME NEW f \in In(ctx')
               PROVE  /\ user'[f.overlapped].at # "idle" /\ user'[f.overlapped].op = f.op
                      /\ where'[f.overlapped] = ops[f.op].socket
    BY <1>7 DEF Tied, In
  <2> QED BY <1>1, <1>11, <1>12 DEF Tied
<1>16. Home'
  <2> SUFFICES ASSUME NEW q \in Overlapped
               PROVE  IF user'[q].at = "idle" THEN where'[q] = NoSocket
                      ELSE user'[q].at \in {"issued", "taken", "called"} /\ \E f \in In(ctx') : f.overlapped = q
    BY DEF Home, In
  <2>1. CASE q = o
    BY <2>1, <1>11
  <2>2. CASE q # o
    BY <2>2, <1>1, <1>3, <1>10, <1>11 DEF Home
  <2> QED BY <2>1, <2>2
<1>17. Settled'
  <2>1. ASSUME NEW f \in In(ctx')
        PROVE  IF user'[f.overlapped].at = "issued" THEN got[f.op] = Pending
               ELSE got[f.op] = f.result /\ f.result # Pending
    BY <1>1, <1>11, <1>12 DEF Settled
  <2> QED BY <2>1, <1>1, <1>7 DEF Settled, In
<1>18. Announced'
  <2>1. ASSUME NEW f \in In(ctx')
        PROVE  /\ f.result = Pending => f.overlapped \notin signaled /\ apcs[f.overlapped] = 0
               /\ apcs[f.overlapped] > 0 => f.target = "callback"
    BY <1>1, <1>12 DEF Announced
  <2>2. \A q \in Overlapped : apcs[q] > 0 => apcs[q] = 1 /\ user'[q].at = "issued"
    BY <1>1, <1>11, <1>14 DEF Announced
  <2> QED BY <2>1, <2>2, <1>7 DEF Announced, In
<1>19. In(ctx)' = In(ctx') /\ \A k : CameNow(k)' = CameIn(In(ctx'), got, k)
  BY <1>7 DEF CameNow, In
<1>20. \A k : k \in DOMAIN ops => CameNow(k)' = CameNow(k)
  <2>1. \A f \in In(ctx') : got[f.op] = Pending \/ got[f.op] = f.result
    BY <1>7, <1>17 DEF Settled, In
  <2>2. \A f \in In(ctx) : got[f.op] = Pending \/ got[f.op] = f.result
    BY <1>1 DEF Settled
  <2>3. /\ \A f \in In(ctx') : CameIn(In(ctx'), got, f.op) = f.result
        /\ \A k : (\A f \in In(ctx') : f.op # k) => CameIn(In(ctx'), got, k) = got[k]
    BY <2>1, <1>1, <1>10, CameIs
  <2>4. /\ \A f \in In(ctx) : CameIn(In(ctx), got, f.op) = f.result
        /\ \A k : (\A f \in In(ctx) : f.op # k) => CameIn(In(ctx), got, k) = got[k]
    BY <2>2, <1>1, CameIs
  <2> SUFFICES ASSUME NEW k \in DOMAIN ops PROVE CameIn(In(ctx'), got, k) = CameIn(In(ctx), got, k)
    BY <1>19 DEF CameNow
  <2>5. CASE \E f \in In(ctx') : f.op = k
    BY <2>3, <2>4, <2>5, <1>10
  <2>6. CASE k = e.op
    <3>1. \A f \in In(ctx') : f.op # k
      BY <2>6, <1>12
    <3> QED BY <3>1, <2>3, <2>4, <2>6, <1>13
  <2>7. CASE k # e.op /\ \A f \in In(ctx') : f.op # k
    <3>1. \A f \in In(ctx) : f.op # k
      BY <2>7, <1>10
    <3> QED BY <3>1, <2>3, <2>4, <2>7
  <2> QED BY <2>5, <2>6, <2>7
<1>21. Jobs'
  <2>1. \A f \in In(ctx) : f.result = Pending => f \in In(ctx)' /\ ops'[f.op] = ops[f.op]
    BY <1>7, <1>10, <1>13, <1>19
  <2>2. \A f \in In(ctx)' : f.result = Pending =>
           \/ f \in In(ctx) /\ ops'[f.op] = ops[f.op] /\ ops[f.op].socket \in Socket
           \/ ops'[f.op].socket \in Socket /\ \A k \in DOMAIN ops : k < f.op
    BY <1>7, <1>12, <1>19
  <2>3. \A f \in In(ctx) :
           /\ f.result # Pending /\ user[f.overlapped].at = "issued"
           /\ f.overlapped \notin signaled /\ apcs[f.overlapped] = 0
           => /\ f \in In(ctx)' /\ user'[f.overlapped].at = "issued"
              /\ f.overlapped \notin signaled' /\ apcs'[f.overlapped] = 0
    BY <1>2, <1>3, <1>7, <1>10, <1>11, <1>12, <1>19
  <2>4. worker'.at = worker.at /\ worker'.socket = worker.socket /\ worker'.jobs = worker.jobs
    BY <1>7
  <2> QED BY <2>1, <2>2, <2>3, <2>4, JobsKept
<1>22. Turn' = Turn
  BY <1>7 DEF Turn
<1>23. Data'
  <2>1. \A t \in Socket : net'[t].took = net[t].took /\ InHand(t)' = InHand(t)
    BY <1>7, <1>22 DEF InHand
  <2>2. \A t \in Socket : \A k \in Reads(t) : k \in Reads(t)' /\ CameNow(k)' = CameNow(k)
    BY <1>7, <1>20 DEF Reads
  <2>3. \A t \in Socket : \A k \in Reads(t)' : k \in Reads(t) \/ CameNow(k)' = Pending
    BY <1>7 DEF Reads
  <2>4. \A f \in In(ctx)' : f.result = Pending =>
           \/ f \in In(ctx) /\ ops'[f.op] = ops[f.op] /\ ops[f.op].socket \in Socket
           \/ ops'[f.op].socket \in Socket /\ \A k \in DOMAIN ops : k < f.op
    BY <1>7, <1>12, <1>19
  <2> QED BY <2>1, <2>2, <2>3, <2>4, DataKept
<1>24. Holding'
  BY <1>7, <1>22 DEF CarefulInv, Holding
<1>25. Placed(ctx, ops)' /\ Sorted(ctx)'
  BY <1>7, <1>10 DEF Placed, Sorted
<1> QED BY <1>15, <1>16, <1>17, <1>18, <1>21, <1>23, <1>24, <1>25 DEF CarefulInv

\* A step of the worker that touches neither queues nor sockets is right if its
\* copies are.
LEMMA WorkerKeeps ==
  ASSUME OverlappedTypeOK, OverlappedTypeOK', CarefulInv,
         UNCHANGED <<net, ctx, where, signaled, apcs, user, ops, got>>,
         worker.at # "store", worker'.at # "store", Jobs'
  PROVE  CarefulInv'
<1>1. Placed(ctx, ops)' /\ Sorted(ctx)' /\ Tied' /\ Home' /\ Settled' /\ Announced'
  BY DEF CarefulInv, Placed, Sorted, Tied, Home, Settled, Announced, In
<1>2. In(ctx') = In(ctx) /\ \A k : CameNow(k)' = CameNow(k)
  BY DEF In, CameNow
<1>3. \A e \in In(ctx) : ops[e.op].socket \in Socket
  BY WhereEntryIs DEF CarefulInv, OverlappedTypeOK
<1>4. \A s \in Socket : InHand(s)' = InHand(s)
  BY DEF InHand
<1>5. Data'
  BY <1>2, <1>3, <1>4, DataKept DEF Reads
<1>6. Holding'
  BY DEF Holding
<1> QED BY <1>1, <1>5, <1>6 DEF CarefulInv

\* ... when the worker begins and ends a cycle ...
LEMMA CycleKeeps ==
  ASSUME OverlappedTypeOK, OverlappedTypeOK', CarefulInv, Cycle \/ EndCycle
  PROVE  CarefulInv'
<1>1. worker.at # "store" /\ worker'.at \in {"each", "rest"}
  BY DEF Cycle, EndCycle, Resting, OverlappedTypeOK
<1>2. Jobs'
  BY <1>1 DEF Jobs
<1>3. UNCHANGED <<net, ctx, where, signaled, apcs, user, ops, got>>
  BY DEF Cycle, EndCycle
<1> QED BY <1>1, <1>2, <1>3, WorkerKeeps

\* The first waiting operations of a queue are those with the least number.
LEMMA PeekKeeps ==
  ASSUME OverlappedTypeOK, OverlappedTypeOK', CarefulInv, NEW s \in Socket, Peek(s)
  PROVE  CarefulInv'
<1> DEFINE waiting == {kind \in Kind : FirstPending(ctx[s][kind]) # 0}
           jobs == [kind \in waiting |-> ctx[s][kind][FirstPending(ctx[s][kind])]]
<1>1. ctx \in QueuesType /\ Placed(ctx, ops) /\ Sorted(ctx)
  BY DEF OverlappedTypeOK, CarefulInv
<1>2. /\ worker' = [worker EXCEPT !.left = @ \ {s}, !.socket = s, !.jobs = jobs,
                                  !.at = IF waiting = {} THEN "each" ELSE "select"]
      /\ worker.at = "each" /\ UNCHANGED <<net, ctx, where, signaled, apcs, user, ops, got>>
  BY DEF Peek, Waiting
<1>3. ASSUME NEW kind \in waiting
      PROVE  /\ jobs[kind] \in In(ctx) /\ jobs[kind].result = Pending
             /\ ops[jobs[kind].op].socket = s /\ ops[jobs[kind].op].kind = kind
             /\ \A e \in In(ctx) :
                  e.result = Pending /\ ops[e.op].socket = s /\ ops[e.op].kind = kind => jobs[kind].op <= e.op
  <2> DEFINE i == FirstPending(ctx[s][kind])
  <2>1. kind \in Kind /\ ctx[s][kind] \in Seq(EntryType) /\ i # 0
    BY <1>1 DEF QueuesType
  <2>2. /\ i \in DOMAIN ctx[s][kind] /\ ctx[s][kind][i].result = Pending
        /\ \A j \in DOMAIN ctx[s][kind] : j < i => ctx[s][kind][j].result # Pending
    BY <2>1, FirstWaits
  <2>3. jobs[kind] = ctx[s][kind][i]
    OBVIOUS
  <2> HIDE DEF i, jobs
  <2>4. jobs[kind] \in In(ctx)
    BY <2>1, <2>2, <2>3, <1>1, EntryIn
  <2>5. ops[jobs[kind].op] = [socket |-> s, kind |-> kind, overlapped |-> jobs[kind].overlapped]
    <3>1. ops[ctx[s][kind][i].op] = [socket |-> s, kind |-> kind, overlapped |-> ctx[s][kind][i].overlapped]
      BY <2>1, <2>2, <1>1 DEF Placed
    <3> QED BY <3>1, <2>3
  <2>6. ASSUME NEW e \in In(ctx), e.result = Pending, ops[e.op].socket = s, ops[e.op].kind = kind
        PROVE  jobs[kind].op <= e.op
    <3>1. PICK j \in DOMAIN ctx[s][kind] : e = ctx[s][kind][j]
      <4>1. \E j \in DOMAIN ctx[ops[e.op].socket][ops[e.op].kind] : e = ctx[ops[e.op].socket][ops[e.op].kind][j]
        BY <1>1, EntryAt
      <4> QED BY <4>1, <2>6
    <3>2. ~(j < i) /\ i \in Nat /\ j \in Nat
      BY <2>1, <2>2, <2>6, <3>1
    <3>3. i < j => ctx[s][kind][i].op < ctx[s][kind][j].op
      BY <2>1, <2>2, <1>1 DEF Sorted
    <3>4. ctx[s][kind][i].op \in Nat /\ ctx[s][kind][j].op \in Nat
      BY <2>1, <2>2, <1>1, EntriesTyped DEF EntryType
    <3> QED BY <2>3, <3>1, <3>2, <3>3, <3>4
  <2> QED BY <2>2, <2>3, <2>4, <2>5, <2>6
<1>4. DOMAIN jobs = waiting
  OBVIOUS
<1> HIDE DEF waiting, jobs
<1>5. /\ worker'.at \in {"each", "select"} /\ worker'.socket = s /\ worker'.jobs = jobs
      /\ In(ctx)' = In(ctx)
  <2>1. worker'.socket = s /\ worker'.jobs = jobs /\ worker'.at \in {"each", "select"}
    BY <1>2 DEF OverlappedTypeOK
  <2>2. In(ctx)' = In(ctx)
    BY <1>2 DEF In
  <2> QED BY <2>1, <2>2
<1>6. Jobs'
  BY <1>2, <1>3, <1>4, <1>5 DEF Jobs, Waits
<1> QED BY <1>2, <1>5, <1>6, WorkerKeeps

\* ... when it has selected ...
LEMMA SelectKeeps ==
  ASSUME OverlappedTypeOK, OverlappedTypeOK', CarefulInv, Select
  PROVE  CarefulInv'
<1> DEFINE jobs == Chosen(worker.socket, worker.jobs)
<1>1. \A kind \in DOMAIN jobs : kind \in DOMAIN worker.jobs /\ jobs[kind] = worker.jobs[kind]
  BY DEF Chosen, Restrict
<1>2. /\ worker' = [worker EXCEPT !.jobs = jobs, !.at = IF DOMAIN jobs = {} THEN "each" ELSE "call"]
      /\ worker.at = "select" /\ UNCHANGED <<net, ctx, where, signaled, apcs, user, ops, got>>
  BY DEF Select
<1> HIDE DEF jobs
<1>3. /\ worker'.at \in {"each", "call"} /\ worker'.socket = worker.socket /\ worker'.jobs = jobs
      /\ In(ctx)' = In(ctx)
  BY <1>2 DEF OverlappedTypeOK, In
<1>4. \A kind \in DOMAIN worker.jobs : Waits(kind)
  BY <1>2 DEF CarefulInv, Jobs
<1>5. ASSUME NEW kind \in DOMAIN jobs PROVE Waits(kind)'
  <2>1. Waits(kind) /\ worker'.jobs[kind] = worker.jobs[kind]
    BY <1>1, <1>3, <1>4
  <2> QED BY <2>1, <1>2, <1>3 DEF Waits
<1>6. Jobs'
  BY <1>3, <1>5 DEF Jobs
<1> QED BY <1>2, <1>3, <1>6, WorkerKeeps

\* The worker takes the next datum, which is in its hands until the result is stored.
LEMMA CallKeeps ==
  ASSUME OverlappedTypeOK, OverlappedTypeOK', CarefulInv, Call
  PROVE  CarefulInv'
<1>1. /\ worker.at = "call" /\ worker.socket \in Socket /\ UNCHANGED <<ctx, where, signaled, apcs, user, ops, got>>
      /\ Turn \in {"read", "write"}
  BY DEF Call, OverlappedTypeOK, Turn
<1>2. PICK x \in Outcomes :
        /\ worker' = [worker EXCEPT !.at = "store", !.result = x]
        /\ \/ x = Failed /\ UNCHANGED net
           \/ /\ Turn = "read" /\ x = Ok(net[worker.socket].took + 1)
              /\ net' = [net EXCEPT ![worker.socket].took = @ + 1]
           \/ /\ Turn = "write" /\ x = Ok(0)
              /\ \E room \in BOOLEAN : net' = [net EXCEPT ![worker.socket].room = room]
  <2>1. Failed \in Outcomes /\ Ok(0) \in Outcomes /\ Ok(net[worker.socket].took + 1) \in Outcomes
    BY <1>1 DEF OverlappedTypeOK, Outcomes
  <2>2. CASE ~Ready(worker.socket, Turn)
    BY <2>1, <2>2 DEF Call
  <2>3. CASE Ready(worker.socket, Turn) /\ Turn = "read"
    BY <2>1, <2>3 DEF Call
  <2>4. CASE Ready(worker.socket, Turn) /\ Turn = "write"
    BY <2>1, <2>4 DEF Call
  <2> QED BY <1>1, <2>2, <2>3, <2>4
<1>3. /\ worker'.at = "store" /\ worker'.socket = worker.socket /\ worker'.jobs = worker.jobs
      /\ worker'.result = x /\ Turn' = Turn /\ In(ctx)' = In(ctx)
  BY <1>1, <1>2 DEF OverlappedTypeOK, Turn, In
<1>4. Placed(ctx, ops)' /\ Sorted(ctx)' /\ Tied' /\ Home' /\ Settled' /\ Announced'
  BY <1>1 DEF CarefulInv, Placed, Sorted, Tied, Home, Settled, Announced, In
<1>5. Jobs'
  <2>1. \A kind \in DOMAIN worker.jobs : Waits(kind)
    BY <1>1 DEF CarefulInv, Jobs
  <2>2. \A kind \in DOMAIN worker.jobs : Waits(kind)'
    BY <2>1, <1>1, <1>3 DEF Waits
  <2> QED BY <2>2, <1>3 DEF Jobs
<1>6. \A k : CameNow(k)' = CameNow(k)
  BY <1>1, <1>3 DEF CameNow
<1>7. \A e \in In(ctx) : ops[e.op].socket \in Socket
  BY WhereEntryIs DEF CarefulInv, OverlappedTypeOK
<1>8. \A t \in Socket : ~InHand(t)
  BY <1>1 DEF InHand
<1>9. CASE Turn = "read" /\ x = Ok(net[worker.socket].took + 1)
           /\ net' = [net EXCEPT ![worker.socket].took = @ + 1]
  <2> DEFINE s == worker.socket
  <2>1. /\ net'[s].took = net[s].took + 1 /\ net[s].took \in Nat
        /\ \A t \in Socket : t # s => net'[t].took = net[t].took
    BY <1>1, <1>9 DEF OverlappedTypeOK
  <2>2. x # Failed
    BY <1>9 DEF Ok, Failed
  <2>3. \A t \in Socket : InHand(t)' <=> t = s
    BY <1>3, <1>9, <2>2 DEF InHand
  <2>4. Holding'
    BY <1>3, <1>9, <2>1 DEF Holding
  <2>5. Data /\ \A t \in Socket : Reads(t)' = Reads(t)
    BY <1>1 DEF CarefulInv, Reads
  <2>6. DataCame'
    <3> SUFFICES ASSUME NEW t \in Socket, NEW k \in Reads(t), CameNow(k).is = "ok"
                 PROVE  CameNow(k).datum \in 1 .. net'[t].took /\ (t = s => CameNow(k).datum # net'[t].took)
      BY <1>6, <2>3, <2>5 DEF DataCame
    <3>1. CameNow(k).datum \in 1 .. net[t].took
      BY <2>5 DEF Data, DataCame
    <3> QED BY <3>1, <2>1
  <2>7. DataFound'
    <3> SUFFICES ASSUME NEW t \in Socket, NEW n \in 1 .. net'[t].took
                 PROVE  (t = s /\ n = net'[t].took) \/ \E k \in Reads(t) : CameNow(k) = Ok(n)
      BY <1>6, <2>3, <2>5 DEF DataFound
    <3>1. CASE t = s /\ n = net'[t].took
      BY <3>1
    <3>2. CASE ~(t = s /\ n = net'[t].took)
      <4>1. n \in 1 .. net[t].took
        BY <2>1, <3>2
      <4> QED BY <4>1, <1>8, <2>5 DEF Data, DataFound
    <3> QED BY <3>1, <3>2
  <2>8. DataSorted'
    BY <1>6, <2>5 DEF Data, DataSorted
  <2>9. DataFront'
    BY <1>1, <1>3, <1>6, <1>7, <2>5 DEF Data, DataFront
  <2> QED BY <1>4, <1>5, <2>4, <2>6, <2>7, <2>8, <2>9 DEF CarefulInv, Data
<1>10. CASE \/ x = Failed /\ UNCHANGED net
            \/ /\ Turn = "write" /\ x = Ok(0)
               /\ \E room \in BOOLEAN : net' = [net EXCEPT ![worker.socket].room = room]
  <2>1. \A t \in Socket : net'[t].took = net[t].took
    <3>1. CASE UNCHANGED net
      BY <3>1
    <3>2. ASSUME NEW room \in BOOLEAN, net' = [net EXCEPT ![worker.socket].room = room]
          PROVE  \A t \in Socket : net'[t].took = net[t].took
      BY <1>1, <3>2 DEF OverlappedTypeOK
    <3> QED BY <1>10, <3>1, <3>2
  <2>2. \A t \in Socket : InHand(t)' = InHand(t)
    BY <1>3, <1>8, <1>10 DEF InHand
  <2>3. Data'
    BY <1>1, <1>3, <1>6, <1>7, <2>1, <2>2, DataKept DEF Reads
  <2>4. Holding'
    BY <1>3, <1>10 DEF Holding
  <2> QED BY <1>4, <1>5, <2>3, <2>4 DEF CarefulInv
<1> QED BY <1>2, <1>9, <1>10, Zenon

\* The result goes to the operation the worker copied, and the data stay in order.
LEMMA StoreKeeps ==
  ASSUME OverlappedTypeOK, OverlappedTypeOK', CarefulInv, Store
  PROVE  CarefulInv'
<1>1. /\ ctx \in QueuesType /\ ctx' \in QueuesType /\ Placed(ctx, ops) /\ Sorted(ctx)
      /\ Tied /\ Home /\ Settled /\ Announced /\ Data /\ Holding
  BY DEF OverlappedTypeOK, CarefulInv
<1>2. /\ worker.at = "store" /\ worker.socket \in Socket /\ worker' = [worker EXCEPT !.at = "dispatch"]
      /\ UNCHANGED <<program, net, where, signaled, apcs, user, ops, got>>
  BY DEF Store, OverlappedTypeOK
<1>3. Turn \in DOMAIN worker.jobs /\ Turn \in Kind /\ \A kind \in DOMAIN worker.jobs : Waits(kind)
  BY <1>2, TurnIn DEF OverlappedTypeOK, CarefulInv, Jobs
<1>4. PICK s \in Socket, turn \in Kind, e \in In(ctx), x \in Outcomes :
        s = worker.socket /\ turn = Turn /\ e = worker.jobs[Turn] /\ x = worker.result
  BY <1>2, <1>3 DEF Waits, OverlappedTypeOK
<1>5. /\ e.result = Pending /\ ops[e.op].socket = s /\ ops[e.op].kind = turn
      /\ \A g \in In(ctx) :
           g.result = Pending /\ ops[g.op].socket = s /\ ops[g.op].kind = turn => e.op <= g.op
  <2>1. Waits(Turn)
    BY <1>3
  <2> QED BY <2>1, <1>4 DEF Waits
<1>6. PICK o \in Overlapped : o = e.overlapped
  BY OwnEntry
<1>7. Alone(ctx, e) /\ e \in EntryType /\ e.op \in 1 .. Len(ops) /\ e.op \in 1 .. MaxOps
  BY OwnEntry
<1>8. user[o].at = "issued" /\ got[e.op] = Pending /\ where[o] = s /\ where[o] # NoSocket
      /\ o \notin signaled /\ apcs[o] = 0
  BY <1>1, <1>5, <1>6, OverlappedAssumption DEF Settled, Tied, Announced
<1>9. /\ x # Pending
      /\ x = Failed \/ (turn = "read" /\ x = Ok(net[s].took) /\ net[s].took > 0) \/ (turn = "write" /\ x = Ok(0))
  BY <1>1, <1>2, <1>4 DEF Holding, Ok, Failed, Pending
<1> DEFINE r == OfOverlapped(ctx[s][turn], o)
           f == [e EXCEPT !.result = x]
<1>10. r \in DOMAIN ctx[s][turn] /\ r # 0 /\ ctx[s][turn][r] = e
  BY <1>1, <1>5, <1>6, <1>7, FoundThere
<1>11. \A other \in Kind : other # turn => OfOverlapped(ctx[s][other], o) = 0
  BY <1>1, <1>5, <1>6, <1>7, FoundThere
<1>12. ctx' = [ctx EXCEPT ![s] = Stored(@, turn, o, x)]
  <2>1. ctx' = [ctx EXCEPT ![s] = IF x = Failed THEN StoredError(@, o) ELSE Stored(@, turn, o, x)]
    BY <1>4, <1>6, <1>8 DEF Store
  <2>2. StoredError(ctx[s], o) = Stored(ctx[s], turn, o, Failed)
    <3>1. CASE turn = "read"
      BY <3>1, <1>10 DEF StoredError
    <3>2. CASE turn = "write"
      <4>1. OfOverlapped(ctx[s]["read"], o) = 0
        BY <3>2, <1>11 DEF Kind
      <4> QED BY <3>2, <4>1 DEF StoredError
    <3> QED BY <3>1, <3>2 DEF Kind
  <2> QED BY <2>1, <2>2
<1>13. f.op = e.op /\ f.overlapped = o /\ f.target = e.target /\ f.result = x
  BY <1>6, <1>7 DEF EntryType
<1> HIDE DEF f
<1>14. Placed(ctx', ops) /\ Sorted(ctx') /\ \A g : g \in In(ctx') <=> (g \in In(ctx) /\ g # e) \/ g = f
  <2>1. ctx'[s] = Stored(ctx[s], turn, o, x) /\ \A t \in Socket : t # s => ctx'[t] = ctx[t]
    BY <1>1, <1>12 DEF QueuesType
  <2>2. Stored(ctx[s], turn, o, x) = [ctx[s] EXCEPT ![turn] = [@ EXCEPT ![r] = f]]
    BY <1>10 DEF Stored, f
  <2> HIDE DEF r
  <2>3. ctx[s] \in [Kind -> Seq(EntryType)]
    BY <1>1 DEF QueuesType
  <2>4. ctx'[s][turn] = [ctx[s][turn] EXCEPT ![r] = f] /\ \A other \in Kind : other # turn => ctx'[s][other] = ctx[s][other]
    BY <2>1, <2>2, <2>3
  <2>5. \A t \in Socket, other \in Kind : t # s \/ other # turn => ctx'[t][other] = ctx[t][other]
    BY <2>1, <2>4
  <2>6. f.op = ctx[s][turn][r].op /\ f.overlapped = ctx[s][turn][r].overlapped
    BY <1>6, <1>10, <1>13
  <2>7. Placed(ctx', ops) /\ Sorted(ctx')
    BY <2>4, <2>5, <2>6, <1>1, <1>10, StoreEntry
  <2>8. \A g : g \in In(ctx') <=> (g \in In(ctx) /\ g # ctx[s][turn][r]) \/ g = f
    BY <2>4, <2>5, <2>6, <1>1, <1>10, StoreEntry
  <2> QED BY <2>7, <2>8, <1>10
<1> HIDE DEF r
<1>15. \A g \in In(ctx) : g # e => g.overlapped # o /\ g.op # e.op
  BY <1>1, <1>6, <1>7, EntryOfOp DEF Alone
<1>16. Tied'
  <2> SUFFICES ASSUME NEW g \in In(ctx')
               PROVE  /\ user[g.overlapped].at # "idle" /\ user[g.overlapped].op = g.op
                      /\ where[g.overlapped] = ops[g.op].socket
    BY <1>2 DEF Tied, In
  <2>1. CASE g = f
    BY <2>1, <1>1, <1>6, <1>13 DEF Tied
  <2>2. CASE g \in In(ctx)
    BY <2>2, <1>1 DEF Tied
  <2> QED BY <2>1, <2>2, <1>14
<1>17. Home'
  <2> SUFFICES ASSUME NEW q \in Overlapped
               PROVE  IF user[q].at = "idle" THEN where[q] = NoSocket
                      ELSE user[q].at \in {"issued", "taken", "called"} /\ \E g \in In(ctx') : g.overlapped = q
    BY <1>2 DEF Home, In
  <2>1. f \in In(ctx') /\ f.overlapped = e.overlapped
    BY <1>6, <1>13, <1>14
  <2>2. (\E g \in In(ctx) : g.overlapped = q) => \E g \in In(ctx') : g.overlapped = q
    BY <2>1, <1>14
  <2> QED BY <2>2, <1>1 DEF Home
<1>18. Settled'
  <2>1. ASSUME NEW g \in In(ctx')
        PROVE  IF user[g.overlapped].at = "issued" THEN got[g.op] = Pending
               ELSE got[g.op] = g.result /\ g.result # Pending
    <3>1. CASE g = f
      BY <3>1, <1>8, <1>13
    <3>2. CASE g \in In(ctx)
      BY <3>2, <1>1 DEF Settled
    <3> QED BY <3>1, <3>2, <1>14
  <2> QED BY <2>1, <1>1, <1>2 DEF Settled, In
<1>19. Announced'
  <2>1. ASSUME NEW g \in In(ctx')
        PROVE  /\ g.result = Pending => g.overlapped \notin signaled /\ apcs[g.overlapped] = 0
               /\ apcs[g.overlapped] > 0 => g.target = "callback"
    <3>1. CASE g = f
      BY <3>1, <1>8, <1>13
    <3>2. CASE g \in In(ctx)
      BY <3>2, <1>1 DEF Announced
    <3> QED BY <3>1, <3>2, <1>14
  <2>2. \A q \in Overlapped : apcs[q] > 0 => apcs[q] = 1 /\ user[q].at = "issued"
    BY <1>1 DEF Announced
  <2> QED BY <2>1, <2>2, <1>2 DEF Announced, In
<1>20. /\ In(ctx)' = In(ctx') /\ \A k : CameNow(k)' = CameIn(In(ctx'), got, k)
       /\ worker'.at = "dispatch" /\ worker'.socket = worker.socket /\ worker'.jobs = worker.jobs /\ Turn' = turn
  <2>1. In(ctx)' = In(ctx') /\ \A k : CameNow(k)' = CameIn(In(ctx'), got, k)
    BY <1>2 DEF CameNow, In
  <2>2. worker'.at = "dispatch" /\ worker'.socket = worker.socket /\ worker'.jobs = worker.jobs
    BY <1>2 DEF OverlappedTypeOK
  <2> QED BY <2>1, <2>2, <1>4 DEF Turn
<1>21. Jobs'
  <2>1. JustStored'
    <3>1. f \in In(ctx') /\ worker'.jobs[turn] = e
      BY <1>4, <1>14, <1>20
    <3> QED BY <3>1, <1>2, <1>6, <1>8, <1>9, <1>13, <1>20 DEF JustStored
  <2>2. ASSUME NEW kind \in DOMAIN worker.jobs \ {turn} PROVE Waits(kind)'
    <3> DEFINE job == worker.jobs[kind]
    <3>1. /\ job \in In(ctx) /\ job.result = Pending
          /\ ops[job.op].socket = worker.socket /\ ops[job.op].kind = kind
          /\ \A g \in In(ctx) :
               g.result = Pending /\ ops[g.op].socket = worker.socket /\ ops[g.op].kind = kind => job.op <= g.op
      BY <1>3 DEF Waits
    <3>2. job # e
      BY <3>1, <1>5
    <3>3. \A g \in In(ctx') : g.result = Pending => g \in In(ctx)
      BY <1>9, <1>13, <1>14
    <3> QED BY <3>1, <3>2, <3>3, <1>2, <1>14, <1>20 DEF Waits
  <2> QED BY <2>1, <2>2, <1>20 DEF Jobs
<1>22. /\ CameNow(e.op) = Pending
       /\ \A k : k = e.op => CameNow(k)' = x
       /\ \A k : k # e.op => CameNow(k)' = CameNow(k)
  <2>1. \A g \in In(ctx') : got[g.op] = Pending \/ got[g.op] = g.result
    BY <1>2, <1>18 DEF Settled, In
  <2>2. \A g \in In(ctx) : got[g.op] = Pending \/ got[g.op] = g.result
    BY <1>1 DEF Settled
  <2>3. /\ \A g \in In(ctx') : CameIn(In(ctx'), got, g.op) = g.result
        /\ \A k : (\A g \in In(ctx') : g.op # k) => CameIn(In(ctx'), got, k) = got[k]
    BY <2>1, <1>1, <1>14, CameIs
  <2>4. /\ \A g \in In(ctx) : CameIn(In(ctx), got, g.op) = g.result
        /\ \A k : (\A g \in In(ctx) : g.op # k) => CameIn(In(ctx), got, k) = got[k]
    BY <2>2, <1>1, CameIs
  <2>5. CameNow(e.op) = Pending
    BY <2>4, <1>5 DEF CameNow
  <2>6. CameIn(In(ctx'), got, e.op) = x
    BY <2>3, <1>13, <1>14
  <2>7. ASSUME NEW k, k # e.op PROVE CameIn(In(ctx'), got, k) = CameIn(In(ctx), got, k)
    <3>1. CASE \E g \in In(ctx) : g.op = k
      BY <2>3, <2>4, <2>7, <3>1, <1>14
    <3>2. CASE \A g \in In(ctx) : g.op # k
      <4>1. \A g \in In(ctx') : g.op # k
        BY <2>7, <3>2, <1>13, <1>14
      <4> QED BY <4>1, <2>3, <2>4, <3>2
    <3> QED BY <3>1, <3>2
  <2> QED BY <2>5, <2>6, <2>7, <1>20 DEF CameNow
<1>23. /\ \A t \in Socket : ~InHand(t)' /\ Reads(t)' = Reads(t)
       /\ \A t \in Socket : InHand(t) <=> t = s /\ turn = "read" /\ x # Failed
       /\ \A t \in Socket : e.op \in Reads(t) <=> t = s /\ turn = "read"
       /\ \A t \in Socket : \A k \in Reads(t) : k \in Nat
       /\ \A t \in Socket : net'[t].took = net[t].took /\ net[t].took \in Nat
  <2>1. \A t \in Socket : ~InHand(t)' /\ Reads(t)' = Reads(t)
    BY <1>2, <1>20 DEF InHand, Reads
  <2>2. \A t \in Socket : InHand(t) <=> t = s /\ turn = "read" /\ x # Failed
    BY <1>2, <1>4 DEF InHand
  <2>3. e.op \in DOMAIN ops /\ DOMAIN ops = 1 .. Len(ops)
    BY <1>7 DEF OverlappedTypeOK
  <2>4. \A t \in Socket : e.op \in Reads(t) <=> t = s /\ turn = "read"
    BY <2>3, <1>5 DEF Reads
  <2>5. \A t \in Socket : \A k \in Reads(t) : k \in Nat
    BY <2>3 DEF Reads
  <2>6. \A t \in Socket : net'[t].took = net[t].took /\ net[t].took \in Nat
    BY <1>2 DEF OverlappedTypeOK
  <2> QED BY <2>1, <2>2, <2>4, <2>5, <2>6
<1>24. x.is = "ok" /\ turn = "read" => x = Ok(net[s].took) /\ net[s].took > 0 /\ x.datum = net[s].took /\ InHand(s)
  BY <1>9, <1>23 DEF Ok, Failed
<1>25. DataCame'
  <2> SUFFICES ASSUME NEW t \in Socket, NEW k \in Reads(t), CameNow(k)'.is = "ok"
               PROVE  CameNow(k)'.datum \in 1 .. net[t].took
    BY <1>23 DEF DataCame
  <2>1. CASE k = e.op
    BY <2>1, <1>22, <1>23, <1>24
  <2>2. CASE k # e.op
    BY <2>2, <1>1, <1>22 DEF Data, DataCame
  <2> QED BY <2>1, <2>2
<1>26. DataFound'
  <2> SUFFICES ASSUME NEW t \in Socket, NEW n \in 1 .. net[t].took
               PROVE  \E k \in Reads(t) : CameNow(k)' = Ok(n)
    BY <1>23 DEF DataFound
  <2>1. CASE InHand(t) /\ n = net[t].took
    <3>1. t = s /\ turn = "read" /\ x = Ok(net[s].took)
      BY <2>1, <1>9, <1>23
    <3>2. e.op \in Reads(t) /\ CameNow(e.op)' = Ok(n)
      BY <2>1, <3>1, <1>22, <1>23
    <3> QED BY <3>2
  <2>2. CASE ~(InHand(t) /\ n = net[t].took)
    <3>1. PICK k \in Reads(t) : CameNow(k) = Ok(n)
      BY <2>2, <1>1 DEF Data, DataFound
    <3>2. k # e.op
      BY <3>1, <1>22 DEF Pending, Ok
    <3> QED BY <3>1, <3>2, <1>22
  <2> QED BY <2>1, <2>2
<1>27. DataSorted'
  <2> SUFFICES ASSUME NEW t \in Socket, NEW j \in Reads(t), NEW k \in Reads(t), j < k,
                      CameNow(j)'.is = "ok", CameNow(k)'.is = "ok"
               PROVE  CameNow(j)'.datum < CameNow(k)'.datum
    BY <1>23 DEF DataSorted
  <2>1. CASE j # e.op /\ k # e.op
    BY <2>1, <1>1, <1>22 DEF Data, DataSorted
  <2>2. CASE k = e.op
    <3>1. t = s /\ turn = "read" /\ j # e.op /\ CameNow(k)' = x
      BY <2>2, <1>22, <1>23
    <3>2. CameNow(k)'.datum = net[s].took /\ InHand(s) /\ net[s].took \in Nat
      BY <3>1, <1>23, <1>24
    <3>3. CameNow(j)' = CameNow(j)
      BY <3>1, <1>22
    <3>4. CameNow(j).datum \in 1 .. net[s].took /\ CameNow(j).datum # net[s].took
      BY <3>1, <3>2, <3>3, <1>1 DEF Data, DataCame
    <3> QED BY <3>2, <3>3, <3>4
  <2>3. CASE j = e.op
    <3>1. t = s /\ turn = "read" /\ k # e.op
      BY <2>3, <1>23
    <3>2. CameNow(k) # Pending
      BY <3>1, <1>22 DEF Pending
    <3>3. k < e.op
      BY <3>1, <3>2, <1>1, <1>5 DEF Data, DataFront
    <3>4. j \in Nat /\ k \in Nat
      BY <1>23
    <3> QED BY <2>3, <3>3, <3>4
  <2> QED BY <2>1, <2>2, <2>3
<1>28. DataFront'
  <2>1. ASSUME NEW g \in In(ctx'), g.result = Pending, ops[g.op].kind = "read",
               NEW k \in Reads(ops[g.op].socket), CameNow(k)' # Pending
        PROVE  k < g.op
    <3>1. g \in In(ctx) /\ g # e
      BY <2>1, <1>9, <1>13, <1>14
    <3>2. CASE k # e.op
      BY <2>1, <3>1, <3>2, <1>1, <1>22 DEF Data, DataFront
    <3>3. CASE k = e.op
      <4>1. ops[g.op].socket = s /\ turn = "read"
        BY <2>1, <3>3, <1>5 DEF Reads
      <4>2. e.op <= g.op /\ e.op # g.op
        BY <2>1, <3>1, <4>1, <1>5, <1>15
      <4>3. e.op \in Nat /\ g.op \in Nat
        BY <3>1, <1>1, EntriesTyped DEF EntryType
      <4> QED BY <3>3, <4>2, <4>3
    <3> QED BY <3>2, <3>3
  <2>2. \A g \in In(ctx') : ops[g.op].socket \in Socket
    BY <1>1, <1>14, WhereEntryIs
  <2> QED BY <2>1, <2>2, <1>2, <1>20, <1>23 DEF DataFront
<1>29. Holding'
  BY <1>20 DEF Holding
<1>30. Placed(ctx, ops)' /\ Sorted(ctx)'
  BY <1>2, <1>14 DEF Placed, Sorted
<1> QED BY <1>16, <1>17, <1>18, <1>19, <1>21, <1>25, <1>26, <1>27, <1>28, <1>29, <1>30 DEF CarefulInv, Data

\* The announcement of a stored result is the first of its operation.
LEMMA DispatchKeeps ==
  ASSUME OverlappedTypeOK, OverlappedTypeOK', CarefulInv, Dispatch
  PROVE  CarefulInv'
<1>1. /\ ctx \in QueuesType /\ Placed(ctx, ops) /\ Sorted(ctx)
      /\ Tied /\ Home /\ Settled /\ Announced /\ Data
  BY DEF OverlappedTypeOK, CarefulInv
<1>2. Turn \in DOMAIN worker.jobs /\ worker.jobs[Turn] \in EntryType
  BY TurnIn DEF OverlappedTypeOK, Dispatch
<1>3. worker.at = "dispatch" /\ JustStored /\ \A kind \in DOMAIN worker.jobs \ {Turn} : Waits(kind)
  BY DEF Dispatch, CarefulInv, Jobs
<1>4. PICK e \in In(ctx) :
        /\ e.overlapped = worker.jobs[Turn].overlapped /\ e.target = worker.jobs[Turn].target
        /\ e.result # Pending /\ user[e.overlapped].at = "issued"
        /\ e.overlapped \notin signaled /\ apcs[e.overlapped] = 0
  BY <1>3 DEF JustStored
<1>5. PICK o \in Overlapped : o = e.overlapped
  BY OwnEntry
<1>6. \A g \in In(ctx) : /\ g.overlapped \in Overlapped /\ (g.overlapped = o => g = e)
                         /\ ops[g.op].socket \in Socket
  BY <1>1, <1>5, OwnEntry, WhereEntryIs DEF Alone
<1>7. UNCHANGED <<program, net, ctx, where, user, ops, got>> /\ In(ctx)' = In(ctx)
  BY DEF Dispatch, In
<1>8. \/ e.target = "event" /\ signaled' = signaled \cup {o} /\ UNCHANGED apcs
      \/ e.target = "callback" /\ apcs' = [apcs EXCEPT ![o] = 1] /\ UNCHANGED signaled
  <2>1. e.target \in {"event", "callback"}
    BY <1>2, <1>4 DEF EntryType
  <2>2. CASE e.target = "event"
    BY <2>2, <1>4, <1>5 DEF Dispatch
  <2>3. CASE e.target = "callback"
    <3>1. apcs' = [apcs EXCEPT ![o] = apcs[o] + 1] /\ UNCHANGED signaled
      BY <2>3, <1>4, <1>5 DEF Dispatch
    <3>2. apcs[o] + 1 = 1
      BY <1>4, <1>5
    <3> QED BY <2>3, <3>1, <3>2
  <2> QED BY <2>1, <2>2, <2>3
<1>9. \A q \in Overlapped : q # o => apcs'[q] = apcs[q] /\ (q \in signaled' <=> q \in signaled)
  BY SMTT(20), <1>8 DEF OverlappedTypeOK
<1>10. apcs'[o] = IF e.target = "callback" THEN 1 ELSE 0
  BY <1>4, <1>5, <1>8 DEF OverlappedTypeOK
<1>11. Announced'
  <2>1. ASSUME NEW g \in In(ctx)
        PROVE  /\ g.result = Pending => g.overlapped \notin signaled' /\ apcs'[g.overlapped] = 0
               /\ apcs'[g.overlapped] > 0 => g.target = "callback"
    <3>1. CASE g = e
      BY <3>1, <1>4, <1>5, <1>10
    <3>2. CASE g # e
      BY <3>2, <1>1, <1>6, <1>9 DEF Announced
    <3> QED BY <3>1, <3>2
  <2>2. ASSUME NEW q \in Overlapped, apcs'[q] > 0 PROVE apcs'[q] = 1 /\ user[q].at = "issued"
    <3>1. CASE q = o
      BY <2>2, <3>1, <1>4, <1>5, <1>10
    <3>2. CASE q # o
      BY <2>2, <3>2, <1>1, <1>9 DEF Announced
    <3> QED BY <3>1, <3>2
  <2> QED BY <2>1, <2>2, <1>7 DEF Announced
<1>12. Placed(ctx, ops)' /\ Sorted(ctx)' /\ Tied' /\ Home' /\ Settled'
  BY SMTT(20), <1>1, <1>7 DEF Placed, Sorted, Tied, Home, Settled
<1> DEFINE rest == Restrict(worker.jobs, DOMAIN worker.jobs \ {Turn})
<1>13. DOMAIN rest = DOMAIN worker.jobs \ {Turn} /\ \A kind \in DOMAIN rest : rest[kind] = worker.jobs[kind]
  BY DEF Restrict
<1>14. worker' = [worker EXCEPT !.jobs = rest, !.result = Pending,
                                !.at = IF DOMAIN worker.jobs = {Turn} THEN "each" ELSE "call"]
  BY DEF Dispatch
<1> HIDE DEF rest
<1>15. worker'.at \in {"each", "call"} /\ worker'.socket = worker.socket /\ worker'.jobs = rest
  BY <1>14 DEF OverlappedTypeOK
<1>16. Jobs'
  <2>1. ASSUME NEW kind \in DOMAIN rest PROVE Waits(kind)'
    <3>1. Waits(kind) /\ worker'.jobs[kind] = worker.jobs[kind]
      BY <1>3, <1>13, <1>15
    <3> QED BY <3>1, <1>7, <1>15 DEF Waits
  <2> QED BY <2>1, <1>15 DEF Jobs
<1>17. Data'
  <2>1. \A t \in Socket : net'[t].took = net[t].took /\ InHand(t)' = InHand(t)
    BY <1>3, <1>7, <1>15 DEF InHand
  <2>2. \A k : CameNow(k)' = CameNow(k)
    BY <1>7 DEF CameNow
  <2> QED BY <2>1, <2>2, <1>6, <1>7, DataKept DEF Reads
<1>18. Holding'
  BY <1>15 DEF Holding
<1> QED BY <1>11, <1>12, <1>16, <1>17, <1>18 DEF CarefulInv

\* What a careful program never does.
LEMMA NeverWakes ==
  ASSUME OverlappedTypeOK, Careful, CarefulInv, NEW o \in Overlapped
  PROVE  ~Wake(o) /\ ~Reissue(o)
<1>1. user[o].at # "waiting"
  BY DEF CarefulInv, Home
<1> QED BY <1>1 DEF Wake, Reissue, Careful

\* Every step of a careful program keeps the invariant.
LEMMA CarefulStep ==
  OverlappedTypeOK /\ OverlappedTypeOK' /\ Careful /\ CarefulInv /\ [Next]_vars => CarefulInv'
<1> SUFFICES ASSUME OverlappedTypeOK, OverlappedTypeOK', Careful, CarefulInv, [Next]_vars PROVE CarefulInv'
  OBVIOUS
<1>1. ASSUME NEW o \in Overlapped, Issue(o) \/ Reissue(o) \/ Finish(o) PROVE CarefulInv'
  BY <1>1, NeverWakes, IssueKeeps, AskKeeps, RunApcKeeps, RemoveKeeps DEF Finish
<1>2. ASSUME NEW s \in Socket, Close(s) \/ Open(s) \/ Arrive(s) \/ Room(s) PROVE CarefulInv'
  BY <1>2, NetKeeps
<1>3. CASE Cleanup
  BY <1>3, CleanupKeeps
<1>4. CASE Worker
  BY <1>4, CycleKeeps, PeekKeeps, SelectKeeps, CallKeeps, StoreKeeps, DispatchKeeps DEF Worker
<1>5. CASE UNCHANGED vars
  <2>1. \A s \in Socket : net'[s].took = net[s].took
    BY <1>5 DEF vars
  <2> QED BY <2>1, <1>5, StillKeeps DEF vars
<1> QED BY <1>1, <1>2, <1>3, <1>4, <1>5 DEF Next

\* Whether the program is careful is settled at the start.
LEMMA StaysCareful == [Next]_vars => Careful' = Careful
<1> SUFFICES ASSUME [Next]_vars PROVE program' = program
  BY DEF Careful
<1>1. \A o \in Overlapped : Issue(o) \/ Reissue(o) \/ Finish(o) => program' = program
  BY DEF Issue, RecvFrom, SendTo, Start, Reissue, Finish, Ask, Wake, RunApc, RemoveWork
<1>2. \A s \in Socket : Close(s) \/ Open(s) \/ Arrive(s) \/ Room(s) => program' = program
  BY DEF Close, Open, Arrive, Room
<1>3. Worker => program' = program
  BY DEF Worker, Cycle, EndCycle, Select, Call, Store, Dispatch, Peek
<1> QED BY <1>1, <1>2, <1>3 DEF Next, Cleanup, vars

\* The inductive invariant of a careful program.
THEOREM OverlappedCareful == Spec => [](OverlappedTypeOK /\ (Careful => CarefulInv))
<1>1. Init => OverlappedTypeOK /\ (Careful => CarefulInv)
  BY OverlappedInitTyped, CarefulInit
<1>2. OverlappedTypeOK /\ (Careful => CarefulInv) /\ [Next]_vars
        => (OverlappedTypeOK /\ (Careful => CarefulInv))'
  BY OverlappedStepTyped, CarefulStep, StaysCareful
<1> QED BY <1>1, <1>2, PTL DEF Spec

-----------------------------------------------------------------------------

\* The properties speak of the same entries as the invariant.
LEMMA CameThen == \A k : Came(k) = CameNow(k) /\ Kept(k) = KeptIn(In(ctx), k)
BY DEF Came, Finished, Kept, Queued, CameNow, CameIn, KeptIn, In

\* The invariant gives each datum a single holder, in the order of the data.
LEMMA OrderFollows == OverlappedTypeOK /\ (Careful => CarefulInv) => ReadsInOrder
<1> SUFFICES ASSUME OverlappedTypeOK, Careful, CarefulInv, NEW s \in Socket
             PROVE  /\ \A n \in 1 .. net[s].took :
                         \/ Cardinality(Holders(s, n)) = 1
                         \/ /\ worker.at = "store" /\ worker.socket = s /\ worker.result = Ok(n)
                            /\ Holders(s, n) = {}
                    /\ \A m, n \in 1 .. net[s].took :
                         m < n => \A j \in Holders(s, m), k \in Holders(s, n) : j < k
  BY DEF ReadsInOrder
<1>1. Data /\ Holding /\ net[s].took \in Nat /\ DOMAIN ops = 1 .. Len(ops)
  BY DEF CarefulInv, OverlappedTypeOK
<1>2. \A n : Holders(s, n) = {k \in Reads(s) : CameNow(k) = Ok(n)}
  BY <1>1, CameThen DEF Holders, Reads
<1>3. \A k \in Reads(s) : k \in Nat
  BY <1>1 DEF Reads
<1>4. \A n : Ok(n).is = "ok" /\ Ok(n).datum = n
  BY DEF Ok
<1>5. ASSUME NEW m \in 1 .. net[s].took, NEW n \in 1 .. net[s].took,
             NEW j \in Holders(s, m), NEW k \in Holders(s, n)
      PROVE  (m < n => j < k) /\ (m = n => j = k)
  <2>1. /\ j \in Reads(s) /\ CameNow(j).is = "ok" /\ CameNow(j).datum = m /\ CameNow(j) = Ok(m)
        /\ k \in Reads(s) /\ CameNow(k).is = "ok" /\ CameNow(k).datum = n
    BY <1>2, <1>4
  <2>2. (j < k => m < n) /\ (k < j => n < m)
    BY <2>1, <1>1 DEF Data, DataSorted
  <2>3. j \in Nat /\ k \in Nat /\ m \in Nat /\ n \in Nat
    BY <2>1, <1>1, <1>3
  <2>4. j = k => m = n
    BY <2>1
  <2> QED BY <2>2, <2>3, <2>4
<1>6. ASSUME NEW n \in 1 .. net[s].took
      PROVE  \/ Cardinality(Holders(s, n)) = 1
             \/ /\ worker.at = "store" /\ worker.socket = s /\ worker.result = Ok(n)
                /\ Holders(s, n) = {}
  <2>1. CASE InHand(s) /\ n = net[s].took
    <3>1. worker.at = "store" /\ worker.socket = s /\ worker.result = Ok(n)
      BY <2>1, <1>1 DEF InHand, Holding
    <3>2. ASSUME NEW k \in Holders(s, n) PROVE FALSE
      <4>1. k \in Reads(s) /\ CameNow(k).is = "ok" /\ CameNow(k).datum = n
        BY <1>2, <1>4
      <4> QED BY <4>1, <2>1, <1>1 DEF Data, DataCame
    <3> QED BY <3>1, <3>2
  <2>2. CASE ~(InHand(s) /\ n = net[s].took)
    <3>1. PICK k \in Reads(s) : CameNow(k) = Ok(n)
      BY <2>2, <1>1 DEF Data, DataFound
    <3>2. k \in Holders(s, n)
      BY <3>1, <1>2
    <3>3. \A j \in Holders(s, n) : j = k
      BY <3>2, <1>5
    <3>4. Holders(s, n) = {k}
      BY <3>2, <3>3
    <3> QED BY <3>4, FS_Singleton
  <2> QED BY <2>1, <2>2
<1> QED BY <1>5, <1>6

\* The data of a socket go to its read operations, one to each and in the order
\* of the calls, whenever the worker, the program and the network take their
\* steps (complete_overlapped_read_work finds an operation by the address of its
\* OVERLAPPED alone).
THEOREM OverlappedReadsInOrder == Spec => []ReadsInOrder
<1>1. OverlappedTypeOK /\ (Careful => CarefulInv) => ReadsInOrder
  BY OrderFollows
<1> QED BY <1>1, OverlappedCareful, PTL

\* The invariant gives what is announced a result.
LEMMA TruthFollows == OverlappedTypeOK /\ (Careful => CarefulInv) => ToldMeansDone
<1> SUFFICES ASSUME OverlappedTypeOK, Careful, CarefulInv, NEW o \in Overlapped
             PROVE  /\ user[o].at = "issued" /\ o \in signaled => Kept(user[o].op) # Pending
                    /\ apcs[o] > 0 => /\ apcs[o] = 1
                                      /\ user[o].at = "issued" /\ Kept(user[o].op) # Pending
  BY DEF ToldMeansDone
<1>1. ctx \in QueuesType /\ Placed(ctx, ops) /\ Sorted(ctx) /\ Tied /\ Home /\ Announced
  BY DEF OverlappedTypeOK, CarefulInv
<1>2. apcs[o] > 0 => apcs[o] = 1 /\ user[o].at = "issued"
  BY <1>1 DEF Announced
<1>3. ASSUME user[o].at = "issued", o \in signaled \/ apcs[o] > 0 PROVE Kept(user[o].op) # Pending
  <2>1. PICK e \in In(ctx) : e.overlapped = o
    BY <1>1, <1>3 DEF Home
  <2>2. user[o].op = e.op
    BY <2>1, <1>1 DEF Tied
  <2>3. e.result # Pending
    BY <2>1, <1>1, <1>3 DEF Announced
  <2>4. KeptIn(In(ctx), e.op) = e.result
    BY <1>1, KeptIs
  <2> QED BY <2>2, <2>3, <2>4, CameThen
<1> QED BY <1>2, <1>3

\* Whoever is told by an event or an APC that an operation is done finds its
\* result, and is told once (get_overlapped_worker stores it in one step and
\* announces it in another).
THEOREM OverlappedToldMeansDone == Spec => []ToldMeansDone
<1>1. OverlappedTypeOK /\ (Careful => CarefulInv) => ToldMeansDone
  BY TruthFollows
<1> QED BY <1>1, OverlappedCareful, PTL
=============================================================================
