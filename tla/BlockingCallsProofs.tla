--------------------------- MODULE BlockingCallsProofs ---------------------------
(***************************************************************************)
(* Proofs about BlockingCalls, for any threads, calls and bound, and about *)
(* the asynchronous look-ups.                                              *)
(*                                                                         *)
(* Blocking: the flag is what the program asked for, or will be again when *)
(* the worker puts back what it saved or finds that it was set (Mode); so  *)
(* a call that looks at it finds it set if the program wants it to wait.   *)
(*                                                                         *)
(* Look-ups: of those given one handle only the last can still be told of  *)
(* (Latest, Answered), unless one was asked for too soon.                  *)
(***************************************************************************)
EXTENDS MC_BlockingCalls, Sequences, TLAPS

Place == {"idle", "asked", "done", "failed", "wouldblock", "select", "block", "unblock",
          "disable", "restore", "reset"}
Call == [at : Place, kind : Transfer \cup {"connect", "none", "ioctl"}]

TypeOK ==
  /\ pc \in [Caller -> Call]
  /\ virtual \in BOOLEAN /\ saved \in BOOLEAN /\ asked \in BOOLEAN /\ clashed \in BOOLEAN

\* The flag is what the program asked for until the worker disables it.  From then on
\* it was set by the program, or what the worker saved is what the program asked for;
\* and it is not set any more when the worker is about to put that back.
Mode ==
  ~clashed =>
    /\ ~Borrowed => (virtual <=> asked)
    /\ ~Unshared /\ At(Worker, "disable") => (saved <=> asked)
    /\ Borrowed => (virtual /\ asked) \/ (~virtual /\ (saved <=> asked))
    /\ Borrowed /\ At(Worker, "reset") => ~virtual

ModeInv == TypeOK /\ Mode

-----------------------------------------------------------------------------
Underway == {"asked", "done", "failed", "wouldblock", "select"}

\* What a call that returns leaves behind.
LEMMA Returned ==
  ASSUME TypeOK, NEW c \in Caller, NEW result, Return(c, result), pc[c].at \in Underway
  PROVE  /\ pc' \in [Caller -> Call]
         /\ \A d \in Caller : d # c => pc'[d] = pc[d]
         /\ pc'[c].at = IF c = Worker THEN "restore" ELSE "idle"
         /\ result # "wouldblock" \/ ~Blocking => wrong' = wrong
<1>1. /\ pc' \in [Caller -> Call]
      /\ \A d \in Caller : d # c => pc'[d] = pc[d]
      /\ pc'[c].at = IF c = Worker THEN "restore" ELSE "idle"
  <2>1. CASE c = Worker
    BY <2>1 DEF Return, TypeOK, Call, Place
  <2>2. CASE c # Worker
    BY <2>2 DEF Return, TypeOK, Call, Place, Idle
  <2> QED
    BY <2>1, <2>2
<1>2. result # "wouldblock" \/ ~Blocking => wrong' = wrong
  <2>1. CASE result # "wouldblock"
    BY <2>1 DEF Return
  <2>2. CASE ~Blocking
    BY <2>2 DEF Return
  <2> QED
    BY <2>1, <2>2
<1> QED
  BY <1>1, <1>2

\* A call goes on, or its select fails: the flag and what is known of it stay, the
\* other callers too, and the worker is neither done nor back before the disabling.
LEMMA GoingOn ==
  ASSUME TypeOK, NEW c \in Caller, Going(c) \/ SelectFails(c)
  PROVE  /\ pc' \in [Caller -> Call]
         /\ UNCHANGED <<virtual, saved, asked, clashed>>
         /\ \A d \in Caller : d # c => pc'[d] = pc[d]
         /\ pc[c].at \in Underway
         /\ pc'[c].at \in Underway \cup {IF c = Worker THEN "restore" ELSE "idle"}
         /\ BlockingWaits /\ (Blocking => virtual) => BlockingWaits'
<1> DEFINE Goal ==
         /\ pc' \in [Caller -> Call]
         /\ UNCHANGED <<virtual, saved, asked, clashed>>
         /\ \A d \in Caller : d # c => pc'[d] = pc[d]
         /\ pc[c].at \in Underway
         /\ pc'[c].at \in Underway \cup {IF c = Worker THEN "restore" ELSE "idle"}
         /\ BlockingWaits /\ (Blocking => virtual) => BlockingWaits'
<1> USE DEF Underway, At, BlockingWaits
<1>1. CASE Serve(c)
  <2>1. /\ UNCHANGED <<virtual, saved, asked, clashed, wrong>>
        /\ pc[c].at = "asked"
    BY <1>1 DEF Serve
  <2>2. pc' = pc \/ \E at \in {"done", "failed", "wouldblock"} : pc' = [pc EXCEPT ![c].at = at]
    <3>1. CASE Transferred(c)
      BY <3>1 DEF Transferred, Goto
    <3>2. CASE Connected(c)
      <4>1. CASE link = "none"
        BY <3>2, <4>1 DEF Connected, Goto
      <4>2. CASE link = "pending"
        BY <3>2, <4>2 DEF Connected, Goto
      <4>3. CASE link \notin {"none", "pending"}
        BY <3>2, <4>3 DEF Connected, Goto
      <4> QED
        BY <4>1, <4>2, <4>3
    <3> QED
      BY <1>1, <3>1, <3>2 DEF Serve
  <2> QED
    BY <2>1, <2>2 DEF TypeOK, Call, Place
<1>2. CASE Succeed(c)
  BY <1>2, Returned DEF Succeed
<1>3. CASE Fail(c)
  BY <1>3, Returned DEF Fail
<1>4. CASE WouldBlock(c)
  <2>1. CASE virtual
    BY <1>4, <2>1 DEF WouldBlock, TypeOK, Call, Place, Goto
  <2>2. CASE ~virtual
    BY <1>4, <2>2, Returned DEF WouldBlock
  <2> QED
    BY <2>1, <2>2
<1>5. CASE Reselect(c)
  BY <1>5 DEF Reselect, TypeOK, Call, Place, Goto
<1>6. CASE SelectFails(c)
  BY <1>6, Returned DEF SelectFails
<1>7. CASE ConnectWait(c)
  <2>1. CASE link # "pending"
    BY <1>7, <2>1, Returned DEF ConnectWait
  <2>2. CASE link = "pending"
    BY <1>7, <2>2, Returned DEF ConnectWait
  <2> QED
    BY <2>1, <2>2
<1> QED
  BY <1>1, <1>2, <1>3, <1>4, <1>5, <1>6, <1>7 DEF Going

LEMMA ModeInit == Init => ModeInv
<1> SUFFICES ASSUME Init PROVE ModeInv
  OBVIOUS
<1>1. TypeOK
  BY DEF Init, TypeOK, Call, Place, Idle
<1>2. Unshared
  BY BlockingAssumption DEF Init, Unshared, At, Idle, Caller
<1>3. virtual <=> asked
  BY DEF Init
<1> QED
  BY <1>1, <1>2, <1>3 DEF ModeInv, Mode, Borrowed

LEMMA ModeSteps == ModeInv /\ [Next]_vars => ModeInv'
<1> SUFFICES ASSUME ModeInv, [Next]_vars PROVE ModeInv'
  OBVIOUS
<1> USE BlockingAssumption DEF ModeInv, Mode, Unshared, Borrowed, At, Caller
<1>1. ASSUME NEW t \in Thread, NEW kind \in Kinds, Begin(t, kind) PROVE ModeInv'
  BY <1>1 DEF Begin, TypeOK, Call, Place
<1>2. ASSUME NEW t \in Thread, NEW b \in Asks, Ioctl(t, b) PROVE ModeInv'
  BY <1>2 DEF Ioctl, TypeOK, Call, Place
<1>3. ASSUME NEW t \in Thread, SetVirtual(t) PROVE ModeInv'
  <2>1. /\ TypeOK'
        /\ Working => pc'[Worker] = pc[Worker]
    BY <1>3 DEF SetVirtual, TypeOK, Call, Place, Idle
  <2>2. Mode'
    BY <1>3, <2>1 DEF SetVirtual
  <2> QED
    BY <2>1, <2>2
<1>4. ASSUME NEW c \in Caller, Going(c) \/ SelectFails(c) PROVE ModeInv'
  <2>1. TypeOK'
    BY <1>4, GoingOn DEF TypeOK
  <2>2. Mode'
    BY <1>4, GoingOn DEF Underway
  <2> QED
    BY <2>1, <2>2
<1>5. CASE Save
  BY <1>5 DEF Save, TypeOK, Call, Place
<1>6. CASE Disable
  <2>1. /\ Working /\ pc[Worker].at = "disable" /\ ~virtual'
        /\ pc' = [pc EXCEPT ![Worker].at = "asked"]
        /\ UNCHANGED <<saved, asked, clashed>>
    BY <1>6 DEF Disable, Goto
  <2>2. TypeOK' /\ pc'[Worker].at = "asked"
    <3>1. pc[Worker] \in Call /\ Worker \in Caller
      BY <2>1 DEF TypeOK
    <3>2. pc' \in [Caller -> Call] /\ pc'[Worker].at = "asked"
      BY <2>1, <3>1 DEF TypeOK, Call, Place
    <3> QED
      BY <1>6, <2>1, <3>2 DEF Disable, TypeOK
  <2>3. ~clashed => (saved <=> asked)
    BY <2>1
  <2>4. Mode'
    BY <2>1, <2>2, <2>3
  <2> QED
    BY <2>2, <2>4
<1>7. CASE Restore
  BY <1>7 DEF Restore, Goto, TypeOK, Call, Place
<1>8. CASE Reset
  BY <1>8 DEF Reset, Goto, TypeOK, Call, Place
<1>9. CASE UNCHANGED <<virtual, pc, saved, asked, clashed>>
  BY <1>9 DEF TypeOK
<1> QED
  BY <1>1, <1>2, <1>3, <1>4, <1>5, <1>6, <1>7, <1>8, <1>9 DEF Next, Ready, Outcome, vars

\* Whatever the program's threads and the overlapped worker do to the flag, between
\* their calls it is what the program asked for last, though it set it while the worker
\* had it disabled (temp_disable_virtual_blocking).
THEOREM BlockingModeKept == Spec => []ModeKept
<1>1. ModeInv => ModeKept
  BY DEF ModeInv, TypeOK, Mode, ModeKept, Unshared, Borrowed, At, Caller
<1> QED
  BY <1>1, ModeInit, ModeSteps, PTL DEF Spec

\* Whatever the program asks with FIONBIO, no thread of it is told WSAEWOULDBLOCK while
\* it wants the socket to block: the flag that siege_recvfrom and its like look at is
\* set then, unless the worker has it disabled at that time.
THEOREM BlockingCallsWait == Spec => []BlockingWaits
<1>1. ModeInv /\ BlockingWaits /\ [Next]_vars => BlockingWaits'
  <2> SUFFICES ASSUME ModeInv, BlockingWaits, [Next]_vars PROVE BlockingWaits'
    OBVIOUS
  <2>1. Blocking => virtual
    BY DEF ModeInv, Mode, Blocking
  <2>2. ASSUME NEW c \in Caller, Going(c) \/ SelectFails(c) PROVE BlockingWaits'
    BY <2>1, <2>2, GoingOn DEF ModeInv
  <2>3. CASE UNCHANGED wrong
    BY <2>3 DEF BlockingWaits
  <2> QED
    BY <2>2, <2>3
    DEF Next, Begin, Ioctl, SetVirtual, Save, Disable, Restore, Reset, Ready, Outcome, vars
<1>2. Init => BlockingWaits
  BY DEF Init, BlockingWaits
<1> QED
  BY <1>1, <1>2, ModeInit, ModeSteps, PTL DEF Spec
-----------------------------------------------------------------------------
(***************************************************************************)
(* The asynchronous look-ups (AsyncLookup), for any handles and number of  *)
(* look-ups.  The program knows a look-up by its handle alone.  What makes *)
(* it right is that of those given one handle all but the last were        *)
(* answered (Latest), unless it was given again too soon, so that a        *)
(* message is of the last (Answered); and that one cancelled in time finds *)
(* its event set, which is its own until it closes it (Cancelled, Held).   *)
(***************************************************************************)
Lookup == Lookups!Lookup
Nobody == Lookups!Nobody

Shares   == {"service", "protocol"}
InFlight == {"queued", "looking", "found", "lost", "write", "post", "close"}
Stage    == InFlight \cup {"none", "over"}
Before   == {"none", "queued", "looking", "found", "lost", "write"}

Record  == [at : Stage, handle : Handle \cup {"none"}, place : Shares \cup {"thread"}]
Message == [handle : Handle, ok : BOOLEAN]

LookupTypeOK ==
  /\ lookup \in [Lookup -> Record]
  /\ event \in [Handle -> {"closed", "clear", "set"}]
  /\ messages \in Seq(Message)
  /\ place \in [Shares -> Lookup \cup {Nobody}]
  /\ buffer \in [Lookup -> Lookup \cup {Nobody}]
  /\ told \in [Lookup -> {"none", "ok", "error"}]
  /\ refused \subseteq Lookup /\ mixed \subseteq Lookup /\ reused \subseteq Handle

\* A look-up whose handle was given to no other while it was open.
Sole(k) == lookup[k].handle \in Handle \ reused

\* They are asked for one after the other.
Unasked ==
  \A k \in Lookup : lookup[k].at = "none" =>
    /\ lookup[k].handle = "none" /\ told[k] = "none" /\ k \notin refused
    /\ \A j \in Lookup : j > k => lookup[j].at = "none"

\* The event of a work item is open, and no other's.
Held ==
  \A k \in Lookup : lookup[k].at \in InFlight =>
    /\ lookup[k].handle \in Handle /\ event[lookup[k].handle] # "closed"
    /\ \A j \in Lookup : j # k /\ lookup[j].at \in InFlight => lookup[j].handle # lookup[k].handle

\* Of those that were given a handle one was the last.
IsLast(k) == \A i \in Lookup : i > k => lookup[i].handle # lookup[k].handle
HasLast ==
  \A j \in Lookup : lookup[j].handle \in Handle =>
    \E k \in Lookup : lookup[k].handle = lookup[j].handle /\ IsLast(k)

\* It was given again when the one before had been answered.
Latest ==
  \A j, k \in Lookup : j < k /\ Sole(k) /\ lookup[j].handle = lookup[k].handle => told[j] # "none"

\* Who waits was told nothing, and what a buffer holds was found for it.
Waiting == \A k \in Lookup : Sole(k) /\ lookup[k].at \in InFlight \ {"close"} => told[k] = "none"
Unwritten == \A k \in Lookup : lookup[k].at \in Before => buffer[k] = Nobody
Written == \A k \in Lookup : buffer[k] \in {Nobody, k} \/ k \in mixed
Found ==
  \A k \in Lookup : lookup[k].at \in {"found", "write"} /\ lookup[k].place # "thread" =>
    place[lookup[k].place] = k \/ k \in mixed
Success == \A k \in Lookup : Sole(k) /\ told[k] = "ok" => buffer[k] # Nobody

\* A message is the only one with its handle, and the answer of a look-up that waits for it.
Answers(m, k) ==
  /\ lookup[k].handle = m.handle /\ lookup[k].at \in {"close", "over"}
  /\ told[k] = "none" /\ k \notin refused /\ (m.ok <=> buffer[k] # Nobody)
Answered ==
  \A i \in DOMAIN messages :
    messages[i].handle \notin reused => \E k \in Lookup : Answers(messages[i], k)
Addressed ==
  \A i \in DOMAIN messages : \E k \in Lookup : lookup[k].handle = messages[i].handle
Single ==
  \A i, j \in DOMAIN messages :
    messages[i].handle \notin reused /\ j # i => messages[j].handle # messages[i].handle

\* A look-up that was cancelled in time finds its event set.
Cancelled ==
  \A k \in refused : Sole(k) =>
    /\ told[k] = "none" /\ buffer[k] = Nobody
    /\ \/ lookup[k].at = "over"
       \/ lookup[k].at \in {"queued", "looking", "found", "lost"} /\ event[lookup[k].handle] = "set"

LookupInv ==
  /\ LookupTypeOK /\ Unasked /\ Held /\ HasLast /\ Latest /\ Waiting /\ Unwritten /\ Written
  /\ Found /\ Success /\ Answered /\ Addressed /\ Single /\ Cancelled

USE LookupAssumption
    DEF Lookup, Nobody, Lookups!Lookup, Lookups!Nobody, Lookups!At, Lookups!Go, Lookups!Open,
        Lookups!Shared, InFlight, Stage, Before, Shares, Sole, IsLast, Answers, Record, Message

\* A work item goes on, and what is in the queue is a message.
LEMMA GoesOn ==
  ASSUME LookupTypeOK, NEW k \in Lookup, NEW at \in Stage, lookup' = [lookup EXCEPT ![k].at = at]
  PROVE  lookup' \in [Lookup -> Record]
<1>1. [lookup[k] EXCEPT !.at = at] \in Record
  <2>1. lookup[k] \in Record
    BY DEF LookupTypeOK
  <2> QED
    BY <2>1
<1> HIDE DEF Record
<1> QED
  BY <1>1 DEF LookupTypeOK

LEMMA QueueHolds ==
  ASSUME LookupTypeOK, NEW i \in DOMAIN messages
  PROVE  messages[i] \in Message
<1> HIDE DEF Message
<1> QED
  BY DEF LookupTypeOK

\* Steps that give no handle, and those that leave what is said of messages.
LEMMA HandlesStay ==
  ASSUME LookupInv, \A j \in Lookup : lookup'[j].handle = lookup[j].handle
  PROVE  HasLast'
BY DEF LookupInv, HasLast

LEMMA MessagesStay ==
  ASSUME LookupInv, UNCHANGED <<messages, reused>>,
         \A j \in Lookup :
           /\ lookup'[j].handle = lookup[j].handle
           /\ lookup[j].at \in {"close", "over"} =>
                /\ lookup'[j].at \in {"close", "over"} /\ buffer'[j] = buffer[j]
                /\ told'[j] = told[j] /\ (j \in refused' => j \in refused)
  PROVE  Answered' /\ Addressed' /\ Single'
<1>1. ASSUME NEW i \in DOMAIN messages, messages[i].handle \notin reused
      PROVE  \E k \in Lookup : Answers(messages[i], k)'
  <2>1. PICK k \in Lookup : Answers(messages[i], k)
    BY <1>1 DEF LookupInv, Answered
  <2>2. Answers(messages[i], k)'
    BY <2>1
  <2> QED
    BY <2>2
<1>2. Addressed' /\ Single'
  BY DEF LookupInv, Addressed, Single
<1> QED
  BY <1>1, <1>2 DEF Answered

\* The steps of a work item before it writes.
LEMMA GiveUpKeeps ==
  ASSUME LookupInv, NEW k \in Lookup, Lookups!GiveUp(k)
  PROVE  LookupInv'
<1> USE DEF LookupInv, Lookups!GiveUp
<1>1. LookupTypeOK'
  <2>1. lookup' \in [Lookup -> Record]
    BY GoesOn
  <2> QED
    BY <2>1 DEF LookupTypeOK
<1> USE DEF LookupTypeOK
<1>2. HasLast' /\ Answered' /\ Addressed' /\ Single'
  BY HandlesStay, MessagesStay
<1>3. Unasked' /\ Held' /\ Latest' /\ Waiting'
  BY DEF Unasked, Held, Latest, Waiting
<1>4. Unwritten' /\ Written' /\ Found' /\ Success' /\ Cancelled'
  BY DEF Unwritten, Written, Found, Success, Cancelled, Held
<1> QED
  BY <1>1, <1>2, <1>3, <1>4

LEMMA BeginKeeps ==
  ASSUME LookupInv, NEW k \in Lookup, Lookups!Begin(k)
  PROVE  LookupInv'
<1> USE DEF LookupInv, LookupTypeOK, Lookups!Begin
<1>1. LookupTypeOK'
  BY ZenonT(30)
<1>2. HasLast' /\ Answered' /\ Addressed' /\ Single'
  BY HandlesStay, MessagesStay
<1>3. Unasked' /\ Held' /\ Latest' /\ Waiting'
  BY DEF Unasked, Held, Latest, Waiting
<1>4. Unwritten' /\ Written' /\ Found' /\ Success' /\ Cancelled'
  BY DEF Unwritten, Written, Found, Success, Cancelled
<1> QED
  BY <1>1, <1>2, <1>3, <1>4

LEMMA FindKeeps ==
  ASSUME LookupInv, NEW k \in Lookup, Lookups!Find(k)
  PROVE  LookupInv'
<1> USE DEF LookupInv, LookupTypeOK, Lookups!Find
<1>1. /\ place' \in [Shares -> Lookup \cup {Nobody}] /\ mixed' \subseteq Lookup /\ mixed \subseteq mixed'
      /\ \A j \in Lookup :
           lookup[j].place # "thread" =>
             \/ place'[lookup[j].place] = place[lookup[j].place]
             \/ j \in mixed' \/ lookup[j].at \notin {"found", "write"}
      /\ lookup[k].place # "thread" => place'[lookup[k].place] = k
  <2>1. CASE lookup[k].place = "thread"
    BY <2>1
  <2>2. CASE lookup[k].place # "thread"
    <3>1. /\ place' = [place EXCEPT ![lookup[k].place] = k]
          /\ mixed' = mixed \cup {j \in Lookup : Lookups!Overwrites(k, j)}
          /\ lookup[k].at = "looking" /\ lookup[k].place \in Shares
      BY <2>2
    <3> HIDE DEF Lookups!Find
    <3>2. ASSUME NEW j \in Lookup, lookup[j].place = lookup[k].place, lookup[j].at \in {"found", "write"}
          PROVE  j \in mixed'
      BY <3>1, <3>2 DEF Lookups!Overwrites
    <3>3. ASSUME NEW j \in Lookup, lookup[j].place # lookup[k].place
          PROVE  place'[lookup[j].place] = place[lookup[j].place]
      BY <3>1, <3>3
    <3> QED
      BY <3>1, <3>2, <3>3
  <2> QED
    BY <2>1, <2>2
<1>2. LookupTypeOK'
  <2>1. lookup' \in [Lookup -> Record]
    BY GoesOn
  <2> QED
    BY <1>1, <2>1
<1>3. HasLast' /\ Answered' /\ Addressed' /\ Single'
  BY HandlesStay, MessagesStay
<1>4. Unasked' /\ Held' /\ Latest' /\ Waiting'
  BY DEF Unasked, Held, Latest, Waiting
<1>5. Unwritten' /\ Written' /\ Found' /\ Success' /\ Cancelled'
  BY <1>1 DEF Unwritten, Written, Found, Success, Cancelled
<1> QED
  BY <1>2, <1>3, <1>4, <1>5

LEMMA LoseKeeps ==
  ASSUME LookupInv, NEW k \in Lookup, Lookups!Lose(k)
  PROVE  LookupInv'
<1> USE DEF LookupInv, LookupTypeOK, Lookups!Lose
<1>1. LookupTypeOK'
  BY ZenonT(30)
<1>2. HasLast' /\ Answered' /\ Addressed' /\ Single'
  BY HandlesStay, MessagesStay
<1>3. Unasked' /\ Held' /\ Latest' /\ Waiting'
  BY DEF Unasked, Held, Latest, Waiting
<1>4. Unwritten' /\ Written' /\ Found' /\ Success' /\ Cancelled'
  BY DEF Unwritten, Written, Found, Success, Cancelled
<1> QED
  BY <1>1, <1>2, <1>3, <1>4

\* A look-up that was cancelled in time does not come past here.
LEMMA LookAgainKeeps ==
  ASSUME LookupInv, NEW k \in Lookup, Lookups!LookAgain(k)
  PROVE  LookupInv'
<1> USE DEF LookupInv, LookupTypeOK, Lookups!LookAgain
<1>1. PICK at \in {"write", "post"} :
        /\ lookup' = [lookup EXCEPT ![k].at = at]
        /\ at = "write" => lookup[k].at = "found"
  BY Zenon
<1>2. LookupTypeOK'
  BY <1>1, GoesOn
<1>3. HasLast' /\ Answered' /\ Addressed' /\ Single'
  BY <1>1, HandlesStay, MessagesStay
<1>4. Unasked' /\ Held' /\ Latest' /\ Waiting'
  BY <1>1 DEF Unasked, Held, Latest, Waiting
<1>5. Unwritten' /\ Written' /\ Found' /\ Success' /\ Cancelled'
  BY <1>1 DEF Unwritten, Written, Found, Success, Cancelled
<1> QED
  BY <1>2, <1>3, <1>4, <1>5

\* The writing, the message and the closing.
LEMMA WriteKeeps ==
  ASSUME LookupInv, NEW k \in Lookup, Lookups!Write(k)
  PROVE  LookupInv'
<1> USE DEF LookupInv, LookupTypeOK, Lookups!Write
<1>1. PICK who \in Lookup \cup {Nobody} :
        /\ buffer' = [buffer EXCEPT ![k] = who]
        /\ who = k \/ k \in mixed
  <2>1. CASE lookup[k].place = "thread"
    BY <2>1
  <2>2. CASE lookup[k].place # "thread"
    BY <2>2 DEF Found
  <2> QED
    BY <2>1, <2>2
<1>2. LookupTypeOK'
  <2>1. lookup' \in [Lookup -> Record]
    BY GoesOn
  <2> QED
    BY <1>1, <2>1
<1>3. HasLast' /\ Answered' /\ Addressed' /\ Single'
  BY <1>1, HandlesStay, MessagesStay
<1>4. Unasked' /\ Held' /\ Latest' /\ Waiting'
  BY DEF Unasked, Held, Latest, Waiting
<1>5. Unwritten' /\ Written' /\ Found' /\ Success' /\ Cancelled'
  BY <1>1 DEF Unwritten, Written, Found, Success, Cancelled, Waiting
<1> QED
  BY <1>2, <1>3, <1>4, <1>5

LEMMA PostKeeps ==
  ASSUME LookupInv, NEW k \in Lookup, Lookups!Post(k)
  PROVE  LookupInv'
<1> USE DEF LookupInv, LookupTypeOK, Lookups!Post
<1>1. PICK m \in Message :
        /\ m.handle = lookup[k].handle /\ (m.ok <=> buffer[k] # Nobody)
        /\ messages' = Append(messages, m)
  <2> DEFINE m == [handle |-> lookup[k].handle, ok |-> buffer[k] # Nobody]
  <2>1. m \in Message /\ m.handle = lookup[k].handle /\ (m.ok <=> buffer[k] # Nobody)
    BY DEF Held
  <2>2. messages' = Append(messages, m)
    OBVIOUS
  <2> HIDE DEF m
  <2> QED
    BY <2>1, <2>2
<1>2. LookupTypeOK'
  <2>1. messages' \in Seq(Message)
    <3> HIDE DEF Message
    <3> QED
      BY <1>1
  <2>2. lookup' \in [Lookup -> Record]
    BY GoesOn
  <2> QED
    BY <2>1, <2>2
<1>3. HasLast'
  BY HandlesStay
<1>4. Unasked' /\ Held' /\ Latest' /\ Waiting'
  BY DEF Unasked, Held, Latest, Waiting
<1>5. Unwritten' /\ Written' /\ Found' /\ Success' /\ Cancelled'
  BY DEF Unwritten, Written, Found, Success, Cancelled
<1>6. /\ DOMAIN messages' = DOMAIN messages \cup {Len(messages) + 1}
      /\ \A i \in DOMAIN messages : messages'[i] = messages[i]
      /\ messages'[Len(messages) + 1] = m
  BY <1>1
<1>7. ASSUME NEW i \in DOMAIN messages, messages[i].handle \notin reused
      PROVE  (\E j \in Lookup : Answers(messages[i], j)') /\ messages[i].handle # m.handle
  <2>1. PICK j \in Lookup : Answers(messages[i], j)
    BY <1>7 DEF Answered
  <2>2. j # k
    BY <2>1
  <2>3. Answers(messages[i], j)'
    BY <1>6, <2>1, <2>2
  <2>4. messages[i].handle \in Handle
    BY QueueHolds
  <2>5. messages[i].handle # lookup[k].handle
    BY <1>7, <2>1, <2>2, <2>4 DEF Latest, Waiting
  <2> QED
    BY <1>1, <2>3, <2>5
<1>8. Answered'
  <2>1. m.handle \notin reused => Answers(m, k)'
    <3>1. SUFFICES ASSUME m.handle \notin reused PROVE Answers(m, k)'
      OBVIOUS
    <3>2. Sole(k)
      BY <1>1, <3>1
    <3>3. told[k] = "none" /\ k \notin refused
      BY <3>2 DEF Waiting, Cancelled
    <3> QED
      BY <1>1, <3>3
  <2>2. ASSUME NEW i \in DOMAIN messages', messages'[i].handle \notin reused
        PROVE  \E j \in Lookup : Answers(messages[i], j)'
    <3>1. CASE i \in DOMAIN messages
      BY <1>6, <1>7, <2>2, <3>1
    <3>2. CASE i = Len(messages) + 1
      BY <1>6, <2>1, <2>2, <3>2
    <3> QED
      BY <1>6, <3>1, <3>2
  <2> QED
    BY <2>2 DEF Answered
<1>9. Addressed'
  <2>1. \A j \in Lookup : lookup'[j].handle = lookup[j].handle
    OBVIOUS
  <2>2. ASSUME NEW i \in DOMAIN messages'
        PROVE  \E j \in Lookup : lookup[j].handle = messages'[i].handle
    <3>1. CASE i \in DOMAIN messages
      BY <1>6, <3>1 DEF Addressed
    <3>2. CASE i = Len(messages) + 1
      BY <1>1, <1>6, <3>2
    <3> QED
      BY <1>6, <3>1, <3>2
  <2> QED
    BY <2>1, <2>2 DEF Addressed
<1>10. Single'
  BY <1>1, <1>6, <1>7 DEF Single
<1> QED
  BY <1>2, <1>3, <1>4, <1>5, <1>8, <1>9, <1>10

LEMMA CloseKeeps ==
  ASSUME LookupInv, NEW k \in Lookup, Lookups!Close(k)
  PROVE  LookupInv'
<1> USE DEF LookupInv, LookupTypeOK, Lookups!Close
<1>1. LookupTypeOK'
  BY ZenonT(30)
<1>2. HasLast' /\ Answered' /\ Addressed' /\ Single'
  BY HandlesStay, MessagesStay
<1>3. Unasked' /\ Held' /\ Latest' /\ Waiting'
  BY DEF Unasked, Held, Latest, Waiting
<1>4. Unwritten' /\ Written' /\ Found' /\ Success' /\ Cancelled'
  BY DEF Unwritten, Written, Found, Success, Cancelled, Held
<1> QED
  BY <1>1, <1>2, <1>3, <1>4

\* The calls of the program.
LEMMA RefuseKeeps ==
  ASSUME LookupInv, NEW k \in Lookup, Lookups!Refuse(k)
  PROVE  LookupInv'
<1> USE DEF LookupInv, LookupTypeOK, Lookups!Refuse, Lookups!IsNext
<1>1. LookupTypeOK'
  BY ZenonT(30)
<1>2. HasLast' /\ Answered' /\ Addressed' /\ Single'
  BY HandlesStay, MessagesStay
<1>3. Unasked' /\ Held' /\ Latest' /\ Waiting'
  BY DEF Unasked, Held, Latest, Waiting
<1>4. Unwritten' /\ Written' /\ Found' /\ Success' /\ Cancelled'
  BY DEF Unwritten, Written, Found, Success, Cancelled, Unasked
<1> QED
  BY <1>1, <1>2, <1>3, <1>4

LEMMA CancelKeeps ==
  ASSUME LookupInv, NEW k \in Lookup, Lookups!Cancel(k)
  PROVE  LookupInv'
<1> USE DEF LookupInv, LookupTypeOK, Lookups!Cancel
<1>1. event' = [event EXCEPT ![lookup[k].handle] = "set"] /\ event[lookup[k].handle] # "closed"
  OBVIOUS
<1>2. /\ refused \subseteq refused' /\ refused' \subseteq refused \cup {k}
      /\ k \in refused' => k \in refused \/ lookup[k].at \in {"queued", "looking", "found", "lost"}
  OBVIOUS
<1>3. LookupTypeOK'
  OBVIOUS
<1>4. HasLast' /\ Answered' /\ Addressed' /\ Single'
  BY <1>2, HandlesStay, MessagesStay
<1>5. Unasked' /\ Held' /\ Latest' /\ Waiting'
  BY <1>1, <1>2 DEF Unasked, Held, Latest, Waiting
<1>6. Unwritten' /\ Written' /\ Found' /\ Success'
  BY DEF Unwritten, Written, Found, Success
<1>7. Cancelled'
  <2>1. ASSUME NEW j \in refused, Sole(j) PROVE event[lookup[j].handle] = "set" => event'[lookup[j].handle] = "set"
    BY <2>1
  <2> QED
    BY <1>1, <1>2, <2>1 DEF Cancelled, Unwritten
<1> QED
  BY <1>3, <1>4, <1>5, <1>6, <1>7

\* A handle that the program still uses is reused from here on; any other is that of the new look-up
\* alone, or of those before that were answered.
LEMMA AskKeeps ==
  ASSUME LookupInv, NEW k \in Lookup, NEW h \in Handle, NEW call \in Lookups!Calls, NEW given,
         Lookups!Ask(k, h, call, given)
  PROVE  LookupInv'
<1> USE DEF LookupInv, LookupTypeOK, Lookups!Ask, Lookups!IsNext
<1>1. call.place \in Shares \cup {"thread"}
  BY DEF Lookups!Calls, Lookups!Call, Lookups!HostByName, Lookups!HostByAddr, Lookups!ProtoByNumber,
         Lookups!ProtoByName, Lookups!ServByPort, Lookups!ServByName
<1> DEFINE new == [at |-> "queued", handle |-> h, place |-> call.place]
<1>2. /\ lookup' = [lookup EXCEPT ![k] = new]
      /\ new \in Record
      /\ new.at = "queued" /\ new.handle = h
  BY <1>1
<1>3. /\ reused \subseteq reused' /\ reused' \subseteq Handle
      /\ h \notin reused' => \A j \in Lookup : lookup[j].handle = h => told[j] # "none"
  BY DEF Unasked
<1> HIDE DEF new
<1>4. /\ lookup'[k].at = "queued" /\ lookup'[k].handle = h
      /\ \A j \in Lookup : j # k => lookup'[j] = lookup[j]
      /\ event' = [event EXCEPT ![h] = "clear"] /\ event[h] = "closed"
      /\ lookup[k].at = "none" /\ lookup[k].handle = "none" /\ told[k] = "none" /\ k \notin refused
      /\ \A j \in Lookup : j < k => lookup[j].at # "none"
      /\ \A j \in Lookup : j > k => lookup[j].at = "none" /\ lookup[j].handle = "none"
      /\ UNCHANGED <<messages, place, buffer, told, refused, mixed>>
  BY <1>2 DEF Unasked
<1>5. LookupTypeOK'
  BY <1>2, <1>3, <1>4
<1>6. HasLast'
  <2>1. ASSUME NEW j \in Lookup, j # k, lookup[j].handle \in Handle \ {h}
        PROVE  \E i \in Lookup : lookup'[i].handle = lookup'[j].handle /\ IsLast(i)'
    <3>1. PICK i \in Lookup : lookup[i].handle = lookup[j].handle /\ IsLast(i)
      BY <2>1 DEF HasLast
    <3>2. i # k
      BY <1>4, <2>1, <3>1
    <3>3. lookup'[i] = lookup[i] /\ lookup'[j] = lookup[j]
      BY <1>4, <2>1, <3>2
    <3>4. IsLast(i)'
      BY <1>4, <2>1, <3>1, <3>3
    <3> QED
      BY <3>1, <3>3, <3>4
  <2>2. IsLast(k)'
    BY <1>4
  <2> QED
    BY <1>4, <2>1, <2>2 DEF HasLast
<1>7. Unasked' /\ Held'
  BY <1>4 DEF Unasked, Held
<1>8. Latest'
  BY <1>3, <1>4 DEF Latest
<1>9. Waiting' /\ Success' /\ Unwritten' /\ Written' /\ Found'
  <2>1. Waiting' /\ Success'
    BY <1>3, <1>4 DEF Waiting, Success
  <2>2. Unwritten' /\ Written'
    BY <1>4 DEF Unwritten, Written
  <2>3. Found'
    BY <1>4 DEF Found
  <2> QED
    BY <2>1, <2>2, <2>3
<1>10. Answered'
  <2>1. ASSUME NEW i \in DOMAIN messages, messages[i].handle \notin reused'
        PROVE  \E j \in Lookup : Answers(messages[i], j)'
    <3>1. PICK j \in Lookup : Answers(messages[i], j)
      BY <1>3, <2>1 DEF Answered
    <3>2. j # k
      BY <1>4, <3>1
    <3>3. Answers(messages[i], j)'
      BY <1>4, <3>1, <3>2
    <3> QED
      BY <3>3
  <2> QED
    BY <1>4, <2>1 DEF Answered
<1>11. Addressed' /\ Single'
  <2>1. ASSUME NEW i \in DOMAIN messages
        PROVE  \E j \in Lookup : lookup'[j].handle = messages[i].handle
    <3>1. PICK j \in Lookup : lookup[j].handle = messages[i].handle
      BY DEF Addressed
    <3>2. messages[i].handle \in Handle
      BY QueueHolds
    <3>3. j # k
      BY <1>4, <3>1, <3>2
    <3> QED
      BY <1>4, <3>1, <3>3
  <2>2. Addressed'
    BY <1>4, <2>1 DEF Addressed
  <2>3. Single'
    BY <1>3, <1>4 DEF Single
  <2> QED
    BY <2>2, <2>3
<1>12. Cancelled'
  <2>1. ASSUME NEW j \in refused, lookup'[j].handle \in Handle \ reused'
        PROVE  /\ j # k /\ Sole(j) /\ lookup'[j] = lookup[j]
               /\ event[lookup[j].handle] = "set" => event'[lookup[j].handle] = "set"
    BY <1>3, <1>4, <2>1
  <2> QED
    BY <1>4, <2>1 DEF Cancelled
<1> QED
  BY <1>5, <1>6, <1>7, <1>8, <1>9, <1>10, <1>11, <1>12

\* The message is of the last look-up that has its handle.
LEMMA ReceiveKeeps ==
  ASSUME LookupInv, Lookups!Receive
  PROVE  LookupInv'
<1> USE DEF LookupInv, LookupTypeOK, Lookups!Receive
<1> DEFINE m == Head(messages)
           IsFor(j) == /\ lookup[j].handle = m.handle
                       /\ \A i \in Lookup : i > j => lookup[i].handle # m.handle
           last == CHOOSE j \in Lookup : IsFor(j)
<1>1. /\ messages # <<>> /\ messages' = Tail(messages)
      /\ told' = [told EXCEPT ![last] = IF m.ok THEN "ok" ELSE "error"]
      /\ UNCHANGED <<lookup, event, place, buffer, refused, mixed, reused>>
  BY Zenon
<1>2. /\ 1 \in DOMAIN messages /\ m = messages[1]
      /\ DOMAIN messages' = {i \in Nat : i + 1 \in DOMAIN messages /\ i # 0}
      /\ \A i \in DOMAIN messages' : messages'[i] = messages[i + 1]
      /\ messages' \in Seq(Message)
  <2> HIDE DEF Message
  <2> QED
    BY <1>1
<1>3. m \in Message
  BY <1>2, QueueHolds
<1>4. last \in Lookup /\ IsFor(last)
  <2>1. PICK j \in Lookup : lookup[j].handle = m.handle
    BY <1>2 DEF Addressed
  <2>2. PICK i \in Lookup : lookup[i].handle = lookup[j].handle /\ IsLast(i)
    BY <1>3, <2>1 DEF HasLast
  <2>3. IsFor(i)
    BY <2>1, <2>2
  <2> HIDE DEF IsFor
  <2> QED
    BY <2>3
<1>5. PICK k \in Lookup, answer \in {"ok", "error"} :
        IsFor(k) /\ told' = [told EXCEPT ![k] = answer] /\ (answer = "ok" <=> m.ok)
  <2> HIDE DEF last, m, IsFor
  <2> QED
    BY <1>1, <1>4
<1>6. m.handle \notin reused => Answers(m, k)
  <2>1. SUFFICES ASSUME m.handle \notin reused PROVE Answers(m, k)
    OBVIOUS
  <2>2. PICK j \in Lookup : Answers(m, j)
    BY <1>2, <2>1 DEF Answered
  <2>3. j = k
    BY <1>3, <1>5, <2>1, <2>2 DEF Latest
  <2> QED
    BY <2>2, <2>3
<1>7. /\ told'[k] = answer /\ told' \in [Lookup -> {"none", "ok", "error"}]
      /\ \A j \in Lookup : j # k => told'[j] = told[j]
  BY <1>5
<1>8. lookup[k].handle \in Handle /\ lookup[k].handle = m.handle
  BY <1>3, <1>5
<1>9. Sole(k) =>
        lookup[k].at \in {"close", "over"} /\ k \notin refused /\ (answer = "ok" <=> buffer[k] # Nobody)
  BY <1>5, <1>6, <1>8
<1> HIDE DEF last, m, IsFor, Lookups!Receive
<1>10. LookupTypeOK'
  BY <1>1, <1>2, <1>7
<1>11. HasLast' /\ Held' /\ Unasked'
  BY <1>1, <1>7, <1>8, HandlesStay DEF Unasked, Held
<1>12. Latest' /\ Waiting'
  BY <1>1, <1>7, <1>9 DEF Latest, Waiting
<1>13. Unwritten' /\ Written' /\ Found'
  BY <1>1 DEF Unwritten, Written, Found
<1>14. Success' /\ Cancelled'
  BY <1>1, <1>7, <1>9 DEF Success, Cancelled
<1>15. Answered'
  <2>1. ASSUME NEW i \in DOMAIN messages', messages'[i].handle \notin reused
        PROVE  \E j \in Lookup : Answers(messages[i], j)'
    <3>1. i + 1 \in DOMAIN messages /\ i + 1 # 1 /\ messages'[i] = messages[i + 1]
      BY <1>2
    <3>2. messages[i + 1].handle # m.handle
      BY <1>2, <2>1, <3>1 DEF Single
    <3>3. PICK j \in Lookup : Answers(messages[i + 1], j)
      BY <2>1, <3>1 DEF Answered
    <3>4. j # k
      BY <1>8, <3>2, <3>3
    <3>5. Answers(messages[i], j)'
      BY <1>1, <1>7, <3>1, <3>3, <3>4
    <3> QED
      BY <3>5
  <2> QED
    BY <1>1, <2>1 DEF Answered
<1>16. Addressed' /\ Single'
  <2>1. Addressed'
    BY <1>1, <1>2 DEF Addressed
  <2>2. Single'
    BY <1>1, <1>2 DEF Single
  <2> QED
    BY <2>1, <2>2
<1> QED
  BY <1>10, <1>11, <1>12, <1>13, <1>14, <1>15, <1>16

LEMMA LookupSteps == LookupInv /\ [Lookups!Next]_lookupVars => LookupInv'
<1> SUFFICES ASSUME LookupInv, [Lookups!Next]_lookupVars PROVE LookupInv'
  OBVIOUS
<1>1. ASSUME NEW k \in Lookup, Lookups!Work(k) PROVE LookupInv'
  BY <1>1, GiveUpKeeps, BeginKeeps, FindKeeps, LoseKeeps, LookAgainKeeps, WriteKeeps, PostKeeps, CloseKeeps
  DEF Lookups!Work
<1>2. CASE UNCHANGED lookupVars
  BY <1>2 DEF lookupVars, LookupInv, LookupTypeOK, Unasked, Held, HasLast, Latest, Waiting, Unwritten,
              Written, Found, Success, Answered, Addressed, Single, Cancelled
<1> QED
  BY <1>1, <1>2, ReceiveKeeps, RefuseKeeps, CancelKeeps, AskKeeps DEF Lookups!Next

\* Who is told that a look-up succeeded has the answer to it, and who cancelled one in
\* time is told nothing, though handles come back, messages are queued and work items
\* look at their events only now and then (siege_WSAAsyncGet..., siege_WSACancelAsyncRequest).
THEOREM LookupsTellTrue == BothSpec => [](\A k \in Lookup : Lookups!TellsTrue(k))
<1>1. BothInit => LookupInv
  BY DEF BothInit, Lookups!Init, LookupInv, LookupTypeOK, Unasked, Held, HasLast, Latest, Waiting,
         Unwritten, Written, Found, Success, Answered, Addressed, Single, Cancelled
<1>2. LookupInv /\ [BothNext]_<<part, vars, lookupVars>> => LookupInv'
  BY LookupSteps DEF BothNext
<1>3. LookupInv => \A k \in Lookup : Lookups!TellsTrue(k)
  BY DEF LookupInv, Written, Success, Cancelled, Lookups!TellsTrue, Lookups!TellsOwn
<1> QED
  BY <1>1, <1>2, <1>3, PTL DEF BothSpec
=============================================================================
