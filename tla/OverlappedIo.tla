------------------------------ MODULE OverlappedIo ------------------------------
(***************************************************************************)
(* Overlapped WSARecvFrom and WSASendTo (wsock32-client-shared.cpp).       *)
(*                                                                         *)
(* A call only queues its operation in the context of its socket, and a    *)
(* map from OVERLAPPED addresses to sockets says where to look for it.  A  *)
(* worker polls the sockets that have work, makes the plain calls, stores  *)
(* the results and then sets the event object or queues an APC.  The       *)
(* program takes the result with WSAGetOverlappedResult, or is called back *)
(* by the APC.  Operations are found by the address of their OVERLAPPED,   *)
(* and every access to queues and map is atomic (a mutex).                 *)
(*                                                                         *)
(* Each OVERLAPPED has an event object of its own and is used by a thread  *)
(* of its own, which resets the event before it uses the OVERLAPPED again. *)
(***************************************************************************)
EXTENDS Integers, SequencesExt

CONSTANTS
  Socket,      \* socket handles; the server gives a closed one out again
  Overlapped,  \* addresses of OVERLAPPED structures
  NoSocket,    \* an OVERLAPPED that is not in the map, or no context
  Programs,    \* the programs that use them, one of which runs: see Program
  MaxOps,      \* bound: operations started
  MaxData      \* bound: data that arrive at a socket

Kind    == {"read", "write"}
Program == [kinds    : SUBSET Kind,                   \* what it does
            targets  : SUBSET {"event", "callback"},  \* how it wants to know
            backend  : {"ws2_32", "zero-tier"},       \* what its server runs on
            patient  : BOOLEAN,  \* asks for a result only after the event was set
            reissues : BOOLEAN,  \* starts an operation in a completion routine
            tidy     : BOOLEAN,  \* gets a handle back only when nothing is pending on it
            cleans   : BOOLEAN]  \* calls WSACleanup, which stops the worker

ASSUME OverlappedAssumption ==
  /\ Programs \subseteq Program
  /\ MaxOps \in Nat /\ MaxData \in Nat
  /\ NoSocket \notin Socket

VARIABLES
  program,   \* the one that runs
  net,       \* the sockets as the server has them
  ctx,       \* the two queues in the context of each handle
  where,     \* overlapped_sockets
  signaled,  \* the OVERLAPPED whose event object is set
  apcs,      \* APCs queued to the thread of each OVERLAPPED
  user,      \* what the thread of each OVERLAPPED does, and for which operation
  worker,    \* the overlapped worker
  ops,       \* history: the operations started
  got        \* history: what the program was told of each

vars == <<program, net, ctx, where, signaled, apcs, user, worker, ops, got>>

Pending  == [is |-> "pending", datum |-> 0]
Failed   == [is |-> "error", datum |-> 0]
Ok(n)    == [is |-> "ok", datum |-> n]
Told(st) == [is |-> st, datum |-> 0]

Nothing == [kind \in Kind |-> <<>>]
NoJobs  == [kind \in {} |-> NoSocket]
Resting == [at |-> "rest", left |-> {}, socket |-> NoSocket, jobs |-> NoJobs,
            result |-> Pending, stopping |-> FALSE]

Init ==
  /\ program \in Programs
  /\ net = [s \in Socket |-> [open |-> TRUE, took |-> 0, came |-> 0, room |-> TRUE]]
  /\ ctx = [s \in Socket |-> Nothing]
  /\ where = [o \in Overlapped |-> NoSocket]
  /\ signaled = {}
  /\ apcs = [o \in Overlapped |-> 0]
  /\ user = [o \in Overlapped |-> [at |-> "idle", op |-> 0]]
  /\ worker = Resting
  /\ ops = <<>>
  /\ got = [k \in 1 .. MaxOps |-> Pending]

-----------------------------------------------------------------------------
\* The first operation of a queue that uses o, or that waits (0: there is none).
OfOverlapped(q, o) == SelectInSeq(q, LAMBDA e : e.overlapped = o)
FirstPending(q)    == SelectInSeq(q, LAMBDA e : e.result = Pending)

\* get_overlapped_result: the result of o, if it has one.
Result(o) ==
  IF where[o] = NoSocket THEN Told("invalid")
  ELSE LET c == ctx[where[o]]
           r == OfOverlapped(c["read"], o)
           w == OfOverlapped(c["write"], o)
       IN IF r # 0 /\ c["read"][r].result # Pending THEN c["read"][r].result
          ELSE IF w # 0 /\ c["write"][w].result # Pending THEN c["write"][w].result
          ELSE Pending

\* complete_overlapped_read_work, complete_overlapped_write_work: the first
\* operation of that kind with the address gets the result.
Stored(c, kind, o, result) ==
  LET i == OfOverlapped(c[kind], o)
  IN IF i = 0 THEN c ELSE [c EXCEPT ![kind][i].result = result]

\* Mutant of StoredError: an error is no result.
ErrorDropped(c, o) == c

\* error_overlapped_work: of either kind, reads first.
StoredError(c, o) ==
  IF OfOverlapped(c["read"], o) # 0 THEN Stored(c, "read", o, Failed) ELSE Stored(c, "write", o, Failed)

\* remove_overlapped_work, in the queues.
Without(c, o) ==
  [kind \in Kind |-> LET i == OfOverlapped(c[kind], o)
                     IN IF i = 0 THEN c[kind] ELSE RemoveAt(c[kind], i)]

\* Mutant of Enqueued: an operation is put before those that wait.
EnqueuedFirst(c, kind, e) == [c EXCEPT ![kind] = <<e>> \o @]

Enqueued(c, kind, e) == [c EXCEPT ![kind] = Append(@, e)]

\* queue_overlapped_read_work, queue_overlapped_write_work.  emplace leaves an
\* address that is in the map where it is.
Queue(s, kind, o, target) ==
  /\ Len(ops) < MaxOps
  /\ ctx' = [ctx EXCEPT ![s] = Enqueued(@, kind,
               [overlapped |-> o, target |-> target, op |-> Len(ops) + 1, result |-> Pending])]
  /\ where' = [where EXCEPT ![o] = IF @ = NoSocket THEN s ELSE @]
  /\ ops' = Append(ops, [socket |-> s, kind |-> kind, overlapped |-> o])
  /\ worker' = [worker EXCEPT !.stopping = FALSE]

\* WSAResetEvent, by the program, and WSAWaitForMultipleEvents, for the event object
\* of o.
ResetEvent(o) == signaled' = signaled \ {o}
EventSet(o)   == o \in signaled

\* An operation of that kind is queued; a stopped worker is started again.
Start(o, kind) ==
  /\ user[o].at = "idle"
  /\ \E s \in Socket, target \in program.targets : net[s].open /\ Queue(s, kind, o, target)
  /\ user' = [user EXCEPT ![o] = [at |-> "issued", op |-> Len(ops) + 1]]
  /\ ResetEvent(o)
  /\ UNCHANGED <<program, net, apcs, got>>

\* An overlapped WSARecvFrom or WSARecv, and an overlapped WSASendTo or WSASend.
RecvFrom(o) == "read" \in program.kinds /\ Start(o, "read")
SendTo(o)   == "write" \in program.kinds /\ Start(o, "write")

Issue(o) == RecvFrom(o) \/ SendTo(o)

\* The program looks at what it is told of its operation.
Learn(o, result, at) ==
  /\ got' = [got EXCEPT ![user[o].op] = result]
  /\ user' = [user EXCEPT ![o].at = at]

\* Does the operation of o end by a callback?  (Such an OVERLAPPED has no event.)
CalledBack(o) ==
  \E s \in Socket, kind \in Kind :
    \E i \in DOMAIN ctx[s][kind] :
      ctx[s][kind][i].op = user[o].op /\ ctx[s][kind][i].target = "callback"

\* WSAGetOverlappedResult, first look.  There may be a result, the address may
\* be unknown; if the operation is under way the call waits for the event, or
\* returns WSA_IO_INCOMPLETE, which changes nothing.
Ask(o) ==
  /\ user[o].at = "issued"
  /\ ~CalledBack(o)
  /\ program.patient => EventSet(o)
  /\ LET r == Result(o)
     IN IF r = Pending THEN user' = [user EXCEPT ![o].at = "waiting"] /\ UNCHANGED got
        ELSE Learn(o, r, IF r.is = "invalid" THEN "idle" ELSE "taken")
  /\ UNCHANGED <<program, net, ctx, where, signaled, apcs, worker, ops>>

\* The event is set: the second look, and WSA_OPERATION_ABORTED if there is
\* still no result.
Wake(o) ==
  /\ user[o].at = "waiting"
  /\ o \in signaled
  /\ IF Result(o).is \in {"pending", "invalid"}
     THEN Learn(o, Told("aborted"), "idle")
     ELSE Learn(o, Result(o), "taken")
  /\ UNCHANGED <<program, net, ctx, where, signaled, apcs, worker, ops>>

\* apc_callback: without a result it returns, else it calls the completion
\* routine ...
RunApc(o) ==
  /\ apcs[o] > 0
  /\ user[o].at \in {"idle", "issued"}
  /\ apcs' = [apcs EXCEPT ![o] = @ - 1]
  /\ IF user[o].at = "idle" \/ Result(o).is \in {"pending", "invalid"}
     THEN UNCHANGED <<user, got>>
     ELSE Learn(o, Result(o), "called")
  /\ UNCHANGED <<program, net, ctx, where, signaled, worker, ops>>

\* ... in which the program may use the OVERLAPPED for the next operation ...
Reissue(o) ==
  /\ program.reissues
  /\ user[o].at = "called"
  /\ \E s \in Socket, kind \in program.kinds : net[s].open /\ Queue(s, kind, o, "callback")
  /\ user' = [user EXCEPT ![o] = [at |-> "reissued", op |-> Len(ops) + 1]]
  /\ UNCHANGED <<program, net, signaled, apcs, got>>

\* ... and then, like WSAGetOverlappedResult, removes the operation.
RemoveWork(o) ==
  /\ user[o].at \in {"taken", "called", "reissued"}
  /\ IF where[o] = NoSocket THEN UNCHANGED ctx
     ELSE ctx' = [ctx EXCEPT ![where[o]] = Without(@, o)]
  /\ where' = [where EXCEPT ![o] = NoSocket]
  /\ user' = [user EXCEPT ![o].at = IF @ = "reissued" THEN "issued" ELSE "idle"]
  /\ UNCHANGED <<program, net, signaled, apcs, worker, ops, got>>

Uses(o, s) == user[o].at # "idle" /\ ops[user[o].op].socket = s

\* Is nothing under way for s?
Quiet(s) == /\ \A o \in Overlapped : ~Uses(o, s)
            /\ \A kind \in Kind : FirstPending(ctx[s][kind]) = 0
            /\ worker.socket # s

\* closesocket cancels nothing: the queues stay in the context, which is only
\* marked as closed.
Close(s) ==
  /\ net[s].open
  /\ net' = [net EXCEPT ![s] = [@ EXCEPT !.open = FALSE, !.came = net[s].took]]
  /\ UNCHANGED <<program, ctx, where, signaled, apcs, user, worker, ops, got>>

\* The handle is given out again: the closed context goes, with its queues; the
\* map of OVERLAPPED addresses is left alone.
Open(s) ==
  /\ ~net[s].open
  /\ program.tidy => Quiet(s)
  /\ net' = [net EXCEPT ![s].open = TRUE]
  /\ ctx' = [ctx EXCEPT ![s] = Nothing]
  /\ UNCHANGED <<program, where, signaled, apcs, user, worker, ops, got>>

\* WSACleanup: request_stop.
Cleanup ==
  /\ program.cleans
  /\ worker' = [worker EXCEPT !.stopping = TRUE]
  /\ UNCHANGED <<program, net, ctx, where, signaled, apcs, user, ops, got>>

\* The network: data arrive, room to send comes and goes.
Arrive(s) ==
  /\ net[s].open /\ net[s].came < MaxData
  /\ net' = [net EXCEPT ![s].came = @ + 1]
  /\ UNCHANGED <<program, ctx, where, signaled, apcs, user, worker, ops, got>>

Room(s) ==
  /\ "write" \in program.kinds
  /\ net' = [net EXCEPT ![s].room = TRUE]
  /\ UNCHANGED <<program, ctx, where, signaled, apcs, user, worker, ops, got>>

-----------------------------------------------------------------------------
\* Mutant of HasWork: the queue of reads is forgotten.
HasWrites(s) == FirstPending(ctx[s]["write"]) # 0

HasWork(s) == \E kind \in Kind : FirstPending(ctx[s][kind]) # 0

\* get_overlapped_sockets_with_work; the token is looked at once a cycle.
Cycle ==
  /\ worker.at = "rest"
  /\ ~worker.stopping
  /\ \E s \in Socket : HasWork(s)
  /\ worker' = [worker EXCEPT !.at = "each", !.left = {s \in Socket : HasWork(s)}]
  /\ UNCHANGED <<program, net, ctx, where, signaled, apcs, user, ops, got>>

\* peek_overlapped_read_work and peek_overlapped_write_work: copies of the first
\* that wait.
Waiting(c) ==
  [kind \in {k \in Kind : FirstPending(c[k]) # 0} |-> c[kind][FirstPending(c[kind])]]

Peek(s) ==
  /\ worker.at = "each"
  /\ s \in worker.left
  /\ LET jobs == Waiting(ctx[s])
     IN worker' = [worker EXCEPT !.left = @ \ {s}, !.socket = s, !.jobs = jobs,
                                 !.at = IF DOMAIN jobs = {} THEN "each" ELSE "select"]
  /\ UNCHANGED <<program, net, ctx, where, signaled, apcs, user, ops, got>>

EndCycle ==
  /\ worker.at = "each"
  /\ worker.left = {}
  /\ worker' = [Resting EXCEPT !.stopping = worker.stopping]
  /\ UNCHANGED <<program, net, ctx, where, signaled, apcs, user, ops, got>>

Ready(s, kind) ==
  /\ net[s].open
  /\ IF kind = "read" THEN net[s].came > net[s].took ELSE net[s].room

\* siege_select.  ws2_32 fails for a closed handle, which leaves the sets as
\* they are, and the worker goes on; the zero-tier backend skips the handle.
Chosen(s, jobs) ==
  IF program.backend = "ws2_32" /\ ~net[s].open THEN jobs
  ELSE Restrict(jobs, {kind \in DOMAIN jobs : Ready(s, kind)})

Select ==
  /\ worker.at = "select"
  /\ LET jobs == Chosen(worker.socket, worker.jobs)
     IN worker' = [worker EXCEPT !.jobs = jobs, !.at = IF DOMAIN jobs = {} THEN "each" ELSE "call"]
  /\ UNCHANGED <<program, net, ctx, where, signaled, apcs, user, ops, got>>

\* The read comes first, if there is one.
Turn == IF "read" \in DOMAIN worker.jobs THEN "read" ELSE "write"

\* siege_WSARecvFrom or siege_sendto, never blocking: WSAEWOULDBLOCK is an
\* error like any other.
Call ==
  /\ worker.at = "call"
  /\ LET s == worker.socket
         kind == Turn
     IN IF ~Ready(s, kind)
        THEN worker' = [worker EXCEPT !.at = "store", !.result = Failed] /\ UNCHANGED net
        ELSE /\ worker' = [worker EXCEPT !.at = "store",
                             !.result = Ok(IF kind = "read" THEN net[s].took + 1 ELSE 0)]
             /\ IF kind = "read" THEN net' = [net EXCEPT ![s].took = @ + 1]
                ELSE \E room \in BOOLEAN : net' = [net EXCEPT ![s].room = room]
  /\ UNCHANGED <<program, ctx, where, signaled, apcs, user, ops, got>>

\* The result is stored where the map says the OVERLAPPED is.
Store ==
  /\ worker.at = "store"
  /\ LET o == worker.jobs[Turn].overlapped
     IN IF where[o] = NoSocket THEN UNCHANGED ctx
        ELSE ctx' = [ctx EXCEPT ![where[o]] =
                       IF worker.result = Failed THEN StoredError(@, o)
                       ELSE Stored(@, Turn, o, worker.result)]
  /\ worker' = [worker EXCEPT !.at = "dispatch"]
  /\ UNCHANGED <<program, net, where, signaled, apcs, user, ops, got>>

\* dispatch_work, and on to the write if there is one.
Dispatch ==
  /\ worker.at = "dispatch"
  /\ LET job == worker.jobs[Turn]
     IN IF job.target = "event"
        THEN signaled' = signaled \cup {job.overlapped} /\ UNCHANGED apcs
        ELSE apcs' = [apcs EXCEPT ![job.overlapped] = @ + 1] /\ UNCHANGED signaled
  /\ worker' = [worker EXCEPT !.jobs = Restrict(@, DOMAIN @ \ {Turn}), !.result = Pending,
                              !.at = IF DOMAIN worker.jobs = {Turn} THEN "each" ELSE "call"]
  /\ UNCHANGED <<program, net, ctx, where, user, ops, got>>

-----------------------------------------------------------------------------
Worker == \/ Cycle \/ EndCycle \/ Select \/ Call \/ Store \/ Dispatch
          \/ \E s \in Socket : Peek(s)

Finish(o) == Ask(o) \/ Wake(o) \/ RunApc(o) \/ RemoveWork(o)

Next ==
  \/ \E o \in Overlapped : Issue(o) \/ Reissue(o) \/ Finish(o)
  \/ \E s \in Socket : Close(s) \/ Open(s) \/ Arrive(s) \/ Room(s)
  \/ Cleanup
  \/ Worker

\* The worker loops; a thread that started an operation goes on to take its
\* result, and gets to run its APCs.
Fairness == WF_vars(Worker) /\ \A o \in Overlapped : WF_vars(Finish(o))

Spec == Init /\ [][Next]_vars /\ Fairness
-----------------------------------------------------------------------------
\* Does the program use an OVERLAPPED for one operation at a time, to its end?
Careful == program.patient /\ ~program.reissues /\ program.tidy

Finished(k) == got[k] # Pending

\* The operations that are in a queue.
Queued == UNION {UNION {Range(ctx[s][kind]) : kind \in Kind} : s \in Socket}

\* The result stored for operation k (Pending: none).
Kept(k) ==
  LET found == {e \in Queued : e.op = k}
  IN IF found = {} THEN Pending ELSE (CHOOSE e \in found : TRUE).result

\* What came of operation k.
Came(k) == IF Finished(k) THEN got[k] ELSE Kept(k)

\* The read operations that hold datum n of socket s.
Holders(s, n) ==
  {k \in 1 .. Len(ops) : ops[k].socket = s /\ ops[k].kind = "read" /\ Came(k) = Ok(n)}

\* Every datum the worker took from a socket goes to one operation and to one
\* only, none is dropped because its operation is not found, and the reads of a
\* socket get its data in the order in which they were queued, though each of
\* them finishes on its own.
ReadsInOrder ==
  Careful => \A s \in Socket :
    /\ \A n \in 1 .. net[s].took :
         \/ Cardinality(Holders(s, n)) = 1
         \/ /\ worker.at = "store" /\ worker.socket = s /\ worker.result = Ok(n)
            /\ Holders(s, n) = {}
    /\ \A m, n \in 1 .. net[s].took :
         m < n => \A j \in Holders(s, m), k \in Holders(s, n) : j < k

\* Who is told that an operation is done finds its result: the event of an
\* operation under way is not set on behalf of an earlier one, and an APC is
\* queued once for an operation, so that the completion routine is called once.
ToldMeansDone ==
  Careful => \A o \in Overlapped :
    /\ user[o].at = "issued" /\ o \in signaled => Kept(user[o].op) # Pending
    /\ apcs[o] > 0 => /\ apcs[o] = 1
                      /\ user[o].at = "issued" /\ Kept(user[o].op) # Pending

UsesFor(o, s, kind) == Uses(o, s) /\ ops[user[o].op].kind = kind

CanEnd(s, kind) == Ready(s, kind) \/ ~net[s].open

\* An operation ends once there is data or room for it, though others keep the
\* one worker busy, unless those before it take what there is or the worker is
\* stopped; and so does what was pending on a socket when it was closed ("needs
\* to cancel pending overlapped operations").
OpsEnd ==
  \A o \in Overlapped, s \in Socket, kind \in {"read", "write"} :
    Careful /\ UsesFor(o, s, kind) /\ CanEnd(s, kind)
      ~> ~UsesFor(o, s, kind) \/ ~CanEnd(s, kind) \/ worker.stopping
=============================================================================
