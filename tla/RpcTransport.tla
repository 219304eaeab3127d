----------------------------- MODULE RpcTransport -----------------------------
(***************************************************************************)
(* How a socket call travels from a client to the socket server and back.  *)
(*                                                                         *)
(* The client (send_message_to_server in ws2_32-rpc-client.cpp) fills in   *)
(* one or two sections of its pool, sends the server window a message that *)
(* carries only the name of the first, and waits.  The server              *)
(* (window_proc in ws2_32-rpc-server.cpp) is one thread: it takes one      *)
(* message at a time, finds the section by name, in the cache of views it  *)
(* keeps or by opening it, runs the operation on what it finds there,      *)
(* writes the outcome back and answers.                                    *)
(*                                                                         *)
(* The client gives up when the server does not respond, or is gone.  Its  *)
(* sections go back to the pool then, but the message it sent is not taken *)
(* back: when the server comes to it, the sections may be another call's.  *)
(***************************************************************************)
EXTENDS SharedMemoryPool, RpcRequests, Sequences

CONSTANTS
  Requests,    \* the requests the threads make
  NoCall,      \* "no call", for a section nobody wrote and an idle server
  MaxCalls,    \* bound: calls one thread makes
  MaxAbandon,  \* bound: calls given up while the server was only slow
  MaxRestart   \* bound: times a process ends and its id is used again

ASSUME TransportAssumption ==
  /\ Requests \subseteq Name
  /\ MaxCalls \in Nat /\ MaxAbandon \in Nat /\ MaxRestart \in Nat

VARIABLES
  calls,      \* the number of calls each thread has begun
  op,         \* the operation each thread is calling
  pc,         \* where in that call the thread is
  inbox,      \* messages sent to the server window, in order
  serving,    \* the message the server is handling
  server,     \* "up", "hung" for good, or "gone"
  view,       \* the server's cache: the incarnation whose section a name maps
  gen,        \* the incarnation of each process
  memory,     \* the contents of every section of every incarnation
  lost,       \* history: the calls that were given up
  clean,      \* history: the last request served for the process made it forgotten
  stranded    \* history: the process ended while the server was not done with it

serverVars == <<inbox, serving, server, view>>
history    == <<lost, clean, stranded>>
vars == <<cache, used, length, params, buffer, calls, op, pc, inbox, serving,
          server, view, gen, memory, lost, clean, stranded>>

Gen    == 0 .. MaxRestart
Call   == Thread \X (1 .. MaxCalls)
NoView == -1

\* What a request is to the transport: "plain" passes parameters only, "transfer" a
\* section of data as well (recvfrom has it filled, sendto takes the same path and
\* has it read), "empty" is a transfer of no bytes, "cleanup" is WSACleanup.
Op  == {"plain", "transfer", "empty", "cleanup"}
Ops == UNION {Ways(r) : r \in Requests}

CallOf(t) == <<t, calls[t]>>

\* What a section holds: the call that filled it in, the section that stands where
\* that of the data is named, whether the process to forget is named, and the call
\* whose handling wrote results into it since.
Cell(c, b, f) == [in |-> c, buf |-> b, forget |-> f, out |-> NoCall]

Blank == Cell(NoCall, NoSlot, FALSE)

Init ==
  /\ PoolInit
  /\ calls = [t \in Thread |-> 0]
  /\ op = [t \in Thread |-> "plain"]
  /\ pc = [t \in Thread |-> "idle"]
  /\ inbox = <<>>
  /\ serving = NoCall
  /\ server = "up"
  /\ view = [p \in Process |-> [i \in Slot |-> NoView]]
  /\ gen = [p \in Process |-> 0]
  /\ memory = [p \in Process |-> [g \in Gen |-> [i \in Slot |-> Blank]]]
  /\ lost = {}
  /\ clean = [p \in Process |-> TRUE]
  /\ stranded = [p \in Process |-> FALSE]

\* Mutant of Fill: a section that was used before keeps the call it holds.
FillNew(p, i, cell) ==
  memory' = [memory EXCEPT ![p][gen[p]][i] = IF @.in = NoCall THEN cell ELSE @]

Fill(p, i, cell) == memory' = [memory EXCEPT ![p][gen[p]][i] = cell]

\* The parameters are constructed over what an earlier call left in the section.
\* Those that name no data may end before the name of that call's, or cover it.
Leftover(o, b) == IF o \in {"transfer", "empty"} THEN {NoSlot} ELSE {b, NoSlot}

-----------------------------------------------------------------------------
\* send_message_to_server: take a section and construct the parameters in it.
BeginCall(t) ==
  /\ pc[t] = "idle"
  /\ calls[t] < MaxCalls
  /\ TakeParams(t)
  /\ calls' = [calls EXCEPT ![t] = @ + 1]
  /\ LET p   == ProcOf[t]
         old == memory[p][gen[p]][params'[t]]
     IN \E o \in Ops : \E b \in Leftover(o, old.buf) :
          /\ op' = [op EXCEPT ![t] = o]
          /\ pc' = [pc EXCEPT ![t] = IF o = "transfer" THEN "filling" ELSE "ready"]
          /\ Fill(p, params'[t], Cell(<<t, calls'[t]>>, b, o = "cleanup"))
  /\ UNCHANGED <<serverVars, gen, history>>

\* The init lambdas of recvfrom and sendto: the section of the data, named in
\* the parameters.
FillBuffer(t) ==
  /\ pc[t] = "filling"
  /\ TakeBuffer(t)
  /\ memory' = [memory EXCEPT ![ProcOf[t]][gen[ProcOf[t]]] =
       [@ EXCEPT ![params[t]].buf = buffer'[t],
                 ![buffer'[t]]    = Cell(CallOf(t), NoSlot, FALSE)]]
  /\ pc' = [pc EXCEPT ![t] = "ready"]
  /\ UNCHANGED <<calls, op, serverVars, gen, history>>

\* SendMessageTimeout: the message names the section and is queued; the thread
\* waits.  ("call" is not part of the message, the properties need it.)
Send(t) ==
  /\ pc[t] = "ready"
  /\ server # "gone"
  /\ inbox' = Append(inbox, [call |-> CallOf(t), op |-> op[t], slot |-> params[t]])
  /\ pc' = [pc EXCEPT ![t] = "waiting"]
  /\ UNCHANGED <<poolVars, calls, op, serving, server, view, gen, memory, history>>

\* The inbox without its k-th message.
Without(k) == [j \in 1 .. Len(inbox) - 1 |-> inbox[IF j < k THEN j ELSE j + 1]]

\* The call fails with WSAESOCKTNOSUPPORT.
Fail(t) ==
  /\ lost' = lost \cup {CallOf(t)}
  /\ pc' = [pc EXCEPT ![t] = "failed"]
  /\ UNCHANGED <<poolVars, calls, op, serving, server, view, gen, memory, clean, stranded>>

\* Mutant of Unanswered: SendMessage, which returns only if the window is gone.
UnansweredForEver == server = "gone"

\* SMTO_ABORTIFHUNG: the server's thread does not look for messages, for too long
\* (in a handler or anywhere else) or for good, or the window is gone.
Unanswered == server = "up" => Cardinality(lost) < MaxAbandon

\* A call that waits is given up.  The system may have dropped its message while
\* it was queued; if not, the server comes to it one day.
Abandon(t) ==
  /\ pc[t] = "waiting"
  /\ Unanswered
  /\ Fail(t)
  /\ \/ \E k \in DOMAIN inbox : inbox[k].call = CallOf(t) /\ inbox' = Without(k)
     \/ UNCHANGED inbox

\* There is no window to send to.
SendFails(t) ==
  /\ pc[t] = "ready"
  /\ server = "gone"
  /\ Fail(t)
  /\ UNCHANGED inbox

\* The call reads what it was answered (on_finish) and gives its parameters back.
Collect(t) ==
  /\ pc[t] \in {"answered", "unresolved", "failed"}
  /\ PutParams(t)
  /\ pc' = [pc EXCEPT ![t] = IF buffer[t] = NoSlot THEN "idle" ELSE "returning"]
  /\ UNCHANGED <<calls, op, serverVars, gen, memory, history>>

Return(t) ==
  /\ pc[t] = "returning"
  /\ PutBuffer(t)
  /\ pc' = [pc EXCEPT ![t] = "idle"]
  /\ UNCHANGED <<calls, op, serverVars, gen, memory, history>>

-----------------------------------------------------------------------------
\* get_value: the view already mapped for that name, else the section that has
\* the name now; none when the name is nobody's (or is the null atom).
Resolve(p, i) ==
  IF i = NoSlot THEN NoView
  ELSE IF view[p][i] # NoView THEN view[p][i]
  ELSE IF length[p][i] # 0 THEN gen[p] ELSE NoView

\* The sections of p a message has to resolve: its own, and the one its
\* parameters name when the operation moves data.
SlotsOf(m, cell) == {m.slot} \cup (IF m.op \in {"transfer", "empty"} THEN {cell.buf} ELSE {})

\* Mutant of Answer: an answer goes to the thread, whichever call it waits in.
AnswerThread(c, how) ==
  pc' = [pc EXCEPT ![c[1]] = IF @ = "waiting" THEN how ELSE @]

\* The waiting thread gets the answer; a call that was given up does not.
Answer(c, how) ==
  pc' = [pc EXCEPT ![c[1]] = IF @ = "waiting" /\ CallOf(c[1]) = c THEN how ELSE @]

\* Each handler begins by resolving what it needs and remembers what it maps.
\* When a section cannot be resolved it returns SOCKET_ERROR at once.
Take ==
  /\ server = "up"
  /\ serving = NoCall
  /\ inbox # <<>>
  /\ inbox' = Tail(inbox)
  /\ LET m    == Head(inbox)
         p    == ProcOf[m.call[1]]
         v    == Resolve(p, m.slot)
         cell == IF v = NoView THEN Blank ELSE memory[p][v][m.slot]
         need == IF v = NoView THEN {m.slot} ELSE SlotsOf(m, cell)
     IN /\ view' = [view EXCEPT ![p] = [i \in Slot |-> IF i \in need THEN Resolve(p, i) ELSE @[i]]]
        /\ clean' = [clean EXCEPT ![p] = FALSE]
        /\ IF \E i \in need : Resolve(p, i) = NoView
           THEN Answer(m.call, "unresolved") /\ UNCHANGED serving
           ELSE /\ serving' = [call |-> m.call, op |-> m.op, slots |-> need,
                               saw |-> {memory[p][Resolve(p, i)][i] : i \in need}]
                /\ UNCHANGED pc
  /\ UNCHANGED <<poolVars, calls, op, server, gen, memory, lost, stranded>>

\* Mutant of Unmap: the views are kept.
KeepViews(p) ==
  /\ clean' = [clean EXCEPT ![p] = TRUE]
  /\ UNCHANGED <<view, memory>>

\* The handler of WSACleanup unmaps every view of the process that is named in
\* what it saw; parameters of another request name none.
Unmap(p) ==
  /\ IF \A cell \in serving.saw : cell.forget
     THEN /\ view' = [view EXCEPT ![p] = [i \in Slot |-> NoView]]
          /\ clean' = [clean EXCEPT ![p] = TRUE]
     ELSE UNCHANGED <<view, clean>>
  /\ UNCHANGED memory

\* The results of call c over what is in a section: over another call's
\* parameters they may hit the name of its data, or the process it names.
Written(cell, c, hit) ==
  IF cell.in = c \/ ~hit THEN [cell EXCEPT !.out = c]
  ELSE [in |-> cell.in, buf |-> NoSlot, forget |-> FALSE, out |-> c]

\* Every other handler writes its results through the views it resolved.
WriteResults(p) ==
  /\ \E hit \in BOOLEAN :
       memory' = [memory EXCEPT ![p] = [g \in Gen |-> [i \in Slot |->
                    IF i \in serving.slots /\ view[p][i] = g
                    THEN Written(memory[p][g][i], serving.call, hit)
                    ELSE memory[p][g][i]]]]
  /\ UNCHANGED <<view, clean>>

\* The handler ends and the answer is sent.
Complete ==
  /\ server = "up"
  /\ serving # NoCall
  /\ serving' = NoCall
  /\ LET p == ProcOf[serving.call[1]]
     IN IF serving.op = "cleanup" THEN Unmap(p) ELSE WriteResults(p)
  /\ Answer(serving.call, "answered")
  /\ UNCHANGED <<poolVars, calls, op, inbox, server, gen, lost, stranded>>

\* The server's thread never comes back from what it does: from the backend's call
\* in a handler, or from elsewhere.
Hang ==
  /\ server = "up"
  /\ server' = "hung"
  /\ UNCHANGED <<poolVars, calls, op, pc, inbox, serving, view, gen, memory, history>>

\* The server ends, whatever it was doing, and its views with it.
ServerEnds ==
  /\ server # "gone"
  /\ server' = "gone"
  /\ inbox' = <<>>
  /\ serving' = NoCall
  /\ view' = [p \in Process |-> [i \in Slot |-> NoView]]
  /\ clean' = [p \in Process |-> TRUE]
  /\ UNCHANGED <<poolVars, calls, op, pc, gen, memory, lost, stranded>>

\* A message of the process is in the server's inbox or being handled.
Pending(p) ==
  \/ \E k \in DOMAIN inbox : ProcOf[inbox[k].call[1]] = p
  \/ serving # NoCall /\ ProcOf[serving.call[1]] = p

\* The process ends (as when there is no memory for a section, and most calls are
\* noexcept), or unloads the library, and another gets its id and names.
\* The server is not told.  Threads that wait are gone with it.
Restart(p) ==
  /\ gen[p] < MaxRestart
  /\ Unload(p)
  /\ gen' = [gen EXCEPT ![p] = @ + 1]
  /\ pc' = [t \in Thread |-> IF ProcOf[t] = p THEN "idle" ELSE pc[t]]
  /\ stranded' = [stranded EXCEPT ![p] = @ \/ ~clean[p] \/ Pending(p)]
  /\ UNCHANGED <<calls, op, serverVars, memory, lost, clean>>

Next ==
  \/ \E t \in Thread : \/ BeginCall(t)
                       \/ FillBuffer(t)
                       \/ Send(t)
                       \/ Abandon(t)
                       \/ SendFails(t)
                       \/ Collect(t)
                       \/ Return(t)
  \/ Take
  \/ Complete
  \/ Hang
  \/ ServerEnds
  \/ \E p \in Process : Restart(p)

\* A server that is up runs its message loop, a call runs on as soon as it can, and
\* the system gives a call up once the server hangs for good or is gone.
Fairness ==
  /\ WF_vars(Take) /\ WF_vars(Complete)
  /\ \A t \in Thread : /\ WF_vars(FillBuffer(t)) /\ WF_vars(Send(t)) /\ WF_vars(SendFails(t))
                       /\ WF_vars(Collect(t)) /\ WF_vars(Return(t))
                       /\ WF_vars(server # "up" /\ Abandon(t))

Spec == Init /\ [][Next]_vars /\ Fairness
-----------------------------------------------------------------------------
CellType == [in : Call \cup {NoCall}, buf : Slot \cup {NoSlot}, forget : BOOLEAN,
             out : Call \cup {NoCall}]

Message  == [call : Call, op : Op, slot : Slot]

\* Types of the client, server and memory state.
TypeOK ==
  /\ PoolTypeOK
  /\ calls \in [Thread -> 0 .. MaxCalls]
  /\ op \in [Thread -> Op]
  /\ pc \in [Thread -> {"idle", "filling", "ready", "waiting", "answered",
                        "unresolved", "failed", "returning"}]
  /\ inbox \in Seq(Message)
  /\ serving = NoCall \/ serving \in [call : Call, op : Op, slots : SUBSET Slot, saw : SUBSET CellType]
  /\ server \in {"up", "hung", "gone"}
  /\ view \in [Process -> [Slot -> Gen \cup {NoView}]]
  /\ gen \in [Process -> Gen]
  /\ memory \in [Process -> [Gen -> [Slot -> CellType]]]
  /\ lost \subseteq Call
  /\ clean \in [Process -> BOOLEAN]
  /\ stranded \in [Process -> BOOLEAN]

\* A request somebody still waits for is carried out on the parameters and the data
\* of its own call, which nothing has written into but the handling of calls that
\* were given up: whatever threads of this and other processes do, and whatever
\* calls were given up before.  (Only a process that took the id of one which ended
\* without WSACleanup can lose this: get_value finds the old views by name.)
OwnParameters ==
  serving # NoCall /\ pc[serving.call[1]] = "waiting" /\ CallOf(serving.call[1]) = serving.call
    /\ ~stranded[ProcOf[serving.call[1]]] =>
    \A cell \in serving.saw : cell.in = serving.call /\ cell.out \in lost \cup {NoCall}

\* What a call reads when it was answered (on_finish of send_message_to_server) are
\* the results of its own request, in its parameters and in its data: no handler
\* writes there later, not even that of a call which was given up and whose
\* section this call took over.  (But for the processes OwnParameters leaves out.)
OwnAnswer ==
  \A t \in Thread :
    pc[t] = "answered" /\ ~stranded[ProcOf[t]] =>
      \A i \in Holding(t) :
        LET cell == memory[ProcOf[t]][gen[ProcOf[t]]][i]
        IN cell.in = CallOf(t) /\ (op[t] # "cleanup" => cell.out = CallOf(t))

\* Every call returns, though the server may hang in another's request for good, or
\* end with calls in its inbox.
CallReturns == \A t \in Thread : pc[t] # "idle" ~> pc[t] = "idle"
=============================================================================
