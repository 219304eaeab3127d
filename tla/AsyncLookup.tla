------------------------------ MODULE AsyncLookup ------------------------------
(***************************************************************************)
(* The asynchronous look-ups of names, addresses, protocols and services   *)
(* (siege_WSAAsyncGet... and siege_WSACancelAsyncRequest of                *)
(* wsock32-client-shared.cpp).                                             *)
(*                                                                         *)
(* Each of the six functions makes an event, whose handle it returns, and  *)
(* queues a work item that looks up, writes into the program's buffer and  *)
(* posts a message with the handle.  Cancelling sets the event.  The work  *)
(* item closes it as it ends, so that the system may give its value again. *)
(* What is found of a host is kept by the thread that looked it up; what   *)
(* is found of a service or a protocol is in one place for all threads.    *)
(***************************************************************************)
EXTENDS Naturals, Sequences

CONSTANTS
  Handle,     \* values of handles
  MaxLookups  \* bound: look-ups the program asks for

Lookup == 1 .. MaxLookups

VARIABLES
  lookup,    \* the look-ups asked for: where their work items are
  event,     \* the events, by handle: "closed", "clear" or "set"
  messages,  \* the window's queue
  place,     \* by what is shared, the look-up that found what is there
  buffer,    \* the look-up whose answer each one's buffer holds
  told,      \* what the program took for the answer of each: "none", "ok", "error"
  refused,   \* history: the look-ups cancelled in time
  mixed,     \* history: those whose answer another one found over, before it was written
  reused     \* history: the handles given again while the program could still use them

vars == <<lookup, event, messages, place, buffer, told, refused, mixed, reused>>

Nobody == 0
Init ==
  /\ lookup = [k \in Lookup |-> [at |-> "none", handle |-> "none", place |-> "thread"]]
  /\ event = [h \in Handle |-> "closed"]
  /\ messages = <<>>
  /\ place = [p \in {"service", "protocol"} |-> Nobody]
  /\ buffer = [k \in Lookup |-> Nobody]
  /\ told = [k \in Lookup |-> "none"]
  /\ refused = {}
  /\ mixed = {}
  /\ reused = {}

At(k, at) == lookup[k].at = at
Go(k, at) == lookup' = [lookup EXCEPT ![k].at = at]

\* A look-up that the program waits for, or has cancelled without knowing whether
\* in time.
Open(k) == ~At(k, "none") /\ told[k] = "none"

-----------------------------------------------------------------------------
(* What the functions do not do without, and where what they find is kept. *)
(* The buffer is to have room for any answer.                              *)

Call(given, kept) == [needs |-> given \cup {"buffer", "room"}, place |-> kept]

HostByName == Call({"name"}, "thread")
HostByAddr == Call({"address"}, "thread")
ProtoByNumber == Call({}, "protocol")
ProtoByName == Call({"name"}, "protocol")
ServByPort == Call({}, "service")
ServByName == Call({"name"}, "service")

Calls == {HostByName, HostByAddr, ProtoByNumber, ProtoByName, ServByPort, ServByName}
Given == SUBSET {"name", "address", "buffer", "room"}

IsNext(k) == At(k, "none") /\ \A j \in Lookup : j < k => ~At(j, "none")

\* An event, and a work item.
Ask(k, h, call, given) ==
  /\ IsNext(k) /\ call.needs \subseteq given
  /\ event[h] = "closed"
  /\ event' = [event EXCEPT ![h] = "clear"]
  /\ lookup' = [lookup EXCEPT ![k] = [at |-> "queued", handle |-> h, place |-> call.place]]
  /\ reused' = IF \E j \in Lookup : Open(j) /\ lookup[j].handle = h THEN reused \cup {h} ELSE reused
  /\ UNCHANGED <<messages, place, buffer, told, refused, mixed>>

\* It is refused, of a bad argument, or when there is no event or the work item
\* cannot be queued: the event is closed again.
Refuse(k) ==
  /\ IsNext(k)
  /\ told' = [told EXCEPT ![k] = "error"]
  /\ Go(k, "over")
  /\ UNCHANGED <<event, messages, place, buffer, refused, mixed, reused>>

\* siege_WSACancelAsyncRequest fails for an event there is no longer.
Cancel(k) ==
  /\ Open(k)
  /\ LET h == lookup[k].handle
     IN /\ event[h] # "closed"
        /\ event' = [event EXCEPT ![h] = "set"]
  /\ refused' = IF lookup[k].at \in {"queued", "looking", "found", "lost"} THEN refused \cup {k}
                ELSE refused
  /\ UNCHANGED <<lookup, messages, place, buffer, told, mixed, reused>>

\* The work item looks at its event before it looks up and after it; if it is set,
\* it ends without a word: auto_close.
GiveUp(k) ==
  /\ lookup[k].at \in {"queued", "found", "lost"} /\ event[lookup[k].handle] = "set"
  /\ event' = [event EXCEPT ![lookup[k].handle] = "closed"]
  /\ Go(k, "over")
  /\ UNCHANGED <<messages, place, buffer, told, refused, mixed, reused>>

Begin(k) ==
  /\ At(k, "queued") /\ event[lookup[k].handle] # "set"
  /\ Go(k, "looking")
  /\ UNCHANGED <<event, messages, place, buffer, told, refused, mixed, reused>>

\* make_servent and make_protoent put what they find over what was found before.
Shared(k) == lookup[k].place # "thread"
Overwrites(k, j) == j # k /\ lookup[j].place = lookup[k].place /\ lookup[j].at \in {"found", "write"}

Find(k) ==
  /\ At(k, "looking")
  /\ Go(k, "found")
  /\ IF Shared(k)
     THEN /\ place' = [place EXCEPT ![lookup[k].place] = k]
          /\ mixed' = mixed \cup {j \in Lookup : Overwrites(k, j)}
     ELSE UNCHANGED <<place, mixed>>
  /\ UNCHANGED <<event, messages, buffer, told, refused, reused>>

\* The address is not one of this machine, or there is no such name or number.
Lose(k) ==
  /\ At(k, "looking")
  /\ Go(k, "lost")
  /\ UNCHANGED <<event, messages, place, buffer, told, refused, mixed, reused>>

\* Mutant of LookAgain: the event is not looked at again.
LookAgainNever(k) ==
  /\ lookup[k].at \in {"found", "lost"}
  /\ Go(k, IF At(k, "found") THEN "write" ELSE "post")
  /\ UNCHANGED <<event, messages, place, buffer, told, refused, mixed, reused>>

\* The event is not set even now.
LookAgain(k) ==
  /\ lookup[k].at \in {"found", "lost"} /\ event[lookup[k].handle] # "set"
  /\ Go(k, IF At(k, "found") THEN "write" ELSE "post")
  /\ UNCHANGED <<event, messages, place, buffer, told, refused, mixed, reused>>

\* It writes what is found ...
Write(k) ==
  /\ At(k, "write")
  /\ buffer' = [buffer EXCEPT ![k] = IF Shared(k) THEN place[lookup[k].place] ELSE k]
  /\ Go(k, "post")
  /\ UNCHANGED <<event, messages, place, told, refused, mixed, reused>>

\* ... posts the message, with an error if nothing was found ...
Post(k) ==
  /\ At(k, "post")
  /\ messages' = Append(messages, [handle |-> lookup[k].handle, ok |-> buffer[k] # Nobody])
  /\ Go(k, "close")
  /\ UNCHANGED <<event, place, buffer, told, refused, mixed, reused>>

\* ... and closes the event.
Close(k) ==
  /\ At(k, "close")
  /\ event' = [event EXCEPT ![lookup[k].handle] = "closed"]
  /\ Go(k, "over")
  /\ UNCHANGED <<messages, place, buffer, told, refused, mixed, reused>>

\* The program (external) takes a message for the answer of the last look-up that
\* was given this handle.
Receive ==
  /\ messages # <<>>
  /\ LET m == Head(messages)
         k == CHOOSE k \in Lookup : /\ lookup[k].handle = m.handle
                                    /\ \A j \in Lookup : j > k => lookup[j].handle # m.handle
     IN told' = [told EXCEPT ![k] = IF m.ok THEN "ok" ELSE "error"]
  /\ messages' = Tail(messages)
  /\ UNCHANGED <<lookup, event, place, buffer, refused, mixed, reused>>

-----------------------------------------------------------------------------
Work(k) ==
  \/ GiveUp(k) \/ Begin(k) \/ Find(k) \/ Lose(k) \/ LookAgain(k)
  \/ Write(k) \/ Post(k) \/ Close(k)

Next ==
  \/ Receive
  \/ \E k \in Lookup : Refuse(k) \/ Cancel(k) \/ Work(k)
  \/ \E k \in Lookup, h \in Handle, call \in Calls, given \in Given : Ask(k, h, call, given)

\* Work items run, and the program takes its messages.
Fairness == WF_vars(Receive) /\ \A k \in Lookup : WF_vars(Work(k))

Spec == Init /\ [][Next]_vars /\ Fairness
-----------------------------------------------------------------------------
\* Who is told that a look-up succeeded has its own answer in the buffer, unless
\* another one found something of the same kind before it was written; and who
\* cancelled one before it was found is told nothing.
TellsOwn(k) ==
  /\ told[k] = "ok" => buffer[k] = k \/ k \in mixed
  /\ k \in refused => told[k] = "none" /\ buffer[k] = Nobody

\* So it is unless the handle was given to another one meanwhile.
TellsTrue(k) == lookup[k].handle \in Handle \ reused => TellsOwn(k)

\* A look-up tells its own answer and no more than was not cancelled, and if it was
\* not, it is answered, unless its handle was given to another one meanwhile.
LookupTold ==
  \A k \in Lookup :
    /\ []TellsTrue(k)
    /\ At(k, "queued") ~> told[k] # "none" \/ k \in refused \/ lookup[k].handle \in reused
=============================================================================
