------------------------ MODULE ZeroTierBackendProofs ------------------------
(***************************************************************************)
(* Proofs about ZeroTierBackend, for every set of threads and sockets and  *)
(* all programs.                                                           *)
(*                                                                         *)
(* That select keeps its contract needs to be known of the calls: where    *)
(* one is in its slices tells whether it looked already (InOrder), a call  *)
(* is late only if it has a time, and no other call of a thread leaves a   *)
(* trace of a request.  The sets are taken from what is ready under the    *)
(* lock, in one step with the answer, so nothing about the lock is needed. *)
(***************************************************************************)
EXTENDS ZeroTierBackend, TLAPS

Answers == [Kind -> SUBSET Socket]
Sending == [sent : BOOLEAN]
Place   == {"idle", "entry", "joining", "asked", "slice", "checking", "between", "told"}
Call    == [at : Place, request : Requests \cup {NoRequest}, late : BOOLEAN,
            looked : BOOLEAN, answer : {NoAnswer, Failed} \cup Answers \cup Sending]

\* Types of the calls.
CallsTyped ==
  /\ program \in Programs
  /\ call \in [Thread -> Call]

\* What is known of a call from where it is.
InOrder(c) ==
  /\ c.at \in {"idle", "entry", "joining"} =>
       c.request = NoRequest /\ ~c.looked /\ c.answer = NoAnswer
  /\ c.at \in {"asked", "slice", "checking", "between"} =>
       c.request \in Requests /\ c.answer = NoAnswer
  /\ c.at \in {"checking", "between"} => c.looked
  /\ c.at = "told" =>
       IF c.request = NoRequest THEN c.answer \in Sending /\ ~c.looked
       ELSE c.answer \in {Failed} \cup Answers
  /\ c.late => c.request \in Requests /\ c.request.timed

IInv == CallsTyped /\ \A t \in Thread : InOrder(call[t])

\* Who has nothing to do is in order.
LEMMA IdleInOrder == Idle \in Call /\ InOrder(Idle)
<1>1. Idle \in Call
  BY DEF Idle, Call, Place
<1>2. InOrder(Idle)
  BY DEF Idle, InOrder
<1> QED BY <1>1, <1>2

\* A call that is only at another place.
Moved(c, at) == [c EXCEPT !.at = at]

LEMMA MovedIsCall ==
  ASSUME NEW c \in Call, NEW at \in Place
  PROVE  /\ Moved(c, at) \in Call
         /\ Moved(c, at).at = at /\ Moved(c, at).request = c.request
         /\ Moved(c, at).late = c.late /\ Moved(c, at).looked = c.looked
         /\ Moved(c, at).answer = c.answer
BY DEF Moved, Call

LEMMA InitIInv == Init => IInv
<1> SUFFICES ASSUME Init PROVE IInv
  OBVIOUS
<1>1. call \in [Thread -> Call]
  BY IdleInOrder DEF Init
<1>2. \A t \in Thread : InOrder(call[t])
  BY IdleInOrder DEF Init
<1> QED BY <1>1, <1>2 DEF IInv, CallsTyped, Init

\* A thread's step keeps the types and the order if it leaves its call so.
LEMMA StepKeepsIInv ==
  ASSUME IInv, NEW t \in Thread, NEW c \in Call, InOrder(c),
         call' = [call EXCEPT ![t] = c], UNCHANGED program
  PROVE  IInv'
<1>1. CallsTyped'
  BY DEF IInv, CallsTyped
<1>2. \A u \in Thread : InOrder(call[u])'
  BY DEF IInv, CallsTyped, InOrder
<1> QED BY <1>1, <1>2 DEF IInv

\* A datagram tells whether it was sent.
LEMMA SendTells ==
  ASSUME NEW t \in Thread, NEW s, NEW name \in Destination, SendTo(t, s, name)
  PROVE  \E b \in Sending : Tell(t, b)
<1>1. CASE Broadcast(t)
  BY <1>1 DEF Broadcast, Sending
<1>2. CASE Unicast(t, name)
  BY <1>2 DEF Unicast, Sending
<1> QED BY <1>1, <1>2 DEF SendTo

\* The calls that are made in one step leave the thread idle or, a datagram, told.
LEMMA OperationKeepsIInv ==
  ASSUME IInv, NEW t \in Thread, Operation(t)
  PROVE  IInv'
<1>1. ASSUME call' = [call EXCEPT ![t] = Idle], UNCHANGED program PROVE IInv'
  BY <1>1, IdleInOrder, StepKeepsIInv
<1>2. call[t] \in Call /\ InOrder(call[t])
  BY DEF IInv, CallsTyped
<1>3. CASE Startup(t)
  <2>1. CASE status \/ ~HasNetwork
    BY <1>1, <1>2, <1>3, <2>1 DEF Startup, Ends, address
  <2>2. CASE ~(status \/ ~HasNetwork)
    <3>1. call' = [call EXCEPT ![t] = Moved(call[t], "joining")]
      BY <1>2, <1>3, <2>2 DEF Startup, Go, IInv, CallsTyped, Moved
    <3>2. Moved(call[t], "joining") \in Call
      BY <1>2, MovedIsCall DEF Place
    <3>3. InOrder(Moved(call[t], "joining"))
      BY <1>2, <1>3, <2>2, MovedIsCall DEF Startup, Calling, InOrder, Place
    <3> QED BY <1>3, <2>2, <3>1, <3>2, <3>3, StepKeepsIInv DEF Startup, address
  <2> QED BY <2>1, <2>2
<1>4. CASE Cleanup(t) \/ NewSocket(t) \/ Passing(t) \/ GetHostByName(t)
  BY <1>1, <1>2, <1>4
     DEF Cleanup, NewSocket, Passing, SetSockOpt, GetSockOpt,
         GetSockName, GetPeerName, FDIsSet, IoctlSocket, PassOn, GetHostByName, Ends, address
<1>5. ASSUME NEW s, \/ Close(t, s) \/ Connect(t, s) \/ Listen(t, s) \/ Shutdown(t, s)
                    \/ \E name \in {"own", "any", "foreign"} : Bind(t, s, name)
      PROVE  IInv'
  BY <1>1, <1>2, <1>5 DEF Close, Connect, Listen, Shutdown, Bind, Ends, address
<1>6. ASSUME NEW s, Accept(t, s) \/ RecvFrom(t, s) PROVE IInv'
  BY <1>1, <1>6 DEF Accept, RecvFrom, Ends
<1>7. ASSUME NEW s, NEW name \in Destination, SendTo(t, s, name) PROVE IInv'
  <2>1. PICK b \in Sending : Tell(t, b)
    BY <1>7, SendTells
  <2> DEFINE c == [call[t] EXCEPT !.at = "told", !.answer = b]
  <2>2. call' = [call EXCEPT ![t] = c]
    BY <2>1 DEF Tell, IInv, CallsTyped
  <2>3. call[t].at = "entry" /\ UNCHANGED program
    BY <1>7 DEF SendTo, Calling
  <2>4. /\ c \in Call
        /\ c.at = "told" /\ c.request = call[t].request /\ c.late = call[t].late
        /\ c.looked = call[t].looked /\ c.answer = b
    BY <1>2 DEF Call, Place
  <2> HIDE DEF c
  <2>5. InOrder(c)
    BY <1>2, <2>3, <2>4 DEF InOrder
  <2> QED BY <2>2, <2>3, <2>4, <2>5, StepKeepsIInv
<1> QED BY <1>3, <1>4, <1>5, <1>6, <1>7 DEF Operation

\* The steps of select.
LEMMA SelectKeepsIInv ==
  ASSUME IInv, NEW t \in Thread, Select(t) \/ Selecting(t) \/ Expire(t)
  PROVE  IInv'
<1>1. call[t] \in Call /\ InOrder(call[t]) /\ program \in Programs /\ call \in [Thread -> Call]
  BY DEF IInv, CallsTyped
<1>2. UNCHANGED program
  BY DEF Select, Selecting, Lock, Slice, Check, Relock, Expire, address
<1>3. ASSUME NEW c \in Call, InOrder(c), call' = [call EXCEPT ![t] = c] PROVE IInv'
  BY <1>2, <1>3, StepKeepsIInv
<1>4. CASE Select(t)
  <2>1. PICK r \in program.requests : call' = [call EXCEPT ![t].at = "asked", ![t].request = r]
    BY <1>4 DEF Select
  <2>2. r \in Requests
    BY <1>1 DEF Requests
  <2> DEFINE c == [call[t] EXCEPT !.at = "asked", !.request = r]
  <2>3. call' = [call EXCEPT ![t] = c]
    BY <1>1, <2>1
  <2>4. c \in Call /\ c.at = "asked" /\ c.request = r /\ c.late = call[t].late /\ c.answer = call[t].answer
    BY <1>1, <2>2 DEF Call, Place
  <2>5. call[t].at = "idle"
    BY <1>4 DEF Select
  <2> HIDE DEF c
  <2>6. InOrder(c)
    BY <1>1, <2>2, <2>4, <2>5, BackendAssumption DEF InOrder
  <2> QED BY <1>3, <2>3, <2>4, <2>6
<1>5. ASSUME NEW at \in {"slice", "between"}, call[t].at \in {"asked", "checking", "between"}, Go(t, at),
             at = "between" => call[t].looked
      PROVE  IInv'
  <2>1. call' = [call EXCEPT ![t] = Moved(call[t], at)]
    BY <1>1, <1>5 DEF Go, Moved
  <2>2. Moved(call[t], at) \in Call
    BY <1>1, MovedIsCall DEF Place
  <2>3. InOrder(Moved(call[t], at))
    BY <1>1, <1>5, MovedIsCall DEF InOrder, Place
  <2> QED BY <1>3, <2>1, <2>2, <2>3
<1>6. ASSUME NEW a \in {Failed} \cup Answers, call[t].at \in {"slice", "checking", "between"}, Tell(t, a)
      PROVE  IInv'
  <2> DEFINE c == [call[t] EXCEPT !.at = "told", !.answer = a]
  <2>1. call' = [call EXCEPT ![t] = c]
    BY <1>1, <1>6 DEF Tell
  <2>2. c \in Call /\ c.at = "told" /\ c.request = call[t].request /\ c.late = call[t].late /\ c.answer = a
    BY <1>1 DEF Call, Place
  <2> HIDE DEF c
  <2>3. InOrder(c)
    BY <1>1, <1>6, <2>2, BackendAssumption DEF InOrder
  <2> QED BY <1>3, <2>1, <2>2, <2>3
<1>7. CASE Lock(t)
  BY <1>5, <1>7 DEF Lock
<1>8. CASE Slice(t)
  <2> DEFINE sets == call[t].request.sets
             found == Selected(Transfer(sets))
  <2>1. sets \in [Kind -> SUBSET Socket]
    BY <1>1, <1>8, BackendAssumption DEF Slice, InOrder
  <2>2. FinishReady(sets, found) \in Answers
    BY <2>1 DEF FinishReady, Answers, Kind
  <2>3. CASE Tell(t, Failed) \/ Tell(t, FinishReady(sets, found))
    <3> HIDE DEF sets, found
    <3> QED BY <1>6, <1>8, <2>2, <2>3 DEF Slice
  <2>4. CASE call' = [call EXCEPT ![t].at = "checking", ![t].looked = TRUE]
    <3> DEFINE c == [call[t] EXCEPT !.at = "checking", !.looked = TRUE]
    <3>1. call' = [call EXCEPT ![t] = c]
      BY <1>1, <2>4
    <3>2. c \in Call /\ c.at = "checking" /\ c.request = call[t].request /\ c.late = call[t].late
          /\ c.answer = call[t].answer /\ c.looked
      BY <1>1 DEF Call, Place
    <3> HIDE DEF c
    <3>3. InOrder(c)
      BY <1>1, <1>8, <3>2 DEF InOrder, Slice
    <3> QED BY <1>3, <3>1, <3>2, <3>3
  <2> QED BY <1>8, <2>3, <2>4 DEF Slice
<1>9. Nothing \in Answers
  BY DEF Nothing, Answers
<1>10. CASE Check(t)
  <2>1. call[t].looked
    BY <1>1, <1>10 DEF Check, InOrder
  <2> QED BY <1>5, <1>6, <1>9, <1>10, <2>1 DEF Check
<1>11. CASE Relock(t)
  BY <1>5, <1>6, <1>9, <1>11 DEF Relock
<1>12. CASE Expire(t)
  <2> DEFINE c == [call[t] EXCEPT !.late = TRUE]
  <2>1. call' = [call EXCEPT ![t] = c]
    BY <1>1, <1>12 DEF Expire
  <2>2. c \in Call /\ c.at = call[t].at /\ c.request = call[t].request /\ c.late
        /\ c.answer = call[t].answer /\ c.looked = call[t].looked
    BY <1>1 DEF Call
  <2>3. call[t].request \in Requests /\ call[t].request.timed
    BY <1>1, <1>12 DEF Expire, Call
  <2> HIDE DEF c
  <2>4. InOrder(c)
    BY <1>1, <2>2, <2>3 DEF InOrder
  <2> QED BY <1>3, <2>1, <2>2, <2>4
<1> QED BY <1>4, <1>7, <1>8, <1>10, <1>11, <1>12 DEF Selecting

LEMMA NextIInv == IInv /\ [Next]_vars => IInv'
<1> SUFFICES ASSUME IInv, [Next]_vars PROVE IInv'
  OBVIOUS
<1>1. ASSUME NEW t \in Thread, Enter(t) PROVE IInv'
  <2>1. call[t] \in Call /\ InOrder(call[t]) /\ call[t].at = "idle"
    BY <1>1 DEF IInv, CallsTyped, Enter
  <2>2. call' = [call EXCEPT ![t] = Moved(call[t], "entry")] /\ UNCHANGED program
    BY <1>1, <2>1 DEF Enter, Go, Moved, address, IInv, CallsTyped
  <2>3. Moved(call[t], "entry") \in Call
    BY <2>1, MovedIsCall DEF Place
  <2>4. InOrder(Moved(call[t], "entry"))
    BY <2>1, MovedIsCall DEF InOrder, Place
  <2> QED BY <2>2, <2>3, <2>4, StepKeepsIInv
<1>2. ASSUME NEW t \in Thread, Joined(t) \/ Return(t) PROVE IInv'
  <2>1. call' = [call EXCEPT ![t] = Idle] /\ UNCHANGED program
    BY <1>2 DEF Joined, Return, address
  <2> QED BY <2>1, IdleInOrder, StepKeepsIInv
<1>3. ASSUME NEW s \in Socket, Network(s) PROVE IInv'
  BY <1>3 DEF Network, address, IInv, CallsTyped, InOrder
<1>4. ASSUME UNCHANGED vars PROVE IInv'
  BY <1>4 DEF vars, address, IInv, CallsTyped, InOrder
<1> QED BY <1>1, <1>2, <1>3, <1>4, OperationKeepsIInv, SelectKeepsIInv DEF Next

-----------------------------------------------------------------------------
\* What the backend knows is open, and what is open and unknown was refused: each
\* call moves a socket in both or in neither (backend_socket, backend_accept,
\* backend_closesocket).
THEOREM BackendLosesNoSocket == Spec => []NoSocketLost
<1>1. Init => NoSocketLost
  BY DEF Init, NoSocketLost
<1>2. NoSocketLost /\ [Next]_vars => NoSocketLost'
  <2> SUFFICES ASSUME NoSocketLost, [Next]_vars PROVE NoSocketLost'
    OBVIOUS
  <2>1. ASSUME UNCHANGED <<open, handles, refused>> PROVE NoSocketLost'
    BY <2>1 DEF NoSocketLost
  <2>2. ASSUME NEW t \in Thread, NewSocket(t) PROVE NoSocketLost'
    BY <2>2 DEF NewSocket, NoSocketLost
  <2>3. ASSUME NEW t \in Thread, NEW s, Accept(t, s) PROVE NoSocketLost'
    BY <2>3 DEF Accept, AfterAccept, NoSocketLost
  <2>4. ASSUME NEW t \in Thread, NEW s, Close(t, s) PROVE NoSocketLost'
    BY <2>4 DEF Close, NoSocketLost
  <2>5. ASSUME NEW t \in Thread, Operation(t) PROVE NoSocketLost'
    BY <2>1, <2>2, <2>3, <2>4, <2>5
       DEF Operation, Startup, Cleanup, RecvFrom, Connect, SendTo, Bind, Listen, Shutdown, Passing, SetSockOpt, GetSockOpt,
         GetSockName, GetPeerName, FDIsSet, IoctlSocket, PassOn, GetHostByName, library
  <2>6. ASSUME NEW t \in Thread,
               Enter(t) \/ Joined(t) \/ Select(t) \/ Selecting(t) \/ Expire(t) \/ Return(t)
        PROVE  NoSocketLost'
    BY <2>1, <2>6
       DEF Enter, Joined, Select, Selecting, Lock, Slice, Check, Relock, Expire, Return, library
  <2>7. ASSUME (\E s \in Socket : Network(s)) \/ UNCHANGED vars PROVE NoSocketLost'
    BY <2>1, <2>7 DEF Network, vars, library
  <2> QED BY <2>5, <2>6, <2>7 DEF Next
<1> QED BY <1>1, <1>2, PTL DEF Spec

-----------------------------------------------------------------------------
\* A thread that leaves what the contract sees of its call.
LEMMA Unseen ==
  ASSUME IInv, NEW t \in Thread, NEW c, call' = [call EXCEPT ![t] = c],
         c.request = call[t].request, c.looked = call[t].looked, c.answer = call[t].answer
  PROVE  Contract!Elsewhere
<1>1. call \in [Thread -> Call] /\ call' \in [Thread -> Call \cup {c}]
  BY DEF IInv, CallsTyped
<1>2. \A u \in Thread : /\ call'[u].request = call[u].request
                        /\ call'[u].looked = call[u].looked
                        /\ call'[u].answer = call[u].answer
  BY <1>1
<1> QED BY <1>2 DEF Contract!Elsewhere

\* finish_ready tells what was ready of the sets, as the contract has it, and that
\* is nothing only if nothing was.
LEMMA FoundIsTold ==
  ASSUME NEW sets \in [Kind -> SUBSET Socket]
  PROVE  LET found == Selected(Transfer(sets))
         IN /\ FinishReady(sets, found) = Contract!Found(sets)
            /\ Contract!Found(sets) = Nothing <=> found = Nothing
<1> DEFINE found == Selected(Transfer(sets))
           now   == [k \in Kind |-> {s \in sets[k] \cap handles : k \in ready[s]}]
           told  == [k \in Kind |-> sets[k] \cap handles \cap found[k]]
<1>1. found = now
  BY DEF Selected, Transfer
<1>2. told = now
  BY <1>1
<1>3. /\ {"read", "write", "except"} = Kind /\ now \in [Kind -> SUBSET Socket]
  BY DEF Kind
<1> HIDE DEF now, told, found
<1>4. Contract!Found(sets) = [now EXCEPT !["write"] = @ \ now["except"]]
  BY DEF Contract!Found, Contract!Kind, Kind, now
<1>5. ~(now["write"] # {} /\ now["except"] # {}) =>
        [now EXCEPT !["write"] = @ \ now["except"]] = now
  BY <1>3
<1>6. FinishReady(sets, found) = [now EXCEPT !["write"] = @ \ now["except"]]
  BY <1>2, <1>5 DEF FinishReady, told
<1>7. [now EXCEPT !["write"] = @ \ now["except"]] = Nothing <=> now = Nothing
  <2>1. ASSUME now = Nothing PROVE [now EXCEPT !["write"] = @ \ now["except"]] = Nothing
    BY <2>1, <1>3 DEF Nothing
  <2>2. ASSUME [now EXCEPT !["write"] = @ \ now["except"]] = Nothing PROVE now = Nothing
    <3>1. now["read"] = {} /\ now["except"] = {} /\ now["write"] \ now["except"] = {}
      BY <2>2, <1>3 DEF Nothing
    <3>2. \A k \in Kind : now[k] = {}
      BY <3>1, <1>3
    <3> QED BY <3>2, <1>3 DEF Nothing
  <2> QED BY <2>1, <2>2
<1> QED BY <1>1, <1>4, <1>6, <1>7 DEF found

\* What the contract takes for the answer of a call.
Told(c) == IF c.request = NoRequest THEN NoAnswer ELSE c.answer

\* What the contract sees of a thread's step.
LEMMA Seen ==
  ASSUME IInv, NEW t \in Thread, NEW c, call' = [call EXCEPT ![t] = c]
  PROVE  /\ [u \in Thread |-> call'[u].request] =
              [[u \in Thread |-> call[u].request] EXCEPT ![t] = c.request]
         /\ {u \in Thread : call'[u].looked} \ {t} = {u \in Thread : call[u].looked} \ {t}
         /\ t \in {u \in Thread : call'[u].looked} <=> c.looked
         /\ [u \in Thread |-> Told(call'[u])] =
              [[u \in Thread |-> Told(call[u])] EXCEPT ![t] = Told(c)]
<1>1. call \in [Thread -> Call]
  BY DEF IInv, CallsTyped
<1>2. call'[t] = c /\ \A u \in Thread : u # t => call'[u] = call[u]
  BY <1>1
<1> DEFINE d == call'
<1>3. d[t] = c /\ \A u \in Thread : u # t => d[u] = call[u]
  BY <1>2
<1> HIDE DEF d
<1>4. [u \in Thread |-> d[u].request] = [[u \in Thread |-> call[u].request] EXCEPT ![t] = c.request]
  BY <1>3
<1>5. /\ {u \in Thread : d[u].looked} \ {t} = {u \in Thread : call[u].looked} \ {t}
      /\ t \in {u \in Thread : d[u].looked} <=> c.looked
  BY <1>3
<1>6. [u \in Thread |-> Told(d[u])] = [[u \in Thread |-> Told(call[u])] EXCEPT ![t] = Told(c)]
  BY <1>3
<1> QED BY <1>4, <1>5, <1>6 DEF d

\* What a call tells, and the network it is told of.
LEMMA TellIsSeen ==
  ASSUME IInv, NEW t \in Thread, NEW a, call[t].at \in {"slice", "checking", "between"}, Tell(t, a),
         UNCHANGED <<handles, ready, node>>
  PROVE  Contract!Waits(t) /\ Contract!Tell(t, a)
<1> DEFINE c == [call[t] EXCEPT !.at = "told", !.answer = a]
<1>1. call[t] \in Call /\ InOrder(call[t])
  BY DEF IInv, CallsTyped
<1>2. call' = [call EXCEPT ![t] = c]
  BY DEF Tell, IInv, CallsTyped
<1>3. c.request = call[t].request /\ c.looked = call[t].looked /\ c.answer = a
  BY <1>1 DEF Call
<1>4. call[t].request \in Requests /\ call[t].request # NoRequest /\ call[t].answer = NoAnswer
  BY <1>1, BackendAssumption DEF InOrder
<1> HIDE DEF c
<1>5. UNCHANGED Contract!net
  BY DEF Contract!net, Up
<1>6. Contract!Waits(t)
  BY <1>4 DEF Contract!Waits
<1>7. UNCHANGED [u \in Thread |-> call[u].request]
  BY <1>2, <1>3, Seen
<1>8. UNCHANGED {u \in Thread : call[u].looked}
  BY <1>2, <1>3, Seen
<1>9. [u \in Thread |-> Told(call'[u])] = [[u \in Thread |-> Told(call[u])] EXCEPT ![t] = a]
  <2>1. Told(c) = a
    BY <1>3, <1>4 DEF Told
  <2> QED BY <1>2, <2>1, Seen
<1>10. Contract!Tell(t, a)
  BY <1>5, <1>7, <1>8, <1>9 DEF Contract!Tell, Told
<1> QED BY <1>6, <1>10

LEMMA SelectIsSeen ==
  ASSUME IInv, NEW t \in Thread, Select(t) \/ Selecting(t) \/ Expire(t)
  PROVE  Contract!Next
<1>1. call[t] \in Call /\ InOrder(call[t]) /\ program \in Programs /\ call \in [Thread -> Call]
  BY DEF IInv, CallsTyped
<1>2. UNCHANGED <<handles, ready, node>> /\ UNCHANGED Contract!net
  BY DEF Select, Selecting, Lock, Slice, Check, Relock, Expire, library, Contract!net, Up
<1>3. CASE Select(t)
  <2>1. PICK r \in program.requests : call' = [call EXCEPT ![t].at = "asked", ![t].request = r]
    BY <1>3 DEF Select
  <2>2. r \in Requests /\ r # NoRequest
    BY <1>1, BackendAssumption DEF Requests
  <2> DEFINE c == [call[t] EXCEPT !.at = "asked", !.request = r]
  <2>3. call' = [call EXCEPT ![t] = c]
    BY <1>1, <2>1
  <2>4. c.request = r /\ c.answer = call[t].answer /\ c.looked = call[t].looked
    BY <1>1 DEF Call
  <2>5. call[t].request = NoRequest /\ call[t].answer = NoAnswer
    BY <1>1, <1>3 DEF Select, InOrder, Call
  <2> HIDE DEF c
  <2>6. [u \in Thread |-> call'[u].request] = [[u \in Thread |-> call[u].request] EXCEPT ![t] = r]
    BY <2>3, <2>4, Seen
  <2>7. UNCHANGED {u \in Thread : call[u].looked}
    BY <2>3, <2>4, Seen
  <2>8. UNCHANGED [u \in Thread |-> Told(call[u])]
    <3>1. Told(c) = Told(call[t])
      BY <2>4, <2>5 DEF Told
    <3> QED BY <2>3, <3>1, Seen
  <2>9. Contract!Ask(t)
    BY <1>2, <2>2, <2>5, <2>6, <2>7, <2>8 DEF Contract!Ask, Told
  <2> QED BY <2>9 DEF Contract!Next
<1>4. ASSUME NEW at, Go(t, at) PROVE Contract!Next
  <2>1. call' = [call EXCEPT ![t] = [call[t] EXCEPT !.at = at]]
    BY <1>1, <1>4 DEF Go
  <2>2. LET c == [call[t] EXCEPT !.at = at]
        IN c.request = call[t].request /\ c.looked = call[t].looked /\ c.answer = call[t].answer
    BY <1>1 DEF Call
  <2>3. Contract!Elsewhere
    BY <2>1, <2>2, Unseen
  <2> QED BY <2>3 DEF Contract!Next
<1>5. ASSUME call[t].at \in {"checking", "between"}, call[t].late, Tell(t, Nothing)
      PROVE  Contract!Next
  <2>1. Contract!Waits(t) /\ Contract!Tell(t, Nothing)
    BY <1>2, <1>5, TellIsSeen
  <2>2. call[t].request.timed /\ call[t].looked
    BY <1>1, <1>5 DEF InOrder
  <2>3. Contract!Nothing = Nothing
    BY DEF Contract!Nothing, Nothing, Contract!Kind, Kind
  <2>4. Contract!TimeOut(t)
    BY <2>1, <2>2, <2>3 DEF Contract!TimeOut
  <2> QED BY <2>4 DEF Contract!Next
<1>6. CASE Slice(t)
  <2> DEFINE sets == call[t].request.sets
             found == Selected(Transfer(sets))
  <2>1. /\ sets \in [Kind -> SUBSET Socket] /\ call[t].at = "slice"
        /\ call[t].request \in Requests /\ call[t].request # NoRequest /\ call[t].answer = NoAnswer
    BY <1>1, <1>6, BackendAssumption DEF Slice, InOrder
  <2>2. /\ FinishReady(sets, found) = Contract!Found(sets)
        /\ Contract!Found(sets) = Nothing <=> found = Nothing
    BY <2>1, FoundIsTold
  <2>3. Contract!Nothing = Nothing
    BY DEF Contract!Nothing, Nothing, Contract!Kind, Kind
  <2>4. CASE ~Up /\ Tell(t, Failed)
    <3>1. Contract!Fail(t)
      BY <1>2, <2>1, <2>4, TellIsSeen DEF Contract!Fail
    <3> QED BY <3>1 DEF Contract!Next
  <2>5. CASE found # Nothing /\ Tell(t, FinishReady(sets, found))
    <3> HIDE DEF found
    <3>1. PICK a : a = FinishReady(sets, found)
      OBVIOUS
    <3>2. Contract!Waits(t) /\ Contract!Tell(t, a)
      BY <1>2, <2>1, <2>5, <3>1, TellIsSeen
    <3>3. a = Contract!Found(sets) /\ a # Contract!Nothing
      BY <2>2, <2>3, <2>5, <3>1
    <3>4. a = Contract!Found(call[t].request.sets)
      BY <3>3
    <3>5. Contract!Found([u \in Thread |-> call[u].request][t].sets) = a
      BY <3>4
    <3>6. Contract!Answer(t)
      BY <3>2, <3>3, <3>5 DEF Contract!Answer, Contract!Tell
    <3> QED BY <3>6 DEF Contract!Next
  <2>6. CASE found = Nothing /\ call' = [call EXCEPT ![t].at = "checking", ![t].looked = TRUE]
    <3> DEFINE c == [call[t] EXCEPT !.at = "checking", !.looked = TRUE]
    <3>1. call' = [call EXCEPT ![t] = c]
      BY <1>1, <2>6
    <3>2. c.request = call[t].request /\ c.answer = call[t].answer /\ c.looked = TRUE
      BY <1>1 DEF Call
    <3>3. Contract!Found(sets) = Contract!Nothing
      BY <2>2, <2>3, <2>6
    <3> HIDE DEF c
    <3>4. UNCHANGED [u \in Thread |-> call[u].request]
      BY <3>1, <3>2, Seen
    <3>5. {u \in Thread : call'[u].looked} = {u \in Thread : call[u].looked} \cup {t}
      BY <3>1, <3>2, Seen
    <3>6. UNCHANGED [u \in Thread |-> Told(call[u])]
      <4>1. Told(c) = Told(call[t])
        BY <3>2 DEF Told
      <4> QED BY <3>1, <4>1, Seen
    <3>7. Contract!Waits(t) /\ [u \in Thread |-> call[u].request][t].sets = sets
      BY <2>1 DEF Contract!Waits
    <3>8. Contract!Look(t)
      BY <1>2, <3>3, <3>4, <3>5, <3>6, <3>7 DEF Contract!Look, Told
    <3> QED BY <3>8 DEF Contract!Next
  <2> HIDE DEF found, sets
  <2> QED BY <1>6, <2>4, <2>5, <2>6 DEF Slice, found, sets
<1>7. CASE Lock(t)
  BY <1>4, <1>7 DEF Lock
<1>8. CASE Check(t)
  BY <1>4, <1>5, <1>8 DEF Check
<1>9. CASE Relock(t)
  BY <1>4, <1>5, <1>9 DEF Relock
<1>10. CASE Expire(t)
  <2> DEFINE c == [call[t] EXCEPT !.late = TRUE]
  <2>1. call' = [call EXCEPT ![t] = c]
    BY <1>1, <1>10 DEF Expire
  <2>2. c.request = call[t].request /\ c.looked = call[t].looked /\ c.answer = call[t].answer
    BY <1>1 DEF Call
  <2> HIDE DEF c
  <2>3. Contract!Elsewhere
    BY <2>1, <2>2, Unseen
  <2> QED BY <2>3 DEF Contract!Next
<1> QED BY <1>3, <1>6, <1>7, <1>8, <1>9, <1>10 DEF Selecting

\* The other calls of a thread, which ask nothing of select.
LEMMA OthersAreSeen ==
  ASSUME IInv, NEW t \in Thread, Enter(t) \/ Operation(t) \/ Joined(t)
  PROVE  Contract!Next
<1>1. /\ call[t] \in Call /\ InOrder(call[t]) /\ call \in [Thread -> Call]
      /\ call[t].at \in {"idle", "entry", "joining"}
  BY DEF IInv, CallsTyped, Enter, Joined, Operation, Startup, Cleanup, NewSocket, Accept, RecvFrom,
         Close, Connect, SendTo, Bind, Listen, Shutdown, Calling, Passing, SetSockOpt, GetSockOpt,
         GetSockName, GetPeerName, FDIsSet, IoctlSocket, PassOn, GetHostByName
<1>2. call[t].request = NoRequest /\ ~call[t].looked /\ call[t].answer = NoAnswer
  BY <1>1 DEF InOrder
<1>3. ASSUME NEW c, call' = [call EXCEPT ![t] = c], c.request = NoRequest, ~c.looked
      PROVE  Contract!Next
  <2>1. UNCHANGED [u \in Thread |-> call[u].request]
    BY <1>2, <1>3, Seen
  <2>2. UNCHANGED {u \in Thread : call[u].looked}
    BY <1>2, <1>3, Seen
  <2>3. UNCHANGED [u \in Thread |-> Told(call[u])]
    <3>1. Told(c) = Told(call[t])
      BY <1>2, <1>3 DEF Told
    <3> QED BY <1>3, <3>1, Seen
  <2>4. Contract!Elsewhere
    BY <2>1, <2>2, <2>3 DEF Contract!Elsewhere, Told
  <2> QED BY <2>4 DEF Contract!Next
<1>4. ASSUME NEW at, Go(t, at) PROVE Contract!Next
  <2>1. call' = [call EXCEPT ![t] = Moved(call[t], at)]
    BY <1>1, <1>4 DEF Go, Moved
  <2>2. Moved(call[t], at).request = NoRequest /\ ~Moved(call[t], at).looked
    BY <1>1, <1>2 DEF Call, Moved
  <2> QED BY <1>3, <2>1, <2>2
<1>5. Idle.request = NoRequest /\ ~Idle.looked
  BY DEF Idle
<1>6. ASSUME call' = [call EXCEPT ![t] = Idle] PROVE Contract!Next
  BY <1>3, <1>5, <1>6
<1>7. CASE Enter(t) \/ Startup(t)
  BY <1>4, <1>6, <1>7 DEF Enter, Startup, Ends
<1>8. CASE Joined(t) \/ Cleanup(t) \/ NewSocket(t) \/ Passing(t) \/ GetHostByName(t)
  BY <1>6, <1>8
     DEF Joined, Cleanup, NewSocket, Ends, Passing, SetSockOpt, GetSockOpt,
         GetSockName, GetPeerName, FDIsSet, IoctlSocket, PassOn, GetHostByName
<1>9. ASSUME NEW s, \/ Accept(t, s) \/ RecvFrom(t, s) \/ Close(t, s) \/ Connect(t, s)
                    \/ Listen(t, s) \/ Shutdown(t, s)
                    \/ \E name \in {"own", "any", "foreign"} : Bind(t, s, name)
      PROVE  Contract!Next
  BY <1>6, <1>9 DEF Accept, RecvFrom, Close, Connect, Listen, Shutdown, Bind, Ends
<1>10. ASSUME NEW s, NEW name \in Destination, SendTo(t, s, name) PROVE Contract!Next
  <2>1. PICK b : call' = [call EXCEPT ![t].at = "told", ![t].answer = b]
    BY <1>10, SendTells DEF Tell
  <2>2. call' = [call EXCEPT ![t] = [call[t] EXCEPT !.at = "told", !.answer = b]]
    BY <1>1, <2>1
  <2>3. LET c == [call[t] EXCEPT !.at = "told", !.answer = b]
        IN c.request = NoRequest /\ (c.looked <=> call[t].looked)
    BY <1>1, <1>2 DEF Call
  <2> QED BY <1>2, <1>3, <2>2, <2>3
<1> QED BY <1>7, <1>8, <1>9, <1>10 DEF Operation

LEMMA ReturnIsSeen ==
  ASSUME IInv, NEW t \in Thread, Return(t)
  PROVE  Contract!Next
<1>1. call[t] \in Call /\ InOrder(call[t]) /\ call[t].at = "told" /\ call' = [call EXCEPT ![t] = Idle]
  BY DEF IInv, CallsTyped, Return
<1>2. UNCHANGED Contract!net
  BY DEF Return, library, Contract!net, Up
<1>3. Idle.request = NoRequest /\ ~Idle.looked /\ Told(Idle) = NoAnswer
  BY DEF Idle, Told
<1>4. CASE call[t].request = NoRequest
  <2>1. ~call[t].looked
    BY <1>1, <1>4 DEF InOrder
  <2>2. UNCHANGED [u \in Thread |-> call[u].request]
    BY <1>1, <1>3, <1>4, Seen
  <2>3. UNCHANGED {u \in Thread : call[u].looked}
    BY <1>1, <1>3, <2>1, Seen
  <2>4. UNCHANGED [u \in Thread |-> Told(call[u])]
    <3>1. Told(Idle) = Told(call[t])
      BY <1>3, <1>4 DEF Told
    <3> QED BY <1>1, <3>1, Seen
  <2>5. Contract!Elsewhere
    BY <2>2, <2>3, <2>4 DEF Contract!Elsewhere, Told
  <2> QED BY <2>5 DEF Contract!Next
<1>5. CASE call[t].request # NoRequest
  <2>1. call[t].answer # NoAnswer
    BY <1>1, <1>5, BackendAssumption DEF InOrder, Answers
  <2>2. [u \in Thread |-> call'[u].request] = [[u \in Thread |-> call[u].request] EXCEPT ![t] = NoRequest]
    BY <1>1, <1>3, Seen
  <2>3. {u \in Thread : call'[u].looked} = {u \in Thread : call[u].looked} \ {t}
    BY <1>1, <1>3, Seen
  <2>4. [u \in Thread |-> Told(call'[u])] = [[u \in Thread |-> Told(call[u])] EXCEPT ![t] = NoAnswer]
    BY <1>1, <1>3, Seen
  <2>5. [u \in Thread |-> Told(call[u])][t] # NoAnswer
    BY <1>5, <2>1 DEF Told
  <2>6. Contract!Return(t)
    BY <1>2, <2>2, <2>3, <2>4, <2>5 DEF Contract!Return, Told
  <2> QED BY <2>6 DEF Contract!Next
<1> QED BY <1>4, <1>5

\* However the slices of a select interleave with other calls, that set up and tear
\* down the network, close the sockets asked about and open others, each step of the
\* backend is one that the contract allows, or one that the contract does not see:
\* the backend implements it (backend_select).
THEOREM BackendKeepsContract == Spec => SelectKeepsContract
<1>1. Init => Contract!Init
  <2> SUFFICES ASSUME Init PROVE Contract!Init
    OBVIOUS
  <2>1. \A u \in Thread : call[u].request = NoRequest /\ ~call[u].looked
    BY DEF Init, Idle
  <2> QED BY <2>1 DEF Contract!Init
<1>2. IInv /\ [Next]_vars => [Contract!Next]_(Contract!vars)
  <2> SUFFICES ASSUME IInv, [Next]_vars PROVE [Contract!Next]_(Contract!vars)
    OBVIOUS
  <2>1. ASSUME NEW t \in Thread,
               Enter(t) \/ Operation(t) \/ Joined(t) \/ Select(t) \/ Selecting(t) \/ Expire(t) \/ Return(t)
        PROVE  Contract!Next
    BY <2>1, OthersAreSeen, SelectIsSeen, ReturnIsSeen
  <2>2. ASSUME NEW s \in Socket, Network(s) PROVE Contract!Next
    <3>1. UNCHANGED call
      BY <2>2 DEF Network
    <3>2. Contract!Elsewhere
      BY <3>1 DEF Contract!Elsewhere
    <3> QED BY <3>2 DEF Contract!Next
  <2>3. CASE UNCHANGED vars
    BY <2>3 DEF vars, library, Contract!vars, Contract!net, Up
  <2> QED BY <2>1, <2>2, <2>3 DEF Next
<1> QED BY <1>1, <1>2, InitIInv, NextIInv, PTL DEF Spec, SelectKeepsContract, Contract!Spec
=============================================================================
