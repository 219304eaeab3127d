----------------------------- MODULE SelectContract -----------------------------
(***************************************************************************)
(* What a program may expect of select, whichever backend answers it       *)
(* (winsock's contract, as far as the code under src/ relies on it).       *)
(* backend_select of the backend over ZeroTier is shown to keep it.        *)
(***************************************************************************)
CONSTANTS Thread, Socket, Request, NoRequest, NoAnswer, Failed

VARIABLES
  known,    \* the sockets the program has
  ready,    \* what each socket is ready for
  up,       \* is there a network to ask?
  request,  \* what each thread asked of select
  seen,     \* the threads for which there was a moment of the call at which nothing was ready
  answer    \* what select told it

net  == <<known, ready, up>>
vars == <<net, request, seen, answer>>

Kind == {"read", "write", "except"}

Nothing == [k \in Kind |-> {}]

\* The sockets asked for that are ready now.  A connection that failed is told as
\* an exception alone.
Found(r) ==
  LET now == [k \in Kind |-> {s \in r[k] \cap known : k \in ready[s]}]
  IN [now EXCEPT !["write"] = @ \ now["except"]]

Init ==
  /\ request = [t \in Thread |-> NoRequest]
  /\ seen = {}
  /\ answer = [t \in Thread |-> NoAnswer]

Waits(t) == request[t] # NoRequest /\ answer[t] = NoAnswer

Tell(t, a) ==
  /\ answer' = [answer EXCEPT ![t] = a]
  /\ UNCHANGED <<net, request, seen>>

Ask(t) ==
  /\ request[t] = NoRequest
  /\ \E r \in Request : request' = [request EXCEPT ![t] = r]
  /\ UNCHANGED <<net, seen, answer>>

Look(t) ==
  /\ Waits(t) /\ Found(request[t].sets) = Nothing
  /\ seen' = seen \cup {t}
  /\ UNCHANGED <<net, request, answer>>

\* All that is ready is told, and only when there is something ...
Answer(t) ==
  /\ Waits(t) /\ Found(request[t].sets) # Nothing
  /\ Tell(t, Found(request[t].sets))

\* ... a call runs out of time only if it has some, and once found nothing ...
TimeOut(t) ==
  /\ Waits(t) /\ request[t].timed /\ t \in seen
  /\ Tell(t, Nothing)

\* ... and fails only for want of a network.
Fail(t) ==
  /\ Waits(t) /\ ~up
  /\ Tell(t, Failed)

Return(t) ==
  /\ answer[t] # NoAnswer
  /\ request' = [request EXCEPT ![t] = NoRequest]
  /\ answer' = [answer EXCEPT ![t] = NoAnswer]
  /\ seen' = seen \ {t}
  /\ UNCHANGED net

Elsewhere == UNCHANGED <<request, seen, answer>>

Next ==
  \/ Elsewhere
  \/ \E t \in Thread : Ask(t) \/ Look(t) \/ Answer(t) \/ TimeOut(t) \/ Fail(t) \/ Return(t)

Spec == Init /\ [][Next]_vars
=============================================================================
