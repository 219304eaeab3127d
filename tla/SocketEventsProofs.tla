--------------------------- MODULE SocketEventsProofs ---------------------------
(***************************************************************************)
(* Proofs about the notification of network events, for any sockets,       *)
(* threads, targets and interests.                                         *)
(*                                                                         *)
(* Shape: types, and that every call, and all that the worker looks at, is *)
(* about a socket the process has a context for.  NothingHeldBack is       *)
(* inductive with it.  ConnectTruth is not: Turns says what is so of a     *)
(* socket while a call opens or connects it, and Truths that whatever      *)
(* speaks of the outcome of a connect, in the contexts, in the copies of   *)
(* the worker, in its fd_sets and in the program, speaks of a connection   *)
(* that is settled that way.                                               *)
(***************************************************************************)
EXTENDS SocketEvents, TLAPS

-----------------------------------------------------------------------------
NetType == [open : BOOLEAN, link : {"none", "pending", "up", "refused", "eof"}, count : Int, full : BOOLEAN]

CallType == [at : {"idle", "closing", "enumerating", "received", "blocked", "accepted",
                   "connecting", "up", "refused"} \cup Role,
             socket : Socket \cup {NoContext}]

\* What the worker knows of a socket.
CopyType == [listening : BOOLEAN, state : {"unconnected", "connecting", "connected", "accepted"},
             watch : SUBSET Flag, io : SUBSET Flag, target : Target,
             events : SUBSET Flag, failed : BOOLEAN]

WorkType == UNION {[known -> CopyType] : known \in SUBSET Socket}

WorkerType == [at : {"watch", "select", "copy", "look", "send"}, work : WorkType,
               read : SUBSET Socket, write : SUBSET Socket, except : SUBSET Socket,
               about : Socket \cup {NoContext}]

EventsTypeOK ==
  /\ net \in [Socket -> NetType]
  /\ ctx \in [Socket -> ContextType \cup {NoContext}]
  /\ pc \in [Thread -> CallType]
  /\ worker \in WorkerType
  /\ told \in [Socket -> SUBSET Flag]
  /\ belief \in [Socket -> {"none", "up", "refused"}]

\* A call is about a socket, of which there is a context once it is open; and so
\* is all that the worker looks at.
Calls == \A t \in Thread : /\ pc[t].at # "idle" => pc[t].socket \in Socket
                           /\ pc[t].at \notin Role \cup {"idle"} => Has(pc[t].socket)
Looks == /\ \A s \in Socket : s \in DOMAIN worker.work \cup worker.read \cup worker.write \cup worker.except => Has(s)
         /\ worker.at = "send" => worker.about \in DOMAIN worker.work

Shape == EventsTypeOK /\ Calls /\ Looks

\* A thread goes on with its call, or to another; the others do not.
Turn(t, at, s) == pc' \in [Thread -> CallType] /\ pc'[t] = At(at, s) /\ \A u \in Thread : u # t => pc'[u] = pc[u]
Ends(t) == pc' \in [Thread -> CallType] /\ pc'[t] = Idle /\ \A u \in Thread : u # t => pc'[u] = pc[u]

\* A thread that goes on with a call is in that call, and no other thread moves.
LEMMA TakesTurn ==
  ASSUME EventsTypeOK, NEW t \in Thread, NEW s \in Socket, NEW at \in {"closing", "enumerating", "received", "blocked", "accepted",
                   "connecting", "up", "refused"} \cup Role,
         pc' = [pc EXCEPT ![t] = At(at, s)]
  PROVE  Turn(t, at, s)
BY DEF EventsTypeOK, CallType, At, Turn

\* A thread that ends its call is in none, and no other thread moves.
LEMMA TurnEnds ==
  ASSUME EventsTypeOK, NEW t \in Thread, pc' = [pc EXCEPT ![t] = Idle]
  PROVE  Ends(t)
<1>1. Idle \in CallType
  BY DEF Idle, CallType
<1> QED BY <1>1 DEF EventsTypeOK, Ends

\* A context is there for good: only its fields change, or a new one takes its place.
Kept(s, c) == /\ ctx' = [ctx EXCEPT ![s] = c] /\ c \in ContextType

\* A context that is replaced by a context: the process keeps one for every handle it had one for.
LEMMA KeptType ==
  ASSUME EventsTypeOK, NEW s \in Socket, NEW c, Kept(s, c)
  PROVE  /\ ctx' \in [Socket -> ContextType \cup {NoContext}]
         /\ ctx'[s] = c /\ Has(s)' /\ \A u \in Socket : u # s => ctx'[u] = ctx[u]
         /\ \A u \in Socket : Has(u) => Has(u)'
BY EventsAssumption DEF EventsTypeOK, Kept, Has

\* A handle the process knows has a context.
LEMMA HasContext ==
  ASSUME EventsTypeOK, NEW s \in Socket, Has(s)
  PROVE  ctx[s] \in ContextType
BY DEF EventsTypeOK, Has

\* Calls stay about sockets the process knows, when one thread begins or ends one.
LEMMA CallsGoOn ==
  ASSUME Shape, NEW t \in Thread, \A u \in Socket : Has(u) => Has(u)',
         \/ Ends(t)
         \/ \E s \in Socket, at \in {"closing", "enumerating", "received", "blocked", "accepted",
                   "connecting", "up", "refused"} \cup Role : Turn(t, at, s) /\ (at \in Role \/ Has(s))
  PROVE  Calls' /\ pc' \in [Thread -> CallType]
<1>1. \A u \in Thread : u # t => pc'[u] = pc[u]
  BY DEF Ends, Turn
<1>2. \A u \in Thread : u # t =>
        /\ pc'[u].at # "idle" => pc'[u].socket \in Socket
        /\ pc'[u].at \notin Role \cup {"idle"} => ctx'[pc'[u].socket] # NoContext
  BY <1>1 DEF Shape, Calls, Has
<1>3. CASE Ends(t)
  BY <1>2, <1>3 DEF Ends, Idle, Calls, Has
<1>4. ASSUME NEW s \in Socket, NEW at \in {"closing", "enumerating", "received", "blocked", "accepted",
                   "connecting", "up", "refused"} \cup Role, Turn(t, at, s), at \in Role \/ Has(s)
      PROVE  Calls' /\ pc' \in [Thread -> CallType]
  <2>1. pc'[t].at = at /\ pc'[t].socket = s
    BY <1>4 DEF Turn, At
  <2>2. \A u \in Thread : /\ pc'[u].at # "idle" => pc'[u].socket \in Socket
                          /\ pc'[u].at \notin Role \cup {"idle"} => ctx'[pc'[u].socket] # NoContext
    BY <1>1, <1>2, <1>4, <2>1 DEF Has
  <2> QED BY <1>4, <2>2 DEF Turn, Calls, Has
<1> QED BY <1>3, <1>4
-----------------------------------------------------------------------------
\* What the steps of the program do.
LEMMA OpenCallSteps ==
  ASSUME Shape, NEW t \in Thread, NEW s \in Socket, NEW role \in Roles, OpenCall(t, s, role)
  PROVE  /\ Shape' /\ UNCHANGED <<ctx, worker, told, belief>> /\ pc[t] = Idle /\ Turn(t, role, s) /\ role \in Role
         /\ ~net[s].open /\ (Reuses \/ ~Has(s)) /\ net'[s].open
         /\ \A u \in Socket : u # s => net'[u] = net[u]
<1>1. role \in Role /\ UNCHANGED <<ctx, worker, told, belief>> /\ pc[t] = Idle /\ ~net[s].open /\ (Reuses \/ ~Has(s))
  BY EventsAssumption DEF OpenCall
<1>2. Turn(t, role, s)
  BY <1>1, TakesTurn DEF Shape, OpenCall
<1>3. Calls' /\ pc' \in [Thread -> CallType]
  BY <1>1, <1>2, CallsGoOn DEF Has
<1>4. net' \in [Socket -> NetType] /\ net'[s].open /\ \A u \in Socket : u # s => net'[u] = net[u]
  <2> DEFINE n == [Closed EXCEPT !.open = TRUE]
             link == IF role = "peer" THEN "up" ELSE "none"
  <2>1. n \in NetType /\ n.open
    <3>1. Closed \in NetType
      BY DEF Closed, NetType
    <3> QED BY <3>1 DEF NetType
  <2>2. net' = [net EXCEPT ![s] = [n EXCEPT !.link = link]] /\ link \in {"up", "none"}
    BY DEF OpenCall
  <2> HIDE DEF n, link
  <2>3. [n EXCEPT !.link = link] \in NetType /\ [n EXCEPT !.link = link].open
    BY <2>1, <2>2 DEF NetType
  <2> QED BY <2>2, <2>3 DEF Shape, EventsTypeOK
<1>5. EventsTypeOK' /\ Looks'
  BY <1>1, <1>3, <1>4 DEF Shape, EventsTypeOK, Looks, Has
<1> QED BY <1>1, <1>2, <1>3, <1>4, <1>5 DEF Shape

\* insert: a context that is there and not closed stays as it is; otherwise a new one takes its place.
LEMMA OpenEndSteps ==
  ASSUME Shape, NEW t \in Thread, OpenEnd(t)
  PROVE  /\ Shape' /\ UNCHANGED <<net, worker>> /\ pc[t].at \in Role /\ Ends(t)
         /\ \A u \in Socket : u # pc[t].socket => ctx'[u] = ctx[u] /\ told'[u] = told[u] /\ belief'[u] = belief[u]
         /\ pc[t].socket \in Socket
         /\ \A s \in Socket : s = pc[t].socket =>
              /\ Has(s)'
              /\ \/ /\ Has(s) /\ ctx'[s].closed = ctx[s].closed /\ ctx'[s].io = ctx[s].io
                    /\ ctx'[s].events = ctx[s].events /\ ctx'[s].failed = ctx[s].failed
                    /\ ctx'[s].state = ctx[s].state
                    /\ UNCHANGED <<told, belief>>
                 \/ /\ ctx'[s].io = {} /\ ctx'[s].events = {} /\ belief'[s] = "none"
<1>0. PICK s \in Socket : s = pc[t].socket
  BY DEF OpenEnd, Shape, Calls, Role
<1> DEFINE kept == Has(s) /\ ~ctx[s].closed
           new == IF kept THEN ctx[s] ELSE Context(pc[t].at)
           c == [new EXCEPT !.listening = @ \/ pc[t].at = "listener"]
<1>1. /\ UNCHANGED <<net, worker>> /\ pc[t].at \in Role
      /\ ctx' = [ctx EXCEPT ![s] = c] /\ pc' = [pc EXCEPT ![t] = Idle]
      /\ IF kept THEN UNCHANGED <<told, belief>>
         ELSE told' = [told EXCEPT ![s] = {}] /\ belief' = [belief EXCEPT ![s] = "none"]
  BY <1>0 DEF OpenEnd
<1>2. Ends(t)
  BY <1>1, TurnEnds DEF Shape
<1>3. new \in ContextType /\ (~kept => new.io = {} /\ new.events = {})
  <2>1. CASE kept
    BY <1>1, <2>1, HasContext DEF Shape
  <2>2. CASE ~kept
    BY <2>2 DEF Context, ContextType
  <2> QED BY <2>1, <2>2
<1>4. /\ c \in ContextType /\ c.closed = new.closed /\ c.io = new.io /\ c.events = new.events
      /\ c.failed = new.failed /\ c.state = new.state
  <2> HIDE DEF new
  <2> QED BY <1>3 DEF ContextType
<1>5. Kept(s, c)
  BY <1>1, <1>4 DEF Kept
<1> HIDE DEF c
<1>6. /\ ctx' \in [Socket -> ContextType \cup {NoContext}]
      /\ ctx'[s] = c /\ Has(s)' /\ \A u \in Socket : u # s => ctx'[u] = ctx[u]
      /\ \A u \in Socket : Has(u) => Has(u)'
  BY <1>5, KeptType DEF Shape
<1>7. Calls' /\ pc' \in [Thread -> CallType]
  BY <1>2, <1>6, CallsGoOn
<1>8. /\ told' \in [Socket -> SUBSET Flag] /\ belief' \in [Socket -> {"none", "up", "refused"}]
      /\ \A u \in Socket : u # s => told'[u] = told[u] /\ belief'[u] = belief[u]
      /\ ~kept => belief'[s] = "none"
  BY <1>1 DEF Shape, EventsTypeOK
<1>9. EventsTypeOK' /\ Looks'
  BY <1>1, <1>6, <1>7, <1>8 DEF Shape, EventsTypeOK, Looks, Has
<1>10. CASE kept
  BY <1>0, <1>1, <1>2, <1>4, <1>6, <1>7, <1>8, <1>9, <1>10 DEF Shape
<1>11. CASE ~kept
  <2>1. ctx'[s].io = {} /\ ctx'[s].events = {} /\ belief'[s] = "none"
    BY <1>3, <1>4, <1>6, <1>8, <1>11
  <2> QED BY <1>0, <1>1, <1>2, <1>6, <1>7, <1>8, <1>9, <2>1 DEF Shape
<1> QED BY <1>10, <1>11

\* A change of the context of one socket, with what the program knows.
LEMMA ContextSteps ==
  ASSUME Shape, NEW t \in Thread, NEW s \in Socket, NEW c, Kept(s, c), UNCHANGED <<net, worker>>,
         pc' = pc \/ (\E at \in {"enumerating", "connecting"} : Has(s) /\ pc' = [pc EXCEPT ![t] = At(at, s)])
                  \/ pc' = [pc EXCEPT ![t] = Idle],
         told' \in [Socket -> SUBSET Flag], belief' \in [Socket -> {"none", "up", "refused"}]
  PROVE  /\ Shape' /\ ctx'[s] = c
         /\ \A u \in Socket : u # s => ctx'[u] = ctx[u]
         /\ \A u \in Socket : Has(u) => Has(u)'
<1>1. /\ ctx' \in [Socket -> ContextType \cup {NoContext}]
      /\ ctx'[s] = c /\ \A u \in Socket : u # s => ctx'[u] = ctx[u]
      /\ \A u \in Socket : Has(u) => Has(u)'
  BY KeptType DEF Shape
<1>2. Calls' /\ pc' \in [Thread -> CallType]
  <2>1. CASE pc' = pc
    BY <1>1, <2>1 DEF Shape, EventsTypeOK, Calls, Has
  <2>2. CASE pc' = [pc EXCEPT ![t] = Idle]
    BY <1>1, <2>2, TurnEnds, CallsGoOn DEF Shape
  <2>3. ASSUME NEW at \in {"enumerating", "connecting"}, Has(s), pc' = [pc EXCEPT ![t] = At(at, s)]
        PROVE  Calls' /\ pc' \in [Thread -> CallType]
    <3>1. Turn(t, at, s)
      BY <2>3, TakesTurn DEF Shape
    <3> QED BY <1>1, <2>3, <3>1, CallsGoOn
  <2> QED BY <2>1, <2>2, <2>3
<1>3. EventsTypeOK' /\ Looks'
  BY <1>1, <1>2 DEF Shape, EventsTypeOK, Looks, Has
<1> QED BY <1>1, <1>2, <1>3 DEF Shape

\* A step that leaves the contexts alone.
LEMMA NetSteps ==
  ASSUME Shape, NEW t, UNCHANGED <<ctx, worker, belief>>,
         net' \in [Socket -> NetType], told' \in [Socket -> SUBSET Flag],
         pc' = pc \/ (t \in Thread /\ Ends(t))
                  \/ (t \in Thread /\ \E s \in Socket : /\ Has(s)
                                                        /\ \E at \in {"closing", "received", "blocked", "accepted", "up", "refused"} :
                                                             pc' = [pc EXCEPT ![t] = At(at, s)])
  PROVE  Shape'
<1>1. Calls' /\ pc' \in [Thread -> CallType]
  <2>1. CASE pc' = pc
    BY <2>1 DEF Shape, EventsTypeOK, Calls, Has
  <2>2. CASE t \in Thread /\ Ends(t)
    BY <2>2, CallsGoOn DEF Has
  <2>3. ASSUME t \in Thread, NEW s \in Socket, Has(s),
               NEW at \in {"closing", "received", "blocked", "accepted", "up", "refused"},
               pc' = [pc EXCEPT ![t] = At(at, s)]
        PROVE  Calls' /\ pc' \in [Thread -> CallType]
    <3>1. Turn(t, at, s)
      BY <2>3, TakesTurn DEF Shape
    <3> QED BY <2>3, <3>1, CallsGoOn DEF Has
  <2> QED BY <2>1, <2>2, <2>3
<1> QED BY <1>1 DEF Shape, EventsTypeOK, Looks, Has

\* closesocket: the server frees the handle.
LEMMA CloseCallSteps ==
  ASSUME Shape, NEW t \in Thread, NEW s \in Socket, CloseCall(t, s)
  PROVE  /\ Shape' /\ UNCHANGED <<ctx, worker, told, belief>> /\ pc[t] = Idle /\ Turn(t, "closing", s)
         /\ net[s].open /\ Has(s) /\ net'[s] = Closed
         /\ \A u \in Thread : pc[u].socket # s
         /\ \A u \in Socket : u # s => net'[u] = net[u]
<1>1. /\ UNCHANGED <<ctx, worker, told, belief>> /\ pc[t] = Idle /\ net[s].open /\ Has(s)
      /\ \A u \in Thread : pc[u].socket # s
      /\ net' = [net EXCEPT ![s] = Closed] /\ pc' = [pc EXCEPT ![t] = At("closing", s)]
  BY DEF CloseCall
<1>2. Turn(t, "closing", s)
  BY <1>1, TakesTurn DEF Shape
<1>3. net' \in [Socket -> NetType] /\ net'[s] = Closed /\ \A u \in Socket : u # s => net'[u] = net[u]
  <2>1. Closed \in NetType
    BY DEF Closed, NetType
  <2> QED BY <1>1, <2>1 DEF Shape, EventsTypeOK
<1>4. Shape'
  BY <1>1, <1>3, NetSteps DEF Shape, EventsTypeOK
<1> QED BY <1>1, <1>2, <1>3, <1>4

\* closesocket: the context is marked, and keeps its state and what is recorded.
LEMMA CloseEndSteps ==
  ASSUME Shape, NEW t \in Thread, CloseEnd(t)
  PROVE  /\ Shape' /\ UNCHANGED <<net, worker, told, belief>> /\ pc[t].at = "closing" /\ Ends(t)
         /\ pc[t].socket \in Socket
         /\ \A u \in Socket : u # pc[t].socket => ctx'[u] = ctx[u]
         /\ \A s \in Socket : s = pc[t].socket =>
              /\ ctx'[s].closed /\ ctx'[s].events = ctx[s].events /\ ctx'[s].failed = ctx[s].failed
              /\ ctx'[s].state = ctx[s].state /\ Has(s) /\ Has(s)'
<1>1. PICK s \in Socket : s = pc[t].socket /\ Has(s) /\ ctx[s] \in ContextType
  BY HasContext DEF CloseEnd, Shape, Calls, Role
<1> DEFINE c == Shut(ctx[s])
<1>2. /\ c \in ContextType /\ c.closed /\ c.events = ctx[s].events /\ c.failed = ctx[s].failed
      /\ c.state = ctx[s].state
  BY <1>1 DEF Shut, ContextType
<1>3. UNCHANGED <<net, worker, told, belief>> /\ pc[t].at = "closing" /\ Kept(s, c) /\ Ends(t)
  BY <1>1, <1>2, TurnEnds DEF CloseEnd, Kept, Shape
<1> HIDE DEF c
<1>4. Shape' /\ ctx'[s] = c /\ Has(s)' /\ \A u \in Socket : u # s => ctx'[u] = ctx[u]
  BY <1>1, <1>3, ContextSteps DEF CloseEnd, Shape, EventsTypeOK
<1> QED BY <1>1, <1>2, <1>3, <1>4

\* WSAEventSelect, WSAAsyncSelect: what was recorded and held back is forgotten.
LEMMA SelectSteps ==
  ASSUME Shape, NEW t \in Thread, NEW s \in Socket, Select(t, s)
  PROVE  /\ Shape' /\ UNCHANGED <<net, worker, pc, belief>> /\ Has(s) /\ Has(s)'
         /\ ctx'[s].io = {} /\ ctx'[s].events = {} /\ ctx'[s].state = ctx[s].state
         /\ \A u \in Socket : u # s => ctx'[u] = ctx[u] /\ told'[u] = told[u]
<1>1. PICK x \in Target \cup {NoTarget} : \E w \in IF x = NoTarget THEN {{}} ELSE Interest[x] :
         ctx' = [ctx EXCEPT ![s] = Registered(@, x, w)]
  BY DEF Select
<1>2. PICK w \in IF x = NoTarget THEN {{}} ELSE Interest[x] : ctx' = [ctx EXCEPT ![s] = Registered(@, x, w)]
  BY <1>1
<1>3. w \in SUBSET Flag
  BY <1>1, EventsAssumption
<1> DEFINE c == Registered(ctx[s], x, w)
<1>4. Has(s) /\ ctx[s] \in ContextType
  BY HasContext DEF Select, Shape
<1>5. c \in ContextType /\ c.io = {} /\ c.events = {} /\ c.state = ctx[s].state
  BY <1>3, <1>4 DEF Registered, ContextType
<1>6. Kept(s, c) /\ UNCHANGED <<net, worker, pc, belief>> /\ told' = [told EXCEPT ![s] = {}]
  BY <1>2, <1>4, <1>5 DEF Kept, Select
<1> HIDE DEF c
<1>7. told' \in [Socket -> SUBSET Flag] /\ \A u \in Socket : u # s => told'[u] = told[u]
  BY <1>6 DEF Shape, EventsTypeOK
<1>8. Shape' /\ ctx'[s] = c /\ Has(s)' /\ \A u \in Socket : u # s => ctx'[u] = ctx[u]
  BY <1>4, <1>6, <1>7, ContextSteps DEF Shape, EventsTypeOK
<1> QED BY <1>4, <1>5, <1>6, <1>7, <1>8

\* WSAEnumNetworkEvents: what is recorded goes to the program; what is held back stays.
LEMMA EnumTakeSteps ==
  ASSUME Shape, NEW t \in Thread, NEW s \in Socket, EnumTake(t, s)
  PROVE  /\ Shape' /\ UNCHANGED <<net, worker>> /\ Has(s) /\ Has(s)' /\ pc[t] = Idle /\ Turn(t, "enumerating", s)
         /\ ctx'[s].io = ctx[s].io /\ ctx'[s].events = {} /\ ctx'[s].state = ctx[s].state
         /\ ctx'[s].closed = ctx[s].closed
         /\ told'[s] = told[s] \cup ctx[s].events
         /\ belief'[s] = (IF "CONNECT" \notin ctx[s].events THEN belief[s]
                          ELSE IF ctx[s].failed THEN "refused" ELSE "up")
         /\ \A u \in Socket : u # s => ctx'[u] = ctx[u] /\ told'[u] = told[u] /\ belief'[u] = belief[u]
<1>1. Has(s) /\ ctx[s] \in ContextType
  BY HasContext DEF EnumTake, Shape
<1> DEFINE p == [ctx[s] EXCEPT !.events = {}]
           c == [p EXCEPT !.failed = FALSE]
<1>2. /\ c \in ContextType /\ c.events = {} /\ c.io = ctx[s].io /\ c.state = ctx[s].state
      /\ c.closed = ctx[s].closed
  <2>1. /\ p \in ContextType /\ p.events = {} /\ p.io = ctx[s].io /\ p.state = ctx[s].state
        /\ p.closed = ctx[s].closed
    BY <1>1 DEF ContextType
  <2> HIDE DEF p
  <2> QED BY <2>1 DEF ContextType
<1>3. ctx' = [ctx EXCEPT ![s] = c]
  BY DEF EnumTake, Shape, EventsTypeOK
<1> HIDE DEF c
<1>4. /\ Kept(s, c) /\ UNCHANGED <<net, worker>> /\ pc[t] = Idle
      /\ pc' = [pc EXCEPT ![t] = At("enumerating", s)]
  BY <1>2, <1>3 DEF Kept, EnumTake
<1>5. Turn(t, "enumerating", s)
  BY <1>4, TakesTurn DEF Shape
<1>6. /\ told' \in [Socket -> SUBSET Flag] /\ belief' \in [Socket -> {"none", "up", "refused"}]
      /\ told'[s] = told[s] \cup ctx[s].events
      /\ belief'[s] = (IF "CONNECT" \notin ctx[s].events THEN belief[s]
                       ELSE IF ctx[s].failed THEN "refused" ELSE "up")
      /\ \A u \in Socket : u # s => told'[u] = told[u] /\ belief'[u] = belief[u]
  <2>1. ctx[s].events \in SUBSET Flag
    BY <1>1 DEF ContextType
  <2> QED BY <2>1 DEF EnumTake, Shape, EventsTypeOK
<1>7. Shape' /\ ctx'[s] = c /\ Has(s)' /\ \A u \in Socket : u # s => ctx'[u] = ctx[u]
  BY ZenonT(30), <1>1, <1>4, <1>6, ContextSteps
<1> QED BY <1>1, <1>2, <1>4, <1>5, <1>6, <1>7

\* The end of recvfrom, sendto and accept: one flag is held back no longer.
LEMMA RearmSteps ==
  ASSUME Shape, NEW t \in Thread, Rearm(t)
  PROVE  /\ Shape' /\ UNCHANGED <<net, worker, told, belief>> /\ pc[t].at \in DOMAIN Rearms /\ Ends(t)
         /\ pc[t].socket \in Socket
         /\ \A u \in Socket : u # pc[t].socket => ctx'[u] = ctx[u]
         /\ \A s \in Socket : s = pc[t].socket =>
              /\ ctx'[s].io = ctx[s].io \ {Rearms[pc[t].at]} /\ ctx'[s].events = ctx[s].events
              /\ ctx'[s].failed = ctx[s].failed /\ ctx'[s].state = ctx[s].state
              /\ ctx'[s].closed = ctx[s].closed /\ Has(s) /\ Has(s)'
<1>1. PICK s \in Socket : s = pc[t].socket /\ Has(s) /\ ctx[s] \in ContextType
  BY HasContext DEF Rearm, Rearms, Shape, Calls, Role
<1> DEFINE f == Rearms[pc[t].at]
           c == [ctx[s] EXCEPT !.io = @ \ {f}]
<1>2. /\ c \in ContextType /\ c.io = ctx[s].io \ {f} /\ c.events = ctx[s].events /\ c.failed = ctx[s].failed
      /\ c.state = ctx[s].state /\ c.closed = ctx[s].closed
  <2> HIDE DEF f
  <2> QED BY <1>1 DEF ContextType
<1>3. /\ UNCHANGED <<net, worker, told, belief>> /\ pc[t].at \in DOMAIN Rearms /\ Ends(t)
      /\ ctx' = [ctx EXCEPT ![s] = c]
  BY <1>1, TurnEnds DEF Rearm, Shape, EventsTypeOK
<1> HIDE DEF c
<1>4. Shape' /\ ctx'[s] = c /\ Has(s)' /\ \A u \in Socket : u # s => ctx'[u] = ctx[u]
  <2>1. Kept(s, c)
    BY <1>2, <1>3 DEF Kept
  <2>2. /\ told' \in [Socket -> SUBSET Flag] /\ belief' \in [Socket -> {"none", "up", "refused"}]
        /\ pc' = [pc EXCEPT ![t] = Idle]
    BY <1>3 DEF Rearm, Shape, EventsTypeOK
  <2> QED BY <1>1, <1>3, <2>1, <2>2, ContextSteps
<1> QED BY <1>1, <1>2, <1>3, <1>4

\* connect: the context says so before the server is asked.
LEMMA ConnectBeginSteps ==
  ASSUME Shape, NEW t \in Thread, NEW s \in Socket, ConnectBegin(t, s)
  PROVE  /\ Shape' /\ UNCHANGED <<net, worker, told, belief>> /\ Has(s) /\ Has(s)' /\ pc[t] = Idle /\ Turn(t, "connecting", s)
         /\ net[s].open /\ net[s].link = "none" /\ ctx[s].state = "unconnected"
         /\ ctx'[s].io = ctx[s].io /\ ctx'[s].events = ctx[s].events /\ ctx'[s].state = "connecting"
         /\ ctx'[s].closed = ctx[s].closed /\ ctx'[s].failed = ctx[s].failed
         /\ \A u \in Socket : u # s => ctx'[u] = ctx[u]
<1>1. Has(s) /\ ctx[s] \in ContextType
  BY HasContext DEF ConnectBegin, Shape
<1> DEFINE c == [ctx[s] EXCEPT !.state = "connecting"]
<1>2. /\ c \in ContextType /\ c.io = ctx[s].io /\ c.events = ctx[s].events /\ c.state = "connecting"
      /\ c.closed = ctx[s].closed /\ c.failed = ctx[s].failed
  BY <1>1 DEF ContextType
<1>3. /\ UNCHANGED <<net, worker, told, belief>> /\ pc[t] = Idle
      /\ net[s].open /\ net[s].link = "none" /\ ctx[s].state = "unconnected"
      /\ ctx' = [ctx EXCEPT ![s] = c] /\ pc' = [pc EXCEPT ![t] = At("connecting", s)]
  BY DEF ConnectBegin, Shape, EventsTypeOK
<1> HIDE DEF c
<1>4. Kept(s, c) /\ Turn(t, "connecting", s)
  BY <1>2, <1>3, TakesTurn DEF Kept, Shape
<1>5. told' \in [Socket -> SUBSET Flag] /\ belief' \in [Socket -> {"none", "up", "refused"}]
  BY <1>3 DEF Shape, EventsTypeOK
<1>6. Shape' /\ ctx'[s] = c /\ Has(s)' /\ \A u \in Socket : u # s => ctx'[u] = ctx[u]
  <2>1. \E at \in {"enumerating", "connecting"} : Has(s) /\ pc' = [pc EXCEPT ![t] = At(at, s)]
    BY <1>1, <1>3
  <2>2. UNCHANGED <<net, worker>>
    BY <1>3
  <2> QED BY ZenonT(30), <1>1, <1>4, <1>5, <2>1, <2>2, ContextSteps
<1> QED BY <1>1, <1>2, <1>3, <1>4, <1>6

\* connect: the end of one that was done at once.
LEMMA ConnectEndSteps ==
  ASSUME Shape, NEW t \in Thread, ConnectEnd(t)
  PROVE  /\ Shape' /\ UNCHANGED <<net, worker, told, belief>> /\ pc[t].at \in {"up", "refused"} /\ Ends(t)
         /\ pc[t].socket \in Socket
         /\ \A u \in Socket : u # pc[t].socket => ctx'[u] = ctx[u]
         /\ \A s \in Socket : s = pc[t].socket =>
              /\ ctx'[s].io = ctx[s].io /\ ctx'[s].events = ctx[s].events
              /\ ctx'[s].failed = ctx[s].failed /\ ctx'[s].closed = ctx[s].closed /\ Has(s) /\ Has(s)'
<1>1. PICK s \in Socket : s = pc[t].socket /\ Has(s) /\ ctx[s] \in ContextType
  BY HasContext DEF ConnectEnd, Shape, Calls, Role
<1> DEFINE state == IF pc[t].at = "up" THEN "connected" ELSE "unconnected"
           c == [ctx[s] EXCEPT !.state = state]
<1>2. /\ c \in ContextType /\ c.io = ctx[s].io /\ c.events = ctx[s].events
      /\ c.failed = ctx[s].failed /\ c.closed = ctx[s].closed
  <2>1. state \in {"connected", "unconnected"}
    OBVIOUS
  <2> HIDE DEF state
  <2> QED BY <1>1, <2>1 DEF ContextType
<1>3. /\ UNCHANGED <<net, worker, told, belief>> /\ pc[t].at \in {"up", "refused"} /\ Ends(t)
      /\ ctx' = [ctx EXCEPT ![s] = c] /\ pc' = [pc EXCEPT ![t] = Idle]
  BY <1>1, TurnEnds DEF ConnectEnd, Shape, EventsTypeOK
<1> HIDE DEF c
<1>4. Kept(s, c)
  BY <1>2, <1>3 DEF Kept
<1>5. told' \in [Socket -> SUBSET Flag] /\ belief' \in [Socket -> {"none", "up", "refused"}]
  BY <1>3 DEF Shape, EventsTypeOK
<1>6. Shape' /\ ctx'[s] = c /\ Has(s)' /\ \A u \in Socket : u # s => ctx'[u] = ctx[u]
  BY ZenonT(30), <1>1, <1>3, <1>4, <1>5, ContextSteps
<1> QED BY <1>1, <1>2, <1>3, <1>6

\* WSAEnumNetworkEvents: the event object is reset.
LEMMA EnumResetSteps ==
  ASSUME Shape, NEW t \in Thread, EnumReset(t)
  PROVE  Shape' /\ UNCHANGED <<net, ctx, worker, told, belief>> /\ pc[t].at = "enumerating" /\ Ends(t)
<1>1. UNCHANGED <<net, ctx, worker, told, belief>> /\ pc[t].at = "enumerating" /\ Ends(t)
  BY TurnEnds DEF EnumReset, Shape
<1> QED BY <1>1, NetSteps DEF Shape, EventsTypeOK

\* recvfrom, sendto and accept: they may take a flag from what the program has to
\* handle, and then clear it at their end.
Handles(t, s) ==
  /\ UNCHANGED <<ctx, worker, belief>> /\ pc[t] = Idle /\ Has(s)
  /\ \A u \in Socket : net'[u].open = net[u].open /\ net'[u].link = net[u].link
  /\ \/ UNCHANGED <<told, pc>>
     \/ \E at \in DOMAIN Rearms :
          /\ Turn(t, at, s)
          /\ told'[s] = told[s] \ {Rearms[at]} /\ \A u \in Socket : u # s => told'[u] = told[u]

\* recvfrom, sendto and accept are calls of that kind.
LEMMA HandleSteps ==
  ASSUME Shape, NEW t \in Thread, NEW s \in Socket,
         RecvCall(t, s) \/ SendCall(t, s) \/ AcceptCall(t, s)
  PROVE  Shape' /\ Handles(t, s)
<1>1. UNCHANGED <<ctx, worker, belief>> /\ pc[t] = Idle /\ Has(s)
  BY DEF RecvCall, SendCall, AcceptCall
<1>2. /\ net' \in [Socket -> NetType]
      /\ \A u \in Socket : net'[u].open = net[u].open /\ net'[u].link = net[u].link
  <2>1. net \in [Socket -> NetType]
    BY DEF Shape, EventsTypeOK
  <2>2. ASSUME NEW n \in Int, net' = [net EXCEPT ![s].count = n]
        PROVE  /\ net' \in [Socket -> NetType]
               /\ \A u \in Socket : net'[u].open = net[u].open /\ net'[u].link = net[u].link
    BY <2>1, <2>2 DEF NetType
  <2>3. CASE net' = net
    BY <2>1, <2>3
  <2>4. CASE RecvCall(t, s)
    <3>1. net' = net \/ \E n \in 1 .. net[s].count : net' = [net EXCEPT ![s].count = net[s].count - n]
      BY <2>1, <2>4 DEF RecvCall
    <3>2. net[s].count \in Int
      BY <2>1 DEF NetType
    <3>3. ASSUME NEW n \in 1 .. net[s].count PROVE net[s].count - n \in Int
      BY <3>2
    <3> QED BY <2>2, <2>3, <3>1, <3>3
  <2>5. CASE SendCall(t, s)
    <3>1. net' = net \/ net' = [net EXCEPT ![s].full = TRUE]
      BY <2>5 DEF SendCall
    <3>2. CASE net' = [net EXCEPT ![s].full = TRUE]
      BY <2>1, <3>2 DEF NetType
    <3> QED BY <2>3, <3>1, <3>2
  <2>6. CASE AcceptCall(t, s)
    <3>1. net' = [net EXCEPT ![s].count = IF net[s].count > 0 THEN net[s].count - 1 ELSE 0]
      BY <2>1, <2>6 DEF AcceptCall
    <3>2. net[s].count \in Int
      BY <2>1 DEF NetType
    <3>3. (IF net[s].count > 0 THEN net[s].count - 1 ELSE 0) \in Int
      BY <3>2
    <3> QED BY <2>2, <3>1, <3>3
  <2> QED BY <2>4, <2>5, <2>6
<1>3. \/ UNCHANGED <<told, pc>>
      \/ \E at \in DOMAIN Rearms :
           pc' = [pc EXCEPT ![t] = At(at, s)] /\ told' = [told EXCEPT ![s] = @ \ {Rearms[at]}]
  BY DEF RecvCall, SendCall, AcceptCall, Rearms
<1>4. CASE UNCHANGED <<told, pc>>
  BY <1>1, <1>2, <1>4, NetSteps DEF Handles, Shape, EventsTypeOK
<1>5. ASSUME NEW at \in DOMAIN Rearms,
             pc' = [pc EXCEPT ![t] = At(at, s)], told' = [told EXCEPT ![s] = @ \ {Rearms[at]}]
      PROVE  Shape' /\ Handles(t, s)
  <2>1. at \in {"received", "blocked", "accepted"}
    BY DEF Rearms
  <2>2. Turn(t, at, s)
    BY <1>5, <2>1, TakesTurn DEF Shape
  <2>3. /\ told' \in [Socket -> SUBSET Flag] /\ told'[s] = told[s] \ {Rearms[at]}
        /\ \A u \in Socket : u # s => told'[u] = told[u]
    BY <1>5 DEF Shape, EventsTypeOK
  <2>4. Shape'
    BY <1>1, <1>2, <1>5, <2>1, <2>3, NetSteps
  <2> QED BY <1>1, <1>2, <2>2, <2>3, <2>4 DEF Handles
<1> QED BY <1>3, <1>4, <1>5

\* connect: the server has an outcome at once, or starts to connect.
LEMMA ConnectCallSteps ==
  ASSUME Shape, NEW t \in Thread, ConnectCall(t)
  PROVE  /\ Shape' /\ UNCHANGED <<ctx, worker, told, belief>> /\ pc[t].at = "connecting"
         /\ pc[t].socket \in Socket
         /\ \A u \in Socket : u # pc[t].socket => net'[u] = net[u]
         /\ \E link \in {"pending", "up", "refused"} :
              /\ \A s \in Socket : s = pc[t].socket => net'[s].link = link /\ net'[s].open = net[s].open
              /\ Ends(t) \/ (link \in {"up", "refused"} /\ Turn(t, link, pc[t].socket))
<1>1. PICK s \in Socket : s = pc[t].socket /\ Has(s)
  BY DEF ConnectCall, Shape, Calls, Role
<1>2. PICK link \in {"pending", "up", "refused"} :
        /\ net' = [net EXCEPT ![s].link = link]
        /\ pc' = [pc EXCEPT ![t] = IF link = "pending" THEN Idle ELSE At(link, s)]
  BY <1>1 DEF ConnectCall
<1>3. UNCHANGED <<ctx, worker, told, belief>> /\ pc[t].at = "connecting"
  BY DEF ConnectCall
<1>4. /\ net' \in [Socket -> NetType] /\ net'[s].link = link /\ net'[s].open = net[s].open
      /\ \A u \in Socket : u # s => net'[u] = net[u]
  <2>1. net \in [Socket -> NetType]
    BY DEF Shape, EventsTypeOK
  <2> QED BY <1>2, <2>1 DEF NetType
<1>5. told' \in [Socket -> SUBSET Flag]
  BY <1>3 DEF Shape, EventsTypeOK
<1>6. CASE link = "pending"
  <2>1. Ends(t)
    BY <1>2, <1>6, TurnEnds DEF Shape
  <2> QED BY <1>1, <1>3, <1>4, <1>5, <2>1, NetSteps
<1>7. CASE link \in {"up", "refused"}
  <2>1. pc' = [pc EXCEPT ![t] = At(link, s)]
    BY <1>2, <1>7
  <2>2. Turn(t, link, s)
    BY <1>7, <2>1, TakesTurn DEF Shape
  <2>3. Shape'
    BY <1>1, <1>3, <1>4, <1>5, <1>7, <2>1, NetSteps
  <2> QED BY <1>1, <1>3, <1>4, <1>7, <2>2, <2>3
<1> QED BY <1>6, <1>7

\* What the network does: a connection that is up stays so until the peer closes it,
\* and one that was refused stays refused.
LEMMA NetworkSteps ==
  ASSUME Shape, Network
  PROVE  /\ Shape' /\ UNCHANGED <<ctx, pc, worker, told, belief>>
         /\ \A s \in Socket : /\ net'[s].open = net[s].open
                              /\ net[s].link = "none" => net'[s].link = "none"
                              /\ net[s].link # "none" => net'[s].link # "none"
                              /\ net[s].link \in {"up", "eof"} => net'[s].link \in {"up", "eof"}
                              /\ net[s].link = "refused" => net'[s].link = "refused"
<1>1. PICK s \in Socket : Arrive(s) \/ Room(s) \/ PeerCloses(s) \/ Outcome(s)
  BY DEF Network
<1>2. UNCHANGED <<ctx, pc, worker, told, belief>>
  BY <1>1 DEF Arrive, Room, PeerCloses, Outcome
<1>3. net \in [Socket -> NetType] /\ net[s].count \in Int
  BY DEF Shape, EventsTypeOK, NetType
<1>4. \/ net' = [net EXCEPT ![s].count = @ + 1]
      \/ net' = [net EXCEPT ![s].full = FALSE]
      \/ net[s].link = "up" /\ net' = [net EXCEPT ![s].link = "eof"]
      \/ net[s].link = "pending" /\ \E link \in {"up", "refused"} : net' = [net EXCEPT ![s].link = link]
  BY <1>1 DEF Arrive, Room, PeerCloses, Outcome
<1>5. /\ net' \in [Socket -> NetType]
      /\ \A u \in Socket : /\ net'[u].open = net[u].open
                           /\ net[u].link = "none" => net'[u].link = "none"
                           /\ net[u].link # "none" => net'[u].link # "none"
                           /\ net[u].link \in {"up", "eof"} => net'[u].link \in {"up", "eof"}
                           /\ net[u].link = "refused" => net'[u].link = "refused"
  <2>1. CASE net' = [net EXCEPT ![s].count = @ + 1]
    BY <1>3, <2>1 DEF NetType
  <2>2. CASE net' = [net EXCEPT ![s].full = FALSE]
    BY <1>3, <2>2 DEF NetType
  <2>3. CASE net[s].link = "up" /\ net' = [net EXCEPT ![s].link = "eof"]
    BY <1>3, <2>3 DEF NetType
  <2>4. CASE net[s].link = "pending" /\ \E link \in {"up", "refused"} : net' = [net EXCEPT ![s].link = link]
    BY <1>3, <2>4 DEF NetType
  <2> QED BY <1>4, <2>1, <2>2, <2>3, <2>4
<1> QED BY <1>2, <1>5, NetSteps DEF Shape, EventsTypeOK
-----------------------------------------------------------------------------
\* What the steps of the worker do.
LEMMA WorkIs ==
  ASSUME NEW known \in SUBSET Socket, NEW w \in [known -> CopyType]
  PROVE  w \in WorkType
BY DEF WorkType

\* ... and back.
LEMMA WorkHas ==
  ASSUME NEW w \in WorkType
  PROVE  DOMAIN w \in SUBSET Socket /\ w \in [DOMAIN w -> CopyType]
BY DEF WorkType

\* The worker between two rounds.
LEMMA RestingType == Resting \in WorkerType
<1>1. <<>> \in [{} -> CopyType]
  OBVIOUS
<1>2. <<>> \in WorkType
  BY <1>1, WorkIs
<1> QED BY <1>2 DEF Resting, WorkerType

\* Copies are made of contexts that are there, without the events recorded.
LEMMA CopiesAre ==
  ASSUME Shape
  PROVE  /\ Copies \in WorkType /\ DOMAIN Copies \in SUBSET Socket
         /\ \A s \in DOMAIN Copies : Has(s) /\ Copies[s].events = {}
<1>1. DOMAIN Copies = ToWatch /\ ToWatch \in SUBSET Socket /\ \A s \in ToWatch : Has(s) /\ ctx[s].target # NoTarget
  BY DEF Copies, ToWatch
<1>2. ASSUME NEW s \in ToWatch PROVE Copies[s] \in CopyType /\ Copies[s].events = {}
  <2>1. ctx[s] \in ContextType /\ ctx[s].target # NoTarget
    BY <1>1, HasContext DEF Shape
  <2> QED BY <2>1 DEF Copies, CopyType, ContextType
<1>3. Copies \in [ToWatch -> CopyType]
  BY <1>2 DEF Copies
<1> QED BY <1>1, <1>2, <1>3, WorkIs

\* A step of the worker alone.
LEMMA WorkerSteps ==
  ASSUME Shape, UNCHANGED <<net, ctx, pc, told, belief>>, worker' \in WorkerType, Looks'
  PROVE  Shape'
BY DEF Shape, EventsTypeOK, Calls, Has

\* The worker fills the fd_sets.
LEMMA WatchSteps ==
  ASSUME Shape, Watch
  PROVE  /\ Shape' /\ UNCHANGED <<net, ctx, pc, told, belief>> /\ worker'.at = "select"
         /\ \A s \in DOMAIN worker'.work : worker'.work[s].events = {}
<1>1. UNCHANGED <<net, ctx, pc, told, belief>>
  BY DEF Watch
<1>2. PICK read, write, except \in SUBSET (DOMAIN Copies) :
        worker' = [at |-> "select", work |-> Copies, read |-> read, write |-> write, except |-> except,
                   about |-> NoContext]
  <2> DEFINE w == Copies
             quiet == {s \in DOMAIN w : ~Accepting(w[s])}
             read == (DOMAIN w \ quiet) \cup {s \in quiet : \/ Established(w[s]) /\ Lacks(w[s], "CLOSE")
                                                            \/ Lacks(w[s], "READ")}
             write == {s \in quiet : AwaitsConnect(w[s]) \/ Lacks(w[s], "WRITE")}
             except == {s \in quiet : AwaitsConnect(w[s])}
  <2>1. worker' = [at |-> "select", work |-> Copies, read |-> read, write |-> write, except |-> except,
                   about |-> NoContext]
    BY DEF Watch
  <2>2. read \in SUBSET (DOMAIN Copies) /\ write \in SUBSET (DOMAIN Copies) /\ except \in SUBSET (DOMAIN Copies)
    OBVIOUS
  <2> HIDE DEF read, write, except
  <2> QED BY <2>1, <2>2
<1>3. worker' \in WorkerType
  BY <1>2, CopiesAre DEF WorkerType
<1>4. Looks'
  BY <1>1, <1>2, CopiesAre DEF Looks, Has
<1>5. worker'.at = "select" /\ worker'.work = Copies
  BY <1>2
<1> QED BY <1>1, <1>3, <1>4, <1>5, CopiesAre, WorkerSteps

\* The server's select: unless it fails, what is left in the sets is writable or broken.
LEMMA PollSteps ==
  ASSUME Shape, Poll
  PROVE  /\ Shape' /\ UNCHANGED <<net, ctx, pc, told, belief>>
         /\ \/ worker' = Resting
            \/ /\ worker'.at = "copy" /\ worker'.work = worker.work
               /\ ~SelectFails => /\ \A s \in worker'.write : Writable(s)
                                  /\ \A s \in worker'.except : Broken(s)
<1> DEFINE r == {s \in worker.read   : Readable(s)}
           w == {s \in worker.write  : Writable(s)}
           x == {s \in worker.except : Broken(s)}
<1>1. UNCHANGED <<net, ctx, pc, told, belief>> /\ worker \in WorkerType
  BY DEF Poll, Shape, EventsTypeOK
<1>2. \/ SelectFails /\ worker' = [worker EXCEPT !.at = "copy"]
      \/ worker' = Resting
      \/ worker' = [worker EXCEPT !.at = "copy", !.read = r, !.write = w, !.except = x]
  BY DEF Poll
<1>3. r \in SUBSET worker.read /\ w \in SUBSET worker.write /\ x \in SUBSET worker.except
  OBVIOUS
<1>4. (\A s \in w : Writable(s)) /\ (\A s \in x : Broken(s))
  OBVIOUS
<1> HIDE DEF r, w, x
<1>5. CASE worker' = Resting
  <2>1. Looks'
    BY <1>5 DEF Looks, Resting
  <2> QED BY <1>1, <1>5, <2>1, RestingType, WorkerSteps
<1>6. CASE SelectFails /\ worker' = [worker EXCEPT !.at = "copy"]
  <2>1. /\ worker' \in WorkerType /\ worker'.at = "copy" /\ worker'.work = worker.work
        /\ worker'.read = worker.read /\ worker'.write = worker.write /\ worker'.except = worker.except
    BY <1>1, <1>6 DEF WorkerType
  <2>2. Looks'
    BY <1>1, <2>1 DEF Shape, Looks, Has
  <2> QED BY <1>1, <1>6, <2>1, <2>2, WorkerSteps
<1>7. CASE worker' = [worker EXCEPT !.at = "copy", !.read = r, !.write = w, !.except = x]
  <2>1. /\ worker' \in WorkerType /\ worker'.at = "copy" /\ worker'.work = worker.work
        /\ worker'.read = r /\ worker'.write = w /\ worker'.except = x
    <3> DEFINE p == [worker EXCEPT !.at = "copy"]
               q == [p EXCEPT !.read = r]
               v == [q EXCEPT !.write = w]
    <3>1. p \in WorkerType /\ p.at = "copy" /\ p.work = worker.work /\ r \in SUBSET Socket
          /\ w \in SUBSET Socket /\ x \in SUBSET Socket
      BY <1>1, <1>3 DEF WorkerType
    <3> HIDE DEF p
    <3>2. q \in WorkerType /\ q.at = "copy" /\ q.work = worker.work /\ q.read = r
      BY <3>1 DEF WorkerType
    <3> HIDE DEF q
    <3>3. v \in WorkerType /\ v.at = "copy" /\ v.work = worker.work /\ v.read = r /\ v.write = w
      BY <3>1, <3>2 DEF WorkerType
    <3>4. worker' = [v EXCEPT !.except = x]
      BY <1>7 DEF p, q
    <3> HIDE DEF v
    <3> QED BY <3>1, <3>3, <3>4 DEF WorkerType
  <2>2. Looks'
    BY <1>1, <1>3, <2>1 DEF Shape, Looks, Has
  <2>3. Shape'
    BY <1>1, <2>1, <2>2, WorkerSteps
  <2> QED BY <1>1, <1>4, <2>1, <2>3
<1> QED BY <1>2, <1>5, <1>6, <1>7

\* The worker copies the contexts again.
LEMMA RecopySteps ==
  ASSUME Shape, Recopy
  PROVE  /\ Shape' /\ UNCHANGED <<net, ctx, pc, told, belief>> /\ worker.at = "copy" /\ worker'.at = "look"
         /\ worker'.write = worker.write /\ worker'.except = worker.except
         /\ \A s \in DOMAIN worker'.work : worker'.work[s].events = {}
<1>1. /\ UNCHANGED <<net, ctx, pc, told, belief>> /\ worker \in WorkerType /\ worker.at = "copy"
      /\ worker' = [worker EXCEPT !.at = "look", !.work = Copies]
  BY DEF Recopy, Shape, EventsTypeOK
<1> DEFINE p == [worker EXCEPT !.at = "look"]
           c == Copies
<1>2. /\ c \in WorkType /\ \A s \in DOMAIN c : s \in Socket /\ Has(s) /\ c[s].events = {}
  BY CopiesAre
<1>3. worker' = [p EXCEPT !.work = c]
  BY <1>1
<1> HIDE DEF c
<1>4. /\ p \in WorkerType /\ p.at = "look" /\ p.read = worker.read /\ p.write = worker.write
      /\ p.except = worker.except
  BY <1>1 DEF WorkerType
<1> HIDE DEF p
<1>5. /\ worker' \in WorkerType /\ worker'.at = "look" /\ worker'.work = c /\ worker'.read = worker.read
      /\ worker'.write = worker.write /\ worker'.except = worker.except
  BY <1>2, <1>3, <1>4 DEF WorkerType
<1>6. Looks'
  BY <1>1, <1>2, <1>5 DEF Shape, Looks, Has
<1> QED BY <1>1, <1>2, <1>5, <1>6, WorkerSteps

\* The worker begins a new round.
LEMMA AgainSteps ==
  ASSUME Shape, Again
  PROVE  Shape' /\ UNCHANGED <<net, ctx, pc, told, belief>> /\ worker' = Resting
<1>1. UNCHANGED <<net, ctx, pc, told, belief>> /\ worker' = Resting
  BY DEF Again
<1>2. Looks'
  BY <1>1 DEF Looks, Resting
<1> QED BY <1>1, <1>2, RestingType, WorkerSteps

\* Looking at a readable socket raises no event of a connection.
LEMMA ReadSteps ==
  ASSUME Shape, NEW s \in Socket, Read(s)
  PROVE  /\ Shape' /\ UNCHANGED <<net, ctx, pc, told, belief>> /\ worker.at = "look" /\ worker'.at = "look"
         /\ worker'.write = worker.write /\ worker'.except = worker.except
         /\ DOMAIN worker'.work = DOMAIN worker.work
         /\ \A u \in DOMAIN worker.work :
              /\ "CONNECT" \in worker'.work[u].events <=> "CONNECT" \in worker.work[u].events
              /\ worker'.work[u].failed = worker.work[u].failed
<1> DEFINE d == DOMAIN worker.work
           work == [u \in d |-> IF u = s THEN LookRead(worker.work[u], s) ELSE worker.work[u]]
           read == worker.read \ {s}
           p == [worker EXCEPT !.read = read]
<1>1. /\ UNCHANGED <<net, ctx, pc, told, belief>> /\ worker \in WorkerType /\ worker.at = "look"
      /\ worker.work \in WorkType
  BY DEF Read, Shape, EventsTypeOK, WorkerType
<1>2. d \in SUBSET Socket /\ worker.work \in [d -> CopyType]
  BY <1>1, WorkHas
<1>3. ASSUME NEW u \in d
      PROVE  /\ work[u] \in CopyType /\ work[u].failed = worker.work[u].failed
             /\ "CONNECT" \in work[u].events <=> "CONNECT" \in worker.work[u].events
  <2>1. worker.work[u] \in CopyType
    BY <1>2
  <2>2. ASSUME NEW w \in CopyType, NEW f \in {"ACCEPT", "READ", "CLOSE"}
        PROVE  /\ Raise(w, f) \in CopyType /\ Raise(w, f).failed = w.failed
               /\ "CONNECT" \in Raise(w, f).events <=> "CONNECT" \in w.events
    BY DEF Raise, CopyType, Flag
  <2>3. \/ work[u] = worker.work[u]
        \/ \E f \in {"ACCEPT", "READ", "CLOSE"} : work[u] = Raise(worker.work[u], f)
    BY DEF LookRead
  <2> HIDE DEF work
  <2> QED BY <2>1, <2>2, <2>3
<1>4. work \in [d -> CopyType]
  <2>1. work = [u \in d |-> work[u]]
    OBVIOUS
  <2> HIDE DEF work
  <2> QED BY <1>3, <2>1
<1>5. worker' = [p EXCEPT !.work = work] /\ DOMAIN work = d
  BY <1>1 DEF Read
<1> HIDE DEF work
<1>6. /\ p \in WorkerType /\ p.at = "look" /\ p.read = worker.read \ {s} /\ p.write = worker.write
      /\ p.except = worker.except
  BY <1>1 DEF WorkerType
<1> HIDE DEF p
<1>7. work \in WorkType
  BY <1>2, <1>4, WorkIs
<1>8. /\ worker' \in WorkerType /\ worker'.at = "look" /\ worker'.work = work /\ worker'.read = worker.read \ {s}
      /\ worker'.write = worker.write /\ worker'.except = worker.except
  BY <1>5, <1>6, <1>7 DEF WorkerType
<1>9. Looks'
  BY <1>1, <1>2, <1>5, <1>8 DEF Shape, Looks, Has
<1> QED BY <1>1, <1>3, <1>5, <1>8, <1>9, WorkerSteps

\* complete_connect raises the event of a connection with what SO_ERROR says.
LEMMA CompleteSteps ==
  ASSUME Shape, NEW s \in Socket, Complete(s)
  PROVE  /\ Shape' /\ UNCHANGED <<net, pc, told, belief>> /\ worker.at = "look" /\ worker'.at = "look"
         /\ s \in worker.write \cup worker.except
         /\ worker'.write \subseteq worker.write /\ worker'.except \subseteq worker.except
         /\ \A u \in Socket : u # s => ctx'[u] = ctx[u]
         /\ ctx'[s].io = ctx[s].io /\ ctx'[s].events = ctx[s].events /\ ctx'[s].closed = ctx[s].closed
         /\ ctx'[s].failed = ctx[s].failed /\ (Has(s) => Has(s)')
         /\ DOMAIN worker'.work = DOMAIN worker.work
         /\ \A u \in DOMAIN worker.work : u # s => worker'.work[u] = worker.work[u]
         /\ s \in DOMAIN worker.work /\ "CONNECT" \in worker'.work[s].events =>
              \/ "CONNECT" \in worker.work[s].events /\ worker'.work[s].failed = worker.work[s].failed
              \/ worker'.work[s].failed = Refused(s)
<1> DEFINE known == s \in DOMAIN worker.work
           old == worker.work[s]
           new == LookConnect(old, s)
           copy == IF s \in worker.write /\ Lacks(new, "WRITE") THEN Raise(new, "WRITE") ELSE new
           work == IF ~known THEN worker.work ELSE [worker.work EXCEPT ![s] = copy]
           write == worker.write \ {s}
           except == IF s \in worker.write THEN worker.except ELSE worker.except \ {s}
           state == IF new.failed THEN "unconnected"
                    ELSE IF old.state = "connecting" THEN "connected" ELSE ctx[s].state
           c == [ctx[s] EXCEPT !.state = state]
<1>1. /\ UNCHANGED <<net, pc, told, belief>> /\ worker \in WorkerType /\ worker.at = "look"
      /\ worker.work \in WorkType /\ s \in worker.write \cup worker.except /\ ctx \in [Socket -> ContextType \cup {NoContext}]
  BY DEF Complete, Shape, EventsTypeOK, WorkerType
<1>2. DOMAIN worker.work \in SUBSET Socket /\ worker.work \in [DOMAIN worker.work -> CopyType]
  BY <1>1, WorkHas
<1>3. worker' = [worker EXCEPT !.write = write, !.except = except, !.work = work]
  BY <1>1 DEF Complete
<1>4. IF known /\ new # old /\ Has(s) THEN ctx' = [ctx EXCEPT ![s] = c] ELSE ctx' = ctx
  BY <1>1 DEF Complete
\* The copy that is left.
<1>5. known => /\ copy \in CopyType
               /\ "CONNECT" \in copy.events =>
                    \/ "CONNECT" \in old.events /\ copy.failed = old.failed
                    \/ copy.failed = Refused(s)
  <2> SUFFICES ASSUME known
               PROVE  /\ copy \in CopyType
                      /\ "CONNECT" \in copy.events =>
                           \/ "CONNECT" \in old.events /\ copy.failed = old.failed
                           \/ copy.failed = Refused(s)
    OBVIOUS
  <2>1. old \in CopyType
    BY <1>2
  <2>2. Refused(s) \in BOOLEAN
    BY DEF Refused
  <2> HIDE DEF old
  <2>3. new \in CopyType /\ (new = old \/ new.failed = Refused(s))
    <3> DEFINE r == Raise(old, "CONNECT")
    <3>1. r \in CopyType
      BY <2>1 DEF Raise, CopyType, Flag
    <3>2. new = old \/ new = [r EXCEPT !.failed = Refused(s)]
      BY DEF LookConnect
    <3> HIDE DEF r, new
    <3> QED BY <2>1, <2>2, <3>1, <3>2 DEF CopyType
  <2> HIDE DEF new
  <2>4. /\ Raise(new, "WRITE") \in CopyType /\ Raise(new, "WRITE").failed = new.failed
        /\ "CONNECT" \in Raise(new, "WRITE").events <=> "CONNECT" \in new.events
    BY <2>3 DEF Raise, CopyType, Flag
  <2>5. copy \in CopyType /\ copy.failed = new.failed /\ ("CONNECT" \in copy.events <=> "CONNECT" \in new.events)
    BY <2>3, <2>4
  <2> HIDE DEF copy
  <2> QED BY <2>3, <2>5
<1> HIDE DEF copy
<1>6. /\ work \in WorkType /\ DOMAIN work = DOMAIN worker.work
      /\ \A u \in DOMAIN worker.work : u # s => work[u] = worker.work[u]
      /\ known => work[s] = copy
  <2>1. CASE known
    <3>1. work \in [DOMAIN worker.work -> CopyType] /\ work[s] = copy
      BY <1>2, <1>5, <2>1
    <3>2. \A u \in DOMAIN worker.work : u # s => work[u] = worker.work[u]
      BY <1>2, <2>1
    <3>3. work \in WorkType
      BY <1>2, <3>1, WorkIs
    <3> HIDE DEF work
    <3> QED BY <3>1, <3>2, <3>3
  <2>2. CASE ~known
    BY <1>1, <2>2
  <2> QED BY <2>1, <2>2
<1>7. write \in SUBSET worker.write /\ except \in SUBSET worker.except
  OBVIOUS
<1> HIDE DEF work, write, except
<1>8. /\ worker' \in WorkerType /\ worker'.at = "look" /\ worker'.work = work
      /\ worker'.write = write /\ worker'.except = except /\ worker'.read = worker.read
  <2> DEFINE p == [worker EXCEPT !.write = write]
             q == [p EXCEPT !.except = except]
  <2>1. p \in WorkerType /\ p.at = "look" /\ p.write = write /\ p.read = worker.read
        /\ write \in SUBSET Socket /\ except \in SUBSET Socket
    BY <1>1, <1>7 DEF WorkerType
  <2> HIDE DEF p
  <2>2. q \in WorkerType /\ q.at = "look" /\ q.write = write /\ q.read = worker.read /\ q.except = except
    BY <2>1 DEF WorkerType
  <2>3. worker' = [q EXCEPT !.work = work]
    BY <1>3 DEF p
  <2> HIDE DEF q
  <2> QED BY <1>6, <2>2, <2>3 DEF WorkerType
\* The context.
<1>9. /\ ctx' \in [Socket -> ContextType \cup {NoContext}]
      /\ \A u \in Socket : Has(u) => Has(u)'
      /\ \A u \in Socket : u # s => ctx'[u] = ctx[u]
      /\ ctx'[s].io = ctx[s].io /\ ctx'[s].events = ctx[s].events /\ ctx'[s].closed = ctx[s].closed
      /\ ctx'[s].failed = ctx[s].failed
  <2>1. CASE known /\ new # old /\ Has(s)
    <3>1. ctx[s] \in ContextType
      BY <2>1, HasContext DEF Shape
    <3>2. old \in CopyType
      BY <1>2, <2>1
    <3>3. state \in {"unconnected", "connecting", "connected", "accepted"}
      BY <3>1, <3>2 DEF ContextType
    <3> HIDE DEF state, new, old
    <3>4. /\ c \in ContextType /\ c.io = ctx[s].io /\ c.events = ctx[s].events /\ c.closed = ctx[s].closed
          /\ c.failed = ctx[s].failed
      BY <3>1, <3>3 DEF ContextType
    <3>5. ctx' = [ctx EXCEPT ![s] = c]
      BY <1>4, <2>1
    <3> HIDE DEF c
    <3>6. Kept(s, c)
      BY <3>4, <3>5 DEF Kept
    <3> QED BY <3>4, <3>6, KeptType DEF Shape
  <2>2. CASE ctx' = ctx
    BY <1>1, <2>2 DEF Has
  <2> QED BY <1>4, <2>1, <2>2
<1> HIDE DEF old, new, c, state, known
<1>10. Calls' /\ EventsTypeOK'
  BY <1>1, <1>8, <1>9 DEF Shape, EventsTypeOK, Calls, Has
<1>11. Looks'
  BY <1>6, <1>7, <1>8, <1>9 DEF Shape, Looks, Has
<1>12. known <=> s \in DOMAIN worker.work
  BY DEF known
<1>13. old = worker.work[s]
  BY DEF old
<1> QED BY <1>1, <1>5, <1>6, <1>7, <1>8, <1>9, <1>10, <1>11, <1>12, <1>13 DEF Shape

\* set_io_flags: what is recorded is held back in the same step.
LEMMA MarkSteps ==
  ASSUME Shape, NEW s \in Socket, Mark(s)
  PROVE  /\ Shape' /\ UNCHANGED <<net, pc, told, belief>> /\ worker.at = "look" /\ worker'.at = "send"
         /\ worker'.work = worker.work /\ worker'.write = worker.write /\ worker'.except = worker.except
         /\ s \in DOMAIN worker.work
         /\ \A u \in Socket : u # s => ctx'[u] = ctx[u]
         /\ ctx'[s].io = ctx[s].io \cup worker.work[s].events
         /\ ctx'[s].events = ctx[s].events \cup worker.work[s].events
         /\ ctx'[s].failed = (IF "CONNECT" \in worker.work[s].events THEN worker.work[s].failed ELSE ctx[s].failed)
         /\ ctx'[s].closed = ctx[s].closed /\ ctx'[s].state = ctx[s].state /\ Has(s) /\ Has(s)'
<1> DEFINE w == worker.work[s]
           failed == IF "CONNECT" \in w.events THEN w.failed ELSE ctx[s].failed
           p == [ctx[s] EXCEPT !.io = @ \cup w.events]
           q == [p EXCEPT !.events = @ \cup w.events]
           c == [q EXCEPT !.failed = failed]
<1>1. /\ UNCHANGED <<net, pc, told, belief>> /\ worker \in WorkerType /\ worker.at = "look"
      /\ worker.work \in WorkType /\ s \in DOMAIN worker.work
      /\ worker' = [worker EXCEPT !.at = "send", !.about = s]
      /\ ctx' = [ctx EXCEPT ![s] = Recorded(ctx[s], w)]
  BY DEF Mark, Raised, Shape, EventsTypeOK, WorkerType
<1>2. w \in CopyType /\ Has(s)
  BY <1>1, WorkHas DEF Shape, Looks
<1>3. ctx[s] \in ContextType
  BY <1>2, HasContext DEF Shape
<1>4. failed \in BOOLEAN /\ w.events \in SUBSET Flag
  BY <1>2, <1>3 DEF CopyType, ContextType
<1>5. Recorded(ctx[s], w) = c
  BY DEF Recorded
<1> HIDE DEF failed, w
<1>6. /\ p \in ContextType /\ p.io = ctx[s].io \cup w.events /\ p.events = ctx[s].events
      /\ p.closed = ctx[s].closed /\ p.state = ctx[s].state
  BY <1>3, <1>4 DEF ContextType
<1> HIDE DEF p
<1>7. /\ q \in ContextType /\ q.io = p.io /\ q.events = ctx[s].events \cup w.events
      /\ q.closed = ctx[s].closed /\ q.state = ctx[s].state
  BY <1>4, <1>6 DEF ContextType
<1> HIDE DEF q
<1>8. /\ c \in ContextType /\ c.io = q.io /\ c.events = q.events /\ c.failed = failed
      /\ c.closed = ctx[s].closed /\ c.state = ctx[s].state
  BY <1>4, <1>7 DEF ContextType
<1> HIDE DEF c
<1>9. Kept(s, c)
  BY <1>1, <1>5, <1>8 DEF Kept
<1>10. /\ ctx' \in [Socket -> ContextType \cup {NoContext}]
       /\ ctx'[s] = c /\ \A u \in Socket : u # s => ctx'[u] = ctx[u]
       /\ \A u \in Socket : Has(u) => Has(u)'
  BY <1>9, KeptType DEF Shape
<1>11. /\ worker' \in WorkerType /\ worker'.at = "send" /\ worker'.about = s /\ worker'.work = worker.work
       /\ worker'.read = worker.read /\ worker'.write = worker.write /\ worker'.except = worker.except
  <2> DEFINE v == [worker EXCEPT !.at = "send"]
  <2>1. /\ v \in WorkerType /\ v.at = "send" /\ v.work = worker.work
        /\ v.read = worker.read /\ v.write = worker.write /\ v.except = worker.except
    BY <1>1 DEF WorkerType
  <2>2. worker' = [v EXCEPT !.about = s]
    BY <1>1
  <2> HIDE DEF v
  <2> QED BY <2>1, <2>2 DEF WorkerType
<1>12. Shape'
  <2>1. EventsTypeOK' /\ Calls'
    BY <1>1, <1>10, <1>11 DEF Shape, EventsTypeOK, Calls, Has
  <2>2. Looks'
    BY <1>1, <1>10, <1>11 DEF Shape, Looks, Has
  <2> QED BY <2>1, <2>2 DEF Shape
<1> QED BY <1>1, <1>2, <1>6, <1>7, <1>8, <1>10, <1>11, <1>12 DEF w, failed

\* SetEvent, PostMessage: the program is told what was found out, or nothing.
LEMMA SendSteps ==
  ASSUME Shape, NEW s \in Socket, Send(s)
  PROVE  /\ Shape' /\ UNCHANGED <<net, ctx, pc>> /\ worker.at = "send" /\ worker'.at = "look"
         /\ worker'.write = worker.write /\ worker'.except = worker.except
         /\ DOMAIN worker'.work = DOMAIN worker.work \ {s}
         /\ \A u \in DOMAIN worker.work : u # s => worker'.work[u] = worker.work[u]
         /\ s \in DOMAIN worker.work /\ Has(s)
         /\ \A u \in Socket : told[u] \subseteq told'[u]
         /\ \A u \in Socket : u # s => belief'[u] = belief[u]
         /\ \/ belief'[s] = belief[s]
            \/ /\ "CONNECT" \in worker.work[s].events
               /\ belief'[s] = IF worker.work[s].failed THEN "refused" ELSE "up"
<1> DEFINE w == worker.work[s]
           d == DOMAIN worker.work \ {s}
           work == [u \in d |-> worker.work[u]]
<1>1. /\ UNCHANGED <<net, ctx, pc>> /\ worker \in WorkerType /\ worker.at = "send" /\ worker.about = s
      /\ worker.work \in WorkType
      /\ worker' = [worker EXCEPT !.at = "look", !.about = NoContext, !.work = work]
  BY DEF Send, Shape, EventsTypeOK, WorkerType
<1>2. /\ s \in DOMAIN worker.work /\ DOMAIN worker.work \in SUBSET Socket
      /\ worker.work \in [DOMAIN worker.work -> CopyType] /\ Has(s)
  BY <1>1, WorkHas DEF Shape, Looks
<1>3. /\ told' \in [Socket -> SUBSET Flag] /\ belief' \in [Socket -> {"none", "up", "refused"}]
      /\ \A u \in Socket : told[u] \subseteq told'[u]
      /\ \A u \in Socket : u # s => belief'[u] = belief[u]
      /\ \/ belief'[s] = belief[s]
         \/ "CONNECT" \in w.events /\ belief'[s] = IF w.failed THEN "refused" ELSE "up"
  <2>1. told \in [Socket -> SUBSET Flag] /\ belief \in [Socket -> {"none", "up", "refused"}] /\ w.events \in SUBSET Flag
    BY <1>2 DEF Shape, EventsTypeOK, CopyType
  <2>2. CASE UNCHANGED <<told, belief>>
    BY <2>1, <2>2
  <2>3. CASE /\ told' = [told EXCEPT ![s] = IF ctx[s].target = w.target THEN @ \cup w.events ELSE @]
             /\ belief' = [belief EXCEPT ![s] =
                  IF ctx[s].target # w.target \/ "CONNECT" \notin w.events THEN @
                  ELSE IF w.failed THEN "refused" ELSE "up"]
    <3> HIDE DEF w
    <3> QED BY <2>1, <2>3
  <2> QED BY <2>2, <2>3 DEF Send
<1>4. work \in WorkType /\ DOMAIN work = d /\ \A u \in d : work[u] = worker.work[u]
  <2>1. work \in [d -> CopyType] /\ d \in SUBSET Socket
    BY <1>2
  <2>2. DOMAIN work = d /\ \A u \in d : work[u] = worker.work[u]
    OBVIOUS
  <2> HIDE DEF work
  <2> QED BY <2>1, <2>2, WorkIs
<1> HIDE DEF work
<1>5. /\ worker' \in WorkerType /\ worker'.at = "look" /\ worker'.work = work
      /\ worker'.read = worker.read /\ worker'.write = worker.write /\ worker'.except = worker.except
  <2> DEFINE p == [worker EXCEPT !.at = "look"]
             q == [p EXCEPT !.about = NoContext]
  <2>1. /\ p \in WorkerType /\ p.at = "look"
        /\ p.read = worker.read /\ p.write = worker.write /\ p.except = worker.except
    BY <1>1 DEF WorkerType
  <2> HIDE DEF p
  <2>2. /\ q \in WorkerType /\ q.at = "look"
        /\ q.read = worker.read /\ q.write = worker.write /\ q.except = worker.except
    BY <2>1 DEF WorkerType
  <2>3. worker' = [q EXCEPT !.work = work]
    BY <1>1 DEF p
  <2> HIDE DEF q
  <2> QED BY <1>4, <2>2, <2>3 DEF WorkerType
<1>6. Shape'
  <2>1. EventsTypeOK' /\ Calls'
    BY <1>1, <1>3, <1>5 DEF Shape, EventsTypeOK, Calls, Has
  <2>2. Looks'
    BY <1>1, <1>4, <1>5 DEF Shape, Looks, Has
  <2> QED BY <2>1, <2>2 DEF Shape
<1> QED BY <1>1, <1>2, <1>3, <1>4, <1>5, <1>6
-----------------------------------------------------------------------------
\* A program that starts has the shape.
LEMMA InitShape == Init => Shape
<1> SUFFICES ASSUME Init PROVE Shape
  OBVIOUS
<1>1. Closed \in NetType
  BY DEF Closed, NetType
<1>2. Idle \in CallType /\ Idle.at = "idle"
  BY DEF Idle, CallType
<1>3. worker = Resting /\ Resting \in WorkerType
  BY RestingType DEF Init
<1>4. EventsTypeOK
  BY <1>1, <1>2, <1>3 DEF Init, EventsTypeOK
<1>5. Calls
  BY <1>2 DEF Init, Calls
<1>6. Looks
  BY <1>3 DEF Resting, Looks
<1> QED BY <1>4, <1>5, <1>6 DEF Shape

\* Every step of the program, the network and the worker keeps it.
LEMMA StepShape == Shape /\ [Next]_vars => Shape'
<1> SUFFICES ASSUME Shape, [Next]_vars PROVE Shape'
  OBVIOUS
<1>1. ASSUME NEW t \in Thread, Program(t) PROVE Shape'
  BY <1>1, OpenCallSteps, OpenEndSteps, CloseCallSteps, CloseEndSteps, SelectSteps, EnumTakeSteps, EnumResetSteps,
     RearmSteps, HandleSteps, ConnectBeginSteps, ConnectCallSteps, ConnectEndSteps DEF Program
<1>2. CASE Network
  BY <1>2, NetworkSteps
<1>3. CASE Worker
  BY <1>3, WatchSteps, PollSteps, RecopySteps, AgainSteps, ReadSteps, CompleteSteps, MarkSteps, SendSteps DEF Worker
<1>4. CASE UNCHANGED vars
  BY <1>4 DEF vars, Shape, EventsTypeOK, Calls, Looks, Has
<1> QED BY <1>1, <1>2, <1>3, <1>4 DEF Next

\* The type invariant, and that every call, and all that the worker looks at, is about a socket
\* the process has a context for: closesocket marks a context and never erases it.
THEOREM EventsShape == Spec => []Shape
BY InitShape, StepShape, PTL DEF Spec
-----------------------------------------------------------------------------
\* What is held back stays answerable while no call ends that reacts to it.
LEMMA StillAnswerable ==
  ASSUME NothingHeldBack,
         \A u \in Thread : pc[u].at \in DOMAIN Rearms => pc'[u] = pc[u],
         \A s \in Socket : Has(s)' /\ ~ctx'[s].closed =>
           \A f \in ctx'[s].io :
             \/ f \in told'[s] \/ f \in ctx'[s].events
             \/ /\ Has(s) /\ ~ctx[s].closed /\ f \in ctx[s].io
                /\ f \in told[s] => f \in told'[s]
                /\ f \in ctx[s].events => f \in ctx'[s].events
  PROVE  NothingHeldBack'
<1> SUFFICES ASSUME NEW s \in Socket, Has(s)', ~ctx'[s].closed, NEW f \in ctx'[s].io,
                    f \notin told'[s], f \notin ctx'[s].events
             PROVE  Reacting(s, f)'
  BY DEF NothingHeldBack
<1>1. Has(s) /\ ~ctx[s].closed /\ f \in ctx[s].io /\ f \notin told[s] /\ f \notin ctx[s].events
  OBVIOUS
<1>2. PICK t \in Thread, a \in DOMAIN Rearms : pc[t] = At(a, s) /\ Rearms[a] = f
  BY <1>1 DEF NothingHeldBack, Reacting
<1>3. pc[t].at = a
  BY <1>2 DEF At
<1>4. pc'[t] = At(a, s)
  BY <1>2, <1>3
<1> QED BY <1>2, <1>4 DEF Reacting

\* Which calls end with clearing a flag (clear_io_flags).
LEMMA ReactingKinds == /\ DOMAIN Rearms = {"received", "blocked", "accepted"}
                       /\ "idle" \notin DOMAIN Rearms /\ "closing" \notin DOMAIN Rearms /\ "enumerating" \notin DOMAIN Rearms
                       /\ "connecting" \notin DOMAIN Rearms /\ "up" \notin DOMAIN Rearms /\ "refused" \notin DOMAIN Rearms
                       /\ \A at \in Role : at \notin DOMAIN Rearms
                       /\ Idle.at = "idle"
BY DEF Rearms, Role, Idle

\* The end of recvfrom, sendto or accept clears the one flag that the call answers for.
LEMMA RearmKeepsAnswerable ==
  ASSUME Shape, NothingHeldBack, NEW t \in Thread, Rearm(t)
  PROVE  NothingHeldBack'
<1>1. PICK x \in Socket : x = pc[t].socket
  BY RearmSteps
<1>2. /\ UNCHANGED told /\ pc[t].at \in DOMAIN Rearms /\ \A u \in Thread : u # t => pc'[u] = pc[u]
      /\ \A u \in Socket : u # x => ctx'[u] = ctx[u]
      /\ ctx'[x].io = ctx[x].io \ {Rearms[pc[t].at]} /\ ctx'[x].events = ctx[x].events
      /\ ctx'[x].closed = ctx[x].closed /\ Has(x)
  BY <1>1, RearmSteps DEF Ends
<1> SUFFICES ASSUME NEW s \in Socket, ctx'[s] # NoContext, ~ctx'[s].closed, NEW f \in ctx'[s].io,
                    f \notin told'[s], f \notin ctx'[s].events
             PROVE  Reacting(s, f)'
  BY DEF NothingHeldBack, Has
<1>3. Has(s) /\ ~ctx[s].closed /\ f \in ctx[s].io /\ f \notin told[s] /\ f \notin ctx[s].events
  BY <1>2 DEF Has
<1>4. PICK u \in Thread, a \in DOMAIN Rearms : pc[u] = At(a, s) /\ Rearms[a] = f
  BY <1>3 DEF NothingHeldBack, Reacting
<1>5. u # t
  <2>1. SUFFICES ASSUME u = t PROVE FALSE
    OBVIOUS
  <2>2. pc[t].at = a /\ pc[t].socket = s
    BY <1>4, <2>1 DEF At
  <2> QED BY <1>1, <1>2, <1>4, <2>2
<1>6. pc'[u] = At(a, s)
  BY <1>2, <1>4, <1>5
<1> QED BY <1>4, <1>6 DEF Reacting

\* recvfrom, sendto and accept use up what the program was told of, and answer for it.
LEMMA HandleKeepsAnswerable ==
  ASSUME Shape, NothingHeldBack, NEW t \in Thread, NEW x \in Socket, Handles(t, x)
  PROVE  NothingHeldBack'
<1>1. CASE UNCHANGED <<told, pc>>
  BY <1>1, StillAnswerable DEF Handles, Has, NothingHeldBack
<1>2. ASSUME NEW at \in DOMAIN Rearms, Turn(t, at, x), told'[x] = told[x] \ {Rearms[at]},
             \A u \in Socket : u # x => told'[u] = told[u]
      PROVE  NothingHeldBack'
  <2> SUFFICES ASSUME NEW s \in Socket, ctx'[s] # NoContext, ~ctx'[s].closed, NEW f \in ctx'[s].io,
                      f \notin told'[s], f \notin ctx'[s].events
               PROVE  Reacting(s, f)'
    BY DEF NothingHeldBack, Has
  <2>1. Has(s) /\ ~ctx[s].closed /\ f \in ctx[s].io /\ f \notin ctx[s].events /\ pc[t] = Idle
    BY DEF Handles, Has
  <2>2. CASE f \in told[s]
    <3>1. s = x /\ f = Rearms[at]
      BY <1>2, <2>2
    <3>2. pc'[t] = At(at, s)
      BY <1>2, <3>1 DEF Turn
    <3> QED BY <3>1, <3>2 DEF Reacting
  <2>3. CASE f \notin told[s]
    <3>1. PICK u \in Thread, a \in DOMAIN Rearms : pc[u] = At(a, s) /\ Rearms[a] = f
      BY <2>1, <2>3 DEF NothingHeldBack, Reacting
    <3>2. u # t
      BY <2>1, <3>1, ReactingKinds DEF At
    <3>3. pc'[u] = At(a, s)
      BY <1>2, <3>1, <3>2 DEF Turn
    <3> QED BY <3>1, <3>3 DEF Reacting
  <2> QED BY <2>2, <2>3
<1> QED BY <1>1, <1>2 DEF Handles

\* No call of the program leaves a flag held back that nobody answers for.
LEMMA ProgramKeepsAnswerable ==
  ASSUME Shape, NothingHeldBack, NEW t \in Thread, Program(t)
  PROVE  NothingHeldBack'
<1>1. ASSUME NEW s \in Socket, NEW role \in Roles, OpenCall(t, s, role) PROVE NothingHeldBack'
  <2>1. UNCHANGED <<ctx, told>> /\ pc[t] = Idle /\ \A u \in Thread : u # t => pc'[u] = pc[u]
    BY <1>1, OpenCallSteps DEF Turn
  <2> QED BY <2>1, StillAnswerable, ReactingKinds DEF Has
<1>2. ASSUME NEW s \in Socket, CloseCall(t, s) PROVE NothingHeldBack'
  <2>1. UNCHANGED <<ctx, told>> /\ pc[t] = Idle /\ \A u \in Thread : u # t => pc'[u] = pc[u]
    BY <1>2, CloseCallSteps DEF Turn
  <2> QED BY <2>1, StillAnswerable, ReactingKinds DEF Has
<1>3. ASSUME NEW s \in Socket, Select(t, s) PROVE NothingHeldBack'
  <2>1. UNCHANGED pc /\ ctx'[s].io = {} /\ \A u \in Socket : u # s => ctx'[u] = ctx[u] /\ told'[u] = told[u]
    BY <1>3, SelectSteps
  <2> QED BY <2>1, StillAnswerable DEF Has
<1>4. ASSUME NEW s \in Socket, EnumTake(t, s) PROVE NothingHeldBack'
  <2>1. /\ pc[t] = Idle /\ \A u \in Thread : u # t => pc'[u] = pc[u]
        /\ Has(s) /\ ctx'[s].io = ctx[s].io /\ ctx'[s].closed = ctx[s].closed /\ told'[s] = told[s] \cup ctx[s].events
        /\ \A u \in Socket : u # s => ctx'[u] = ctx[u] /\ told'[u] = told[u]
    BY <1>4, EnumTakeSteps DEF Turn
  <2>2. \A u \in Socket : Has(u)' /\ ~ctx'[u].closed =>
          \A f \in ctx'[u].io :
             \/ f \in told'[u] \/ f \in ctx'[u].events
             \/ /\ Has(u) /\ ~ctx[u].closed /\ f \in ctx[u].io
                /\ f \in told[u] => f \in told'[u]
                /\ f \in ctx[u].events => f \in ctx'[u].events
    BY <2>1 DEF Has
  <2>3. \A u \in Thread : pc[u].at \in DOMAIN Rearms => pc'[u] = pc[u]
    BY <2>1, ReactingKinds
  <2> QED BY <2>2, <2>3, StillAnswerable
<1>5. ASSUME NEW s \in Socket, RecvCall(t, s) \/ SendCall(t, s) \/ AcceptCall(t, s) PROVE NothingHeldBack'
  BY <1>5, HandleSteps, HandleKeepsAnswerable
<1>6. ASSUME NEW s \in Socket, ConnectBegin(t, s) PROVE NothingHeldBack'
  <2>1. /\ UNCHANGED told /\ pc[t] = Idle /\ \A u \in Thread : u # t => pc'[u] = pc[u]
        /\ Has(s) /\ ctx'[s].io = ctx[s].io /\ ctx'[s].closed = ctx[s].closed /\ ctx'[s].events = ctx[s].events
        /\ \A u \in Socket : u # s => ctx'[u] = ctx[u]
    BY <1>6, ConnectBeginSteps DEF Turn
  <2> QED BY <2>1, StillAnswerable, ReactingKinds DEF Has
<1>7. CASE OpenEnd(t)
  <2>1. PICK s \in Socket : s = pc[t].socket
    BY <1>7, OpenEndSteps
  <2>2. /\ pc[t].at \in Role /\ \A u \in Thread : u # t => pc'[u] = pc[u]
        /\ \A u \in Socket : u # s => ctx'[u] = ctx[u] /\ told'[u] = told[u]
    BY <1>7, <2>1, OpenEndSteps DEF Ends
  <2>3. \/ Has(s) /\ ctx'[s].closed = ctx[s].closed /\ ctx'[s].io = ctx[s].io /\ ctx'[s].events = ctx[s].events /\ UNCHANGED told
        \/ ctx'[s].io = {}
    BY <1>7, <2>1, OpenEndSteps
  <2> QED BY <2>2, <2>3, StillAnswerable, ReactingKinds DEF Has
<1>8. CASE CloseEnd(t)
  <2>1. PICK s \in Socket : s = pc[t].socket
    BY <1>8, CloseEndSteps
  <2>2. /\ pc[t].at = "closing" /\ \A u \in Thread : u # t => pc'[u] = pc[u] /\ UNCHANGED told
        /\ \A u \in Socket : u # s => ctx'[u] = ctx[u] /\ ctx'[s].closed
    BY <1>8, <2>1, CloseEndSteps DEF Ends
  <2> QED BY <2>2, <1>8, CloseEndSteps, <2>1, StillAnswerable, ReactingKinds DEF Has
<1>9. CASE EnumReset(t)
  <2>1. UNCHANGED <<ctx, told>> /\ pc[t].at = "enumerating" /\ \A u \in Thread : u # t => pc'[u] = pc[u]
    BY <1>9, EnumResetSteps DEF Ends
  <2> QED BY <2>1, StillAnswerable, ReactingKinds DEF Has
<1>10. CASE Rearm(t)
  BY <1>10, RearmKeepsAnswerable
<1>11. CASE ConnectCall(t)
  <2>1. UNCHANGED <<ctx, told>> /\ pc[t].at = "connecting" /\ \A u \in Thread : u # t => pc'[u] = pc[u]
    BY <1>11, ConnectCallSteps DEF Ends, Turn
  <2> QED BY <2>1, StillAnswerable, ReactingKinds DEF Has
<1>12. CASE ConnectEnd(t)
  <2>1. PICK s \in Socket : s = pc[t].socket
    BY <1>12, ConnectEndSteps
  <2>2. /\ UNCHANGED told /\ pc[t].at \in {"up", "refused"} /\ \A u \in Thread : u # t => pc'[u] = pc[u]
        /\ Has(s) /\ ctx'[s].io = ctx[s].io /\ ctx'[s].closed = ctx[s].closed /\ ctx'[s].events = ctx[s].events
        /\ \A u \in Socket : u # s => ctx'[u] = ctx[u]
    BY <1>12, <2>1, ConnectEndSteps DEF Ends
  <2> QED BY <2>2, StillAnswerable, ReactingKinds DEF Has
<1> QED BY <1>1, <1>2, <1>3, <1>4, <1>5, <1>6, <1>7, <1>8, <1>9, <1>10, <1>11, <1>12 DEF Program

\* The worker records what it holds back in the same step.
LEMMA WorkerKeepsAnswerable ==
  ASSUME Shape, NothingHeldBack, Worker
  PROVE  NothingHeldBack'
<1>1. ASSUME UNCHANGED <<ctx, pc, told>> PROVE NothingHeldBack'
  BY <1>1, StillAnswerable DEF Has
<1>2. ASSUME NEW s \in Socket, Complete(s) PROVE NothingHeldBack'
  <2>1. /\ UNCHANGED <<pc, told>> /\ \A u \in Socket : u # s => ctx'[u] = ctx[u]
        /\ ctx'[s].io = ctx[s].io /\ ctx'[s].events = ctx[s].events /\ ctx'[s].closed = ctx[s].closed
        /\ Has(s)
    BY <1>2, CompleteSteps DEF Shape, Looks
  <2> QED BY <2>1, StillAnswerable DEF Has
<1>3. ASSUME NEW s \in Socket, Mark(s) PROVE NothingHeldBack'
  <2> DEFINE events == worker.work[s].events
  <2>1. /\ UNCHANGED <<pc, told>> /\ \A u \in Socket : u # s => ctx'[u] = ctx[u]
        /\ ctx'[s].io = ctx[s].io \cup events /\ ctx'[s].events = ctx[s].events \cup events
        /\ ctx'[s].closed = ctx[s].closed /\ Has(s)
    BY <1>3, MarkSteps
  <2> HIDE DEF events
  <2> QED BY <2>1, StillAnswerable DEF Has
<1>4. ASSUME NEW s \in Socket, Send(s) PROVE NothingHeldBack'
  <2>1. UNCHANGED <<ctx, pc>> /\ \A u \in Socket : told[u] \subseteq told'[u]
    BY <1>4, SendSteps
  <2> QED BY <2>1, StillAnswerable DEF Has
<1> QED BY <1>1, <1>2, <1>3, <1>4, WatchSteps, PollSteps, RecopySteps, AgainSteps, ReadSteps DEF Worker

\* NothingHeldBack, for any sockets, threads, targets and interests, with either backend, handles
\* that come back and programs that register again: the worker never holds back in io_flags what
\* the program was not told and nobody is about to react to.
THEOREM EventsNothingHeldBack == Spec => []NothingHeldBack
<1>1. Init => NothingHeldBack
  BY DEF Init, NothingHeldBack, Has
<1>2. Shape /\ NothingHeldBack /\ [Next]_vars => NothingHeldBack'
  <2> SUFFICES ASSUME Shape, NothingHeldBack, [Next]_vars PROVE NothingHeldBack'
    OBVIOUS
  <2>1. CASE Network
    BY <2>1, NetworkSteps, StillAnswerable DEF Has
  <2>2. CASE UNCHANGED vars
    BY <2>2, StillAnswerable DEF vars, Has
  <2> QED BY <2>1, <2>2, ProgramKeepsAnswerable, WorkerKeepsAnswerable DEF Next
<1> QED BY <1>1, <1>2, EventsShape, PTL DEF Spec
-----------------------------------------------------------------------------
\* A socket that the server has is connected, or its connection was refused.
Settled(s, failed) ==
  net[s].open => net[s].link \in (IF failed THEN {"refused"} ELSE {"up", "eof"})

\* The calls that open and connect a socket, and what is so while one is under way.
Steps == Role \cup {"connecting", "up", "refused"}

Hold(at, s) ==
  /\ at \in Role => net[s].open /\ ctx[s] = NoContext
  /\ at = "connecting" => net[s].open /\ net[s].link = "none" /\ ctx[s].state = "connecting"
  /\ at \in {"up", "refused"} => net[s].link # "none"

Apart(at, other) == ~(at \in Role /\ other \in Role) /\ ~(at = "connecting" /\ other = "connecting")

Turns ==
  \A t \in Thread, s \in Socket, at \in Steps : pc[t] = At(at, s) =>
    /\ Hold(at, s)
    /\ \A u \in Thread, other \in Steps : u # t /\ pc[u] = At(other, s) => Apart(at, other)

\* Whatever speaks of how a connect went speaks of a connection that is settled so.
Truths ==
  \A s \in Socket :
    /\ Has(s) /\ "CONNECT" \in ctx[s].events => Settled(s, ctx[s].failed)
    /\ belief[s] # "none" => Has(s) /\ Settled(s, belief[s] = "refused")
    /\ s \in DOMAIN worker.work /\ "CONNECT" \in worker.work[s].events => Settled(s, worker.work[s].failed)
    /\ worker.at \in {"copy", "look", "send"} =>
         /\ s \in worker.write => Settled(s, FALSE)
         /\ s \in worker.except => Settled(s, TRUE)

\* A call is what its parts say ...
LEMMA CallIs ==
  ASSUME EventsTypeOK, NEW t \in Thread, NEW at, NEW s, pc[t].at = at, pc[t].socket = s
  PROVE  pc[t] = At(at, s)
BY DEF EventsTypeOK, CallType, At

\* ... and nothing else.
LEMMA AtIs == \A at, s, other, x : At(at, s) = At(other, x) => at = other /\ s = x
<1> SUFFICES ASSUME NEW at, NEW s, NEW other, NEW x, At(at, s) = At(other, x) PROVE at = other /\ s = x
  OBVIOUS
<1>1. At(at, s).at = at /\ At(at, s).socket = s /\ At(other, x).at = other /\ At(other, x).socket = x
  BY DEF At
<1> QED BY <1>1

\* A thread without a call opens and connects nothing.
LEMMA IdleIsNoStep == \A at \in Steps : \A s : At(at, s) # Idle
BY DEF At, Idle, Steps, Role

\* A step of one thread about one socket.
LEMMA TurnsGoOn ==
  ASSUME Turns, NEW t \in Thread, NEW x \in Socket,
         \A u \in Thread : u # t => pc'[u] = pc[u],
         \A s \in Socket : s # x => net'[s] = net[s] /\ ctx'[s] = ctx[s],
         \A u \in Thread, at \in Steps : u # t /\ pc[u] = At(at, x) => Hold(at, x)',
         \A s \in Socket, at \in Steps : pc'[t] = At(at, s) =>
           /\ s = x /\ Hold(at, x)'
           /\ \A u \in Thread, other \in Steps : u # t /\ pc[u] = At(other, x) => Apart(at, other)
  PROVE  Turns'
<1> SUFFICES ASSUME NEW v \in Thread, NEW s \in Socket, NEW at \in Steps, pc'[v] = At(at, s)
             PROVE  /\ Hold(at, s)'
                    /\ \A u \in Thread, other \in Steps : u # v /\ pc'[u] = At(other, s) => Apart(at, other)
  BY DEF Turns
<1>1. CASE v = t
  BY <1>1
<1>2. CASE v # t
  <2>1. pc[v] = At(at, s)
    BY <1>2
  <2>2. Hold(at, s) /\ \A u \in Thread, other \in Steps : u # v /\ pc[u] = At(other, s) => Apart(at, other)
    BY <2>1 DEF Turns
  <2>3. Hold(at, s)'
    <3>1. CASE s = x
      BY <1>2, <2>1, <3>1
    <3>2. CASE s # x
      BY <2>2, <3>2 DEF Hold
    <3> QED BY <3>1, <3>2
  <2>4. ASSUME NEW u \in Thread, NEW other \in Steps, u # v, pc'[u] = At(other, s) PROVE Apart(at, other)
    <3>1. CASE u = t
      <4>1. Apart(other, at)
        BY <1>2, <2>1, <2>4, <3>1
      <4> QED BY <4>1 DEF Apart
    <3>2. CASE u # t
      BY <2>2, <2>4, <3>2
    <3> QED BY <3>1, <3>2
  <2> QED BY <2>3, <2>4
<1> QED BY <1>1, <1>2

\* A step that only others than the threads take, or that is none of these calls.
LEMMA TurnsStay ==
  ASSUME Turns, \A t \in Thread : pc'[t] = pc[t] \/ \A s \in Socket, at \in Steps : pc'[t] # At(at, s),
         \A s \in Socket, at \in Steps : Hold(at, s) => Hold(at, s)' \/ \A t \in Thread : pc[t] # At(at, s)
  PROVE  Turns'
<1> SUFFICES ASSUME NEW v \in Thread, NEW s \in Socket, NEW at \in Steps, pc'[v] = At(at, s)
             PROVE  /\ Hold(at, s)'
                    /\ \A u \in Thread, other \in Steps : u # v /\ pc'[u] = At(other, s) => Apart(at, other)
  BY DEF Turns
<1>1. pc[v] = At(at, s)
  OBVIOUS
<1>2. Hold(at, s)'
  BY <1>1 DEF Turns
<1>3. \A u \in Thread, other \in Steps : pc'[u] = At(other, s) => pc[u] = At(other, s)
  OBVIOUS
<1> QED BY <1>1, <1>2, <1>3 DEF Turns

\* What was settled stays so, of a socket the process has a context for.
LEMMA SettledStays ==
  ASSUME Shape, Turns, Next, ~Reuses, NEW s \in Socket, Has(s), NEW failed \in BOOLEAN, Settled(s, failed)
  PROVE  Settled(s, failed)'
<1>1. ASSUME NEW t \in Thread, NEW x \in Socket, NEW role \in Roles, OpenCall(t, x, role) PROVE Settled(s, failed)'
  <2>1. x # s /\ \A u \in Socket : u # x => net'[u] = net[u]
    BY <1>1, OpenCallSteps
  <2> QED BY <2>1 DEF Settled
<1>2. ASSUME NEW t \in Thread, NEW x \in Socket, CloseCall(t, x) PROVE Settled(s, failed)'
  <2>1. net'[x] = Closed /\ \A u \in Socket : u # x => net'[u] = net[u]
    BY <1>2, CloseCallSteps
  <2> QED BY <2>1 DEF Settled, Closed
<1>3. ASSUME NEW t \in Thread, NEW x \in Socket, RecvCall(t, x) \/ SendCall(t, x) \/ AcceptCall(t, x) PROVE Settled(s, failed)'
  BY <1>3, HandleSteps DEF Handles, Settled
<1>4. ASSUME NEW t \in Thread, ConnectCall(t) PROVE Settled(s, failed)'
  <2>1. PICK x \in Socket : x = pc[t].socket
    BY <1>4, ConnectCallSteps
  <2>2. pc[t] = At("connecting", x) /\ \A u \in Socket : u # x => net'[u] = net[u]
    BY <1>4, <2>1, ConnectCallSteps, CallIs DEF Shape
  <2>3. Hold("connecting", x)
    BY <2>2 DEF Turns, Steps
  <2>4. s # x
    BY <2>3 DEF Hold, Settled
  <2> QED BY <2>2, <2>4 DEF Settled
<1>5. CASE Network
  BY <1>5, NetworkSteps DEF Settled
<1>6. CASE UNCHANGED net
  BY <1>6 DEF Settled
<1>7. CASE Worker
  BY <1>6, <1>7, WatchSteps, PollSteps, RecopySteps, AgainSteps, ReadSteps, CompleteSteps, MarkSteps, SendSteps DEF Worker
<1>8. ASSUME NEW t \in Thread, Program(t) PROVE Settled(s, failed)'
  BY <1>1, <1>2, <1>3, <1>4, <1>6, <1>8, OpenEndSteps, CloseEndSteps, SelectSteps, EnumTakeSteps, EnumResetSteps,
     RearmSteps, ConnectBeginSteps, ConnectEndSteps DEF Program
<1> QED BY <1>5, <1>7, <1>8 DEF Next
-----------------------------------------------------------------------------
\* The program: two threads never open the same socket or connect it at once.
LEMMA ProgramKeepsTurns ==
  ASSUME Shape, Turns, ~Reuses, NEW t \in Thread, Program(t)
  PROVE  Turns'
<1>1. ASSUME NEW s \in Socket, NEW role \in Roles, OpenCall(t, s, role) PROVE Turns'
  <2>1. /\ UNCHANGED ctx /\ role \in Role /\ Turn(t, role, s) /\ ~net[s].open /\ ~Has(s) /\ net'[s].open
        /\ \A u \in Socket : u # s => net'[u] = net[u]
    BY <1>1, OpenCallSteps
  <2>2. ASSUME NEW u \in Thread, NEW at \in Steps, pc[u] = At(at, s) PROVE FALSE
    <3>1. Hold(at, s)
      BY <2>2 DEF Turns
    <3>2. pc[u].at = at /\ pc[u].socket = s
      BY <2>2 DEF At
    <3>3. at \in Role
      BY <2>1, <3>2 DEF Shape, Calls, Steps, Has
    <3> QED BY <2>1, <3>1, <3>3 DEF Hold
  <2>3. role \notin {"connecting", "up", "refused"}
    BY <2>1 DEF Role
  <2>4. Hold(role, s)'
    BY <2>1, <2>3 DEF Hold, Has
  <2> QED BY <2>1, <2>2, <2>4, AtIs, TurnsGoOn DEF Turn
<1>2. ASSUME NEW s \in Socket, CloseCall(t, s) PROVE Turns'
  <2>1. /\ UNCHANGED ctx /\ Turn(t, "closing", s) /\ (\A u \in Thread : pc[u].socket # s)
        /\ \A u \in Socket : u # s => net'[u] = net[u]
    BY <1>2, CloseCallSteps
  <2>2. \A u \in Thread, at \in Steps : pc[u] # At(at, s)
    BY <2>1 DEF At
  <2>3. "closing" \notin Steps
    BY DEF Steps, Role
  <2> QED BY <2>1, <2>2, <2>3, AtIs, TurnsGoOn DEF Turn
<1>3. ASSUME NEW s \in Socket, Select(t, s) PROVE Turns'
  <2>1. /\ UNCHANGED <<net, pc>> /\ Has(s) /\ ctx'[s].state = ctx[s].state
        /\ \A u \in Socket : u # s => ctx'[u] = ctx[u]
    BY <1>3, SelectSteps
  <2>2. \A u \in Socket, at \in Steps : Hold(at, u) => Hold(at, u)'
    BY <2>1 DEF Hold, Has
  <2> QED BY <2>1, <2>2, TurnsStay
<1>4. ASSUME NEW s \in Socket, EnumTake(t, s) PROVE Turns'
  <2>1. /\ UNCHANGED net /\ Turn(t, "enumerating", s) /\ Has(s) /\ ctx'[s].state = ctx[s].state
        /\ \A u \in Socket : u # s => ctx'[u] = ctx[u]
    BY <1>4, EnumTakeSteps
  <2>2. \A u \in Socket, at \in Steps : Hold(at, u) => Hold(at, u)'
    BY <2>1 DEF Hold, Has
  <2>3. "enumerating" \notin Steps
    BY DEF Steps, Role
  <2> QED BY <2>1, <2>2, <2>3, AtIs, TurnsStay DEF Turn
<1>5. ASSUME NEW s \in Socket, RecvCall(t, s) \/ SendCall(t, s) \/ AcceptCall(t, s) PROVE Turns'
  <2>1. Handles(t, s)
    BY <1>5, HandleSteps
  <2>2. \A u \in Socket, at \in Steps : Hold(at, u) => Hold(at, u)'
    BY <2>1 DEF Hold, Handles
  <2>3. \A u \in Thread : pc'[u] = pc[u] \/ \A x \in Socket, at \in Steps : pc'[u] # At(at, x)
    <3>1. \A at \in DOMAIN Rearms : at \notin Steps
      BY DEF Rearms, Steps, Role
    <3> QED BY <2>1, <3>1, AtIs DEF Handles, Turn
  <2> QED BY <2>2, <2>3, TurnsStay
<1>6. ASSUME NEW s \in Socket, ConnectBegin(t, s) PROVE Turns'
  <2>1. /\ UNCHANGED net /\ Turn(t, "connecting", s) /\ Has(s) /\ Has(s)' /\ net[s].open /\ net[s].link = "none"
        /\ ctx[s].state = "unconnected" /\ ctx'[s].state = "connecting"
        /\ \A u \in Socket : u # s => ctx'[u] = ctx[u]
    BY <1>6, ConnectBeginSteps
  <2>2. "connecting" \in Steps /\ "connecting" \notin Role \cup {"up", "refused"}
    BY DEF Steps, Role
  <2>3. Hold("connecting", s)'
    BY <2>1, <2>2 DEF Hold
  <2>4. ASSUME NEW u \in Thread, NEW at \in Steps, pc[u] = At(at, s) PROVE FALSE
    <3>1. Hold(at, s)
      BY <2>4 DEF Turns
    <3> QED BY <2>1, <3>1 DEF Hold, Steps, Has
  <2> QED BY <2>1, <2>3, <2>4, AtIs, TurnsGoOn DEF Turn
<1>7. CASE OpenEnd(t)
  <2>1. PICK s \in Socket : s = pc[t].socket
    BY <1>7, OpenEndSteps
  <2>2. /\ UNCHANGED net /\ pc[t].at \in Role /\ Ends(t)
        /\ \A u \in Socket : u # s => ctx'[u] = ctx[u]
    BY <1>7, <2>1, OpenEndSteps
  <2>3. PICK role \in Role : pc[t] = At(role, s)
    BY <2>1, <2>2, CallIs DEF Shape
  <2>4. role \in Steps
    BY DEF Steps
  <2>5. Hold(role, s) /\ \A u \in Thread, other \in Steps : u # t /\ pc[u] = At(other, s) => Apart(role, other)
    BY <2>3, <2>4 DEF Turns
  <2>6. ASSUME NEW u \in Thread, NEW at \in Steps, u # t, pc[u] = At(at, s) PROVE FALSE
    <3>1. at \notin Role
      BY <2>5, <2>6 DEF Apart
    <3>2. pc[u].at = at /\ pc[u].socket = s /\ at # "idle"
      BY <2>6 DEF At, Steps, Role
    <3>3. Has(s)
      BY <3>1, <3>2 DEF Shape, Calls
    <3> QED BY <2>5, <3>3 DEF Hold, Has
  <2> QED BY <2>2, <2>6, IdleIsNoStep, TurnsGoOn DEF Ends
<1>8. CASE CloseEnd(t)
  <2>1. PICK s \in Socket : s = pc[t].socket
    BY <1>8, CloseEndSteps
  <2>2. /\ UNCHANGED net /\ Ends(t) /\ ctx'[s].state = ctx[s].state /\ Has(s)
        /\ \A u \in Socket : u # s => ctx'[u] = ctx[u]
    BY <1>8, <2>1, CloseEndSteps
  <2>3. \A u \in Socket, at \in Steps : Hold(at, u) => Hold(at, u)'
    BY <2>2 DEF Hold, Has
  <2> QED BY <2>2, <2>3, IdleIsNoStep, TurnsStay DEF Ends
<1>9. CASE EnumReset(t)
  <2>1. UNCHANGED <<net, ctx>> /\ Ends(t)
    BY <1>9, EnumResetSteps
  <2>2. \A u \in Socket, at \in Steps : Hold(at, u) => Hold(at, u)'
    BY <2>1 DEF Hold
  <2> QED BY <2>1, <2>2, IdleIsNoStep, TurnsStay DEF Ends
<1>10. CASE Rearm(t)
  <2>1. PICK s \in Socket : s = pc[t].socket
    BY <1>10, RearmSteps
  <2>2. /\ UNCHANGED net /\ Ends(t) /\ ctx'[s].state = ctx[s].state /\ Has(s)
        /\ \A u \in Socket : u # s => ctx'[u] = ctx[u]
    BY <1>10, <2>1, RearmSteps
  <2>3. \A u \in Socket, at \in Steps : Hold(at, u) => Hold(at, u)'
    BY <2>2 DEF Hold, Has
  <2> QED BY <2>2, <2>3, IdleIsNoStep, TurnsStay DEF Ends
<1>11. CASE ConnectCall(t)
  <2>1. PICK s \in Socket : s = pc[t].socket
    BY <1>11, ConnectCallSteps
  <2>2. PICK link \in {"pending", "up", "refused"} :
          /\ net'[s].link = link /\ net'[s].open = net[s].open
          /\ Ends(t) \/ (link \in {"up", "refused"} /\ Turn(t, link, s))
    BY <1>11, <2>1, ConnectCallSteps
  <2>3. UNCHANGED ctx /\ pc[t] = At("connecting", s) /\ \A u \in Socket : u # s => net'[u] = net[u]
    BY <1>11, <2>1, ConnectCallSteps, CallIs DEF Shape
  <2>4. "connecting" \in Steps
    BY DEF Steps
  <2>5. Hold("connecting", s) /\ \A u \in Thread, other \in Steps : u # t /\ pc[u] = At(other, s) => other # "connecting"
    BY <2>3, <2>4 DEF Turns, Apart
  <2>6. ASSUME NEW u \in Thread, NEW at \in Steps, u # t, pc[u] = At(at, s) PROVE Hold(at, s)'
    <3>1. Hold(at, s) /\ at # "connecting"
      BY <2>5, <2>6 DEF Turns
    <3> QED BY <2>2, <2>3, <3>1 DEF Hold
  <2>7. link \in {"up", "refused"} => Hold(link, s)' /\ link # "connecting" /\ link \notin Role
    BY <2>2 DEF Hold, Role
  <2>8. ASSUME NEW x \in Socket, NEW at \in Steps, pc'[t] = At(at, x)
        PROVE  /\ x = s /\ Hold(at, s)'
               /\ \A u \in Thread, other \in Steps : u # t /\ pc[u] = At(other, s) => Apart(at, other)
    <3>1. link \in {"up", "refused"} /\ Turn(t, link, s)
      BY <2>2, <2>8, IdleIsNoStep DEF Ends
    <3>2. at = link /\ x = s
      BY ZenonT(30), <2>8, <3>1, AtIs DEF Turn
    <3> QED BY <2>7, <3>1, <3>2 DEF Apart
  <2>9. \A u \in Thread : u # t => pc'[u] = pc[u]
    BY <2>2 DEF Ends, Turn
  <2> QED BY <2>3, <2>6, <2>8, <2>9, TurnsGoOn
<1>12. CASE ConnectEnd(t)
  <2>1. PICK s \in Socket : s = pc[t].socket
    BY <1>12, ConnectEndSteps
  <2>2. /\ UNCHANGED net /\ Ends(t) /\ Has(s) /\ pc[t].at \in {"up", "refused"}
        /\ \A u \in Socket : u # s => ctx'[u] = ctx[u]
    BY <1>12, <2>1, ConnectEndSteps
  <2>3. PICK at \in {"up", "refused"} : pc[t] = At(at, s)
    BY <2>1, <2>2, CallIs DEF Shape
  <2>4. net[s].link # "none"
    BY <2>3 DEF Turns, Steps, Hold
  <2>5. \A u \in Socket, other \in Steps : Hold(other, u) => Hold(other, u)'
    BY <2>2, <2>4 DEF Hold, Has
  <2> QED BY <2>2, <2>5, IdleIsNoStep, TurnsStay DEF Ends
<1> QED BY <1>1, <1>2, <1>3, <1>4, <1>5, <1>6, <1>7, <1>8, <1>9, <1>10, <1>11, <1>12 DEF Program

\* The network and the worker: complete_connect writes the state of a context only after the
\* connection was settled, so never under a connect that is being made.
LEMMA OthersKeepTurns ==
  ASSUME Shape, Turns, Truths, Network \/ Worker \/ UNCHANGED vars
  PROVE  Turns'
<1>1. ASSUME UNCHANGED <<net, ctx, pc>> PROVE Turns'
  BY <1>1, TurnsStay DEF Hold
<1>2. CASE Network
  <2>1. /\ UNCHANGED <<ctx, pc>>
        /\ \A s \in Socket : /\ net'[s].open = net[s].open
                             /\ net[s].link = "none" => net'[s].link = "none"
                             /\ net[s].link # "none" => net'[s].link # "none"
    BY <1>2, NetworkSteps
  <2>2. \A u \in Socket, at \in Steps : Hold(at, u) => Hold(at, u)'
    BY <2>1 DEF Hold
  <2> QED BY <2>1, <2>2, TurnsStay
<1>3. ASSUME NEW s \in Socket, Complete(s) PROVE Turns'
  <2>1. /\ UNCHANGED <<net, pc>> /\ s \in worker.write \cup worker.except /\ worker.at = "look"
        /\ \A u \in Socket : u # s => ctx'[u] = ctx[u]
    BY <1>3, CompleteSteps
  <2>2. ~(net[s].open /\ net[s].link = "none") /\ Has(s)
    BY <2>1 DEF Truths, Settled, Shape, Looks
  <2>3. \A u \in Socket, at \in Steps : Hold(at, u) => Hold(at, u)'
    BY <2>1, <2>2 DEF Hold, Has
  <2> QED BY <2>1, <2>3, TurnsStay
<1>4. ASSUME NEW s \in Socket, Mark(s) PROVE Turns'
  <2>1. /\ UNCHANGED <<net, pc>> /\ Has(s) /\ ctx'[s].state = ctx[s].state
        /\ \A u \in Socket : u # s => ctx'[u] = ctx[u]
    BY <1>4, MarkSteps
  <2>2. \A u \in Socket, at \in Steps : Hold(at, u) => Hold(at, u)'
    BY <2>1 DEF Hold, Has
  <2> QED BY <2>1, <2>2, TurnsStay
<1>5. CASE Worker
  BY <1>1, <1>3, <1>4, <1>5, WatchSteps, PollSteps, RecopySteps, AgainSteps, ReadSteps, SendSteps DEF Worker
<1>6. CASE UNCHANGED vars
  BY <1>1, <1>6 DEF vars
<1> QED BY <1>2, <1>5, <1>6
-----------------------------------------------------------------------------
\* The outcomes that are kept are outcomes.
LEMMA FailedType ==
  ASSUME Shape
  PROVE  /\ \A s \in Socket : Has(s) => ctx[s].failed \in BOOLEAN
         /\ \A s \in DOMAIN worker.work : s \in Socket /\ Has(s) /\ worker.work[s].failed \in BOOLEAN
         /\ \A s \in Socket : Refused(s) \in BOOLEAN
<1>1. \A s \in Socket : Has(s) => ctx[s].failed \in BOOLEAN
  BY HasContext DEF Shape, ContextType
<1>2. worker.work \in WorkType
  BY DEF Shape, EventsTypeOK, WorkerType
<1>3. \A s \in DOMAIN worker.work : worker.work[s] \in CopyType /\ s \in Socket
  BY <1>2, WorkHas
<1>4. \A s \in DOMAIN worker.work : worker.work[s].failed \in BOOLEAN /\ s \in Socket
  BY <1>3 DEF CopyType
<1> QED BY <1>1, <1>4 DEF Shape, Looks, Refused

\* The parts of Truths: what the contexts say, what the program believes, what
\* the worker has found out and what the server's select has found.
Recording   == \A s \in Socket : Has(s) /\ "CONNECT" \in ctx[s].events => Settled(s, ctx[s].failed)
Believing   == \A s \in Socket : belief[s] # "none" => Has(s) /\ Settled(s, belief[s] = "refused")
FindingOut  == \A s \in Socket : s \in DOMAIN worker.work /\ "CONNECT" \in worker.work[s].events => Settled(s, worker.work[s].failed)
Selecting   == \A s \in Socket : worker.at \in {"copy", "look", "send"} =>
                 /\ s \in worker.write => Settled(s, FALSE)
                 /\ s \in worker.except => Settled(s, TRUE)

\* Truths is its parts.
LEMMA TruthsParts == Truths <=> Recording /\ Believing /\ FindingOut /\ Selecting
BY DEF Truths, Recording, Believing, FindingOut, Selecting

\* One lemma for each part: it goes on when what it speaks of does.
LEMMA RecordingGoesOn ==
  ASSUME Shape, Turns, Next, ~Reuses, Recording,
         \A s \in Socket : Has(s)' /\ "CONNECT" \in ctx'[s].events =>
           /\ Has(s)
           /\ \/ "CONNECT" \in ctx[s].events /\ ctx'[s].failed = ctx[s].failed
              \/ ctx'[s].failed \in BOOLEAN /\ Settled(s, ctx'[s].failed)
  PROVE  Recording'
<1> SUFFICES ASSUME NEW s \in Socket, Has(s)', "CONNECT" \in ctx'[s].events
             PROVE  Settled(s, ctx[s].failed)'
  BY DEF Recording
<1>1. PICK failed \in BOOLEAN : Has(s) /\ ctx'[s].failed = failed /\ Settled(s, failed)
  BY FailedType DEF Recording
<1>2. Settled(s, failed)'
  BY <1>1, SettledStays
<1> QED BY <1>1, <1>2 DEF Settled

\* What the program believes goes on being so.
LEMMA BelievingGoesOn ==
  ASSUME Shape, Turns, Next, ~Reuses, Believing,
         \A s \in Socket : Has(s) => Has(s)',
         \A s \in Socket : belief'[s] # "none" =>
           \/ belief'[s] = belief[s]
           \/ Has(s) /\ Settled(s, belief'[s] = "refused")
  PROVE  Believing'
<1> SUFFICES ASSUME NEW s \in Socket, belief'[s] # "none"
             PROVE  Has(s)' /\ Settled(s, belief[s] = "refused")'
  BY DEF Believing
<1>1. Has(s) /\ Settled(s, belief'[s] = "refused")
  BY DEF Believing
<1>2. PICK failed \in BOOLEAN : failed = (belief'[s] = "refused")
  OBVIOUS
<1>3. Settled(s, failed)
  BY <1>1, <1>2
<1>4. Settled(s, failed)'
  BY <1>1, <1>3, SettledStays
<1> QED BY <1>1, <1>2, <1>4 DEF Settled

\* What the worker has found out goes on being so.
LEMMA FindingOutGoesOn ==
  ASSUME Shape, Turns, Next, ~Reuses, FindingOut,
         \A s \in Socket : s \in DOMAIN worker'.work /\ "CONNECT" \in worker'.work[s].events =>
           /\ s \in DOMAIN worker.work
           /\ \/ "CONNECT" \in worker.work[s].events /\ worker'.work[s].failed = worker.work[s].failed
              \/ worker'.work[s].failed \in BOOLEAN /\ Settled(s, worker'.work[s].failed)
  PROVE  FindingOut'
<1> SUFFICES ASSUME NEW s \in Socket, s \in DOMAIN worker'.work, "CONNECT" \in worker'.work[s].events
             PROVE  Settled(s, worker.work[s].failed)'
  BY DEF FindingOut
<1>1. PICK failed \in BOOLEAN : Has(s) /\ worker'.work[s].failed = failed /\ Settled(s, failed)
  BY FailedType DEF FindingOut
<1>2. Settled(s, failed)'
  BY <1>1, SettledStays
<1> QED BY <1>1, <1>2 DEF Settled

\* What the server's select has found goes on being so.
LEMMA SelectingGoesOn ==
  ASSUME Shape, Turns, Next, ~Reuses,
         \A s \in Socket : worker'.at \in {"copy", "look", "send"} =>
           /\ s \in worker'.write => Has(s) /\ Settled(s, FALSE)
           /\ s \in worker'.except => Has(s) /\ Settled(s, TRUE)
  PROVE  Selecting'
<1> SUFFICES ASSUME NEW s \in Socket, worker'.at \in {"copy", "look", "send"}
             PROVE  /\ s \in worker'.write => Settled(s, FALSE)'
                    /\ s \in worker'.except => Settled(s, TRUE)'
  BY DEF Selecting
<1> QED BY SettledStays

\* A step about the context of one socket, or about none, that leaves the worker alone.
LEMMA TruthsOfOne ==
  ASSUME Shape, Turns, Truths, Next, ~Reuses, UNCHANGED worker, NEW x \in Socket,
         \A u \in Socket : u # x => ctx'[u] = ctx[u] /\ belief'[u] = belief[u],
         Has(x) => Has(x)',
         Has(x)' /\ "CONNECT" \in ctx'[x].events =>
           Has(x) /\ "CONNECT" \in ctx[x].events /\ ctx'[x].failed = ctx[x].failed,
         belief'[x] # "none" => belief'[x] = belief[x] \/ (Has(x) /\ Settled(x, belief'[x] = "refused"))
  PROVE  Truths'
<1>1. Recording /\ Believing /\ FindingOut /\ Selecting
  BY TruthsParts
<1>2. Recording'
  BY <1>1, RecordingGoesOn DEF Has
<1>3. Believing'
  BY <1>1, BelievingGoesOn DEF Has
<1>4. FindingOut'
  BY <1>1, FindingOutGoesOn DEF FindingOut
<1>5. Selecting'
  BY <1>1, SelectingGoesOn DEF Selecting, Shape, Looks
<1> QED BY <1>2, <1>3, <1>4, <1>5 DEF Truths, Recording, Believing, FindingOut, Selecting

\* A step that changes neither what is recorded nor what the program believes.
LEMMA TruthsOfNone ==
  ASSUME Shape, Turns, Truths, Next, ~Reuses, UNCHANGED <<ctx, worker, belief>>
  PROVE  Truths'
<1>1. CASE \E x : x \in Socket
  BY <1>1, TruthsOfOne DEF Has
<1>2. CASE ~\E x : x \in Socket
  BY <1>2 DEF Truths
<1> QED BY <1>1, <1>2

\* The program: its steps leave the worker alone.
LEMMA ProgramKeepsTruths ==
  ASSUME Shape, Turns, Truths, ~Reuses, NEW t \in Thread, Program(t)
  PROVE  Truths'
<1>0. Next
  BY DEF Next
<1>1. ASSUME NEW s \in Socket, NEW role \in Roles, OpenCall(t, s, role) PROVE Truths'
  BY <1>0, <1>1, OpenCallSteps, TruthsOfNone
<1>2. ASSUME NEW s \in Socket, CloseCall(t, s) PROVE Truths'
  BY <1>0, <1>2, CloseCallSteps, TruthsOfNone
<1>3. ASSUME NEW s \in Socket, Select(t, s) PROVE Truths'
  <2>1. /\ UNCHANGED <<worker, belief>> /\ Has(s)' /\ ctx'[s].events = {}
        /\ \A u \in Socket : u # s => ctx'[u] = ctx[u]
    BY <1>3, SelectSteps
  <2> QED BY <1>0, <2>1, TruthsOfOne
<1>4. ASSUME NEW s \in Socket, EnumTake(t, s) PROVE Truths'
  <2>1. /\ UNCHANGED worker /\ Has(s) /\ Has(s)' /\ ctx'[s].events = {}
        /\ belief'[s] = (IF "CONNECT" \notin ctx[s].events THEN belief[s]
                         ELSE IF ctx[s].failed THEN "refused" ELSE "up")
        /\ \A u \in Socket : u # s => ctx'[u] = ctx[u] /\ belief'[u] = belief[u]
    BY <1>4, EnumTakeSteps
  <2>2. CASE "CONNECT" \notin ctx[s].events
    BY <1>0, <2>1, <2>2, TruthsOfOne
  <2>3. CASE "CONNECT" \in ctx[s].events
    <3>1. Settled(s, ctx[s].failed)
      BY <2>1, <2>3 DEF Truths
    <3>2. Settled(s, belief'[s] = "refused")
      BY <2>1, <2>3, <3>1 DEF Settled
    <3> QED BY <1>0, <2>1, <3>2, TruthsOfOne
  <2> QED BY <2>2, <2>3
<1>5. ASSUME NEW s \in Socket, RecvCall(t, s) \/ SendCall(t, s) \/ AcceptCall(t, s) PROVE Truths'
  BY <1>0, <1>5, HandleSteps, TruthsOfNone DEF Handles
<1>6. ASSUME NEW s \in Socket, ConnectBegin(t, s) PROVE Truths'
  <2>1. /\ UNCHANGED <<worker, belief>> /\ Has(s) /\ Has(s)' /\ ctx'[s].events = ctx[s].events /\ ctx'[s].failed = ctx[s].failed
        /\ \A u \in Socket : u # s => ctx'[u] = ctx[u]
    BY <1>6, ConnectBeginSteps
  <2> QED BY <1>0, <2>1, TruthsOfOne
<1>7. CASE OpenEnd(t)
  <2>1. PICK s \in Socket : s = pc[t].socket
    BY <1>7, OpenEndSteps
  <2>2. /\ UNCHANGED worker /\ Has(s)'
        /\ \A u \in Socket : u # s => ctx'[u] = ctx[u] /\ belief'[u] = belief[u]
    BY <1>7, <2>1, OpenEndSteps
  <2>3. \/ Has(s) /\ ctx'[s].events = ctx[s].events /\ ctx'[s].failed = ctx[s].failed /\ UNCHANGED belief
        \/ ctx'[s].events = {} /\ belief'[s] = "none"
    BY <1>7, <2>1, OpenEndSteps
  <2> QED BY <1>0, <2>2, <2>3, TruthsOfOne
<1>8. CASE CloseEnd(t) \/ Rearm(t) \/ ConnectEnd(t)
  <2>1. PICK s \in Socket : s = pc[t].socket
    BY <1>8, CloseEndSteps, RearmSteps, ConnectEndSteps
  <2>2. /\ UNCHANGED <<worker, belief>> /\ Has(s) /\ Has(s)' /\ ctx'[s].events = ctx[s].events /\ ctx'[s].failed = ctx[s].failed
        /\ \A u \in Socket : u # s => ctx'[u] = ctx[u]
    BY <1>8, <2>1, CloseEndSteps, RearmSteps, ConnectEndSteps
  <2> QED BY <1>0, <2>2, TruthsOfOne
<1>9. CASE EnumReset(t)
  BY <1>0, <1>9, EnumResetSteps, TruthsOfNone
<1>10. CASE ConnectCall(t)
  BY <1>0, <1>10, ConnectCallSteps, TruthsOfNone
<1> QED BY <1>1, <1>2, <1>3, <1>4, <1>5, <1>6, <1>7, <1>8, <1>9, <1>10 DEF Program

\* The worker, when the server's select never fails as a whole.
LEMMA WorkerKeepsTruths ==
  ASSUME Shape, Turns, Truths, ~Reuses, Backend = "zero-tier", Worker
  PROVE  Truths'
<1>0. Recording /\ Believing /\ FindingOut /\ Selecting /\ Next
  BY TruthsParts DEF Next
<1> SUFFICES Recording' /\ Believing' /\ FindingOut' /\ Selecting'
  BY DEF Truths, Recording, Believing, FindingOut, Selecting
<1>1. ASSUME UNCHANGED <<ctx, belief>> PROVE Recording' /\ Believing'
  BY <1>0, <1>1, RecordingGoesOn, BelievingGoesOn DEF Has
<1>2. \A s \in Socket : s \in worker.write \cup worker.except \cup DOMAIN worker.work => Has(s)
  BY DEF Shape, Looks
<1>3. ASSUME worker' = Resting PROVE FindingOut' /\ Selecting'
  BY <1>3 DEF Resting, FindingOut, Selecting
<1>4. CASE Watch
  <2>1. /\ UNCHANGED <<ctx, belief>> /\ worker'.at = "select"
        /\ \A s \in DOMAIN worker'.work : worker'.work[s].events = {}
    BY <1>4, WatchSteps
  <2> QED BY <1>1, <2>1 DEF FindingOut, Selecting
<1>5. CASE Poll
  <2>1. UNCHANGED <<net, ctx, belief>> /\ ~SelectFails
    BY <1>5, PollSteps DEF SelectFails
  <2>2. CASE worker' = Resting
    BY <1>1, <1>3, <2>1, <2>2
  <2>3. CASE /\ worker'.at = "copy" /\ worker'.work = worker.work
             /\ \A s \in worker'.write : Writable(s)
             /\ \A s \in worker'.except : Broken(s)
    <3>1. FindingOut'
      BY <1>0, <2>3, FindingOutGoesOn DEF FindingOut
    <3>2. Selecting'
      BY <2>1, <2>3 DEF Selecting, Settled, Writable, Broken
    <3> QED BY <1>1, <2>1, <3>1, <3>2
  <2> QED BY <1>5, <2>1, <2>2, <2>3, PollSteps
<1>6. CASE Recopy
  <2>1. /\ UNCHANGED <<ctx, belief>> /\ worker.at = "copy" /\ worker'.write = worker.write /\ worker'.except = worker.except
        /\ \A s \in DOMAIN worker'.work : worker'.work[s].events = {}
    BY <1>6, RecopySteps
  <2>2. FindingOut'
    BY <2>1 DEF FindingOut
  <2>3. Selecting'
    BY <1>0, <1>2, <2>1, SelectingGoesOn DEF Selecting
  <2> QED BY <1>1, <2>1, <2>2, <2>3
<1>7. CASE Again
  BY <1>1, <1>3, <1>7, AgainSteps
<1>8. ASSUME NEW s \in Socket, Read(s) PROVE Recording' /\ Believing' /\ FindingOut' /\ Selecting'
  <2>1. /\ UNCHANGED <<ctx, belief>> /\ worker.at = "look" /\ worker'.write = worker.write /\ worker'.except = worker.except
        /\ DOMAIN worker'.work = DOMAIN worker.work
        /\ \A u \in DOMAIN worker.work :
              /\ "CONNECT" \in worker'.work[u].events <=> "CONNECT" \in worker.work[u].events
              /\ worker'.work[u].failed = worker.work[u].failed
    BY <1>8, ReadSteps
  <2>2. FindingOut'
    BY <1>0, <2>1, FindingOutGoesOn
  <2>3. Selecting'
    BY <1>0, <1>2, <2>1, SelectingGoesOn DEF Selecting
  <2> QED BY <1>1, <2>1, <2>2, <2>3
<1>9. ASSUME NEW s \in Socket, Complete(s) PROVE Recording' /\ Believing' /\ FindingOut' /\ Selecting'
  <2>1. /\ UNCHANGED belief /\ worker.at = "look" /\ worker'.at = "look" /\ s \in worker.write \cup worker.except
        /\ worker'.write \subseteq worker.write /\ worker'.except \subseteq worker.except
        /\ \A u \in Socket : u # s => ctx'[u] = ctx[u]
        /\ ctx'[s].events = ctx[s].events /\ ctx'[s].failed = ctx[s].failed
        /\ Has(s) => Has(s)'
        /\ DOMAIN worker'.work = DOMAIN worker.work
        /\ \A u \in DOMAIN worker.work : u # s => worker'.work[u] = worker.work[u]
        /\ s \in DOMAIN worker.work /\ "CONNECT" \in worker'.work[s].events =>
              \/ "CONNECT" \in worker.work[s].events /\ worker'.work[s].failed = worker.work[s].failed
              \/ worker'.work[s].failed = Refused(s)
    BY <1>9, CompleteSteps
  <2>2. Has(s)
    BY <1>2, <2>1
  <2>3. Recording'
    BY <1>0, <2>1, <2>2, RecordingGoesOn DEF Has
  <2>4. Believing'
    BY <1>0, <2>1, <2>2, BelievingGoesOn DEF Has
  <2>5. Settled(s, Refused(s)) /\ Refused(s) \in BOOLEAN
    BY <1>0, <2>1 DEF Selecting, Settled, Refused
  <2>6. FindingOut'
    <3>1. \A u \in Socket : u \in DOMAIN worker'.work /\ "CONNECT" \in worker'.work[u].events =>
            /\ u \in DOMAIN worker.work
            /\ \/ "CONNECT" \in worker.work[u].events /\ worker'.work[u].failed = worker.work[u].failed
               \/ worker'.work[u].failed \in BOOLEAN /\ Settled(u, worker'.work[u].failed)
      BY <2>1, <2>5
    <3> QED BY <1>0, <3>1, FindingOutGoesOn
  <2>7. Selecting'
    BY <1>0, <1>2, <2>1, SelectingGoesOn DEF Selecting
  <2> QED BY <2>3, <2>4, <2>6, <2>7
<1>10. ASSUME NEW s \in Socket, Mark(s) PROVE Recording' /\ Believing' /\ FindingOut' /\ Selecting'
  <2>1. /\ UNCHANGED belief /\ worker.at = "look" /\ worker'.at = "send"
        /\ worker'.work = worker.work /\ worker'.write = worker.write /\ worker'.except = worker.except
        /\ s \in DOMAIN worker.work
        /\ \A u \in Socket : u # s => ctx'[u] = ctx[u]
        /\ ctx'[s].events = ctx[s].events \cup worker.work[s].events
        /\ ctx'[s].failed = (IF "CONNECT" \in worker.work[s].events THEN worker.work[s].failed ELSE ctx[s].failed)
        /\ Has(s) /\ Has(s)'
    BY <1>10, MarkSteps
  <2>2. Recording'
    <3>1. worker.work[s].failed \in BOOLEAN
      BY <2>1, FailedType
    <3>2. "CONNECT" \in worker.work[s].events => Settled(s, worker.work[s].failed)
      BY <1>0, <2>1 DEF FindingOut
    <3> QED BY <1>0, <2>1, <3>1, <3>2, RecordingGoesOn DEF Has
  <2>3. Believing'
    BY <1>0, <2>1, BelievingGoesOn DEF Has
  <2>4. FindingOut'
    BY <1>0, <2>1, FindingOutGoesOn
  <2>5. Selecting'
    BY <1>0, <1>2, <2>1, SelectingGoesOn DEF Selecting
  <2> QED BY <2>2, <2>3, <2>4, <2>5
<1>11. ASSUME NEW s \in Socket, Send(s) PROVE Recording' /\ Believing' /\ FindingOut' /\ Selecting'
  <2>1. /\ UNCHANGED ctx /\ worker.at = "send" /\ worker'.write = worker.write /\ worker'.except = worker.except
        /\ DOMAIN worker'.work = DOMAIN worker.work \ {s} /\ s \in DOMAIN worker.work /\ Has(s)
        /\ \A u \in DOMAIN worker.work : u # s => worker'.work[u] = worker.work[u]
        /\ \A u \in Socket : u # s => belief'[u] = belief[u]
        /\ \/ belief'[s] = belief[s]
           \/ /\ "CONNECT" \in worker.work[s].events
              /\ belief'[s] = IF worker.work[s].failed THEN "refused" ELSE "up"
    BY <1>11, SendSteps
  <2>2. Recording'
    BY <1>0, <2>1, RecordingGoesOn DEF Has
  <2>3. Believing'
    <3>1. "CONNECT" \in worker.work[s].events => Settled(s, worker.work[s].failed)
      BY <1>0, <2>1 DEF FindingOut
    <3>2. belief'[s] = belief[s] \/ Settled(s, belief'[s] = "refused")
      BY <2>1, <3>1 DEF Settled
    <3> QED BY <1>0, <2>1, <3>2, BelievingGoesOn DEF Has
  <2>4. FindingOut'
    BY <1>0, <2>1, FindingOutGoesOn
  <2>5. Selecting'
    BY <1>0, <1>2, <2>1, SelectingGoesOn DEF Selecting
  <2> QED BY <2>2, <2>3, <2>4, <2>5
<1> QED BY <1>4, <1>5, <1>6, <1>7, <1>8, <1>9, <1>10, <1>11 DEF Worker

\* ConnectTruth over zero-tier, as long as no handle is given out again: FD_CONNECT says that a
\* connect succeeded or failed only when it did, however the copies of the worker, the calls of the
\* threads and the network interleave.  Both hypotheses are needed: the select of ws2_32 fails as a
\* whole over one closed handle and leaves its sets full, and what was found out about a socket is
\* recorded for the next one with the same handle.
THEOREM EventsConnectTruth ==
  Backend = "zero-tier" /\ ~Reuses => (Spec => []ConnectTruth)
<1> SUFFICES ASSUME Backend = "zero-tier", ~Reuses PROVE Spec => []ConnectTruth
  OBVIOUS
<1>1. Init => Turns /\ Truths
  <2> SUFFICES ASSUME Init PROVE Turns /\ Truths
    OBVIOUS
  <2>1. Turns
    BY IdleIsNoStep DEF Init, Turns
  <2>2. Truths
    BY DEF Init, Truths, Has, Resting
  <2> QED BY <2>1, <2>2
<1>2. Shape /\ Turns /\ Truths /\ [Next]_vars => Turns' /\ Truths'
  <2> SUFFICES ASSUME Shape, Turns, Truths, [Next]_vars PROVE Turns' /\ Truths'
    OBVIOUS
  <2>1. ASSUME NEW t \in Thread, Program(t) PROVE Turns' /\ Truths'
    BY <2>1, ProgramKeepsTurns, ProgramKeepsTruths
  <2>2. CASE Network
    <3>1. Next /\ UNCHANGED <<ctx, worker, belief>>
      BY <2>2, NetworkSteps DEF Next
    <3> QED BY <2>2, <3>1, OthersKeepTurns, TruthsOfNone
  <2>3. CASE Worker
    BY <2>3, OthersKeepTurns, WorkerKeepsTruths
  <2>4. CASE UNCHANGED vars
    <3>1. Truths'
      BY <2>4 DEF vars, Truths, Settled, Has
    <3> QED BY <2>4, <3>1, OthersKeepTurns
  <2> QED BY <2>1, <2>2, <2>3, <2>4 DEF Next
<1>3. Truths => ConnectTruth
  <2> SUFFICES ASSUME Truths, NEW s \in Socket, net[s].open
               PROVE  /\ belief[s] = "up" => net[s].link \in {"up", "eof"}
                      /\ belief[s] = "refused" => net[s].link = "refused"
    BY DEF ConnectTruth
  <2>1. belief[s] # "none" => Settled(s, belief[s] = "refused")
    BY DEF Truths
  <2> QED BY <2>1 DEF Settled
<1> QED BY <1>1, <1>2, <1>3, EventsShape, PTL DEF Spec
=================================================================================
