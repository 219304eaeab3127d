----------------------------- MODULE SocketEvents -----------------------------
(***************************************************************************)
(* Notification of network events: WSAEventSelect, WSAAsyncSelect,         *)
(* WSAEnumNetworkEvents and the worker that stands in for the kernel       *)
(* (get_select_worker in wsock32-client-shared.cpp).                       *)
(*                                                                         *)
(* A process keeps one context per socket handle (socket_handle_info): the *)
(* events the program asked for, those it was notified of and has not      *)
(* reacted to ("io_flags"), and those WSAEnumNetworkEvents has yet to      *)
(* return ("event_flags").  The worker polls: it copies the contexts that  *)
(* lack a notification, asks the server which sockets are ready, copies    *)
(* the contexts again, looks at each ready socket, and then records and    *)
(* sends the notifications.  Each access to the table is atomic (a mutex); *)
(* between two of them the program's threads run.                          *)
(***************************************************************************)
EXTENDS Integers, FiniteSets

CONSTANTS
  Socket,       \* socket handles; the server gives a closed one out again
  Thread,       \* threads of the program
  Event,        \* event objects
  Window,       \* windows, each with the message it registers
  NoTarget,     \* neither
  NoContext,    \* a handle the process has no context for
  Roles,        \* what the program opens sockets for, a part of Role
  Interest,     \* the sets of events it asks for, per target
  Backend,      \* what the server runs on: "ws2_32" or "zero-tier"
  Disciplined,  \* does the program call recv only when it was told FD_READ?
  Registers,    \* does it register a socket more than once?
  Reuses,       \* does the server give a closed handle out again?
  MaxCount      \* bound: units of data, or connections, waiting in a socket

Role   == {"client", "listener", "peer"}
Flag   == {"READ", "WRITE", "ACCEPT", "CONNECT", "CLOSE"}
Target == Event \cup Window

ContextType == [closed : BOOLEAN, listening : BOOLEAN,
                state  : {"unconnected", "connecting", "connected", "accepted"},
                target : Target \cup {NoTarget}, watch : SUBSET Flag, io : SUBSET Flag,
                events : SUBSET Flag, failed : BOOLEAN]

ASSUME EventsAssumption ==
  /\ Roles \subseteq Role
  /\ Interest \in [Target -> SUBSET ((SUBSET Flag) \ {{}})]
  /\ Backend \in {"ws2_32", "zero-tier"}
  /\ Disciplined \in BOOLEAN /\ Registers \in BOOLEAN /\ Reuses \in BOOLEAN
  /\ MaxCount \in Nat \ {0}
  /\ NoTarget \notin Target
  /\ NoContext \notin Socket \cup ContextType

VARIABLES
  net,       \* the sockets as the server has them
  ctx,       \* socket_handle_info: the process's context of each handle
  signaled,  \* the event objects that are set
  pc,        \* the call each thread is in, and the socket it is about
  worker,    \* the select worker: where it is, its copies and its fd_sets
  told,      \* history: events of a socket the program knows of and has to handle
  belief     \* history: what FD_CONNECT told the program of a socket

vars == <<net, ctx, signaled, pc, worker, told, belief>>

Idle    == [at |-> "idle", socket |-> NoContext]
At(a, s) == [at |-> a, socket |-> s]

\* link: "none", "pending", "up", "refused", and "eof" once the peer has closed.
\* count: data that waits, or connections in the case of a listener.
Closed == [open |-> FALSE, link |-> "none", count |-> 0, full |-> FALSE]

Context(role) == [closed |-> FALSE, listening |-> FALSE,
                  state  |-> IF role = "peer" THEN "accepted" ELSE "unconnected",
                  target |-> NoTarget, watch |-> {}, io |-> {}, events |-> {},
                  failed |-> FALSE]

Has(s) == ctx[s] # NoContext

Resting == [at |-> "watch", work |-> <<>>, read |-> {}, write |-> {}, except |-> {},
            about |-> NoContext]

Init ==
  /\ net = [s \in Socket |-> Closed]
  /\ ctx = [s \in Socket |-> NoContext]
  /\ signaled = {}
  /\ pc = [t \in Thread |-> Idle]
  /\ worker = Resting
  /\ told = [s \in Socket |-> {}]
  /\ belief = [s \in Socket |-> "none"]

-----------------------------------------------------------------------------
\* socket, and listen for a listener.  The server hands out a handle ...
OpenCall(t, s, role) ==
  /\ pc[t] = Idle
  /\ ~net[s].open
  /\ Reuses \/ ~Has(s)
  /\ net' = [net EXCEPT ![s] = [Closed EXCEPT !.open = TRUE,
                                              !.link = IF role = "peer" THEN "up" ELSE "none"]]
  /\ pc' = [pc EXCEPT ![t] = At(role, s)]
  /\ UNCHANGED <<ctx, signaled, worker, told, belief>>

\* ... and insert keeps a context: a closed one is erased first, but emplace
\* leaves one that is there and not closed as it is.
OpenEnd(t) ==
  /\ pc[t].at \in Role
  /\ LET s    == pc[t].socket
         kept == Has(s) /\ ~ctx[s].closed
         new  == IF kept THEN ctx[s] ELSE Context(pc[t].at)
     IN /\ ctx' = [ctx EXCEPT ![s] = [new EXCEPT !.listening = @ \/ pc[t].at = "listener"]]
        /\ IF kept THEN UNCHANGED <<told, belief>>
           ELSE /\ told' = [told EXCEPT ![s] = {}]
                /\ belief' = [belief EXCEPT ![s] = "none"]
  /\ pc' = [pc EXCEPT ![t] = Idle]
  /\ UNCHANGED <<net, signaled, worker>>

\* closesocket: the server frees the handle ...
CloseCall(t, s) ==
  /\ pc[t] = Idle
  /\ net[s].open
  /\ Has(s)
  /\ \A u \in Thread : pc[u].socket # s
  /\ net' = [net EXCEPT ![s] = Closed]
  /\ pc' = [pc EXCEPT ![t] = At("closing", s)]
  /\ UNCHANGED <<ctx, signaled, worker, told, belief>>

\* socket_handle_info::close: the context stays, marked.
Shut(c) == [c EXCEPT !.closed = TRUE, !.io = {}, !.watch = {}]

\* ... and the process marks its context.
CloseEnd(t) ==
  /\ pc[t].at = "closing"
  /\ ctx' = [ctx EXCEPT ![pc[t].socket] = Shut(@)]
  /\ pc' = [pc EXCEPT ![t] = Idle]
  /\ UNCHANGED <<net, signaled, worker, told, belief>>

\* Mutant of Registered: notifications made before still count.
RegisteredAgain(c, x, w) == [c EXCEPT !.target = x, !.watch = w, !.events = {}, !.failed = FALSE]

\* A context with a new target and interest: nothing is recorded, all is armed.
Registered(c, x, w) ==
  [c EXCEPT !.target = x, !.watch = w, !.io = {}, !.events = {}, !.failed = FALSE]

\* set_window_target, set_event_target (and clear_target when nothing is asked
\* for): what was recorded for the socket so far is forgotten.
Select(t, s) ==
  /\ pc[t] = Idle
  /\ net[s].open
  /\ Has(s) /\ ~ctx[s].closed
  /\ Registers \/ ctx[s].target = NoTarget
  /\ \E x \in Target \cup {NoTarget} : \E w \in IF x = NoTarget THEN {{}} ELSE Interest[x] :
       /\ ctx' = [ctx EXCEPT ![s] = Registered(@, x, w)]
  /\ told' = [told EXCEPT ![s] = {}]
  /\ UNCHANGED <<net, signaled, pc, worker, belief>>

\* The program waits for the event object of a socket and then calls
\* WSAEnumNetworkEvents, which takes what is recorded (consume_event_flags) ...
EnumTake(t, s) ==
  /\ pc[t] = Idle
  /\ Has(s) /\ ~ctx[s].closed
  /\ ctx[s].target \in signaled
  /\ told' = [told EXCEPT ![s] = @ \cup ctx[s].events]
  /\ belief' = [belief EXCEPT ![s] =
       IF "CONNECT" \notin ctx[s].events THEN @
       ELSE IF ctx[s].failed THEN "refused" ELSE "up"]
  /\ ctx' = [ctx EXCEPT ![s].events = {}, ![s].failed = FALSE]
  /\ pc' = [pc EXCEPT ![t] = At("enumerating", s)]
  /\ UNCHANGED <<net, signaled, worker>>

\* ... and resets the event object, after the mutex was released.
EnumReset(t) ==
  /\ pc[t].at = "enumerating"
  /\ signaled' = signaled \ {ctx[pc[t].socket].target}
  /\ pc' = [pc EXCEPT ![t] = Idle]
  /\ UNCHANGED <<net, ctx, worker, told, belief>>

\* recvfrom on a non-blocking socket: the server takes what is there, if
\* anything is ...
RecvCall(t, s) ==
  /\ pc[t] = Idle
  /\ net[s].open /\ Has(s) /\ ~ctx[s].closed
  /\ "READ" \in ctx[s].watch
  /\ Disciplined => "READ" \in told[s]
  /\ \/ net[s].count = 0 /\ UNCHANGED net
     \/ \E n \in 1 .. net[s].count : net' = [net EXCEPT ![s].count = @ - n]
  /\ told' = [told EXCEPT ![s] = @ \ {"READ"}]
  /\ pc' = [pc EXCEPT ![t] = At("received", s)]
  /\ UNCHANGED <<ctx, signaled, worker, belief>>

\* sendto on a connection the program knows of: there is room and the data may
\* fill it, or there is none (WOULDBLOCK).
SendCall(t, s) ==
  /\ pc[t] = Idle
  /\ net[s].open /\ Has(s) /\ ~ctx[s].closed
  /\ "WRITE" \in ctx[s].watch
  /\ net[s].link = "up" /\ ctx[s].state \in {"connected", "accepted"}
  /\ IF net[s].full
     THEN /\ told' = [told EXCEPT ![s] = @ \ {"WRITE"}]
          /\ pc' = [pc EXCEPT ![t] = At("blocked", s)]
          /\ UNCHANGED net
     ELSE net' = [net EXCEPT ![s].full = TRUE] /\ UNCHANGED <<told, pc>>
  /\ UNCHANGED <<ctx, signaled, worker, belief>>

\* accept: a connection is taken from the listener, for which OpenCall and
\* OpenEnd of a "peer" stand, or there is none.
AcceptCall(t, s) ==
  /\ pc[t] = Idle
  /\ net[s].open /\ Has(s) /\ ctx[s].listening
  /\ "ACCEPT" \in told[s]
  /\ net' = [net EXCEPT ![s].count = IF @ > 0 THEN @ - 1 ELSE 0]
  /\ told' = [told EXCEPT ![s] = @ \ {"ACCEPT"}]
  /\ pc' = [pc EXCEPT ![t] = At("accepted", s)]
  /\ UNCHANGED <<ctx, signaled, worker, belief>>

\* What a call clears so that the program is notified again (clear_io_flags).
Rearms == [received |-> "READ", blocked |-> "WRITE", accepted |-> "ACCEPT"]

\* Mutant of Rearm: the flag is cleared only when more is known to be there.
RearmOnData(t) ==
  /\ pc[t].at \in DOMAIN Rearms
  /\ ctx' = [ctx EXCEPT ![pc[t].socket].io =
               IF net[pc[t].socket].count > 0 THEN @ \ {Rearms[pc[t].at]} ELSE @]
  /\ pc' = [pc EXCEPT ![t] = Idle]
  /\ UNCHANGED <<net, signaled, worker, told, belief>>

\* The end of recvfrom, of a sendto that would have blocked, and of accept.
Rearm(t) ==
  /\ pc[t].at \in DOMAIN Rearms
  /\ ctx' = [ctx EXCEPT ![pc[t].socket].io = @ \ {Rearms[pc[t].at]}]
  /\ pc' = [pc EXCEPT ![t] = Idle]
  /\ UNCHANGED <<net, signaled, worker, told, belief>>

\* connect: the context says "connecting" before the server is asked ...
ConnectBegin(t, s) ==
  /\ pc[t] = Idle
  /\ net[s].open /\ net[s].link = "none"
  /\ Has(s) /\ ~ctx[s].closed /\ ~ctx[s].listening /\ ctx[s].state = "unconnected"
  /\ ctx' = [ctx EXCEPT ![s].state = "connecting"]
  /\ pc' = [pc EXCEPT ![t] = At("connecting", s)]
  /\ UNCHANGED <<net, signaled, worker, told, belief>>

\* ... which starts to connect, or is done at once, one way or the other ...
ConnectCall(t) ==
  /\ pc[t].at = "connecting"
  /\ LET s == pc[t].socket
     IN \E link \in {"pending", "up", "refused"} :
          /\ net' = [net EXCEPT ![s].link = link]
          /\ pc' = [pc EXCEPT ![t] = IF link = "pending" THEN Idle ELSE At(link, s)]
  /\ UNCHANGED <<ctx, signaled, worker, told, belief>>

\* ... and if it was done, the context says so.
ConnectEnd(t) ==
  /\ pc[t].at \in {"up", "refused"}
  /\ ctx' = [ctx EXCEPT ![pc[t].socket].state =
               IF pc[t].at = "up" THEN "connected" ELSE "unconnected"]
  /\ pc' = [pc EXCEPT ![t] = Idle]
  /\ UNCHANGED <<net, signaled, worker, told, belief>>

-----------------------------------------------------------------------------
\* What the network does.
Arrive(s) ==
  /\ net[s].open
  /\ net[s].count < MaxCount
  /\ net[s].link = "up" \/ (Has(s) /\ ctx[s].listening)
  /\ net' = [net EXCEPT ![s].count = @ + 1]
  /\ UNCHANGED <<ctx, signaled, pc, worker, told, belief>>

Room(s) ==
  /\ net[s].full
  /\ net' = [net EXCEPT ![s].full = FALSE]
  /\ UNCHANGED <<ctx, signaled, pc, worker, told, belief>>

PeerCloses(s) ==
  /\ net[s].link = "up"
  /\ net' = [net EXCEPT ![s].link = "eof"]
  /\ UNCHANGED <<ctx, signaled, pc, worker, told, belief>>

Outcome(s) ==
  /\ net[s].link = "pending"
  /\ \E link \in {"up", "refused"} : net' = [net EXCEPT ![s].link = link]
  /\ UNCHANGED <<ctx, signaled, pc, worker, told, belief>>

-----------------------------------------------------------------------------
\* get_sockets_to_watch: the contexts that lack a notification, copied without
\* the events recorded, so that fresh ones can be raised.
ToWatch == {s \in Socket : Has(s) /\ ctx[s].watch # ctx[s].io /\ ctx[s].target # NoTarget}

Copies == [s \in ToWatch |->
             [listening |-> ctx[s].listening, state |-> ctx[s].state,
              watch |-> ctx[s].watch, io |-> ctx[s].io, target |-> ctx[s].target,
              events |-> {}, failed |-> FALSE]]

\* Does the copy lack a notification of f?
Lacks(w, f) == f \in w.watch /\ f \notin w.io

Accepting(w)   == w.listening /\ Lacks(w, "ACCEPT")
Established(w) == w.state \in {"connected", "accepted"}

AwaitsConnect(w) == w.state \in {"connecting", "connected"} /\ Lacks(w, "CONNECT")

\* The fd_sets.  (The branch for closed sockets is never taken: close leaves
\* nothing watched, and none of its sockets is in "closed_sockets".)
Watch ==
  /\ worker.at = "watch"
  /\ ToWatch # {}
  /\ LET w == Copies
         quiet == {s \in DOMAIN w : ~Accepting(w[s])}
     IN worker' = [at |-> "select", work |-> w,
          read   |-> (DOMAIN w \ quiet)
                     \cup {s \in quiet : \/ Established(w[s]) /\ Lacks(w[s], "CLOSE")
                                         \/ Lacks(w[s], "READ")},
          write  |-> {s \in quiet : AwaitsConnect(w[s]) \/ Lacks(w[s], "WRITE")},
          except |-> {s \in quiet : AwaitsConnect(w[s])},
          about  |-> NoContext]
  /\ UNCHANGED <<net, ctx, signaled, pc, told, belief>>

\* What the backends' select finds.
Readable(s) == net[s].open /\ (net[s].count > 0 \/ net[s].link = "eof")
Writable(s) == net[s].open /\ net[s].link \in {"up", "eof"} /\ ~net[s].full
Broken(s)   == net[s].open /\ net[s].link = "refused"

\* ws2_32 fails when a handle is not a socket (WSAENOTSOCK) or there is none
\* (WSAEINVAL); the zero-tier backend skips handles it does not know.
SelectFails ==
  LET asked == worker.read \cup worker.write \cup worker.except
  IN Backend = "ws2_32" /\ (asked = {} \/ \E s \in asked : ~net[s].open)

\* siege_select with a zero timeout.  When the server's select fails the sets
\* are left as they are and the worker goes on, because it only compares the
\* result with 0.
Poll ==
  /\ worker.at = "select"
  /\ LET r == {s \in worker.read   : Readable(s)}
         w == {s \in worker.write  : Writable(s)}
         x == {s \in worker.except : Broken(s)}
     IN worker' = IF SelectFails THEN [worker EXCEPT !.at = "copy"]
                  ELSE IF r \cup w \cup x = {} THEN Resting
                  ELSE [worker EXCEPT !.at = "copy", !.read = r, !.write = w, !.except = x]
  /\ UNCHANGED <<net, ctx, signaled, pc, told, belief>>

\* "the flags could have been reset in-between, however unlikely"
Recopy ==
  /\ worker.at = "copy"
  /\ worker' = [worker EXCEPT !.at = "look", !.work = Copies]
  /\ UNCHANGED <<net, ctx, signaled, pc, told, belief>>

Raise(w, f) == [w EXCEPT !.events = @ \cup {f}]

\* Mutant of LookRead: a readable socket without data is not at its end.
LookReadData(w, s) ==
  IF Accepting(w) THEN Raise(w, "ACCEPT")
  ELSE IF net[s].open /\ net[s].count > 0 /\ Lacks(w, "READ") THEN Raise(w, "READ") ELSE w

\* A socket of the read set: FIONREAD tells data from the end of it.
LookRead(w, s) ==
  IF Accepting(w) THEN Raise(w, "ACCEPT")
  ELSE IF ~net[s].open THEN w
  ELSE IF net[s].count > 0
       THEN IF Lacks(w, "READ") THEN Raise(w, "READ") ELSE w
       ELSE IF Lacks(w, "CLOSE") THEN Raise(w, "CLOSE") ELSE w

Read(s) ==
  /\ worker.at = "look"
  /\ s \in worker.read
  /\ worker' = [worker EXCEPT !.read = @ \ {s},
       !.work = [u \in DOMAIN @ |-> IF u = s THEN LookRead(@[s], s) ELSE @[u]]]
  /\ UNCHANGED <<net, ctx, signaled, pc, told, belief>>

\* Mutant of Refused: SO_ERROR is not asked for.
NeverRefused(s) == FALSE

\* SO_ERROR of the socket; 0 when the server does not know the socket any more.
Refused(s) == net[s].open /\ net[s].link = "refused"

\* complete_connect: the outcome of the connection, also kept in the context.
LookConnect(w, s) ==
  IF AwaitsConnect(w) /\ "CONNECT" \notin w.events
  THEN [Raise(w, "CONNECT") EXCEPT !.failed = Refused(s)] ELSE w

\* A socket of the write set, and then one of the except set.
Complete(s) ==
  /\ worker.at = "look"
  /\ worker.read = {}
  /\ s \in (IF worker.write # {} THEN worker.write ELSE worker.except)
  /\ LET known == s \in DOMAIN worker.work
         old == worker.work[s]
         new == LookConnect(old, s)
     IN /\ worker' = [worker EXCEPT
             !.write  = @ \ {s},
             !.except = IF s \in worker.write THEN @ ELSE @ \ {s},
             !.work = IF ~known THEN @
                      ELSE [@ EXCEPT ![s] = IF s \in worker.write /\ Lacks(new, "WRITE")
                                            THEN Raise(new, "WRITE") ELSE new]]
        /\ ctx' = IF known /\ new # old /\ Has(s)
                  THEN [ctx EXCEPT ![s].state =
                          IF new.failed THEN "unconnected"
                          ELSE IF old.state = "connecting" THEN "connected" ELSE @]
                  ELSE ctx
  /\ UNCHANGED <<net, signaled, pc, told, belief>>

Raised == {s \in DOMAIN worker.work : worker.work[s].events # {}}

\* set_io_flags: a context with the events of w recorded.
Recorded(c, w) ==
  [c EXCEPT !.io = @ \cup w.events, !.events = @ \cup w.events,
            !.failed = IF "CONNECT" \in w.events THEN w.failed ELSE @]

\* The events are recorded in whatever context the handle has now ...
Mark(s) ==
  /\ worker.at = "look"
  /\ worker.read \cup worker.write \cup worker.except = {}
  /\ s \in Raised
  /\ ctx' = [ctx EXCEPT ![s] = Recorded(@, worker.work[s])]
  /\ worker' = [worker EXCEPT !.at = "send", !.about = s]
  /\ UNCHANGED <<net, signaled, pc, told, belief>>

\* ... and SetEvent or PostMessage to the target that was copied.
Send(s) ==
  /\ worker.at = "send"
  /\ worker.about = s
  /\ LET w == worker.work[s]
     IN /\ IF w.target \in Event
           THEN signaled' = signaled \cup {w.target} /\ UNCHANGED <<told, belief>>
           ELSE /\ told' = [told EXCEPT ![s] =
                     IF ctx[s].target = w.target THEN @ \cup w.events ELSE @]
                /\ belief' = [belief EXCEPT ![s] =
                     IF ctx[s].target # w.target \/ "CONNECT" \notin w.events THEN @
                     ELSE IF w.failed THEN "refused" ELSE "up"]
                /\ UNCHANGED signaled
        /\ worker' = [worker EXCEPT !.at = "look", !.about = NoContext,
                        !.work = [u \in DOMAIN @ \ {s} |-> @[u]]]
  /\ UNCHANGED <<net, ctx, pc>>

\* The next cycle.
Again ==
  /\ worker.at = "look"
  /\ worker.read \cup worker.write \cup worker.except = {}
  /\ Raised = {}
  /\ worker' = Resting
  /\ UNCHANGED <<net, ctx, signaled, pc, told, belief>>

-----------------------------------------------------------------------------
Program(t) ==
  \/ \E s \in Socket : \/ \E role \in Roles : OpenCall(t, s, role)
                       \/ CloseCall(t, s) \/ Select(t, s) \/ EnumTake(t, s)
                       \/ RecvCall(t, s) \/ SendCall(t, s) \/ AcceptCall(t, s)
                       \/ ConnectBegin(t, s)
  \/ OpenEnd(t) \/ CloseEnd(t) \/ EnumReset(t) \/ Rearm(t)
  \/ ConnectCall(t) \/ ConnectEnd(t)

Network == \E s \in Socket : Arrive(s) \/ Room(s) \/ PeerCloses(s) \/ Outcome(s)

Worker ==
  \/ Watch \/ Poll \/ Recopy \/ Again
  \/ \E s \in Socket : Read(s) \/ Complete(s) \/ Mark(s) \/ Send(s)

Next == (\E t \in Thread : Program(t)) \/ Network \/ Worker

\* The worker is a thread that loops; calls end; a program that waits for an
\* event object does get to enumerate once it is set, and keeps getting to.
Fairness ==
  /\ WF_vars(Worker)
  /\ \A s \in Socket : SF_vars(\E t \in Thread : EnumTake(t, s))
  /\ \A t \in Thread : /\ WF_vars(OpenEnd(t)) /\ WF_vars(CloseEnd(t))
                       /\ WF_vars(EnumReset(t)) /\ WF_vars(Rearm(t))
                       /\ WF_vars(ConnectCall(t)) /\ WF_vars(ConnectEnd(t))

Spec == Init /\ [][Next]_vars /\ Fairness
-----------------------------------------------------------------------------
Watched(s, f) == Has(s) /\ f \in ctx[s].watch

\* FD_CONNECT tells the truth: a program told that its socket is connected has
\* a connection (or had one the peer has closed), and one told that it failed
\* has none.
ConnectTruth ==
  \A s \in Socket : net[s].open =>
    /\ belief[s] = "up" => net[s].link \in {"up", "eof"}
    /\ belief[s] = "refused" => net[s].link = "refused"

\* A call is under way that ends with clearing the flag f of the socket s.
Reacting(s, f) ==
  \E t \in Thread, a \in DOMAIN Rearms : pc[t] = At(a, s) /\ Rearms[a] = f

\* A notification is held back (its flag is in io_flags) only while the program
\* has been notified and has not reacted, or is about to be, or while the call it
\* reacts with has yet to clear the flag: the worker never holds back what the
\* program was not told.
NothingHeldBack ==
  \A s \in Socket : Has(s) /\ ~ctx[s].closed =>
    \A f \in ctx[s].io :
      f \in told[s] \/ f \in ctx[s].events \/ Reacting(s, f)

\* What waits in a socket is announced: data to one watched for FD_READ, again
\* after each recv, and connections to a listener watched for FD_ACCEPT, again
\* after each accept.  No interleaving of the program with the worker loses it.
WaitingAnnounced ==
  \A s \in Socket, f \in {"READ", "ACCEPT"} :
    Watched(s, f) /\ net[s].count > 0 /\ (ctx[s].listening <=> f = "ACCEPT")
      ~> f \in told[s] \/ net[s].count = 0 \/ ~Watched(s, f)

\* What becomes of a connection is announced: its end once what came before it
\* was read, how a connect went that the program asked to be told of, and room
\* to send after a send that would have blocked.
ConnectionAnnounced ==
  \A s \in Socket :
    /\ Watched(s, "CLOSE") /\ net[s].link = "eof" /\ net[s].count = 0
         ~> "CLOSE" \in told[s] \/ ~Watched(s, "CLOSE")
    /\ Watched(s, "CONNECT") /\ net[s].link \in {"up", "refused"} /\ Has(s) /\ ctx[s].state = "connecting"
       /\ (\A t \in Thread : pc[t].socket # s)
         ~> belief[s] # "none" \/ ~Watched(s, "CONNECT")
    /\ Watched(s, "WRITE") /\ net[s].link = "up" /\ ~net[s].full
         ~> "WRITE" \in told[s] \/ net[s].full \/ net[s].link # "up" \/ ~Watched(s, "WRITE")
=============================================================================
