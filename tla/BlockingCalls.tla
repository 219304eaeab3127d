------------------------------ MODULE BlockingCalls ------------------------------
(***************************************************************************)
(* Blocking recv, send, accept and connect over a server that must not     *)
(* block (siege_recvfrom, siege_sendto, siege_accept, siege_connect,       *)
(* siege_ioctlsocket and siege_select in ws2_32-rpc-client.cpp, and        *)
(* temp_disable_virtual_blocking in wsock32-client-shared.cpp).            *)
(*                                                                         *)
(* The server has one thread for all processes, and its sockets are made   *)
(* non-blocking.  Whether a socket blocks is a flag of the client ("virtual*)
(* blocking"): a call that would have blocked polls select and is tried    *)
(* again.  This module is about one socket, and what the program's threads *)
(* and the overlapped worker do with it.                                   *)
(***************************************************************************)
EXTENDS Integers, FiniteSets

CONSTANTS
  Thread,    \* threads of the program
  Worker,    \* the overlapped worker
  Working,   \* is there overlapped work on the socket?
  Kinds,     \* calls the program makes: "recv", "send", "accept", "connect"
  Asks,      \* what it asks with FIONBIO: TRUE to block, FALSE not to
  MaxCount   \* bound: data (room, connections) that wait

Transfer == {"recv", "send", "accept"}
Caller   == IF Working THEN Thread \cup {Worker} ELSE Thread

ASSUME BlockingAssumption ==
  /\ Working \in BOOLEAN
  /\ Kinds \subseteq Transfer \cup {"connect"}
  /\ Asks \subseteq BOOLEAN
  /\ MaxCount \in Nat \ {0}
  /\ Worker \notin Thread

VARIABLES
  nonblocking, \* the server's socket
  virtual,     \* is_virtual_blocking
  state,       \* client_socket_state
  ready,       \* data, room or connections there are for a kind of call
  link,        \* the connection
  server,      \* the callers whose request the server is blocked in (none or one)
  pc,          \* where each caller is, in which call
  saved,       \* what temp_disable_virtual_blocking found
  asked,       \* history: what the program asked for last
  clashed,     \* history: the worker does not know what the program asked for last
  wrong        \* history: threads told WSAEWOULDBLOCK by a blocking socket

vars == <<nonblocking, virtual, state, ready, link, server, pc, saved, asked, clashed, wrong>>

Idle == [at |-> "idle", kind |-> "none"]

\* backend socket and accept: "non-blocking by default".
SocketMode == TRUE

Init ==
  /\ nonblocking = SocketMode
  /\ virtual = TRUE
  /\ state = "unconnected"
  /\ ready = [k \in Transfer |-> 0]
  /\ link = "none"
  /\ server = {}
  /\ pc = [c \in Caller |-> Idle]
  /\ saved = TRUE
  /\ asked = TRUE
  /\ clashed = FALSE
  /\ wrong = {}

At(c, at)   == pc[c].at = at

\* Is the worker away from the socket?  Has it the flag disabled, for its own call?
Unshared == Working => At(Worker, "idle")
Borrowed == ~Unshared /\ ~At(Worker, "disable")

Goto(c, at) == pc' = [pc EXCEPT ![c].at = at]

-----------------------------------------------------------------------------
\* A call begins; connect notes that the socket is connecting.
Begin(t, kind) ==
  /\ t \in Thread
  /\ At(t, "idle")
  /\ pc' = [pc EXCEPT ![t] = [at |-> "asked", kind |-> kind]]
  /\ state' = IF kind = "connect" THEN "connecting" ELSE state
  /\ UNCHANGED <<nonblocking, virtual, ready, link, server, saved, asked, clashed, wrong>>

\* The server does what the caller asked for, or blocks if the socket says so.
Transferred(c) ==
  LET k == pc[c].kind
  IN /\ k \in Transfer
     /\ IF ready[k] > 0
        THEN /\ ready' = [ready EXCEPT ![k] = @ - 1]
             /\ server' = {} /\ Goto(c, "done")
        ELSE /\ IF nonblocking THEN server' = {} /\ Goto(c, "wouldblock")
                               ELSE server' = {c} /\ UNCHANGED pc
             /\ UNCHANGED ready
     /\ UNCHANGED link

\* backend connect: the connection takes its time, or is there at once, one way
\* or the other.  On a socket that has one it fails (WSAEISCONN); while one is
\* under way it says so (WSAEALREADY).
Connected(c) ==
  /\ pc[c].kind = "connect"
  /\ CASE link = "none" ->
            \E l \in {"pending", "up", "refused"} :
              /\ link' = l
              /\ IF l = "pending" /\ ~nonblocking THEN server' = {c} /\ UNCHANGED pc
                 ELSE /\ server' = {}
                      /\ Goto(c, IF l = "up" THEN "done" ELSE IF l = "refused" THEN "failed"
                                 ELSE "wouldblock")
       [] link = "pending" ->
            /\ IF server = {c} THEN UNCHANGED <<server, pc>>
               ELSE server' = {} /\ Goto(c, "wouldblock")
            /\ UNCHANGED link
       [] OTHER ->
            /\ server' = {} /\ UNCHANGED link
            /\ Goto(c, IF server = {c} /\ link = "up" THEN "done" ELSE "failed")
  /\ UNCHANGED ready

\* One request at a time: nobody else is served while the server blocks.
Serve(c) ==
  /\ At(c, "asked")
  /\ server \subseteq {c}
  /\ Transferred(c) \/ Connected(c)
  /\ UNCHANGED <<nonblocking, virtual, state, saved, asked, clashed, wrong>>

\* Has the program reason to think that a call of its threads waits now?
Blocking == asked /\ ~clashed /\ ~Borrowed

\* The call returns: to the program, or to the worker, which then restores the flag.
Return(c, told) ==
  /\ pc' = [pc EXCEPT ![c] = IF c = Worker THEN [@ EXCEPT !.at = "restore"] ELSE Idle]
  /\ wrong' = IF told = "wouldblock" /\ c \in Thread /\ Blocking THEN wrong \cup {c} ELSE wrong

Succeed(c) ==
  /\ At(c, "done")
  /\ state' = IF pc[c].kind = "connect" THEN "connected" ELSE state
  /\ Return(c, "done")
  /\ UNCHANGED <<nonblocking, virtual, ready, link, server, saved, asked, clashed>>

Fail(c) ==
  /\ At(c, "failed")
  /\ state' = "unconnected"
  /\ Return(c, "failed")
  /\ UNCHANGED <<nonblocking, virtual, ready, link, server, saved, asked, clashed>>

\* WSAEWOULDBLOCK: the flag says whether the program wants to know.
WouldBlock(c) ==
  /\ At(c, "wouldblock")
  /\ IF virtual THEN Goto(c, "select") /\ UNCHANGED wrong ELSE Return(c, "wouldblock")
  /\ UNCHANGED <<nonblocking, virtual, state, ready, link, server, saved, asked, clashed>>

\* Mutant of Reselect: after a wait that was in vain the call is given up.
ReselectOnce(c) ==
  /\ At(c, "select")
  /\ pc[c].kind \in Transfer
  /\ IF ready[pc[c].kind] > 0 THEN Goto(c, "asked") /\ UNCHANGED wrong
     ELSE Return(c, "wouldblock")
  /\ UNCHANGED <<nonblocking, virtual, state, ready, link, server, saved, asked, clashed>>

\* siege_select asks the server until the socket is ready or the time is over
\* (SO_RCVTIMEO, SO_SNDTIMEO, or 10 s); either way the call is tried again ...
Reselect(c) ==
  /\ At(c, "select")
  /\ pc[c].kind \in Transfer
  /\ server = {}
  /\ Goto(c, "asked")
  /\ UNCHANGED <<nonblocking, virtual, state, ready, link, server, saved, asked, clashed, wrong>>

\* ... unless it fails: the call fails with it, a connect too, without the outcome.
SelectFails(c) ==
  /\ At(c, "select")
  /\ Return(c, "failed")
  /\ UNCHANGED <<nonblocking, virtual, state, ready, link, server, saved, asked, clashed>>

\* Mutant of ConnectWait: only the write set is looked at.
ConnectWaitUp(c) ==
  /\ At(c, "select")
  /\ pc[c].kind = "connect"
  /\ server = {}
  /\ IF link = "up" THEN state' = "connected" /\ Return(c, "done")
     ELSE ~virtual /\ Return(c, "wouldblock") /\ UNCHANGED state
  /\ UNCHANGED <<nonblocking, virtual, ready, link, server, saved, asked, clashed>>

\* connect waits for the outcome, and asks the flag again each time around.
ConnectWait(c) ==
  /\ At(c, "select")
  /\ pc[c].kind = "connect"
  /\ server = {}
  /\ IF link = "pending"
     THEN ~virtual /\ Return(c, "wouldblock") /\ UNCHANGED state
     ELSE /\ state' = IF link = "up" THEN "connected" ELSE "unconnected"
          /\ Return(c, "done")
  /\ UNCHANGED <<nonblocking, virtual, ready, link, server, saved, asked, clashed>>

\* ioctlsocket(FIONBIO): passed on to the server's socket ...
Ioctl(t, b) ==
  /\ t \in Thread
  /\ At(t, "idle")
  /\ server = {}
  /\ nonblocking' = ~b
  /\ pc' = [pc EXCEPT ![t] = [at |-> IF b THEN "block" ELSE "unblock", kind |-> "ioctl"]]
  /\ UNCHANGED <<virtual, state, ready, link, server, saved, asked, clashed, wrong>>

\* ... and kept by the client.  While the worker has the flag disabled, and has not
\* looked at it again, it can tell that it was set, but not that it was cleared.
SetVirtual(t) ==
  /\ pc[t].at \in {"block", "unblock"}
  /\ virtual' = At(t, "block")
  /\ asked' = At(t, "block")
  /\ clashed' = (~Unshared /\ ~(At(t, "block") /\ Borrowed /\ ~At(Worker, "reset")))
  /\ pc' = [pc EXCEPT ![t] = Idle]
  /\ UNCHANGED <<nonblocking, state, ready, link, server, saved, wrong>>

\* temp_disable_virtual_blocking, by the worker that found the socket ready ...
Save ==
  /\ Working
  /\ At(Worker, "idle")
  /\ \E k \in Kinds \ {"accept", "connect"} :
       /\ ready[k] > 0
       /\ pc' = [pc EXCEPT ![Worker] = [at |-> "disable", kind |-> k]]
  /\ saved' = virtual
  /\ UNCHANGED <<nonblocking, virtual, state, ready, link, server, asked, clashed, wrong>>

Disable ==
  /\ Working
  /\ At(Worker, "disable")
  /\ virtual' = FALSE
  /\ Goto(Worker, "asked")
  /\ UNCHANGED <<nonblocking, state, ready, link, server, saved, asked, clashed, wrong>>

\* Mutant of Restore: what was found is put back in any case.
RestoreAlways ==
  /\ Working
  /\ At(Worker, "restore")
  /\ Goto(Worker, "reset")
  /\ UNCHANGED <<nonblocking, virtual, state, ready, link, server, saved, asked, clashed, wrong>>

\* ... and the end of it: "we should only reset it if it is still false".
Restore ==
  /\ Working
  /\ At(Worker, "restore")
  /\ Goto(Worker, IF virtual THEN "idle" ELSE "reset")
  /\ UNCHANGED <<nonblocking, virtual, state, ready, link, server, saved, asked, clashed, wrong>>

Reset ==
  /\ Working
  /\ At(Worker, "reset")
  /\ virtual' = saved
  /\ Goto(Worker, "idle")
  /\ UNCHANGED <<nonblocking, state, ready, link, server, saved, asked, clashed, wrong>>

\* The network.
Ready(k) ==
  /\ ready[k] < MaxCount
  /\ ready' = [ready EXCEPT ![k] = @ + 1]
  /\ UNCHANGED <<nonblocking, virtual, state, link, server, pc, saved, asked, clashed, wrong>>

Outcome ==
  /\ link = "pending"
  /\ \E l \in {"up", "refused"} : link' = l
  /\ UNCHANGED <<nonblocking, virtual, state, ready, server, pc, saved, asked, clashed, wrong>>

-----------------------------------------------------------------------------
Going(c) == Serve(c) \/ Succeed(c) \/ Fail(c) \/ WouldBlock(c) \/ Reselect(c) \/ ConnectWait(c)

Next ==
  \/ \E t \in Thread, k \in Kinds : Begin(t, k)
  \/ \E t \in Thread, b \in Asks : Ioctl(t, b)
  \/ \E t \in Thread : SetVirtual(t)
  \/ \E c \in Caller : Going(c) \/ SelectFails(c)
  \/ Save \/ Disable \/ Restore \/ Reset
  \/ \E k \in Kinds \cap Transfer : Ready(k)
  \/ Outcome

\* Calls go on: the server takes messages, time passes, threads run.  A
\* connection attempt has an outcome.
Fairness ==
  /\ \A c \in Caller : WF_vars(Going(c))
  /\ \A t \in Thread : WF_vars(SetVirtual(t))
  /\ WF_vars(Outcome)

Spec == Init /\ [][Next]_vars /\ Fairness
-----------------------------------------------------------------------------
\* A call on a socket the program wants to block is never answered with
\* WSAEWOULDBLOCK, whatever its other threads do, and though the worker disables the
\* flag and puts back what it found.  Two cases are left out, in which the code does
\* tell a blocking call that it would have blocked: the worker has the flag disabled
\* just when the call looks at it, or the program had set the flag where the worker
\* could not know of it (clashed).
BlockingWaits == wrong = {}

\* The server's one thread is never blocked by a call of one process ("backend
\* sockets are non-blocking, so we have to block by default on the client-side").
ServerFree == server = {}

\* Between the program's calls and the worker's, the socket blocks if and only if the
\* program wants it to, though it said so while the worker had the flag disabled ("we
\* should only reset it if it is still false"): left out is what the worker cannot
\* tell, that the flag was cleared meanwhile, or set before it disabled it or after
\* it looked (clashed).
ModeKept ==
  (\A c \in Caller : At(c, "idle")) /\ ~clashed => virtual = asked

\* A blocking call ends when there is something for it, and a connect when its
\* outcome is known, unless the server is blocked in another's call (which it is only
\* for a program that asked for a socket that blocks).  A call on a socket that is
\* not to block ends in any case, unless the worker put back what it found before.
CallsEnd ==
  \A t \in Thread :
    /\ \A k \in Kinds \cap Transfer :
         pc[t].kind = k /\ ready[k] > 0 ~> ready[k] = 0 \/ pc[t].kind # k \/ server \ {t} # {}
    /\ pc[t].kind = "connect" ~> pc[t].kind # "connect" \/ server \ {t} # {}
    /\ ~asked /\ ~clashed /\ ~At(t, "idle") ~> At(t, "idle") \/ asked \/ clashed \/ server # {}
=============================================================================
