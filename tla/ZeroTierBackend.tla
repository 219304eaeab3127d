---------------------------- MODULE ZeroTierBackend ----------------------------
(***************************************************************************)
(* The backend over ZeroTier (wsock-backend-zero-tier.cpp).                *)
(*                                                                         *)
(* Every call holds one lock from its first line to its last, but for      *)
(* select, which gives it away between slices of a millisecond so that the *)
(* other threads get to the network.  The ZeroTier library (external: the  *)
(* node, the sockets it has open and what they are ready for) is modelled  *)
(* from how the backend uses it.                                           *)
(***************************************************************************)
EXTENDS Naturals

CONSTANTS
  Thread, Socket,
  Peer,        \* addresses of others on the network
  Fallback,    \* the address of SIEGE_WSOCK_FALLBACK_BROADCAST_IP_V4, or none
  Programs,    \* programs: the calls each makes, the requests of its selects, the
               \* sockets there can be, and whether SIEGE_WSOCK_NETWORK_ID is given
  Readiness,   \* what a socket can be ready for
  NoThread, NoRequest, NoAnswer, Failed

Kind == {"read", "write", "except"}

Requests == UNION {p.requests : p \in Programs}

ASSUME BackendAssumption ==
  /\ NoThread \notin Thread
  /\ \A p \in Programs : p.network \in BOOLEAN
  /\ \A r \in Requests : r.sets \in [Kind -> SUBSET Socket] /\ r.timed \in BOOLEAN
  /\ NoRequest \notin Requests
  /\ NoAnswer # Failed /\ NoAnswer \notin [Kind -> SUBSET Socket]

VARIABLES
  program,   \* what the program does
  node,      \* the ZeroTier node: is it running, has it joined the network?
  status,    \* get_node_online_status
  open,      \* the sockets ZeroTier has open
  handles,   \* socket_handle_info: the sockets the backend knows
  ready,     \* what each socket is ready for
  role,      \* what each socket is to ZeroTier
  lock,      \* the thread that holds zt_lock
  call,      \* what each thread does
  subnets,   \* get_subnets, computed once: "uncomputed", "none" or "known"
  bound,     \* the address each socket was bound to
  peers,     \* get_fallback_broadcast_addresses, of each thread
  hosts,     \* host_cache, of each thread: the address it keeps for a name
  refused    \* history: the sockets ZeroTier did not close

library == <<node, open, ready, role>>
address == <<subnets, bound, peers, hosts>>
vars    == <<program, library, status, handles, lock, call, address, refused>>

Idle == [at |-> "idle", request |-> NoRequest, late |-> FALSE, looked |-> FALSE, answer |-> NoAnswer]

Init ==
  /\ program \in Programs
  /\ node = [running |-> FALSE, joined |-> FALSE]
  /\ status = FALSE
  /\ open = {} /\ handles = {} /\ refused = {}
  /\ ready = [s \in Socket |-> {}]
  /\ role = [s \in Socket |-> "fresh"]
  /\ lock = NoThread
  /\ call = [t \in Thread |-> Idle]
  /\ subnets = "uncomputed"
  /\ bound = [s \in Socket |-> "none"]
  /\ peers = [t \in Thread |-> {}]
  /\ hosts = [t \in Thread |-> "unasked"]

Up == node.running /\ node.joined

\* Where a datagram can be sent.  "directed" is the broadcast address of the
\* network's subnet.
Destination == Peer \cup {"foreign", "broadcast", "directed"}

Go(t, at) == call' = [call EXCEPT ![t].at = at]

\* A call but select asks for the lock; it is done in one step once it has it.
Enter(t) ==
  /\ call[t].at = "idle"
  /\ Go(t, "entry")
  /\ UNCHANGED <<program, library, status, handles, lock, address, refused>>

Calling(t, name) == call[t].at = "entry" /\ lock = NoThread /\ name \in program.calls

\* Such a call ends, with nothing to tell that a property is about.
Ends(t) == call' = [call EXCEPT ![t] = Idle] /\ UNCHANGED <<program, lock>>

-----------------------------------------------------------------------------
\* get_network_id: without one there is only the system's Winsock to start.
HasNetwork == program.network

\* backend_WSAStartup starts the node, unless it is online ...
Startup(t) ==
  /\ Calling(t, "WSAStartup")
  /\ IF status \/ ~HasNetwork
     THEN Ends(t) /\ UNCHANGED node
     ELSE /\ lock' = t /\ Go(t, "joining")
          /\ node' = [node EXCEPT !.running = TRUE]
          /\ UNCHANGED program
  /\ UNCHANGED <<status, open, handles, ready, role, address, refused>>

\* ... and waits, with the lock, until it is online and has joined, or not.  One
\* that is online only is stopped again; one that is neither is not.
Joined(t) ==
  /\ call[t].at = "joining"
  /\ \E online, joined \in BOOLEAN :
       /\ status' = (online /\ joined)
       /\ node' = [running |-> ~(online /\ ~joined), joined |-> joined]
  /\ lock' = NoThread
  /\ call' = [call EXCEPT ![t] = Idle]
  /\ UNCHANGED <<program, open, handles, ready, role, address, refused>>

\* backend_WSACleanup: the first of them stops the node, whoever uses it.  The
\* sockets stay.
Cleanup(t) ==
  /\ Calling(t, "WSACleanup")
  /\ Ends(t)
  /\ status' = FALSE
  /\ node' = IF status THEN [running |-> FALSE, joined |-> FALSE] ELSE node
  /\ UNCHANGED <<open, handles, ready, role, address, refused>>

\* backend_socket: ZeroTier creates a socket if there is a node.  One that cannot
\* be made non-blocking is closed again.
NewSocket(t) ==
  /\ Calling(t, "socket")
  /\ Ends(t)
  /\ \/ UNCHANGED <<open, handles, ready, role, bound>>
     \/ \E s \in program.sockets \ open :
          /\ node.running
          /\ open' = open \cup {s} /\ handles' = handles \cup {s}
          /\ ready' = [ready EXCEPT ![s] = {}] /\ role' = [role EXCEPT ![s] = "fresh"]
          /\ bound' = [bound EXCEPT ![s] = "none"]
  /\ UNCHANGED <<node, status, subnets, peers, hosts, refused>>

\* Mutant of AfterAccept: a connection that stays blocking is not closed.
AfterAcceptLeft(s) ==
  /\ open' = open \cup {s}
  /\ \/ handles' = handles \cup {s} /\ ready' = [ready EXCEPT ![s] = {}]
     \/ UNCHANGED <<handles, ready>>

\* What accept does with a connection: known if it can be made non-blocking, else
\* closed again.
AfterAccept(s) ==
  \/ open' = open \cup {s} /\ handles' = handles \cup {s} /\ ready' = [ready EXCEPT ![s] = {}]
  \/ UNCHANGED <<open, handles, ready>>

\* The fallback addresses of a thread: those there are by default when it first
\* uses them (its own is among them if it has one), and whom it learns of.
Default(t) == peers[t] \cup Fallback \cup (IF Up THEN {"own"} ELSE {})
Learn(t, p) == peers' = [peers EXCEPT ![t] = (IF @ = {} THEN Default(t) ELSE @) \cup {p}]

\* backend_accept.
Accept(t, s) ==
  /\ Calling(t, "accept")
  /\ Ends(t)
  /\ IF s \in handles /\ node.running /\ role[s] = "listening"
     THEN \E new \in program.sockets \ open, p \in Peer :
            /\ AfterAccept(new) /\ Learn(t, p)
            /\ bound' = [bound EXCEPT ![new] = "none"] /\ role' = [role EXCEPT ![new] = "connected"]
     ELSE UNCHANGED <<open, handles, ready, role, peers, bound>>
  /\ UNCHANGED <<node, status, subnets, hosts, refused>>

\* backend_recvfrom: the sender becomes one to broadcast to.
RecvFrom(t, s) ==
  /\ Calling(t, "recvfrom")
  /\ Ends(t)
  /\ \/ \E p \in Peer : s \in handles /\ node.running /\ "read" \in ready[s] /\ Learn(t, p)
     \/ UNCHANGED <<peers>>
  /\ UNCHANGED <<library, status, handles, subnets, bound, hosts, refused>>

\* backend_closesocket: the backend forgets a socket, whether or not ZeroTier
\* closes it.
Close(t, s) ==
  /\ Calling(t, "closesocket")
  /\ Ends(t)
  /\ handles' = handles \ {s}
  /\ IF s \in handles
     THEN \/ open' = open \ {s} /\ role' = [role EXCEPT ![s] = "fresh"] /\ UNCHANGED refused
          \/ refused' = refused \cup {s} /\ UNCHANGED <<open, role>>
     ELSE UNCHANGED <<open, role, refused>>
  /\ UNCHANGED <<node, ready, status, address>>

-----------------------------------------------------------------------------
\* get_subnets: what the node knows of its network when it is first asked.
ComputeSubnets == subnets' = IF subnets # "uncomputed" THEN subnets ELSE IF Up THEN "known" ELSE "none"

\* backend_bind: an address of another adapter becomes the one on the network, or
\* any if there is none now.
Bind(t, s, name) ==
  /\ Calling(t, "bind")
  /\ Ends(t)
  /\ IF s \in handles /\ name # "any"
     THEN /\ ComputeSubnets
          /\ bound' = [bound EXCEPT ![s] =
               IF name = "foreign" /\ subnets' = "known" THEN (IF Up THEN "own" ELSE "any") ELSE name]
     ELSE /\ UNCHANGED subnets
          /\ bound' = IF s \in handles THEN [bound EXCEPT ![s] = name] ELSE bound
  /\ UNCHANGED <<library, status, handles, peers, hosts, refused>>

\* What becomes of a socket the backend knows; ZeroTier may say no.
Becomes(s, what) ==
  \/ s \in handles /\ node.running /\ role' = [role EXCEPT ![s] = what]
  \/ UNCHANGED role

\* backend_connect: rewrite_if_foreign asks for the subnets.
Connect(t, s) ==
  /\ Calling(t, "connect")
  /\ Ends(t)
  /\ IF s \in handles THEN ComputeSubnets ELSE UNCHANGED subnets
  /\ Becomes(s, "connected")
  /\ UNCHANGED <<node, open, ready, status, handles, bound, peers, hosts, refused>>

\* backend_listen and backend_shutdown.
Listen(t, s) ==
  /\ Calling(t, "listen") /\ Ends(t) /\ Becomes(s, "listening")
  /\ UNCHANGED <<node, open, ready, status, handles, address, refused>>

Shutdown(t, s) ==
  /\ Calling(t, "shutdown") /\ Ends(t) /\ Becomes(s, "shut")
  /\ UNCHANGED <<node, open, ready, status, handles, address, refused>>

Tell(t, a) == call' = [call EXCEPT ![t].at = "told", ![t].answer = a]

\* A broadcast goes to each fallback address for which the socket gets ready, and to
\* the network's own if that is enabled, and counts as sent if any of them took some
\* of it: one without data never does.
Broadcast(t) ==
  LET all == IF peers[t] = {} THEN Default(t) ELSE peers[t]
  IN /\ peers' = [peers EXCEPT ![t] = all]
     /\ \E to \in SUBSET all, everyone, empty \in BOOLEAN :
          Tell(t, [sent |-> (to # {} \/ everyone) /\ ~empty])

\* rewrite_if_foreign: an address of another adapter's network becomes the fallback
\* address, if there is one and this network is known.
RewriteIfForeign(name) ==
  IF name = "foreign" /\ subnets' = "known" /\ Fallback # {} THEN Fallback ELSE {name}

\* Any other datagram goes to one address, or is not sent.
Unicast(t, name) ==
  /\ UNCHANGED peers
  /\ \E to \in {{}, RewriteIfForeign(name)} : Tell(t, [sent |-> to # {}])

\* get_directed_broadcasts: those of the subnets, so none if none are known.
IsBroadcast(name) == name = "broadcast" \/ (name = "directed" /\ subnets' = "known")

\* backend_sendto.
SendTo(t, s, name) ==
  /\ Calling(t, "sendto") /\ s \in handles
  /\ IF name = "broadcast" THEN UNCHANGED subnets ELSE ComputeSubnets
  /\ IF IsBroadcast(name) THEN Broadcast(t) ELSE Unicast(t, name)
  /\ UNCHANGED <<program, library, status, handles, lock, bound, hosts, refused>>

\* backend_gethostbyname: ZeroTier's answer for the name is kept by the thread, the
\* first for good; a name of this computer, which ZeroTier does not know, is told as
\* the address it has on the network now.
GetHostByName(t) ==
  /\ Calling(t, "gethostbyname")
  /\ Ends(t)
  /\ \/ HasNetwork /\ hosts' = [hosts EXCEPT ![t] = IF @ = "unasked" THEN "other" ELSE @]
     \/ HasNetwork /\ hosts' = [hosts EXCEPT ![t] = "own"]
     \/ UNCHANGED hosts
  /\ UNCHANGED <<library, status, handles, subnets, bound, peers, refused>>

\* The other calls on a socket are passed on, if the backend knows it, and change
\* nothing that a property is about.
PassOn(t, name) ==
  /\ Calling(t, name)
  /\ Ends(t)
  /\ UNCHANGED <<library, status, handles, address, refused>>

SetSockOpt(t)  == PassOn(t, "setsockopt")
GetSockOpt(t)  == PassOn(t, "getsockopt")
GetSockName(t) == PassOn(t, "getsockname")
GetPeerName(t) == PassOn(t, "getpeername")
FDIsSet(t)     == PassOn(t, "__WSAFDIsSet")

\* (FIONBIO, which is passed on as well, is left to BlockingCalls: every socket here
\* stays non-blocking.)
IoctlSocket(t) == PassOn(t, "ioctlsocket")

Passing(t) ==
  \/ SetSockOpt(t) \/ GetSockOpt(t) \/ GetSockName(t) \/ GetPeerName(t) \/ FDIsSet(t) \/ IoctlSocket(t)

-----------------------------------------------------------------------------
\* Only sockets that the backend knows are asked for.
Transfer(sets) == [k \in Kind |-> sets[k] \cap handles]

\* zts_bsd_select (external).
Selected(sets) == [k \in Kind |-> {s \in sets[k] : k \in ready[s]}]

Nothing == [k \in Kind |-> {}]

\* Mutant of FinishReady: a failed connection stays among the writable.
FinishBoth(sets, found) == [k \in Kind |-> sets[k] \cap handles \cap found[k]]

\* finish_ready: the sockets of the caller's sets that are ready; those in the
\* except set leave the write set.
FinishReady(sets, found) ==
  LET told == [k \in Kind |-> sets[k] \cap handles \cap found[k]]
  IN IF told["write"] # {} /\ told["except"] # {}
     THEN [told EXCEPT !["write"] = @ \ told["except"]]
     ELSE told

\* backend_select copies the caller's sets and asks for the lock ...
Select(t) ==
  /\ call[t].at = "idle"
  /\ \E r \in program.requests : call' = [call EXCEPT ![t].at = "asked", ![t].request = r]
  /\ UNCHANGED <<program, library, status, handles, lock, address, refused>>

Lock(t) ==
  /\ call[t].at = "asked"
  /\ lock = NoThread
  /\ lock' = t /\ Go(t, "slice")
  /\ UNCHANGED <<program, library, status, handles, address, refused>>

\* ... asks ZeroTier, for a millisecond at most ...
Slice(t) ==
  /\ call[t].at = "slice"
  /\ LET sets  == call[t].request.sets
         found == Selected(Transfer(sets))
     IN \/ /\ ~Up
           /\ Tell(t, Failed) /\ lock' = NoThread
        \/ /\ found # Nothing
           /\ Tell(t, FinishReady(sets, found)) /\ lock' = NoThread
        \/ /\ found = Nothing
           /\ call' = [call EXCEPT ![t].at = "checking", ![t].looked = TRUE]
           /\ UNCHANGED lock
  /\ UNCHANGED <<program, library, status, handles, address, refused>>

\* Mutant of Check: the lock is kept between slices.
CheckHolding(t) ==
  /\ call[t].at = "checking"
  /\ IF call[t].late THEN Tell(t, Nothing) /\ lock' = NoThread
     ELSE Go(t, "slice") /\ UNCHANGED lock
  /\ UNCHANGED <<program, library, status, handles, address, refused>>

\* ... gives up when its time is over, or gives the lock away ...
Check(t) ==
  /\ call[t].at = "checking"
  /\ lock' = NoThread
  /\ IF call[t].late THEN Tell(t, Nothing) ELSE Go(t, "between")
  /\ UNCHANGED <<program, library, status, handles, address, refused>>

\* ... and takes it again, and looks at the time again.
Relock(t) ==
  /\ call[t].at = "between"
  /\ lock = NoThread
  /\ IF call[t].late THEN Tell(t, Nothing) /\ UNCHANGED lock ELSE lock' = t /\ Go(t, "slice")
  /\ UNCHANGED <<program, library, status, handles, address, refused>>

\* The time of a call that has one runs out.
Expire(t) ==
  /\ call[t].request # NoRequest /\ call[t].request.timed /\ ~call[t].late
  /\ call[t].answer = NoAnswer
  /\ call' = [call EXCEPT ![t].late = TRUE]
  /\ UNCHANGED <<program, library, status, handles, lock, address, refused>>

\* The program takes what it was told.
Return(t) ==
  /\ call[t].at = "told"
  /\ call' = [call EXCEPT ![t] = Idle]
  /\ UNCHANGED <<program, library, status, handles, lock, address, refused>>

\* The network (external): a socket becomes ready for something else.
Network(s) ==
  /\ s \in open /\ Up
  /\ \E r \in Readiness : ready' = [ready EXCEPT ![s] = r]
  /\ UNCHANGED <<program, node, open, role, status, handles, lock, call, address, refused>>

-----------------------------------------------------------------------------
\* The calls that end where they begin.
Operation(t) ==
  \/ Startup(t) \/ Cleanup(t) \/ NewSocket(t) \/ GetHostByName(t) \/ Passing(t)
  \/ \E s \in program.sockets :
       \/ Accept(t, s) \/ RecvFrom(t, s) \/ Close(t, s)
       \/ Connect(t, s) \/ Listen(t, s) \/ Shutdown(t, s)
       \/ \E name \in {"own", "any", "foreign"} : Bind(t, s, name)
       \/ \E name \in Destination : SendTo(t, s, name)

Selecting(t) == Lock(t) \/ Slice(t) \/ Check(t) \/ Relock(t)

Next ==
  \/ \E t \in Thread :
       Enter(t) \/ Operation(t) \/ Joined(t) \/ Select(t) \/ Selecting(t) \/ Expire(t) \/ Return(t)
  \/ \E s \in Socket : Network(s)

\* A thread that has the lock goes on, and one that finds it free again and again
\* gets it: who gives it away yields before it asks for it.
Fairness ==
  \A t \in Thread :
    /\ WF_vars(Joined(t) \/ Slice(t) \/ Check(t))
    /\ SF_vars(Operation(t) \/ Lock(t) \/ Relock(t))

Spec == Init /\ [][Next]_vars /\ Fairness
-----------------------------------------------------------------------------
Contract ==
  INSTANCE SelectContract WITH
    Request <- Requests,
    known   <- handles,
    up      <- Up,
    request <- [t \in Thread |-> call[t].request],
    seen    <- {t \in Thread : call[t].looked},
    answer  <- [t \in Thread |-> IF call[t].request = NoRequest THEN NoAnswer ELSE call[t].answer]

\* However its slices and the other threads' calls interleave, select keeps its
\* contract: it tells all that is ready and nothing else, a failed connection only
\* as an exception, and that its time is over only after it looked in vain.
SelectKeepsContract == Contract!Spec

\* A thread gets to make its call though another waits in a select without end.
OthersGetThrough == \A t \in Thread : call[t].at = "entry" ~> call[t].at # "entry"

\* No socket is lost: ZeroTier has open what the backend knows, but for what it
\* would not close.
NoSocketLost == handles \subseteq open /\ open \subseteq handles \cup refused
=============================================================================
