---------------------------- MODULE ServerLifecycle ----------------------------
(***************************************************************************)
(* How processes find, start and lose the RPC server (WSAStartup and       *)
(* use_custom_backend in ws2_32-rpc-client.cpp, wWinMain and the timers in *)
(* ws2_32-rpc-server.cpp).                                                 *)
(*                                                                         *)
(* There is meant to be one server for a node and network: a process looks *)
(* for a window with their name and launches a server if there is none;    *)
(* a server that finds such a window gives up.  A server that hears nothing*)
(* for a while goes away, whatever it holds.  SIEGE_WSOCK_BACKEND is set,  *)
(* and all processes name the same node and network.                       *)
(***************************************************************************)
EXTENDS Integers, FiniteSets

CONSTANTS
  Process,    \* processes with the client library
  Server,     \* server processes: each is launched at most once
  NoServer,   \* no window in server_info
  System,     \* the system's own Winsock
  Crashes,    \* may processes and servers be terminated?
  Finds,      \* bound: times a window is looked for (3 in the code)
  Polls       \* bound: times IsOnline is looked at (500 in the code)

ASSUME LifecycleAssumption ==
  /\ Crashes \in BOOLEAN
  /\ Finds \in Nat \ {0} /\ Polls \in Nat \ {0}
  /\ NoServer \notin Server \cup {System} /\ System \notin Server

VARIABLES
  proc,     \* where each server process is
  timer,    \* and what its timers have seen since
  pc,       \* where each process is in WSAStartup: its step and tries
  target,   \* the window a process that launched a server waits for
  server,   \* server_info.server
  started,  \* how the last WSAStartup of a process went
  held,     \* the sockets of a process, by who made them
  misused,  \* history: servers that ran while their sockets were passed to others
  unserved  \* history: processes that waited for a server, which then did not answer

vars == <<proc, timer, pc, target, server, started, held, misused, unserved>>

Step(at, tries) == [at |-> at, tries |-> tries]

Init ==
  /\ proc = [i \in Server |-> "none"]
  /\ timer = [i \in Server |-> "safety"]
  /\ pc = [p \in Process |-> Step("idle", 0)]
  /\ target = [p \in Process |-> NoServer]
  /\ server = [p \in Process |-> NoServer]
  /\ started = [p \in Process |-> "no"]
  /\ held = [p \in Process |-> {}]
  /\ misused = {}
  /\ unserved = {}

Window(i) == i \in Server /\ proc[i] \in {"joining", "online"}

\* The windows of the name that is made of the node and the network of the
\* environment (get_rpc_server_window_name): all here have both.
Windows == {i \in Server : Window(i)}

clients == <<pc, target, server, started, held, misused, unserved>>

-----------------------------------------------------------------------------
\* wWinMain: it gives up if there is a server ...
Look(i) ==
  /\ proc[i] = "born"
  /\ proc' = [proc EXCEPT ![i] = IF Windows = {} THEN "alone" ELSE "gone"]
  /\ UNCHANGED <<timer, clients>>

\* ... creates its window ...
Create(i) ==
  /\ proc[i] = "alone"
  /\ proc' = [proc EXCEPT ![i] = "joining"]
  /\ UNCHANGED <<timer, clients>>

\* ... loads the backend, joins the network, says so and starts the timer.
Join(i) ==
  /\ proc[i] = "joining"
  /\ \E at \in {"online", "gone"} : proc' = [proc EXCEPT ![i] = at]
  /\ UNCHANGED <<timer, clients>>

\* Mutant of Elapse: only a server that got a message is timed.
ElapseOnceHeard(i) ==
  /\ proc[i] = "online"
  /\ CASE timer[i] = "active" -> timer' = [timer EXCEPT ![i] = "quiet"] /\ UNCHANGED proc
       [] timer[i] = "quiet"  -> proc' = [proc EXCEPT ![i] = "gone"] /\ UNCHANGED timer
       [] OTHER               -> UNCHANGED <<proc, timer>>
  /\ UNCHANGED clients

\* A grace period (60 s) without a message.  The safety timer ends a server
\* that never got one; the other measures the time since the last.  DestroyWindow
\* leads to WM_QUIT, and what the server held is gone.
Elapse(i) ==
  /\ proc[i] = "online"
  /\ IF timer[i] = "active"
     THEN timer' = [timer EXCEPT ![i] = "quiet"] /\ UNCHANGED proc
     ELSE proc' = [proc EXCEPT ![i] = "gone"] /\ timer' = [timer EXCEPT ![i] = "safety"]
  /\ UNCHANGED clients

\* "Tests (and restarts) may kill the server process while this DLL stays loaded."
Kill(i) ==
  /\ Crashes
  /\ proc[i] \notin {"none", "gone"}
  /\ proc' = [proc EXCEPT ![i] = "gone"]
  /\ timer' = [timer EXCEPT ![i] = "safety"]
  /\ UNCHANGED clients

Heard(i) == timer' = [timer EXCEPT ![i] = "active"]

-----------------------------------------------------------------------------
At(p, at) == pc[p].at = at

HasStarted(p) == At(p, "idle") /\ started[p] # "no"

\* The end of WSAStartup: a server window, found or waited for, or
\* WSASYSNOTREADY.
Started(p, i) ==
  /\ pc' = [pc EXCEPT ![p] = Step("idle", 0)]
  /\ server' = [server EXCEPT ![p] = i]
  /\ target' = [target EXCEPT ![p] = NoServer]
  /\ started' = [started EXCEPT ![p] =
       IF i = NoServer THEN "no" ELSE IF At(p, "poll") THEN "waited" ELSE "found"]

\* A server window that is gone is dropped.
Known(p) == IF Window(server[p]) THEN server[p] ELSE NoServer

\* Mutant of Startup: the window is looked for again at each start.
StartupAnew(p) ==
  /\ At(p, "idle")
  /\ pc' = [pc EXCEPT ![p] = Step("find", Finds)]
  /\ server' = [server EXCEPT ![p] = NoServer]
  /\ UNCHANGED <<proc, timer, target, started, held, misused, unserved>>

\* WSAStartup: done if there is a server.
Startup(p) ==
  /\ At(p, "idle")
  /\ IF Known(p) # NoServer THEN Started(p, Known(p))
     ELSE /\ pc' = [pc EXCEPT ![p] = Step("find", Finds)]
          /\ server' = [server EXCEPT ![p] = NoServer]
          /\ UNCHANGED <<started, target>>
  /\ UNCHANGED <<proc, timer, held, misused, unserved>>

\* FindWindowEx: any window will do, online or not.
Find(p) ==
  /\ At(p, "find")
  /\ \/ \E i \in Windows : Started(p, i)
     \/ /\ Windows = {}
        /\ pc' = [pc EXCEPT ![p] = IF pc[p].tries > 1 THEN Step("find", pc[p].tries - 1)
                                   ELSE Step("launch", 0)]
        /\ UNCHANGED <<server, started, target>>
  /\ UNCHANGED <<proc, timer, held, misused, unserved>>

\* CreateProcess, which may fail.
Launch(p) ==
  /\ At(p, "launch")
  /\ \/ Started(p, NoServer) /\ UNCHANGED proc
     \/ \E i \in Server :
          /\ proc[i] = "none"
          /\ proc' = [proc EXCEPT ![i] = "born"]
          /\ pc' = [pc EXCEPT ![p] = Step("await", Finds)]
          /\ UNCHANGED <<server, started, target>>
  /\ UNCHANGED <<timer, held, misused, unserved>>

\* Any window again, for a short while ...
Await(p) ==
  /\ At(p, "await")
  /\ \/ \E i \in Windows :
          /\ pc' = [pc EXCEPT ![p] = Step("poll", Polls)]
          /\ target' = [target EXCEPT ![p] = i]
          /\ UNCHANGED <<server, started>>
     \/ /\ Windows = {}
        /\ IF pc[p].tries = 1 THEN Started(p, NoServer)
           ELSE pc' = [pc EXCEPT ![p].tries = @ - 1] /\ UNCHANGED <<server, started, target>>
  /\ UNCHANGED <<proc, timer, held, misused, unserved>>

\* Mutant of Poll: the window is enough.
PollWindow(p) ==
  /\ At(p, "poll")
  /\ Started(p, target[p])
  /\ UNCHANGED <<proc, timer, held, misused, unserved>>

\* Mutant of Poll: it waits for as long as it takes.
PollForever(p) ==
  /\ At(p, "poll")
  /\ proc[target[p]] = "online"
  /\ Started(p, target[p])
  /\ UNCHANGED <<proc, timer, held, misused, unserved>>

\* ... and a longer one for it to be online.
Poll(p) ==
  /\ At(p, "poll")
  /\ IF proc[target[p]] = "online" THEN Started(p, target[p])
     ELSE IF pc[p].tries = 1 THEN Started(p, NoServer)
     ELSE pc' = [pc EXCEPT ![p].tries = @ - 1] /\ UNCHANGED <<server, started, target>>
  /\ UNCHANGED <<proc, timer, held, misused, unserved>>

\* use_custom_backend: a call goes to the server, or to the system's Winsock.
Route(p) == IF Known(p) = NoServer THEN System ELSE server[p]

Drop(p) == server' = [server EXCEPT ![p] = Known(p)]

\* A server that does not take messages yet does not answer in time.
Answers(p) == Route(p) # System /\ proc[server[p]] = "online"

Asked(p) ==
  /\ unserved' = IF started[p] = "waited" /\ Route(p) # System /\ ~Answers(p)
                 THEN unserved \cup {p} ELSE unserved
  /\ IF Answers(p) THEN Heard(server[p]) ELSE UNCHANGED timer

\* socket.  The system's Winsock was left at startup, and makes none.
NewSocket(p) ==
  /\ HasStarted(p)
  /\ held' = IF Answers(p) THEN [held EXCEPT ![p] = @ \cup {server[p]}] ELSE held
  /\ Asked(p) /\ Drop(p)
  /\ UNCHANGED <<proc, pc, target, started, misused>>

\* Any call with a socket.
Use(p) ==
  /\ HasStarted(p)
  /\ \E origin \in held[p] :
       misused' = IF Route(p) # origin /\ proc[origin] # "gone" THEN misused \cup {origin} ELSE misused
  /\ Asked(p) /\ Drop(p)
  /\ UNCHANGED <<proc, pc, target, started, held>>

\* closesocket of all the sockets a server made, and WSACleanup, after which
\* server_info stays as it is.
Leave(p) ==
  /\ HasStarted(p)
  /\ held' = [held EXCEPT ![p] = @ \ {Route(p)}]
  /\ started' = [started EXCEPT ![p] = "no"]
  /\ Asked(p) /\ Drop(p)
  /\ UNCHANGED <<proc, pc, target, misused>>

\* A process ends without closing anything; the server is not told.
Die(p) ==
  /\ Crashes
  /\ pc[p].at # "dead"
  /\ pc' = [pc EXCEPT ![p] = Step("dead", 0)]
  /\ started' = [started EXCEPT ![p] = "no"]
  /\ held' = [held EXCEPT ![p] = {}]
  /\ server' = [server EXCEPT ![p] = NoServer]
  /\ target' = [target EXCEPT ![p] = NoServer]
  /\ UNCHANGED <<proc, timer, misused, unserved>>

-----------------------------------------------------------------------------
Starting(p) == Find(p) \/ Launch(p) \/ Await(p) \/ Poll(p)
Serving(i)  == Look(i) \/ Create(i) \/ Join(i) \/ Elapse(i)

Next ==
  \/ \E p \in Process : Startup(p) \/ Starting(p) \/ NewSocket(p) \/ Use(p) \/ Leave(p) \/ Die(p)
  \/ \E i \in Server : Serving(i) \/ Kill(i)

\* Processes and servers run, and time passes.
Fairness ==
  /\ \A p \in Process : WF_vars(Starting(p))
  /\ \A i \in Server : WF_vars(Serving(i))

Spec == Init /\ [][Next]_vars /\ Fairness
-----------------------------------------------------------------------------
\* While the server that made a socket runs, the socket is not passed to
\* another server, nor to the system's Winsock, whatever servers come and go.
OwnServer == misused = {}

\* WSAStartup ends, whatever ends while it waits; and a server leaves once nobody
\* talks to it: those whose processes died without closing anything, and those
\* launched by processes that gave up waiting.
StartupEnds == \A p \in Process : At(p, "find") ~> pc[p].at \in {"idle", "dead"}
IdleServersLeave ==
  (\A p \in Process : pc[p].at = "dead") ~> (\A i \in Server : proc[i] \in {"none", "gone"})
ServersComeAndGo == StartupEnds /\ IdleServersLeave

\* A process that launched a server and waited for it is answered for as long as
\* its window is there: a process that only found a window has no such promise.
StartedIsServed == unserved = {}

\* A server answers those it is to answer: the processes that have sockets of it, for as long as it
\* runs, and those that launched it and waited.
ServersAnswer == OwnServer /\ StartedIsServed
=============================================================================
