--------------------------- MODULE GameProcessProofs ---------------------------
(***************************************************************************)
(* Proofs about the life of a game's process: GameLaunch, for any networks *)
(* and any number of launches; ServerLifecycle, for any processes and      *)
(* servers and however often a window is looked for; InputInjector, for    *)
(* all reports of a controller and all mappings; LaunchSettings, for any   *)
(* games whose tables are as SettingsFit says.                             *)
(*                                                                         *)
(* GameLaunch.  That two games have different nodes rests on the two       *)
(* flags: of the games that run, each holds the flag of the setting it was *)
(* launched under (FlagsHeld).  Both flags are given back at once, when    *)
(* the game of the one injector has ended, so no other game may run by     *)
(* then: while input still comes to the view, the injector's game is the   *)
(* only one (OnlyOne).  That is so because the second of two launches ends *)
(* the registration for good.                                              *)
(*                                                                         *)
(* ServerLifecycle.  A process forgets its server only when its window is  *)
(* gone, and looks for another only when it has forgotten it, so of the    *)
(* servers that made its sockets only the one it knows can still run       *)
(* (HoldsOfKnown).  One that waited knows a server that was online, and no *)
(* server goes back to joining (WaitedForOnline).                          *)
(*                                                                         *)
(* InputInjector.  Off the edges, the changes of a report tell for each    *)
(* control on which side of the dead zone it was and is (Sides), so a key  *)
(* follows its control; it must be up when a controller comes (NoneDown).  *)
(*                                                                         *)
(* LaunchSettings.  That a launch tells what the user has said rests on    *)
(* the rows: those that a preference switches are as the preference has it *)
(* (Switches), the address that is passed on is the one expected, the      *)
(* others say what was chosen (SaidSo), and what is passed on is what the  *)
(* rows say (PassedOn).                                                    *)
(***************************************************************************)
EXTENDS ServerLifecycle, GameLaunch, InputInjector, LaunchSettings, FiniteSetTheorems, TLAPS

-----------------------------------------------------------------------------
(* GameLaunch                                                              *)

\* The flag of a setting, and its role.
SlotOf(p) == IF p = (IF extension THEN "dedicated" ELSE "listen") THEN "server" ELSE "client"
GameRole(p) == IF p \in {"listen", "dedicated"} THEN "server" ELSE "client"

WasLaunched(g) == g \in Game /\ game[g].at # "none"

LaunchTypeOK ==
  /\ extension \in BOOLEAN
  /\ preference \in Preference
  /\ network \in Network \cup {NoNetwork}
  /\ game \in [Game -> [at : {"none", "runs", "failed", "ended"}, role : Role,
                        node : Role \cup {"none"}, under : Preference]]
  /\ enabled \in [Role -> BOOLEAN]
  /\ address \in [Role -> Game \cup {NoGame}]
  /\ stored \in [Network -> [Role -> Game \cup {NoGame}]]
  /\ injector \in Game \cup {NoGame}

\* Whom the view and the addresses are about has been launched.
AllLaunched ==
  /\ injector # NoGame => WasLaunched(injector)
  /\ \A r \in Role : address[r] # NoGame =>
       WasLaunched(address[r]) /\ game[address[r]].node = r
  /\ \A n \in Network, r \in Role : stored[n][r] # NoGame =>
       WasLaunched(stored[n][r]) /\ game[stored[n][r]].node = r

\* A game's role and node are those of the setting it was launched under.
RolesKept ==
  \A g \in Game : game[g].at # "none" =>
    game[g].role = GameRole(game[g].under) /\ game[g].node \in {"none", game[g].role}

FlagsHeld == \A g \in Game : Runs(g) => ~enabled[SlotOf(game[g].under)]

FlagsApart ==
  \A g, h \in Game : g # h /\ Runs(g) /\ Runs(h) =>
    SlotOf(game[g].under) # SlotOf(game[h].under)

OnlyOne ==
  /\ sink # {} => \A g \in Game : Runs(g) => g = injector
  /\ injector = NoGame => \A g \in Game : ~Runs(g)

\* The inductive invariant.
LaunchInv == LaunchTypeOK /\ AllLaunched /\ RolesKept /\ FlagsHeld /\ FlagsApart /\ OnlyOne

LEMMA LaunchInitInv == ASSUME NoGame \notin Game PROVE LaunchInit => LaunchInv
<1> SUFFICES ASSUME LaunchInit PROVE LaunchInv
  OBVIOUS
<1>1. LaunchTypeOK
  BY DEF LaunchInit, LaunchTypeOK, Unlaunched, Role, Preference
<1> QED
  BY <1>1 DEF LaunchInit, LaunchInv, AllLaunched, RolesKept, FlagsHeld, FlagsApart, OnlyOne, Runs, WasLaunched, Unlaunched

\* Settings, dialogs: no game, no flag and no address changes.
LEMMA SettingsKeep ==
  ASSUME NoGame \notin Game, LaunchInv,
         \/ \E p \in Preference : Prefer(p)
         \/ Edit
         \/ \E usages \in {{"controllers"}, Usage} : TakeInput(usages)
         \/ UNCHANGED launchVars
  PROVE  LaunchInv'
<1>1. /\ UNCHANGED <<extension, enabled, game, injector, address, stored>>
      /\ preference' \in Preference /\ network' \in Network \cup {NoNetwork}
      /\ sink' \subseteq sink
  BY DEF Prefer, Edit, TakeInput, launchVars, settings, section, LaunchInv, LaunchTypeOK
<1> QED
  BY <1>1 DEF LaunchInv, LaunchTypeOK, AllLaunched, RolesKept, FlagsHeld, FlagsApart, OnlyOne, Runs, WasLaunched,
              SlotOf, GameRole

LEMMA LaunchKeeps ==
  ASSUME NoGame \notin Game, LaunchInv, NEW g \in Game, LaunchGame(g)
  PROVE  LaunchInv'
<1>1. PICK at \in {"runs", "failed"} :
        game' = [game EXCEPT ![g] = [at |-> at, role |-> RoleNow, node |-> NodeNow,
                                     under |-> preference]]
  BY DEF LaunchGame
<1>2. /\ enabled[SlotOf(preference)]
      /\ game[g].at = "none"
      /\ injector' = g
      /\ enabled' = [enabled EXCEPT ![SlotOf(preference)] = FALSE]
      /\ UNCHANGED <<extension, preference, network, zeroTier, stored>>
  BY DEF LaunchGame, Slot, Additional, SlotOf, Disable, settings
<1>3. /\ RoleNow = GameRole(preference) /\ RoleNow \in Role
      /\ NodeNow \in {"none", RoleNow}
      /\ SlotOf(preference) \in Role
  BY DEF RoleNow, GameRole, NodeNow, SlotOf, Role
<1>4. /\ game'[g] = [at |-> at, role |-> RoleNow, node |-> NodeNow, under |-> preference]
      /\ \A h \in Game : h # g => game'[h] = game[h]
      /\ game' \in [Game -> [at : {"none", "runs", "failed", "ended"}, role : Role,
                             node : Role \cup {"none"}, under : Preference]]
  BY <1>1, <1>3 DEF LaunchInv, LaunchTypeOK
<1>5. /\ enabled' \in [Role -> BOOLEAN]
      /\ ~enabled'[SlotOf(preference)]
      /\ \A r \in Role : ~enabled[r] => ~enabled'[r]
  BY <1>2, <1>3, Zenon DEF LaunchInv, LaunchTypeOK
<1>6. /\ address' \in [Role -> Game \cup {NoGame}]
      /\ \A r \in Role : address'[r] # NoGame => address'[r] = address[r]
  BY <1>3 DEF LaunchGame, LaunchInv, LaunchTypeOK
<1>7. LaunchTypeOK'
  BY <1>2, <1>4, <1>5, <1>6 DEF LaunchInv, LaunchTypeOK
<1>8. AllLaunched'
  <2>1. \A h \in Game : game[h].at # "none" => game'[h] = game[h]
    BY <1>2, <1>4
  <2>2. injector' = g /\ game'[g].at # "none"
    BY <1>2, <1>4
  <2>3. \A r \in Role : address'[r] # NoGame =>
          /\ address'[r] \in Game /\ game'[address'[r]].at # "none"
          /\ game'[address'[r]].node = r
    BY <2>1, <1>6 DEF LaunchInv, AllLaunched, WasLaunched
  <2>4. \A n \in Network, r \in Role : stored[n][r] # NoGame =>
          /\ stored[n][r] \in Game /\ game'[stored[n][r]].at # "none"
          /\ game'[stored[n][r]].node = r
    BY <2>1 DEF LaunchInv, AllLaunched, WasLaunched
  <2> QED BY <2>2, <2>3, <2>4, <1>2 DEF AllLaunched, WasLaunched
<1>9. RolesKept'
  BY <1>2, <1>3, <1>4 DEF LaunchInv, RolesKept, GameRole
<1>10. \A h \in Game : h # g => (Runs(h)' <=> Runs(h)) /\ SlotOf(game[h].under)' = SlotOf(game[h].under)
  BY <1>2, <1>4 DEF Runs, SlotOf
<1>11. SlotOf(game[g].under)' = SlotOf(preference)
  BY <1>2, <1>4 DEF SlotOf
<1>12. \A h \in Game : SlotOf(game[h].under) \in Role
  BY DEF SlotOf, Role
<1>13. FlagsHeld'
  BY <1>5, <1>10, <1>11, <1>12 DEF LaunchInv, FlagsHeld
<1>14. FlagsApart'
  BY <1>2, <1>10, <1>11 DEF LaunchInv, FlagsApart, FlagsHeld
<1>15. OnlyOne'
  <2>1. injector' # NoGame
    BY <1>2
  <2>2. sink' # {} => injector = NoGame
    BY DEF LaunchGame
  <2> QED BY <2>1, <2>2, <1>2, <1>10 DEF LaunchInv, OnlyOne
<1> QED BY <1>7, <1>8, <1>9, <1>13, <1>14, <1>15 DEF LaunchInv

LEMMA JoinKeeps ==
  ASSUME NoGame \notin Game, LaunchInv, NEW g \in Game, JoinNetwork(g)
  PROVE  LaunchInv'
<1>1. /\ Runs(g) /\ game[g].node # "none"
      /\ address' = [address EXCEPT ![game[g].role] = g]
      /\ UNCHANGED <<extension, preference, network, enabled, game, injector, sink, stored>>
  BY DEF JoinNetwork, settings
<1>2. game[g].role \in Role /\ game[g].node = game[g].role /\ WasLaunched(g)
  BY <1>1 DEF LaunchInv, LaunchTypeOK, RolesKept, Runs, WasLaunched
<1>3. LaunchTypeOK'
  BY <1>1, <1>2 DEF LaunchInv, LaunchTypeOK
<1>4. AllLaunched'
  BY <1>1, <1>2 DEF LaunchInv, AllLaunched, LaunchTypeOK, WasLaunched
<1> QED
  BY <1>1, <1>3, <1>4 DEF LaunchInv, RolesKept, FlagsHeld, FlagsApart, OnlyOne, Runs, SlotOf, GameRole

LEMMA EndKeeps ==
  ASSUME NoGame \notin Game, LaunchInv, NEW g \in Game, End(g)
  PROVE  LaunchInv'
<1>1. /\ Runs(g)
      /\ game' = [game EXCEPT ![g].at = "ended"]
      /\ UNCHANGED <<extension, preference, network, enabled, injector, sink, address, stored>>
  BY DEF End, settings, section
<1>2. /\ game' \in [Game -> [at : {"none", "runs", "failed", "ended"}, role : Role,
                             node : Role \cup {"none"}, under : Preference]]
      /\ \A h \in Game : /\ game'[h].role = game[h].role /\ game'[h].node = game[h].node
                         /\ game'[h].under = game[h].under
                         /\ (Runs(h)' => Runs(h))
                         /\ (game[h].at # "none" <=> game'[h].at # "none")
  BY <1>1 DEF LaunchInv, LaunchTypeOK, Runs
<1>3. LaunchTypeOK'
  BY <1>1, <1>2 DEF LaunchInv, LaunchTypeOK
<1>4. AllLaunched'
  BY <1>1, <1>2 DEF LaunchInv, AllLaunched, WasLaunched, LaunchTypeOK
<1>5. RolesKept'
  BY <1>2 DEF LaunchInv, RolesKept, GameRole
<1>6. FlagsHeld' /\ FlagsApart' /\ OnlyOne'
  BY <1>1, <1>2 DEF LaunchInv, FlagsHeld, FlagsApart, OnlyOne, SlotOf
<1> QED BY <1>3, <1>4, <1>5, <1>6 DEF LaunchInv

LEMMA InputKeeps ==
  ASSUME NoGame \notin Game, LaunchInv, NEW u \in Usage, Input(u)
  PROVE  LaunchInv'
<1>1. /\ sink # {} /\ injector # NoGame /\ injector \in Game
      /\ game[injector].at = "ended"
      /\ enabled' = [r \in Role |-> TRUE]
      /\ injector' = NoGame /\ sink' = {}
      /\ UNCHANGED <<extension, preference, network, game, address>>
  BY DEF Input, ResetLaunchState, settings, section, LaunchInv, LaunchTypeOK
<1>2. \A g \in Game : ~Runs(g)
  BY <1>1 DEF LaunchInv, OnlyOne, Runs
<1>3. PICK r \in Role : SetIp(r)
  BY <1>1 DEF Input, LaunchInv, LaunchTypeOK
<1>4. stored' \in [Network -> [Role -> Game \cup {NoGame}]]
  BY <1>3 DEF SetIp, LaunchInv, LaunchTypeOK
<1>5. \A n \in Network, s \in Role :
        stored'[n][s] # stored[n][s] => s = r /\ stored'[n][s] = address[r]
  BY <1>3 DEF SetIp, LaunchInv, LaunchTypeOK
<1>6. LaunchTypeOK'
  BY <1>1, <1>4 DEF LaunchInv, LaunchTypeOK
<1>7. AllLaunched'
  BY <1>1, <1>5 DEF LaunchInv, AllLaunched, WasLaunched
<1> QED
  BY <1>1, <1>2, <1>6, <1>7 DEF LaunchInv, RolesKept, FlagsHeld, FlagsApart, OnlyOne, Runs, GameRole

LEMMA LaunchNextInv == ASSUME NoGame \notin Game PROVE LaunchInv /\ [LaunchNext]_launchVars => LaunchInv'
BY SettingsKeep, LaunchKeeps, JoinKeeps, EndKeeps, InputKeeps DEF LaunchNext

\* Two games that run have different nodes, unless one was launched to listen and
\* one as a dedicated server, and an address is remembered for the node that had it.
THEOREM LaunchOwnIdentity ==
  ASSUME NoGame \notin Game
  PROVE  LaunchSpec => []OwnIdentity
<1>1. LaunchInv => OwnIdentity
  <2> SUFFICES ASSUME LaunchInv PROVE OwnIdentity
    OBVIOUS
  <2>1. ASSUME NEW g \in Game, NEW h \in Game, g # h, Runs(g), Runs(h),
               game[g].node # "none", game[g].node = game[h].node
        PROVE  {game[g].under, game[h].under} = {"listen", "dedicated"}
    <3>1. SlotOf(game[g].under) # SlotOf(game[h].under)
      BY <2>1 DEF LaunchInv, FlagsApart
    <3>2. GameRole(game[g].under) = GameRole(game[h].under)
      BY <2>1 DEF LaunchInv, RolesKept, Runs
    <3> QED BY <3>1, <3>2 DEF SlotOf, GameRole
  <2>2. \A n \in Network, r \in Role : stored[n][r] # NoGame => game[stored[n][r]].node = r
    BY DEF LaunchInv, AllLaunched
  <2> QED BY <2>1, <2>2 DEF OwnIdentity
<1> QED BY LaunchInitInv, LaunchNextInv, <1>1, PTL DEF LaunchSpec

-----------------------------------------------------------------------------
(* ServerLifecycle                                                         *)

Stage == {"none", "born", "alone", "joining", "online", "gone"}
Place == {"idle", "find", "launch", "await", "poll", "dead"}

ServerTypeOK ==
  /\ proc \in [Server -> Stage]
  /\ timer \in [Server -> {"safety", "active", "quiet"}]
  /\ pc \in [Process -> [at : Place, tries : Int]]
  /\ target \in [Process -> Server \cup {NoServer}]
  /\ server \in [Process -> Server \cup {NoServer}]
  /\ started \in [Process -> {"no", "found", "waited"}]
  /\ held \in [Process -> SUBSET Server]

\* A process that looks for a server knows none, and one that waits for one has a window.
Looking ==
  \A p \in Process :
    /\ pc[p].at # "idle" => server[p] = NoServer
    /\ pc[p].at = "poll" => target[p] \in Server

\* Of the servers that made a process's sockets, which all have been online, only the one it knows
\* can still run.
HoldsOfKnown ==
  \A p \in Process : \A i \in held[p] :
    proc[i] = "gone" \/ (proc[i] = "online" /\ server[p] = i)

\* A process that waited knows no server, or one that has been online.
WaitedForOnline ==
  \A p \in Process : started[p] = "waited" /\ server[p] # NoServer =>
    proc[server[p]] \in {"online", "gone"}

ServerInv == ServerTypeOK /\ Looking /\ HoldsOfKnown /\ WaitedForOnline /\ ServersAnswer

LEMMA ServerInitInv == Init => ServerInv
BY LifecycleAssumption
   DEF Init, Step, ServerInv, ServerTypeOK, Stage, Place, Looking, HoldsOfKnown, WaitedForOnline,
       ServersAnswer, OwnServer, StartedIsServed

\* Servers start, go online and go, and never turn back.
LEMMA ServingKeeps ==
  ASSUME ServerInv, NEW i \in Server, Serving(i) \/ Kill(i)
  PROVE  ServerInv'
<1>1. /\ proc' \in [Server -> Stage] /\ timer' \in [Server -> {"safety", "active", "quiet"}]
      /\ UNCHANGED clients
      /\ \A j \in Server : proc[j] = "gone" => proc'[j] = "gone"
      /\ \A j \in Server : proc[j] = "online" => proc'[j] \in {"online", "gone"}
  BY DEF Serving, Look, Create, Join, Elapse, Kill, ServerInv, ServerTypeOK, Stage
<1>2. ServerTypeOK' /\ Looking' /\ ServersAnswer'
  BY <1>1 DEF clients, ServerInv, ServerTypeOK, Looking, ServersAnswer, OwnServer, StartedIsServed
<1>3. HoldsOfKnown'
  BY <1>1 DEF clients, ServerInv, ServerTypeOK, HoldsOfKnown
<1>4. WaitedForOnline'
  BY <1>1 DEF clients, ServerInv, ServerTypeOK, WaitedForOnline
<1> QED BY <1>2, <1>3, <1>4 DEF ServerInv

\* What the end of a start-up makes of the process: it knows the server it found or waited for.
LEMMA StartedKeeps ==
  ASSUME ServerInv, NEW p \in Process, NEW i \in Server \cup {NoServer}, Started(p, i),
         server[p] \in {i, NoServer},
         i # NoServer /\ At(p, "poll") => proc[i] = "online",
         proc' \in [Server -> Stage],
         \A j \in Server : proc[j] \in {"online", "gone"} => proc'[j] = proc[j],
         UNCHANGED <<timer, held, misused, unserved>>
  PROVE  ServerInv'
<1>1. /\ pc' \in [Process -> [at : Place, tries : Int]]
      /\ server' \in [Process -> Server \cup {NoServer}]
      /\ target' \in [Process -> Server \cup {NoServer}]
      /\ started' \in [Process -> {"no", "found", "waited"}]
  BY DEF Started, Step, Place, ServerInv, ServerTypeOK
<1>2. /\ pc'[p].at = "idle" /\ server'[p] = i
      /\ started'[p] = "waited" => i # NoServer /\ At(p, "poll")
      /\ \A q \in Process : q # p => /\ pc'[q] = pc[q] /\ server'[q] = server[q]
                                    /\ target'[q] = target[q] /\ started'[q] = started[q]
  BY DEF Started, Step, ServerInv, ServerTypeOK
<1>3. ServerTypeOK'
  BY <1>1 DEF ServerInv, ServerTypeOK
<1>4. Looking'
  BY <1>2 DEF ServerInv, Looking
<1>5. HoldsOfKnown'
  <2> SUFFICES ASSUME NEW q \in Process, NEW j \in held[q]
               PROVE  proc'[j] = "gone" \/ (proc'[j] = "online" /\ server'[q] = j)
    BY DEF HoldsOfKnown
  <2>1. j \in Server /\ (proc[j] = "gone" \/ (proc[j] = "online" /\ server[q] = j))
    BY DEF ServerInv, ServerTypeOK, HoldsOfKnown
  <2>2. CASE q = p
    BY <1>2, <2>1, <2>2, LifecycleAssumption
  <2>3. CASE q # p
    BY <1>2, <2>1, <2>3
  <2> QED BY <2>2, <2>3
<1>6. WaitedForOnline'
  <2> SUFFICES ASSUME NEW q \in Process, started'[q] = "waited", server'[q] # NoServer
               PROVE  proc'[server'[q]] \in {"online", "gone"}
    BY DEF WaitedForOnline
  <2>1. CASE q = p
    BY <1>2, <2>1
  <2>2. CASE q # p
    <3>1. proc[server[q]] \in {"online", "gone"} /\ server[q] \in Server
      BY <1>2, <2>2 DEF ServerInv, ServerTypeOK, WaitedForOnline
    <3> QED BY <3>1, <1>2, <2>2
  <2> QED BY <2>1, <2>2
<1> QED
  BY <1>3, <1>4, <1>5, <1>6 DEF ServerInv, ServersAnswer, OwnServer, StartedIsServed

\* A step within a start-up: the process knows no server and goes on looking.
LEMMA LookingKeeps ==
  ASSUME ServerInv, NEW p \in Process, server[p] = NoServer \/ ~Window(server[p]),
         pc' \in [Process -> [at : Place, tries : Int]],
         \A q \in Process : q # p => pc'[q] = pc[q],
         server' = [server EXCEPT ![p] = NoServer],
         \/ target' = target /\ (pc'[p].at = "poll" => At(p, "poll"))
         \/ \E i \in Server : target' = [target EXCEPT ![p] = i],
         proc' \in [Server -> Stage],
         \A j \in Server : proc[j] \in {"online", "gone"} => proc'[j] = proc[j],
         UNCHANGED <<timer, started, held, misused, unserved>>
  PROVE  ServerInv'
<1>1. ServerTypeOK'
  BY DEF ServerInv, ServerTypeOK
<1>2. /\ server'[p] = NoServer
      /\ \A q \in Process : q # p => server'[q] = server[q] /\ target'[q] = target[q]
  BY DEF ServerInv, ServerTypeOK
<1>3. Looking'
  <2>1. pc'[p].at = "poll" => target'[p] \in Server
    BY DEF ServerInv, ServerTypeOK, Looking, At
  <2> QED BY <1>2, <2>1 DEF ServerInv, Looking
<1>4. HoldsOfKnown'
  <2> SUFFICES ASSUME NEW q \in Process, NEW j \in held[q]
               PROVE  proc'[j] = "gone" \/ (proc'[j] = "online" /\ server'[q] = j)
    BY DEF HoldsOfKnown
  <2>1. j \in Server /\ (proc[j] = "gone" \/ (proc[j] = "online" /\ server[q] = j))
    BY DEF ServerInv, ServerTypeOK, HoldsOfKnown
  <2>2. CASE q = p
    BY <2>1, <2>2, LifecycleAssumption DEF Window
  <2>3. CASE q # p
    BY <1>2, <2>1, <2>3
  <2> QED BY <2>2, <2>3
<1>5. WaitedForOnline'
  <2> SUFFICES ASSUME NEW q \in Process, started[q] = "waited", server'[q] # NoServer
               PROVE  proc'[server'[q]] \in {"online", "gone"}
    BY DEF WaitedForOnline
  <2>1. q # p
    BY <1>2
  <2>2. proc[server[q]] \in {"online", "gone"} /\ server[q] \in Server
    BY <1>2, <2>1 DEF ServerInv, ServerTypeOK, WaitedForOnline
  <2> QED BY <2>1, <2>2, <1>2
<1> QED
  BY <1>1, <1>3, <1>4, <1>5 DEF ServerInv, ServersAnswer, OwnServer, StartedIsServed

LEMMA StartupKeeps == ASSUME ServerInv, NEW p \in Process, Startup(p) PROVE ServerInv'
<1>1. At(p, "idle") /\ UNCHANGED <<proc, timer, held, misused, unserved>>
  BY DEF Startup
<1>2. CASE Known(p) # NoServer
  <2>1. Known(p) = server[p] /\ server[p] \in Server /\ Started(p, server[p])
    BY <1>2, LifecycleAssumption DEF Startup, Known, Window
  <2> QED BY <1>1, <2>1, StartedKeeps DEF At, ServerInv, ServerTypeOK
<1>3. CASE Known(p) = NoServer
  <2>1. /\ pc' = [pc EXCEPT ![p] = Step("find", Finds)]
        /\ server' = [server EXCEPT ![p] = NoServer]
        /\ UNCHANGED <<started, target>>
    BY <1>3 DEF Startup
  <2>2. server[p] = NoServer \/ ~Window(server[p])
    BY <1>3 DEF Known
  <2>3. /\ pc' \in [Process -> [at : Place, tries : Int]]
        /\ pc'[p].at = "find" /\ \A q \in Process : q # p => pc'[q] = pc[q]
    BY <2>1, LifecycleAssumption DEF Step, Place, ServerInv, ServerTypeOK
  <2> QED BY <1>1, <2>1, <2>2, <2>3, LookingKeeps DEF ServerInv, ServerTypeOK
<1> QED BY <1>2, <1>3

LEMMA StartingKeeps == ASSUME ServerInv, NEW p \in Process, Starting(p) PROVE ServerInv'
<1>1. /\ pc[p].at \in {"find", "launch", "await", "poll"}
      /\ server[p] = NoServer
      /\ At(p, "poll") => target[p] \in Server
      /\ UNCHANGED <<timer, held, misused, unserved>>
      /\ [server EXCEPT ![p] = NoServer] = server
  BY DEF Starting, Find, Launch, Await, Poll, At, ServerInv, ServerTypeOK, Looking
<1> DEFINE Goes(at) == /\ pc' \in [Process -> [at : Place, tries : Int]] /\ pc'[p].at = at
                       /\ \A q \in Process : q # p => pc'[q] = pc[q]
                       /\ UNCHANGED <<server, started>>
<1>2. CASE \E i \in Server \cup {NoServer} :
             Started(p, i) /\ UNCHANGED proc /\ (i # NoServer /\ At(p, "poll") => proc[i] = "online")
  BY <1>1, <1>2, StartedKeeps DEF ServerInv, ServerTypeOK
<1>3. CASE Goes(pc[p].at) /\ UNCHANGED <<proc, target>>
  BY <1>1, <1>3, LookingKeeps DEF At, ServerInv, ServerTypeOK
<1>4. CASE Goes("launch") /\ UNCHANGED <<proc, target>>
  BY <1>1, <1>4, LookingKeeps DEF ServerInv, ServerTypeOK
<1>5. CASE /\ Goes("await") /\ UNCHANGED target
           /\ \E i \in Server : proc[i] = "none" /\ proc' = [proc EXCEPT ![i] = "born"]
  <2>1. /\ proc' \in [Server -> Stage]
        /\ \A j \in Server : proc[j] \in {"online", "gone"} => proc'[j] = proc[j]
    BY <1>5 DEF ServerInv, ServerTypeOK, Stage
  <2> QED BY <1>1, <1>5, <2>1, LookingKeeps DEF ServerInv, ServerTypeOK
<1>6. CASE /\ Goes("poll") /\ UNCHANGED proc
           /\ \E i \in Server : target' = [target EXCEPT ![p] = i]
  BY <1>1, <1>6, LookingKeeps DEF ServerInv, ServerTypeOK
<1>7. CASE Find(p)
  <2>1. CASE \E i \in Windows : Started(p, i)
    BY <1>2, <1>7, <2>1 DEF Find, At, Windows
  <2>2. CASE pc' = [pc EXCEPT ![p] = IF pc[p].tries > 1 THEN Step("find", pc[p].tries - 1)
                                    ELSE Step("launch", 0)]
             /\ UNCHANGED <<server, started, target>>
    <3>1. Goes("find") \/ Goes("launch")
      BY <2>2 DEF Step, Place, ServerInv, ServerTypeOK
    <3> QED BY <1>3, <1>4, <1>7, <2>2, <3>1 DEF Find, At
  <2> QED BY <1>7, <2>1, <2>2 DEF Find
<1>8. CASE Launch(p)
  <2>1. CASE Started(p, NoServer) /\ UNCHANGED proc
    BY <1>2, <2>1
  <2>2. CASE \E i \in Server :
               /\ proc[i] = "none" /\ proc' = [proc EXCEPT ![i] = "born"]
               /\ pc' = [pc EXCEPT ![p] = Step("await", Finds)]
               /\ UNCHANGED <<server, started, target>>
    <3>1. Goes("await")
      BY <2>2, LifecycleAssumption DEF Step, Place, ServerInv, ServerTypeOK
    <3> QED BY <1>5, <2>2, <3>1
  <2> QED BY <1>8, <2>1, <2>2 DEF Launch
<1>9. CASE Await(p)
  <2>1. CASE \E i \in Windows : /\ pc' = [pc EXCEPT ![p] = Step("poll", Polls)]
                               /\ target' = [target EXCEPT ![p] = i]
                               /\ UNCHANGED <<server, started>>
    <3>1. Goes("poll")
      BY <2>1, LifecycleAssumption DEF Step, Place, ServerInv, ServerTypeOK
    <3> QED BY <1>6, <1>9, <2>1, <3>1 DEF Await, Windows
  <2>2. CASE Started(p, NoServer)
    BY <1>2, <1>9, <2>2 DEF Await
  <2>3. CASE pc' = [pc EXCEPT ![p].tries = @ - 1] /\ UNCHANGED <<server, started, target>>
    <3>1. Goes(pc[p].at)
      BY <2>3 DEF ServerInv, ServerTypeOK
    <3> QED BY <1>3, <1>9, <2>3, <3>1 DEF Await
  <2> QED BY <1>9, <2>1, <2>2, <2>3 DEF Await
<1>10. CASE Poll(p)
  <2>1. CASE proc[target[p]] = "online" /\ Started(p, target[p])
    BY <1>1, <1>2, <1>10, <2>1 DEF Poll
  <2>2. CASE Started(p, NoServer)
    BY <1>2, <1>10, <2>2 DEF Poll
  <2>3. CASE pc' = [pc EXCEPT ![p].tries = @ - 1] /\ UNCHANGED <<server, started, target>>
    <3>1. Goes(pc[p].at)
      BY <2>3 DEF ServerInv, ServerTypeOK
    <3> QED BY <1>3, <1>10, <2>3, <3>1 DEF Poll
  <2> QED BY <1>10, <2>1, <2>2, <2>3 DEF Poll
<1> QED BY <1>7, <1>8, <1>9, <1>10 DEF Starting

\* A call of a process that has started reaches the server it knows, which answers if the process
\* waited for it; and what the process forgets is gone.
LEMMA CallReaches ==
  ASSUME ServerInv, NEW p \in Process, HasStarted(p), Asked(p), Drop(p)
  PROVE  /\ timer' \in [Server -> {"safety", "active", "quiet"}]
         /\ unserved' = {}
         /\ server' \in [Process -> Server \cup {NoServer}]
         /\ \A q \in Process : server'[q] = server[q] \/ (q = p /\ server'[q] = NoServer)
         /\ \A i \in held[p] : proc[i] # "gone" => server'[p] = i /\ Route(p) = i
         /\ Answers(p) => server'[p] = server[p] /\ server[p] \in Server /\ proc[server[p]] = "online"
<1>1. Known(p) = (IF Window(server[p]) THEN server[p] ELSE NoServer) /\ NoServer \notin Server
  BY LifecycleAssumption DEF Known
<1>2. Route(p) # System => Window(server[p]) /\ Route(p) = server[p]
  BY <1>1 DEF Route
<1>3. Answers(p) => server[p] \in Server /\ proc[server[p]] = "online" /\ Window(server[p])
  BY <1>2 DEF Answers, Window
<1>4. \A i \in held[p] : proc[i] # "gone" => server[p] = i /\ Window(i)
  BY DEF Window, ServerInv, ServerTypeOK, HoldsOfKnown
<1>5. \A i \in held[p] : proc[i] # "gone" => Route(p) = i
  BY <1>1, <1>4, LifecycleAssumption DEF Route, Window
<1>6. ~(started[p] = "waited" /\ Route(p) # System /\ ~Answers(p))
  BY <1>1, <1>2 DEF Answers, Window, ServerInv, WaitedForOnline
<1>7. unserved' = {}
  BY <1>6 DEF Asked, ServerInv, ServersAnswer, StartedIsServed
<1>8. timer' \in [Server -> {"safety", "active", "quiet"}]
  BY <1>3 DEF Asked, Heard, ServerInv, ServerTypeOK
<1>9. /\ server' \in [Process -> Server \cup {NoServer}]
      /\ server'[p] = Known(p) /\ \A q \in Process : q # p => server'[q] = server[q]
  BY <1>1 DEF Drop, ServerInv, ServerTypeOK
<1> QED BY <1>1, <1>3, <1>4, <1>5, <1>7, <1>8, <1>9

LEMMA CallsKeep ==
  ASSUME ServerInv, NEW p \in Process, NewSocket(p) \/ Use(p) \/ Leave(p)
  PROVE  ServerInv'
<1>1. /\ HasStarted(p) /\ Asked(p) /\ Drop(p) /\ UNCHANGED <<proc, pc, target>>
      /\ pc[p].at = "idle"
  BY DEF NewSocket, Use, Leave, HasStarted, At
<1> DEFINE news == IF Answers(p) THEN {server[p]} ELSE {}
<1>2. /\ held' \in [Process -> SUBSET Server]
      /\ held'[p] \subseteq held[p] \cup news
      /\ \A q \in Process : q # p => held'[q] = held[q]
      /\ started' \in [Process -> {"no", "found", "waited"}]
      /\ \A q \in Process : started'[q] = "waited" => started[q] = "waited"
  BY SMTT(20), <1>1, CallReaches DEF NewSocket, Use, Leave, ServerInv, ServerTypeOK
<1>3. misused' = {}
  <2>1. CASE Use(p)
    <3>1. PICK i \in held[p] :
            misused' = IF Route(p) # i /\ proc[i] # "gone" THEN misused \cup {i} ELSE misused
      BY <2>1 DEF Use
    <3> QED BY <1>1, <3>1, CallReaches DEF ServerInv, ServersAnswer, OwnServer
  <2>2. CASE ~Use(p)
    BY <2>2 DEF NewSocket, Leave, ServerInv, ServersAnswer, OwnServer
  <2> QED BY <2>1, <2>2
<1>4. ServerTypeOK' /\ ServersAnswer'
  BY <1>1, <1>2, <1>3, CallReaches
     DEF ServerInv, ServerTypeOK, ServersAnswer, OwnServer, StartedIsServed
<1>5. Looking'
  BY <1>1, CallReaches DEF ServerInv, Looking
<1>6. HoldsOfKnown'
  <2> SUFFICES ASSUME NEW q \in Process, NEW j \in held'[q]
               PROVE  proc[j] = "gone" \/ (proc[j] = "online" /\ server'[q] = j)
    BY <1>1 DEF HoldsOfKnown
  <2>1. CASE q = p
    BY <1>1, <1>2, <2>1, CallReaches DEF ServerInv, HoldsOfKnown
  <2>2. CASE q # p
    BY <1>1, <1>2, <2>2, CallReaches DEF ServerInv, HoldsOfKnown
  <2> QED BY <2>1, <2>2
<1>7. WaitedForOnline'
  BY <1>1, <1>2, CallReaches DEF ServerInv, WaitedForOnline
<1> QED BY <1>4, <1>5, <1>6, <1>7 DEF ServerInv

LEMMA DieKeeps == ASSUME ServerInv, NEW p \in Process, Die(p) PROVE ServerInv'
<1>1. /\ pc' = [pc EXCEPT ![p] = Step("dead", 0)] /\ started' = [started EXCEPT ![p] = "no"]
      /\ held' = [held EXCEPT ![p] = {}]
      /\ server' = [server EXCEPT ![p] = NoServer] /\ target' = [target EXCEPT ![p] = NoServer]
      /\ UNCHANGED <<proc, timer, misused, unserved>>
  BY DEF Die
<1>2. ServerTypeOK' /\ Looking'
  BY <1>1 DEF Step, Place, ServerInv, ServerTypeOK, Looking
<1>3. HoldsOfKnown' /\ WaitedForOnline' /\ ServersAnswer'
  BY <1>1 DEF ServerInv, ServerTypeOK, HoldsOfKnown, WaitedForOnline, ServersAnswer, OwnServer,
              StartedIsServed
<1> QED BY <1>2, <1>3 DEF ServerInv

LEMMA ServerNextInv == ServerInv /\ [Next]_vars => ServerInv'
<1> SUFFICES ASSUME ServerInv, [Next]_vars PROVE ServerInv'
  OBVIOUS
<1>1. CASE UNCHANGED vars
  BY <1>1 DEF vars, ServerInv, ServerTypeOK, Looking, HoldsOfKnown, WaitedForOnline, ServersAnswer,
              OwnServer, StartedIsServed
<1>2. CASE Next
  BY <1>2, StartupKeeps, StartingKeeps, CallsKeep, DieKeeps, ServingKeeps DEF Next
<1> QED BY <1>1, <1>2

\* While a server runs, no socket it made is passed to another, and a process that launched a server
\* and waited for it is answered while its window is there: for any processes and servers, in
\* whatever order they start, stop and are terminated.
THEOREM LifecycleServersAnswer == Spec => []ServersAnswer
<1>1. ServerInv => ServersAnswer
  BY DEF ServerInv
<1> QED BY ServerInitInv, ServerNextInv, <1>1, PTL DEF Spec

-----------------------------------------------------------------------------
(* InputInjector                                                           *)

\* The provers take an interval apart only when its ends are names.
LEMMA AxialBounds == ASSUME NEW b \in Axial PROVE b \in Int /\ -32768 <= b /\ b <= 32767
<1> DEFINE lo == -32768
           hi == 32767
           S  == lo .. hi
<1>1. lo \in Int /\ hi \in Int
  OBVIOUS
<1>2. b \in S
  <2>1. S = Axial
    BY SMTT(20) DEF Axial
  <2> HIDE DEF S
  <2> QED BY <2>1
<1> HIDE DEF lo, hi
<1>3. b \in Int /\ lo <= b /\ b <= hi
  BY <1>1, <1>2
<1> QED BY <1>3 DEF lo, hi

\* What an axis that moved tells of its two controls, but at a stick's very end or at rest.
LEMMA AxisValues ==
  ASSUME NEW a \in Axial, NEW b \in Axial, a # b, b # 0, a # -32768, NEW positive, NEW negative
  PROVE  Axis(a, b, positive, negative) =
           {Change(positive, IF b > 0 THEN 2 * b + 1 ELSE 0, IF a > 0 THEN 2 * a + 1 ELSE 0),
            Change(negative, IF b > 0 THEN 0 ELSE -2 * b - 1, IF a < 0 THEN -2 * a + 1 ELSE 0)}
<1>1. \A n \in Int : 0 < n /\ n <= 32767 => Scale(n) = 2 * n + 1
  BY DEF Scale, Word
<1>2. \A n \in Int : -32767 <= n /\ n <= 0 => Negated(n) = -2 * n + 1
  <2> SUFFICES ASSUME NEW n \in Int, -32767 <= n, n <= 0 PROVE Negated(n) = -2 * n + 1
    OBVIOUS
  <2>1. (-(n % Word)) % Word = -n
    BY DEF Word
  <2>2. ((-n) * 2 + 1) % Word = -2 * n + 1
    BY DEF Word
  <2> QED BY <2>1, <2>2 DEF Negated, Scale
<1>3. b \in Int /\ -32768 <= b /\ b <= 32767 /\ a \in Int /\ -32768 <= a /\ a <= 32767
  BY AxialBounds
<1>4. /\ b > 0 => Scale(b) = 2 * b + 1
      /\ a > 0 => Scale(a) = 2 * a + 1
      /\ a < 0 => Negated(a) = -2 * a + 1
  BY <1>1, <1>2, <1>3
<1>5. ~(b > 0) => Negated(b + 1) = -2 * b - 1
  <2>1. ~(b > 0) => b + 1 \in Int /\ -32767 <= b + 1 /\ b + 1 <= 0
    BY <1>3
  <2>2. -2 * (b + 1) + 1 = -2 * b - 1
    BY <1>3
  <2> QED BY <1>2, <2>1, <2>2
<1>6. CASE b > 0
  BY <1>4, <1>6 DEF Axis
<1>7. CASE ~(b > 0)
  <2>1. Axis(a, b, positive, negative) =
          {Change(negative, -2 * b - 1, IF a < 0 THEN -2 * a + 1 ELSE 0),
           Change(positive, 0, IF a > 0 THEN 2 * a + 1 ELSE 0)}
    BY <1>4, <1>5, <1>7 DEF Axis
  <2> QED BY <1>7, <2>1
<1> QED BY <1>6, <1>7

\* A change tells on which side of the dead zone its control was and is.
Sided(c, a, b) ==
  /\ c.vkey \in Control
  /\ c.new > DeadZone <=> Out(b, c.vkey) > DeadZone
  /\ c.new < DeadZone <=> ~(Out(b, c.vkey) > DeadZone)
  /\ c.old > DeadZone <=> Out(a, c.vkey) > DeadZone
  /\ c.old < DeadZone <=> ~(Out(a, c.vkey) > DeadZone)

\* The two controls of an axis, by what it gives for each of them.
LEMMA AxisSides ==
  ASSUME NEW a \in Axial, NEW b \in Axial, a # b, b # 0, a # -32768,
         NEW positive, NEW negative,
         NEW c \in Axis(a, b, positive, negative), DeadZone \notin {c.new, c.old}
  PROVE  \/ /\ c.vkey = positive
            /\ c.new > DeadZone <=> 2 * b > DeadZone
            /\ c.new < DeadZone <=> ~(2 * b > DeadZone)
            /\ c.old > DeadZone <=> 2 * a > DeadZone
            /\ c.old < DeadZone <=> ~(2 * a > DeadZone)
         \/ /\ c.vkey = negative
            /\ c.new > DeadZone <=> -2 * b > DeadZone
            /\ c.new < DeadZone <=> ~(-2 * b > DeadZone)
            /\ c.old > DeadZone <=> -2 * a > DeadZone
            /\ c.old < DeadZone <=> ~(-2 * a > DeadZone)
<1>1. DeadZone = 16383
  BY DEF DeadZone, Word
<1>2. b \in Int /\ a \in Int
  BY AxialBounds
<1>3. \/ c = Change(positive, IF b > 0 THEN 2 * b + 1 ELSE 0, IF a > 0 THEN 2 * a + 1 ELSE 0)
      \/ c = Change(negative, IF b > 0 THEN 0 ELSE -2 * b - 1, IF a < 0 THEN -2 * a + 1 ELSE 0)
  BY AxisValues
<1>4. CASE c = Change(positive, IF b > 0 THEN 2 * b + 1 ELSE 0, IF a > 0 THEN 2 * a + 1 ELSE 0)
  <2>1. /\ c.vkey = positive
        /\ c.new = IF b > 0 THEN 2 * b + 1 ELSE 0
        /\ c.old = IF a > 0 THEN 2 * a + 1 ELSE 0
    BY <1>4 DEF Change
  <2>2. /\ c.new > 16383 <=> 2 * b > 16383
        /\ c.new < 16383 <=> ~(2 * b > 16383)
    BY <1>1, <1>2, <2>1
  <2>3. /\ c.old > 16383 <=> 2 * a > 16383
        /\ c.old < 16383 <=> ~(2 * a > 16383)
    BY <1>1, <1>2, <2>1
  <2> QED BY <1>1, <2>1, <2>2, <2>3
<1>5. CASE c = Change(negative, IF b > 0 THEN 0 ELSE -2 * b - 1, IF a < 0 THEN -2 * a + 1 ELSE 0)
  <2>1. /\ c.vkey = negative
        /\ c.new = IF b > 0 THEN 0 ELSE -2 * b - 1
        /\ c.old = IF a < 0 THEN -2 * a + 1 ELSE 0
    BY <1>5 DEF Change
  <2>2. /\ c.new > 16383 <=> -2 * b > 16383
        /\ c.new < 16383 <=> ~(-2 * b > 16383)
    BY <1>1, <1>2, <2>1
  <2>3. /\ c.old > 16383 <=> -2 * a > 16383
        /\ c.old < 16383 <=> ~(-2 * a > 16383)
    BY <1>1, <1>2, <2>1
  <2> QED BY <1>1, <2>1, <2>2, <2>3
<1> QED BY <1>3, <1>4, <1>5

LEMMA Sides ==
  ASSUME NEW a \in Reportable, NEW b \in Reportable, ~AtEdge(a, b), NEW c \in GetChanges(a, b)
  PROVE  Sided(c, a, b)
<1>1. DeadZone = 16383 /\ DeadZone \notin {c.new, c.old} /\ c.vkey # "lt"
  BY DEF AtEdge, DeadZone, Word
<1>2. /\ a.x # b.x => b.x # 0 /\ a.x # -32768
      /\ a.y # b.y => b.y # 0 /\ a.y # -32768
  BY DEF AtEdge, Word
<1>3. /\ a.x \in Axial /\ b.x \in Axial /\ a.y \in Axial /\ b.y \in Axial
      /\ a.rt \in 0 .. 255 /\ b.rt \in 0 .. 255
      /\ a.button \in BOOLEAN /\ b.button \in BOOLEAN
  BY DEF Reportable
<1>4. CASE c = Change("button", Pressed(b.button), Pressed(a.button))
  BY <1>1, <1>3, <1>4 DEF Change, Pressed, Out, Sided, Control, Word
<1>5. CASE c \in Axis(a.x, b.x, "right", "left")
  <2>1. a.x # b.x
    BY <1>5 DEF Axis
  <2>2. \/ /\ c.vkey = "right"
           /\ c.new > DeadZone <=> 2 * b.x > DeadZone
           /\ c.new < DeadZone <=> ~(2 * b.x > DeadZone)
           /\ c.old > DeadZone <=> 2 * a.x > DeadZone
           /\ c.old < DeadZone <=> ~(2 * a.x > DeadZone)
        \/ /\ c.vkey = "left"
           /\ c.new > DeadZone <=> -2 * b.x > DeadZone
           /\ c.new < DeadZone <=> ~(-2 * b.x > DeadZone)
           /\ c.old > DeadZone <=> -2 * a.x > DeadZone
           /\ c.old < DeadZone <=> ~(-2 * a.x > DeadZone)
    BY <1>1, <1>2, <1>3, <1>5, <2>1, AxisSides
  <2>3. /\ Out(a, "right") = 2 * a.x /\ Out(b, "right") = 2 * b.x
        /\ Out(a, "left") = -2 * a.x /\ Out(b, "left") = -2 * b.x
    BY DEF Out
  <2>4. {"right", "left"} \subseteq Control
    BY DEF Control
  <2> QED BY <2>2, <2>3, <2>4, Zenon DEF Sided
<1>6. CASE c \in Axis(a.y, b.y, "up", "down")
  <2>1. a.y # b.y
    BY <1>6 DEF Axis
  <2>2. \/ /\ c.vkey = "up"
           /\ c.new > DeadZone <=> 2 * b.y > DeadZone
           /\ c.new < DeadZone <=> ~(2 * b.y > DeadZone)
           /\ c.old > DeadZone <=> 2 * a.y > DeadZone
           /\ c.old < DeadZone <=> ~(2 * a.y > DeadZone)
        \/ /\ c.vkey = "down"
           /\ c.new > DeadZone <=> -2 * b.y > DeadZone
           /\ c.new < DeadZone <=> ~(-2 * b.y > DeadZone)
           /\ c.old > DeadZone <=> -2 * a.y > DeadZone
           /\ c.old < DeadZone <=> ~(-2 * a.y > DeadZone)
    BY <1>1, <1>2, <1>3, <1>6, <2>1, AxisSides
  <2>3. /\ Out(a, "up") = 2 * a.y /\ Out(b, "up") = 2 * b.y
        /\ Out(a, "down") = -2 * a.y /\ Out(b, "down") = -2 * b.y
    BY DEF Out
  <2>4. {"up", "down"} \subseteq Control
    BY DEF Control
  <2> QED BY <2>2, <2>3, <2>4, Zenon DEF Sided
<1>7. CASE c = Change("rt", b.rt * 257, a.rt * 257)
  <2>1. c.vkey = "rt" /\ c.new = b.rt * 257 /\ c.old = a.rt * 257
    BY <1>7 DEF Change
  <2>2. Out(a, "rt") = 257 * a.rt /\ Out(b, "rt") = 257 * b.rt
    BY DEF Out
  <2>3. a.rt \in Int /\ b.rt \in Int
    BY <1>3
  <2> HIDE <1>3
  <2> QED BY <1>1, <2>1, <2>2, <2>3 DEF Sided, Control
<1> QED BY <1>1, <1>4, <1>5, <1>6, <1>7 DEF GetChanges, Change

\* A control no change is about is on the side it was on.
LEMMA Unchanged ==
  ASSUME NEW a \in Reportable, NEW b \in Reportable, ~AtEdge(a, b), NEW v \in Control,
         \A c \in GetChanges(a, b) : c.vkey # v
  PROVE  Out(b, v) = Out(a, v)
<1>1. v = "button" => a.button = b.button
  <2>1. a.button # b.button => Change("button", Pressed(b.button), Pressed(a.button)) \in GetChanges(a, b)
    BY DEF GetChanges
  <2> QED BY <2>1 DEF Change
<1>2. v \in {"right", "left"} => a.x = b.x
  <2>1. a.x # b.x => \A w \in {"right", "left"} :
          \E c \in Axis(a.x, b.x, "right", "left") : c.vkey = w
    BY DEF Axis, Change
  <2> QED BY <2>1 DEF GetChanges
<1>3. v \in {"up", "down"} => a.y = b.y
  <2>1. a.y # b.y => \A w \in {"up", "down"} :
          \E c \in Axis(a.y, b.y, "up", "down") : c.vkey = w
    BY DEF Axis, Change
  <2> QED BY <2>1 DEF GetChanges
<1>4. v = "lt" => a.lt = b.lt
  <2>1. a.lt # b.lt => Change("lt", b.lt * 257, b.lt * 257) \in GetChanges(a, b)
    BY DEF GetChanges
  <2> QED BY <2>1 DEF Change
<1>5. v = "rt" => a.rt = b.rt
  <2>1. a.rt # b.rt => Change("rt", b.rt * 257, a.rt * 257) \in GetChanges(a, b)
    BY DEF GetChanges
  <2> QED BY <2>1 DEF Change
<1> QED BY <1>1, <1>2, <1>3, <1>4, <1>5 DEF Out, Control

\* Keys are up when a controller comes.
NoneDown == running /\ ~plugged /\ ~odd => down = {}

InputInv ==
  /\ mapping \in Mappings /\ last \in Reportable /\ odd \in BOOLEAN
  /\ NoneDown
  /\ KeysFollow

LEMMA AtRest == Rest \in Reportable /\ \A v \in Control : ~(Out(Rest, v) > DeadZone)
<1>1. DeadZone = 16383
  BY DEF DeadZone, Word
<1>2. 0 \in Axial
  <2> DEFINE lo == -32768
             hi == 32767
  <2>1. lo \in Int /\ hi \in Int /\ lo <= 0 /\ 0 <= hi
    OBVIOUS
  <2> HIDE DEF lo, hi
  <2>2. 0 \in lo .. hi
    BY <2>1
  <2> QED BY <2>2 DEF Axial, lo, hi
<1>3. Rest \in Reportable
  BY <1>2 DEF Rest, Reportable
<1>4. \A v \in Control : Out(Rest, v) \in {0, -2 * 0}
  <2>1. /\ Out(Rest, "button") = 0 /\ Out(Rest, "right") = 0 /\ Out(Rest, "up") = 0
        /\ Out(Rest, "lt") = 0 /\ Out(Rest, "rt") = 0
    BY DEF Rest, Out, Pressed
  <2>2. Out(Rest, "left") = -2 * 0 /\ Out(Rest, "down") = -2 * 0
    BY DEF Rest, Out
  <2> QED BY <2>1, <2>2 DEF Control
<1>5. ~(0 > 16383) /\ ~(-2 * 0 > 16383)
  OBVIOUS
<1>6. \A n \in {0, -2 * 0} : ~(n > DeadZone)
  BY <1>1, <1>5
<1> QED BY <1>3, <1>4, <1>6

\* A key of one control goes down and up with it.
LEMMA ReportKeeps == ASSUME InputInv, NEW report \in Reports, WmInput(report) PROVE InputInv'
<1>1. /\ report \in Reportable /\ last \in Reportable
      /\ last' = report /\ running /\ plugged
      /\ odd' = (odd \/ AtEdge(last, report))
      /\ UNCHANGED <<mapping, simulates, plugged, running>>
  BY InputAssumption DEF WmInput, InputInv
<1> DEFINE reported == GetChanges(last, report)
           mapped == Mapped(reported)
<1>2. down' = (down \cup Downs(mapped)) \ Ups(mapped)
  BY DEF WmInput
<1>3. ASSUME ~odd', NEW m \in mapping, OwnKey(m)
      PROVE  m.to \in down' <=> Out(report, m.from) > DeadZone
  <2>1. ~odd /\ ~AtEdge(last, report)
    BY <1>1, <1>3
  <2>2. m.from \in Control /\ m.context \in simulates /\ ~IsPointer(m)
    BY <1>3, InputAssumption DEF InputInv, OwnKey
  <2>3. m.to \in down <=> Out(last, m.from) > DeadZone
    BY <1>1, <1>3, <2>1 DEF InputInv, KeysFollow
  <2>4. m.to \in Downs(mapped) => Out(report, m.from) > DeadZone /\ ~(Out(last, m.from) > DeadZone)
    <3> SUFFICES ASSUME m.to \in Downs(mapped)
                 PROVE  Out(report, m.from) > DeadZone /\ ~(Out(last, m.from) > DeadZone)
      OBVIOUS
    <3>1. PICK q \in mapped : /\ ~IsPointer(q[2]) /\ q[2].to = m.to
                              /\ q[1].new > DeadZone /\ q[1].old < DeadZone
      BY DEF Downs
    <3>2. /\ q[1] \in reported /\ q[2] \in mapping
          /\ q[2].from = q[1].vkey /\ q[2].context \in simulates
      BY <3>1 DEF Mapped
    <3>3. q[1].vkey = m.from
      BY <1>3, <3>1, <3>2 DEF OwnKey
    <3> QED BY <1>1, <2>1, <3>1, <3>2, <3>3, Sides DEF Sided
  <2>5. m.to \in Ups(mapped) => ~(Out(report, m.from) > DeadZone) /\ Out(last, m.from) > DeadZone
    <3> SUFFICES ASSUME m.to \in Ups(mapped)
                 PROVE  ~(Out(report, m.from) > DeadZone) /\ Out(last, m.from) > DeadZone
      OBVIOUS
    <3>1. PICK q \in mapped : /\ ~IsPointer(q[2]) /\ q[2].to = m.to
                              /\ q[1].new < DeadZone /\ q[1].old > DeadZone
      BY DEF Ups
    <3>2. /\ q[1] \in reported /\ q[2] \in mapping
          /\ q[2].from = q[1].vkey /\ q[2].context \in simulates
      BY <3>1 DEF Mapped
    <3>3. q[1].vkey = m.from
      BY <1>3, <3>1, <3>2 DEF OwnKey
    <3> QED BY <1>1, <2>1, <3>1, <3>2, <3>3, Sides DEF Sided
  <2>6. CASE \E c \in reported : c.vkey = m.from
    <3>1. PICK c \in reported : c.vkey = m.from
      BY <2>6
    <3>2. <<c, m>> \in mapped
      BY <2>2, <3>1 DEF Mapped
    <3>3. c.new > DeadZone /\ c.old < DeadZone => m.to \in Downs(mapped)
      BY <2>2, <3>2 DEF Downs
    <3>4. c.new < DeadZone /\ c.old > DeadZone => m.to \in Ups(mapped)
      BY <2>2, <3>2 DEF Ups
    <3>5. Sided(c, last, report)
      BY <1>1, <2>1, <3>1, Sides
    <3>6. /\ c.new > DeadZone <=> Out(report, m.from) > DeadZone
          /\ c.new < DeadZone <=> ~(Out(report, m.from) > DeadZone)
          /\ c.old > DeadZone <=> Out(last, m.from) > DeadZone
          /\ c.old < DeadZone <=> ~(Out(last, m.from) > DeadZone)
      BY <3>1, <3>5 DEF Sided
    <3> HIDE DEF reported, mapped
    <3> QED BY <1>2, <2>3, <2>4, <2>5, <3>3, <3>4, <3>6, Zenon
  <2>7. CASE \A c \in reported : c.vkey # m.from
    <3>1. Out(report, m.from) = Out(last, m.from)
      BY <1>1, <2>1, <2>2, <2>7, Unchanged
    <3> HIDE DEF reported, mapped
    <3> QED BY <1>2, <2>3, <2>4, <2>5, <3>1
  <2> QED BY <2>6, <2>7
<1>4. KeysFollow'
  BY <1>1, <1>3 DEF KeysFollow, OwnKey
<1>5. odd' \in BOOLEAN
  BY <1>1 DEF InputInv, AtEdge
<1> QED BY <1>1, <1>4, <1>5 DEF InputInv, NoneDown

LEMMA InputNextInv == InputInv /\ [InputNext]_inputVars => InputInv'
<1> SUFFICES ASSUME InputInv, [InputNext]_inputVars PROVE InputInv'
  OBVIOUS
<1>1. CASE UNCHANGED inputVars
  BY <1>1 DEF inputVars, InputInv, NoneDown, KeysFollow, OwnKey
<1>2. CASE \E report \in Reports : WmInput(report)
  BY <1>2, ReportKeeps
<1>3. CASE Arrive
  <2>1. /\ running /\ ~plugged /\ last' = Rest /\ plugged'
        /\ UNCHANGED <<mapping, simulates, down, running, odd>>
    BY <1>3 DEF Arrive
  <2>2. ~odd => \A m \in mapping : m.to \notin down /\ ~(Out(Rest, m.from) > DeadZone)
    BY <2>1, AtRest, InputAssumption DEF InputInv, NoneDown
  <2> QED BY <2>1, <2>2, AtRest DEF InputInv, NoneDown, KeysFollow, OwnKey
<1>4. CASE Unplug
  <2>1. /\ ~plugged' /\ odd' = (odd \/ down # {})
        /\ UNCHANGED <<mapping, simulates, last, down, running>>
    BY <1>4 DEF Unplug
  <2> QED BY <2>1 DEF InputInv, NoneDown, KeysFollow
<1>5. CASE GameEnds
  BY <1>5 DEF GameEnds, InputInv, NoneDown, KeysFollow
<1> QED BY <1>1, <1>2, <1>3, <1>4, <1>5 DEF InputNext

\* A key that one control is mapped to is down exactly while that control is out beyond the dead
\* zone, whatever a controller reports and in 16 bits, but at the edges of the arithmetic: for all
\* reports and mappings.
THEOREM InputKeysFollow == InputSpec => []KeysFollow
<1>1. InputInit => InputInv
  BY AtRest DEF InputInit, InputInv, NoneDown, KeysFollow
<1>2. InputInv => KeysFollow
  BY DEF InputInv
<1> QED BY <1>1, <1>2, InputNextInv, PTL DEF InputSpec

-----------------------------------------------------------------------------
(* The settings of a launch.                                               *)

IsView(v) == DOMAIN v = {"fields", "args", "data"} /\ IsMemory(v.data)
HasRows(g, v) == IsView(v) /\ DOMAIN v.fields = RowNames(g) /\ DOMAIN v.args \subseteq RowNames(g)

\* What is passed on is what the rows say.
PassedOn(g, v) ==
  /\ DOMAIN v.args = {n \in RowNames(g) : Passed(g, n, v.fields[n])}
  /\ \A n \in DOMAIN v.args : v.args[n] = v.fields[n].value

\* An address in the row is the one that is remembered, if it is a real one.
AddressKnown(g, v) ==
  g.connect \in g.strings /\ Real(v.fields[g.connect].value) =>
    v.fields[g.connect].value = v.data.ip

\* The preferences under which the address is passed on; the settings that only say to host; and
\* those that no preference changes.
Joins(g, p) == p = "connect" \/ (p = "listen" /\ g.listen = g.connect)
Hosts(g) == g.listen \in RowNames(g) \ g.strings /\ ~Multiple(g)
Plain(g) == RowNames(g) \ (Hidden(g) \cup {g.connect})

\* The value of a row that says one of the preferences.
Bit(p, q) == IF p = q THEN "1" ELSE "0"

\* The rows that a preference switches are as it says.
Switches(g, v, p) ==
  /\ g.connect \in g.strings => (v.fields[g.connect].enabled <=> Joins(g, p))
  /\ g.connect \in g.flags =>
       /\ v.fields[g.connect].enabled <=> p = "connect"
       /\ v.fields[g.connect].value = Bit(p, "connect")
  /\ Hosts(g) =>
       /\ v.fields[g.listen].enabled <=> p = "listen"
       /\ v.fields[g.listen].value = Bit(p, "listen")
  /\ g.dedicated \in RowNames(g) =>
       /\ v.fields[g.dedicated].enabled
       /\ v.fields[g.dedicated].value = Bit(p, "dedicated")

\* What the registry is to hold but for the address.
Kept(d, e) == e.preference = d.preference /\ e.zeroTier = d.zeroTier /\ e.network = d.network

\* Two records of what the registry holds that agree are the same.
LEMMA SameMemory ==
  ASSUME NEW d, NEW e, IsMemory(d), IsMemory(e), Kept(d, e), e.ip = d.ip
  PROVE  e = d
BY DEF IsMemory, Kept

\* The row of one setting is changed and passed on.
LEMMA PutRow ==
  ASSUME NEW g, NEW v, HasRows(g, v), NEW n \in RowNames(g), NEW value, NEW switched
  PROVE  LET w == Put(g, v, n, value, switched)
         IN  /\ HasRows(g, w)
             /\ w.fields[n] = [value |-> value, enabled |-> switched]
             /\ \A m \in RowNames(g) \ {n} : w.fields[m] = v.fields[m]
             /\ PassedOn(g, v) => PassedOn(g, w)
             /\ Kept(v.data, w.data)
             /\ w.data.ip = IF n = g.connect /\ n \in g.strings /\ Real(value)
                            THEN value ELSE v.data.ip
<1> DEFINE w == Put(g, v, n, value, switched)
           row == [value |-> value, enabled |-> switched]
           u == [v EXCEPT !.fields[n] = row]
           typed == n = g.connect /\ n \in g.strings /\ Real(value)
<1>1. /\ DOMAIN u = {"fields", "args", "data"}
      /\ u.data = v.data /\ u.args = v.args
      /\ u.fields = [v.fields EXCEPT ![n] = row]
  BY DEF HasRows, IsView
<1>2. w = Persisted(g, u, {n})
  BY DEF Put
<1>3. u.fields[n] = row /\ DOMAIN u.fields = RowNames(g)
      /\ \A m \in RowNames(g) \ {n} : u.fields[m] = v.fields[m]
  BY <1>1 DEF HasRows
<1> HIDE DEF u, w
<1>4. /\ DOMAIN w = {"fields", "args", "data"} /\ w.fields = u.fields
      /\ w.data = [u.data EXCEPT !.ip = IF /\ g.connect \in {n} \cap g.strings
                                           /\ Real(u.fields[g.connect].value)
                                        THEN u.fields[g.connect].value ELSE @]
      /\ w.args = [m \in {k \in {n} : Passed(g, k, u.fields[k])} \cup (DOMAIN u.args \ {n}) |->
                     IF m \in {n} THEN u.fields[m].value ELSE u.args[m]]
  BY <1>1, <1>2 DEF Persisted
<1>5. w.data = IF typed THEN [v.data EXCEPT !.ip = value] ELSE v.data
  <2>1. CASE typed
    BY <1>1, <1>3, <1>4, <2>1
  <2>2. CASE ~typed
    <3>1. w.data = [v.data EXCEPT !.ip = @]
      BY <1>1, <1>3, <1>4, <2>2
    <3> QED
      BY <2>2, <3>1 DEF HasRows, IsView, IsMemory
  <2> QED
    BY <2>1, <2>2
<1>6. IsMemory(w.data)
  BY <1>5 DEF HasRows, IsView, IsMemory
<1>7. /\ Kept(v.data, w.data)
      /\ w.data.ip = IF typed THEN value ELSE v.data.ip
  BY <1>5 DEF HasRows, IsView, IsMemory, Kept
<1>8. HasRows(g, w)
  BY <1>1, <1>3, <1>4, <1>6 DEF HasRows, IsView
<1>9. ASSUME PassedOn(g, v) PROVE PassedOn(g, w)
  <2>1. DOMAIN w.args = {m \in RowNames(g) : Passed(g, m, w.fields[m])}
    BY <1>1, <1>3, <1>4, <1>9 DEF PassedOn
  <2>2. \A m \in DOMAIN w.args : w.args[m] = w.fields[m].value
    BY <1>1, <1>3, <1>4, <1>9 DEF PassedOn
  <2> QED
    BY <2>1, <2>2 DEF PassedOn
<1> QED
  BY <1>3, <1>4, <1>7, <1>8, <1>9 DEF w

\* A view whose rows are all passed on remembers what it did.
LEMMA PersistedRows ==
  ASSUME NEW g, NEW v, HasRows(g, v), AddressKnown(g, v)
  PROVE  LET w == Persisted(g, v, RowNames(g))
         IN  HasRows(g, w) /\ w.fields = v.fields /\ w.data = v.data /\ PassedOn(g, w)
<1> DEFINE w == Persisted(g, v, RowNames(g))
           typed == g.connect \in RowNames(g) \cap g.strings /\ Real(v.fields[g.connect].value)
<1>1. /\ DOMAIN w = {"fields", "args", "data"} /\ w.fields = v.fields
      /\ w.data = [v.data EXCEPT !.ip = IF typed THEN v.fields[g.connect].value ELSE @]
      /\ w.args = [n \in {m \in RowNames(g) : Passed(g, m, v.fields[m])}
                           \cup (DOMAIN v.args \ RowNames(g)) |->
                     IF n \in RowNames(g) THEN v.fields[n].value ELSE v.args[n]]
  BY DEF HasRows, IsView, Persisted
<1>2. typed => v.fields[g.connect].value = v.data.ip
  BY DEF AddressKnown
<1> HIDE DEF w, typed
<1>3. w.data = v.data
  BY <1>1, <1>2 DEF HasRows, IsView, IsMemory
<1>4. DOMAIN v.args \ RowNames(g) = {}
  BY DEF HasRows
<1>5. PassedOn(g, w)
  BY <1>1, <1>4 DEF PassedOn
<1> QED
  BY <1>1, <1>3, <1>5 DEF HasRows, IsView, PassedOn, w

\* Rows that a preference may be applied to.
NetRows(g, v) ==
  /\ HasRows(g, v) /\ AddressKnown(g, v)
  /\ g.dedicated \in RowNames(g) => v.fields[g.dedicated].enabled = TRUE

\* What a preference changes, one setting after the other.
LEMMA ConnectRow ==
  ASSUME NEW g, RowsKnown(g), NEW v, NetRows(g, v), NEW p
  PROVE  LET w == ApplyConnect(g, p, v)
         IN  /\ NetRows(g, w) /\ w.data = v.data
             /\ PassedOn(g, v) => PassedOn(g, w)
             /\ \A m \in RowNames(g) \ {g.connect} : w.fields[m] = v.fields[m]
             /\ g.connect \in g.strings =>
                  /\ w.fields[g.connect].enabled <=> p = "connect"
                  /\ p = "connect" => w.fields[g.connect].value = v.data.ip
             /\ g.connect \in g.flags =>
                  /\ w.fields[g.connect].enabled <=> p = "connect"
                  /\ w.fields[g.connect].value = Bit(p, "connect")
<1> DEFINE c == g.connect
           on == p = "connect"
           old == v.fields[c].value
           value == IF c \in g.strings
                    THEN IF on /\ ~Real(old) THEN v.data.ip ELSE old
                    ELSE IF on THEN "1" ELSE "0"
           w == ApplyConnect(g, p, v)
<1>1. CASE c \notin g.strings \cup g.flags
  <2>1. w = v
    BY <1>1 DEF ApplyConnect
  <2> QED
    BY <1>1, <2>1
<1>2. CASE c \in g.strings \cup g.flags
  <2>1. c \in RowNames(g) /\ (c \in g.flags => c \notin g.strings)
    BY <1>2 DEF RowNames, RowsKnown
  <2>2. w = Put(g, v, c, value, on)
    BY <1>2 DEF ApplyConnect, Switch
  <2>3. c \in g.strings /\ on => value = v.data.ip
    BY DEF NetRows, AddressKnown
  <2>4. c \in g.strings /\ Real(value) => value = v.data.ip
    BY DEF NetRows, AddressKnown
  <2>5. c \in g.flags => value = Bit(p, "connect")
    BY <2>1 DEF Bit
  <2>6. on \in BOOLEAN /\ (on <=> p = "connect")
    OBVIOUS
  <2>7. HasRows(g, v)
    BY DEF NetRows
  <2> HIDE DEF value, on, w, c
  <2>8. /\ HasRows(g, w)
        /\ w.fields[c] = [value |-> value, enabled |-> on]
        /\ \A m \in RowNames(g) \ {c} : w.fields[m] = v.fields[m]
        /\ PassedOn(g, v) => PassedOn(g, w)
        /\ Kept(v.data, w.data)
        /\ w.data.ip = IF c = g.connect /\ c \in g.strings /\ Real(value)
                       THEN value ELSE v.data.ip
    BY <2>1, <2>2, <2>7, PutRow
  <2>9. w.data = v.data
    <3>1. w.data.ip = v.data.ip /\ IsMemory(v.data) /\ IsMemory(w.data)
      BY <2>4, <2>7, <2>8 DEF c, HasRows, IsView
    <3> QED
      BY <2>8, <3>1, SameMemory
  <2>10. w.fields[c].value = value /\ (w.fields[c].enabled <=> on)
    BY <2>6, <2>8
  <2>11. AddressKnown(g, w)
    BY <2>4, <2>9, <2>10 DEF AddressKnown, c
  <2>12. g.dedicated \in RowNames(g) => g.dedicated # c
    BY DEF RowsKnown, c
  <2>13. NetRows(g, w)
    <3>1. g.dedicated \in RowNames(g) => w.fields[g.dedicated] = v.fields[g.dedicated]
      BY <2>8, <2>12
    <3> QED
      BY <2>8, <2>11, <3>1 DEF NetRows
  <2>14. g.connect \in g.strings =>
          /\ w.fields[g.connect].enabled <=> p = "connect"
          /\ p = "connect" => w.fields[g.connect].value = v.data.ip
    BY <2>3, <2>6, <2>10 DEF c
  <2>15. g.connect \in g.flags =>
          /\ w.fields[g.connect].enabled <=> p = "connect"
          /\ w.fields[g.connect].value = Bit(p, "connect")
    <3>1. w.fields[c].value = value
      BY <2>10
    <3>2. c \in g.flags => w.fields[c].value = Bit(p, "connect")
      BY <2>5, <3>1
    <3>3. w.fields[c].enabled <=> p = "connect"
      BY <2>6, <2>10
    <3> QED
      BY <3>2, <3>3 DEF c
  <2>16. \A m \in RowNames(g) \ {g.connect} : w.fields[m] = v.fields[m]
    BY <2>8 DEF c
  <2> QED
    BY <2>8, <2>9, <2>13, <2>14, <2>15, <2>16 DEF w
<1> QED
  BY <1>1, <1>2

LEMMA ListenRow ==
  ASSUME NEW g, RowsKnown(g), NEW v, NetRows(g, v), NEW p
  PROVE  LET w == ApplyListen(g, p, v)
         IN  /\ NetRows(g, w) /\ w.data = v.data
             /\ PassedOn(g, v) => PassedOn(g, w)
             /\ \A m \in RowNames(g) : m # g.listen \/ Multiple(g) => w.fields[m] = v.fields[m]
             /\ g.listen = g.connect /\ g.connect \in g.strings =>
                  IF p = "listen" THEN /\ w.fields[g.listen].enabled <=> p = "listen"
                                       /\ w.fields[g.listen].value = NowhereIp
                  ELSE w = v
             /\ Hosts(g) =>
                  /\ w.fields[g.listen].enabled <=> p = "listen"
                  /\ w.fields[g.listen].value = Bit(p, "listen")
<1> DEFINE n == g.listen
           on == p = "listen"
           value == Switch(g, n, on)
           w == ApplyListen(g, p, v)
<1>1. HasRows(g, v)
  BY DEF NetRows
<1>2. n = g.connect /\ n \in RowNames(g) => n \in g.strings /\ ~Multiple(g)
  BY DEF RowsKnown, Multiple
<1>3. CASE n \notin RowNames(g) \/ Multiple(g) \/ (~on /\ n = g.connect)
  <2>1. w = v
    BY <1>3 DEF ApplyListen
  <2>2. g.connect \in g.strings => g.connect \in RowNames(g)
    BY DEF RowNames
  <2>3. ~Hosts(g)
    BY <1>2, <1>3 DEF Hosts
  <2> QED
    BY <1>2, <1>3, <2>1, <2>2, <2>3
<1>4. CASE n \in RowNames(g) /\ ~Multiple(g) /\ (on \/ n # g.connect)
  <2>1. w = Put(g, v, n, value, on)
    BY <1>4 DEF ApplyListen
  <2>2. on \in BOOLEAN /\ (on <=> p = "listen")
    OBVIOUS
  <2>3. n \in g.strings => n = g.connect /\ value = NowhereIp
    BY <1>4 DEF RowsKnown, RowNames, Switch
  <2>4. n \notin g.strings => value = Bit(p, "listen")
    BY DEF Switch, Bit
  <2>5. ~Real(NowhereIp)
    BY DEF Real
  <2>6. n \in RowNames(g)
    BY <1>4
  <2>7. n = g.connect /\ n \in g.strings => p = "listen"
    BY <1>4
  <2>8. g.dedicated \in RowNames(g) => g.dedicated # n
    BY DEF RowsKnown
  <2>9. n = g.connect => n \in g.strings
    BY <1>2, <1>4
  <2> HIDE DEF value, on, w, n
  <2>10. /\ HasRows(g, w)
         /\ w.fields[n] = [value |-> value, enabled |-> on]
         /\ \A m \in RowNames(g) \ {n} : w.fields[m] = v.fields[m]
         /\ PassedOn(g, v) => PassedOn(g, w)
         /\ Kept(v.data, w.data)
         /\ w.data.ip = IF n = g.connect /\ n \in g.strings /\ Real(value)
                        THEN value ELSE v.data.ip
    BY <1>1, <2>1, <2>6, PutRow
  <2>11. w.data = v.data
    <3>1. w.data.ip = v.data.ip
      BY <2>3, <2>5, <2>10
    <3>2. IsMemory(v.data) /\ IsMemory(w.data)
      BY <1>1, <2>10 DEF HasRows, IsView
    <3> QED
      BY <2>10, <3>1, <3>2, SameMemory
  <2>12. w.fields[n].value = value /\ (w.fields[n].enabled <=> p = "listen")
    BY <2>2, <2>10
  <2>13. AddressKnown(g, w)
    <3>1. CASE n = g.connect
      BY <2>3, <2>5, <2>9, <2>12, <3>1 DEF AddressKnown
    <3>2. CASE n # g.connect /\ g.connect \in g.strings
      <4>1. w.fields[g.connect] = v.fields[g.connect]
        BY <2>10, <3>2 DEF RowNames
      <4> QED
        BY <2>11, <4>1 DEF AddressKnown, NetRows
    <3> QED
      BY <3>1, <3>2 DEF AddressKnown
  <2>14. NetRows(g, w)
    <3>1. g.dedicated \in RowNames(g) => w.fields[g.dedicated] = v.fields[g.dedicated]
      BY <2>8, <2>10
    <3> QED
      BY <2>10, <2>13, <3>1 DEF NetRows
  <2>15. \A m \in RowNames(g) : m # g.listen \/ Multiple(g) => w.fields[m] = v.fields[m]
    BY <1>4, <2>10 DEF n
  <2>16. g.listen = g.connect /\ g.connect \in g.strings =>
           IF p = "listen" THEN /\ w.fields[g.listen].enabled <=> p = "listen"
                                /\ w.fields[g.listen].value = NowhereIp
           ELSE w = v
    BY <2>3, <2>7, <2>12 DEF n
  <2>17. Hosts(g) =>
           /\ w.fields[g.listen].enabled <=> p = "listen"
           /\ w.fields[g.listen].value = Bit(p, "listen")
    BY <2>4, <2>12 DEF n, Hosts
  <2> QED
    BY <2>10, <2>11, <2>14, <2>15, <2>16, <2>17 DEF w
<1> QED
  BY <1>3, <1>4

LEMMA DedicatedRow ==
  ASSUME NEW g, RowsKnown(g), NEW v, NetRows(g, v), NEW p, NEW w, w = ApplyDedicated(g, p, v)
  PROVE  /\ NetRows(g, w) /\ w.data = v.data
         /\ PassedOn(g, v) => PassedOn(g, w)
         /\ \A m \in RowNames(g) \ {g.dedicated} : w.fields[m] = v.fields[m]
         /\ g.dedicated \in RowNames(g) => w.fields[g.dedicated].value = Bit(p, "dedicated")
<1> DEFINE n == g.dedicated
           switched == v.fields[n].enabled
           value == Switch(g, n, p = "dedicated")
<1>1. CASE n \notin RowNames(g)
  <2>1. w = v
    BY <1>1 DEF ApplyDedicated
  <2> QED
    BY <1>1, <2>1
<1>2. CASE n \in RowNames(g)
  <2>1. n # "" /\ n \notin g.strings \cup {g.connect}
    BY <1>2 DEF RowsKnown
  <2>2. HasRows(g, v) /\ n \in RowNames(g)
    BY <1>2 DEF NetRows
  <2>3. w = Put(g, v, n, value, switched)
    BY <1>2 DEF ApplyDedicated
  <2>4. switched = TRUE
    BY <1>2 DEF NetRows
  <2>5. value = Bit(p, "dedicated")
    BY <2>1 DEF Switch, Bit
  <2> HIDE DEF value, switched, n
  <2>6. /\ HasRows(g, w)
        /\ w.fields[n] = [value |-> value, enabled |-> switched]
        /\ \A m \in RowNames(g) \ {n} : w.fields[m] = v.fields[m]
        /\ PassedOn(g, v) => PassedOn(g, w)
        /\ Kept(v.data, w.data)
        /\ w.data.ip = IF n = g.connect /\ n \in g.strings /\ Real(value)
                       THEN value ELSE v.data.ip
    BY <2>2, <2>3, PutRow
  <2>7. w.data = v.data
    <3>1. IsMemory(v.data) /\ IsMemory(w.data) /\ w.data.ip = v.data.ip
      BY <2>1, <2>2, <2>6 DEF HasRows, IsView
    <3> QED
      BY <2>6, <3>1, SameMemory
  <2>8. AddressKnown(g, w)
    <3>1. g.connect \in g.strings => w.fields[g.connect] = v.fields[g.connect]
      BY <2>1, <2>6 DEF RowNames
    <3> QED
      BY <2>7, <3>1 DEF AddressKnown, NetRows
  <2>9. NetRows(g, w)
    <3>1. w.fields[n].enabled = TRUE
      BY <2>4, <2>6
    <3> QED
      BY <2>6, <2>8, <3>1 DEF NetRows, n
  <2>10. g.dedicated \in RowNames(g) =>
           w.fields[g.dedicated].value = Bit(p, "dedicated")
    <3>1. w.fields[n].value = value
      BY <2>6
    <3> QED
      BY <2>5, <3>1 DEF n
  <2>11. \A m \in RowNames(g) \ {g.dedicated} : w.fields[m] = v.fields[m]
    BY <2>6 DEF n
  <2> QED
    BY <2>6, <2>7, <2>9, <2>10, <2>11
<1> QED
  BY <1>1, <1>2

LEMMA MemoryPreferred ==
  ASSUME NEW d, IsMemory(d), NEW p
  PROVE  LET e == [d EXCEPT !.preference = p]
         IN  IsMemory(e) /\ e.preference = p /\ e.ip = d.ip
<1> DEFINE e == [d EXCEPT !.preference = p]
<1>1. e = [preference |-> p, ip |-> d.ip, zeroTier |-> d.zeroTier, network |-> d.network]
  BY DEF IsMemory
<1> HIDE DEF e
<1>2. IsMemory(e) /\ e.preference = p /\ e.ip = d.ip
  BY <1>1 DEF IsMemory
<1> QED
  BY <1>2 DEF e

LEMMA MemoryNetworked ==
  ASSUME NEW d, IsMemory(d), NEW id, NEW on
  PROVE  LET e == [d EXCEPT !.network = id, !.zeroTier = on]
         IN  IsMemory(e) /\ e.preference = d.preference /\ e.ip = d.ip
<1> DEFINE e == [d EXCEPT !.network = id, !.zeroTier = on]
<1>1. DOMAIN d = {"preference", "ip", "zeroTier", "network"}
  BY DEF IsMemory
<1>2. /\ DOMAIN e = DOMAIN d /\ e.network = id /\ e.zeroTier = on
      /\ e.preference = d.preference /\ e.ip = d.ip
  BY <1>1, Zenon
<1>3. e = [x \in {"preference", "ip", "zeroTier", "network"} |-> e[x]]
  BY <1>1, <1>2
<1> HIDE DEF e
<1>4. IsMemory(e)
  BY <1>2, <1>3 DEF IsMemory
<1> QED
  BY <1>2, <1>4 DEF e

LEMMA AppliedRows ==
  ASSUME NEW g, RowsKnown(g), NEW v, NetRows(g, v), NEW p
  PROVE  LET w == Applied(g, p, v)
         IN  /\ NetRows(g, w) /\ Switches(g, w, p)
             /\ w.data.preference = p /\ w.data.ip = v.data.ip
             /\ PassedOn(g, v) => PassedOn(g, w)
             /\ \A m \in Plain(g) : w.fields[m] = v.fields[m]
             /\ g.connect \in g.strings =>
                  /\ p = "connect" => w.fields[g.connect].value = v.data.ip
                  /\ p = "listen" /\ g.listen = g.connect =>
                       w.fields[g.connect].value = NowhereIp
<1> DEFINE preferred == [v EXCEPT !.data.preference = p]
           d == [v.data EXCEPT !.preference = p]
           connected == ApplyConnect(g, p, preferred)
           listening == ApplyListen(g, p, connected)
           w == ApplyDedicated(g, p, listening)
<1>1. /\ NetRows(g, preferred)
      /\ preferred.fields = v.fields /\ preferred.data = d /\ d.ip = v.data.ip /\ d.preference = p
      /\ PassedOn(g, v) => PassedOn(g, preferred)
  <2>1. /\ DOMAIN preferred = {"fields", "args", "data"} /\ preferred.data = d
        /\ preferred.args = v.args /\ preferred.fields = v.fields
    BY DEF NetRows, HasRows, IsView
  <2>2. IsMemory(d) /\ d.ip = v.data.ip /\ d.preference = p
    BY MemoryPreferred DEF NetRows, HasRows, IsView
  <2> HIDE DEF preferred, d
  <2> QED
    BY <2>1, <2>2 DEF NetRows, HasRows, IsView, AddressKnown, PassedOn
<1>2. w = Applied(g, p, v)
  BY DEF Applied
<1> HIDE DEF preferred, d
<1>3. /\ NetRows(g, connected) /\ connected.data = d
      /\ PassedOn(g, v) => PassedOn(g, connected)
      /\ \A m \in RowNames(g) \ {g.connect} : connected.fields[m] = v.fields[m]
      /\ g.connect \in g.strings =>
           /\ connected.fields[g.connect].enabled <=> p = "connect"
           /\ p = "connect" => connected.fields[g.connect].value = v.data.ip
      /\ g.connect \in g.flags =>
           /\ connected.fields[g.connect].enabled <=> p = "connect"
           /\ connected.fields[g.connect].value = Bit(p, "connect")
  BY <1>1, ConnectRow
<1> HIDE DEF connected
<1>4. /\ NetRows(g, listening) /\ listening.data = connected.data
      /\ PassedOn(g, connected) => PassedOn(g, listening)
      /\ \A m \in RowNames(g) :
            m # g.listen \/ Multiple(g) => listening.fields[m] = connected.fields[m]
      /\ g.listen = g.connect /\ g.connect \in g.strings =>
           IF p = "listen" THEN /\ listening.fields[g.listen].enabled <=> p = "listen"
                                /\ listening.fields[g.listen].value = NowhereIp
           ELSE listening = connected
      /\ Hosts(g) =>
           /\ listening.fields[g.listen].enabled <=> p = "listen"
           /\ listening.fields[g.listen].value = Bit(p, "listen")
  BY <1>3, ListenRow
<1> HIDE DEF listening
<1>5. /\ NetRows(g, w) /\ w.data = listening.data
      /\ PassedOn(g, listening) => PassedOn(g, w)
      /\ \A m \in RowNames(g) \ {g.dedicated} : w.fields[m] = listening.fields[m]
      /\ g.dedicated \in RowNames(g) =>
           w.fields[g.dedicated].value = Bit(p, "dedicated")
  BY <1>4, DedicatedRow
<1> HIDE DEF w
<1>6. \A m \in Plain(g) : w.fields[m] = v.fields[m]
  <2> SUFFICES ASSUME NEW m \in Plain(g) PROVE w.fields[m] = v.fields[m]
    OBVIOUS
  <2>1. m \in RowNames(g) \ {g.dedicated, g.connect}
    BY DEF Plain, Hidden
  <2>2. m # g.listen \/ Multiple(g)
    BY <2>1 DEF Plain, Hidden, RowsKnown
  <2> QED
    BY <1>3, <1>4, <1>5, <2>1, <2>2
<1>7. g.connect \in RowNames(g) => g.connect # g.dedicated
  BY DEF RowsKnown
<1>8. ASSUME g.connect \in g.strings
      PROVE  /\ w.fields[g.connect].enabled <=> Joins(g, p)
             /\ p = "connect" => w.fields[g.connect].value = v.data.ip
             /\ p = "listen" /\ g.listen = g.connect => w.fields[g.connect].value = NowhereIp
  <2>1. g.connect \in RowNames(g)
    BY <1>8 DEF RowNames
  <2>2. w.fields[g.connect] = listening.fields[g.connect]
    BY <1>5, <1>7, <2>1
  <2>3. CASE g.listen # g.connect
    <3>1. listening.fields[g.connect] = connected.fields[g.connect]
      BY <1>4, <2>1, <2>3
    <3> QED
      BY <1>3, <1>8, <2>2, <2>3, <3>1 DEF Joins
  <2>4. CASE g.listen = g.connect /\ p # "listen"
    BY <1>3, <1>4, <1>8, <2>2, <2>4 DEF Joins
  <2>5. CASE g.listen = g.connect /\ p = "listen"
    BY <1>4, <1>8, <2>2, <2>5 DEF Joins
  <2> QED
    BY <2>3, <2>4, <2>5
<1>9. ASSUME g.connect \in g.flags
      PROVE  /\ w.fields[g.connect].enabled <=> p = "connect"
             /\ w.fields[g.connect].value = Bit(p, "connect")
  <2>1. g.connect \in RowNames(g)
    BY <1>9 DEF RowNames
  <2>2. g.connect # g.listen
    BY <1>9, <2>1 DEF RowsKnown
  <2>3. w.fields[g.connect] = connected.fields[g.connect]
    BY <1>4, <1>5, <1>7, <2>1, <2>2
  <2> QED
    BY <1>3, <1>9, <2>3
<1>10. ASSUME Hosts(g)
       PROVE  /\ w.fields[g.listen].enabled <=> p = "listen"
              /\ w.fields[g.listen].value = Bit(p, "listen")
  <2>1. g.listen \in RowNames(g) \ {g.dedicated}
    BY <1>10 DEF Hosts, RowsKnown
  <2>2. w.fields[g.listen] = listening.fields[g.listen]
    BY <1>5, <2>1
  <2> QED
    BY <1>4, <1>10, <2>2
<1>11. Switches(g, w, p)
  BY <1>5, <1>8, <1>9, <1>10 DEF Switches, NetRows
<1>12. w.data.preference = p /\ w.data.ip = v.data.ip
  BY <1>1, <1>3, <1>4, <1>5
<1> QED
  <2>1. PassedOn(g, v) => PassedOn(g, w)
    BY <1>1, <1>3, <1>4, <1>5
  <2> QED
    BY <1>2, <1>5, <1>6, <1>8, <1>11, <1>12, <2>1

\* What holds of the view of a game after every step.
ViewFits(g, v) ==
  /\ NetRows(g, v) /\ PassedOn(g, v)
  /\ Switches(g, v, v.data.preference)
  /\ \A n \in Plain(g) : v.fields[n].enabled = TRUE

LEMMA PreferenceFits ==
  ASSUME NEW g, RowsKnown(g), NEW v, ViewFits(g, v), NEW p
  PROVE  ViewFits(g, Applied(g, p, v))
<1> DEFINE w == Applied(g, p, v)
<1>1. /\ NetRows(g, w) /\ Switches(g, w, p) /\ w.data.preference = p
      /\ PassedOn(g, v) => PassedOn(g, w)
      /\ \A m \in Plain(g) : w.fields[m] = v.fields[m]
  BY AppliedRows DEF ViewFits
<1> HIDE DEF w
<1> QED
  BY <1>1 DEF ViewFits, w

\* A game that is opened.
LEMMA OpenedRows ==
  ASSUME NEW g, RowsKnown(g), NEW d, IsMemory(d)
  PROVE  LET w == InitLaunchSettings(g, d)
         IN  /\ ViewFits(g, w)
             /\ w.data.preference = d.preference /\ w.data.ip = d.ip
             /\ \A n \in Plain(g) : w.fields[n].value = ""
             /\ g.connect \in g.strings =>
                  /\ d.preference = "connect" => w.fields[g.connect].value = d.ip
                  /\ d.preference = "listen" /\ g.listen = g.connect =>
                       w.fields[g.connect].value = NowhereIp
<1> DEFINE switched == TRUE
           fresh == [n \in RowNames(g) |->
                      [value |-> IF n = g.connect /\ n \in g.strings THEN d.ip ELSE "",
                       enabled |-> switched]]
           v == View(fresh, <<>>, d)
           a == Applied(g, d.preference, v)
           w == Persisted(g, a, RowNames(g))
<1>1. w = InitLaunchSettings(g, d)
  BY DEF InitLaunchSettings
<1>2. switched = TRUE
  OBVIOUS
<1> HIDE DEF switched
<1>3. /\ DOMAIN fresh = RowNames(g)
      /\ \A n \in RowNames(g) : fresh[n].enabled = TRUE
      /\ \A n \in Plain(g) : fresh[n].value = ""
      /\ g.connect \in g.strings => fresh[g.connect].value = d.ip
  BY <1>2 DEF Plain, RowNames
<1> HIDE DEF fresh
<1>4. v.fields = fresh /\ v.data = d /\ DOMAIN v.args = {} /\ DOMAIN v = {"fields", "args", "data"}
  BY DEF View
<1> HIDE DEF v
<1>5. NetRows(g, v)
  BY <1>3, <1>4 DEF NetRows, HasRows, IsView, AddressKnown
<1>6. /\ NetRows(g, a) /\ Switches(g, a, d.preference)
      /\ a.data.preference = d.preference /\ a.data.ip = v.data.ip
      /\ \A m \in Plain(g) : a.fields[m] = v.fields[m]
      /\ g.connect \in g.strings =>
           /\ d.preference = "connect" => a.fields[g.connect].value = v.data.ip
           /\ d.preference = "listen" /\ g.listen = g.connect =>
                a.fields[g.connect].value = NowhereIp
  BY <1>5, AppliedRows
<1> HIDE DEF a
<1>7. HasRows(g, w) /\ w.fields = a.fields /\ w.data = a.data /\ PassedOn(g, w)
  <2>1. HasRows(g, a) /\ AddressKnown(g, a)
    BY <1>6 DEF NetRows
  <2> QED
    BY <2>1, PersistedRows
<1> HIDE DEF w
<1>8. NetRows(g, w) /\ Switches(g, w, w.data.preference)
  BY <1>6, <1>7 DEF NetRows, AddressKnown, Switches
<1>9. \A n \in Plain(g) : w.fields[n] = fresh[n] /\ n \in RowNames(g)
  BY <1>4, <1>6, <1>7 DEF Plain
<1>10. ViewFits(g, w)
  BY <1>3, <1>7, <1>8, <1>9 DEF ViewFits
<1>11. \A n \in Plain(g) : w.fields[n].value = ""
  BY <1>3, <1>9
<1>12. g.connect \in g.strings =>
         /\ d.preference = "connect" => w.fields[g.connect].value = d.ip
         /\ d.preference = "listen" /\ g.listen = g.connect =>
              w.fields[g.connect].value = NowhereIp
  BY <1>4, <1>6, <1>7
<1>13. w.data.preference = d.preference /\ w.data.ip = d.ip
  BY <1>4, <1>6, <1>7
<1> QED
  BY <1>1, <1>10, <1>11, <1>12, <1>13

\* A setting that no preference switches is changed.
LEMMA PlainRow ==
  ASSUME NEW g, RowsKnown(g), NEW v, ViewFits(g, v), NEW n \in Plain(g), NEW value,
         NEW switched, switched = v.fields[n].enabled
  PROVE  LET w == Put(g, v, n, value, switched)
         IN  /\ ViewFits(g, w) /\ w.data = v.data
             /\ w.fields[n] = [value |-> value, enabled |-> switched]
             /\ \A m \in RowNames(g) \ {n} : w.fields[m] = v.fields[m]
<1> DEFINE w == Put(g, v, n, value, switched)
<1>1. switched = TRUE
  BY DEF ViewFits
<1>2. n \in RowNames(g) /\ n # g.connect /\ n # g.dedicated
  BY DEF Plain, Hidden
<1>3. Hosts(g) => n # g.listen
  BY DEF Hosts, Plain, Hidden
<1>4. HasRows(g, v) /\ PassedOn(g, v) /\ NetRows(g, v)
  BY DEF ViewFits, NetRows
<1>5. /\ HasRows(g, w)
      /\ w.fields[n] = [value |-> value, enabled |-> switched]
      /\ \A m \in RowNames(g) \ {n} : w.fields[m] = v.fields[m]
      /\ PassedOn(g, v) => PassedOn(g, w)
      /\ Kept(v.data, w.data)
      /\ w.data.ip = IF n = g.connect /\ n \in g.strings /\ Real(value) THEN value ELSE v.data.ip
  BY <1>2, <1>4, PutRow
<1> HIDE DEF w
<1>6. w.data = v.data
  BY <1>2, <1>4, <1>5, SameMemory DEF HasRows, IsView
<1>7. /\ g.connect \in RowNames(g) => w.fields[g.connect] = v.fields[g.connect]
      /\ Hosts(g) => w.fields[g.listen] = v.fields[g.listen]
      /\ g.dedicated \in RowNames(g) => w.fields[g.dedicated] = v.fields[g.dedicated]
  BY <1>2, <1>3, <1>5 DEF Hosts
<1>8. NetRows(g, w)
  BY <1>4, <1>5, <1>6, <1>7 DEF NetRows, AddressKnown, RowNames
<1>9. Switches(g, w, w.data.preference)
  BY <1>6, <1>7 DEF ViewFits, Switches, RowNames
<1>10. \A m \in Plain(g) : w.fields[m].enabled = TRUE
  <2> SUFFICES ASSUME NEW m \in Plain(g) PROVE w.fields[m].enabled = TRUE
    OBVIOUS
  <2>1. CASE m = n
    BY <1>1, <1>5, <2>1
  <2>2. CASE m # n
    BY <1>5, <2>2 DEF ViewFits, Plain
  <2> QED
    BY <2>1, <2>2
<1>11. ViewFits(g, w)
  BY <1>4, <1>5, <1>8, <1>9, <1>10 DEF ViewFits
<1> QED
  BY <1>5, <1>6, <1>11 DEF w

\* An address is typed.
Addressed(g, v, typed, w) ==
  /\ ViewFits(g, w)
  /\ w.data.preference = v.data.preference
  /\ w.data.ip = IF Real(typed) THEN typed ELSE v.data.ip
  /\ w.fields[g.connect].value = typed
  /\ \A m \in Plain(g) : w.fields[m] = v.fields[m]

LEMMA AddressRow ==
  ASSUME NEW g, RowsKnown(g), g.connect \in g.strings, NEW v, ViewFits(g, v), NEW typed,
         NEW switched, switched = v.fields[g.connect].enabled
  PROVE  Addressed(g, v, typed, Put(g, v, g.connect, typed, switched))
<1> DEFINE c == g.connect
           w == Put(g, v, c, typed, switched)
<1>1. c \in RowNames(g) /\ c \notin g.flags /\ c # g.dedicated /\ c \in g.strings
  BY DEF RowsKnown, RowNames
<1>2. Hosts(g) => c # g.listen
  BY DEF Hosts
<1>3. HasRows(g, v) /\ PassedOn(g, v) /\ NetRows(g, v)
  BY DEF ViewFits, NetRows
<1>4. switched <=> Joins(g, v.data.preference)
  BY DEF ViewFits, Switches
<1> HIDE DEF c
<1>5. /\ HasRows(g, w)
      /\ w.fields[c] = [value |-> typed, enabled |-> switched]
      /\ \A m \in RowNames(g) \ {c} : w.fields[m] = v.fields[m]
      /\ PassedOn(g, v) => PassedOn(g, w)
      /\ Kept(v.data, w.data)
      /\ w.data.ip = IF c = g.connect /\ c \in g.strings /\ Real(typed)
                     THEN typed ELSE v.data.ip
  BY <1>1, <1>3, PutRow
<1> HIDE DEF w
<1>6. /\ w.data.preference = v.data.preference
      /\ w.data.ip = IF Real(typed) THEN typed ELSE v.data.ip
  BY <1>1, <1>5 DEF Kept, c
<1>7. w.fields[c].value = typed
  BY <1>5
<1>8. w.fields[c].enabled <=> Joins(g, v.data.preference)
  <2>1. w.fields[c].enabled = switched
    BY <1>5
  <2> QED
    BY <1>4, <2>1
<1>9. /\ Hosts(g) => w.fields[g.listen] = v.fields[g.listen]
      /\ g.dedicated \in RowNames(g) => w.fields[g.dedicated] = v.fields[g.dedicated]
      /\ \A m \in Plain(g) : w.fields[m] = v.fields[m]
  BY <1>1, <1>2, <1>5 DEF Hosts, Plain, c
<1>10. NetRows(g, w)
  <2>1. AddressKnown(g, w)
    BY <1>6, <1>7 DEF AddressKnown, c
  <2> QED
    BY <1>3, <1>5, <1>9, <2>1 DEF NetRows
<1>11. Switches(g, w, w.data.preference)
  <2>1. Switches(g, v, v.data.preference)
    BY DEF ViewFits
  <2>2. g.connect \notin g.flags /\ (w.fields[g.connect].enabled <=> Joins(g, v.data.preference))
    BY <1>1, <1>8 DEF c
  <2> QED
    BY <1>6, <1>9, <2>1, <2>2 DEF Switches
<1>12. ViewFits(g, w)
  BY <1>3, <1>5, <1>9, <1>10, <1>11 DEF ViewFits
<1>13. Addressed(g, v, typed, w)
  BY <1>6, <1>7, <1>9, <1>12 DEF Addressed, c
<1> QED
  BY <1>13 DEF w, c

-----------------------------------------------------------------------------
\* The view as it is.
NowView == View(fields, args, data)

\* What the rows say is what the user has said.
SaidSo ==
  /\ data.ip = said.real
  /\ setup.connect \in setup.strings /\ Joins(setup, data.preference) =>
       fields[setup.connect].value = ExpectedAddress
  /\ DOMAIN said.chosen \subseteq Plain(setup)
  /\ \A n \in Plain(setup) : fields[n].value = ChosenFor(n)

\* What the rows say of the settings is what is passed on.
LEMMA PlainPassed ==
  ASSUME RowsKnown(setup), ViewFits(setup, NowView), SaidSo, NEW n \in Plain(setup)
  PROVE  /\ n \in DOMAIN args => args[n] = ChosenFor(n)
         /\ ChosenFor(n) # "" => n \in DOMAIN args
<1>1. NowView.fields = fields /\ NowView.args = args
  BY DEF NowView, View
<1>2. /\ DOMAIN args = {m \in RowNames(setup) : Passed(setup, m, fields[m])}
      /\ \A m \in DOMAIN args : args[m] = fields[m].value
  BY <1>1 DEF ViewFits, PassedOn
<1>3. n \in RowNames(setup) /\ n \notin setup.flags /\ fields[n].value = ChosenFor(n)
  BY DEF RowsKnown, Plain, SaidSo
<1>4. fields[n].enabled = TRUE
  BY <1>1 DEF ViewFits
<1>5. ChosenFor(n) # "" => Passed(setup, n, fields[n])
  BY <1>3, <1>4 DEF Passed
<1> QED
  BY <1>2, <1>3, <1>5

\* The address is passed on when the preference is one that needs it.
LEMMA AddressPassed ==
  ASSUME RowsKnown(setup), ViewFits(setup, NowView), SaidSo, setup.connect \in setup.strings
  PROVE  IF Joins(setup, data.preference)
         THEN setup.connect \in DOMAIN args /\ args[setup.connect] = ExpectedAddress
         ELSE setup.connect \notin DOMAIN args /\ ExpectedAddress = ""
<1> DEFINE c == setup.connect
<1>1. NowView.fields = fields /\ NowView.args = args /\ NowView.data = data
  BY DEF NowView, View
<1>2. /\ DOMAIN args = {m \in RowNames(setup) : Passed(setup, m, fields[m])}
      /\ \A m \in DOMAIN args : args[m] = fields[m].value
  BY <1>1 DEF ViewFits, PassedOn
<1>3. c \in RowNames(setup) /\ c \notin setup.flags
  BY DEF RowsKnown, RowNames
<1>4. fields[c].enabled <=> Joins(setup, data.preference)
  BY <1>1 DEF ViewFits, Switches
<1>5. Passed(setup, c, fields[c]) <=> Joins(setup, data.preference)
  BY <1>3, <1>4 DEF Passed
<1>6. ~Joins(setup, data.preference) => ExpectedAddress = ""
  BY DEF Joins, ExpectedAddress
<1> QED
  BY <1>2, <1>3, <1>5, <1>6 DEF SaidSo

\* And so are the rows that say who hosts.
LEMMA HostPassed ==
  ASSUME RowsKnown(setup), ViewFits(setup, NowView)
  PROVE  /\ setup.connect \in setup.flags =>
              (setup.connect \in DOMAIN args <=> data.preference = "connect")
         /\ Hosts(setup) => (setup.listen \in DOMAIN args <=> data.preference = "listen")
         /\ setup.dedicated \in RowNames(setup) =>
              (setup.dedicated \in DOMAIN args /\ args[setup.dedicated] = "1"
                 <=> data.preference = "dedicated")
         /\ setup.dedicated \in setup.flags =>
              (setup.dedicated \in DOMAIN args <=> data.preference = "dedicated")
         /\ \A n \in {setup.connect, setup.listen, setup.dedicated} \cap DOMAIN args :
              n \notin setup.strings => args[n] # ""
<1>1. NowView.fields = fields /\ NowView.args = args /\ NowView.data = data
  BY DEF NowView, View
<1>2. /\ DOMAIN args = {m \in RowNames(setup) : Passed(setup, m, fields[m])}
      /\ \A m \in DOMAIN args : args[m] = fields[m].value
  BY <1>1 DEF ViewFits, PassedOn
<1>3. Switches(setup, NowView, data.preference)
  BY <1>1 DEF ViewFits
<1>4. setup.connect \in setup.flags =>
        (setup.connect \in DOMAIN args <=> data.preference = "connect")
  <2> SUFFICES ASSUME setup.connect \in setup.flags
               PROVE  setup.connect \in DOMAIN args <=> data.preference = "connect"
    OBVIOUS
  <2>1. setup.connect \in RowNames(setup) /\ setup.connect \notin setup.strings
    BY DEF RowNames, RowsKnown
  <2>2. /\ fields[setup.connect].enabled <=> data.preference = "connect"
        /\ fields[setup.connect].value = IF data.preference = "connect" THEN "1" ELSE "0"
    BY <1>1, <1>3 DEF Switches, Bit
  <2> QED
    BY <1>2, <2>1, <2>2 DEF Passed
<1>5. Hosts(setup) => (setup.listen \in DOMAIN args <=> data.preference = "listen")
  <2> SUFFICES ASSUME Hosts(setup)
               PROVE  setup.listen \in DOMAIN args <=> data.preference = "listen"
    OBVIOUS
  <2>1. setup.listen \in RowNames(setup) /\ setup.listen \notin setup.strings
    BY DEF Hosts
  <2>2. /\ fields[setup.listen].enabled <=> data.preference = "listen"
        /\ fields[setup.listen].value = IF data.preference = "listen" THEN "1" ELSE "0"
    BY <1>1, <1>3 DEF Switches, Bit
  <2> QED
    BY <1>2, <2>1, <2>2 DEF Passed
<1>6. ASSUME setup.dedicated \in RowNames(setup)
      PROVE  /\ setup.dedicated \in DOMAIN args /\ args[setup.dedicated] = "1"
                  <=> data.preference = "dedicated"
             /\ setup.dedicated \in setup.flags =>
                  (setup.dedicated \in DOMAIN args <=> data.preference = "dedicated")
  <2>1. setup.dedicated \notin setup.strings
    BY <1>6 DEF RowsKnown
  <2>2. fields[setup.dedicated].value = IF data.preference = "dedicated" THEN "1" ELSE "0"
    BY <1>1, <1>3, <1>6 DEF Switches, Bit
  <2>3. fields[setup.dedicated].enabled = TRUE
    BY <1>1, <1>6 DEF ViewFits, NetRows
  <2>4. Passed(setup, setup.dedicated, fields[setup.dedicated])
          <=> (setup.dedicated \in setup.flags => data.preference = "dedicated")
    BY <2>1, <2>2, <2>3 DEF Passed
  <2>5. setup.dedicated \in DOMAIN args
          <=> (setup.dedicated \in setup.flags => data.preference = "dedicated")
    BY <1>2, <1>6, <2>4
  <2>6. setup.dedicated \in DOMAIN args =>
          (args[setup.dedicated] = "1" <=> data.preference = "dedicated")
    BY <1>2, <2>2
  <2> QED
    BY <2>5, <2>6
<1>7. \A n \in {setup.connect, setup.listen, setup.dedicated} \cap DOMAIN args :
        n \notin setup.strings => args[n] # ""
  BY <1>2 DEF Passed
<1>8. setup.flags \subseteq RowNames(setup)
  BY DEF RowNames
<1> QED
  BY <1>4, <1>5, <1>6, <1>7, <1>8

\* The settings that make words of a command line.
Worded(g, a) == {n \in DOMAIN a : a[n] # "" /\ n # g.exe}

\* What the kinds of command lines make of what is passed on.
LEMMA LineOf ==
  ASSUME NEW g, RowsKnown(g), g.format # "vampire", NEW a, DOMAIN a \subseteq RowNames(g)
  PROVE  LET line == CommandLine(g, a)
             given == Worded(g, a)
         IN  /\ DOMAIN line \subseteq given \cup {"listen 1", "deathmatch"}
             /\ \A n \in given :
                  IF n \in DOMAIN line THEN line[n] = a[n]
                  ELSE /\ n = g.connect /\ n \in g.strings /\ a[n] = NowhereIp
                       /\ g.format = "sof" /\ "deathmatch" \in given
<1> DEFINE given == Worded(g, a)
           all == Restrict(a, given)
           typed == Peer(g, a)
           deathmatch == Numbered(g, a, "deathmatch")
           line == CommandLine(g, a)
<1>1. \/ line = all
      \/ line = Extended(all, "listen 1", "1")
      \/ line = Extended(all, "deathmatch", "1")
      \/ /\ line = Restrict(all, given \ {g.connect})
         /\ g.format = "sof" /\ deathmatch /\ typed = NowhereIp
  <2>1. Words(a, DOMAIN a \ {g.exe}) = all
    <3>1. {n \in DOMAIN a \cap (DOMAIN a \ {g.exe}) : a[n] # ""} = given
      BY DEF Worded
    <3> QED
      BY <3>1 DEF Words
  <2>2. DOMAIN all = given
    BY DEF Restrict
  <2> HIDE DEF all, given, typed, deathmatch
  <2>3. CASE g.format = "2.0"
    BY <2>1, <2>3 DEF CommandLine, QuakeLine
  <2>4. Quake2Line(g, a) = IF Joined(g, a) /\ ~deathmatch THEN Extended(all, "deathmatch", "1")
                           ELSE all
    BY <2>1 DEF Quake2Line, deathmatch
  <2>5. CASE g.format = "2.5"
    BY <2>4, <2>5 DEF CommandLine
  <2>6. CASE g.format = "sof"
    <3>1. line = IF typed = NowhereIp /\ deathmatch
                 THEN Restrict(Quake2Line(g, a), DOMAIN Quake2Line(g, a) \ {g.connect})
                 ELSE Quake2Line(g, a)
      BY <2>6 DEF CommandLine, SofLine, typed, deathmatch
    <3>2. CASE typed = NowhereIp /\ deathmatch
      BY <2>2, <2>4, <2>6, <3>1, <3>2
    <3>3. CASE ~(typed = NowhereIp /\ deathmatch)
      BY <2>4, <3>1, <3>3
    <3> QED
      BY <3>2, <3>3
  <2>7. CASE g.format \in {"3.0", "3space"}
    <3>1. g.exe \notin DOMAIN a
      BY <2>7 DEF RowsKnown
    <3>2. Words(a, DOMAIN a) = all
      <4>1. {n \in DOMAIN a \cap DOMAIN a : a[n] # ""}
              = {n \in DOMAIN a \cap (DOMAIN a \ {g.exe}) : a[n] # ""}
        BY <3>1
      <4> QED
        BY <2>1, <4>1 DEF Words
    <3>3. g.format = "3space" => DOMAIN a \cap g.strings = DOMAIN a
      BY DEF RowsKnown, RowNames
    <3>4. g.format = "3space" => Words(a, g.strings) = all
      BY <3>2, <3>3 DEF Words
    <3> QED
      BY <2>7, <3>2, <3>4 DEF CommandLine, Quake3Line, DynamixLine
  <2> QED
    BY <2>3, <2>5, <2>6, <2>7 DEF RowsKnown
<1>2. /\ typed = NowhereIp =>
           g.connect \in given /\ g.connect \in g.strings /\ a[g.connect] = NowhereIp
      /\ deathmatch => "deathmatch" \in given
  <2>1. "deathmatch" # g.exe
    BY DEF RowsKnown
  <2>2. g.connect \in DOMAIN a => g.connect # g.exe
    BY DEF RowsKnown, Net
  <2> QED
    BY <2>1, <2>2 DEF NowhereIp, Peer, Numbered, Worded
<1>3. DOMAIN all = given /\ \A n \in given : all[n] = a[n]
  BY DEF Restrict
<1> DEFINE Goal ==
             /\ DOMAIN line \subseteq given \cup {"listen 1", "deathmatch"}
             /\ \A n \in given :
                  IF n \in DOMAIN line THEN line[n] = a[n]
                  ELSE /\ n = g.connect /\ n \in g.strings /\ a[n] = NowhereIp
                       /\ g.format = "sof" /\ "deathmatch" \in given
<1> SUFFICES Goal
  OBVIOUS
<1> HIDE DEF all, typed, line, deathmatch
<1>4. CASE line = all
  BY <1>3, <1>4
<1>5. ASSUME NEW m \in {"listen 1", "deathmatch"}, line = Extended(all, m, "1")
      PROVE  /\ DOMAIN line \subseteq given \cup {"listen 1", "deathmatch"}
             /\ \A n \in given : n \in DOMAIN line /\ line[n] = a[n]
  BY <1>3, <1>5 DEF Extended
<1>6. CASE /\ line = Restrict(all, given \ {g.connect})
           /\ g.format = "sof" /\ deathmatch /\ typed = NowhereIp
  <2>1. DOMAIN line = given \ {g.connect} /\ \A n \in given \ {g.connect} : line[n] = a[n]
    BY <1>3, <1>6 DEF Restrict
  <2> QED
    BY <1>2, <1>6, <2>1
<1> QED
  BY <1>1, <1>4, <1>5, <1>6

\* The kind that says how to host by the name of the map, and that it joins.
LEMMA RavenLineOf ==
  ASSUME NEW g, RowsKnown(g), g.format = "vampire", NEW a, "map" \in DOMAIN a => "map" \in g.strings
  PROVE  LET line == CommandLine(g, a)
             given == Worded(g, a)
             role == IF "listen" \in given THEN "listen"
                     ELSE IF "serve" \in given THEN "serve" ELSE "map"
             kept == given \cap ({"join"} \cup (g.strings \ {"map"}))
         IN  /\ DOMAIN line = kept \cup (IF "map" \in given THEN {role} ELSE {})
             /\ "map" \in given => line[role] = a["map"]
             /\ \A n \in kept : line[n] = a[n]
<1> DEFINE given == Worded(g, a)
           role == IF "listen" \in given THEN "listen"
                   ELSE IF "serve" \in given THEN "serve" ELSE "map"
           kept == given \cap ({"join"} \cup (g.strings \ {"map"}))
           joined == Restrict(a, kept)
           line == CommandLine(g, a)
<1>1. /\ {"join", "listen", "serve"} \subseteq g.flags /\ g.strings \cap g.flags = {}
      /\ g.exe \notin {"join", "listen", "serve", "map"} /\ g.exe = "" /\ g.exe \notin g.strings
  BY DEF RowsKnown, Net, RowNames
<1>2. line = IF "map" \in given THEN Extended(joined, role, a["map"]) ELSE joined
  <2>1. {n \in DOMAIN a \cap ((g.strings \ {"map"}) \cup (g.flags \cap {"join"})) : a[n] # ""} = kept
    BY <1>1 DEF Worded
  <2>2. Words(a, (g.strings \ {"map"}) \cup (g.flags \cap {"join"})) = joined
    BY <2>1 DEF Words
  <2>3. /\ "map" \in given <=> "map" \in DOMAIN a \cap g.strings /\ a["map"] # ""
        /\ "listen" \in given <=> "listen" \in DOMAIN a \cap g.flags /\ a["listen"] # ""
        /\ "serve" \in given <=> "serve" \in DOMAIN a \cap g.flags /\ a["serve"] # ""
    BY <1>1 DEF Worded
  <2> HIDE DEF given, joined
  <2> QED
    BY <2>2, <2>3 DEF CommandLine, RavenLine
<1>3. DOMAIN joined = kept /\ role \notin kept /\ \A n \in kept : joined[n] = a[n]
  BY <1>1 DEF Restrict
<1> HIDE DEF joined, line, role, kept, given
<1>4. /\ DOMAIN line = kept \cup (IF "map" \in given THEN {role} ELSE {})
      /\ "map" \in given => line[role] = a["map"]
      /\ \A n \in kept : line[n] = a[n]
  BY <1>2, <1>3 DEF Extended
<1> QED
  BY <1>4 DEF line, role, kept, given

\* What a launch tells is what the user has said.
LEMMA LineTold ==
  ASSUME RowsKnown(setup), ViewFits(setup, NowView), SaidSo, told.line = CommandLine(setup, args)
  PROVE  TellsAddress /\ TellsHost /\ TellsChosen
<1> DEFINE given == Worded(setup, args)
           line == told.line
<1>1. \A n \in Plain(setup) :
        /\ n \in given => args[n] = ChosenFor(n) /\ ChosenFor(n) # ""
        /\ ChosenFor(n) # "" /\ n # setup.exe => n \in given
  BY PlainPassed DEF Worded
<1>2. \A n : n \notin Plain(setup) => ChosenFor(n) = ""
  BY DEF SaidSo, ChosenFor
<1>3. DOMAIN args \subseteq RowNames(setup)
  BY DEF ViewFits, NetRows, HasRows, NowView, View
<1>4. "map" \in RowNames(setup) => "map" \in Plain(setup)
  BY DEF RowsKnown, Net, Plain, Hidden
<1>5. "map" # setup.exe /\ "deathmatch" # setup.exe
  BY DEF RowsKnown
<1>6. given \subseteq RowNames(setup)
  BY <1>3 DEF Worded
<1>7. "map" \in given => args["map"] = ChosenFor("map")
  BY <1>1, <1>4, <1>6
<1>8. "map" \notin given => ChosenFor("map") = ""
  BY <1>1, <1>2, <1>4, <1>5, <1>6
<1>9. {setup.connect, setup.listen, setup.dedicated} \cap {setup.exe, "deathmatch", "map"}
        \subseteq {""}
  BY DEF RowsKnown, Net
<1>10. "listen 1" \notin RowNames(setup) /\ "" \notin RowNames(setup)
  BY DEF RowsKnown
<1>11. ASSUME setup.format # "vampire" PROVE TellsAddress /\ TellsHost /\ TellsChosen
  <2>1. /\ DOMAIN line \subseteq given \cup {"listen 1", "deathmatch"}
        /\ \A n \in given :
             IF n \in DOMAIN line THEN line[n] = args[n]
             ELSE /\ n = setup.connect /\ n \in setup.strings /\ args[n] = NowhereIp
                  /\ setup.format = "sof" /\ "deathmatch" \in given
    <3> DEFINE words == CommandLine(setup, args)
    <3>1. /\ DOMAIN words \subseteq given \cup {"listen 1", "deathmatch"}
          /\ \A n \in given :
               IF n \in DOMAIN words THEN words[n] = args[n]
               ELSE /\ n = setup.connect /\ n \in setup.strings /\ args[n] = NowhereIp
                    /\ setup.format = "sof" /\ "deathmatch" \in given
      BY <1>3, <1>11, LineOf
    <3> HIDE DEF words
    <3>2. line = words
      BY DEF words
    <3> QED
      BY <3>1, <3>2
  <2>2. "deathmatch" \in given => ChosenFor("deathmatch") # ""
    <3>1. "deathmatch" \in RowNames(setup) => "deathmatch" \in Plain(setup)
      BY <1>10 DEF RowsKnown, Net, Plain, Hidden
    <3> QED
      BY <1>1, <1>6, <3>1
  <2> HIDE DEF given
  <2>3. TellsAddress
    <3> SUFFICES ASSUME setup.connect \in setup.strings
                 PROVE  \/ ExpectedAddress = "" /\ ~Says(setup.connect)
                        \/ Says(setup.connect) /\ line[setup.connect] = ExpectedAddress
                        \/ /\ setup.format = "sof" /\ ExpectedAddress = NowhereIp
                           /\ ChosenFor("deathmatch") # ""
      BY DEF TellsAddress
    <3>1. setup.connect \in RowNames(setup)
      BY DEF RowNames
    <3>2. setup.connect \notin {setup.exe, "deathmatch", "listen 1"}
      BY <1>9, <1>10, <3>1
    <3>3. Says(setup.connect) => setup.connect \in given
      BY <2>1, <3>2 DEF Says
    <3>4. IF Joins(setup, data.preference)
          THEN setup.connect \in DOMAIN args /\ args[setup.connect] = ExpectedAddress
          ELSE setup.connect \notin DOMAIN args /\ ExpectedAddress = ""
      BY AddressPassed
    <3>5. setup.connect \in given <=> setup.connect \in DOMAIN args /\ args[setup.connect] # ""
      BY <3>2 DEF given, Worded
    <3> QED
      BY <2>1, <2>2, <3>3, <3>4, <3>5 DEF Says
  <2>4. TellsHost
    <3>1. ASSUME setup.dedicated # ""
          PROVE  Says(setup.dedicated) /\ line[setup.dedicated] = "1"
                   <=> data.preference = "dedicated"
      <4>1. setup.dedicated \in RowNames(setup) \ {setup.connect}
        BY <3>1 DEF RowsKnown, RowNames
      <4>2. setup.dedicated \notin {setup.exe, "deathmatch", "listen 1"}
        <5>1. setup.dedicated \notin {"listen 1", ""}
          BY <1>10, <4>1
        <5>2. setup.dedicated \notin {setup.exe, "deathmatch"}
          BY <1>9, <5>1
        <5> QED
          BY <5>1, <5>2
      <4>3. Says(setup.dedicated) <=> setup.dedicated \in given
        BY <2>1, <4>1, <4>2 DEF Says
      <4>4. setup.dedicated \in DOMAIN args /\ args[setup.dedicated] = "1"
              <=> data.preference = "dedicated"
        BY <4>1, HostPassed
      <4>5. setup.dedicated \in given
              <=> setup.dedicated \in DOMAIN args /\ args[setup.dedicated] # ""
        BY <4>2 DEF given, Worded
      <4> QED
        BY <2>1, <4>3, <4>4, <4>5 DEF Says
    <3>2. ASSUME setup.listen \in Hidden(setup) \ {""}
          PROVE  Says(setup.listen) <=> data.preference = "listen"
      <4>1. Hosts(setup) /\ setup.listen # setup.connect
        BY <3>2 DEF Hidden, Hosts, RowsKnown, RowNames
      <4>2. setup.listen \in RowNames(setup) /\ setup.listen \notin setup.strings
        BY <4>1 DEF Hosts
      <4>3. setup.listen \notin {setup.exe, "deathmatch", "listen 1"}
        BY <1>9, <1>10, <4>2
      <4>4. Says(setup.listen) <=> setup.listen \in given
        BY <2>1, <4>1, <4>3 DEF Says
      <4>5. setup.listen \in given <=> setup.listen \in DOMAIN args
        BY <4>2, <4>3, HostPassed DEF given, Worded
      <4> QED
        BY <4>1, <4>4, <4>5, HostPassed
    <3> QED
      BY <1>11, <3>1, <3>2 DEF TellsHost
  <2>5. MapWord = "map"
    BY <1>11 DEF MapWord
  <2>6. ASSUME NEW n \in DOMAIN line \ (Switched \cup {MapWord})
        PROVE  Added(n) \/ line[n] = ChosenFor(n)
    <3>1. CASE n \in given
      <4>1. n \in Plain(setup)
        BY <1>6, <2>6, <3>1 DEF Plain, Switched
      <4> QED
        BY <1>1, <2>1, <2>6, <3>1, <4>1
    <3>2. CASE n \notin given
      <4>1. n = "listen 1" \/ n = "deathmatch"
        BY <2>1, <2>6, <3>2
      <4>2. n = "deathmatch" => ChosenFor(n) = ""
        BY <1>1, <1>2, <1>5, <3>2
      <4> QED
        BY <4>1, <4>2 DEF Added
    <3> QED
      BY <3>1, <3>2
  <2>7. ASSUME NEW n \in DOMAIN said.chosen \ {setup.exe, "map"}, said.chosen[n] # ""
        PROVE  Says(n)
    <3>1. n \in Plain(setup) /\ ChosenFor(n) # ""
      BY <2>7 DEF SaidSo, ChosenFor
    <3>2. n \in given /\ n # setup.connect
      BY <1>1, <2>7, <3>1 DEF Plain
    <3> QED
      BY <2>1, <3>2 DEF Says
  <2>8. IF Says(MapWord) THEN line[MapWord] = ChosenFor("map") ELSE ChosenFor("map") = ""
    <3>1. Says("map") <=> "map" \in given
      <4>1. "map" \in given => "map" # setup.connect
        BY <1>4, <1>6 DEF Plain
      <4> QED
        BY <2>1, <4>1 DEF Says
    <3> QED
      BY <1>7, <1>8, <2>1, <2>5, <3>1 DEF Says
  <2>9. TellsChosen
    BY <2>6, <2>7, <2>8 DEF TellsChosen
  <2> QED
    BY <2>3, <2>4, <2>9
<1>12. ASSUME setup.format = "vampire" PROVE TellsAddress /\ TellsHost /\ TellsChosen
  <2> DEFINE role == IF "listen" \in given THEN "listen"
                     ELSE IF "serve" \in given THEN "serve" ELSE "map"
  <2> DEFINE words == given \cap ({"join"} \cup (setup.strings \ {"map"}))
  <2>1. /\ DOMAIN line = words \cup (IF "map" \in given THEN {role} ELSE {})
        /\ "map" \in given => line[role] = args["map"]
        /\ \A n \in words : line[n] = args[n]
    <3> DEFINE whole == CommandLine(setup, args)
    <3>1. "map" \in DOMAIN args => "map" \in setup.strings
      BY <1>3 DEF RowsKnown, RowNames
    <3>2. /\ DOMAIN whole = words \cup (IF "map" \in given THEN {role} ELSE {})
          /\ "map" \in given => whole[role] = args["map"]
          /\ \A n \in words : whole[n] = args[n]
      BY <1>12, <3>1, RavenLineOf
    <3> HIDE DEF whole, words, role, given
    <3>3. line = whole
      BY DEF whole
    <3> QED
      BY <3>2, <3>3
  <2>2. /\ setup.connect = "join" /\ setup.listen = "listen" /\ setup.dedicated = "serve"
        /\ Net(setup) \subseteq setup.flags \ DOMAIN setup.options
    BY <1>12 DEF RowsKnown
  <2>3. {"join", "listen", "serve"} \subseteq setup.flags /\ "listen" \notin DOMAIN setup.options
    BY <2>2 DEF Net
  <2>4. "join" \notin setup.strings /\ Hosts(setup)
    BY <2>2, <2>3 DEF RowsKnown, Hosts, RowNames, Multiple
  <2>5. "join" \in DOMAIN args <=> data.preference = "connect"
    BY <2>2, <2>3, HostPassed
  <2>6. "listen" \in DOMAIN args <=> data.preference = "listen"
    BY <2>2, <2>4, HostPassed
  <2>7. "serve" \in DOMAIN args <=> data.preference = "dedicated"
    BY <2>2, <2>3, HostPassed
  <2>8. \A n \in {"join", "listen", "serve"} : n \in given <=> n \in DOMAIN args
    <3>1. \A n \in {"join", "listen", "serve"} : n \notin setup.strings /\ n # setup.exe
      BY <1>9, <2>2, <2>3 DEF RowsKnown
    <3>2. \A n \in {"join", "listen", "serve"} \cap DOMAIN args : args[n] # ""
      BY <2>2, <3>1, HostPassed
    <3> QED
      BY <3>1, <3>2 DEF Worded
  <2> HIDE DEF given
  <2>9. TellsAddress
    BY <2>2, <2>4 DEF TellsAddress
  <2>10. TellsHost
    BY <1>12, <2>1, <2>5, <2>8 DEF TellsHost, Says, role
  <2>11. role = MapWord
    BY <1>12, <2>6, <2>7, <2>8 DEF MapWord
  <2>12. "join" \in Switched
    BY <2>2 DEF Switched
  <2>13. role \notin words
    BY <2>3 DEF RowsKnown, role
  <2> HIDE DEF role
  <2>14. \A n \in DOMAIN line \ (Switched \cup {MapWord}) : Added(n) \/ line[n] = ChosenFor(n)
    <3> SUFFICES ASSUME NEW n \in DOMAIN line \ (Switched \cup {MapWord})
                 PROVE  line[n] = ChosenFor(n)
      OBVIOUS
    <3>1. n \in words /\ n \in given
      BY <2>1, <2>11
    <3>2. n \in Plain(setup)
      BY <1>6, <3>1 DEF Plain, Switched
    <3> QED
      BY <1>1, <2>1, <3>1, <3>2
  <2>15. Says(MapWord) <=> "map" \in given
    BY <2>1, <2>11, <2>13 DEF Says
  <2>16. IF Says(MapWord) THEN line[MapWord] = ChosenFor("map") ELSE ChosenFor("map") = ""
    BY <1>7, <1>8, <2>1, <2>11, <2>15
  <2>17. TellsChosen
    BY <1>12, <2>14, <2>16 DEF TellsChosen
  <2> QED
    BY <2>9, <2>10, <2>17
<1> QED
  BY <1>11, <1>12

\* What the last launch has told, of what is passed on.
Launched ==
  /\ told.line = CommandLine(setup, args)
  /\ IF ~(Networked(setup) /\ data.zeroTier) THEN env = NoEnvironment
     ELSE /\ env.network = data.network
          /\ data.network # "" =>
               /\ env.node = RoleOf(data)
               /\ env.fallback = FallbackIp(setup, args, data)

\* The inductive invariant.
SettingsInv ==
  /\ setup \in Launches /\ IsMemory(registry)
  /\ DOMAIN env = {"network", "node", "fallback"}
  /\ DOMAIN said = {"real", "typed", "chosen"}
  /\ ViewFits(setup, NowView) /\ SaidSo
  /\ told.done => Launched

\* And so it is with the environment.
LEMMA EnvironmentTold ==
  ASSUME RowsKnown(setup), ViewFits(setup, NowView), SaidSo, told.done => Launched
  PROVE  EnvironmentFits
<1>1. FallbackIp(setup, args, data)
        = IF setup.connect \in setup.strings /\ ExpectedAddress \notin {"", NowhereIp}
          THEN ExpectedAddress ELSE said.real
  <2>1. data.ip = said.real
    BY DEF SaidSo
  <2>2. CASE setup.connect \notin setup.strings
    BY <2>1, <2>2 DEF FallbackIp
  <2>3. CASE setup.connect \in setup.strings
    BY <2>1, <2>3, AddressPassed DEF FallbackIp
  <2> QED
    BY <2>2, <2>3
<1>2. RoleOf(data) = "server" <=> data.preference \in {"listen", "dedicated"}
  BY DEF RoleOf
<1> QED
  BY <1>1, <1>2 DEF Launched, EnvironmentFits

\* The rows are no different for what else a view might have.
LEMMA ViewAgain ==
  ASSUME NEW g, NEW v, ViewFits(g, v)
  PROVE  ViewFits(g, View(v.fields, v.args, v.data))
<1> DEFINE w == View(v.fields, v.args, v.data)
<1>1. /\ DOMAIN w = {"fields", "args", "data"}
      /\ w.fields = v.fields /\ w.args = v.args /\ w.data = v.data
  BY DEF View
<1> HIDE DEF w
<1>2. NetRows(g, w)
  BY <1>1 DEF ViewFits, NetRows, HasRows, IsView, AddressKnown
<1>3. PassedOn(g, w) /\ Switches(g, w, w.data.preference)
  BY <1>1 DEF ViewFits, PassedOn, Switches
<1> QED
  BY <1>1, <1>2, <1>3 DEF ViewFits, w

\* A step leaves the rows as they are put together.
LEMMA ViewBecomes ==
  ASSUME NEW v, Becomes(v), ViewFits(setup', v)
  PROVE  ViewFits(setup', NowView')
<1>1. NowView' = View(v.fields, v.args, v.data)
  BY DEF NowView, Becomes
<1> QED
  BY <1>1, ViewAgain

\* What the registry holds, read.
LEMMA LoadedMemory ==
  ASSUME NEW d, IsMemory(d) PROVE IsMemory(Loaded(d))
<1> DEFINE ip == IF d.ip = "" THEN NowhereIp ELSE d.ip
<1>1. Loaded(d) = [d EXCEPT !.ip = ip]
  BY DEF Loaded
<1> HIDE DEF ip
<1>2. Loaded(d) = [preference |-> d.preference, ip |-> ip, zeroTier |-> d.zeroTier,
                   network |-> d.network]
  BY <1>1 DEF IsMemory
<1> QED
  BY <1>2 DEF IsMemory

LEMMA NothingChosen == DOMAIN <<>> = {}
OBVIOUS

\* A game is opened, at first or in place of another.
LEMMA OpenedSettles ==
  ASSUME NEW g, RowsKnown(g), NEW d, IsMemory(d), setup' = g,
         Becomes(InitLaunchSettings(g, d)),
         said' = [real |-> d.ip, typed |-> "", chosen |-> <<>>]
  PROVE  ViewFits(setup', NowView') /\ SaidSo' /\ DOMAIN said' = {"real", "typed", "chosen"}
<1> DEFINE v == InitLaunchSettings(g, d)
<1>1. /\ ViewFits(g, v)
      /\ v.data.preference = d.preference /\ v.data.ip = d.ip
      /\ \A n \in Plain(g) : v.fields[n].value = ""
      /\ g.connect \in g.strings =>
           /\ d.preference = "connect" => v.fields[g.connect].value = d.ip
           /\ d.preference = "listen" /\ g.listen = g.connect =>
                v.fields[g.connect].value = NowhereIp
  BY OpenedRows
<1> HIDE DEF v
<1>2. fields' = v.fields /\ data' = v.data /\ Becomes(v)
  BY DEF Becomes, v
<1>3. ViewFits(setup', NowView')
  BY <1>1, <1>2, ViewBecomes
<1>4. said'.real = d.ip /\ said'.typed = "" /\ DOMAIN said'.chosen = {}
      /\ DOMAIN said' = {"real", "typed", "chosen"}
  <2>1. said'.chosen = <<>>
    OBVIOUS
  <2>2. said'.real = d.ip /\ said'.typed = "" /\ DOMAIN said' = {"real", "typed", "chosen"}
    OBVIOUS
  <2> QED
    BY <2>1, <2>2, NothingChosen, Zenon
<1>5. \A n : ChosenFor(n)' = ""
  BY <1>4 DEF ChosenFor
<1>6. setup'.connect \in setup'.strings /\ Joins(setup', data'.preference) =>
        fields'[setup'.connect].value = ExpectedAddress'
  BY <1>1, <1>2, <1>4 DEF Joins, ExpectedAddress
<1>7. SaidSo'
  BY <1>1, <1>2, <1>4, <1>5, <1>6 DEF SaidSo
<1> QED
  BY <1>3, <1>4, <1>7

\* What a setting that no preference switches changes: its row.
ChoseRow(n, value, v) ==
  /\ ViewFits(setup, v) /\ v.data = data
  /\ v.fields[n].value = value
  /\ \A m \in RowNames(setup) \ {n} : v.fields[m] = fields[m]

\* The row of a setting that no preference switches may be anything.
LEMMA ChosenRow ==
  ASSUME RowsKnown(setup), ViewFits(setup, NowView), NEW n \in Plain(setup), NEW value
  PROVE  ChoseRow(n, value, Put(setup, NowView, n, value, fields[n].enabled))
<1> DEFINE switched == fields[n].enabled
           v == Put(setup, NowView, n, value, switched)
<1>1. NowView.fields = fields /\ NowView.data = data
  BY DEF NowView, View
<1>2. switched = NowView.fields[n].enabled
  BY <1>1
<1> HIDE DEF switched
<1>3. /\ ViewFits(setup, v) /\ v.data = NowView.data
      /\ v.fields[n] = [value |-> value, enabled |-> switched]
      /\ \A m \in RowNames(setup) \ {n} : v.fields[m] = NowView.fields[m]
  BY <1>2, PlainRow
<1> HIDE DEF v
<1>4. /\ ViewFits(setup, v) /\ v.data = data
      /\ v.fields[n].value = value
      /\ \A m \in RowNames(setup) \ {n} : v.fields[m] = fields[m]
  BY <1>1, <1>3
<1> QED
  BY <1>4 DEF v, switched, ChoseRow

\* A setting that no preference switches is changed: what it becomes is what the user has chosen.
LEMMA ChosenSettles ==
  ASSUME SettingsInv, RowsKnown(setup), NEW n \in Plain(setup), NEW value,
         Becomes(Put(setup, NowView, n, value, fields[n].enabled)),
         said' = [said EXCEPT !.chosen = Updated(@, n, value)],
         UNCHANGED setup
  PROVE  /\ ViewFits(setup', NowView') /\ SaidSo' /\ DOMAIN said' = {"real", "typed", "chosen"}
         /\ IsMemory(data')
<1> DEFINE v == Put(setup, NowView, n, value, fields[n].enabled)
<1>1. ViewFits(setup, NowView)
  BY DEF SettingsInv
<1>2. /\ ViewFits(setup, v) /\ v.data = data
      /\ v.fields[n].value = value
      /\ \A m \in RowNames(setup) \ {n} : v.fields[m] = fields[m]
  <2>1. ChoseRow(n, value, v)
    BY <1>1, ChosenRow
  <2> HIDE DEF v
  <2> QED
    BY <2>1 DEF ChoseRow
<1> HIDE DEF v
<1>3. fields' = v.fields /\ data' = v.data /\ Becomes(v)
  BY DEF Becomes, v
<1>4. ViewFits(setup', NowView')
  BY <1>2, <1>3, ViewBecomes
<1>5. /\ said'.real = said.real /\ said'.typed = said.typed
      /\ said'.chosen = Updated(said.chosen, n, value) /\ DOMAIN said' = DOMAIN said
  BY DEF SettingsInv
<1>6. /\ DOMAIN said'.chosen \subseteq Plain(setup)
      /\ ChosenFor(n)' = value
      /\ \A m : m # n => ChosenFor(m)' = ChosenFor(m)
  BY <1>5 DEF Updated, ChosenFor, SettingsInv, SaidSo
<1>7. \A m \in Plain(setup) : fields'[m].value = ChosenFor(m)'
  BY <1>1, <1>2, <1>3, <1>6 DEF Plain, SettingsInv, SaidSo
<1>8. ExpectedAddress' = ExpectedAddress
  BY <1>1, <1>2, <1>3, <1>5 DEF ExpectedAddress
<1>9. setup.connect \in setup.strings => fields'[setup.connect] = fields[setup.connect]
  BY <1>1, <1>2, <1>3 DEF Plain, RowNames
<1>10. SaidSo'
  BY <1>1, <1>2, <1>3, <1>5, <1>6, <1>7, <1>8, <1>9 DEF SettingsInv, SaidSo
<1>11. IsMemory(data')
  BY <1>2, <1>3 DEF ViewFits, NetRows, HasRows, IsView
<1> QED
  BY <1>4, <1>5, <1>10, <1>11 DEF SettingsInv

\* A game is opened at first.
LEMMA InitSettings ==
  ASSUME SettingsFit, SettingsInit
  PROVE  SettingsInv
<1> DEFINE d == Loaded(registry)
           v == InitLaunchSettings(setup, d)
<1>1. setup \in Launches /\ IsMemory(registry) /\ IsMemory(d) /\ RowsKnown(setup)
  BY LoadedMemory DEF SettingsInit, SettingsFit
<1>2. /\ fields = v.fields /\ args = v.args /\ data = v.data
      /\ said = [real |-> d.ip, typed |-> "", chosen |-> <<>>]
      /\ env = NoEnvironment /\ told.done = FALSE
  BY DEF SettingsInit, NotLaunched
<1> HIDE DEF d
<1>3. /\ ViewFits(setup, v)
      /\ v.data.preference = d.preference /\ v.data.ip = d.ip
      /\ \A n \in Plain(setup) : v.fields[n].value = ""
      /\ setup.connect \in setup.strings =>
           /\ d.preference = "connect" => v.fields[setup.connect].value = d.ip
           /\ d.preference = "listen" /\ setup.listen = setup.connect =>
                v.fields[setup.connect].value = NowhereIp
  BY <1>1, OpenedRows
<1> HIDE DEF v
<1>4. ViewFits(setup, NowView)
  BY <1>2, <1>3, ViewAgain DEF NowView
<1>5. said.real = d.ip /\ said.typed = "" /\ DOMAIN said.chosen = {}
      /\ DOMAIN said = {"real", "typed", "chosen"}
  <2>1. said.chosen = <<>>
    BY <1>2
  <2>2. said.real = d.ip /\ said.typed = "" /\ DOMAIN said = {"real", "typed", "chosen"}
    BY <1>2
  <2> QED
    BY <2>1, <2>2, NothingChosen, Zenon
<1>6. setup.connect \in setup.strings /\ Joins(setup, data.preference) =>
        fields[setup.connect].value = ExpectedAddress
  BY <1>2, <1>3, <1>5 DEF Joins, ExpectedAddress
<1>7. SaidSo
  BY <1>2, <1>3, <1>5, <1>6 DEF SaidSo, ChosenFor
<1>8. DOMAIN env = {"network", "node", "fallback"}
  BY <1>2 DEF NoEnvironment
<1> QED
  BY <1>1, <1>2, <1>4, <1>5, <1>7, <1>8 DEF SettingsInv

\* What a step that launches nothing leaves is left.
LEMMA LaunchForgotten ==
  ASSUME SettingsInv, told' = NotLaunched, setup' \in Launches, UNCHANGED <<registry, env>>,
         ViewFits(setup', NowView'), SaidSo', DOMAIN said' = {"real", "typed", "chosen"}
  PROVE  SettingsInv'
BY DEF SettingsInv, NotLaunched

\* The rows are switched, and an address is no longer one that was typed.
LEMMA PreferSettles ==
  ASSUME SettingsInv, RowsKnown(setup), NEW p, SetPreference(p)
  PROVE  SettingsInv'
<1> DEFINE v == Applied(setup, p, NowView)
<1>1. NowView.fields = fields /\ NowView.data = data
  BY DEF NowView, View
<1>2. ViewFits(setup, NowView) /\ NetRows(setup, NowView)
  BY DEF SettingsInv, ViewFits
<1>3. /\ v.data.preference = p /\ v.data.ip = NowView.data.ip
      /\ \A m \in Plain(setup) : v.fields[m] = NowView.fields[m]
      /\ setup.connect \in setup.strings =>
           /\ p = "connect" => v.fields[setup.connect].value = NowView.data.ip
           /\ p = "listen" /\ setup.listen = setup.connect =>
                v.fields[setup.connect].value = NowhereIp
  BY <1>2, AppliedRows
<1>4. ViewFits(setup, v)
  BY <1>2, PreferenceFits
<1>5. /\ Becomes(v) /\ told' = NotLaunched /\ setup' = setup /\ UNCHANGED <<registry, env>>
      /\ said' = [said EXCEPT !.typed = ""]
  BY DEF SetPreference, Edits, NowView
<1> HIDE DEF v
<1>6. fields' = v.fields /\ data' = v.data
  BY <1>5 DEF Becomes
<1>7. ViewFits(setup', NowView')
  BY <1>4, <1>5, ViewBecomes
<1>8. /\ said'.typed = "" /\ said'.real = said.real /\ said'.chosen = said.chosen
      /\ DOMAIN said' = {"real", "typed", "chosen"}
  BY <1>5 DEF SettingsInv
<1>9. \A n : ChosenFor(n)' = ChosenFor(n)
  BY <1>8 DEF ChosenFor
<1>10. setup'.connect \in setup'.strings /\ Joins(setup', data'.preference) =>
         fields'[setup'.connect].value = ExpectedAddress'
  BY <1>1, <1>3, <1>5, <1>6, <1>8 DEF Joins, ExpectedAddress, SettingsInv, SaidSo
<1>11. SaidSo'
  BY <1>1, <1>3, <1>5, <1>6, <1>8, <1>9, <1>10 DEF SettingsInv, SaidSo
<1> QED
  BY <1>5, <1>7, <1>8, <1>11, LaunchForgotten DEF SettingsInv

\* An address is typed: it is expected, and remembered when it is real.
LEMMA AddressSettles ==
  ASSUME SettingsFit, SettingsInv, RowsKnown(setup), NEW typed \in Addresses,
         TypeAddress(typed)
  PROVE  SettingsInv'
<1> DEFINE switched == fields[setup.connect].enabled
           v == Put(setup, NowView, setup.connect, typed, switched)
<1>1. NowView.fields = fields /\ NowView.data = data
  BY DEF NowView, View
<1>2. ViewFits(setup, NowView) /\ setup.connect \in setup.strings /\ typed # ""
  BY DEF SettingsInv, TypeAddress, SettingsFit
<1>3. switched = NowView.fields[setup.connect].enabled
  BY <1>1
<1>4. Becomes(v) /\ said' = [said EXCEPT !.typed = typed,
                                        !.real = IF Real(typed) THEN typed ELSE @]
  <2>1. setup.connect \notin setup.ints
    BY DEF RowsKnown
  <2>2. ChangeSetting(setup.connect, typed)
    BY DEF TypeAddress
  <2> QED
    BY <2>1, <2>2 DEF ChangeSetting, NowView
<1> HIDE DEF switched
<1>5. Addressed(setup, NowView, typed, v)
  BY <1>2, <1>3, AddressRow
<1>6. told' = NotLaunched /\ setup' = setup /\ UNCHANGED <<registry, env>>
  BY DEF TypeAddress, Edits
<1> HIDE DEF v
<1>7. /\ ViewFits(setup, v) /\ v.data.preference = data.preference
      /\ v.data.ip = IF Real(typed) THEN typed ELSE data.ip
      /\ v.fields[setup.connect].value = typed
      /\ \A m \in Plain(setup) : v.fields[m] = fields[m]
  BY <1>1, <1>5 DEF Addressed
<1>8. fields' = v.fields /\ data' = v.data
  BY <1>4 DEF Becomes
<1>9. ViewFits(setup', NowView')
  BY <1>4, <1>6, <1>7, ViewBecomes
<1>10. /\ said'.typed = typed /\ said'.real = IF Real(typed) THEN typed ELSE said.real
       /\ said'.chosen = said.chosen /\ DOMAIN said' = {"real", "typed", "chosen"}
  <2> DEFINE real == IF Real(typed) THEN typed ELSE said.real
  <2>1. said' = [said EXCEPT !.typed = typed, !.real = real]
    BY <1>4, Zenon
  <2> HIDE DEF real
  <2>2. /\ said'.typed = typed /\ said'.real = real
        /\ said'.chosen = said.chosen /\ DOMAIN said' = {"real", "typed", "chosen"}
    BY <2>1 DEF SettingsInv
  <2> QED
    BY <2>2 DEF real
<1>11. \A n : ChosenFor(n)' = ChosenFor(n)
  BY <1>10 DEF ChosenFor
<1>12. setup'.connect \in setup'.strings /\ Joins(setup', data'.preference) =>
         fields'[setup'.connect].value = ExpectedAddress'
  <2>1. fields'[setup.connect].value = typed /\ data'.preference = data.preference
    BY <1>7, <1>8
  <2> QED
    BY <1>2, <1>6, <1>10, <2>1 DEF Joins, ExpectedAddress
<1>13. SaidSo'
  <2>1. data'.ip = said'.real
    BY <1>7, <1>8, <1>10 DEF SettingsInv, SaidSo
  <2>2. \A n \in Plain(setup) : fields'[n].value = ChosenFor(n)'
    BY <1>7, <1>8, <1>11 DEF SettingsInv, SaidSo
  <2>3. DOMAIN said'.chosen \subseteq Plain(setup)
    BY <1>10 DEF SettingsInv, SaidSo
  <2> QED
    BY <1>6, <1>12, <2>1, <2>2, <2>3 DEF SaidSo
<1> QED
  BY <1>6, <1>9, <1>10, <1>13, LaunchForgotten DEF SettingsInv

\* A setting is typed or chosen from a list.
LEMMA SettingSettles ==
  ASSUME SettingsInv, RowsKnown(setup), NEW n \in Plain(setup), NEW value,
         Edits, ChangeSetting(n, value)
  PROVE  SettingsInv'
<1>1. PICK given : /\ Becomes(Put(setup, NowView, n, given, fields[n].enabled))
                   /\ said' = [said EXCEPT !.chosen = Updated(@, n, given)]
  BY DEF ChangeSetting, NowView, Plain
<1>2. told' = NotLaunched /\ setup' = setup /\ UNCHANGED <<registry, env>>
  BY DEF Edits
<1>3. ViewFits(setup', NowView') /\ SaidSo' /\ DOMAIN said' = {"real", "typed", "chosen"}
  BY <1>1, <1>2, ChosenSettles
<1> QED
  BY <1>2, <1>3, LaunchForgotten DEF SettingsInv

\* The network is no row, and no row depends on it.
LEMMA NetworkSettles ==
  ASSUME SettingsInv, NEW id, NEW on, SetNetwork(id, on)
  PROVE  SettingsInv'
<1> DEFINE d == [data EXCEPT !.network = id, !.zeroTier = on]
<1>1. NowView.fields = fields /\ NowView.data = data /\ NowView.args = args
  BY DEF NowView, View
<1>2. /\ data' = d /\ UNCHANGED <<fields, args, said>>
      /\ told' = NotLaunched /\ setup' = setup /\ UNCHANGED <<registry, env>>
  BY DEF SetNetwork, Edits
<1>3. ViewFits(setup, NowView) /\ IsMemory(data)
  BY <1>1 DEF SettingsInv, ViewFits, NetRows, HasRows, IsView
<1>4. IsMemory(d) /\ d.preference = data.preference /\ d.ip = data.ip
  BY <1>3, MemoryNetworked
<1> HIDE DEF d
<1>5. ViewFits(setup', NowView')
  <2> DEFINE w == View(fields, args, d)
  <2>1. /\ DOMAIN w = {"fields", "args", "data"}
        /\ w.fields = fields /\ w.args = args /\ w.data = d
    BY DEF View
  <2>2. NowView' = w
    BY <1>2 DEF NowView
  <2> HIDE DEF w
  <2>3. NetRows(setup, w)
    BY <1>1, <1>3, <1>4, <2>1 DEF ViewFits, NetRows, HasRows, IsView, AddressKnown
  <2>4. PassedOn(setup, w) /\ Switches(setup, w, w.data.preference)
    BY <1>1, <1>3, <1>4, <2>1 DEF ViewFits, PassedOn, Switches
  <2>5. ViewFits(setup, w)
    BY <1>1, <1>3, <2>1, <2>3, <2>4 DEF ViewFits
  <2> QED
    BY <1>2, <2>2, <2>5
<1>6. SaidSo'
  BY <1>2, <1>4 DEF SettingsInv, SaidSo, ExpectedAddress, ChosenFor
<1> QED
  BY <1>2, <1>5, <1>6, LaunchForgotten DEF SettingsInv

\* Another game has rows of its own, made from what the registry holds.
LEMMA ReopenSettles ==
  ASSUME SettingsFit, SettingsInv, NEW g \in Others, NEW f, Reopen(g, f)
  PROVE  SettingsInv'
<1> DEFINE d == Loaded(registry)
<1>1. g \in Launches /\ RowsKnown(g) /\ IsMemory(d)
  BY LoadedMemory DEF SettingsFit, SettingsInv
<1>2. /\ setup' = g /\ told' = NotLaunched /\ UNCHANGED <<registry, env>>
      /\ Becomes(InitLaunchSettings(g, d))
      /\ said' = [real |-> d.ip, typed |-> "", chosen |-> <<>>]
  BY DEF Reopen
<1> HIDE DEF d
<1>3. ViewFits(setup', NowView') /\ SaidSo' /\ DOMAIN said' = {"real", "typed", "chosen"}
  BY <1>1, <1>2, OpenedSettles
<1> QED
  BY <1>1, <1>2, <1>3, LaunchForgotten

\* A launch sets the row of the controllers, and is told of what is passed on then.
LEMMA StartSettles ==
  ASSUME SettingsInv, RowsKnown(setup), NEW pads, NEW outcome, StartGame(pads, outcome)
  PROVE  SettingsInv'
<1> DEFINE toggles == pads # "none" /\ setup.controller # ""
           on == Switch(setup, setup.controller, pads = "game")
           v == IF toggles
                THEN Put(setup, NowView, setup.controller, on, fields[setup.controller].enabled)
                ELSE NowView
<1>1. /\ Becomes(v) /\ registry' = v.data /\ setup' = setup
      /\ said' = IF toggles THEN [said EXCEPT !.chosen = Updated(@, setup.controller, on)] ELSE said
      /\ told' = NotLaunched \/ told'.line = CommandLine(setup, v.args)
      /\ \/ told' = NotLaunched /\ env' = env
         \/ env' = Environment(setup, v.args, v.data)
  <2>1. Becomes(v) /\ registry' = v.data
    BY Zenon DEF StartGame, NowView
  <2>2. said' = IF toggles THEN [said EXCEPT !.chosen = Updated(@, setup.controller, on)] ELSE said
    BY Zenon DEF StartGame
  <2>3. setup' = setup
    BY DEF StartGame
  <2>4. /\ told' = IF outcome = "started"
                   THEN [done |-> TRUE, line |-> CommandLine(setup, v.args),
                         exe |-> Executable(setup, v.args)]
                   ELSE NotLaunched
        /\ env' = IF outcome = "aborted" THEN env ELSE Environment(setup, v.args, v.data)
    BY Zenon DEF StartGame, NowView
  <2> HIDE DEF v, on, toggles
  <2>5. /\ told' = NotLaunched \/ told'.line = CommandLine(setup, v.args)
        /\ \/ told' = NotLaunched /\ env' = env
           \/ env' = Environment(setup, v.args, v.data)
    BY <2>4
  <2> QED
    BY <2>1, <2>2, <2>3, <2>5, Zenon
<1>2. /\ ViewFits(setup', NowView') /\ SaidSo' /\ DOMAIN said' = {"real", "typed", "chosen"}
      /\ IsMemory(data')
  <2>1. CASE toggles
    <3>1. setup.controller \in Plain(setup)
      BY <2>1 DEF RowsKnown, Net, Plain, Hidden
    <3> HIDE DEF on
    <3>2. /\ Becomes(Put(setup, NowView, setup.controller, on, fields[setup.controller].enabled))
          /\ said' = [said EXCEPT !.chosen = Updated(@, setup.controller, on)]
      BY <1>1, <2>1
    <3> QED
      BY <1>1, <3>1, <3>2, ChosenSettles
  <2>2. CASE ~toggles
    <3>1. UNCHANGED <<setup, fields, args, data, said>>
      BY <1>1, <2>2 DEF Becomes, NowView, View
    <3>2. NowView' = NowView /\ ExpectedAddress' = ExpectedAddress
      BY <3>1 DEF NowView, ExpectedAddress
    <3>3. SaidSo'
      BY <3>1, <3>2 DEF SettingsInv, SaidSo, ChosenFor
    <3>4. IsMemory(data)
      BY DEF SettingsInv, ViewFits, NetRows, HasRows, IsView, NowView, View
    <3> QED
      BY <3>1, <3>2, <3>3, <3>4 DEF SettingsInv
  <2> QED
    BY <2>1, <2>2
<1> HIDE DEF v
<1>3. args' = v.args /\ data' = v.data /\ registry' = data'
  BY <1>1 DEF Becomes
<1>4. DOMAIN env' = {"network", "node", "fallback"} /\ (told'.done => Launched')
  <2>1. CASE told' = NotLaunched /\ env' = env
    BY <2>1 DEF NotLaunched, SettingsInv
  <2>2. CASE env' = Environment(setup, v.args, v.data)
    <3>1. /\ told'.done => told'.line = CommandLine(setup', args')
          /\ env' = Environment(setup, args', data')
      <4>1. env' = Environment(setup, args', data')
        BY <1>3, <2>2
      <4>2. CASE told' = NotLaunched
        BY <4>1, <4>2 DEF NotLaunched
      <4>3. CASE told'.line = CommandLine(setup, v.args)
        BY <1>1, <1>3, <4>1, <4>3
      <4> QED
        BY <1>1, <4>2, <4>3
    <3>2. CASE ~(Networked(setup) /\ data'.zeroTier)
      BY <1>1, <3>1, <3>2 DEF Environment, NoEnvironment, Launched
    <3>3. CASE Networked(setup) /\ data'.zeroTier /\ data'.network = ""
      <4>1. env' = [env EXCEPT !.network = ""]
        BY <3>1, <3>3 DEF Environment
      <4>2. DOMAIN env' = {"network", "node", "fallback"} /\ env'.network = ""
        BY <4>1 DEF SettingsInv
      <4> QED
        BY <1>1, <3>1, <3>3, <4>2 DEF Launched
    <3>4. CASE Networked(setup) /\ data'.zeroTier /\ data'.network # ""
      <4>1. env' = [network |-> data'.network, node |-> RoleOf(data'),
                    fallback |-> FallbackIp(setup, args', data')]
        BY <3>1, <3>4 DEF Environment
      <4>2. DOMAIN env' = {"network", "node", "fallback"}
        BY <4>1
      <4>3. /\ env'.network = data'.network /\ env'.node = RoleOf(data')
            /\ env'.fallback = FallbackIp(setup, args', data')
        BY <4>1
      <4>4. told'.done => Launched'
        BY <1>1, <3>1, <3>4, <4>3 DEF Launched
      <4> QED
        BY <4>2, <4>4
    <3> QED
      BY <3>2, <3>3, <3>4
  <2> QED
    BY <1>1, <2>1, <2>2
<1> QED
  BY <1>1, <1>2, <1>3, <1>4 DEF SettingsInv

\* No step leaves the rows saying anything else than the user has said.
LEMMA SettingsSettle ==
  ASSUME SettingsFit
  PROVE  SettingsSpec => []SettingsInv
<1>1. ASSUME SettingsInv, [SettingsNext]_settingVars PROVE SettingsInv'
  <2> USE <1>1
  <2>1. RowsKnown(setup)
    BY DEF SettingsInv, SettingsFit
  <2>2. ASSUME NEW p \in Preferences, SetPreference(p) PROVE SettingsInv'
    BY <2>1, <2>2, PreferSettles
  <2>3. ASSUME NEW typed \in Addresses, TypeAddress(typed) PROVE SettingsInv'
    BY <2>1, <2>3, AddressSettles
  <2>4. ASSUME NEW n \in Edited, NEW text \in Texts, Type(n, text) PROVE SettingsInv'
    <3>1. n \in Plain(setup) /\ Edits /\ ChangeSetting(n, text)
      BY <2>4 DEF Type, Visible, Plain
    <3> QED
      BY <2>1, <3>1, SettingSettles
  <2>5. ASSUME NEW n \in Edited, NEW option \in Options(n), Choose(n, option) PROVE SettingsInv'
    <3>1. n \in Plain(setup) /\ Edits /\ ChangeSetting(n, option)
      BY <2>5 DEF Choose, Visible, Plain
    <3> QED
      BY <2>1, <3>1, SettingSettles
  <2>6. ASSUME NEW id \in NetworkIds, NEW on \in BOOLEAN, SetNetwork(id, on) PROVE SettingsInv'
    BY <2>6, NetworkSettles
  <2>7. ASSUME NEW pads \in {"none", "game", "keys"}, NEW outcome \in {"aborted", "failed", "started"},
               StartGame(pads, outcome)
        PROVE  SettingsInv'
    BY <2>1, <2>7, StartSettles
  <2>8. ASSUME NEW g \in Others, NEW f \in Folders, Reopen(g, f) PROVE SettingsInv'
    BY <2>8, ReopenSettles
  <2>9. CASE UNCHANGED settingVars
    <3>1. UNCHANGED <<setup, fields, args, data, registry, env, told, said>>
      BY <2>9 DEF settingVars, view
    <3>2. NowView' = NowView /\ ExpectedAddress' = ExpectedAddress
      BY <3>1 DEF NowView, ExpectedAddress
    <3>3. SaidSo' /\ (told'.done => Launched')
      BY <3>1, <3>2 DEF SettingsInv, SaidSo, ChosenFor, Launched
    <3> QED
      BY <3>1, <3>2, <3>3 DEF SettingsInv
  <2>10. CASE GameEnded
    <3>1. UNCHANGED <<setup, fields, args, data, env, told, said>> /\ registry' = data
      BY <2>10 DEF GameEnded, view
    <3>2. NowView' = NowView /\ ExpectedAddress' = ExpectedAddress
      BY <3>1 DEF NowView, ExpectedAddress
    <3>3. SaidSo' /\ (told'.done => Launched')
      BY <3>1, <3>2 DEF SettingsInv, SaidSo, ChosenFor, Launched
    <3>4. IsMemory(data)
      BY DEF SettingsInv, ViewFits, NetRows, HasRows, IsView, NowView, View
    <3> QED
      BY <3>1, <3>2, <3>3, <3>4 DEF SettingsInv
  <2> QED
    BY <2>2, <2>3, <2>4, <2>5, <2>6, <2>7, <2>8, <2>9, <2>10 DEF SettingsNext
<1>2. SettingsInit => SettingsInv
  BY InitSettings
<1> QED
  BY <1>1, <1>2, PTL DEF SettingsSpec

\* A launch tells the game the address, the host and the settings the user has said and no others,
\* whatever was preferred, typed or chosen before and in whichever game (exe_shared.cpp).
THEOREM SettingsToldAsPreferred ==
  ASSUME SettingsFit
  PROVE  SettingsSpec => []ToldAsPreferred
<1>1. ASSUME SettingsInv PROVE ToldAsPreferred
  <2>1. RowsKnown(setup)
    BY <1>1 DEF SettingsInv, SettingsFit
  <2>2. told.done => TellsAddress /\ TellsHost /\ TellsChosen
    BY <1>1, <2>1, LineTold DEF SettingsInv, Launched
  <2> QED
    BY <2>2 DEF ToldAsPreferred
<1> QED
  BY <1>1, SettingsSettle, PTL

\* A game over the network has the identity of its role and the address it is told, or the last real
\* one; and what was set for another game does not reach one that is not (configure_environment).
THEOREM SettingsEnvironmentFits ==
  ASSUME SettingsFit
  PROVE  SettingsSpec => []EnvironmentFits
<1>1. ASSUME SettingsInv PROVE EnvironmentFits
  BY <1>1, EnvironmentTold DEF SettingsInv, SettingsFit
<1> QED
  BY <1>1, SettingsSettle, PTL
=============================================================================
