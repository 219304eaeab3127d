------------------------------- MODULE GameLaunch -------------------------------
(***************************************************************************)
(* How the view of an executable launches a game (exe_view.launch.cpp,     *)
(* exe_shared.cpp, input_injector.cpp).                                    *)
(*                                                                         *)
(* A launch makes an injector, which starts the game and from then on sees *)
(* the raw input of the process; each input it sees has it look whether    *)
(* the game has ended.  The view keeps one injector, and lets the user     *)
(* launch a server beside a client.  A game over ZeroTier gets one of two  *)
(* node identities, and leaves the address the network gave it in a        *)
(* section of memory, whose name depends on the role as well.              *)
(***************************************************************************)
EXTENDS Naturals

CONSTANTS
  Network,    \* ids of ZeroTier networks
  NoNetwork,  \* the empty id
  NoGame,
  MaxGames    \* bound: launches

Game == 1 .. MaxGames
Role == {"client", "server"}

\* pref_options_keys, and the usages that raw input is registered for: gamepads
\* and joysticks, and the mouse and the keyboard.
Preference == {"nothing", "connect", "listen", "dedicated"}
Usage      == {"controllers", "desk"}

VARIABLES
  extension,   \* is there an extension module for the executable?
  preference,  \* last_hosting_preference
  network,     \* last_zero_tier_network_id
  zeroTier,    \* ZERO_TIER_ENABLED
  enabled,     \* launch_enabled_for_client_process, launch_enabled_for_server_process
  game,        \* the launches there were
  injector,    \* the launch whose injector the view has
  sink,        \* the usages whose input comes to the view's window
  leaked,      \* the roles whose section the view opened and will not close
  address,     \* the last game to write into the section of each role
  stored       \* last_zero_tier_ip_addresses: whose address, by network and node

settings == <<preference, network, zeroTier>>
section  == <<leaked, address>>
launchVars == <<extension, settings, enabled, game, injector, sink, section, stored>>

Unlaunched == [at |-> "none", role |-> "client", node |-> "none", under |-> "nothing"]

LaunchInit ==
  /\ extension \in BOOLEAN
  /\ preference \in Preference /\ network \in Network \cup {NoNetwork} /\ zeroTier \in BOOLEAN
  /\ enabled = [r \in Role |-> TRUE]
  /\ game = [g \in Game |-> Unlaunched]
  /\ injector = NoGame /\ sink = {} /\ leaked = {}
  /\ address = [r \in Role |-> NoGame]
  /\ stored = [n \in Network |-> [r \in Role |-> NoGame]]

Runs(g) == game[g].at = "runs"

-----------------------------------------------------------------------------
\* has_client_preference.
RoleNow == IF preference \in {"listen", "dedicated"} THEN "server" ELSE "client"

\* can_launch_additional_instance.
Additional == preference = IF extension THEN "dedicated" ELSE "listen"

\* is_launch_enabled and disable_launch: which of the two flags.
Slot == IF Additional THEN "server" ELSE "client"

\* The user edits the settings of the launch.
Prefer(p) ==
  /\ extension \/ p \in {"connect", "listen"}
  /\ preference' = p
  /\ UNCHANGED <<extension, network, zeroTier, enabled, game, injector, sink, section, stored>>

Edit ==
  /\ network' \in Network \cup {NoNetwork} /\ zeroTier' \in BOOLEAN
  /\ UNCHANGED <<extension, preference, enabled, game, injector, sink, section, stored>>

\* Mutant of Disable: the flag does not depend on the preference.
DisableClient == [enabled EXCEPT !["client"] = FALSE]
Disable       == [enabled EXCEPT ![Slot] = FALSE]

\* A section lives while the view, or a game that opened it, has it open.
SectionLives(r) ==
  \/ r \in leaked
  \/ injector # NoGame /\ game[injector].role = r
  \/ \E g \in Game : Runs(g) /\ game[g].role = r /\ game[g].node # "none"

\* The node identity a game is started with, of the settings it is launched with.
NodeNow == IF zeroTier /\ network # NoNetwork THEN RoleNow ELSE "none"

\* The button: the section of the role is made, or the one there is is opened; the
\* injector registers for raw input and launches the game, which may fail.  Then
\* the injector before it is destroyed, which ends the registration of both, and
\* its section stays open.
LaunchGame(g) ==
  /\ enabled[Slot]
  /\ game[g].at = "none" /\ \A h \in Game : h < g => game[h].at # "none"
  /\ \E at \in {"runs", "failed"} :
       game' = [game EXCEPT ![g] = [at |-> at, role |-> RoleNow, node |-> NodeNow,
                                    under |-> preference]]
  /\ injector' = g
  /\ sink' = IF injector = NoGame THEN Usage ELSE {}
  /\ leaked' = IF injector = NoGame THEN leaked ELSE leaked \cup {game[injector].role}
  /\ address' = IF SectionLives(RoleNow) THEN address ELSE [address EXCEPT ![RoleNow] = NoGame]
  /\ enabled' = Disable
  /\ UNCHANGED <<extension, settings, stored>>

-----------------------------------------------------------------------------
\* The game (external): its backend joins the network and leaves its address ...
JoinNetwork(g) ==
  /\ Runs(g) /\ game[g].node # "none"
  /\ address' = [address EXCEPT ![game[g].role] = g]
  /\ UNCHANGED <<extension, settings, enabled, game, injector, sink, leaked, stored>>

\* ... and it ends.
End(g) ==
  /\ Runs(g)
  /\ game' = [game EXCEPT ![g].at = "ended"]
  /\ UNCHANGED <<extension, settings, enabled, injector, sink, section, stored>>

\* A dialog takes raw input for itself, and ends the registration as it closes:
\* that of the connected devices for all of it, that of a controller's button for
\* the controllers.
TakeInput(usages) ==
  /\ sink' = sink \ usages
  /\ UNCHANGED <<extension, settings, enabled, game, injector, section, stored>>

\* Mutants of SetIp: the preference counts as it is now.  Of ResetLaunchState: the
\* server's flag is forgotten.
SetIpNow(r) ==
  stored' = IF address[r] # NoGame /\ network # NoNetwork
            THEN [stored EXCEPT ![network][RoleNow] = address[r]] ELSE stored
ResetClient == enabled' = [enabled EXCEPT !["client"] = TRUE]

\* set_ip_for_current_network: of the network there is now, and of the node the
\* game was launched as.
SetIp(r) ==
  stored' = IF address[r] # NoGame /\ network # NoNetwork
            THEN [stored EXCEPT ![network][r] = address[r]] ELSE stored

ResetLaunchState == enabled' = [r \in Role |-> TRUE]

\* wm_input and wm_input_device_change, once the game has ended: on_process_closed
\* enables both launches, stores the address, and drops the injector, which ends
\* the registration.  An injector whose launch failed has no process to look at.
Input(u) ==
  /\ u \in sink /\ injector # NoGame
  /\ game[injector].at = "ended"
  /\ LET r == game[injector].role IN SetIp(r)
  /\ ResetLaunchState
  /\ injector' = NoGame /\ sink' = {}
  /\ UNCHANGED <<extension, settings, game, section>>

-----------------------------------------------------------------------------
LaunchNext ==
  \/ \E p \in Preference : Prefer(p)
  \/ Edit
  \/ \E g \in Game : LaunchGame(g) \/ JoinNetwork(g) \/ End(g)
  \/ \E usages \in {{"controllers"}, Usage} : TakeInput(usages)
  \/ \E u \in Usage : Input(u)

\* The user goes on using mouse or controller.
LaunchFairness == WF_launchVars(\E u \in Usage : Input(u))

LaunchSpec == LaunchInit /\ [][LaunchNext]_launchVars /\ LaunchFairness
-----------------------------------------------------------------------------
\* Two games that run have different node identities, for else one of them loses
\* the network, but for one launched to listen and one as a dedicated server; and
\* an address is remembered for the node that had it, whatever the user prefers
\* by the time the game ends.
OwnIdentity ==
  /\ \A g, h \in Game :
       g # h /\ Runs(g) /\ Runs(h) /\ game[g].node # "none" /\ game[g].node = game[h].node
         => {game[g].under, game[h].under} = {"listen", "dedicated"}
  /\ \A n \in Network, r \in Role :
       stored[n][r] # NoGame => game[stored[n][r]].node = r

\* A game that has ended can be launched again, both as client and as server, if
\* the view still gets input and has not launched another meanwhile.
LaunchComesBack ==
  \A g \in Game :
    injector = g /\ game[g].at = "ended" /\ sink # {}
      ~> \/ injector = NoGame /\ enabled = [r \in Role |-> TRUE]
         \/ injector # NoGame /\ sink = {}
=============================================================================
