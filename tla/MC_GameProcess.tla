----------------------------- MODULE MC_GameProcess -----------------------------
(***************************************************************************)
(* Five parts of the life of a game's process that have no state in        *)
(* common: the settings, the bindings and the launch from the view of an   *)
(* executable, the input the view passes on to the game, and its server    *)
(* for the network.  A behaviour is one of any of them.                    *)
(*                                                                         *)
(* Server: one or two processes, two servers.  Launch: two games and one   *)
(* network.  Input: a stick that goes from side to side with the edges of  *)
(* the arithmetic, and a button and triggers, mapped to keys or to the     *)
(* pointer.  Bindings: every game, two launches and a change of one row,   *)
(* six actions of all the kinds the extensions tell apart, and controllers *)
(* that have all their inputs, lack some, or come second.  Settings: every *)
(* game with two values of each list, two changes and two launches, one of *)
(* them after another game was opened.                                     *)
(***************************************************************************)
EXTENDS ServerLifecycle, GameLaunch, InputInjector, GameBindings, LaunchSettings

CONSTANTS p1, p2, i1, i2, n1

VARIABLE part  \* whose behaviour this is

Report(button, x, y, lt, rt) == [button |-> button, x |-> x, y |-> y, lt |-> lt, rt |-> rt]
MCReports ==
  {Report(FALSE, x, y, 0, 0) :
     x \in {-32768, -32767, -9000, -300, 0, 300, 8191, 32767}, y \in {-300, 9000}}
  \cup {Report(TRUE, 300, -300, 0, rt) : rt \in {0, 40, 64, 255}}
  \cup {Report(FALSE, 300, -300, 255, 0)}

To(from, to, context) == [from |-> from, to |-> to, context |-> context]
MCMappings ==
  {{To("button", "space", "keyboard"), To("right", "d", "keyboard"), To("left", "a", "keyboard"),
    To("lt", "q", "keyboard"), To("rt", "fire", "mouse")},
   {To("right", "VK_RIGHT", "mouse"), To("left", "VK_LEFT", "mouse"), To("up", "VK_UP", "mouse"),
    To("down", "VK_DOWN", "mouse"), To("button", "fire", "mouse")}}

MCActions == <<"LSU", "RSU", "RT", "A", "X", "mlook">>
MCGames ==
  {[g EXCEPT !.actions = @ \cap {"LSU", "RSU", "RT", "A", "X"}] : g \in AllGames}
MCKeys == <<"W", "LEFTARROW", "CTRL", "SPACE", "E", "M">>
MCMouseButtons == <<"MOUSE1">>
MCMouseAxes == <<"MOUSEUP">>
MCUsual == [W |-> "LSU", LEFTARROW |-> "X", CTRL |-> "RT", SPACE |-> "A", E |-> "X", M |-> "mlook",
            MOUSE1 |-> "RT", MOUSEUP |-> "RSU"]
MCKeptFiles == {<<>>, [MCUsual EXCEPT !.W = "X", !.E = "LSU"]}
MCPlugged == {<<"xbox">>, <<"joystick">>, <<"ps4">>, <<"unknown", "joystick">>}

\* Of games that differ in nothing but their names one is enough.
MCLaunches ==
  {[g EXCEPT !.options = [n \in DOMAIN @ |-> SubSeq(@[n], 1, 2)],
             !.name = IF @ = "quake-2" THEN @ ELSE "other"] : g \in AllLaunches}
MCOthers == {g \in MCLaunches : g.name = "quake-2"}
MapFile(name, as) == [name |-> name, as |-> as]
MCMapFiles == [c |-> {MapFile("e1", "loose"), MapFile("q3", "zip"), MapFile("e1", "pack")}]
Remembered(prefers, ip, on, id) ==
  [preference |-> prefers, ip |-> ip, zeroTier |-> on, network |-> id]
MCRegistries ==
  {Remembered("nothing", "", FALSE, ""), Remembered("listen", "10.0.0.1", TRUE, "n1")}

\* What the theorems about the bindings and the settings assume of the constants.
ASSUME TablesAssumption == FamiliesKnown /\ BindingsFit /\ SettingsFit

-----------------------------------------------------------------------------
ProcessInit ==
  /\ part \in {"server", "launch", "input", "bindings", "settings"}
  /\ Init /\ LaunchInit /\ InputInit
  \* One of the initial states of a part that does not move.
  /\ part # "launch" => extension /\ preference = "nothing" /\ network = NoNetwork /\ zeroTier
  /\ part # "input" => mapping = (CHOOSE m \in Mappings : TRUE) /\ simulates = {}
  /\ IF part = "bindings" THEN BindingsInit
     ELSE /\ title = {} /\ kept = <<>> /\ entries = <<>> /\ shown = <<>> /\ binds = <<>>
          /\ played = NotPlayed /\ edits = 0 /\ launches = 0
  /\ IF part = "settings" THEN SettingsInit
     ELSE /\ setup = {} /\ folder = "" /\ listed = <<>> /\ fields = <<>> /\ args = <<>> /\ data = <<>>
          /\ registry = <<>> /\ env = NoEnvironment /\ told = NotLaunched /\ playing = FALSE
          /\ said = <<>> /\ changes = 0 /\ starts = 0 /\ opens = 0

ProcessNext ==
  /\ UNCHANGED part
  /\ \/ /\ part = "server" /\ Next
        /\ UNCHANGED <<launchVars, inputVars, bindingVars, settingVars>>
     \/ /\ part = "launch" /\ LaunchNext
        /\ UNCHANGED <<vars, inputVars, bindingVars, settingVars>>
     \/ /\ part = "input" /\ InputNext
        /\ UNCHANGED <<vars, launchVars, bindingVars, settingVars>>
     \/ /\ part = "bindings" /\ BindingsNext
        /\ UNCHANGED <<vars, launchVars, inputVars, settingVars>>
     \/ /\ part = "settings" /\ SettingsNext
        /\ UNCHANGED <<vars, launchVars, inputVars, bindingVars>>

\* What does not move has nothing to do that could be unfair to it.
ProcessSpec ==
  /\ ProcessInit
  /\ [][ProcessNext]_<<part, vars, launchVars, inputVars, bindingVars, settingVars>>
  /\ Fairness /\ LaunchFairness
=============================================================================
