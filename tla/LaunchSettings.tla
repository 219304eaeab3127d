----------------------------- MODULE LaunchSettings -----------------------------
(***************************************************************************)
(* The launch settings of a game: the rows of the view of its executable,  *)
(* the arguments the view keeps beside them, what of them the registry     *)
(* remembers for the next game, and what a launch makes of them: the       *)
(* command line and the variables of the environment.  How the game is to  *)
(* be played over the network is a row of its own, that changes others as  *)
(* it changes, some of which are not shown.                                *)
(*                                                                         *)
(* Left out: executables without an extension, the path variable, in what  *)
(* order the words of a command line come and the word for the protocol,   *)
(* which is always TCP/IP, and the files of the network, which are taken   *)
(* to be there.                                                            *)
(***************************************************************************)
EXTENDS LaunchTable, Functions

CONSTANTS
  Launches,    \* games, as in LaunchTable
  Others,      \* those of them that are opened after the first
  Edited,      \* names of settings the user changes
  Texts,       \* what the user types into a setting
  Addresses,   \* what the user types as an address; it is never empty
  NetworkIds,  \* what the user types as the network
  Folders,     \* where games are installed
  MapFiles,    \* by folder, the maps and how they come, as records [name, as]
  Present,     \* names of executables that are there
  Registries,  \* what the registry may hold at first
  MaxChanges, MaxStarts, MaxOpens

VARIABLES
  setup,     \* the game
  folder,
  listed,    \* the folder whose maps the extension of a game has read
  fields,    \* value and enabled, by setting
  args,      \* string_settings, int_settings and flags: what is passed, by setting
  data,      \* registry_data: preference, ip, network and zeroTier
  registry,  \* the same in the registry
  env,       \* SIEGE_WSOCK_NETWORK_ID, _NODE_ID and _FALLBACK_BROADCAST_IP_V4
  told,      \* the last launch
  playing,   \* does a game run that the network may have given an address?
  said,      \* what the user has said: the last real address, that typed since the preference
             \* was chosen, and the settings chosen
  changes, starts, opens
view == <<fields, args, data>>
settingVars == <<setup, folder, listed, view, registry, env, told, playing, said, changes, starts, opens>>

IsMemory(d) ==
  d = [preference |-> d.preference, ip |-> d.ip, zeroTier |-> d.zeroTier, network |-> d.network]

Preferences == {"nothing", "connect", "listen", "dedicated"}
NowhereIp == "0.0.0.0"
Real(address) == address \notin {"", NowhereIp, "127.0.0.1"}
NotLaunched == [done |-> FALSE]
NoEnvironment == [network |-> "", node |-> "", fallback |-> ""]

-----------------------------------------------------------------------------
(* The rows of a game.                                                     *)

RowNames(g) == g.strings \cup g.ints \cup g.flags
Networked(g) == \E n \in {g.connect, g.listen, g.dedicated} : n # ""

Offered(g) ==
  {"nothing"} \cup {p \in Preferences \ {"nothing"} :
                      CASE p = "connect" -> g.connect # ""
                        [] p = "listen" -> g.listen # ""
                        [] p = "dedicated" -> g.dedicated # ""}

\* listen_setting_multiple_predefined: the setting has values of its own to choose from.
Multiple(g) == g.listen \in DOMAIN g.options /\ Len(g.options[g.listen]) > 1

Hidden(g) ==
  {g.dedicated} \cup (IF Multiple(g) THEN {} ELSE {g.listen} \ g.strings)
  \cup ({g.connect} \ g.strings)

\* What the theorems assume of the tables: what a game has for the network are rows of their own;
\* one that both connects and hosts is an address; flags are rows that a preference switches; and
\* the lines that would tell the name of an executable, or no numbers, are of games without any.
Net(g) == {g.connect, g.listen, g.dedicated} \ {""}
RowsKnown(g) ==
  /\ RowNames(g) \cap {"", "listen 1"} = {}
  /\ g.strings \cap (g.ints \cup g.flags) = {}
  /\ g.flags \subseteq Hidden(g)
  /\ g.connect \notin g.ints
  /\ g.listen # "" => IF g.listen = g.connect THEN g.listen \in g.strings \ DOMAIN g.options
                      ELSE g.listen \in g.ints \cup g.flags
  /\ g.dedicated # "" => g.dedicated \in (g.ints \cup g.flags) \ {g.connect, g.listen}
  /\ g.controller # "" => g.controller \in RowNames(g) \ {"map", g.exe}
  /\ Net(g) \cap {"map", "deathmatch", g.exe, g.controller} = {}
  /\ g.exe \notin {"map", "deathmatch"} /\ "map" \notin g.ints \cup g.flags
  /\ g.format \in {"2.0", "2.5", "sof", "3.0", "vampire", "3space"}
  /\ g.exe # "" => g.format \in {"2.0", "2.5", "sof"}
  /\ g.format = "3space" => g.ints \cup g.flags = {}
  /\ g.format = "vampire" =>
       /\ g.connect = "join" /\ g.listen = "listen" /\ g.dedicated = "serve"
       /\ Net(g) \subseteq g.flags \ DOMAIN g.options

SettingsFit ==
  /\ \A g \in Launches : RowsKnown(g)
  /\ Others \subseteq Launches
  /\ "" \notin Addresses
  /\ \A d \in Registries : IsMemory(d)

\* A function with a value for n, where it has none or in place of the one it has.
Extended(f, n, value) == [m \in DOMAIN f \cup {n} |-> IF m \in DOMAIN f THEN f[m] ELSE value]
Updated(f, n, value) == [m \in DOMAIN f \cup {n} |-> IF m = n THEN value ELSE f[m]]

\* What the view has, as a value of its own to put steps together.
View(r, a, d) == [fields |-> r, args |-> a, data |-> d]

\* persist, of the rows of some settings: a row is passed on, or no longer, and a real address is
\* remembered, be it passed or not.
Passed(g, n, row) ==
  row.enabled /\ (n \in g.strings \/ row.value # "") /\ (n \in g.flags => row.value = "1")

Persisted(g, v, names) ==
  LET passed == {n \in names : Passed(g, n, v.fields[n])}
  IN  [v EXCEPT
        !.args = [n \in passed \cup (DOMAIN @ \ names) |->
                    IF n \in names THEN v.fields[n].value ELSE @[n]],
        !.data.ip = IF g.connect \in names \cap g.strings /\ Real(v.fields[g.connect].value)
                    THEN v.fields[g.connect].value ELSE @]

Put(g, v, n, value, enabled) ==
  Persisted(g, [v EXCEPT !.fields[n] = [value |-> value, enabled |-> enabled]], {n})

\* enable_setting and disable_setting.
Switch(g, n, on) ==
  IF n \in g.strings THEN IF on THEN NowhereIp ELSE ""
  ELSE IF on THEN "1" ELSE "0"

-----------------------------------------------------------------------------
(* The preference changes the rows that say how to play over the network.  *)

ApplyConnect(g, p, v) ==
  LET on == p = "connect"
      Address(old) == IF on /\ ~Real(old) THEN v.data.ip ELSE old
  IN  IF g.connect \in g.strings
      THEN Put(g, v, g.connect, Address(v.fields[g.connect].value), on)
      ELSE IF g.connect \in g.flags THEN Put(g, v, g.connect, Switch(g, g.connect, on), on)
      ELSE v

\* Mutant of ApplyListen: a setting that both connects and hosts is switched off again.
ApplyListenAlways(g, p, v) ==
  IF g.listen \notin RowNames(g) \/ Multiple(g) THEN v
  ELSE Put(g, v, g.listen, Switch(g, g.listen, p = "listen"), p = "listen")
ApplyListen(g, p, v) ==
  IF g.listen \notin RowNames(g) \/ Multiple(g) \/ (p # "listen" /\ g.listen = g.connect) THEN v
  ELSE Put(g, v, g.listen, Switch(g, g.listen, p = "listen"), p = "listen")

ApplyDedicated(g, p, v) ==
  IF g.dedicated \notin RowNames(g) THEN v
  ELSE Put(g, v, g.dedicated, Switch(g, g.dedicated, p = "dedicated"),
           v.fields[g.dedicated].enabled)

Applied(g, p, v) ==
  ApplyDedicated(g, p, ApplyListen(g, p, ApplyConnect(g, p, [v EXCEPT !.data.preference = p])))

\* load_game_settings and init_launch_settings: the preference is that of the game before.
Loaded(stored) == [stored EXCEPT !.ip = IF @ = "" THEN NowhereIp ELSE @]

InitLaunchSettings(g, d) ==
  LET fresh == [n \in RowNames(g) |->
                  [value |-> IF n = g.connect /\ n \in g.strings THEN d.ip ELSE "",
                   enabled |-> TRUE]]
  IN  Persisted(g, Applied(g, d.preference, View(fresh, <<>>, d)), RowNames(g))

Becomes(v) == fields' = v.fields /\ args' = v.args /\ data' = v.data

-----------------------------------------------------------------------------
(* The user changes a row, before the last launch there is.                *)

Edits ==
  /\ changes < MaxChanges /\ changes' = changes + 1 /\ starts < MaxStarts
  /\ told' = NotLaunched
  /\ UNCHANGED <<setup, folder, registry, env, playing, starts, opens>>

SetPreference(p) ==
  /\ Edits
  /\ p \in Offered(setup)
  /\ Becomes(Applied(setup, p, View(fields, args, data)))
  /\ said' = [said EXCEPT !.typed = ""]
  /\ UNCHANGED listed

ChangeSetting(n, value) ==
  LET kept == IF n \in setup.ints /\ value = "" THEN fields[n].value ELSE value
  IN  /\ Becomes(Put(setup, View(fields, args, data), n, kept, fields[n].enabled))
      /\ said' = IF n = setup.connect
                 THEN [said EXCEPT !.typed = value, !.real = IF Real(value) THEN value ELSE @]
                 ELSE [said EXCEPT !.chosen = Updated(@, n, kept)]

TypeAddress(address) ==
  /\ Edits
  /\ setup.connect \in setup.strings
  /\ ChangeSetting(setup.connect, address)
  /\ UNCHANGED listed

HasList(n) == n \in DOMAIN setup.options \/ (n = "map" /\ setup.maps # {})
Visible(n) == n \in RowNames(setup) \ (Hidden(setup) \cup {setup.connect})

Type(n, text) ==
  /\ Edits
  /\ Visible(n) /\ ~HasList(n)
  /\ ChangeSetting(n, text)
  /\ UNCHANGED listed

\* The maps of a folder in the forms the game reads; an extension reads them once.
MapsOf(g, f) == {m.name : m \in {x \in MapFiles[f] : x.as \in g.maps}}
Listed == IF setup.name \in DOMAIN listed THEN listed ELSE Updated(listed, setup.name, folder)

Choose(n, option) ==
  /\ Edits
  /\ Visible(n) /\ HasList(n)
  /\ option \in IF n = "map" THEN {""} \cup MapsOf(setup, Listed[setup.name])
                ELSE ToSet(setup.options[n])
  /\ ChangeSetting(n, option)
  /\ listed' = IF n = "map" THEN Listed ELSE listed

SetNetwork(id, on) ==
  /\ Edits
  /\ Networked(setup)
  /\ data' = [data EXCEPT !.network = id, !.zeroTier = on]
  /\ (id = data.network) # (on = data.zeroTier)
  /\ UNCHANGED <<fields, args, said, listed>>

-----------------------------------------------------------------------------
(* A launch.                                                               *)

\* format_command_line, of each kind of game: what the game is told, by name.  A word is of the
\* settings that are passed on and not empty.
Words(a, names) == Restrict(a, {n \in DOMAIN a \cap names : a[n] # ""})
Peer(g, a) == IF g.connect \in DOMAIN a \cap g.strings THEN a[g.connect] ELSE ""
Joined(g, a) == Peer(g, a) # "" /\ "map" \in DOMAIN a \cap g.strings
Numbered(g, a, n) == n \in DOMAIN a \cap g.ints /\ a[n] \notin {"", "0"}

QuakeLine(g, a) ==
  LET words == Words(a, DOMAIN a \ {g.exe})
  IN  IF Joined(g, a) /\ ~Numbered(g, a, "listen") THEN Extended(words, "listen 1", "1") ELSE words

\* A number that is given later in the line is what counts.
Quake2Line(g, a) ==
  LET words == Words(a, DOMAIN a \ {g.exe})
  IN  IF Joined(g, a) /\ ~Numbered(g, a, "deathmatch") THEN Extended(words, "deathmatch", "1")
      ELSE words

SofLine(g, a) ==
  LET words == Quake2Line(g, a)
  IN  IF Peer(g, a) = NowhereIp /\ Numbered(g, a, "deathmatch")
      THEN Restrict(words, DOMAIN words \ {g.connect}) ELSE words

Quake3Line(g, a) == Words(a, DOMAIN a)

RavenLine(g, a) ==
  LET Set(flag) == flag \in DOMAIN a \cap g.flags /\ a[flag] # ""
      words == Words(a, (g.strings \ {"map"}) \cup (g.flags \cap {"join"}))
      role == IF Set("listen") THEN "listen" ELSE IF Set("serve") THEN "serve" ELSE "map"
  IN  IF "map" \in DOMAIN a \cap g.strings /\ a["map"] # "" THEN Extended(words, role, a["map"])
      ELSE words

\* Numbers and flags are not told at all.
DynamixLine(g, a) == Words(a, g.strings)

CommandLine(g, a) ==
  CASE g.format = "2.0" -> QuakeLine(g, a)
    [] g.format = "2.5" -> Quake2Line(g, a)
    [] g.format = "sof" -> SofLine(g, a)
    [] g.format = "3.0" -> Quake3Line(g, a)
    [] g.format = "vampire" -> RavenLine(g, a)
    [] g.format = "3space" -> DynamixLine(g, a)

Executable(g, a) == IF g.exe \in DOMAIN a /\ a[g.exe] \in Present THEN a[g.exe] ELSE ""

RoleOf(d) == IF d.preference \in {"listen", "dedicated"} THEN "server" ELSE "client"

\* configure_environment.
FallbackIp(g, a, d) ==
  IF g.connect \in DOMAIN a \cap g.strings /\ a[g.connect] \notin {"", NowhereIp}
  THEN a[g.connect] ELSE d.ip

\* Mutant of Environment: what an earlier launch set stays when the network is switched off.
EnvironmentKept(g, a, d) ==
  IF ~(Networked(g) /\ d.zeroTier) THEN [env EXCEPT !.network = ""]
  ELSE IF d.network = "" THEN [env EXCEPT !.network = ""]
  ELSE [network |-> d.network, node |-> RoleOf(d), fallback |-> FallbackIp(g, a, d)]
Environment(g, a, d) ==
  IF ~(Networked(g) /\ d.zeroTier) THEN NoEnvironment
  ELSE IF d.network = "" THEN [env EXCEPT !.network = ""]
  ELSE [network |-> d.network, node |-> RoleOf(d), fallback |-> FallbackIp(g, a, d)]

\* The controllers of the player are played by the game, as keys, or there are none.  The
\* preparations of the extension may fail, and then nothing else is done; or the process may not
\* start, when the environment is set already.
StartGame(pads, outcome) ==
  LET toggles == pads # "none" /\ setup.controller # ""
      on == Switch(setup, setup.controller, pads = "game")
      v == IF toggles
           THEN Put(setup, View(fields, args, data), setup.controller, on,
                    fields[setup.controller].enabled)
           ELSE View(fields, args, data)
  IN  /\ starts < MaxStarts /\ starts' = starts + 1
      /\ Becomes(v)
      /\ said' = IF toggles THEN [said EXCEPT !.chosen = Updated(@, setup.controller, on)] ELSE said
      /\ registry' = v.data
      /\ told' = IF outcome = "started"
                 THEN [done |-> TRUE, line |-> CommandLine(setup, v.args),
                       exe |-> Executable(setup, v.args)]
                 ELSE NotLaunched
      /\ env' = IF outcome = "aborted" THEN env ELSE Environment(setup, v.args, v.data)
      /\ playing' = (outcome = "started" /\ (playing \/ env'.network # ""))
      /\ UNCHANGED <<setup, folder, listed, changes, opens>>

\* set_ip_for_current_network: when the game has ended and has had an address, all the registry
\* remembers is written again, as the view has it by then.
GameEnded ==
  /\ playing /\ playing' = FALSE
  /\ registry' = data
  /\ UNCHANGED <<setup, folder, listed, view, env, told, said, changes, starts, opens>>

\* The user opens another executable; the extension of the one before is unloaded with its view, or
\* stays for another view.
Reopen(g, f) ==
  /\ opens < MaxOpens /\ opens' = opens + 1 /\ starts < MaxStarts
  /\ setup' = g /\ folder' = f
  /\ Becomes(InitLaunchSettings(g, Loaded(registry)))
  /\ listed' \in {listed, Restrict(listed, DOMAIN listed \ {setup.name})}
  /\ said' = [real |-> Loaded(registry).ip, typed |-> "", chosen |-> <<>>]
  /\ told' = NotLaunched /\ playing' = FALSE
  /\ UNCHANGED <<registry, env, changes, starts>>

-----------------------------------------------------------------------------
SettingsInit ==
  /\ setup \in Launches /\ folder \in Folders /\ registry \in Registries
  /\ LET v == InitLaunchSettings(setup, Loaded(registry))
     IN  fields = v.fields /\ args = v.args /\ data = v.data
  /\ listed = <<>> /\ env = NoEnvironment /\ told = NotLaunched /\ playing = FALSE
  /\ said = [real |-> Loaded(registry).ip, typed |-> "", chosen |-> <<>>]
  /\ changes = 0 /\ starts = 0 /\ opens = 0

Options(n) == IF n = "map" THEN {""} \cup UNION {MapsOf(setup, f) : f \in Folders}
              ELSE IF n \in DOMAIN setup.options THEN ToSet(setup.options[n]) ELSE {}

SettingsNext ==
  \/ \E p \in Preferences : SetPreference(p)
  \/ \E address \in Addresses : TypeAddress(address)
  \/ \E n \in Edited, text \in Texts : Type(n, text)
  \/ \E n \in Edited : \E option \in Options(n) : Choose(n, option)
  \/ \E id \in NetworkIds, on \in BOOLEAN : SetNetwork(id, on)
  \/ \E pads \in {"none", "game", "keys"}, outcome \in {"aborted", "failed", "started"} :
       StartGame(pads, outcome)
  \/ GameEnded
  \/ \E g \in Others, f \in Folders : Reopen(g, f)

SettingsSpec == SettingsInit /\ [][SettingsNext]_settingVars

-----------------------------------------------------------------------------
(* What the user may expect of a launch.                                   *)

\* The address the game is given: one that was typed since the preference was chosen, or else the
\* last real one; and a game that hosts by connecting to nowhere is given that.
ExpectedAddress ==
  CASE data.preference = "connect" -> IF said.typed # "" THEN said.typed ELSE said.real
    [] data.preference = "listen" /\ setup.listen = setup.connect ->
         IF said.typed # "" THEN said.typed ELSE NowhereIp
    [] OTHER -> ""

ChosenFor(n) == IF n \in DOMAIN said.chosen THEN said.chosen[n] ELSE ""

\* The words the command lines add to a join of their own, and the settings a preference switches.
Added(n) == n = "listen 1" \/ (n = "deathmatch" /\ ChosenFor(n) = "")
Switched == Hidden(setup) \cup {setup.connect}

\* A map is told under the name that says how to host it, in the games that host it so.
MapWord ==
  IF setup.format # "vampire" THEN "map"
  ELSE CASE data.preference = "listen" -> "listen"
         [] data.preference = "dedicated" -> "serve"
         [] OTHER -> "map"

Says(n) == n \in DOMAIN told.line
TellsAddress ==
  setup.connect \in setup.strings =>
    \/ ExpectedAddress = "" /\ ~Says(setup.connect)
    \/ Says(setup.connect) /\ told.line[setup.connect] = ExpectedAddress
    \/ setup.format = "sof" /\ ExpectedAddress = NowhereIp /\ ChosenFor("deathmatch") # ""

TellsHost ==
  IF setup.format = "vampire" THEN Says("join") <=> data.preference = "connect"
  ELSE /\ setup.dedicated # "" =>
            (Says(setup.dedicated) /\ told.line[setup.dedicated] = "1"
               <=> data.preference = "dedicated")
       /\ setup.listen \in Hidden(setup) \ {""} => (Says(setup.listen) <=> data.preference = "listen")

TellsChosen ==
  /\ \A n \in DOMAIN told.line \ (Switched \cup {MapWord}) : Added(n) \/ told.line[n] = ChosenFor(n)
  /\ \A n \in DOMAIN said.chosen \ {setup.exe, "map"} :
       said.chosen[n] # "" /\ setup.format # "vampire" => Says(n)
  /\ IF Says(MapWord) THEN told.line[MapWord] = ChosenFor("map") ELSE ChosenFor("map") = ""

\* A launch tells the game what the user prefers and has chosen and nothing else, in every game,
\* whatever preferences, addresses and settings came before, in this view or in that of the game
\* before.
ToldAsPreferred == told.done => TellsAddress /\ TellsHost /\ TellsChosen

\* A game over the network has the identity of the role the user prefers and the address that is
\* told or the last real one; and one that is not has none of another game's.
EnvironmentFits ==
  told.done =>
    IF ~(Networked(setup) /\ data.zeroTier) THEN env = NoEnvironment
    ELSE /\ env.network = data.network
         /\ data.network # "" =>
              /\ env.node = "server" <=> data.preference \in {"listen", "dedicated"}
              /\ env.fallback =
                   IF setup.connect \in setup.strings /\ ExpectedAddress \notin {"", NowhereIp}
                   THEN ExpectedAddress ELSE said.real
=============================================================================
