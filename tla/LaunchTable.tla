------------------------------ MODULE LaunchTable ------------------------------
(***************************************************************************)
(* What the extensions of the games say of a launch: the settings a game   *)
(* takes, by their kind, which of them a launch over the network is about, *)
(* the values the view offers for a setting, and how the command line is   *)
(* put together.                                                           *)
(*                                                                         *)
(* Every value is a string: a number is its digits, and a flag is "1" when *)
(* it is set.  Left out: the player's name, and in what group of the       *)
(* view's table a setting is shown.                                        *)
(***************************************************************************)
EXTENDS Integers, Sequences, SequencesExt, TLC

-----------------------------------------------------------------------------
(* The settings: the address to connect to, whether to host a game or only *)
(* to serve it, whether to use a controller, and which executable to start *)
(* are settings of their own in each game; "" where a game has none.       *)

Caps(flags, ints, strings) ==
  [flags |-> flags, ints |-> ints, strings |-> strings,
   connect |-> "", listen |-> "", dedicated |-> "", controller |-> "", exe |-> ""]

QuakeCaps == [Caps({"listen", "dedicated"}, {"width", "height", "vid_mode", "joystick"},
  {"connect", "map", "game", "preferred_exe"})
  EXCEPT !.connect = "connect", !.listen = "listen", !.dedicated = "dedicated",
    !.controller = "joystick", !.exe = "preferred_exe"]
Hexen2Caps == [Caps({"listen", "dedicated"},
  {"width", "height", "vid_mode", "chase_active", "chase_back", "chase_up", "chase_right",
    "joystick"}, {"connect", "map", "preferred_exe", "game"})
  EXCEPT !.connect = "connect", !.listen = "listen", !.dedicated = "dedicated",
    !.controller = "joystick", !.exe = "preferred_exe"]
PraevusCaps == [Caps({"listen", "dedicated"},
  {"width", "height", "vid_mode", "chase_active", "chase_back", "chase_up", "chase_right",
    "joystick"}, {"connect", "map", "preferred_exe", "game"})
  EXCEPT !.connect = "connect", !.listen = "listen", !.dedicated = "dedicated",
    !.controller = "joystick", !.exe = "preferred_exe"]
CiaOperativeCaps == [Caps({}, {"width", "height", "joystick"}, {"map"})
  EXCEPT !.controller = "joystick"]
LaserArenaCaps == [Caps({"listen", "dedicated"},
  {"width", "height", "vid_mode", "chase_active", "chase_back", "chase_up", "chase_right",
    "joystick"}, {"connect", "map", "preferred_exe"})
  EXCEPT !.connect = "connect", !.listen = "listen", !.dedicated = "dedicated",
    !.controller = "joystick", !.exe = "preferred_exe"]
Quake2Caps == [Caps({}, {"gl_mode", "dedicated", "in_joystick"},
  {"connect", "map", "gl_driver", "game"})
  EXCEPT !.connect = "connect", !.listen = "connect", !.dedicated = "dedicated",
    !.controller = "in_joystick"]
DaikatanaCaps == [Caps({}, {"dedicated", "gl_mode"}, {"connect", "map", "gl_driver", "in_joystick"})
  EXCEPT !.connect = "connect", !.listen = "connect", !.dedicated = "dedicated",
    !.controller = "in_joystick"]
Heretic2Caps == [Caps({},
  {"dedicated", "vid_mode", "in_joystick", "autoweapon", "win_noalttab", "blood_level", "s_khz"},
    {"connect", "map", "game"})
  EXCEPT !.connect = "connect", !.listen = "connect", !.dedicated = "dedicated",
    !.controller = "in_joystick"]
KingpinCaps == [Caps({}, {"dedicated", "gl_mode", "in_joystick"}, {"connect", "map", "gl_driver"})
  EXCEPT !.connect = "connect", !.listen = "connect", !.dedicated = "dedicated",
    !.controller = "in_joystick"]
SofCaps == [Caps({},
  {"dedicated", "deathmatch", "timelimit", "fraglimit", "maxclients", "numbots", "gl_mode",
    "in_joystick"}, {"connect", "map", "gl_driver", "game"})
  EXCEPT !.connect = "connect", !.listen = "connect", !.dedicated = "dedicated",
    !.controller = "in_joystick"]
SinCaps == [Caps({}, {"dedicated", "gl_mode", "in_joystick"},
  {"connect", "map", "gl_driver", "game"})
  EXCEPT !.connect = "connect", !.listen = "connect", !.dedicated = "dedicated",
    !.controller = "in_joystick"]
QuakeLiveCaps == [Caps({}, {"r_mode"}, {"connect", "map"})
  EXCEPT !.connect = "connect"]
CallOfDutyUoMpCaps == [Caps({}, {"r_customwidth", "r_customheight", "r_mode", "in_joystick"},
  {"connect", "map"})
  EXCEPT !.connect = "connect", !.controller = "in_joystick"]
CallOfDutyUoSpCaps == [Caps({}, {"r_customwidth", "r_customheight", "r_mode", "in_joystick"},
  {"map"})
  EXCEPT !.controller = "in_joystick"]
CallOfDutyMpCaps == [Caps({}, {"r_customwidth", "r_customheight", "r_mode", "in_joystick"},
  {"connect", "map"})
  EXCEPT !.connect = "connect", !.controller = "in_joystick"]
CallOfDutySpCaps == [Caps({}, {"r_mode", "in_joystick"}, {"map"})
  EXCEPT !.controller = "in_joystick"]
EliteForceSpCaps == [Caps({}, {"r_customwidth", "r_customheight", "r_mode", "in_joystick"},
  {"map", "r_glDriver"})
  EXCEPT !.controller = "in_joystick"]
Sof2MpCaps == [Caps({},
  {"dedicated", "r_customwidth", "r_customheight", "r_mode", "net_noipx", "r_fullscreen",
    "cg_autoReload", "cg_drawGun", "cg_fov", "scorelimit", "timelimit", "in_joystick"},
    {"connect", "map", "r_glDriver", "g_gametype"})
  EXCEPT !.connect = "connect", !.listen = "net_noipx", !.dedicated = "dedicated",
    !.controller = "in_joystick"]
AliceCaps == [Caps({}, {"r_customwidth", "r_customheight", "r_mode", "in_joystick"},
  {"map", "r_glDriver"})
  EXCEPT !.controller = "in_joystick"]
WolfMpCaps == [Caps({}, {"dedicated", "r_mode", "in_joystick"}, {"connect", "map", "r_glDriver"})
  EXCEPT !.connect = "connect", !.listen = "connect", !.dedicated = "dedicated",
    !.controller = "in_joystick"]
AlliedAssaultCaps == [Caps({},
  {"r_customwidth", "r_customheight", "r_mode", "in_joystick", "g_gametype"}, {"connect", "map",
    "r_glDriver"})
  EXCEPT !.connect = "connect", !.listen = "g_gametype", !.controller = "in_joystick"]
BreakthroughCaps == [Caps({},
  {"r_customwidth", "r_customheight", "r_mode", "in_joystick", "r_usepixo", "g_gametype"},
    {"connect", "map", "r_glDriver"})
  EXCEPT !.connect = "connect", !.listen = "g_gametype", !.controller = "in_joystick"]
SpearheadCaps == [Caps({},
  {"r_customwidth", "r_customheight", "r_mode", "in_joystick", "g_gametype"}, {"connect", "map",
    "r_glDriver"})
  EXCEPT !.connect = "connect", !.listen = "g_gametype", !.controller = "in_joystick"]
PacificAssaultCaps == [Caps({}, {"r_customwidth", "r_customheight", "r_mode", "in_joystick"},
  {"connect", "map", "r_glDriver"})
  EXCEPT !.connect = "connect", !.controller = "in_joystick"]
EliteForce2Caps == [Caps({},
  {"dedicated", "r_customwidth", "r_customheight", "r_mode", "in_joystick", "g_gametype",
    "mp_gametype"}, {"connect", "map", "r_glDriver"})
  EXCEPT !.connect = "connect", !.listen = "g_gametype", !.dedicated = "dedicated",
    !.controller = "in_joystick"]
EliteForceMpCaps == [Caps({},
  {"dedicated", "r_customwidth", "r_customheight", "r_mode", "in_joystick"}, {"connect", "map",
    "r_glDriver"})
  EXCEPT !.connect = "connect", !.listen = "connect", !.dedicated = "dedicated",
    !.controller = "in_joystick"]
Fakk2Caps == [Caps({}, {"r_customwidth", "r_customheight", "r_mode", "net_noipx", "in_joystick"},
  {"connect", "map", "r_glDriver"})
  EXCEPT !.connect = "connect", !.listen = "net_noipx", !.controller = "in_joystick"]
IronGripCaps == [Caps({}, {"r_customwidth", "r_customheight", "r_mode", "in_joystick"},
  {"connect", "map"})
  EXCEPT !.connect = "connect", !.controller = "in_joystick"]
Quake3Caps == [Caps({},
  {"dedicated", "r_customwidth", "r_customheight", "r_mode", "net_noipx", "in_joystick"},
    {"connect", "map", "r_glDriver"})
  EXCEPT !.connect = "connect", !.listen = "net_noipx", !.dedicated = "dedicated",
    !.controller = "in_joystick"]
WolfEtCaps == [Caps({}, {"dedicated", "r_mode", "in_joystick"}, {"connect", "map", "r_glDriver"})
  EXCEPT !.connect = "connect", !.listen = "connect", !.dedicated = "dedicated",
    !.controller = "in_joystick"]
WolfSpCaps == [Caps({}, {"r_mode", "in_joystick"}, {"map", "r_glDriver"})
  EXCEPT !.controller = "in_joystick"]
SpaceTraderCaps == [Caps({}, {"r_mode"}, {"connect", "map"})
  EXCEPT !.connect = "connect"]
JediAcademyMpCaps == [Caps({},
  {"dedicated", "r_customwidth", "r_customheight", "r_mode", "in_joystick"}, {"connect", "map"})
  EXCEPT !.connect = "connect", !.listen = "connect", !.dedicated = "dedicated",
    !.controller = "in_joystick"]
JediAcademySpCaps == [Caps({}, {"r_customwidth", "r_customheight", "r_mode", "in_joystick"},
  {"map"})
  EXCEPT !.controller = "in_joystick"]
JediOutcastMpCaps == [Caps({},
  {"dedicated", "r_customwidth", "r_customheight", "r_mode", "in_joystick"}, {"connect", "map"})
  EXCEPT !.connect = "connect", !.listen = "connect", !.dedicated = "dedicated",
    !.controller = "in_joystick"]
JediOutcastSpCaps == [Caps({}, {"r_customwidth", "r_customheight", "r_mode", "in_joystick"},
  {"map"})
  EXCEPT !.controller = "in_joystick"]
Sof2SpCaps == [Caps({}, {"r_customwidth", "r_customheight", "r_mode", "in_joystick"},
  {"map", "r_glDriver"})
  EXCEPT !.controller = "in_joystick"]
AnoxCaps == Caps({}, {"gl_mode"}, {"map", "gl_driver"})
BattleMetalCaps == [Caps({}, {}, {})
  EXCEPT !.connect = "connect"]
MageslayerCaps == [Caps({"listen", "serve", "join"}, {"Joystick", "Mouse"}, {"map"})
  EXCEPT !.connect = "join", !.listen = "listen", !.dedicated = "serve", !.controller = "Joystick"]
TakeNoPrisonersCaps == [Caps({"listen", "serve", "join"}, {"Joystick", "Mouse"}, {"map"})
  EXCEPT !.connect = "join", !.listen = "listen", !.dedicated = "serve", !.controller = "Joystick"]
StarsiegeCaps == [Caps({}, {}, {"connect"})
  EXCEPT !.connect = "connect"]
TribesCaps == [Caps({}, {}, {"connect"})
  EXCEPT !.connect = "connect"]

-----------------------------------------------------------------------------
(* The values offered.  A map comes loose in the folder of the maps, or in *)
(* an archive, or in an archive that is a zip file.                        *)

Modes(first, last) == [i \in 1..(last - first + 1) |-> ToString(first + i - 1)]
\* Seven resolutions that are all given the same mode.
Placeholders == [i \in 1..7 |-> "1"]
Custom == <<"-1">>
NoOptions == <<>>

NoMaps == {}
AllZips == {"zip"}
LooseAndPacks == {"loose", "pack"}
LooseAndAll == {"loose", "pack", "zip"}
NoChoices == [maps |-> NoMaps, options |-> NoOptions]

QuakeChoices == [maps |-> LooseAndPacks, options |-> "vid_mode" :> Modes(8, 11) @@
  "preferred_exe" :> <<"Winquake.exe", "Glquake.exe", "qwcl.exe", "glqwcl.exe">>]
Hexen2Choices == [maps |-> LooseAndPacks, options |-> "vid_mode" :> Modes(8, 11) @@
  "preferred_exe" :> <<"h2.exe", "glh2.exe">>]
PraevusChoices == [maps |-> LooseAndPacks, options |-> "vid_mode" :> Modes(8, 11) @@
  "preferred_exe" :> <<"H2MP.EXE", "GLH2MP.EXE">>]
CiaOperativeChoices == [maps |-> LooseAndPacks, options |-> NoOptions]
LaserArenaChoices == [maps |-> LooseAndPacks, options |-> "vid_mode" :> Modes(8, 11) @@
  "preferred_exe" :> <<"LA.exe", "LA_GL.exe">>]
Quake2Choices == [maps |-> LooseAndPacks, options |-> "gl_mode" :> Modes(3, 9)]
DaikatanaChoices == [maps |-> LooseAndPacks, options |-> "gl_mode" :> Modes(3, 9)]
Heretic2Choices == [maps |-> LooseAndPacks, options |-> "vid_mode" :> Modes(3, 9)]
KingpinChoices == [maps |-> LooseAndAll, options |-> "gl_mode" :> Modes(3, 9)]
SofChoices == [maps |-> LooseAndPacks, options |-> "gl_mode" :> Modes(3, 9) @@
  "deathmatch" :> Modes(1, 7)]
SinChoices == [maps |-> LooseAndPacks, options |-> "gl_mode" :> Modes(3, 9)]
QuakeLiveChoices == [maps |-> AllZips, options |-> "r_mode" :> Placeholders \o Custom]
CallOfDutyUoMpChoices == [maps |-> AllZips, options |-> "r_mode" :> Placeholders]
CallOfDutyUoSpChoices == [maps |-> AllZips, options |-> "r_mode" :> Placeholders]
CallOfDutyMpChoices == [maps |-> AllZips, options |-> "r_mode" :> Placeholders]
CallOfDutySpChoices == [maps |-> AllZips, options |-> "r_mode" :> Placeholders]
EliteForceSpChoices == [maps |-> AllZips, options |-> "r_mode" :> Placeholders]
Sof2MpChoices == [maps |-> AllZips, options |-> "r_mode" :> Modes(3, 9) \o Custom @@
  "g_gametype" :> <<"dm", "tdm", "ctf", "elim", "inf">>]
AliceChoices == [maps |-> AllZips, options |-> "r_mode" :> Placeholders \o Custom]
WolfMpChoices == [maps |-> AllZips, options |-> "r_mode" :> Placeholders]
AlliedAssaultChoices == [maps |-> AllZips,
  options |-> "r_mode" :> <<"3", "4", "11", "5", "6", "7", "8", "9", "10">> \o Custom @@
  "g_gametype" :> Modes(0, 4)]
BreakthroughChoices == [maps |-> AllZips, options |-> "r_mode" :> Modes(3, 9) @@
  "r_usepixo" :> Modes(0, 3) @@ "g_gametype" :> Modes(0, 6)]
SpearheadChoices == [maps |-> AllZips, options |-> "r_mode" :> Modes(3, 11) \o Custom @@
  "g_gametype" :> Modes(0, 5)]
PacificAssaultChoices == [maps |-> NoMaps, options |-> "r_mode" :> Placeholders \o Custom]
EliteForce2Choices == [maps |-> AllZips, options |-> "r_mode" :> Modes(3, 9) \o Custom @@
  "mp_gametype" :> Modes(0, 3)]
EliteForceMpChoices == [maps |-> AllZips, options |-> "r_mode" :> Placeholders]
Fakk2Choices == [maps |-> AllZips, options |-> "r_mode" :> Placeholders \o Custom]
IronGripChoices == [maps |-> AllZips, options |-> "r_mode" :> Placeholders]
Quake3Choices == [maps |-> AllZips, options |-> "r_mode" :> Placeholders \o Custom]
WolfEtChoices == [maps |-> AllZips, options |-> "r_mode" :> Placeholders]
WolfSpChoices == [maps |-> AllZips, options |-> "r_mode" :> Placeholders]
SpaceTraderChoices == [maps |-> AllZips, options |-> "r_mode" :> Placeholders]
JediAcademyMpChoices == [maps |-> AllZips, options |-> "r_mode" :> Modes(3, 9) \o Custom]
JediAcademySpChoices == [maps |-> AllZips, options |-> "r_mode" :> Modes(1, 7) \o Custom]
JediOutcastMpChoices == [maps |-> AllZips, options |-> "r_mode" :> Modes(3, 9) \o Custom]
JediOutcastSpChoices == [maps |-> AllZips,
  options |-> "r_mode" :> <<"3", "4", "5", "5", "6", "7", "8">> \o Custom]
Sof2SpChoices == [maps |-> AllZips, options |-> "r_mode" :> Modes(3, 9) \o Custom]
AnoxChoices == [maps |-> LooseAndAll, options |-> NoOptions]
BattleMetalChoices == [maps |-> LooseAndPacks, options |-> NoOptions]
MageslayerChoices == [maps |-> LooseAndPacks, options |-> NoOptions]
TakeNoPrisonersChoices == [maps |-> LooseAndPacks, options |-> NoOptions]

-----------------------------------------------------------------------------
(* The games.                                                              *)

LaunchOf(name, format, caps, choices) ==
  [name |-> name, format |-> format, maps |-> choices.maps, options |-> choices.options] @@ caps

AllLaunches ==
  {LaunchOf("quake", "2.0", QuakeCaps, QuakeChoices),
   LaunchOf("hexen-2", "2.0", Hexen2Caps, Hexen2Choices),
   LaunchOf("hexen-2-praevus", "2.0", PraevusCaps, PraevusChoices),
   LaunchOf("cia-operative", "2.0", CiaOperativeCaps, CiaOperativeChoices),
   LaunchOf("laser-arena", "2.0", LaserArenaCaps, LaserArenaChoices),
   LaunchOf("quake-2", "2.5", Quake2Caps, Quake2Choices),
   LaunchOf("daikatana", "2.5", DaikatanaCaps, DaikatanaChoices),
   LaunchOf("heretic-2", "2.5", Heretic2Caps, Heretic2Choices),
   LaunchOf("kingpin", "2.5", KingpinCaps, KingpinChoices),
   LaunchOf("sof", "sof", SofCaps, SofChoices),
   LaunchOf("sin", "2.5", SinCaps, SinChoices),
   LaunchOf("quake-live", "3.0", QuakeLiveCaps, QuakeLiveChoices),
   LaunchOf("call-of-duty-uo-mp", "3.0", CallOfDutyUoMpCaps, CallOfDutyUoMpChoices),
   LaunchOf("call-of-duty-uo-sp", "3.0", CallOfDutyUoSpCaps, CallOfDutyUoSpChoices),
   LaunchOf("call-of-duty-mp", "3.0", CallOfDutyMpCaps, CallOfDutyMpChoices),
   LaunchOf("call-of-duty-sp", "3.0", CallOfDutySpCaps, CallOfDutySpChoices),
   LaunchOf("elite-force-sp", "3.0", EliteForceSpCaps, EliteForceSpChoices),
   LaunchOf("sof-2-mp", "3.0", Sof2MpCaps, Sof2MpChoices),
   LaunchOf("alice", "3.0", AliceCaps, AliceChoices),
   LaunchOf("wolf-mp", "3.0", WolfMpCaps, WolfMpChoices),
   LaunchOf("allied-assault", "3.0", AlliedAssaultCaps, AlliedAssaultChoices),
   LaunchOf("allied-assault-breakthrough", "3.0", BreakthroughCaps, BreakthroughChoices),
   LaunchOf("allied-assault-spearhead", "3.0", SpearheadCaps, SpearheadChoices),
   LaunchOf("pacific-assault", "3.0", PacificAssaultCaps, PacificAssaultChoices),
   LaunchOf("elite-force-2", "3.0", EliteForce2Caps, EliteForce2Choices),
   LaunchOf("elite-force-mp", "3.0", EliteForceMpCaps, EliteForceMpChoices),
   LaunchOf("fakk-2", "3.0", Fakk2Caps, Fakk2Choices),
   LaunchOf("iron-grip", "3.0", IronGripCaps, IronGripChoices),
   LaunchOf("quake-3", "3.0", Quake3Caps, Quake3Choices),
   LaunchOf("wolf-et", "3.0", WolfEtCaps, WolfEtChoices),
   LaunchOf("wolf-sp", "3.0", WolfSpCaps, WolfSpChoices),
   LaunchOf("space-trader", "3.0", SpaceTraderCaps, SpaceTraderChoices),
   LaunchOf("jedi-academy-mp", "3.0", JediAcademyMpCaps, JediAcademyMpChoices),
   LaunchOf("jedi-academy-sp", "3.0", JediAcademySpCaps, JediAcademySpChoices),
   LaunchOf("jedi-outcast-mp", "3.0", JediOutcastMpCaps, JediOutcastMpChoices),
   LaunchOf("jedi-outcast-sp", "3.0", JediOutcastSpCaps, JediOutcastSpChoices),
   LaunchOf("sof-2-sp", "3.0", Sof2SpCaps, Sof2SpChoices),
   LaunchOf("anox", "2.5", AnoxCaps, AnoxChoices),
   LaunchOf("battle-metal", "2.0", BattleMetalCaps, BattleMetalChoices),
   LaunchOf("mageslayer", "vampire", MageslayerCaps, MageslayerChoices),
   LaunchOf("take-no-prisoners", "vampire", TakeNoPrisonersCaps, TakeNoPrisonersChoices),
   LaunchOf("starsiege", "3space", StarsiegeCaps, NoChoices),
   LaunchOf("tribes", "3space", TribesCaps, NoChoices)}

=============================================================================
