------------------------------- MODULE GameTable -------------------------------
(***************************************************************************)
(* What the extensions of the id Tech games know: the input of a           *)
(* controller by its number in the hardware and by its name in the game,   *)
(* the mappings a game takes, and, for each game, what its prelaunch       *)
(* settings, its readers of bindings and its default controller do.        *)
(*                                                                         *)
(* An input of a controller is named for its VK_GAMEPAD_ code.  An action  *)
(* of a game is named for the input that has it by default, whatever the   *)
(* game calls it: "LSU" is +forward, "RSL" is +left, "RT" the attack.      *)
(***************************************************************************)
EXTENDS Integers, Sequences, FiniteSets, FiniteSetsExt

Dpad == {"UP", "DOWN", "LEFT", "RIGHT"}
Triggers == {"LT", "RT"}
LeftStick == {"LSU", "LSD", "LSL", "LSR"}
RightStick == {"RSU", "RSD", "RSL", "RSR"}
Buttons == {"A", "B", "X", "Y", "LB", "RB", "VIEW", "MENU", "LSB", "RSB"}
PadInput == Dpad \cup Triggers \cup LeftStick \cup RightStick \cup Buttons

Sideways == {"LSL", "LSR", "RSL", "RSR"}

-----------------------------------------------------------------------------
(* The number an input has in the hardware, for each kind of controller.   *)

NoHardware == [type |-> "none", index |-> 0]
Button(order, vkey) ==
  [type |-> "button", index |-> (CHOOSE i \in DOMAIN order : order[i] = vkey) - 1]
AxisAt(index) == [type |-> "axis", index |-> index]
Hat == [type |-> "hat", index |-> 0]
Stick(vkey, sideways, upright) == AxisAt(IF vkey \in Sideways THEN sideways ELSE upright)

XboxOrder == <<"A", "B", "X", "Y", "LB", "RB", "VIEW", "MENU", "LSB", "RSB">>
PlayStationOrder == <<"X", "A", "B", "Y", "LB", "RB", "LT", "RT", "VIEW", "MENU", "LSB", "RSB">>
JoystickOrder == <<"RT", "LT", "LSB", "RSB", "LB", "RB", "A", "B", "X", "Y", "VIEW", "MENU">>

XboxIndex(vkey) ==
  CASE vkey \in Dpad -> Hat
    [] vkey \in LeftStick -> Stick(vkey, 0, 1)
    [] vkey \in RightStick -> Stick(vkey, 3, 4)
    [] vkey \in Triggers -> AxisAt(2)
    [] OTHER -> Button(XboxOrder, vkey)

Ps3Index(vkey) ==
  CASE vkey \in Dpad -> Hat
    [] vkey \in LeftStick -> Stick(vkey, 0, 1)
    [] vkey \in RightStick -> Stick(vkey, 2, 5)
    [] OTHER -> Button(PlayStationOrder, vkey)

\* The triggers are buttons and axes at once.
Ps4Index(vkey, preferAxis) ==
  CASE vkey \in Triggers /\ preferAxis -> AxisAt(IF vkey = "LT" THEN 3 ELSE 4)
    [] OTHER -> Ps3Index(vkey)

JoystickIndex(vkey) ==
  CASE vkey \in Dpad -> Hat
    [] vkey \in LeftStick -> Stick(vkey, 0, 1)
    [] vkey \in RightStick -> NoHardware
    [] OTHER -> Button(JoystickOrder, vkey)

HardwareIndex(pad, vkey, preferAxis) ==
  CASE pad = "xbox" -> XboxIndex(vkey)
    [] pad = "ps3" -> Ps3Index(vkey)
    [] pad = "ps4" -> Ps4Index(vkey, preferAxis)
    [] pad = "joystick" -> JoystickIndex(vkey)

MappedAxes(pad) ==
  {h.index : h \in {x \in {HardwareIndex(pad, v, FALSE) : v \in PadInput} : x.type = "axis"}}
AxisCount(pad) == Max(MappedAxes(pad)) + 1

\* winmm orders the rotations from the last to the first, from its fourth axis on.
Winmm(hw, axes) ==
  LET rotations == axes \cap 3..5
  IN  IF hw.type # "axis" \/ hw.index \notin 3..5 THEN hw
      ELSE IF Cardinality(rotations) = 1 THEN AxisAt(3)
      ELSE IF hw.index \in rotations THEN AxisAt(3 + Cardinality({r \in rotations : r > hw.index}))
      ELSE hw

-----------------------------------------------------------------------------
(* The name an input has in the game.  Of the four families of names,      *)
(* those of Quake and of Quake II call an axis as a whole, those of Quake  *)
(* III and of the games made from it by Raven each half of it.             *)

NoName == <<"none", "">>
Key(name) == <<"key", name>>
Joy(n) == <<"joy", n>>
Aux(n) == <<"aux", n>>

Families == {"quake", "quake 2", "quake 3", "raven"}
Halves(family) == family \in {"quake 3", "raven"}

ButtonName(family, index) ==
  CASE family = "raven" -> Joy(index)
    [] family = "quake 3" \/ (family # "raven" /\ index < 4) -> Joy(index + 1)
    [] OTHER -> Aux(index + 1)

DpadName(family, vkey) ==
  IF Halves(family)
  THEN Joy(CASE vkey = "UP" -> 24 [] vkey = "DOWN" -> 25
             [] vkey = "LEFT" -> 27 [] vkey = "RIGHT" -> 26)
  ELSE Aux(29)

AxisName2(vkey, index) ==
  IF vkey \in Triggers \cup LeftStick \cup RightStick THEN <<"axis", index>> ELSE NoName

Positive == {"LSU", "LSR", "RSU", "RSR", "LT"}
AxisName3(vkey, index) ==
  IF vkey \in Buttons \cup Dpad \/ index \notin 0..3 THEN NoName
  ELSE CASE index = 0 -> Key(IF vkey \in Positive THEN "RIGHTARROW" ELSE "LEFTARROW")
         [] index = 1 -> Key(IF vkey \in Positive THEN "UPARROW" ELSE "DOWNARROW")
         [] index = 2 -> Joy(IF vkey \in Positive THEN 17 ELSE 16)
         [] index = 3 -> Joy(IF vkey \in Positive THEN 18 ELSE 19)

AxisName(family, vkey, index) ==
  IF Halves(family) THEN AxisName3(vkey, index)
  ELSE IF index > 5 THEN NoName ELSE AxisName2(vkey, index)

-----------------------------------------------------------------------------
(* Whether a game takes a mapping of an input of a controller to an        *)
(* action.  The empty action asks whether the input can be left alone.     *)

SticksAndCrouch == LeftStick \cup RightStick \cup {"B"}

TakesForAxes(caps, action, hw, axisOnly) ==
  caps.place = 0 /\ (hw.type = "axis" => action \in {""} \cup axisOnly)

IdTech20Takes(caps, action, hw, jump) ==
  TakesForAxes(caps, action, hw, SticksAndCrouch \cup IF jump THEN {"A"} ELSE {})
IdTech25Takes(caps, action, hw) == TakesForAxes(caps, action, hw, SticksAndCrouch \cup {"A"})
SofTakes(caps, action, hw) == TakesForAxes(caps, action, hw, SticksAndCrouch \cup {"A"})

IdTech3Takes(caps, action, hw) ==
  /\ caps.place = 0
  /\ \/ action = "" /\ (caps.axes < 6 \/ hw.index <= 3)
     \/ hw.type # "axis"
     \/ IF caps.axes < 6 THEN hw.index <= 3
        ELSE /\ hw.index = 4 => action \in {"RSL", "RSR"}
             /\ hw.index = 5 => action \in {"RSU", "RSD"}

MohAxis == <<{"LSL", "LSR"}, {"LSU", "LSD"}, {"RSL", "RSR"}, {"RSU", "RSD"}>>
MohTakes(caps, action, hw) ==
  caps.place = 0 /\ (hw.type = "axis" /\ hw.index \in 0..3 => action \in MohAxis[hw.index + 1])

IsInputMappingValid(game, caps, action, hw) ==
  CASE game.takes = "2.0" -> IdTech20Takes(caps, action, hw, game.jump)
    [] game.takes = "2.5" -> IdTech25Takes(caps, action, hw)
    [] game.takes = "sof" -> SofTakes(caps, action, hw)
    [] game.takes = "3.0" -> IdTech3Takes(caps, action, hw)
    [] game.takes = "moh" -> MohTakes(caps, action, hw)
    [] game.takes = "any" -> TRUE

-----------------------------------------------------------------------------
(* The inputs that have one of the actions a game lists by default.  The   *)
(* others have none, or one that the game calls something else.            *)

QuakeActions == PadInput \ {"UP", "DOWN", "LT", "X", "LB", "RB", "MENU"}
Hexen2Actions == PadInput \ {"UP", "DOWN", "A", "X", "Y", "RB", "RSB"}
PraevusActions == PadInput \ {"UP", "DOWN", "LEFT", "RIGHT", "LT", "X", "Y", "LB", "RB", "MENU"}
CiaOperativeActions == PadInput \ {"UP", "DOWN", "LEFT", "RIGHT", "Y", "LB", "RB", "VIEW", "RSB"}
LaserArenaActions == PadInput \ {"UP", "DOWN", "LEFT", "RIGHT", "LT", "A", "X", "Y", "LB", "VIEW",
  "MENU", "RSB"}
Quake2Actions == PadInput \ {"UP", "DOWN", "LEFT", "LT", "RSB"}
DaikatanaActions == PadInput \ {"UP", "DOWN", "LT", "X", "RSB"}
Heretic2Actions == PadInput \ {"UP", "DOWN", "LEFT", "X", "RB"}
KingpinActions == PadInput \ {"LEFT", "X", "RB", "VIEW"}
SofActions == PadInput \ {"UP"}
SinActions == PadInput \ {"UP", "DOWN", "X"}
QuakeLiveActions == PadInput \ {"UP", "DOWN", "LEFT", "LT", "X", "LB", "RB", "MENU"}
CallOfDutyUoMpActions == PadInput \ {"UP", "DOWN", "LEFT", "LT", "X", "LB", "RB", "MENU"}
CallOfDutyUoSpActions == PadInput \ {"UP", "DOWN", "LEFT", "LT", "X", "LB", "RB", "MENU"}
CallOfDutyMpActions == PadInput \ {"UP", "DOWN", "LB", "MENU"}
CallOfDutySpActions == PadInput \ {"UP", "DOWN", "LB", "MENU"}
EliteForceSpActions == PadInput \ {"UP", "DOWN", "LB", "RB", "RSB"}
Sof2MpActions == PadInput \ {"UP"}
AliceActions == PadInput \ {"UP", "DOWN", "LB", "RB"}
WolfMpActions == PadInput \ {"UP"}
AlliedAssaultActions == PadInput \ {"DOWN"}
BreakthroughActions == PadInput \ {"DOWN", "X", "Y", "RB", "VIEW", "RSB"}
SpearheadActions == PadInput \ {"DOWN", "X", "Y", "RB", "VIEW", "RSB"}
PacificAssaultActions == PadInput \ {"DOWN", "X", "RB"}
EliteForce2Actions == PadInput \ {"UP", "DOWN", "LEFT", "RIGHT", "LT", "X", "LB", "RB"}
EliteForceMpActions == PadInput \ {"UP", "DOWN", "X", "LB", "RB", "RSB"}
Fakk2Actions == PadInput \ {"UP", "X", "LB", "RSB"}
IronGripActions == PadInput \ {"UP", "DOWN", "X", "RSB"}
Quake3Actions == PadInput \ {"UP", "DOWN", "LEFT", "X", "LB", "RB"}
WolfEtActions == PadInput \ {"UP", "LEFT"}
WolfSpActions == PadInput \ {"UP", "DOWN"}
SpaceTraderActions == PadInput \ {"UP", "DOWN", "LEFT", "RIGHT", "LB", "RB", "MENU", "RSB"}
JediAcademyMpActions == PadInput
JediAcademySpActions == PadInput
JediOutcastMpActions == PadInput
JediOutcastSpActions == PadInput \ {"VIEW"}
Sof2SpActions == PadInput \ {"UP", "DOWN", "LB", "RB", "VIEW", "MENU"}

-----------------------------------------------------------------------------
(* The games.  For each of them:                                           *)
(*   names    the names its file of bindings calls the inputs by           *)
(*   clears   the names it gives up before, "nothing" if it does not       *)
(*   first    whether it gives them up before it saves the bindings        *)
(*   runs     whether it writes the file and has the game run it           *)
(*   archive  the bindings it reads from the game's archive                *)
(*   own      those it reads from the file the game keeps for the player   *)
(*   mlook    whether it has looking up and down switch the mouse look on  *)
(*   native   whether the game itself has a backend for controllers        *)
(*   takes    the mappings it takes; jump: what its "A" does is a jump     *)
(*   actions  the inputs that have an action the game lists by default     *)

GameOf(names, takes, mlook, actions) ==
  [names |-> names, clears |-> names, first |-> TRUE, runs |-> TRUE, archive |-> {"keys", "mouse"},
   own |-> {"keys", "mouse"}, mlook |-> mlook, native |-> TRUE,
   takes |-> takes, jump |-> FALSE, actions |-> actions]
IdTech2(takes, actions) == GameOf("quake", takes, TRUE, actions)
IdTech25(takes, actions) == GameOf("quake 2", takes, TRUE, actions)
IdTech3(takes, actions) == GameOf("quake 3", takes, FALSE, actions)
Raven(actions) == GameOf("raven", "3.0", FALSE, actions)

Quake == [IdTech2("2.0", QuakeActions) EXCEPT !.jump = TRUE]
Hexen2 == [IdTech2("2.0", Hexen2Actions) EXCEPT !.jump = TRUE]
Praevus == [IdTech2("any", PraevusActions) EXCEPT !.jump = TRUE]
CiaOperative == IdTech2("2.0", CiaOperativeActions)
LaserArena == [IdTech2("2.0", LaserArenaActions) EXCEPT !.jump = TRUE]
Quake2 == IdTech25("2.5", Quake2Actions)
Daikatana == IdTech25("2.5", DaikatanaActions)
Heretic2 == IdTech25("any", Heretic2Actions)
Kingpin == [IdTech25("2.5", KingpinActions) EXCEPT !.archive = {"keys"}]
Sof == IdTech25("sof", SofActions)
Sin == [IdTech25("2.5", SinActions) EXCEPT !.first = FALSE, !.archive = {}, !.own = {}]
QuakeLive == [IdTech25("3.0", QuakeLiveActions)
  EXCEPT !.clears = "nothing", !.archive = {}, !.own = {}, !.mlook = FALSE]
CallOfDutyUoMp == [IdTech25("3.0", CallOfDutyUoMpActions)
  EXCEPT !.clears = "quake 3", !.mlook = FALSE]
CallOfDutyUoSp == [IdTech25("3.0", CallOfDutyUoSpActions)
  EXCEPT !.clears = "quake 3", !.mlook = FALSE]
CallOfDutyMp == IdTech3("3.0", CallOfDutyMpActions)
CallOfDutySp == IdTech3("3.0", CallOfDutySpActions)
EliteForceSp == IdTech3("3.0", EliteForceSpActions)
Sof2Mp == IdTech3("3.0", Sof2MpActions)
Alice == [IdTech3("3.0", AliceActions) EXCEPT !.own = {}]
WolfMp == [IdTech3("3.0", WolfMpActions) EXCEPT !.archive = {}]
AlliedAssault == [IdTech3("moh", AlliedAssaultActions) EXCEPT !.own = {"keys"}]
Breakthrough == IdTech3("moh", BreakthroughActions)
Spearhead == IdTech3("moh", SpearheadActions)
PacificAssault == [IdTech3("moh", PacificAssaultActions) EXCEPT !.archive = {}]
EliteForce2 == [IdTech3("3.0", EliteForce2Actions) EXCEPT !.archive = {}, !.own = {}]
EliteForceMp == IdTech3("3.0", EliteForceMpActions)
Fakk2 == [IdTech3("any", Fakk2Actions) EXCEPT !.own = {}]
IronGrip == [IdTech3("3.0", IronGripActions) EXCEPT !.archive = {}]
Quake3 == IdTech3("3.0", Quake3Actions)
WolfEt == IdTech3("3.0", WolfEtActions)
WolfSp == IdTech3("3.0", WolfSpActions)
SpaceTrader == [IdTech3("any", SpaceTraderActions)
  EXCEPT !.clears = "nothing", !.runs = FALSE, !.native = FALSE]
JediAcademyMp == Raven(JediAcademyMpActions)
JediAcademySp == Raven(JediAcademySpActions)
JediOutcastMp == Raven(JediOutcastMpActions)
JediOutcastSp == Raven(JediOutcastSpActions)
Sof2Sp == Raven(Sof2SpActions)

AllGames ==
  {Quake, Hexen2, Praevus, CiaOperative, LaserArena, Quake2, Daikatana, Heretic2, Kingpin, Sof,
   Sin, QuakeLive, CallOfDutyUoMp, CallOfDutyUoSp, CallOfDutyMp, CallOfDutySp, EliteForceSp,
   Sof2Mp, Alice, WolfMp, AlliedAssault, Breakthrough, Spearhead, PacificAssault, EliteForce2,
   EliteForceMp, Fakk2, IronGrip, Quake3, WolfEt, WolfSp, SpaceTrader, JediAcademyMp,
   JediAcademySp, JediOutcastMp, JediOutcastSp, Sof2Sp}

=============================================================================
