----------------------------- MODULE InputInjector -----------------------------
(***************************************************************************)
(* How a controller plays a game that knows only mouse and keyboard        *)
(* (input_injector.cpp; get_changes of input.cpp).                         *)
(*                                                                         *)
(* Each raw input of a controller is compared with the one before it, and  *)
(* what a changed control is mapped to is sent as the input of a keyboard  *)
(* or a mouse: a key goes down or up when the control crosses the dead     *)
(* zone, and a pointer is moved by a timer while a stick is out.           *)
(***************************************************************************)
EXTENDS Integers

CONSTANTS
  Reports,   \* the states of a controller there can be: a button, the axes of a
             \* stick and the two triggers
  Mappings   \* what the controls are mapped to: sets of [from, to, context]

Word == 65536

\* What is reported of a controller, and what of it can be mapped.
Axial      == -32768 .. 32767
Reportable == [button : BOOLEAN, x : Axial, y : Axial, lt : 0 .. 255, rt : 0 .. 255]
Control    == {"button", "right", "left", "up", "down", "lt", "rt"}

ASSUME InputAssumption ==
  /\ Reports \subseteq Reportable
  /\ \A ms \in Mappings : \A m \in ms : m.from \in Control

VARIABLES
  mapping,     \* controller_to_send_input_mappings
  simulates,   \* simulate_mouse, simulate_keyboard: the contexts simulated
  plugged,     \* is the controller registered?
  last,        \* last_state
  down,        \* the simulated keys that are down
  pointer,     \* mouse_timer and mouse_intensity: how the pointer moves
  running,     \* does the game run?
  odd          \* history: was there a report at an edge of the arithmetic?

inputVars == <<mapping, simulates, plugged, last, down, pointer, running, odd>>

Rest  == [button |-> FALSE, x |-> 0, y |-> 0, lt |-> 0, rt |-> 0]
Still == [timer |-> FALSE, x |-> 0, y |-> 0]

InputInit ==
  /\ mapping \in Mappings
  /\ simulates \in SUBSET {"mouse", "keyboard"}
  /\ plugged = FALSE
  /\ last = Rest
  /\ down = {}
  /\ pointer = Still
  /\ running = TRUE
  /\ odd = FALSE

-----------------------------------------------------------------------------
Change(vkey, new, old) == [vkey |-> vkey, new |-> new, old |-> old]

\* scale_value, in 16 bits, and of the negation of a signed value.
Scale(n)   == (((n % Word) * 2) + 1) % Word
Negated(n) == Scale(-(n % Word))

\* Mutant of Axis: a control that the stick leaves is not seen to change.
AxisAhead(a, b, positive, negative) ==
  IF a = b THEN {}
  ELSE IF b > 0 THEN {Change(positive, Scale(b), IF a > 0 THEN Scale(a) ELSE 0)}
  ELSE {Change(negative, Negated(b + 1), IF a < 0 THEN Negated(a) ELSE 0)}

\* process_axis: an axis is two controls, of which one is out.
Axis(a, b, positive, negative) ==
  LET wasPositive == IF a > 0 THEN Scale(a) ELSE 0
      wasNegative == IF a < 0 THEN Negated(a) ELSE 0
  IN IF a = b THEN {}
     ELSE IF b > 0
     THEN {Change(positive, Scale(b), wasPositive), Change(negative, 0, wasNegative)}
     ELSE {Change(negative, Negated(b + 1), wasNegative), Change(positive, 0, wasPositive)}

Pressed(is) == IF is THEN Word - 1 ELSE 0

\* get_changes, of one button, one stick and the triggers.  What the left trigger
\* was is taken from what it is.
GetChanges(a, b) ==
  UNION {
    IF a.button = b.button THEN {} ELSE {Change("button", Pressed(b.button), Pressed(a.button))},
    Axis(a.x, b.x, "right", "left"),
    Axis(a.y, b.y, "up", "down"),
    IF a.lt = b.lt THEN {} ELSE {Change("lt", b.lt * 257, b.lt * 257)},
    IF a.rt = b.rt THEN {} ELSE {Change("rt", b.rt * 257, a.rt * 257)}}

\* wm_input: what the changes are mapped to, of what is simulated.
Mapped(changes) ==
  {p \in changes \X mapping : p[2].from = p[1].vkey /\ p[2].context \in simulates}

DeadZone == (Word - 1) \div 4

IsPointer(m) == m.context = "mouse" /\ m.to \in {"VK_LEFT", "VK_RIGHT", "VK_UP", "VK_DOWN"}

\* A key goes down, or up, as its control crosses the dead zone.
Downs(mapped) == {q[2].to : q \in {p \in mapped : ~IsPointer(p[2]) /\ p[1].new > DeadZone /\ p[1].old < DeadZone}}
Ups(mapped)   == {q[2].to : q \in {p \in mapped : ~IsPointer(p[2]) /\ p[1].new < DeadZone /\ p[1].old > DeadZone}}

\* The furthest of the changes mapped to one of two directions: its intensity.
Furthest(mapped, positive, negative) ==
  LET moved == {p \in mapped : p[2].to \in {positive, negative}}
      far   == CHOOSE p \in moved : \A q \in moved : p[1].new >= q[1].new
      much  == far[1].new \div 1000
  IN IF far[2].to = positive THEN much ELSE -much

\* The pointer's timer starts and stops when both axes changed in one report.
Pointer(mapped) ==
  LET moved == {p \in mapped : IsPointer(p[2])}
      along == {p \in moved : p[2].to \in {"VK_LEFT", "VK_RIGHT"}}
  IN IF along = {} \/ along = moved THEN pointer
     ELSE IF \A p \in moved : p[1].new < (Word - 1) \div 8 THEN Still
     ELSE [timer |-> TRUE, x |-> Furthest(moved, "VK_RIGHT", "VK_LEFT"),
                           y |-> Furthest(moved, "VK_DOWN", "VK_UP")]

\* Where the arithmetic of a report is off: a stick exactly at rest, or that was
\* at its very end, a value of the dead zone itself, and the left trigger.
AtEdge(a, b) ==
  \/ \E axis \in {"x", "y"} : a[axis] # b[axis] /\ (b[axis] = 0 \/ a[axis] = -(Word \div 2))
  \/ \E c \in GetChanges(a, b) : DeadZone \in {c.new, c.old} \/ c.vkey = "lt"

\* wm_input, for a report of the controller.
WmInput(report) ==
  /\ running /\ plugged /\ report # last
  /\ LET mapped == Mapped(GetChanges(last, report))
     IN /\ down' = (down \cup Downs(mapped)) \ Ups(mapped)
        /\ pointer' = Pointer(mapped)
  /\ odd' = (odd \/ AtEdge(last, report))
  /\ last' = report
  /\ UNCHANGED <<mapping, simulates, plugged, running>>

\* wm_input_device_change: a controller comes, at rest, or goes, with what was held.
Arrive ==
  /\ running /\ ~plugged
  /\ plugged' = TRUE /\ last' = Rest
  /\ UNCHANGED <<mapping, simulates, down, pointer, running, odd>>

Unplug ==
  /\ running /\ plugged
  /\ plugged' = FALSE
  /\ odd' = (odd \/ down # {})
  /\ UNCHANGED <<mapping, simulates, last, down, pointer, running>>

\* The game ends, and with it the injector and its timer; no key goes up.
GameEnds ==
  /\ running
  /\ running' = FALSE /\ pointer' = Still
  /\ UNCHANGED <<mapping, simulates, plugged, last, down, odd>>

InputNext == (\E report \in Reports : WmInput(report)) \/ Arrive \/ Unplug \/ GameEnds

InputSpec == InputInit /\ [][InputNext]_inputVars
-----------------------------------------------------------------------------
\* How far a control is out, from what the controller reports.
Out(report, vkey) ==
  CASE vkey = "button" -> Pressed(report.button)
    [] vkey = "right"  -> 2 * report.x
    [] vkey = "left"   -> -2 * report.x
    [] vkey = "up"     -> 2 * report.y
    [] vkey = "down"   -> -2 * report.y
    [] vkey = "lt"     -> 257 * report.lt
    [] vkey = "rt"     -> 257 * report.rt

\* A mapping to a key, that no other control is mapped to.
OwnKey(m) ==
  /\ m.context \in simulates /\ ~IsPointer(m)
  /\ \A n \in mapping : n.to = m.to /\ n.context \in simulates /\ ~IsPointer(n) => n.from = m.from

\* A simulated key is down while its control is out beyond the dead zone, and only
\* then, however far a single report takes a stick, even to its other side: no key
\* sticks, and none is missed, but at the edges where the arithmetic is off.
KeysFollow ==
  running /\ plugged /\ ~odd =>
    \A m \in mapping : OwnKey(m) => (m.to \in down <=> Out(last, m.from) > DeadZone)
=============================================================================
