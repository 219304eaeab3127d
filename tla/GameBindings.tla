----------------------------- MODULE GameBindings -----------------------------
(***************************************************************************)
(* The inputs of an id Tech game, from the tables of an executable's view  *)
(* to the binds of the game.  The view fills a table with the inputs of    *)
(* the controller and one with the keys and the mouse, the user changes    *)
(* rows of them, and each launch works out which inputs of the controllers *)
(* the game plays itself and which are played as keys, and has the game    *)
(* run a file of bindings.  The binds outlive the launch: the game keeps   *)
(* them in a file of its own.                                              *)
(*                                                                         *)
(* Left out: keys that exist twice (left and right) or need a shift, the   *)
(* wheel, what the names and paths of the files are, and controllers whose *)
(* inputs the user has numbered (input_custom.cpp): of the kinds here all  *)
(* four directions are of the first hat, so that copy_args has none of     *)
(* them to hand on to the injector.                                        *)
(***************************************************************************)
EXTENDS GameTable, SequencesExt

CONSTANTS
  Games,         \* records as in GameTable
  Actions,       \* the actions of a game in its order, as a sequence
  Keys,          \* the keys it binds, as a sequence in the order of its file
  MouseButtons,  \* the same of the buttons of the mouse
  MouseAxes,     \* the axes of the mouse, as a sequence
  Usual,         \* what the keys, the buttons and the axes do by default
  KeptFiles,     \* the same as players keep it in the game's file, <<>> without a file
  Plugged,       \* what may be plugged in, as sequences of kinds of controllers
  NewKeys,       \* the keys and buttons the user gives to an action
  NewInputs,     \* the inputs of a controller the user gives to an action
  MaxEdits, MaxLaunches

VARIABLES
  title,    \* the game
  kept,     \* what the game's file held when the view was opened
  entries,  \* what the view knows: a dummy, the rows of the controller, those of the keys
  shown,    \* what the tables show for each entry
  binds,    \* what each name does in the game
  played,   \* what the last launch handed over
  edits, launches
bindingVars == <<title, kept, entries, shown, binds, played, edits, launches>>

Entry(vkey, context, action) == [vkey |-> vkey, context |-> context, action |-> action]
NotPlayed == [done |-> FALSE]

PadRows == 2..(Len(Actions) + 1)
KeyRows(table) == (Len(Actions) + 2)..Len(table)
IsAnalog(action) == action \in LeftStick \cup RightStick \cup {"A", "B"}

\* The names of a game are those of one of the families.
FamiliesKnown == \A g \in Games : g.names \in Families

Pads == {"xbox", "ps3", "ps4", "joystick"}
KeyCodes == ToSet(Keys) \cup NewKeys \cup ToSet(MouseButtons) \cup ToSet(MouseAxes)

\* The tables fit together: a key is no input of a controller, an action has one row for the
\* controller, and the files and the defaults say what each key does.
BindingsFit ==
  /\ FamiliesKnown
  /\ \A g \in Games :
       /\ g.clears \in Families \cup {"nothing"}
       /\ g.takes \in {"2.0", "2.5", "sof", "3.0", "moh", "any"}
       /\ g.actions \subseteq PadInput
  /\ Actions \in Seq(STRING) /\ \A i, j \in DOMAIN Actions : Actions[i] = Actions[j] => i = j
  /\ Keys \in Seq(STRING) /\ MouseButtons \in Seq(STRING) /\ MouseAxes \in Seq(STRING)
  /\ NewKeys \subseteq STRING /\ NewInputs \subseteq PadInput
  /\ KeyCodes \cap (PadInput \cup {"none"}) = {}
  /\ Usual \in [ToSet(Keys) \cup ToSet(MouseButtons) \cup ToSet(MouseAxes) -> STRING]
  /\ KeptFiles \subseteq {<<>>} \cup [DOMAIN Usual -> STRING]
  /\ Plugged \subseteq Seq(Pads \cup {"unknown"})

\* The members of a finite set in an order, a set of pairs, as a sequence: SelectSeq and FlattenSeq
\* are recursive, and the theorems about the bindings need to know what is in a sequence.
Before(S, order, x) == {y \in S : <<y, x>> \in order}
InOrder(S, order) ==
  [n \in 1..Cardinality(S) |-> CHOOSE x \in S : Cardinality(Before(S, order, x)) = n - 1]
Upwards(S) == {p \in S \X S : p[1] < p[2]}
\* What a sequence has at some of its places.
Picked(s, places) ==
  LET order == InOrder(places, Upwards(places)) IN [n \in DOMAIN order |-> s[order[n]]]

-----------------------------------------------------------------------------
(* Opening the view.                                                       *)

\* What a key or a button does, as far as the extension reads it; kind is "keys" or "mouse".
ReadBind(g, file, kind, key) ==
  IF kind \in g.own /\ file # <<>> THEN file[key]
  ELSE IF kind \in g.archive THEN Usual[key]
  ELSE "none"

RowsFor(g, file, kind, context, keys) ==
  LET Action(i) == ReadBind(g, file, kind, keys[i])
  IN  Picked([i \in DOMAIN keys |-> Entry(keys[i], context, Action(i))],
         {i \in DOMAIN keys : Action(i) # "none"})

LoadKeyboardMouseConfigs(g, file) ==
  LET axes == [i \in DOMAIN MouseAxes |-> Entry(MouseAxes[i], "mouse", Usual[MouseAxes[i]])]
      bound == RowsFor(g, file, "keys", "keyboard", Keys)
               \o RowsFor(g, file, "mouse", "mouse", MouseButtons) \o axes
      idle == Picked(Actions, {i \in DOMAIN Actions : \A j \in DOMAIN bound : bound[j].action # Actions[i]})
  IN  bound \o [i \in DOMAIN idle |-> Entry("none", "global", idle[i])]

DefaultInput(g, action) == IF action \in g.actions THEN action ELSE "none"

\* The first entry stands for no row; it is one of the first action.
Table(g, file) ==
  <<Entry("none", "global", Actions[1])>>
  \o [i \in DOMAIN Actions |-> Entry(DefaultInput(g, Actions[i]), "global", Actions[i])]
  \o LoadKeyboardMouseConfigs(g, file)

-----------------------------------------------------------------------------
(* The user changes a row: the entry at the row's place.                   *)

ChangeRow(i, entry) ==
  /\ edits < MaxEdits /\ edits' = edits + 1
  /\ entries' = [entries EXCEPT ![i].vkey = entry.vkey, ![i].context = entry.context]
  /\ shown' = [shown EXCEPT ![i].vkey = entry.vkey, ![i].context = entry.context]
  /\ played' = NotPlayed
  /\ UNCHANGED <<title, kept, binds, launches>>

ChangeKey(i, key) ==
  ChangeRow(i, Entry(key, IF key \in ToSet(MouseButtons) THEN "mouse" ELSE "keyboard", ""))

\* Without a backend of the game's own the view looks the row up where there is none, and throws.
ChangeInput(i, vkey, pad) ==
  /\ title.native
  /\ ChangeRow(i, Entry(vkey, pad, ""))

-----------------------------------------------------------------------------
(* A launch works out who plays what.                                      *)

Below(S, i) == Cardinality({j \in S : j < i})
Above(S, i) == Cardinality({j \in S : j > i})
\* std::partition, which swaps the first entry that is not the mouse's with the last that is.
Partitioned(table) ==
  LET mouse == {i \in DOMAIN table : table[i].context = "mouse"}
      front == (1..Cardinality(mouse)) \ mouse
      back == mouse \ (1..Cardinality(mouse))
      Partner(i) == CASE i \in front -> CHOOSE j \in back : Above(back, j) = Below(front, i)
                      [] i \in back -> CHOOSE j \in front : Below(front, j) = Above(back, i)
                      [] OTHER -> i
  IN  [i \in DOMAIN table |-> table[Partner(i)]]

Arg(entry, context, index) ==
  [vkey |-> entry.vkey, context |-> context, action |-> entry.action, index |-> index]
KeyArgs(table) == [i \in 1..Cardinality(KeyRows(table)) |->
  LET e == table[i + Len(Actions) + 1] IN Arg(e, e.context, 0)]

\* The key or the mouse that plays an input, if the action has another one.
Fallback(table, e, from) ==
  LET others == {i \in DOMAIN table :
                   /\ table[i].action = e.action
                   /\ table[i].vkey # e.vkey
                   /\ table[i].context \notin {e.context, from}}
  IN  IF others = {} THEN {}
      ELSE {[from |-> from, vkey |-> e.vkey, to |-> table[Min(others)].vkey]}

PadEntries(table) == {e \in ToSet(table) : e.vkey \in PadInput}
IndexOn(pad, e) == HardwareIndex(pad, e.vkey, IsAnalog(e.action))

\* A controller of a kind the studio knows, and one that it knows to have an input.
Knows(pad) == pad # "unknown"
Has(pad, e) == Knows(pad) /\ IndexOn(pad, e) # NoHardware

Binding(k, pad, e) ==
  [entry |-> e, pad |-> pad, caps |-> [place |-> k - 1, axes |-> AxisCount(pad)],
   hw |-> Winmm(IndexOn(pad, e), MappedAxes(pad))]
\* The inputs of the controllers the studio knows, in the order of the controllers.
Bindings(table, pads) ==
  LET found == {p \in (DOMAIN pads) \X (DOMAIN table) :
                  table[p[2]].vkey \in PadInput /\ Has(pads[p[1]], table[p[2]])}
      order == InOrder(found, {q \in found \X found :
                 \/ q[1][1] < q[2][1]
                 \/ q[1][1] = q[2][1] /\ q[1][2] < q[2][2]})
  IN  [n \in DOMAIN order |-> Binding(order[n][1], pads[order[n][1]], table[order[n][2]])]

IsUnbindable(b) == IsInputMappingValid(title, b.caps, "", b.hw)
IsBindable(b) == IsInputMappingValid(title, b.caps, b.entry.action, b.hw)

\* Mutant of Unplayable: only the inputs that no controller has.
UnplayableByAll(table, pads) ==
  {e \in PadEntries(table) : \A k \in DOMAIN pads : Knows(pads[k]) /\ ~Has(pads[k], e)}
Unplayable(table, pads) ==
  {e \in PadEntries(table) : \E k \in DOMAIN pads : Knows(pads[k]) /\ ~Has(pads[k], e)}

\* What a launch hands over: to the extension the keys and the inputs the game plays itself, to
\* the injector the inputs that are played as keys.
Shared(table, pads) ==
  LET bindings == Bindings(table, pads)
      native == Picked(bindings, {i \in DOMAIN bindings : IsBindable(bindings[i])})
      AsKeys(these) == UNION {Fallback(table, e, "global") : e \in these}
      missing == AsKeys(Unplayable(table, pads))
      Plays(args, inputs) ==
        [done |-> TRUE, pads |-> pads, keys |-> KeyArgs(table), native |-> args, inputs |-> inputs,
         look |-> {}]
  IN  IF ~title.native \/ pads = <<>> THEN Plays(<<>>, AsKeys(PadEntries(table)))
      ELSE IF \A i \in DOMAIN bindings : IsBindable(bindings[i]) \/ IsUnbindable(bindings[i])
      THEN Plays([i \in DOMAIN native |-> Arg(native[i].entry, native[i].pad, native[i].hw.index)],
                 missing \cup UNION {Fallback(table, b.entry, b.pad) :
                                       b \in {x \in ToSet(bindings) : ~IsBindable(x)}})
      ELSE Plays(<<>>, missing \cup AsKeys({b.entry : b \in ToSet(bindings)}))

-----------------------------------------------------------------------------
(* The extension writes the file of bindings and the game runs it.         *)

AxisNames == {<<"axis", i>> : i \in 0..5}
ButtonNames(family) == {ButtonName(family, i) : i \in 0..14}
\* Mutant of Cleared: the names of the buttons of Quake II are given up for Quake III.
ClearedAsBefore(family) ==
  CASE family \in {"quake", "quake 2"} -> AxisNames \cup {Aux(29)} \cup ButtonNames(family)
    [] Halves(family) -> {Joy(i) : i \in 16..19 \cup 24..27} \cup ButtonNames("quake 2")
    [] family = "nothing" -> {}
Cleared(family) ==
  CASE family \in {"quake", "quake 2"} -> AxisNames \cup {Aux(29)} \cup ButtonNames(family)
    [] Halves(family) -> {Joy(i) : i \in 16..19 \cup 24..27} \cup ButtonNames(family)
    [] family = "nothing" -> {}

\* What an axis as a whole does, for the games that have no halves.
AxisRole(g, action) ==
  CASE action \in {"LSU", "LSD"} -> "forward"
    [] action \in {"RSU", "RSD"} -> "pitch"
    [] action \in {"LSL", "LSR"} -> "side"
    [] action \in {"RSL", "RSR"} -> "turn"
    [] action = "B" \/ (action = "A" /\ ~g.jump) -> "up"
    [] OTHER -> "none"

\* The line for one input: the name and what it is to do.
Line(g, a) ==
  LET axis == AxisName(g.names, a.vkey, a.index)
      trigger == a.vkey \in Triggers
      halves == Halves(g.names)
  IN  CASE a.vkey \notin PadInput ->
             <<IF a.context = "keyboard" THEN Key(a.vkey) ELSE NoName, a.action>>
        [] a.vkey \in PadInput /\ axis # NoName /\ ~(trigger /\ halves) ->
             <<axis, IF halves THEN a.action ELSE AxisRole(g, a.action)>>
        [] a.vkey \in Dpad -> <<DpadName(g.names, a.vkey), a.action>>
        [] trigger /\ a.context = "xbox" /\ (halves \/ axis = NoName) ->
             <<IF halves THEN axis ELSE NoName, a.action>>
        [] OTHER -> <<ButtonName(g.names, a.index), a.action>>

\* The lines of the file.  One that is left out is one that binds no name.
SaveBindings(g, args) == [i \in DOMAIN args |-> Line(g, args[i])]

\* A later line for a name takes the place of an earlier one.
Saves(lines, name) == \E i \in DOMAIN lines : lines[i][1] = name
Saved(lines, name) == SelectLastInSeq(lines, LAMBDA line : line[1] = name)

\* Mutant of Run: the names are given up after they are bound.
RunClearing(g, before, lines) ==
  [n \in DOMAIN before |->
     IF n \in Cleared(g.clears) THEN "none"
     ELSE IF Saves(lines, n) THEN lines[Saved(lines, n)][2]
     ELSE before[n]]
\* The binds after the game has run a file.
Run(g, before, lines) ==
  [n \in DOMAIN before |->
     IF n \in Cleared(g.clears) /\ ~g.first THEN "none"
     ELSE IF Saves(lines, n) THEN lines[Saved(lines, n)][2]
     ELSE IF n \in Cleared(g.clears) THEN "none"
     ELSE before[n]]

\* Looking up or down on an axis switches the mouse look on, for the games that look so.
LookInputs(g, args) ==
  LET OnAxis(i) == AxisName2(args[i].vkey, args[i].index) # NoName /\ args[i].index <= 5
      Looks(source) == {i \in DOMAIN args : args[i].action = source /\ OnAxis(i)}
      keys == {i \in DOMAIN args :
                 args[i].action = "mlook" /\ args[i].context \in {"global", "keyboard"}}
      To(i) == [from |-> args[i].context, vkey |-> args[i].vkey, to |-> args[Min(keys)].vkey]
  IN  IF ~g.mlook \/ keys = {} THEN {}
      ELSE {To(Min(Looks(source))) : source \in {s \in {"RSU", "RSD"} : Looks(s) # {}}}

HandOver(pads) ==
  /\ launches < MaxLaunches /\ launches' = launches + 1
  /\ entries' = Partitioned(entries)
  /\ LET shared == Shared(Partitioned(entries), pads)
         args == shared.keys \o shared.native
     IN  /\ played' = [shared EXCEPT !.look = LookInputs(title, args)]
         /\ binds' = IF title.runs THEN Run(title, binds, SaveBindings(title, args)) ELSE binds
  /\ UNCHANGED <<title, kept, shown, edits>>

-----------------------------------------------------------------------------
PadNames == {Joy(i) : i \in 0..29} \cup {Aux(i) : i \in 5..29} \cup AxisNames
ArrowKeys == {"UPARROW", "DOWNARROW", "LEFTARROW", "RIGHTARROW"}
KeyNames == {Key(k) : k \in ToSet(Keys) \cup NewKeys \cup ArrowKeys}

\* The names of the controller may hold what an earlier player bound them to.
InitialBinds(file) ==
  [n \in PadNames \cup KeyNames |->
     IF n \in PadNames THEN IF file = <<>> THEN "none" ELSE "old"
     ELSE IF n[2] \notin ToSet(Keys) THEN "none"
     ELSE IF file = <<>> THEN Usual[n[2]] ELSE file[n[2]]]

BindingsInit ==
  /\ title \in Games /\ kept \in KeptFiles
  /\ entries = Table(title, kept) /\ shown = entries
  /\ binds = InitialBinds(kept)
  /\ played = NotPlayed /\ edits = 0 /\ launches = 0

BindingsNext ==
  \/ \E i \in PadRows, v \in NewInputs, pads \in Plugged :
       \E pad \in ToSet(pads) \ {"unknown"} : ChangeInput(i, v, pad)
  \/ \E i \in KeyRows(shown), key \in NewKeys : ChangeKey(i, key)
  \/ \E pads \in Plugged : HandOver(pads)

BindingsSpec == BindingsInit /\ [][BindingsNext]_bindingVars

-----------------------------------------------------------------------------
SeenByStudio(pads) == pads = <<>> \/ \E k \in DOMAIN pads : Knows(pads[k])

\* A launch moves the entries away from the rows that change them (exe_view.launch.cpp:303): from
\* then on a change may reach the entry of another action.
ShowsWhatItKnows == ToSet(shown) = ToSet(entries)

Keyed(e) == {x \in ToSet(entries) : x.action = e.action /\ x.context \in {"keyboard", "mouse"}}
PlayedByGame(e) == \E i \in DOMAIN played.native :
  played.native[i].vkey = e.vkey /\ played.native[i].action = e.action
PlayedAsKey(e) == \E to \in played.inputs, x \in Keyed(e) : to.vkey = e.vkey /\ to.to = x.vkey

\* Whose key the launch finds: not the row of the first action once the user has changed it, for
\* which the dummy may be found instead (exe_view.launch.cpp:351).
FindsItsKey(e) == e.context = "global" \/ e.action # Actions[1]
\* An input that only some of the controllers have is both played natively, from those that have
\* it, and as a key, for the others (exe_view.launch.cpp:480).
OnAllOrNone(e) == \A j, k \in DOMAIN played.pads :
  Knows(played.pads[j]) /\ Knows(played.pads[k]) /\ Has(played.pads[j], e) => Has(played.pads[k], e)

\* An input may have two actions, but not two that have the same key.
HasKeyOfItsOwn(e) == \A f \in PadEntries(entries) :
  f.vkey = e.vkey /\ (\E x \in Keyed(e), y \in Keyed(f) : y.vkey = x.vkey) => f.action = e.action

\* Of an input that the tables give to an action that has a key as well, the game or the injector
\* plays the action, never both and never neither.
InputsPlayedOnce ==
  SeenByStudio(played.pads) =>
    \A e \in PadEntries(entries) :
      Keyed(e) # {} /\ FindsItsKey(e) /\ OnAllOrNone(e) /\ HasKeyOfItsOwn(e) =>
        (PlayedByGame(e) <=> ~PlayedAsKey(e))

\* A game that calls each half of an axis by an arrow has the sticks press the arrows.
FreeKey(key) == Halves(title.names) => key \notin ArrowKeys

\* A key does what one of its rows says, and the keys of a player who has changed nothing do what
\* the player's own file says.
KeysHold ==
  /\ \A e \in ToSet(entries) : e.context = "keyboard" /\ FreeKey(e.vkey) =>
       \E x \in ToSet(entries) : x.context = "keyboard" /\ x.vkey = e.vkey
                                 /\ binds[Key(e.vkey)] = x.action
  /\ "keys" \in title.own /\ kept # <<>> /\ edits = 0
       => \A k \in ToSet(Keys) : FreeKey(k) => binds[Key(k)] = kept[k]

\* The name of a button of the controller is bound to an action that was given to that button.
\* The triggers of a joystick are buttons that the older games bind as axes; and an axis without a
\* name of its own takes that of a button, which is then out of the question (id-tech-shared.cpp:843).
TakenForAxis(a) == a.context = "joystick" /\ a.vkey \in Triggers /\ ~Halves(title.names)
HardwareOf(a) == IndexOn(a.context, a)
ButtonsHold ==
  title.first =>
    \A i \in DOMAIN played.native :
      LET a == played.native[i]
          name == ButtonName(title.names, HardwareOf(a).index)
      IN  /\ HardwareOf(a).type = "button" /\ ~TakenForAxis(a)
          /\ \A j \in DOMAIN played.native :
               HardwareOf(played.native[j]).type = "axis" => Line(title, played.native[j])[1] # name
          => \E j \in DOMAIN played.native :
               /\ HardwareOf(played.native[j]) = HardwareOf(a)
               /\ binds[name] = played.native[j].action

\* As long as the tables show what the view knows, a launch has every input play the action chosen
\* for it, once, with the names of this game.
PlayedAsChosen ==
  played.done /\ ShowsWhatItKnows =>
    InputsPlayedOnce /\ (title.runs => KeysHold /\ ButtonsHold)

\* The names a game can be told of the inputs of any controller.
NamesOf == [g \in Games |->
  {Line(g, Arg(Entry(v, pad, v), pad, Winmm(HardwareIndex(pad, v, x), MappedAxes(pad)).index))[1] :
     v \in PadInput, x \in BOOLEAN, pad \in Pads}]

\* What the controller does in the game is what the last launch says and nothing else, whatever an
\* earlier launch or player left in the file the game keeps: no input does what it was once bound
\* to.  Left out are the games that give up the names after they bind them, those that give up the
\* names of another family than they bind, and those that give up none
\* (save_bindings_to_config and unbind_* in id-tech-shared.cpp).
NothingStale ==
  played.done /\ title.runs /\ title.first /\ title.clears = title.names =>
    LET lines == SaveBindings(title, played.keys \o played.native)
        fresh == Run(title, [n \in PadNames |-> "none"], lines)
    IN  \A n \in PadNames \cap NamesOf[title] : binds[n] = fresh[n]
=============================================================================
