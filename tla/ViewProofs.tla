------------------------------ MODULE ViewProofs ------------------------------
(***************************************************************************)
(* Proofs about two views of the studio that keep something between what   *)
(* the user does: VolumeView, for archives of any kind with anything in    *)
(* them (nothing is used of what a listing holds), and GameBindings, for   *)
(* any games whose tables are as FamiliesKnown or BindingsFit say.         *)
(*                                                                         *)
(* That a file is found in its row rests on the window's thread making one *)
(* row at a time: between the insertion of a row and the keeping of its    *)
(* number, it is the last one and the file's (RowIsLast).  That one tool   *)
(* is remembered rests on the first listing being the only one that can be *)
(* made by another than the first tool: when folders come to be listed,    *)
(* that tool is known, unless there are none (ToolKnown).                  *)
(*                                                                         *)
(* That nothing of an earlier launch is left in the binds rests on the     *)
(* tables: whatever name a family has for an input of any controller is    *)
(* one of those the family gives up (NamesAreCleared).                     *)
(*                                                                         *)
(* That every input plays what was chosen for it rests on the rows: each   *)
(* holds what its kind may hold, an action has one row for the controller, *)
(* and only the first action has the dummy besides (RowsFit).  A launch    *)
(* that is asked about found the entries where the tables show them, so    *)
(* its partition is of such rows, and leaves a key at its row or moves it  *)
(* up (Moved); what is looked up for an input is then a key of its action  *)
(* (FallbackFinds), and the game and the injector share the inputs out     *)
(* (PlayedOnce).  What a name is bound to is said by the last line for it  *)
(* (LastLine); the keys are no names of the controller, and the name of a  *)
(* button is that of no other (ButtonsNamed).  From one launch to the next *)
(* the tables keep fitting, and the keys of a player who changes nothing   *)
(* are what the player's file says (Chosen).                               *)
(***************************************************************************)
EXTENDS VolumeView, GameBindings, FiniteSetTheorems, TLAPS

-----------------------------------------------------------------------------
(* The listing of an archive.                                              *)

IsSeq(s) == \E S : s \in Seq(S)

\* The walker is a record, and rows are only added.
Shape ==
  /\ walker = [at |-> walker.at, agenda |-> walker.agenda]
  /\ IsSeq(rows) /\ IsSeq(indices)
  /\ \A n \in DOMAIN indices : indices[n].row \in DOMAIN rows

\* The row whose number is about to be kept.
RowIsLast ==
  walker.at = "index" => rows # <<>> /\ rows[Len(rows)] = Head(walker.agenda).path

ToolKnown ==
  kind \in CabTool =>
    \/ walker.at = "unborn" /\ tools = {}
    \/ walker.at # "unborn" /\ tools = {kind}
    \/ walker.at \in {"next", "done"} /\ tools = {} /\ walker.agenda = <<>>

\* The inductive invariant.
IInv == Shape /\ RowIsLast /\ RowsFound /\ ToolKnown

LEMMA Appended ==
  ASSUME NEW s, IsSeq(s), NEW x
  PROVE  /\ IsSeq(Append(s, x))
         /\ DOMAIN s = 1..Len(s) /\ Len(s) \in Nat
         /\ Append(s, x) # <<>>
         /\ Len(Append(s, x)) = Len(s) + 1
         /\ DOMAIN Append(s, x) = DOMAIN s \cup {Len(s) + 1}
         /\ \A i \in DOMAIN s : Append(s, x)[i] = s[i]
         /\ Append(s, x)[Len(s) + 1] = x
<1>1. PICK S : s \in Seq(S)
  BY DEF IsSeq
<1>2. s \in Seq(S \cup {x}) /\ x \in S \cup {x}
  BY <1>1
<1>3. Append(s, x) \in Seq(S \cup {x})
  BY <1>2
<1> QED
  BY <1>2, <1>3 DEF IsSeq

\* What is remembered once the right tool is: nothing else.
LEMMA Remembered ==
  ASSUME NEW own \in CabTool, NEW listing
  PROVE  /\ Remember({own}, TRUE, own, listing) = {own}
         /\ Remember({}, FALSE, own, listing) = IF listing = <<>> THEN {} ELSE {own}
BY DEF Remember, CabTool, Cabinet

LEMMA InitIInv == Init => IInv
<1> SUFFICES ASSUME Init PROVE IInv
  OBVIOUS
<1>1. walker.at = "unborn" /\ walker = [at |-> walker.at, agenda |-> walker.agenda]
  BY DEF Init
<1>2. <<>> \in Seq({})
  OBVIOUS
<1>3. IsSeq(rows) /\ IsSeq(indices) /\ DOMAIN indices = {}
  BY <1>2 DEF Init, IsSeq
<1> QED
  BY <1>1, <1>3 DEF Init, IInv, Shape, RowIsLast, RowsFound, ToolKnown

\* Steps that neither list a folder nor touch the rows, and after which the walker
\* is not about to keep a number.
LEMMA Aside ==
  ASSUME IInv, UNCHANGED <<kind, tools, rows, indices>>,
         \/ UNCHANGED walker
         \/ /\ walker.at # "unborn"
            /\ tools # {} \/ kind \notin CabTool \/ walker.at \notin {"next", "done"}
            /\ walker' = [at |-> walker'.at, agenda |-> walker'.agenda]
            /\ walker'.at \notin {"unborn", "index"}
  PROVE  IInv'
<1>1. Shape' /\ RowsFound'
  BY DEF IInv, Shape, RowsFound
<1>2. RowIsLast'
  BY DEF IInv, RowIsLast
<1>3. ToolKnown'
  BY DEF IInv, ToolKnown
<1> QED
  BY <1>1, <1>2, <1>3 DEF IInv

LEMMA LoadKeeps == ASSUME IInv, LoadVolume PROVE IInv'
<1>1. /\ walker' = [at |-> "next", agenda |-> Contents(Top)]
      /\ walker.at = "unborn"
      /\ tools' = Remember(tools, FALSE, kind, Contents(Top))
      /\ UNCHANGED <<kind, rows, indices>>
  BY DEF LoadVolume, list
<1>2. Shape' /\ RowsFound' /\ RowIsLast'
  BY <1>1 DEF IInv, Shape, RowsFound, RowIsLast
<1>3. ToolKnown'
  <2> SUFFICES ASSUME kind \in CabTool
               PROVE  tools' = {kind} \/ (tools' = {} /\ walker'.agenda = <<>>)
    BY <1>1 DEF ToolKnown
  <2>1. tools = {}
    BY <1>1 DEF IInv, ToolKnown
  <2> QED
    BY <1>1, <2>1, Remembered
<1> QED
  BY <1>2, <1>3 DEF IInv

LEMMA NextItemKeeps == ASSUME IInv, NextItem PROVE IInv'
<1> USE DEF Walker, Current
<1>1. walker.at = "next" /\ UNCHANGED <<kind, rows, indices>>
  BY DEF NextItem, list
<1>2. /\ walker' = [at |-> walker'.at, agenda |-> walker'.agenda]
      /\ walker'.at \in {"next", "append", "done"}
  BY <1>1 DEF NextItem, IInv, Shape
<1>3. Shape' /\ RowsFound' /\ RowIsLast'
  BY <1>1, <1>2 DEF IInv, Shape, RowsFound, RowIsLast
<1>4. ToolKnown'
  <2> SUFFICES ASSUME kind \in CabTool
               PROVE  \/ tools' = {kind}
                      \/ walker'.at \in {"next", "done"} /\ tools' = {} /\ walker'.agenda = <<>>
    BY <1>1, <1>2 DEF ToolKnown
  <2>1. CASE tools = {kind}
    BY <2>1, Remembered DEF NextItem
  <2>2. CASE tools = {} /\ walker.agenda = <<>>
    BY <2>2 DEF NextItem, IInv, Shape
  <2> QED
    BY <1>1, <2>1, <2>2 DEF IInv, ToolKnown
<1> QED
  BY <1>3, <1>4 DEF IInv

LEMMA InsertKeeps == ASSUME IInv, InsertRow PROVE IInv'
<1>1. /\ walker' = [walker EXCEPT !.at = "index"] /\ walker.at = "sent"
      /\ rows' = Append(rows, Head(walker.agenda).path)
      /\ UNCHANGED <<kind, tools, indices>>
  BY DEF InsertRow, Walker, Current
<1>2. /\ IsSeq(rows') /\ rows' # <<>> /\ DOMAIN rows \subseteq DOMAIN rows'
      /\ \A i \in DOMAIN rows : rows'[i] = rows[i]
      /\ rows'[Len(rows')] = Head(walker.agenda).path
  BY <1>1, Appended DEF IInv, Shape
<1>3. /\ walker' = [at |-> walker'.at, agenda |-> walker'.agenda]
      /\ walker'.at = "index" /\ walker'.agenda = walker.agenda
  BY <1>1 DEF IInv, Shape
<1>4. Shape' /\ RowsFound'
  BY <1>1, <1>2, <1>3 DEF IInv, Shape, RowsFound
<1>5. RowIsLast'
  BY <1>2, <1>3 DEF RowIsLast
<1>6. ToolKnown'
  BY <1>1, <1>3 DEF IInv, ToolKnown
<1> QED
  BY <1>4, <1>5, <1>6 DEF IInv

LEMMA KeepKeeps == ASSUME IInv, KeepIndex PROVE IInv'
<1> DEFINE numbered == [file |-> Head(walker.agenda).path, row |-> Len(rows)]
<1>1. /\ walker' = [walker EXCEPT !.at = "tile"] /\ walker.at = "index"
      /\ indices' = Append(indices, numbered)
      /\ UNCHANGED <<kind, tools, rows>>
  BY DEF KeepIndex, Walker, Current
<1>2. /\ IsSeq(indices')
      /\ DOMAIN indices' = DOMAIN indices \cup {Len(indices) + 1}
      /\ \A n \in DOMAIN indices : indices'[n] = indices[n]
      /\ indices'[Len(indices) + 1] = numbered
  BY <1>1, Appended DEF IInv, Shape
<1>3. rows # <<>> /\ rows[numbered.row] = numbered.file
  BY <1>1 DEF IInv, RowIsLast
<1>4. numbered.row \in DOMAIN rows
  <2>1. PICK S : rows \in Seq(S)
    BY DEF IInv, Shape, IsSeq
  <2> QED
    BY <1>3, <2>1
<1>5. walker' = [at |-> walker'.at, agenda |-> walker'.agenda] /\ walker'.at = "tile"
  BY <1>1 DEF IInv, Shape
<1>6. Shape' /\ RowsFound'
  BY <1>1, <1>2, <1>3, <1>4, <1>5 DEF IInv, Shape, RowsFound
<1>7. RowIsLast'
  BY <1>5 DEF RowIsLast
<1>8. ToolKnown'
  BY <1>1, <1>5 DEF IInv, ToolKnown
<1> QED
  BY <1>6, <1>7, <1>8 DEF IInv

LEMMA NextIInv == IInv /\ [Next]_vars => IInv'
<1> SUFFICES ASSUME IInv, [Next]_vars PROVE IInv'
  OBVIOUS
<1>1. CASE LoadVolume
  BY <1>1, LoadKeeps
<1>2. CASE NextItem
  BY <1>2, NextItemKeeps
<1>3. CASE InsertRow
  BY <1>3, InsertKeeps
<1>4. CASE KeepIndex
  BY <1>4, KeepKeeps
<1>5. CASE AppendFile \/ OnNewItem \/ SetTileInfo \/ Stray
  <2>1. /\ walker.at \in {"append", "show", "sent", "index", "tile"}
        /\ UNCHANGED <<kind, tools, rows, indices>>
    BY <1>5 DEF AppendFile, OnNewItem, SetTileInfo, Stray, list
  <2>2. /\ walker' = [at |-> walker'.at, agenda |-> walker'.agenda]
        /\ walker'.at \in {"show", "sent", "next", "done"}
    BY <1>5 DEF AppendFile, OnNewItem, SetTileInfo, Stray, Walker, IInv, Shape
  <2> QED
    BY <2>1, <2>2, Aside
<1>6. CASE \/ AskContents \/ ExtractSelected \/ ExtractAll \/ CloseView \/ Destroyed
           \/ \E i \in DOMAIN rows : ItemChanged(i)
           \/ BeginJob \/ WriteFile
  <2>1. UNCHANGED <<kind, tools, rows, indices, walker>>
    BY <1>6 DEF AskContents, ExtractSelected, ExtractAll, CloseView, Destroyed, ItemChanged,
                BeginJob, WriteFile, list
  <2> QED
    BY <2>1, Aside
<1>7. CASE UNCHANGED vars
  BY <1>7, Aside DEF vars, list
<1> QED
  BY <1>1, <1>2, <1>3, <1>4, <1>5, <1>6, <1>7 DEF Next, Window, Walk

LEMMA Invariant == Spec => []IInv
BY InitIInv, NextIInv, PTL DEF Spec

\* Whatever the window's thread does in between, the row whose number is kept for a
\* file is that file's, at every moment (vol_view.win32.cpp, on_new_item).
THEOREM RowsAreFound == Spec => []RowsFound
<1>1. IInv => RowsFound
  BY DEF IInv
<1> QED
  BY Invariant, <1>1, PTL

\* Though a kept listing makes the first tool seem to have made it, no tool but the
\* one that listed an InstallShield cabinet is ever remembered, and then used, for
\* it (external_utils.cpp, cab_get_content_listing).
THEOREM ToolIsKept == Spec => []ToolKept
<1>1. IInv => ToolKept
  BY DEF IInv, ToolKnown, ToolKept
<1> QED
  BY Invariant, <1>1, PTL

-----------------------------------------------------------------------------
(* The bindings.                                                           *)

LEMMA ButtonsHavePlaces ==
  /\ \A v \in Buttons : \E i \in 1..10 : XboxOrder[i] = v
  /\ \A v \in Buttons \cup Triggers : \E i \in 1..12 : PlayStationOrder[i] = v
  /\ \A v \in Buttons \cup Triggers : \E i \in 1..12 : JoystickOrder[i] = v
<1>1. \A v \in Buttons : \E i \in 1..10 : XboxOrder[i] = v
  BY DEF Buttons, XboxOrder
<1>2. \A v \in Buttons \cup Triggers : \E i \in 1..12 : PlayStationOrder[i] = v
  BY DEF Buttons, Triggers, PlayStationOrder
<1>3. \A v \in Buttons \cup Triggers : \E i \in 1..12 : JoystickOrder[i] = v
  BY DEF Buttons, Triggers, JoystickOrder
<1> QED
  BY <1>1, <1>2, <1>3

LEMMA ButtonInRange ==
  ASSUME NEW order, NEW n \in Nat, DOMAIN order = 1..n, NEW v, \E i \in 1..n : order[i] = v
  PROVE  Button(order, v).index \in 0..(n - 1)
BY DEF Button

LEMMA HardwareInRange ==
  ASSUME NEW pad \in Pads, NEW v \in PadInput, NEW x \in BOOLEAN
  PROVE  /\ HardwareIndex(pad, v, x).index \in 0..11
         /\ HardwareIndex(pad, v, x).type = "axis" => HardwareIndex(pad, v, x).index \in 0..5
<1> USE DEF Hat, AxisAt, Stick, NoHardware
<1>0. DOMAIN XboxOrder = 1..10 /\ DOMAIN PlayStationOrder = 1..12 /\ DOMAIN JoystickOrder = 1..12
  BY DEF XboxOrder, PlayStationOrder, JoystickOrder
<1>1. CASE pad = "xbox"
  <2>1. v \in Buttons => Button(XboxOrder, v).index \in 0..(10 - 1)
    <3> SUFFICES ASSUME v \in Buttons PROVE Button(XboxOrder, v).index \in 0..(10 - 1)
      OBVIOUS
    <3>1. \E i \in 1..10 : XboxOrder[i] = v
      BY ButtonsHavePlaces
    <3> QED
      BY <1>0, <3>1, ButtonInRange
  <2> QED
    BY <1>1, <2>1 DEF HardwareIndex, XboxIndex, PadInput, Button
<1>2. ASSUME v \notin Dpad \cup LeftStick \cup RightStick
      PROVE  Button(PlayStationOrder, v).index \in 0..11 /\ Button(JoystickOrder, v).index \in 0..11
  <2>1. /\ \E i \in 1..12 : PlayStationOrder[i] = v
        /\ \E i \in 1..12 : JoystickOrder[i] = v
    BY <1>2, ButtonsHavePlaces DEF PadInput
  <2>2. Button(PlayStationOrder, v).index \in 0..(12 - 1)
    BY <1>0, <2>1, ButtonInRange
  <2>3. Button(JoystickOrder, v).index \in 0..(12 - 1)
    BY <1>0, <2>1, ButtonInRange
  <2> QED
    BY <2>2, <2>3
<1>3. /\ Ps3Index(v).index \in 0..11
      /\ Ps3Index(v).type = "axis" => Ps3Index(v).index \in 0..5
  BY <1>2 DEF Ps3Index, Button
<1>4. CASE pad \in {"ps3", "ps4"}
  BY <1>3, <1>4 DEF HardwareIndex, Ps4Index
<1>5. CASE pad = "joystick"
  BY <1>2, <1>5 DEF HardwareIndex, JoystickIndex, Button
<1> QED
  BY <1>1, <1>4, <1>5 DEF Pads

LEMMA WinmmInRange ==
  ASSUME NEW hw, hw.index \in 0..11, NEW axes
  PROVE  Winmm(hw, axes).index \in 0..11
<1> DEFINE rotations == axes \cap 3..5
           later == {r \in rotations : r > hw.index}
<1>1. Cardinality(later) \in 0..3
  <2>1. IsFiniteSet(3..5) /\ Cardinality(3..5) = 3
    <3>1. \A m, k \in Int : m <= k => IsFiniteSet(m..k) /\ Cardinality(m..k) = k - m + 1
      BY FS_Interval
    <3> DEFINE lo == 3
               hi == 5
    <3>2. lo \in Int /\ hi \in Int /\ lo <= hi /\ hi - lo + 1 = 3
      OBVIOUS
    <3> HIDE DEF lo, hi
    <3>3. IsFiniteSet(lo..hi) /\ Cardinality(lo..hi) = 3
      BY <3>1, <3>2
    <3> QED
      BY <3>3 DEF lo, hi
  <2>2. IsFiniteSet(later) /\ Cardinality(later) <= 3
    BY <2>1, FS_Subset
  <2> QED
    BY <2>2, FS_CardinalityType
<1> HIDE DEF later
<1>2. Winmm(hw, axes) \in {hw, AxisAt(3), AxisAt(3 + Cardinality(later))}
  BY DEF Winmm, later
<1> QED
  BY <1>1, <1>2 DEF AxisAt

LEMMA ButtonNameCleared ==
  ASSUME NEW family \in Families, NEW i \in 0..14
  PROVE  ButtonName(family, i) \in Cleared(family)
BY DEF Families, Cleared, ButtonNames, Halves

\* Every name that a game can be told of an input is one that the game gives up before.
LEMMA NamesAreCleared ==
  ASSUME FamiliesKnown, NEW g \in Games, g.clears = g.names, NEW n \in PadNames \cap NamesOf[g]
  PROVE  n \in Cleared(g.clears)
<1>1. PICK v \in PadInput, x \in BOOLEAN, pad \in Pads :
        n = Line(g, Arg(Entry(v, pad, v), pad,
                        Winmm(HardwareIndex(pad, v, x), MappedAxes(pad)).index))[1]
  BY DEF NamesOf
<1> DEFINE index == Winmm(HardwareIndex(pad, v, x), MappedAxes(pad)).index
           a == Arg(Entry(v, pad, v), pad, index)
           axis == AxisName(g.names, v, index)
<1>2. index \in 0..11
  BY HardwareInRange, WinmmInRange
<1>3. g.names \in Families
  BY DEF FamiliesKnown
<1> HIDE DEF index
<1>4. n \notin {NoName, Key("RIGHTARROW"), Key("LEFTARROW"), Key("UPARROW"), Key("DOWNARROW")}
  <2>1. n[1] \in {"joy", "aux", "axis"}
    BY DEF PadNames, Joy, Aux, AxisNames
  <2>2. NoName[1] = "none" /\ \A k : Key(k)[1] = "key"
    BY DEF NoName, Key
  <2> QED
    BY <2>1, <2>2
<1>5. \/ n \in {axis, NoName, ButtonName(g.names, index)}
      \/ v \in Dpad /\ n = DpadName(g.names, v)
  <2>1. a.vkey = v /\ a.context = pad /\ a.index = index
    BY DEF Arg, Entry
  <2> HIDE DEF a
  <2>2. v \in PadInput
    OBVIOUS
  <2> QED
    BY <1>1, <2>1, <2>2 DEF Line, index, a
<1>6. CASE n = axis
  <2>1. CASE Halves(g.names)
    <3>1. axis \in {Joy(i) : i \in 16..19}
      <4>1. axis = AxisName3(v, index)
        BY <2>1 DEF AxisName
      <4>2. index \in 0..3 /\ index \notin {0, 1}
        BY <1>4, <1>6, <4>1 DEF AxisName3
      <4>3. axis \in {Joy(16), Joy(17), Joy(18), Joy(19)}
        BY <1>4, <1>6, <4>1, <4>2 DEF AxisName3
      <4> QED
        BY <4>3
    <3> QED
      BY <1>6, <2>1, <3>1 DEF Cleared, Halves
  <2>2. CASE ~Halves(g.names)
    <3>1. n \in AxisNames
      BY <1>2, <1>4, <1>6, <2>2 DEF AxisName, AxisName2, AxisNames
    <3> QED
      BY <1>3, <2>2, <3>1 DEF Cleared, Halves, Families
  <2> QED
    BY <2>1, <2>2
<1>7. CASE v \in Dpad /\ n = DpadName(g.names, v)
  <2>1. CASE Halves(g.names)
    <3>1. n \in {Joy(24), Joy(25), Joy(27), Joy(26)}
      BY <1>7, <2>1 DEF DpadName, Dpad
    <3>2. n \in {Joy(i) : i \in 24..27}
      BY <3>1
    <3> QED
      BY <2>1, <3>2 DEF Cleared, Halves
  <2>2. CASE ~Halves(g.names)
    BY <1>3, <1>7, <2>2 DEF DpadName, Cleared, Halves, Families
  <2> QED
    BY <2>1, <2>2
<1>8. CASE n = ButtonName(g.names, index)
  BY <1>2, <1>3, <1>8, ButtonNameCleared
<1> QED
  BY <1>4, <1>5, <1>6, <1>7, <1>8

\* The inductive invariant.
BindsKept == title \in Games /\ PadNames \subseteq DOMAIN binds /\ NothingStale

LEMMA RunForgets ==
  ASSUME NEW g, NEW before, NEW lines, g.first, NEW n \in PadNames, n \in DOMAIN before,
         n \in Cleared(g.clears)
  PROVE  Run(g, before, lines)[n] = Run(g, [m \in PadNames |-> "none"], lines)[n]
<1> DEFINE does == IF Saves(lines, n) THEN lines[Saved(lines, n)][2] ELSE "none"
<1>1. ASSUME NEW binding, n \in DOMAIN binding
      PROVE  Run(g, binding, lines)[n] = does
  BY <1>1 DEF Run
<1>2. n \in DOMAIN [m \in PadNames |-> "none"]
  OBVIOUS
<1> QED
  BY <1>1, <1>2

\* What the controller does in the game is what the last launch says and nothing else
\* (save_bindings_to_config and unbind_* in id-tech-shared.cpp), in every game whose names are of
\* one of the families, with whatever actions, keys, controllers and files of bindings, and after
\* any number of launches and changes.
THEOREM BindingsNothingStale ==
  ASSUME FamiliesKnown
  PROVE  BindingsSpec => []NothingStale
<1>1. BindingsInit => BindsKept
  BY DEF BindingsInit, BindsKept, NothingStale, InitialBinds, NotPlayed
<1>2. BindsKept /\ [BindingsNext]_bindingVars => BindsKept'
  <2> SUFFICES ASSUME BindsKept, [BindingsNext]_bindingVars PROVE BindsKept'
    OBVIOUS
  <2> USE DEF BindsKept
  <2>1. ASSUME NEW i, NEW entry, ChangeRow(i, entry)
        PROVE  BindsKept'
    BY <2>1 DEF ChangeRow, NothingStale, NotPlayed
  <2>2. CASE \E pads \in Plugged : HandOver(pads)
    <3> PICK pads \in Plugged : HandOver(pads)
      BY <2>2
    <3>1. title' = title
      BY DEF HandOver
    <3>2. PadNames \subseteq DOMAIN binds'
      BY DEF HandOver, Run
    <3>3. NothingStale'
      <4> SUFFICES ASSUME title.runs, title.first, title.clears = title.names,
                          NEW n \in PadNames \cap NamesOf[title]
                   PROVE  LET lines == SaveBindings(title, played'.keys \o played'.native)
                          IN  binds'[n] = Run(title, [m \in PadNames |-> "none"], lines)[n]
        BY <3>1 DEF NothingStale
      <4> DEFINE shared == Shared(Partitioned(entries), pads)
                 lines == SaveBindings(title, shared.keys \o shared.native)
      <4>1. played'.keys = shared.keys /\ played'.native = shared.native
        <5>1. {"keys", "native"} \subseteq DOMAIN shared
          BY DEF Shared
        <5>2. \E f : played' = [shared EXCEPT !.look = f]
          BY DEF HandOver
        <5> HIDE DEF shared
        <5> QED
          BY <5>1, <5>2
      <4>2. binds' = Run(title, binds, lines)
        BY DEF HandOver
      <4>3. n \in Cleared(title.clears)
        BY NamesAreCleared
      <4> HIDE DEF shared
      <4> QED
        BY <4>1, <4>2, <4>3, RunForgets
    <3> QED
      BY <3>1, <3>2, <3>3
  <2>3. CASE UNCHANGED bindingVars
    BY <2>3 DEF bindingVars, NothingStale
  <2> QED
    BY <2>1, <2>2, <2>3 DEF BindingsNext, ChangeInput, ChangeKey
<1>3. BindsKept => NothingStale
  BY DEF BindsKept
<1> QED
  BY <1>1, <1>2, <1>3, PTL DEF BindingsSpec

-----------------------------------------------------------------------------
(* Finite sets in an order, as InOrder and Picked have them.               *)

\* order is a strict linear order of S
Orders(order, S) ==
  /\ \A x \in S : <<x, x>> \notin order
  /\ \A x, y, z \in S : <<x, y>> \in order /\ <<y, z>> \in order => <<x, z>> \in order
  /\ \A x, y \in S : x # y => <<x, y>> \in order \/ <<y, x>> \in order

\* The members of S have the numbers from 0 on, each one its own.
Ranked(S, order) ==
  /\ Cardinality(S) \in Nat
  /\ \A x \in S : Cardinality(Before(S, order, x)) \in 0..(Cardinality(S) - 1)
  /\ \A x, y \in S : Cardinality(Before(S, order, x)) = Cardinality(Before(S, order, y)) => x = y
  /\ \A n \in 0..(Cardinality(S) - 1) : \E x \in S : Cardinality(Before(S, order, x)) = n

\* By the pigeonhole principle: as many ranks as members, and no rank twice.
LEMMA Ranks ==
  ASSUME NEW S, IsFiniteSet(S), NEW order, Orders(order, S)
  PROVE  Ranked(S, order)
<1> DEFINE B(x) == Before(S, order, x)
           c == Cardinality(S)
           C == 0..(c - 1)
           f == [x \in S |-> Cardinality(B(x))]
<1>1. c \in Nat
  BY FS_CardinalityType
<1>2. \A x \in S : B(x) \in SUBSET S /\ x \notin B(x)
  BY DEF Before, Orders
<1>3. \A x \in S : IsFiniteSet(B(x)) /\ Cardinality(B(x)) \in Nat /\ Cardinality(B(x)) < c
  <2> TAKE x \in S
  <2>1. IsFiniteSet(B(x)) /\ Cardinality(B(x)) <= c /\ (c = Cardinality(B(x)) => S = B(x))
    BY <1>2, FS_Subset
  <2>2. Cardinality(B(x)) \in Nat
    BY <2>1, FS_CardinalityType
  <2> QED
    BY <2>1, <2>2, <1>1, <1>2
<1>4. \A x, y \in S : <<x, y>> \in order => Cardinality(B(x)) # Cardinality(B(y))
  <2> SUFFICES ASSUME NEW x \in S, NEW y \in S, <<x, y>> \in order,
                      Cardinality(B(x)) = Cardinality(B(y))
               PROVE  FALSE
    OBVIOUS
  <2>1. B(x) \in SUBSET B(y)
    BY DEF Before, Orders
  <2>2. x \in B(y) /\ x \notin B(x)
    BY <1>2 DEF Before
  <2> HIDE DEF B
  <2>3. IsFiniteSet(B(y))
    BY <1>3
  <2>4. B(x) = B(y)
    BY <2>1, <2>3, FS_Subset
  <2> QED
    BY <2>2, <2>4
<1>5. \A x, y \in S : Cardinality(B(x)) = Cardinality(B(y)) => x = y
  BY <1>4 DEF Orders
<1>6. IsFiniteSet(C) /\ Cardinality(C) = c
  BY <1>1, FS_Interval
<1>7. f \in Injection(S, C)
  <2>1. f \in [S -> C]
    BY <1>1, <1>3
  <2> HIDE DEF B
  <2> QED
    BY <2>1, <1>5 DEF Injection, IsInjective
<1>8. f \in Surjection(S, C)
  BY <1>6, <1>7, FS_Injection
<1>9. \A n \in C : \E x \in S : f[x] = n
  BY <1>8 DEF Surjection
<1> HIDE DEF B
<1>10. \A n \in C : \E x \in S : Cardinality(B(x)) = n
  BY <1>9
<1> USE DEF B
<1> QED
  BY <1>1, <1>3, <1>5, <1>10 DEF Ranked

\* InOrder has each member once.
LEMMA InOrderHas ==
  ASSUME NEW S, IsFiniteSet(S), NEW order, Orders(order, S)
  PROVE  /\ DOMAIN InOrder(S, order) = 1..Cardinality(S)
         /\ Cardinality(S) \in Nat
         /\ \A n \in DOMAIN InOrder(S, order) : InOrder(S, order)[n] \in S
         /\ \A x \in S : \E n \in DOMAIN InOrder(S, order) : InOrder(S, order)[n] = x
         /\ \A m, n \in DOMAIN InOrder(S, order) :
              InOrder(S, order)[m] = InOrder(S, order)[n] => m = n
<1> DEFINE c == Cardinality(S)
           Is(x, n) == Cardinality(Before(S, order, x)) = n - 1
<1>1. /\ c \in Nat
      /\ \A x \in S : Cardinality(Before(S, order, x)) \in 0..(c - 1)
      /\ \A x, y \in S : Cardinality(Before(S, order, x))
                         = Cardinality(Before(S, order, y)) => x = y
      /\ \A n \in 0..(c - 1) : \E x \in S : Cardinality(Before(S, order, x)) = n
  <2>1. Ranked(S, order)
    BY Ranks
  <2> QED
    BY <2>1 DEF Ranked
<1>2. \A n \in 1..c : \E x \in S : Is(x, n)
  <2> TAKE n \in 1..c
  <2>1. n - 1 \in 0..(c - 1)
    BY <1>1
  <2> QED
    BY <2>1, <1>1
<1>3. \A x \in S : \E n \in 1..c : Is(x, n)
  <2> TAKE x \in S
  <2> DEFINE m == Cardinality(Before(S, order, x))
  <2>1. m \in 0..(c - 1)
    BY <1>1
  <2> HIDE DEF m
  <2>2. m + 1 \in 1..c /\ (m + 1) - 1 = m
    BY <2>1, <1>1
  <2> USE DEF m
  <2> QED
    BY <2>2
<1>4. \A x, y \in S : \A n \in 1..c : Is(x, n) /\ Is(y, n) => x = y
  BY <1>1
<1>5. InOrder(S, order) = [n \in 1..c |-> CHOOSE x \in S : Is(x, n)]
  BY DEF InOrder
<1>9. \A x : \A m, n \in 1..c : Is(x, m) /\ Is(x, n) => m = n
  BY <1>1
<1> HIDE DEF Is, c
<1>6. \A n \in 1..c : InOrder(S, order)[n] \in S /\ Is(InOrder(S, order)[n], n)
  BY <1>2, <1>5
<1>7. DOMAIN InOrder(S, order) = 1..c
  BY <1>5
<1>8. \A x \in S : \E n \in 1..c : InOrder(S, order)[n] = x
  BY <1>3, <1>4, <1>6
<1>10. \A m, n \in 1..c : InOrder(S, order)[m] = InOrder(S, order)[n] => m = n
  BY <1>6, <1>9
<1> QED
  BY <1>1, <1>6, <1>7, <1>8, <1>10 DEF c

\* What Picked takes from a sequence.
LEMMA PickedHas ==
  ASSUME NEW s, NEW n \in Nat, NEW places \in SUBSET (1..n)
  PROVE  /\ DOMAIN Picked(s, places) = 1..Cardinality(places)
         /\ Cardinality(places) \in Nat
         /\ \A i \in DOMAIN Picked(s, places) : \E j \in places : Picked(s, places)[i] = s[j]
         /\ \A j \in places : \E i \in DOMAIN Picked(s, places) : Picked(s, places)[i] = s[j]
<1>1. IsFiniteSet(places)
  <2>1. IsFiniteSet(1..n)
    BY FS_Interval
  <2> QED
    BY <2>1, FS_Subset
<1>2. Orders(Upwards(places), places)
  BY DEF Orders, Upwards
<1> DEFINE o == InOrder(places, Upwards(places))
<1>3. /\ DOMAIN o = 1..Cardinality(places) /\ Cardinality(places) \in Nat
      /\ \A i \in DOMAIN o : o[i] \in places
      /\ \A j \in places : \E i \in DOMAIN o : o[i] = j
  BY <1>1, <1>2, InOrderHas
<1>4. Picked(s, places) = [i \in DOMAIN o |-> s[o[i]]]
  BY DEF Picked
<1> HIDE DEF o
<1>5. DOMAIN Picked(s, places) = DOMAIN o /\ \A i \in DOMAIN o : Picked(s, places)[i] = s[o[i]]
  BY <1>4
<1>6. \A i \in DOMAIN o : \E j \in places : Picked(s, places)[i] = s[j]
  BY <1>3, <1>5
<1>7. \A j \in places : \E i \in DOMAIN o : Picked(s, places)[i] = s[j]
  BY <1>3, <1>5
<1> QED
  BY <1>3, <1>5, <1>6, <1>7

\* Picked takes nothing twice.
LEMMA PickedOnce ==
  ASSUME NEW s, NEW n \in Nat, NEW places \in SUBSET (1..n),
         \A i, j \in places : s[i] = s[j] => i = j
  PROVE  /\ Picked(s, places) = [i \in 1..Cardinality(places) |-> Picked(s, places)[i]]
         /\ \A i, j \in DOMAIN Picked(s, places) : Picked(s, places)[i] = Picked(s, places)[j] => i = j
<1>1. IsFiniteSet(places)
  <2>1. IsFiniteSet(1..n)
    BY FS_Interval
  <2> QED
    BY <2>1, FS_Subset
<1>2. Orders(Upwards(places), places)
  BY DEF Orders, Upwards
<1> DEFINE o == InOrder(places, Upwards(places))
<1>3. /\ DOMAIN o = 1..Cardinality(places)
      /\ \A i \in DOMAIN o : o[i] \in places
      /\ \A i, j \in DOMAIN o : o[i] = o[j] => i = j
  BY <1>1, <1>2, InOrderHas
<1>4. Picked(s, places) = [i \in DOMAIN o |-> s[o[i]]]
  BY DEF Picked
<1> HIDE DEF o
<1>5. DOMAIN Picked(s, places) = DOMAIN o /\ \A i \in DOMAIN o : Picked(s, places)[i] = s[o[i]]
  BY <1>4
<1>6. Picked(s, places) = [i \in 1..Cardinality(places) |-> Picked(s, places)[i]]
  BY <1>3, <1>4
<1>7. ASSUME NEW i \in DOMAIN o, NEW j \in DOMAIN o, Picked(s, places)[i] = Picked(s, places)[j]
      PROVE  i = j
  <2>1. o[i] \in places /\ o[j] \in places /\ s[o[i]] = s[o[j]]
    BY <1>3, <1>5, <1>7
  <2>2. o[i] = o[j]
    BY <2>1
  <2> QED
    BY <2>2, <1>3
<1> QED
  BY <1>5, <1>6, <1>7

\* The same of numbers, counted from either end.
Counted(S) ==
  /\ IsFiniteSet(S) /\ Cardinality(S) \in Nat
  /\ \A i \in S : Below(S, i) \in 0..(Cardinality(S) - 1)
  /\ \A i, k \in S : Below(S, i) = Below(S, k) => i = k
  /\ \A x \in 0..(Cardinality(S) - 1) : \E i \in S : Below(S, i) = x
  /\ \A i \in S : Above(S, i) \in 0..(Cardinality(S) - 1)
  /\ \A i, k \in S : Above(S, i) = Above(S, k) => i = k
  /\ \A x \in 0..(Cardinality(S) - 1) : \E i \in S : Above(S, i) = x

\* Below and Above number a set of numbers from either end.
LEMMA Counts ==
  ASSUME NEW n \in Nat, NEW S \in SUBSET (1..n)
  PROVE  Counted(S)
<1> DEFINE up == {p \in S \X S : p[1] < p[2]}
           down == {p \in S \X S : p[1] > p[2]}
<1>1. IsFiniteSet(S)
  <2>1. IsFiniteSet(1..n)
    BY FS_Interval
  <2> QED
    BY <2>1, FS_Subset
<1>2. Orders(up, S)
  BY DEF Orders
<1>3. Orders(down, S)
  BY DEF Orders
<1>4. \A i \in S : Before(S, up, i) = {j \in S : j < i}
  BY DEF Before
<1>5. \A i \in S : Before(S, down, i) = {j \in S : j > i}
  BY DEF Before
<1>6. \A i \in S : Below(S, i) = Cardinality(Before(S, up, i))
  BY <1>4 DEF Below
<1>7. \A i \in S : Above(S, i) = Cardinality(Before(S, down, i))
  BY <1>5 DEF Above
<1> HIDE DEF up, down
<1>8. /\ Cardinality(S) \in Nat
      /\ \A i \in S : Cardinality(Before(S, up, i)) \in 0..(Cardinality(S) - 1)
      /\ \A i, k \in S : Cardinality(Before(S, up, i)) = Cardinality(Before(S, up, k)) => i = k
      /\ \A x \in 0..(Cardinality(S) - 1) : \E i \in S : Cardinality(Before(S, up, i)) = x
  <2>1. Ranked(S, up)
    BY <1>1, <1>2, Ranks
  <2> QED
    BY <2>1 DEF Ranked
<1>9. /\ \A i \in S : Cardinality(Before(S, down, i)) \in 0..(Cardinality(S) - 1)
      /\ \A i, k \in S : Cardinality(Before(S, down, i)) = Cardinality(Before(S, down, k)) => i = k
      /\ \A x \in 0..(Cardinality(S) - 1) : \E i \in S : Cardinality(Before(S, down, i)) = x
  <2>1. Ranked(S, down)
    BY <1>1, <1>3, Ranks
  <2> QED
    BY <2>1 DEF Ranked
<1>10. /\ \A i \in S : Below(S, i) \in 0..(Cardinality(S) - 1)
       /\ \A i, k \in S : Below(S, i) = Below(S, k) => i = k
       /\ \A x \in 0..(Cardinality(S) - 1) : \E i \in S : Below(S, i) = x
  BY <1>6, <1>8
<1>11. /\ \A i \in S : Above(S, i) \in 0..(Cardinality(S) - 1)
       /\ \A i, k \in S : Above(S, i) = Above(S, k) => i = k
       /\ \A x \in 0..(Cardinality(S) - 1) : \E i \in S : Above(S, i) = x
  BY <1>7, <1>9
<1> QED
  BY <1>1, <1>8, <1>10, <1>11 DEF Counted

-----------------------------------------------------------------------------
(* The partition of the entries, and the bindings it leads to.             *)

\* The same entries at other places, the keys at theirs or below.
Moved(table, T, n) ==
  /\ DOMAIN T = 1..n /\ T = [i \in 1..n |-> T[i]]
  /\ \A i \in 1..n : \E j \in 1..n :
       T[i] = table[j] /\ (table[j].context = "keyboard" => j <= i)
  /\ \A j \in 1..n : \E i \in 1..n : T[i] = table[j]

\* The partition pairs the entries it swaps, so it is its own inverse.
LEMMA PartitionedHas ==
  ASSUME NEW n \in Nat, NEW table, DOMAIN table = 1..n
  PROVE  Moved(table, Partitioned(table), n)
<1> DEFINE mouse == {i \in DOMAIN table : table[i].context = "mouse"}
           m == Cardinality(mouse)
           front == (1..m) \ mouse
           back == mouse \ (1..m)
           Partner(i) == CASE i \in front -> CHOOSE j \in back : Above(back, j) = Below(front, i)
                           [] i \in back -> CHOOSE j \in front : Below(front, j) = Above(back, i)
                           [] OTHER -> i
<1>1. Partitioned(table) = [i \in 1..n |-> table[Partner(i)]]
  BY DEF Partitioned
<1>2. /\ mouse \in SUBSET (1..n) /\ \A i \in mouse : table[i].context = "mouse"
      /\ \A i \in (1..n) \ mouse : table[i].context # "mouse"
  OBVIOUS
<1> HIDE DEF mouse
<1>3. IsFiniteSet(mouse) /\ m \in Nat /\ m <= n
  <2>1. IsFiniteSet(1..n) /\ Cardinality(1..n) = n
    BY FS_Interval
  <2>2. IsFiniteSet(mouse) /\ m <= n
    <3>1. mouse \in SUBSET (1..n)
      BY <1>2
    <3>2. IsFiniteSet(mouse) /\ m <= Cardinality(1..n)
      BY <3>1, <2>1, FS_Subset
    <3> QED
      BY <2>1, <3>2
  <2> QED
    BY <2>2, FS_CardinalityType
<1>4. front \in SUBSET (1..n) /\ back \in SUBSET (1..n) /\ front \cap back = {}
  <2> HIDE DEF m
  <2> QED
    BY <1>2, <1>3
<1>5. Cardinality(front) = Cardinality(back)
  <2>1. IsFiniteSet(1..m) /\ Cardinality(1..m) = m
    BY <1>3, FS_Interval
  <2>2. /\ Cardinality(front) = m - Cardinality((1..m) \cap mouse)
        /\ Cardinality(back) = m - Cardinality(mouse \cap (1..m))
    BY <2>1, <1>3, FS_Difference
  <2>3. (1..m) \cap mouse = mouse \cap (1..m)
    OBVIOUS
  <2> QED
    BY <2>2, <2>3
<1>6. /\ \A i \in front : Below(front, i) \in 0..(Cardinality(front) - 1)
      /\ \A i, k \in front : Below(front, i) = Below(front, k) => i = k
      /\ \A x \in 0..(Cardinality(front) - 1) : \E i \in front : Below(front, i) = x
  <2>1. Counted(front)
    BY <1>4, Counts
  <2> QED
    BY <2>1 DEF Counted
<1>7. /\ \A i \in back : Above(back, i) \in 0..(Cardinality(back) - 1)
      /\ \A i, k \in back : Above(back, i) = Above(back, k) => i = k
      /\ \A x \in 0..(Cardinality(back) - 1) : \E i \in back : Above(back, i) = x
  <2>1. Counted(back)
    BY <1>4, Counts
  <2> QED
    BY <2>1 DEF Counted
<1> HIDE DEF m
<1>8. \A i \in front : i <= m /\ i \notin mouse
  BY <1>3
<1>9. \A i \in back : i > m /\ i \in mouse
  BY <1>2, <1>3
<1> HIDE DEF front, back
<1>10. \A i \in front : Partner(i) \in back /\ Above(back, Partner(i)) = Below(front, i)
  <2> TAKE i \in front
  <2>1. \E j \in back : Above(back, j) = Below(front, i)
    BY <1>5, <1>6, <1>7
  <2>2. Partner(i) = CHOOSE j \in back : Above(back, j) = Below(front, i)
    BY <1>4
  <2> QED
    BY <2>1, <2>2
<1>11. \A i \in back : Partner(i) \in front /\ Below(front, Partner(i)) = Above(back, i)
  <2> TAKE i \in back
  <2>1. \E j \in front : Below(front, j) = Above(back, i)
    BY <1>5, <1>6, <1>7
  <2>2. i \notin front
    BY <1>4
  <2>3. Partner(i) = CHOOSE j \in front : Below(front, j) = Above(back, i)
    BY <2>2
  <2> QED
    BY <2>1, <2>3
<1>12. \A i \in 1..n : i \notin front /\ i \notin back => Partner(i) = i
  OBVIOUS
<1> HIDE DEF Partner
<1>13. \A i \in 1..n : Partner(i) \in 1..n /\ Partner(Partner(i)) = i
  <2> TAKE i \in 1..n
  <2>1. CASE i \in front
    <3>1. Partner(i) \in back /\ Partner(Partner(i)) \in front
      BY <2>1, <1>10, <1>11
    <3>2. Below(front, Partner(Partner(i))) = Below(front, i)
      BY <2>1, <1>10, <1>11
    <3> QED
      BY <2>1, <3>1, <3>2, <1>4, <1>6
  <2>2. CASE i \in back
    <3>1. Partner(i) \in front /\ Partner(Partner(i)) \in back
      BY <2>2, <1>10, <1>11
    <3>2. Above(back, Partner(Partner(i))) = Above(back, i)
      BY <2>2, <1>10, <1>11
    <3> QED
      BY <2>2, <3>1, <3>2, <1>4, <1>7
  <2> QED
    BY <2>1, <2>2, <1>12
<1>14. \A i \in 1..n : table[Partner(i)].context = "keyboard" => Partner(i) <= i
  <2> TAKE i \in 1..n
  <2>1. CASE i \in front
    BY <2>1, <1>10, <1>9, <1>2
  <2>2. CASE i \in back
    <3>1. Partner(i) <= m /\ i > m /\ Partner(i) \in 1..n
      BY <2>2, <1>8, <1>9, <1>11, <1>13
    <3> QED
      BY <3>1, <1>3
  <2>3. CASE i \notin front /\ i \notin back
    BY <2>3, <1>12
  <2> QED
    BY <2>1, <2>2, <2>3
<1> DEFINE T == Partitioned(table)
<1>15. DOMAIN T = 1..n /\ (\A i \in 1..n : T[i] = table[Partner(i)]) /\ T = [i \in 1..n |-> T[i]]
  BY <1>1
<1> HIDE DEF T
<1>16. \A i \in 1..n : \E j \in 1..n :
         T[i] = table[j] /\ (table[j].context = "keyboard" => j <= i)
  BY <1>13, <1>14, <1>15
<1>17. \A j \in 1..n : \E i \in 1..n : T[i] = table[j]
  BY <1>13, <1>15
<1> QED
  BY <1>15, <1>16, <1>17 DEF T, Moved

\* The least and the greatest of a set of places are among them.
LEMMA MinOf ==
  ASSUME NEW n \in Nat, NEW S \in SUBSET (1..n), S # {}
  PROVE  Min(S) \in S
<1>1. Counted(S)
  BY Counts
<1>2. Cardinality(S) \in Nat /\ Cardinality(S) # 0
  BY <1>1, FS_EmptySet DEF Counted
<1>3. PICK i \in S : Below(S, i) = 0
  BY <1>1, <1>2 DEF Counted
<1>4. {j \in S : j < i} = {}
  <2>1. {j \in S : j < i} \in SUBSET S
    OBVIOUS
  <2>2. IsFiniteSet({j \in S : j < i})
    BY <2>1, <1>1, FS_Subset DEF Counted
  <2> QED
    BY <1>3, <2>2, FS_EmptySet DEF Below
<1>5. \A j \in S : i <= j
  BY <1>4
<1> QED
  BY <1>5 DEF Min

LEMMA MaxOf ==
  ASSUME NEW n \in Nat, NEW S \in SUBSET (1..n), S # {}
  PROVE  Max(S) \in S /\ \A j \in S : j <= Max(S)
<1>1. Counted(S)
  BY Counts
<1>2. Cardinality(S) \in Nat /\ Cardinality(S) # 0
  BY <1>1, FS_EmptySet DEF Counted
<1>3. PICK i \in S : Above(S, i) = 0
  BY <1>1, <1>2 DEF Counted
<1>4. {j \in S : j > i} = {}
  <2>1. {j \in S : j > i} \in SUBSET S
    OBVIOUS
  <2>2. IsFiniteSet({j \in S : j > i})
    BY <2>1, <1>1, FS_Subset DEF Counted
  <2> QED
    BY <1>3, <2>2, FS_EmptySet DEF Above
<1>5. \A j \in S : i >= j
  BY <1>4
<1> QED
  BY <1>5 DEF Max

\* What is in the bindings of the first c controllers, and nothing else is.
BindingsAre(table, pads, c) ==
  /\ \E m \in Nat : DOMAIN Bindings(table, pads) = 1..m
  /\ \A i \in DOMAIN Bindings(table, pads) : \E k \in 1..c, e \in PadEntries(table) :
       Has(pads[k], e) /\ Bindings(table, pads)[i] = Binding(k, pads[k], e)
  /\ \A k \in 1..c, e \in PadEntries(table) : Has(pads[k], e) =>
       \E i \in DOMAIN Bindings(table, pads) : Bindings(table, pads)[i] = Binding(k, pads[k], e)

\* The bindings are those of the inputs of the table that a known controller has.
LEMMA BindingsHave ==
  ASSUME NEW n \in Nat, NEW table, DOMAIN table = 1..n, NEW c \in Nat, NEW pads, DOMAIN pads = 1..c
  PROVE  BindingsAre(table, pads, c)
<1> DEFINE found == {p \in (DOMAIN pads) \X (DOMAIN table) :
                       table[p[2]].vkey \in PadInput /\ Has(pads[p[1]], table[p[2]])}
           order == {q \in found \X found : \/ q[1][1] < q[2][1]
                                            \/ q[1][1] = q[2][1] /\ q[1][2] < q[2][2]}
           o == InOrder(found, order)
<1>1. found \in SUBSET ((1..c) \X (1..n))
  OBVIOUS
<1>2. \A p \in found : table[p[2]] \in PadEntries(table) /\ Has(pads[p[1]], table[p[2]])
  BY DEF PadEntries, ToSet
<1>3. \A k \in 1..c, e \in PadEntries(table) : Has(pads[k], e) =>
        \E p \in found : p[1] = k /\ table[p[2]] = e
  <2> SUFFICES ASSUME NEW k \in 1..c, NEW e \in PadEntries(table), Has(pads[k], e)
               PROVE  \E p \in found : p[1] = k /\ table[p[2]] = e
    OBVIOUS
  <2>1. PICK i \in 1..n : table[i] = e
    BY DEF PadEntries, ToSet
  <2>2. <<k, i>> \in found
    BY <2>1 DEF PadEntries
  <2> QED
    BY <2>1, <2>2
<1>4. Bindings(table, pads)
        = [i \in DOMAIN o |-> Binding(o[i][1], pads[o[i][1]], table[o[i][2]])]
  BY DEF Bindings
<1>5. IsFiniteSet(found)
  <2>1. IsFiniteSet(1..c) /\ IsFiniteSet(1..n)
    BY FS_Interval
  <2>2. IsFiniteSet((1..c) \X (1..n))
    BY <2>1, FS_Product
  <2> QED
    BY <2>2, <1>1, FS_Subset
<1> HIDE DEF found
<1>6. Orders(order, found)
  <2>1. \A p \in found : p[1] \in Int /\ p[2] \in Int /\ p = <<p[1], p[2]>>
    BY <1>1
  <2>2. \A p, q \in found : <<p, q>> \in order <=> (p[1] < q[1] \/ (p[1] = q[1] /\ p[2] < q[2]))
    OBVIOUS
  <2> HIDE DEF order
  <2>3. \A p \in found : <<p, p>> \notin order
    BY <2>1, <2>2
  <2>4. \A p, q, r \in found : <<p, q>> \in order /\ <<q, r>> \in order => <<p, r>> \in order
    BY <2>1, <2>2
  <2>5. \A p, q \in found : p # q => <<p, q>> \in order \/ <<q, p>> \in order
    BY <2>1, <2>2
  <2> QED
    BY <2>3, <2>4, <2>5 DEF Orders
<1> HIDE DEF order
<1>7. /\ DOMAIN o = 1..Cardinality(found) /\ Cardinality(found) \in Nat
      /\ \A i \in DOMAIN o : o[i] \in found
      /\ \A p \in found : \E i \in DOMAIN o : o[i] = p
  BY <1>5, <1>6, InOrderHas
<1> HIDE DEF o
<1> DEFINE b == Bindings(table, pads)
<1>8. DOMAIN b = DOMAIN o /\ \A i \in DOMAIN o :
        b[i] = Binding(o[i][1], pads[o[i][1]], table[o[i][2]])
  BY <1>4
<1> HIDE DEF b
<1>9. \A i \in DOMAIN b : \E k \in 1..c, e \in PadEntries(table) :
        Has(pads[k], e) /\ b[i] = Binding(k, pads[k], e)
  <2> TAKE i \in DOMAIN b
  <2>1. o[i] \in found /\ o[i][1] \in 1..c
    BY <1>1, <1>7, <1>8
  <2> QED
    BY <2>1, <1>2, <1>8
<1>10. \A k \in 1..c, e \in PadEntries(table) : Has(pads[k], e) =>
         \E i \in DOMAIN b : b[i] = Binding(k, pads[k], e)
  <2> SUFFICES ASSUME NEW k \in 1..c, NEW e \in PadEntries(table), Has(pads[k], e)
               PROVE  \E i \in DOMAIN b : b[i] = Binding(k, pads[k], e)
    OBVIOUS
  <2>1. PICK p \in found : p[1] = k /\ table[p[2]] = e
    BY <1>3
  <2>2. PICK i \in DOMAIN o : o[i] = p
    BY <1>7
  <2> QED
    BY <2>1, <2>2, <1>8
<1>11. \E m \in Nat : DOMAIN b = 1..m
  BY <1>7, <1>8
<1> QED
  BY <1>9, <1>10, <1>11 DEF b, BindingsAre

-----------------------------------------------------------------------------
(* The key that plays an input.                                            *)

\* The rows of R that are keys or buttons of the mouse for the action of e.
KeyedIn(R, e) == {x \in R : x.action = e.action /\ x.context \in {"keyboard", "mouse"}}

\* What a row of the tables may hold.
Fitting(x) ==
  \/ x.context = "global" /\ x.vkey \in PadInput \cup {"none"}
  \/ x.context \in Pads /\ x.vkey \in PadInput
  \/ x.context = "keyboard" /\ x.vkey \in ToSet(Keys) \cup NewKeys
  \/ x.context = "mouse" /\ x.vkey \in KeyCodes

\* The rows of a table: an action has one row for the controller, and a row without an input
\* besides only if it is the first action, whose dummy that is.
RowsFit(R) ==
  /\ \A x \in R : Fitting(x)
  /\ \A x, y \in R : x.vkey \in PadInput /\ y.vkey \in PadInput /\ x.action = y.action => x = y
  /\ \A x, e \in R : x.vkey = "none" /\ e.vkey \in PadInput /\ x.action = e.action
                       /\ KeyedIn(R, e) # {} => e.action = Actions[1]

\* The places Fallback looks at.
OtherRows(table, e, from) ==
  {i \in DOMAIN table : /\ table[i].action = e.action
                        /\ table[i].vkey # e.vkey
                        /\ table[i].context \notin {e.context, from}}

\* What is found for an input is a key of its action, or nothing that is a key.
LEMMA FallbackIs ==
  ASSUME BindingsFit, NEW n \in Nat, NEW table, DOMAIN table = 1..n, RowsFit(ToSet(table)),
         NEW e \in PadEntries(table), NEW from, NEW to \in Fallback(table, e, from)
  PROVE  /\ to.vkey = e.vkey
         /\ to.to = "none" \/ \E x \in KeyedIn(ToSet(table), e) : to.to = x.vkey
<1> DEFINE S == OtherRows(table, e, from)
           x == table[Min(S)]
<1>1. /\ Fallback(table, e, from) = IF S = {} THEN {}
                                    ELSE {[from |-> from, vkey |-> e.vkey, to |-> x.vkey]}
  BY DEF Fallback, OtherRows
<1> HIDE DEF S
<1>2. S # {} /\ to = [from |-> from, vkey |-> e.vkey, to |-> x.vkey]
  BY <1>1
<1>3. Min(S) \in S
  <2>1. S \in SUBSET (1..n)
    BY DEF S, OtherRows
  <2> QED
    BY <2>1, <1>2, MinOf
<1>4. x \in ToSet(table) /\ x.action = e.action /\ x.vkey # e.vkey
  BY <1>3 DEF S, OtherRows, ToSet
<1>5. e \in ToSet(table) /\ e.vkey \in PadInput
  BY DEF PadEntries
<1>6. x.vkey \notin PadInput
  BY <1>4, <1>5 DEF RowsFit
<1> HIDE DEF x
<1>7. x.vkey = "none" \/ x \in KeyedIn(ToSet(table), e)
  BY <1>4, <1>6 DEF RowsFit, Fitting, KeyedIn
<1> QED
  BY <1>2, <1>7

\* A key is found for an input whose action has one.
FindsKey(table, e, from) ==
  \E to \in Fallback(table, e, from) :
    to.vkey = e.vkey /\ \E x \in KeyedIn(ToSet(table), e) : to.to = x.vkey

LEMMA FallbackFinds ==
  ASSUME BindingsFit, NEW n \in Nat, NEW table, DOMAIN table = 1..n, RowsFit(ToSet(table)),
         NEW e \in PadEntries(table), NEW from \in {"global"} \cup Pads,
         KeyedIn(ToSet(table), e) # {}, from = "global" \/ FindsItsKey(e)
  PROVE  FindsKey(table, e, from)
<1> DEFINE S == OtherRows(table, e, from)
           x == table[Min(S)]
<1>1. /\ Fallback(table, e, from) = IF S = {} THEN {}
                                    ELSE {[from |-> from, vkey |-> e.vkey, to |-> x.vkey]}
  BY DEF Fallback, OtherRows
<1>2. e \in ToSet(table) /\ e.vkey \in PadInput /\ e.context \in {"global"} \cup Pads
  BY DEF PadEntries, RowsFit, Fitting, BindingsFit, KeyCodes
<1>3. \A y \in ToSet(table) : y.context \in {"keyboard", "mouse"} => y.vkey \in KeyCodes
  BY DEF RowsFit, Fitting, KeyCodes, Pads
<1>4. S # {}
  <2>1. PICK y \in ToSet(table) : y.action = e.action /\ y.context \in {"keyboard", "mouse"}
    BY DEF KeyedIn
  <2>2. y.vkey # e.vkey
    BY <2>1, <1>2, <1>3 DEF BindingsFit
  <2>3. y.context \notin {e.context, from}
    BY <2>1, <1>2 DEF Pads
  <2> QED
    BY <2>1, <2>2, <2>3 DEF OtherRows, ToSet
<1> HIDE DEF S
<1>5. Min(S) \in S
  <2>1. S \in SUBSET (1..n)
    BY DEF S, OtherRows
  <2> QED
    BY <2>1, <1>4, MinOf
<1>6. /\ x \in ToSet(table) /\ x.action = e.action /\ x.vkey # e.vkey
      /\ x.context \notin {e.context, from}
  BY <1>5 DEF S, OtherRows, ToSet
<1>7. x.vkey \notin PadInput
  BY <1>2, <1>6 DEF RowsFit
<1> HIDE DEF x
<1>8. x.vkey = "none" => e.action = Actions[1]
  BY <1>2, <1>6 DEF RowsFit
<1>9. x.vkey = "none" => x.context = "global"
  BY ZenonT(30), <1>6 DEF RowsFit, Fitting, BindingsFit, PadInput, Dpad, Triggers, LeftStick, RightStick, Buttons, KeyCodes
<1>10. x \in KeyedIn(ToSet(table), e)
  <2>1. CASE x.vkey = "none"
    BY <2>1, <1>2, <1>6, <1>8, <1>9 DEF FindsItsKey
  <2>2. CASE x.vkey # "none"
    BY <2>2, <1>6, <1>7 DEF RowsFit, Fitting, KeyedIn
  <2> QED
    BY <2>1, <2>2
<1> DEFINE to == [from |-> from, vkey |-> e.vkey, to |-> x.vkey]
<1>11. to \in Fallback(table, e, from)
  BY <1>1, <1>4
<1>12. to.vkey = e.vkey /\ to.to = x.vkey
  OBVIOUS
<1> HIDE DEF to
<1> QED
  BY <1>10, <1>11, <1>12 DEF FindsKey

-----------------------------------------------------------------------------
(* Who plays what: every input is played once.                             *)

\* A game that takes anything takes all, and the others take the first controller's only.
LEMMA PlaceTaken ==
  ASSUME BindingsFit, title \in Games, title.takes # "any", NEW caps, NEW action, NEW hw,
         IsInputMappingValid(title, caps, action, hw)
  PROVE  caps.place = 0
<1>1. title.takes \in {"2.0", "2.5", "sof", "3.0", "moh"}
  BY DEF BindingsFit
<1> QED
  BY <1>1 DEF IsInputMappingValid, IdTech20Takes, IdTech25Takes, SofTakes, IdTech3Takes, MohTakes,
              TakesForAxes

\* Of two controllers that both have their input taken as it is or left unbound, a game that takes
\* the action from one takes it from the other.
LEMMA SameTaken ==
  ASSUME BindingsFit, title \in Games, NEW c \in Nat, NEW pads, NEW e,
         NEW j \in 1..c, NEW k \in 1..c,
         IsBindable(Binding(j, pads[j], e)),
         LET b == Binding(k, pads[k], e) IN IsBindable(b) \/ IsUnbindable(b)
  PROVE  IsBindable(Binding(k, pads[k], e))
<1>1. CASE title.takes = "any"
  BY <1>1 DEF IsBindable, IsInputMappingValid
<1>2. CASE title.takes # "any"
  <2>1. Binding(j, pads[j], e).caps.place = 0
    BY <1>2, PlaceTaken DEF IsBindable
  <2>2. Binding(k, pads[k], e).caps.place = 0
    BY <1>2, PlaceTaken DEF IsBindable, IsUnbindable
  <2>3. j = 1 /\ k = 1
    BY <2>1, <2>2 DEF Binding
  <2> QED
    BY <2>3
<1> QED
  BY <1>1, <1>2

\* The parts of Shared.
AsKeysOf(table, these) == UNION {Fallback(table, e, "global") : e \in these}
AllBound(b) == \A i \in DOMAIN b : IsBindable(b[i]) \/ IsUnbindable(b[i])
NativeOf(b) ==
  LET native == Picked(b, {i \in DOMAIN b : IsBindable(b[i])})
  IN  [i \in DOMAIN native |-> Arg(native[i].entry, native[i].pad, native[i].hw.index)]
UnboundOf(table, b) ==
  UNION {Fallback(table, x.entry, x.pad) : x \in {y \in ToSet(b) : ~IsBindable(y)}}

\* The three outcomes of a launch.
AllAsKeys(table, pads, s) ==
  /\ ~title.native \/ pads = <<>>
  /\ s.native = <<>> /\ s.inputs = AsKeysOf(table, PadEntries(table))
ByTheGame(table, pads, s) ==
  /\ title.native /\ pads # <<>> /\ AllBound(Bindings(table, pads))
  /\ s.native = NativeOf(Bindings(table, pads))
  /\ s.inputs = AsKeysOf(table, Unplayable(table, pads)) \cup UnboundOf(table, Bindings(table, pads))
KnownAsKeys(table, pads, s) ==
  /\ title.native /\ pads # <<>>
  /\ s.native = <<>>
  /\ s.inputs = AsKeysOf(table, Unplayable(table, pads))
                  \cup AsKeysOf(table, {b.entry : b \in ToSet(Bindings(table, pads))})

\* A launch has one of them.
LEMMA SharedIs ==
  ASSUME NEW table, NEW pads
  PROVE  LET s == Shared(table, pads)
         IN  /\ s.done /\ s.pads = pads /\ s.keys = KeyArgs(table)
             /\ s = [done |-> TRUE, pads |-> pads, keys |-> KeyArgs(table), native |-> s.native,
                     inputs |-> s.inputs, look |-> {}]
             /\ \/ AllAsKeys(table, pads, s)
                \/ ByTheGame(table, pads, s)
                \/ KnownAsKeys(table, pads, s)
<1> DEFINE Plays(handed, inputs) ==
             [done |-> TRUE, pads |-> pads, keys |-> KeyArgs(table), native |-> handed,
              inputs |-> inputs, look |-> {}]
           missing == AsKeysOf(table, Unplayable(table, pads))
           b == Bindings(table, pads)
           s == Shared(table, pads)
           k == AsKeysOf(table, PadEntries(table))
           u == missing \cup UnboundOf(table, b)
           w == missing \cup AsKeysOf(table, {x.entry : x \in ToSet(b)})
           N == NativeOf(b)
<1>1. s = IF ~title.native \/ pads = <<>> THEN Plays(<<>>, k)
          ELSE IF AllBound(b) THEN Plays(N, u) ELSE Plays(<<>>, w)
  BY DEF Shared, AsKeysOf, AllBound, UnboundOf, NativeOf
<1> HIDE DEF s, k, u, w, b, N
<1>2. s \in {Plays(<<>>, k), Plays(N, u), Plays(<<>>, w)}
  BY <1>1
<1>3. s.done /\ s.pads = pads /\ s.keys = KeyArgs(table) /\ s = Plays(s.native, s.inputs)
  BY <1>2
<1>4. CASE ~title.native \/ pads = <<>>
  <2>1. s = Plays(<<>>, k)
    BY <1>1, <1>4
  <2>2. s.native = <<>> /\ s.inputs = k
    BY <2>1
  <2> HIDE DEF Plays
  <2> QED
    BY <1>4, <2>2, <1>3 DEF AllAsKeys, k, s, Plays
<1>5. CASE title.native /\ pads # <<>> /\ AllBound(b)
  <2>1. s = Plays(N, u)
    BY <1>1, <1>5
  <2>2. s.native = N /\ s.inputs = u
    BY <2>1
  <2> HIDE DEF Plays
  <2> QED
    BY <1>5, <2>2, <1>3 DEF ByTheGame, u, s, b, N, Plays
<1>6. CASE title.native /\ pads # <<>> /\ ~AllBound(b)
  <2>1. s = Plays(<<>>, w)
    BY <1>1, <1>6
  <2>2. s.native = <<>> /\ s.inputs = w
    BY <2>1
  <2> HIDE DEF Plays
  <2> QED
    BY <1>6, <2>2, <1>3 DEF KnownAsKeys, w, s, b, Plays
<1> QED
  BY <1>4, <1>5, <1>6

ArgOf(b) == Arg(b.entry, b.pad, b.hw.index)
\* The arguments for the inputs that the game plays, and nothing else is among them.
NativeIs(native, table, pads, c) ==
  /\ \E m \in Nat : DOMAIN native = 1..m
  /\ native = [i \in DOMAIN native |-> native[i]]
  /\ \A i \in DOMAIN native : \E k \in 1..c, e \in PadEntries(table) :
       /\ Has(pads[k], e) /\ IsBindable(Binding(k, pads[k], e))
       /\ native[i] = ArgOf(Binding(k, pads[k], e))
  /\ \A k \in 1..c, e \in PadEntries(table) :
       Has(pads[k], e) /\ IsBindable(Binding(k, pads[k], e)) =>
         \E i \in DOMAIN native : native[i] = ArgOf(Binding(k, pads[k], e))

\* What the game plays itself: the bindable inputs of the known controllers.
LEMMA NativeHas ==
  ASSUME NEW n \in Nat, NEW table, DOMAIN table = 1..n, NEW c \in Nat, NEW pads, DOMAIN pads = 1..c
  PROVE  NativeIs(NativeOf(Bindings(table, pads)), table, pads, c)
<1> DEFINE b == Bindings(table, pads)
           native == NativeOf(b)
           places == {i \in DOMAIN b : IsBindable(b[i])}
           a == Picked(b, places)
<1>2. /\ \E m \in Nat : DOMAIN b = 1..m
      /\ \A i \in DOMAIN b : \E k \in 1..c, e \in PadEntries(table) :
           Has(pads[k], e) /\ b[i] = Binding(k, pads[k], e)
      /\ \A k \in 1..c, e \in PadEntries(table) : Has(pads[k], e) =>
           \E i \in DOMAIN b : b[i] = Binding(k, pads[k], e)
  <2>1. BindingsAre(table, pads, c)
    BY BindingsHave
  <2> QED
    BY <2>1 DEF BindingsAre
<1> HIDE DEF b
<1>1. PICK m \in Nat : DOMAIN b = 1..m
  BY <1>2
<1>3. /\ DOMAIN a = 1..Cardinality(places) /\ Cardinality(places) \in Nat
      /\ \A i \in DOMAIN a : \E j \in places : a[i] = b[j]
      /\ \A j \in places : \E i \in DOMAIN a : a[i] = b[j]
  <2>1. places \in SUBSET (1..m)
    BY <1>1
  <2> HIDE DEF places
  <2> QED
    BY <2>1, PickedHas
<1>4. native = [i \in DOMAIN a |-> ArgOf(a[i])]
  BY DEF NativeOf, ArgOf
<1>5. \A j \in places : j \in DOMAIN b /\ IsBindable(b[j])
  OBVIOUS
<1>6. \A j \in DOMAIN b : IsBindable(b[j]) => j \in places
  OBVIOUS
<1> HIDE DEF native, a, places
<1>7. DOMAIN native = DOMAIN a /\ \A i \in DOMAIN a : native[i] = ArgOf(a[i])
  BY <1>4
<1>8. native = [i \in DOMAIN native |-> native[i]]
  BY <1>4
<1>9. \A i \in DOMAIN native : \E k \in 1..c, e \in PadEntries(table) :
        /\ Has(pads[k], e) /\ IsBindable(Binding(k, pads[k], e))
        /\ native[i] = ArgOf(Binding(k, pads[k], e))
  <2> TAKE i \in DOMAIN native
  <2>1. PICK j \in places : a[i] = b[j]
    BY <1>3, <1>7
  <2>2. PICK k \in 1..c, e \in PadEntries(table) :
          Has(pads[k], e) /\ b[j] = Binding(k, pads[k], e)
    BY <1>2, <1>5
  <2>3. IsBindable(b[j]) /\ native[i] = ArgOf(b[j])
    BY <2>1, <1>5, <1>7
  <2> QED
    BY <2>2, <2>3
<1>10. \A k \in 1..c, e \in PadEntries(table) :
         Has(pads[k], e) /\ IsBindable(Binding(k, pads[k], e)) =>
           \E i \in DOMAIN native : native[i] = ArgOf(Binding(k, pads[k], e))
  <2> SUFFICES ASSUME NEW k \in 1..c, NEW e \in PadEntries(table),
                      Has(pads[k], e), IsBindable(Binding(k, pads[k], e))
               PROVE  \E i \in DOMAIN native : native[i] = ArgOf(Binding(k, pads[k], e))
    OBVIOUS
  <2>1. PICK j \in DOMAIN b : b[j] = Binding(k, pads[k], e)
    BY <1>2
  <2>2. IsBindable(b[j])
    BY <2>1
  <2>3. PICK i \in DOMAIN a : a[i] = b[j]
    BY <2>2, <1>3, <1>6
  <2> QED
    BY <2>1, <2>3, <1>7
<1>11. \E x \in Nat : DOMAIN native = 1..x
  BY <1>3, <1>7
<1> QED
  BY <1>8, <1>9, <1>10, <1>11 DEF native, b, NativeIs

\* The parts of InputsPlayedOnce for a table and what a launch hands over.
PadsFit(pads) == pads \in Seq(Pads \cup {"unknown"})
NativeHasIt(s, e) ==
  \E i \in DOMAIN s.native : s.native[i].vkey = e.vkey /\ s.native[i].action = e.action
InputsHaveIt(table, s, e) ==
  \E to \in s.inputs, x \in KeyedIn(ToSet(table), e) : to.vkey = e.vkey /\ to.to = x.vkey
AllOrNone(pads, e) == \A j, k \in DOMAIN pads :
  Knows(pads[j]) /\ Knows(pads[k]) /\ Has(pads[j], e) => Has(pads[k], e)
Alone(table, e) == \A f \in PadEntries(table) :
  /\ f.vkey = e.vkey
  /\ \E x \in KeyedIn(ToSet(table), e), y \in KeyedIn(ToSet(table), f) : y.vkey = x.vkey
  => f.action = e.action

\* Whatever is played as the key of such an input was found for it.
LEMMA FallbackOwn ==
  ASSUME BindingsFit, NEW n \in Nat, NEW table, DOMAIN table = 1..n, RowsFit(ToSet(table)),
         NEW e \in PadEntries(table), NEW f \in PadEntries(table), Alone(table, e),
         NEW from, NEW to \in Fallback(table, f, from), NEW x \in KeyedIn(ToSet(table), e),
         to.vkey = e.vkey, to.to = x.vkey
  PROVE  f = e
<1>1. /\ to.vkey = f.vkey
      /\ to.to = "none" \/ \E y \in KeyedIn(ToSet(table), f) : to.to = y.vkey
  BY FallbackIs
<1>2. x.vkey \in KeyCodes /\ x.vkey # "none"
  BY DEF KeyedIn, RowsFit, Fitting, KeyCodes, BindingsFit, Pads
<1>3. \E y \in KeyedIn(ToSet(table), f) : y.vkey = x.vkey
  BY <1>1, <1>2
<1>4. f.action = e.action
  BY <1>1, <1>3 DEF Alone
<1> QED
  BY <1>4 DEF RowsFit, PadEntries

\* An action has one row for the controller.
LEMMA EntryOwn ==
  ASSUME NEW table, RowsFit(ToSet(table)),
         NEW e \in PadEntries(table), NEW f \in PadEntries(table), f.action = e.action
  PROVE  f = e
BY DEF RowsFit, PadEntries

\* An input that is played as a key has found one.
LEMMA AsKeysFind ==
  ASSUME BindingsFit, NEW n \in Nat, NEW table, DOMAIN table = 1..n, RowsFit(ToSet(table)),
         NEW these, NEW e \in PadEntries(table), e \in these, NEW s,
         AsKeysOf(table, these) \subseteq s.inputs, KeyedIn(ToSet(table), e) # {}
  PROVE  InputsHaveIt(table, s, e)
<1>1. FindsKey(table, e, "global")
  BY FallbackFinds
<1>2. Fallback(table, e, "global") \subseteq AsKeysOf(table, these)
  BY DEF AsKeysOf
<1> QED
  BY <1>1, <1>2 DEF InputsHaveIt, FindsKey

\* In each of the three outcomes the game plays the input or the injector does.
LEMMA PlayedOnce ==
  ASSUME BindingsFit, title \in Games,
         NEW n \in Nat, NEW table, DOMAIN table = 1..n, RowsFit(ToSet(table)),
         NEW pads, PadsFit(pads), SeenByStudio(pads),
         NEW e \in PadEntries(table), KeyedIn(ToSet(table), e) # {},
         FindsItsKey(e), AllOrNone(pads, e), Alone(table, e)
  PROVE  NativeHasIt(Shared(table, pads), e) <=> ~InputsHaveIt(table, Shared(table, pads), e)
<1> DEFINE s == Shared(table, pads)
           b == Bindings(table, pads)
<1>1. PICK c \in Nat : DOMAIN pads = 1..c
  BY DEF PadsFit
<1>2. \A k \in 1..c : pads[k] \in Pads \cup {"unknown"}
  BY <1>1 DEF PadsFit
<1>3. \/ AllAsKeys(table, pads, s)
      \/ ByTheGame(table, pads, s)
      \/ KnownAsKeys(table, pads, s)
  BY SharedIs
<1>4. /\ \A i \in DOMAIN b : \E k \in 1..c, f \in PadEntries(table) :
           Has(pads[k], f) /\ b[i] = Binding(k, pads[k], f)
      /\ \A k \in 1..c, f \in PadEntries(table) : Has(pads[k], f) =>
           \E i \in DOMAIN b : b[i] = Binding(k, pads[k], f)
  <2>1. BindingsAre(table, pads, c)
    BY <1>1, BindingsHave
  <2> QED
    BY <2>1 DEF BindingsAre
<1>5. \A k \in 1..c, f \in PadEntries(table) :
        /\ Binding(k, pads[k], f).entry = f /\ Binding(k, pads[k], f).pad = pads[k]
  BY DEF Binding
<1> HIDE DEF s, b
<1>6. CASE AllAsKeys(table, pads, s)
  <2>1. ~NativeHasIt(s, e)
    BY <1>6 DEF AllAsKeys, NativeHasIt
  <2>2. InputsHaveIt(table, s, e)
    BY <1>6, AsKeysFind DEF AllAsKeys
  <2> QED
    BY <2>1, <2>2 DEF s
<1>7. CASE KnownAsKeys(table, pads, s)
  <2>1. ~NativeHasIt(s, e)
    BY <1>7 DEF KnownAsKeys, NativeHasIt
  <2>2. PICK k \in 1..c : Knows(pads[k])
    BY <1>1, <1>7 DEF KnownAsKeys, SeenByStudio
  <2>3. CASE Has(pads[k], e)
    <3>1. PICK i \in DOMAIN b : b[i] = Binding(k, pads[k], e)
      BY <2>3, <1>4
    <3>2. e \in {x.entry : x \in ToSet(b)}
      BY <3>1, <1>5 DEF ToSet
    <3>3. AsKeysOf(table, {x.entry : x \in ToSet(b)}) \subseteq s.inputs
      BY <1>7 DEF KnownAsKeys, b
    <3> QED
      BY <2>1, <3>2, <3>3, AsKeysFind DEF s
  <2>4. CASE ~Has(pads[k], e)
    <3>1. e \in Unplayable(table, pads)
      BY <2>2, <2>4, <1>1 DEF Unplayable
    <3>2. AsKeysOf(table, Unplayable(table, pads)) \subseteq s.inputs
      BY <1>7 DEF KnownAsKeys
    <3> QED
      BY <2>1, <3>1, <3>2, AsKeysFind DEF s
  <2> QED
    BY <2>3, <2>4
<1>8. CASE ByTheGame(table, pads, s)
  <2>1. PICK k \in 1..c : Knows(pads[k])
    BY <1>1, <1>8 DEF ByTheGame, SeenByStudio
  <2>2. /\ \A i \in DOMAIN s.native : \E j \in 1..c, f \in PadEntries(table) :
             /\ Has(pads[j], f) /\ IsBindable(Binding(j, pads[j], f))
             /\ s.native[i].vkey = f.vkey /\ s.native[i].action = f.action
        /\ \A j \in 1..c, f \in PadEntries(table) :
             Has(pads[j], f) /\ IsBindable(Binding(j, pads[j], f)) =>
               \E i \in DOMAIN s.native : s.native[i].vkey = f.vkey /\ s.native[i].action = f.action
    <3>1. s.native = NativeOf(b)
      BY <1>8 DEF ByTheGame, b
    <3>2. /\ \A i \in DOMAIN s.native : \E j \in 1..c, f \in PadEntries(table) :
               /\ Has(pads[j], f) /\ IsBindable(Binding(j, pads[j], f))
               /\ s.native[i] = ArgOf(Binding(j, pads[j], f))
          /\ \A j \in 1..c, f \in PadEntries(table) :
               Has(pads[j], f) /\ IsBindable(Binding(j, pads[j], f)) =>
                 \E i \in DOMAIN s.native : s.native[i] = ArgOf(Binding(j, pads[j], f))
      <4>1. NativeIs(s.native, table, pads, c)
        BY <1>1, <3>1, NativeHas DEF b
      <4> QED
        BY <4>1 DEF NativeIs
    <3>3. \A j \in 1..c, f \in PadEntries(table) :
            LET x == ArgOf(Binding(j, pads[j], f)) IN x.vkey = f.vkey /\ x.action = f.action
      BY <1>5 DEF Arg, ArgOf
    <3>4. ASSUME NEW i \in DOMAIN s.native
          PROVE  \E j \in 1..c, f \in PadEntries(table) :
                   /\ Has(pads[j], f) /\ IsBindable(Binding(j, pads[j], f))
                   /\ s.native[i].vkey = f.vkey /\ s.native[i].action = f.action
      <4>1. PICK j \in 1..c, f \in PadEntries(table) :
              /\ Has(pads[j], f) /\ IsBindable(Binding(j, pads[j], f))
              /\ s.native[i] = ArgOf(Binding(j, pads[j], f))
        BY <3>2
      <4> QED
        BY <4>1, <3>3
    <3>5. ASSUME NEW j \in 1..c, NEW f \in PadEntries(table),
                 Has(pads[j], f), IsBindable(Binding(j, pads[j], f))
          PROVE  \E i \in DOMAIN s.native :
                   s.native[i].vkey = f.vkey /\ s.native[i].action = f.action
      <4>1. PICK i \in DOMAIN s.native : s.native[i] = ArgOf(Binding(j, pads[j], f))
        BY <3>2, <3>5
      <4> QED
        BY <4>1, <3>3
    <3> QED
      BY <3>4, <3>5
  <2>3. \A to \in s.inputs :
          \/ \E f \in Unplayable(table, pads) : to \in Fallback(table, f, "global")
          \/ \E x \in ToSet(b) : ~IsBindable(x) /\ to \in Fallback(table, x.entry, x.pad)
    BY <1>8 DEF ByTheGame, AsKeysOf, UnboundOf, b
  <2>4. \A j \in 1..c : Has(pads[j], e) =>
          IsBindable(Binding(j, pads[j], e)) \/ IsUnbindable(Binding(j, pads[j], e))
    BY <1>4, <1>8 DEF ByTheGame, AllBound, b
  <2>5. CASE ~Has(pads[k], e)
    <3>1. e \in Unplayable(table, pads)
      BY <2>1, <2>5, <1>1 DEF Unplayable
    <3>2. AsKeysOf(table, Unplayable(table, pads)) \subseteq s.inputs
      BY <1>8 DEF ByTheGame
    <3>3. InputsHaveIt(table, s, e)
      BY <3>1, <3>2, AsKeysFind
    <3>4. \A j \in 1..c : ~Has(pads[j], e)
      BY <2>1, <2>5, <1>1 DEF AllOrNone, Has
    <3>5. ~NativeHasIt(s, e)
      BY <2>2, <3>4, EntryOwn DEF NativeHasIt
    <3> QED
      BY <3>3, <3>5 DEF s
  <2>6. CASE Has(pads[k], e) /\ IsBindable(Binding(k, pads[k], e))
    <3>1. NativeHasIt(s, e)
      BY <2>2, <2>6 DEF NativeHasIt
    <3>2. ASSUME NEW to \in s.inputs, NEW x \in KeyedIn(ToSet(table), e),
                 to.vkey = e.vkey, to.to = x.vkey
          PROVE  FALSE
      <4>1. ASSUME NEW f \in Unplayable(table, pads), to \in Fallback(table, f, "global")
            PROVE  FALSE
        <5>1. f \in PadEntries(table)
          BY DEF Unplayable
        <5>2. f = e
          BY <5>1, <4>1, <3>2, FallbackOwn
        <5>3. PICK j \in 1..c : Knows(pads[j]) /\ ~Has(pads[j], e)
          BY <5>2, <1>1 DEF Unplayable
        <5> QED
          BY <5>3, <2>1, <2>6, <1>1 DEF AllOrNone
      <4>2. ASSUME NEW y \in ToSet(b), ~IsBindable(y), to \in Fallback(table, y.entry, y.pad)
            PROVE  FALSE
        <5>1. PICK j \in 1..c, f \in PadEntries(table) :
                Has(pads[j], f) /\ y = Binding(j, pads[j], f)
          BY <1>4 DEF ToSet
        <5>2. y.entry = f
          BY <5>1, <1>5
        <5>3. f = e
          BY <5>2, <4>2, <3>2, FallbackOwn
        <5>4. IsBindable(Binding(j, pads[j], e)) \/ IsUnbindable(Binding(j, pads[j], e))
          BY <5>1, <5>3, <2>4
        <5>5. IsBindable(Binding(j, pads[j], e))
          BY <5>4, <2>6, SameTaken
        <5> QED
          BY <5>1, <5>3, <5>5, <4>2
      <4> QED
        BY <4>1, <4>2, <2>3
    <3> QED
      BY <3>1, <3>2 DEF InputsHaveIt, s
  <2>7. CASE Has(pads[k], e) /\ ~IsBindable(Binding(k, pads[k], e))
    <3>1. ~NativeHasIt(s, e)
      <4> SUFFICES ASSUME NativeHasIt(s, e) PROVE FALSE
        OBVIOUS
      <4>1. PICK j \in 1..c, f \in PadEntries(table) :
              /\ Has(pads[j], f) /\ IsBindable(Binding(j, pads[j], f)) /\ f.action = e.action
        BY <2>2 DEF NativeHasIt
      <4>2. f = e
        BY <4>1, EntryOwn
      <4>3. IsBindable(Binding(k, pads[k], e)) \/ IsUnbindable(Binding(k, pads[k], e))
        BY <2>4, <2>7
      <4> QED
        BY <4>1, <4>2, <4>3, <2>7, SameTaken
    <3>2. PICK i \in DOMAIN b : b[i] = Binding(k, pads[k], e)
      BY <2>7, <1>4
    <3>3. Fallback(table, e, pads[k]) \subseteq s.inputs
      <4> DEFINE x == b[i]
      <4>1. x \in ToSet(b) /\ ~IsBindable(x) /\ x.entry = e /\ x.pad = pads[k]
        BY <3>2, <2>7, <1>5 DEF ToSet
      <4>2. UnboundOf(table, b) \subseteq s.inputs
        BY <1>8 DEF ByTheGame, b
      <4> HIDE DEF x
      <4> QED
        BY <4>1, <4>2 DEF UnboundOf
    <3>4. pads[k] \in Pads
      BY <2>1, <1>2 DEF Knows
    <3>5. FindsKey(table, e, pads[k])
      BY <3>4, FallbackFinds
    <3>6. InputsHaveIt(table, s, e)
      BY <3>3, <3>5 DEF InputsHaveIt, FindsKey
    <3> QED
      BY <3>1, <3>6 DEF s
  <2> QED
    BY <2>5, <2>6, <2>7
<1> QED
  BY <1>3, <1>6, <1>7, <1>8

-----------------------------------------------------------------------------
(* The names of the buttons, the keys and the axes.                        *)

\* What kind of hardware an input of a known controller is.
HardwareFits(pad, v, h) ==
  /\ h.type \in {"none", "button", "axis", "hat"}
  /\ h.type = "none" => h = NoHardware
  /\ h.type = "button" =>
       /\ h = [type |-> "button", index |-> h.index]
       /\ v \in Buttons \cup Triggers /\ h.index \in 0..11
       /\ v \in Triggers => pad # "xbox" /\ (pad # "joystick" => h.index \in {6, 7})
  /\ h.type = "hat" => v \in Dpad
  /\ h.type = "axis" => v \in Triggers \cup LeftStick \cup RightStick

\* The triggers in the order of the buttons of PlayStation controllers.
LEMMA TriggerButtons ==
  /\ Button(PlayStationOrder, "LT").index = 6
  /\ Button(PlayStationOrder, "RT").index = 7
<1>1. \A i \in 1..12 : PlayStationOrder[i] = "LT" <=> i = 7
  BY DEF PlayStationOrder
<1>2. \A i \in 1..12 : PlayStationOrder[i] = "RT" <=> i = 8
  BY DEF PlayStationOrder
<1>3. DOMAIN PlayStationOrder = 1..12
  BY DEF PlayStationOrder
<1>4. (CHOOSE i \in DOMAIN PlayStationOrder : PlayStationOrder[i] = "LT") = 7
  BY <1>1, <1>3
<1>5. (CHOOSE i \in DOMAIN PlayStationOrder : PlayStationOrder[i] = "RT") = 8
  BY <1>2, <1>3
<1> QED
  BY <1>4, <1>5 DEF Button

LEMMA ButtonIs ==
  ASSUME NEW order, NEW v
  PROVE  Button(order, v) = [type |-> "button", index |-> Button(order, v).index]
BY DEF Button

\* Every input of a known controller is hardware of the kind its name says.
LEMMA HardwareKinds ==
  ASSUME NEW pad \in Pads, NEW v \in PadInput, NEW x \in BOOLEAN
  PROVE  HardwareFits(pad, v, HardwareIndex(pad, v, x))
<1> DEFINE h == HardwareIndex(pad, v, x)
<1>1. h.index \in 0..11
  BY HardwareInRange
<1>2. \/ h = NoHardware
      \/ h = Hat /\ v \in Dpad
      \/ \E i : h = AxisAt(i) /\ v \in Triggers \cup LeftStick \cup RightStick
      \/ /\ \E order : h = Button(order, v)
         /\ v \in Buttons \cup Triggers /\ (v \in Triggers => pad # "xbox")
         /\ v \in Triggers /\ pad # "joystick" => h = Button(PlayStationOrder, v)
  <2>1. CASE pad = "xbox"
    BY <2>1 DEF HardwareIndex, XboxIndex, Stick, PadInput
  <2>2. CASE pad = "ps3"
    BY <2>2 DEF HardwareIndex, Ps3Index, Stick, PadInput
  <2>3. CASE pad = "ps4"
    BY <2>3 DEF HardwareIndex, Ps4Index, Ps3Index, Stick, PadInput
  <2>4. CASE pad = "joystick"
    BY <2>4 DEF HardwareIndex, JoystickIndex, Stick, PadInput
  <2> QED
    BY <2>1, <2>2, <2>3, <2>4 DEF Pads
<1> SUFFICES HardwareFits(pad, v, h)
  OBVIOUS
<1> HIDE DEF h
<1>3. CASE h = NoHardware
  BY <1>3 DEF NoHardware, HardwareFits
<1>4. CASE h = Hat /\ v \in Dpad
  BY <1>4 DEF Hat, HardwareFits
<1>5. CASE \E i : h = AxisAt(i) /\ v \in Triggers \cup LeftStick \cup RightStick
  BY <1>5 DEF AxisAt, HardwareFits
<1>6. CASE /\ \E order : h = Button(order, v)
           /\ v \in Buttons \cup Triggers /\ (v \in Triggers => pad # "xbox")
           /\ v \in Triggers /\ pad # "joystick" => h = Button(PlayStationOrder, v)
  <2>1. h = [type |-> "button", index |-> h.index]
    BY <1>6, ButtonIs
  <2>2. h.type = "button"
    BY <2>1
  <2>3. v \in Triggers /\ pad # "joystick" => h.index \in {6, 7}
    BY <1>6, TriggerButtons DEF Triggers
  <2> QED
    BY <1>1, <1>6, <2>1, <2>2, <2>3 DEF HardwareFits
<1> QED
  BY <1>2, <1>3, <1>4, <1>5, <1>6

\* The numbers of buttons are the same for winmm.
LEMMA WinmmKeeps ==
  ASSUME NEW hw, hw.type # "axis", NEW axes
  PROVE  Winmm(hw, axes) = hw
BY DEF Winmm

\* The name of a button is that of no other, and of nothing else.
LEMMA ButtonsNamed ==
  ASSUME NEW family \in Families, NEW i \in 0..11
  PROVE  /\ ButtonName(family, i) \in PadNames
         /\ \A j \in 0..11 : ButtonName(family, j) = ButtonName(family, i) => i = j
         /\ \A v \in Dpad : DpadName(family, v) # ButtonName(family, i)
         /\ ButtonName(family, i)[1] \in {"joy", "aux"}
<1>1. /\ \A x, y : Joy(x) = Joy(y) => x = y
      /\ \A x, y : Aux(x) = Aux(y) => x = y
      /\ \A x, y : Joy(x) # Aux(y)
  BY DEF Joy, Aux
<1>2. ASSUME NEW j \in 0..11
      PROVE  /\ family = "raven" => ButtonName(family, j) = Joy(j)
             /\ family = "quake 3" => ButtonName(family, j) = Joy(j + 1)
             /\ family \notin {"raven", "quake 3"} /\ j < 4 => ButtonName(family, j) = Joy(j + 1)
             /\ family \notin {"raven", "quake 3"} /\ ~(j < 4) => ButtonName(family, j) = Aux(j + 1)
  BY DEF ButtonName
<1>3. ButtonName(family, i) \in PadNames
  <2>1. /\ \A j \in 0..29 : Joy(j) \in PadNames
        /\ \A j \in 5..29 : Aux(j) \in PadNames
    BY DEF PadNames
  <2>2. i \in 0..29 /\ i + 1 \in 0..29 /\ (~(i < 4) => i + 1 \in 5..29)
    OBVIOUS
  <2> QED
    BY <1>2, <2>1, <2>2
<1>4. \A j \in 0..11 : ButtonName(family, j) = ButtonName(family, i) => i = j
  <2> TAKE j \in 0..11
  <2> HAVE ButtonName(family, j) = ButtonName(family, i)
  <2>1. CASE family = "raven"
    <3>1. Joy(j) = Joy(i)
      BY <1>2, <2>1
    <3> QED
      BY <1>1, <3>1
  <2>2. CASE family = "quake 3"
    <3>1. Joy(j + 1) = Joy(i + 1)
      BY <1>2, <2>2
    <3>2. j + 1 = i + 1
      BY <1>1, <3>1
    <3> QED
      BY <3>2
  <2>3. CASE family \notin {"raven", "quake 3"}
    <3> DEFINE J == j < 4
               I == i < 4
    <3>1. /\ J => ButtonName(family, j) = Joy(j + 1)
          /\ ~J => ButtonName(family, j) = Aux(j + 1)
          /\ I => ButtonName(family, i) = Joy(i + 1)
          /\ ~I => ButtonName(family, i) = Aux(i + 1)
      BY <1>2, <2>3
    <3> HIDE DEF J, I
    <3>2. j + 1 = i + 1
      <4>1. Joy(j + 1) = Joy(i + 1) \/ Aux(j + 1) = Aux(i + 1)
        BY <1>1, <3>1
      <4> QED
        BY <1>1, <4>1
    <3> QED
      BY <3>2
  <2> QED
    BY <2>1, <2>2, <2>3
<1>5. \A v \in Dpad : DpadName(family, v) # ButtonName(family, i)
  <2> TAKE v \in Dpad
  <2>1. Halves(family) => \E n \in 24..27 : DpadName(family, v) = Joy(n)
    <3>1. Halves(family) => DpadName(family, v) \in {Joy(24), Joy(25), Joy(27), Joy(26)}
      BY DEF DpadName, Dpad
    <3> QED
      BY <3>1
  <2>2. ~Halves(family) => family \notin {"raven", "quake 3"}
    BY DEF Halves
  <2>3. CASE ~Halves(family)
    <3>1. DpadName(family, v) = Aux(29)
      BY <2>3 DEF DpadName
    <3>2. CASE i < 4
      <4>1. ButtonName(family, i) = Joy(i + 1)
        BY <1>2, <2>2, <2>3, <3>2
      <4> QED
        BY <3>1, <4>1, <1>1
    <3>3. CASE ~(i < 4)
      <4>1. ButtonName(family, i) = Aux(i + 1)
        BY <1>2, <2>2, <2>3, <3>3
      <4>2. 29 # i + 1
        OBVIOUS
      <4> QED
        BY <3>1, <4>1, <4>2, <1>1
    <3> QED
      BY <3>2, <3>3
  <2>4. CASE Halves(family)
    <3>1. PICK n \in 24..27 : DpadName(family, v) = Joy(n)
      BY <2>1, <2>4
    <3>2. family \in {"raven", "quake 3"}
      BY <2>4 DEF Halves
    <3>3. \E m \in 0..12 : ButtonName(family, i) = Joy(m)
      <4>1. i \in 0..12 /\ i + 1 \in 0..12
        OBVIOUS
      <4> QED
        BY <3>2, <4>1, <1>2
    <3>4. PICK m \in 0..12 : ButtonName(family, i) = Joy(m)
      BY <3>3
    <3>5. m # n
      OBVIOUS
    <3> QED
      BY <3>1, <3>4, <3>5, <1>1
  <2> QED
    BY <2>3, <2>4
<1>6. ButtonName(family, i)[1] \in {"joy", "aux"}
  <2>1. ButtonName(family, i) \in {Joy(i), Joy(i + 1), Aux(i + 1)}
    BY DEF ButtonName
  <2> QED
    BY <2>1 DEF Joy, Aux
<1> QED
  BY <1>3, <1>4, <1>5, <1>6

\* Keys are bound by the rows of the keys, and by sticks where they press the arrows.
LEMMA KeyLines ==
  ASSUME NEW g, g.names \in Families, NEW a, NEW k, Line(g, a)[1] = Key(k),
         Halves(g.names) => k \notin ArrowKeys
  PROVE  a.vkey \notin PadInput /\ a.context = "keyboard" /\ a.vkey = k
<1>1. Key(k)[1] = "key" /\ Key(k)[2] = k /\ Key(k) # NoName
  BY DEF Key, NoName
<1>2. CASE a.vkey \notin PadInput
  <2>1. Line(g, a)[1] = IF a.context = "keyboard" THEN Key(a.vkey) ELSE NoName
    BY <1>2 DEF Line, PadInput
  <2> QED
    BY <1>1, <1>2, <2>1 DEF Key
<1>3. CASE a.vkey \in PadInput
  <2> DEFINE axis == AxisName(g.names, a.vkey, a.index)
  <2>1. axis # Key(k)
    <3>1. CASE Halves(g.names)
      BY <3>1, <1>1 DEF AxisName, AxisName3, Key, Joy, ArrowKeys
    <3>2. CASE ~Halves(g.names)
      BY <3>2, <1>1 DEF AxisName, AxisName2, Key, NoName
    <3> QED
      BY <3>1, <3>2
  <2>2. DpadName(g.names, a.vkey)[1] \in {"joy", "aux"}
    BY DEF DpadName, Joy, Aux
  <2>3. ButtonName(g.names, a.index)[1] \in {"joy", "aux"}
    BY DEF ButtonName, Joy, Aux
  <2> HIDE DEF axis
  <2>4. Line(g, a)[1] \in {axis, NoName, ButtonName(g.names, a.index)}
          \cup {DpadName(g.names, a.vkey)}
    BY <1>3 DEF Line, axis
  <2> QED
    BY <1>1, <2>1, <2>2, <2>3, <2>4
<1> QED
  BY <1>2, <1>3

\* A button's line has the button's name.
LEMMA ButtonLine ==
  ASSUME NEW g, g.names \in Families, NEW a, a.context \in Pads, a.vkey \in PadInput,
         NEW h, HardwareFits(a.context, a.vkey, h), h.type = "button", a.index = h.index,
         ~(a.context = "joystick" /\ a.vkey \in Triggers /\ ~Halves(g.names))
  PROVE  Line(g, a) = <<ButtonName(g.names, h.index), a.action>>
<1> DEFINE axis == AxisName(g.names, a.vkey, a.index)
<1>1. a.vkey \in Buttons \cup Triggers /\ h.index \in 0..11
  BY DEF HardwareFits
<1>2. a.vkey \notin Dpad
  BY <1>1 DEF Buttons, Triggers, Dpad
<1>3. CASE a.vkey \in Buttons
  <2>1. axis = NoName
    BY <1>3 DEF AxisName, AxisName2, AxisName3, Buttons, Triggers, LeftStick, RightStick
  <2>2. a.vkey \notin Triggers
    BY <1>3 DEF Buttons, Triggers
  <2> HIDE DEF axis
  <2> QED
    BY <2>1, <2>2, <1>2 DEF Line, axis
<1>4. CASE a.vkey \in Triggers
  <2>1. a.context # "xbox" /\ (a.context # "joystick" => a.index \in {6, 7})
    BY <1>4 DEF HardwareFits
  <2>2. CASE Halves(g.names)
    BY <2>1, <2>2, <1>2, <1>4 DEF Line
  <2>3. CASE ~Halves(g.names)
    <3>1. axis = NoName
      BY <2>1, <2>3, <1>4 DEF AxisName
    <3> HIDE DEF axis
    <3> QED
      BY <2>1, <3>1, <1>2 DEF Line, axis
  <2> QED
    BY <2>2, <2>3
<1> QED
  BY <1>1, <1>3, <1>4

\* The line of an axis that has a name has that name.
LEMMA AxisLine ==
  ASSUME NEW g, NEW a, a.vkey \in PadInput, ~(a.vkey \in Triggers /\ Halves(g.names)),
         AxisName(g.names, a.vkey, a.index) # NoName
  PROVE  Line(g, a)[1] = AxisName(g.names, a.vkey, a.index)
<1> DEFINE axis == AxisName(g.names, a.vkey, a.index)
           role == IF Halves(g.names) THEN a.action ELSE AxisRole(g, a.action)
<1>1. axis # NoName
  OBVIOUS
<1>2. a.vkey \notin Dpad
  BY DEF AxisName, AxisName2, AxisName3, Dpad, Triggers, LeftStick, RightStick
<1>3. Line(g, a) = <<axis, role>>
  BY <1>2 DEF Line
<1> HIDE DEF axis, role
<1>4. Line(g, a)[1] = axis
  BY <1>3
<1> QED
  BY <1>4 DEF axis

\* The line of another input that is not an axis has the name of a button only if it is one.
LEMMA OtherLine ==
  ASSUME NEW g, g.names \in Families, NEW a, a.context \in Pads, a.vkey \in PadInput,
         NEW h, HardwareFits(a.context, a.vkey, h), h.type \notin {"axis", "none"},
         h.type = "button" => a.index = h.index,
         NEW i \in 0..11, Line(g, a)[1] = ButtonName(g.names, i)
  PROVE  /\ h = [type |-> "button", index |-> i]
         /\ Line(g, a)[2] = a.action
<1> DEFINE axis == AxisName(g.names, a.vkey, a.index)
           B == ButtonName(g.names, i)
<1>1. B[1] \in {"joy", "aux"}
  BY ButtonsNamed
<1>2. CASE h.type = "hat"
  <2>1. a.vkey \in Dpad /\ a.vkey \notin Triggers
    BY <1>2 DEF HardwareFits, Dpad, Triggers
  <2>2. axis = NoName
    BY <2>1 DEF AxisName, AxisName2, AxisName3, Dpad, Triggers, LeftStick, RightStick
  <2> HIDE DEF axis
  <2>3. Line(g, a)[1] = DpadName(g.names, a.vkey)
    BY <2>1, <2>2 DEF Line, axis
  <2> QED
    BY <2>1, <2>3, ButtonsNamed
<1>3. CASE h.type = "button" /\ a.context = "joystick" /\ a.vkey \in Triggers /\ ~Halves(g.names)
  <2>1. axis \in {<<"axis", a.index>>, NoName}
    BY <1>3 DEF AxisName, AxisName2
  <2>3. CASE axis # NoName
    <3>1. axis = <<"axis", a.index>>
      BY <2>1, <2>3
    <3>2. Line(g, a)[1] = AxisName(g.names, a.vkey, a.index)
      BY <1>3, <2>3, AxisLine
    <3>3. Line(g, a)[1] = <<"axis", a.index>>
      BY <3>1, <3>2
    <3> QED
      BY <3>3, <1>1
  <2>4. CASE axis = NoName
    <3>1. a.vkey \notin Dpad
      BY <1>3 DEF Dpad, Triggers
    <3> HIDE DEF axis
    <3>2. Line(g, a) = <<ButtonName(g.names, h.index), a.action>>
      BY <2>4, <1>3, <3>1 DEF Line, axis
    <3>3. h.index = i /\ h = [type |-> "button", index |-> h.index]
      BY <3>2, <1>3, ButtonsNamed DEF HardwareFits
    <3> QED
      BY <3>2, <3>3
  <2> QED
    BY <2>3, <2>4
<1>4. CASE h.type = "button" /\ ~(a.context = "joystick" /\ a.vkey \in Triggers /\ ~Halves(g.names))
  <2>1. Line(g, a) = <<ButtonName(g.names, h.index), a.action>>
    BY <1>4, ButtonLine
  <2>2. h.index = i /\ h = [type |-> "button", index |-> h.index]
    BY <2>1, <1>4, ButtonsNamed DEF HardwareFits
  <2> QED
    BY <2>1, <2>2
<1>5. h.type \in {"button", "hat"}
  BY DEF HardwareFits
<1> QED
  BY <1>2, <1>3, <1>4, <1>5

\* How long a sequence of a known domain is.
LEMMA IsLong ==
  ASSUME NEW p \in Nat, NEW s, s = [i \in 1..p |-> s[i]]
  PROVE  Len(s) = p
OBVIOUS

-----------------------------------------------------------------------------
(* The file of a launch, and the binds after the game has run it.          *)

\* One sequence after the other.
LEMMA JoinedHas ==
  ASSUME NEW p \in Nat, NEW s, s = [i \in 1..p |-> s[i]],
         NEW q \in Nat, NEW t, t = [i \in 1..q |-> t[i]]
  PROVE  /\ DOMAIN (s \o t) = 1..(p + q)
         /\ \A i \in 1..p : (s \o t)[i] = s[i]
         /\ \A i \in 1..q : (s \o t)[p + i] = t[i]
<1> DEFINE S == {s[i] : i \in 1..p} \cup {t[i] : i \in 1..q}
<1>1. s \in Seq(S) /\ Len(s) = p
  <2>1. \A i \in 1..p : s[i] \in S
    OBVIOUS
  <2> HIDE DEF S
  <2> QED
    BY <2>1
<1>2. t \in Seq(S) /\ Len(t) = q
  <2>1. \A i \in 1..q : t[i] \in S
    OBVIOUS
  <2> HIDE DEF S
  <2> QED
    BY <2>1
<1> HIDE DEF S
<1> QED
  BY <1>1, <1>2

\* The last line for a name.
LastFor(lines, m, name, last) ==
  /\ last \in 1..m /\ lines[last][1] = name
  /\ \A i \in 1..m : lines[i][1] = name => i <= last

\* There is one if there is any, and Saved finds it.
LEMMA LastLine ==
  ASSUME NEW m \in Nat, NEW lines, lines = [i \in 1..m |-> lines[i]], NEW name, Saves(lines, name)
  PROVE  LastFor(lines, m, name, Saved(lines, name))
<1>1. Len(lines) = m /\ DOMAIN lines = 1..m
  BY IsLong
<1> DEFINE I == {i \in 1..m : lines[i][1] = name}
<1>2. I # {}
  BY <1>1 DEF Saves
<1>3. Saved(lines, name) = IF I # {} THEN Max(I) ELSE 0
  BY <1>1 DEF Saved, SelectLastInSeq
<1>4. I \in SUBSET (1..m)
  OBVIOUS
<1>5. Max(I) \in I /\ \A i \in I : i <= Max(I)
  <2> HIDE DEF I
  <2> QED
    BY <1>2, <1>4, MaxOf
<1>6. Saved(lines, name) = Max(I)
  BY <1>2, <1>3
<1>7. /\ Max(I) \in 1..m /\ lines[Max(I)][1] = name
      /\ \A i \in 1..m : lines[i][1] = name => i <= Max(I)
  BY <1>5
<1> QED
  BY <1>6, <1>7 DEF LastFor

\* What a game can be told of the inputs of the controllers.
NativeFit(native) ==
  \A i \in DOMAIN native :
    /\ native[i].context \in Pads /\ native[i].vkey \in PadInput
    /\ HardwareFits(native[i].context, native[i].vkey, HardwareOf(native[i]))
    /\ HardwareOf(native[i]).type # "none"
    /\ HardwareOf(native[i]).type = "button" => native[i].index = HardwareOf(native[i]).index

\* So the arguments of a launch are.
LEMMA ArgFits ==
  ASSUME NEW pad \in Pads, NEW e, e.vkey \in PadInput, Has(pad, e), NEW k, NEW a,
         a = ArgOf(Binding(k, pad, e))
  PROVE  /\ a.context \in Pads /\ a.vkey \in PadInput
         /\ HardwareFits(a.context, a.vkey, HardwareOf(a))
         /\ HardwareOf(a).type # "none"
         /\ HardwareOf(a).type = "button" => a.index = HardwareOf(a).index
<1>1. /\ a.context = pad /\ a.vkey = e.vkey /\ a.action = e.action
      /\ a.index = Winmm(IndexOn(pad, e), MappedAxes(pad)).index
  BY DEF ArgOf, Binding, Arg
<1> DEFINE x == IsAnalog(e.action)
           h == HardwareIndex(pad, e.vkey, x)
<1>2. HardwareOf(a) = h /\ IndexOn(pad, e) = h
  BY <1>1 DEF HardwareOf, IndexOn
<1>3. HardwareFits(pad, e.vkey, h)
  <2>1. x \in BOOLEAN
    BY DEF IsAnalog
  <2> HIDE DEF x
  <2> QED
    BY <2>1, HardwareKinds
<1> HIDE DEF h
<1>4. h.type # "none"
  BY <1>2, <1>3 DEF Has, HardwareFits
<1>5. h.type = "button" => a.index = h.index
  <2> HAVE h.type = "button"
  <2>1. Winmm(h, MappedAxes(pad)) = h
    BY WinmmKeeps
  <2> QED
    BY <1>1, <1>2, <2>1
<1> QED
  BY <1>1, <1>2, <1>3, <1>4, <1>5

\* And so is what each of the outcomes has the game play.
LEMMA SharedFits ==
  ASSUME NEW n \in Nat, NEW table, DOMAIN table = 1..n, NEW pads, PadsFit(pads)
  PROVE  /\ NativeFit(Shared(table, pads).native)
         /\ \E q \in Nat : Shared(table, pads).native =
                             [i \in 1..q |-> Shared(table, pads).native[i]]
<1> DEFINE native == Shared(table, pads).native
<1>1. PICK c \in Nat : DOMAIN pads = 1..c
  BY DEF PadsFit
<1>2. \A k \in 1..c : pads[k] \in Pads \cup {"unknown"}
  BY <1>1 DEF PadsFit
<1>3. native = <<>> \/ native = NativeOf(Bindings(table, pads))
  BY SharedIs DEF AllAsKeys, ByTheGame, KnownAsKeys
<1> HIDE DEF native
<1>4. CASE native = <<>>
  <2>1. DOMAIN native = {} /\ native = [i \in 1..0 |-> native[i]]
    BY <1>4
  <2> QED
    BY <2>1 DEF NativeFit, native
<1>5. CASE native = NativeOf(Bindings(table, pads))
  <2>1. NativeIs(native, table, pads, c)
    BY <1>1, <1>5, NativeHas
  <2>2. \E q \in Nat : native = [i \in 1..q |-> native[i]]
    BY <2>1 DEF NativeIs
  <2>3. ASSUME NEW i \in DOMAIN native
        PROVE  LET a == native[i]
               IN  /\ a.context \in Pads /\ a.vkey \in PadInput
                   /\ HardwareFits(a.context, a.vkey, HardwareOf(a))
                   /\ HardwareOf(a).type # "none"
                   /\ HardwareOf(a).type = "button" => a.index = HardwareOf(a).index
    <3> DEFINE a == native[i]
    <3>1. PICK k \in 1..c, e \in PadEntries(table) :
            Has(pads[k], e) /\ a = ArgOf(Binding(k, pads[k], e))
      BY <2>1 DEF NativeIs
    <3>2. pads[k] \in Pads /\ e.vkey \in PadInput
      BY <3>1, <1>2 DEF Has, Knows, PadEntries
    <3> HIDE DEF a
    <3>3. /\ a.context \in Pads /\ a.vkey \in PadInput
          /\ HardwareFits(a.context, a.vkey, HardwareOf(a))
          /\ HardwareOf(a).type # "none"
          /\ HardwareOf(a).type = "button" => a.index = HardwareOf(a).index
      BY <3>1, <3>2, ArgFits
    <3> QED
      BY <3>3 DEF a
  <2> QED
    BY <2>2, <2>3 DEF NativeFit, native
<1> QED
  BY <1>3, <1>4, <1>5

\* The places of the keys in a table of n entries.
KeyAt(table, n) == {i \in 1..n : table[i].context = "keyboard"}

\* The arguments of a launch: the rows of the keys and then the inputs the game plays.
Handed(table, n, native, handed, lines) ==
  \E p, q \in Nat :
    /\ DOMAIN handed = 1..(p + q) /\ lines = [i \in 1..(p + q) |-> lines[i]]
    /\ \A i \in 1..(p + q) : lines[i] = Line(title, handed[i])
    /\ DOMAIN native = 1..q /\ \A i \in 1..q : handed[p + i] = native[i]
    /\ \A i \in 1..p : \E x \in ToSet(table) : handed[i] = Arg(x, x.context, 0)
    /\ \A i \in (Len(Actions) + 2)..n : \E j \in 1..p : handed[j] = Arg(table[i], table[i].context, 0)

\* The arguments of a launch are those, and the file has a line for each.
LEMMA HandedOver ==
  ASSUME BindingsFit, NEW n \in Nat, NEW table, table = [i \in 1..n |-> table[i]],
         NEW pads, PadsFit(pads)
  PROVE  LET s == Shared(table, pads)
             handed == s.keys \o s.native
         IN  Handed(table, n, s.native, handed, SaveBindings(title, handed))
<1> DEFINE s == Shared(table, pads)
           keys == KeyArgs(table)
           native == s.native
           handed == s.keys \o s.native
           lines == SaveBindings(title, handed)
           N == Len(Actions)
           p == Cardinality(KeyRows(table))
           at == [i \in 1..p |-> table[i + N + 1]]
<1>1. N \in Nat
  BY DEF BindingsFit
<1>2. Len(table) = n /\ DOMAIN table = 1..n
  BY IsLong
<1>3. p \in Nat /\ (n >= N + 2 => p = n - N - 1) /\ (n < N + 2 => p = 0)
  <2>1. KeyRows(table) = (N + 2)..n
    BY <1>2 DEF KeyRows
  <2>2. IsFiniteSet((N + 2)..n) /\ Cardinality((N + 2)..n) = IF N + 2 > n THEN 0 ELSE n - (N + 2) + 1
    <3>1. N + 2 \in Int /\ n \in Int
      BY <1>1
    <3> DEFINE a == N + 2
    <3> HIDE DEF a
    <3>2. IsFiniteSet(a..n) /\ Cardinality(a..n) = IF a > n THEN 0 ELSE n - a + 1
      BY <3>1, FS_Interval DEF a
    <3> QED
      BY <3>2 DEF a
  <2>3. p = IF N + 2 > n THEN 0 ELSE n - (N + 2) + 1
    BY <2>1, <2>2
  <2> HIDE DEF p, N
  <2> QED
    BY <2>3, <1>1
<1>4. s.keys = keys
  BY SharedIs
<1>5. keys = [i \in 1..p |-> keys[i]] /\ \A i \in 1..p : keys[i] = Arg(at[i], at[i].context, 0)
  BY DEF KeyArgs
<1>6. PICK q \in Nat : native = [i \in 1..q |-> native[i]]
  BY ZenonT(30), <1>2, SharedFits
<1>7. handed = keys \o native
  BY <1>4
<1> HIDE DEF s, keys, handed, p, native
<1>8. /\ DOMAIN handed = 1..(p + q)
      /\ \A i \in 1..p : handed[i] = keys[i]
      /\ \A i \in 1..q : handed[p + i] = native[i]
  BY SMTT(20), <1>3, <1>5, <1>6, <1>7, JoinedHas
<1>9. lines = [i \in 1..(p + q) |-> lines[i]] /\ \A i \in 1..(p + q) : lines[i] = Line(title, handed[i])
  BY <1>8 DEF SaveBindings
<1>10. \A i \in 1..p : at[i] = table[i + N + 1] /\ i + N + 1 \in 1..n
  BY <1>1, <1>3
<1> HIDE DEF lines, at
<1>11. \A i \in 1..p : \E x \in ToSet(table) : handed[i] = Arg(x, x.context, 0)
  <2> TAKE i \in 1..p
  <2>1. at[i] \in ToSet(table)
    BY <1>2, <1>10 DEF ToSet
  <2> QED
    BY <2>1, <1>5, <1>8
<1>12. \A i \in (N + 2)..n : \E j \in 1..p : handed[j] = Arg(table[i], table[i].context, 0)
  <2> TAKE i \in (N + 2)..n
  <2> DEFINE j == i - N - 1
  <2>1. j \in 1..p /\ j + N + 1 = i
    BY SMTT(20), <1>1, <1>3
  <2> HIDE DEF j
  <2>2. at[j] = table[i]
    BY <2>1, <1>10
  <2> QED
    BY <2>1, <2>2, <1>5, <1>8
<1>13. DOMAIN native = 1..q
  BY <1>6
<1>14. Handed(table, n, native, handed, lines)
  <2> QED
    BY <1>3, <1>8, <1>9, <1>11, <1>12, <1>13 DEF Handed
<1> QED
  BY <1>14 DEF lines, handed, native, s

\* A file of bindings says nothing of a key but what a row says.
LEMMA NotCleared ==
  ASSUME BindingsFit, NEW g \in Games, NEW k
  PROVE  Key(k) \notin Cleared(g.clears)
<1>1. \A x, i : Key(k) # Joy(i) /\ Key(k) # Aux(i) /\ Key(k) # <<"axis", i>>
  BY DEF Key, Joy, Aux
<1>2. \A family, i : \E j : ButtonName(family, i) = Joy(j) \/ ButtonName(family, i) = Aux(j)
  BY DEF ButtonName
<1>3. \A family : Key(k) \notin ButtonNames(family)
  BY <1>1, <1>2 DEF ButtonNames
<1>4. Key(k) \notin AxisNames
  BY <1>1 DEF AxisNames
<1>5. g.clears \in Families \cup {"nothing"}
  BY DEF BindingsFit
<1> QED
  BY <1>1, <1>3, <1>4, <1>5 DEF Cleared, Families, Halves

\* A key does what it did before, if it has no row, or what one of its rows says.
KeyDoes(R, k, did, does) ==
  \/ /\ does = did
     /\ \A x \in R : ~(x.context = "keyboard" /\ x.vkey = k)
  \/ \E x \in R : x.context = "keyboard" /\ x.vkey = k /\ does = x.action

\* The keys, if the game runs the file of the launch.
LEMMA KeyRun ==
  ASSUME BindingsFit, title \in Games, NEW n \in Nat, NEW table, table = [i \in 1..n |-> table[i]],
         NEW native, NativeFit(native), NEW handed, NEW lines, Handed(table, n, native, handed, lines),
         NEW before, NEW k, FreeKey(k), Key(k) \in DOMAIN before, k \notin PadInput,
         \A i \in 1..n : table[i].context = "keyboard" => i >= Len(Actions) + 2
  PROVE  KeyDoes(ToSet(table), k, before[Key(k)], Run(title, before, lines)[Key(k)])
<1> DEFINE name == Key(k)
           does == Run(title, before, lines)[name]
<1>1. PICK p, q \in Nat :
        /\ DOMAIN handed = 1..(p + q) /\ lines = [i \in 1..(p + q) |-> lines[i]]
        /\ \A i \in 1..(p + q) : lines[i] = Line(title, handed[i])
        /\ DOMAIN native = 1..q /\ \A i \in 1..q : handed[p + i] = native[i]
        /\ \A i \in 1..p : \E x \in ToSet(table) : handed[i] = Arg(x, x.context, 0)
        /\ \A i \in (Len(Actions) + 2)..n : \E j \in 1..p :
             handed[j] = Arg(table[i], table[i].context, 0)
  BY DEF Handed
<1>2. does = IF Saves(lines, name) THEN lines[Saved(lines, name)][2] ELSE before[name]
  BY NotCleared DEF Run
<1>3. title.names \in Families
  BY DEF BindingsFit, FamiliesKnown
<1> HIDE DEF does
<1>4. CASE Saves(lines, name)
  <2> DEFINE i == Saved(lines, name)
  <2>1. i \in 1..(p + q) /\ lines[i][1] = name
    <3>1. p + q \in Nat
      OBVIOUS
    <3> DEFINE m == p + q
    <3>2. m \in Nat /\ lines = [j \in 1..m |-> lines[j]]
      BY <1>1, <3>1
    <3> HIDE DEF m, name
    <3>3. LastFor(lines, m, name, i)
      BY <3>2, <1>4, LastLine
    <3> QED
      BY <3>3 DEF LastFor, m
  <2> HIDE DEF i
  <2>2. Line(title, handed[i])[1] = Key(k)
    BY <1>1, <2>1
  <2>3. handed[i].vkey \notin PadInput /\ handed[i].context = "keyboard" /\ handed[i].vkey = k
    BY <1>3, <2>2, KeyLines DEF FreeKey
  <2>4. i \in 1..p
    <3>1. ASSUME i \notin 1..p PROVE FALSE
      <4>1. i - p \in 1..q /\ p + (i - p) = i
        BY <2>1, <3>1
      <4>2. handed[i] = native[i - p]
        BY <1>1, <4>1
      <4> QED
        BY <4>1, <4>2, <2>3, <1>1 DEF NativeFit
    <3> QED
      BY <3>1
  <2>5. PICK x \in ToSet(table) : handed[i] = Arg(x, x.context, 0)
    BY <1>1, <2>4
  <2>6. x.context = "keyboard" /\ x.vkey = k /\ handed[i].action = x.action
    BY <2>3, <2>5 DEF Arg
  <2>7. Line(title, handed[i])[2] = handed[i].action
    BY <2>3 DEF Line
  <2>8. does = x.action
    BY <1>1, <1>2, <1>4, <2>1, <2>6, <2>7 DEF i
  <2> QED
    BY <2>6, <2>8 DEF does, KeyDoes
<1>5. CASE ~Saves(lines, name)
  <2>1. does = before[name]
    BY <1>2, <1>5
  <2>2. ASSUME NEW x \in ToSet(table), x.context = "keyboard", x.vkey = k
        PROVE  FALSE
    <3>1. PICK i \in 1..n : x = table[i]
      BY DEF ToSet
    <3>2. i \in (Len(Actions) + 2)..n
      BY <2>2, <3>1 DEF BindingsFit
    <3>3. PICK j \in 1..p : handed[j] = Arg(x, x.context, 0)
      BY <1>1, <3>1, <3>2
    <3>4. handed[j].vkey = k /\ handed[j].context = "keyboard"
      BY <2>2, <3>3 DEF Arg
    <3>5. Line(title, handed[j])[1] = Key(k)
      <4>1. Line(title, handed[j]) = <<Key(k), handed[j].action>>
        BY <3>4 DEF Line, PadInput
      <4> QED
        BY <4>1
    <3>6. j \in DOMAIN lines /\ lines[j][1] = Key(k)
      BY <1>1, <3>5
    <3> QED
      BY <3>6, <1>5 DEF Saves
  <2> QED
    BY <2>1, <2>2 DEF does, KeyDoes
<1> QED
  BY <1>4, <1>5

\* ButtonsHold, of what the game plays and the binds after the launch.
ButtonsAfter(native, after) ==
  \A i \in DOMAIN native :
    LET a == native[i]
        name == ButtonName(title.names, HardwareOf(a).index)
    IN  /\ HardwareOf(a).type = "button" /\ ~TakenForAxis(a)
        /\ \A j \in DOMAIN native :
             HardwareOf(native[j]).type = "axis" => Line(title, native[j])[1] # name
        => \E j \in DOMAIN native :
             /\ HardwareOf(native[j]) = HardwareOf(a)
             /\ after[name] = native[j].action

\* The buttons, if it does.
LEMMA ButtonsRun ==
  ASSUME BindingsFit, title \in Games, title.first, NEW n \in Nat, NEW table,
         NEW native, NativeFit(native), NEW handed, NEW lines, Handed(table, n, native, handed, lines),
         NEW before, PadNames \subseteq DOMAIN before
  PROVE  ButtonsAfter(native, Run(title, before, lines))
<1>1. PICK p, q \in Nat :
        /\ DOMAIN handed = 1..(p + q) /\ lines = [i \in 1..(p + q) |-> lines[i]]
        /\ \A i \in 1..(p + q) : lines[i] = Line(title, handed[i])
        /\ DOMAIN native = 1..q /\ \A i \in 1..q : handed[p + i] = native[i]
  BY DEF Handed
<1>2. title.names \in Families
  BY DEF BindingsFit, FamiliesKnown
<1>3. \A i \in 1..q : p + i \in 1..(p + q) /\ lines[p + i] = Line(title, native[i])
  BY <1>1
<1> SUFFICES ASSUME NEW i \in 1..q, HardwareOf(native[i]).type = "button",
                    ~TakenForAxis(native[i]),
                    \A j \in DOMAIN native : HardwareOf(native[j]).type = "axis" =>
                      Line(title, native[j])[1]
                        # ButtonName(title.names, HardwareOf(native[i]).index)
             PROVE  \E j \in DOMAIN native :
                      /\ HardwareOf(native[j]) = HardwareOf(native[i])
                      /\ Run(title, before, lines)
                           [ButtonName(title.names, HardwareOf(native[i]).index)] = native[j].action
  BY <1>1 DEF ButtonsAfter
<1> DEFINE a == native[i]
           h == HardwareOf(a)
           name == ButtonName(title.names, h.index)
           last == Saved(lines, name)
<1>4. /\ a.context \in Pads /\ a.vkey \in PadInput /\ HardwareFits(a.context, a.vkey, h)
      /\ h.type = "button" /\ a.index = h.index
  BY <1>1 DEF NativeFit
<1>5. h = [type |-> "button", index |-> h.index] /\ h.index \in 0..11
  BY <1>4 DEF HardwareFits
<1>6. ~(a.context = "joystick" /\ a.vkey \in Triggers /\ ~Halves(title.names))
  BY DEF TakenForAxis
<1> HIDE DEF a, h
<1>7. Line(title, a) = <<name, a.action>>
  BY <1>2, <1>4, <1>6, ButtonLine
<1>8. name \in PadNames
  BY <1>2, <1>5, ButtonsNamed
<1>9. Saves(lines, name)
  <2>1. p + i \in DOMAIN lines /\ lines[p + i] = <<name, a.action>>
    BY <1>1, <1>3, <1>7 DEF a
  <2> QED
    BY <2>1 DEF Saves
<1>10. Run(title, before, lines)[name] = lines[last][2]
  BY <1>8, <1>9 DEF Run
<1>11. /\ last \in 1..(p + q) /\ lines[last][1] = name
       /\ \A k \in 1..(p + q) : lines[k][1] = name => k <= last
  <2> DEFINE m == p + q
  <2>1. m \in Nat /\ lines = [k \in 1..m |-> lines[k]]
    BY <1>1
  <2> HIDE DEF m, name
  <2>2. LastFor(lines, m, name, last)
    BY <2>1, <1>9, LastLine
  <2> QED
    BY <2>2 DEF LastFor, m
<1> HIDE DEF last
<1>12. last >= p + i
  BY <1>3, <1>7, <1>11 DEF a
<1> DEFINE j == last - p
           b == native[j]
<1>13. j \in 1..q /\ p + j = last
  BY <1>11, <1>12
<1>14. Line(title, b)[1] = name /\ lines[last] = Line(title, b)
  BY <1>3, <1>11, <1>13
<1>15. j \in DOMAIN native
  BY <1>1, <1>13
<1> HIDE DEF j
<1>16. HardwareOf(b).type # "axis"
  BY <1>14, <1>15 DEF name, h, a
<1>17. /\ b.context \in Pads /\ b.vkey \in PadInput
       /\ HardwareFits(b.context, b.vkey, HardwareOf(b))
       /\ HardwareOf(b).type \notin {"axis", "none"}
       /\ HardwareOf(b).type = "button" => b.index = HardwareOf(b).index
  BY <1>15, <1>16 DEF NativeFit
<1> HIDE DEF b
<1>18. HardwareOf(b) = [type |-> "button", index |-> h.index] /\ Line(title, b)[2] = b.action
  BY <1>2, <1>5, <1>14, <1>17, OtherLine
<1>19. HardwareOf(b) = h /\ Run(title, before, lines)[name] = b.action
  BY <1>5, <1>10, <1>14, <1>18
<1> QED
  BY <1>15, <1>19 DEF a, b, h, name

\* One sequence after the other is a sequence of what they have.
LEMMA JoinedIs ==
  ASSUME NEW p \in Nat, NEW s, s = [i \in 1..p |-> s[i]],
         NEW q \in Nat, NEW t, t = [i \in 1..q |-> t[i]]
  PROVE  s \o t = [i \in 1..(p + q) |-> (s \o t)[i]]
<1> DEFINE S == {s[i] : i \in 1..p} \cup {t[i] : i \in 1..q}
<1>1. s \in Seq(S) /\ Len(s) = p
  <2>1. \A i \in 1..p : s[i] \in S
    OBVIOUS
  <2> HIDE DEF S
  <2> QED
    BY <2>1
<1>2. t \in Seq(S) /\ Len(t) = q
  <2>1. \A i \in 1..q : t[i] \in S
    OBVIOUS
  <2> HIDE DEF S
  <2> QED
    BY <2>1
<1> HIDE DEF S
<1>3. s \o t \in Seq(S) /\ Len(s \o t) = p + q
  BY <1>1, <1>2
<1> QED
  BY <1>3

-----------------------------------------------------------------------------
(* The table as the view opens.                                            *)

\* A row is a record of these three.
IsRow(x) == x = [vkey |-> x.vkey, context |-> x.context, action |-> x.action]

\* A row of the keys.
KeyRow(x) ==
  /\ IsRow(x)
  /\ \/ x.context = "keyboard" /\ x.vkey \in ToSet(Keys) \cup NewKeys
     \/ x.context = "mouse" /\ x.vkey \in KeyCodes
     \/ x.context = "global" /\ x.vkey = "none"

\* A row of a key that the player's own file binds says what the file says.
ReadsOwn(g, file, x) ==
  "keys" \in g.own /\ file # <<>> /\ x.context = "keyboard" => x.action = file[x.vkey]

\* What RowsFor reads: a row for each key that does something.
LEMMA RowsForHas ==
  ASSUME BindingsFit, NEW g, NEW file \in KeptFiles, NEW kinds, NEW keys \in Seq(STRING),
         ToSet(keys) \subseteq DOMAIN Usual,
         (kinds = "keys" /\ keys = Keys) \/ (kinds = "mouse" /\ keys = MouseButtons),
         NEW context, context = IF kinds = "keys" THEN "keyboard" ELSE "mouse"
  PROVE  LET r == RowsFor(g, file, kinds, context, keys)
         IN  /\ \E p \in Nat : r = [i \in 1..p |-> r[i]]
             /\ \A i \in DOMAIN r : /\ KeyRow(r[i]) /\ r[i].context # "global"
                                    /\ ReadsOwn(g, file, r[i])
<1> DEFINE r == RowsFor(g, file, kinds, context, keys)
           Action(i) == ReadBind(g, file, kinds, keys[i])
           s == [i \in DOMAIN keys |-> Entry(keys[i], context, Action(i))]
           n == Len(keys)
           places == {i \in DOMAIN keys : Action(i) # "none"}
<1>1. n \in Nat /\ DOMAIN keys = 1..n
  OBVIOUS
<1>2. \A i \in 1..n : keys[i] \in ToSet(keys) /\ keys[i] \in DOMAIN Usual
  BY <1>1 DEF ToSet
<1>4. \A i \in 1..n : kinds \in g.own /\ file # <<>> => Action(i) = file[keys[i]]
  BY DEF ReadBind
<1> HIDE DEF n, Action
<1>5. r = Picked(s, places)
  BY DEF RowsFor, Action
<1>6. places \in SUBSET (1..n)
  BY <1>1
<1>7. ASSUME NEW i \in 1..n
      PROVE  /\ KeyRow(s[i]) /\ s[i].context # "global"
             /\ ReadsOwn(g, file, s[i])
  <2>1. s[i] = Entry(keys[i], context, Action(i))
    BY <1>1
  <2> HIDE DEF s
  <2>2. s[i].vkey = keys[i] /\ s[i].context = context /\ s[i].action = Action(i) /\ IsRow(s[i])
    BY <2>1 DEF Entry, IsRow
  <2>3. keys[i] \in ToSet(keys)
    BY <1>2
  <2>4. KeyRow(s[i])
    BY <2>2, <2>3 DEF KeyRow, KeyCodes
  <2> QED
    BY <1>4, <2>2, <2>4 DEF ReadsOwn
<1> HIDE DEF s, places
<1>8. DOMAIN r = 1..Cardinality(places) /\ Cardinality(places) \in Nat
      /\ \A i \in DOMAIN r : \E j \in places : r[i] = s[j]
  <2>1. n \in Nat
    BY <1>1
  <2>2. /\ DOMAIN Picked(s, places) = 1..Cardinality(places) /\ Cardinality(places) \in Nat
        /\ \A i \in DOMAIN Picked(s, places) : \E j \in places : Picked(s, places)[i] = s[j]
    BY <2>1, <1>6, PickedHas
  <2> QED
    BY <2>2, <1>5
<1>9. r = [i \in 1..Cardinality(places) |-> r[i]]
  <2>1. \E f : r = [i \in DOMAIN InOrder(places, Upwards(places)) |-> f[i]]
    <3> DEFINE o == InOrder(places, Upwards(places))
    <3>1. r = [i \in DOMAIN o |-> s[o[i]]]
      BY <1>5 DEF Picked
    <3> QED
      BY <3>1
  <2> QED
    BY <2>1, <1>8
<1>10. \A i \in DOMAIN r : KeyRow(r[i]) /\ r[i].context # "global" /\ ReadsOwn(g, file, r[i])
  BY <1>6, <1>7, <1>8
<1> HIDE DEF r
<1>11. \E p \in Nat : r = [i \in 1..p |-> r[i]]
  BY <1>8, <1>9
<1> QED
  BY <1>10, <1>11 DEF r

\* The rows of the keys as the view opens.
KeysAre(t, g, file) ==
  /\ \E p \in Nat : t = [i \in 1..p |-> t[i]]
  /\ \A i \in DOMAIN t : KeyRow(t[i]) /\ ReadsOwn(g, file, t[i])
  /\ \A i, j \in DOMAIN t : t[i].context = "global" /\ t[j].action = t[i].action => i = j

\* LoadKeyboardMouseConfigs gives such rows, and a row for an action without a key.
LEMMA KeysLoaded ==
  ASSUME BindingsFit, NEW g, NEW file \in KeptFiles
  PROVE  KeysAre(LoadKeyboardMouseConfigs(g, file), g, file)
<1> DEFINE IsBound(x) == KeyRow(x) /\ x.context # "global" /\ ReadsOwn(g, file, x)
           keys == RowsFor(g, file, "keys", "keyboard", Keys)
           mouse == RowsFor(g, file, "mouse", "mouse", MouseButtons)
           axes == [i \in DOMAIN MouseAxes |-> Entry(MouseAxes[i], "mouse", Usual[MouseAxes[i]])]
           two == keys \o mouse
           bound == two \o axes
           places == {i \in DOMAIN Actions : \A j \in DOMAIN bound : bound[j].action # Actions[i]}
           idle == Picked(Actions, places)
           rest == [i \in DOMAIN idle |-> Entry("none", "global", idle[i])]
           all == bound \o rest
<1>1. all = LoadKeyboardMouseConfigs(g, file)
  BY DEF LoadKeyboardMouseConfigs
<1>2. DOMAIN Usual = ToSet(Keys) \cup ToSet(MouseButtons) \cup ToSet(MouseAxes)
  BY DEF BindingsFit
<1>3. /\ \E p \in Nat : keys = [i \in 1..p |-> keys[i]]
      /\ \A i \in DOMAIN keys : IsBound(keys[i])
  <2>1. Keys \in Seq(STRING) /\ ToSet(Keys) \subseteq DOMAIN Usual
    BY <1>2 DEF BindingsFit
  <2> QED
    BY <2>1, RowsForHas
<1>4. /\ \E p \in Nat : mouse = [i \in 1..p |-> mouse[i]]
      /\ \A i \in DOMAIN mouse : IsBound(mouse[i])
  <2>1. MouseButtons \in Seq(STRING) /\ ToSet(MouseButtons) \subseteq DOMAIN Usual
    BY <1>2 DEF BindingsFit
  <2> QED
    BY <2>1, RowsForHas
<1>5. /\ \E p \in Nat : axes = [i \in 1..p |-> axes[i]]
      /\ \A i \in DOMAIN axes : IsBound(axes[i])
  <2>1. Len(MouseAxes) \in Nat /\ DOMAIN MouseAxes = 1..Len(MouseAxes)
    BY DEF BindingsFit
  <2>2. \E p \in Nat : axes = [i \in 1..p |-> axes[i]]
    BY <2>1
  <2>3. ASSUME NEW i \in DOMAIN axes
        PROVE  IsBound(axes[i])
    <3>1. axes[i] = Entry(MouseAxes[i], "mouse", Usual[MouseAxes[i]]) /\ MouseAxes[i] \in ToSet(MouseAxes)
      BY DEF ToSet
    <3> HIDE DEF axes
    <3> QED
      BY <3>1 DEF Entry, KeyRow, IsRow, ReadsOwn, KeyCodes
  <2> QED
    BY <2>2, <2>3
<1> HIDE DEF keys, mouse, axes, IsBound
<1>6. PICK p \in Nat : keys = [i \in 1..p |-> keys[i]]
  BY <1>3
<1>7. PICK q \in Nat : mouse = [i \in 1..q |-> mouse[i]]
  BY <1>4
<1>8. PICK r \in Nat : axes = [i \in 1..r |-> axes[i]]
  BY <1>5
<1>9. /\ DOMAIN two = 1..(p + q) /\ two = [i \in 1..(p + q) |-> two[i]]
      /\ \A i \in 1..p : two[i] = keys[i]
      /\ \A i \in 1..q : two[p + i] = mouse[i]
  BY SMTT(20), <1>6, <1>7, JoinedHas, JoinedIs
<1>10. \A i \in 1..(p + q) : IsBound(two[i])
  <2> TAKE i \in 1..(p + q)
  <2>1. CASE i <= p
    BY <2>1, <1>3, <1>6, <1>9
  <2>2. CASE ~(i <= p)
    <3>1. i - p \in 1..q /\ p + (i - p) = i
      BY <2>2
    <3>2. two[i] = mouse[i - p]
      BY <3>1, <1>9
    <3> QED
      BY <3>1, <3>2, <1>4, <1>7
  <2> QED
    BY <2>1, <2>2
<1> DEFINE m == p + q
<1>11. m \in Nat /\ two = [i \in 1..m |-> two[i]] /\ \A i \in 1..m : IsBound(two[i])
  BY <1>9, <1>10
<1> HIDE DEF m, two
<1>12. /\ DOMAIN bound = 1..(m + r) /\ bound = [i \in 1..(m + r) |-> bound[i]]
       /\ \A i \in 1..m : bound[i] = two[i]
       /\ \A i \in 1..r : bound[m + i] = axes[i]
  BY SMTT(20), <1>8, <1>11, JoinedHas, JoinedIs
<1>13. \A i \in 1..(m + r) : IsBound(bound[i])
  <2> TAKE i \in 1..(m + r)
  <2>1. CASE i <= m
    BY <2>1, <1>11, <1>12
  <2>2. CASE ~(i <= m)
    <3>1. i - m \in 1..r /\ m + (i - m) = i
      BY <2>2, <1>11
    <3>2. bound[i] = axes[i - m]
      BY <3>1, <1>12
    <3> QED
      BY <3>1, <3>2, <1>5, <1>8
  <2> QED
    BY <2>1, <2>2
<1> DEFINE n == m + r
<1>14. n \in Nat /\ DOMAIN bound = 1..n /\ bound = [i \in 1..n |-> bound[i]]
       /\ \A i \in 1..n : IsBound(bound[i])
  BY SMTT(20), <1>11, <1>12, <1>13
<1> HIDE DEF n, bound
<1>15. /\ places \in SUBSET (1..Len(Actions)) /\ Len(Actions) \in Nat
       /\ \A i, j \in places : Actions[i] = Actions[j] => i = j
       /\ \A i \in places, j \in 1..n : bound[j].action # Actions[i]
  BY <1>14 DEF BindingsFit
<1> HIDE DEF places
<1>16. /\ DOMAIN idle = 1..Cardinality(places) /\ Cardinality(places) \in Nat
       /\ \A i \in DOMAIN idle : \E j \in places : idle[i] = Actions[j]
       /\ \A i, j \in DOMAIN idle : idle[i] = idle[j] => i = j
  <2> DEFINE c == Len(Actions)
  <2>1. c \in Nat /\ places \in SUBSET (1..c)
    BY <1>15
  <2> HIDE DEF c
  <2>2. /\ DOMAIN idle = 1..Cardinality(places) /\ Cardinality(places) \in Nat
        /\ \A i \in DOMAIN idle : \E j \in places : idle[i] = Actions[j]
    BY <2>1, PickedHas
  <2>3. \A i, j \in DOMAIN idle : idle[i] = idle[j] => i = j
    BY <2>1, <1>15, PickedOnce
  <2> QED
    BY <2>2, <2>3
<1> DEFINE z == Cardinality(places)
<1>17. /\ z \in Nat /\ rest = [i \in 1..z |-> rest[i]]
       /\ \A i \in 1..z : rest[i] = Entry("none", "global", idle[i])
  BY <1>16
<1>18. /\ \A i \in 1..z, j \in 1..n : bound[j].action # idle[i]
       /\ \A i, j \in 1..z : idle[i] = idle[j] => i = j
  BY <1>15, <1>16
<1> HIDE DEF z, idle, rest
<1>19. \A i \in 1..z : /\ rest[i].vkey = "none" /\ rest[i].context = "global" /\ rest[i].action = idle[i]
                       /\ IsRow(rest[i])
  BY <1>17 DEF Entry, IsRow
<1>20. /\ DOMAIN all = 1..(n + z) /\ all = [i \in 1..(n + z) |-> all[i]]
       /\ \A i \in 1..n : all[i] = bound[i]
       /\ \A i \in 1..z : all[n + i] = rest[i]
  BY SMTT(20), <1>14, <1>17, JoinedHas, JoinedIs
<1> HIDE DEF all
<1>21. \A i \in 1..(n + z) : i > n => i - n \in 1..z /\ all[i] = rest[i - n]
  <2> TAKE i \in 1..(n + z)
  <2> HAVE i > n
  <2>1. i - n \in 1..z /\ n + (i - n) = i
    BY <1>14, <1>17
  <2> QED
    BY <2>1, <1>20
<1>22. \A i \in 1..(n + z) : i <= n => i \in 1..n /\ all[i] = bound[i]
  <2>1. n \in Nat /\ z \in Nat
    BY <1>14, <1>17
  <2> TAKE i \in 1..(n + z)
  <2> HAVE i <= n
  <2>2. i \in 1..n
    BY <2>1
  <2> QED
    BY <2>2, <1>20
<1>23. ASSUME NEW i \in DOMAIN all
       PROVE  KeyRow(all[i]) /\ ReadsOwn(g, file, all[i])
  <2>1. CASE i <= n
    BY <2>1, <1>14, <1>20, <1>22 DEF IsBound
  <2>2. CASE i > n
    BY <2>2, <1>19, <1>20, <1>21 DEF KeyRow, ReadsOwn
  <2> QED
    BY <2>1, <2>2, <1>14, <1>17, <1>20
<1>24. ASSUME NEW i \in DOMAIN all, NEW j \in DOMAIN all,
              all[i].context = "global", all[j].action = all[i].action
       PROVE  i = j
  <2>1. i > n
    <3>1. CASE i <= n
      BY <3>1, <1>14, <1>20, <1>22, <1>24 DEF IsBound
    <3> QED
      BY <3>1, <1>14, <1>17, <1>20
  <2>2. i - n \in 1..z /\ all[i].action = idle[i - n]
    BY <2>1, <1>19, <1>20, <1>21
  <2>3. CASE j <= n
    <3>1. j \in 1..n /\ all[j] = bound[j]
      BY <2>3, <1>20, <1>22
    <3> QED
      BY <2>2, <3>1, <1>18, <1>24
  <2>4. CASE j > n
    <3>1. j - n \in 1..z /\ all[j].action = idle[j - n]
      BY <2>4, <1>19, <1>20, <1>21
    <3>2. i - n = j - n
      BY <2>2, <3>1, <1>18, <1>24
    <3> QED
      BY <3>2, <1>14, <1>17, <1>20
  <2> QED
    BY <2>3, <2>4, <1>14, <1>17, <1>20
<1>25. n + z \in Nat
  BY <1>14, <1>17
<1> QED
  BY <1>1, <1>20, <1>23, <1>24, <1>25 DEF KeysAre

\* What the tables show: the dummy, a row of the controller for each action, and the keys.
PadRow(x, action) ==
  /\ IsRow(x) /\ x.action = action
  /\ \/ x.context = "global" /\ x.vkey \in PadInput \cup {"none"}
     \/ x.context \in Pads /\ x.vkey \in PadInput
TableFits(t) ==
  /\ \E m \in Nat : m >= Len(Actions) + 1 /\ t = [i \in 1..m |-> t[i]]
  /\ t[1] = Entry("none", "global", Actions[1])
  /\ \A i \in PadRows : PadRow(t[i], Actions[i - 1])
  /\ \A i \in DOMAIN t : i > Len(Actions) + 1 => KeyRow(t[i])
  /\ \A i, j \in DOMAIN t :
       /\ i > Len(Actions) + 1 /\ j > Len(Actions) + 1
       /\ t[i].context = "global" /\ t[j].action = t[i].action
       => i = j
\* The keys say what the player's file says.
KeysReadOwn(t, g, file) == \A x \in ToSet(t) : ReadsOwn(g, file, x)

\* The table fits as the view opens.
LEMMA TableOpens ==
  ASSUME BindingsFit, NEW g \in Games, NEW file \in KeptFiles
  PROVE  TableFits(Table(g, file)) /\ KeysReadOwn(Table(g, file), g, file)
<1> DEFINE N == Len(Actions)
           dummy == Entry("none", "global", Actions[1])
           one == <<dummy>>
           inputs == [i \in DOMAIN Actions |->
                        Entry(DefaultInput(g, Actions[i]), "global", Actions[i])]
           keys == LoadKeyboardMouseConfigs(g, file)
           two == one \o inputs
           all == two \o keys
<1>1. all = Table(g, file)
  BY DEF Table
<1>2. N \in Nat /\ DOMAIN Actions = 1..N
  BY DEF BindingsFit
<1>3. one = [i \in 1..1 |-> one[i]] /\ one[1] = dummy
  OBVIOUS
<1>4. inputs = [i \in 1..N |-> inputs[i]]
      /\ \A i \in 1..N : inputs[i] = Entry(DefaultInput(g, Actions[i]), "global", Actions[i])
  BY <1>2
<1>5. KeysAre(keys, g, file)
  BY KeysLoaded
<1>6. PICK p \in Nat : keys = [i \in 1..p |-> keys[i]]
  BY <1>5 DEF KeysAre
<1> HIDE DEF N, one, inputs, keys, dummy
<1>7. /\ DOMAIN two = 1..(1 + N) /\ two = [i \in 1..(1 + N) |-> two[i]]
      /\ \A i \in 1..1 : two[i] = one[i]
      /\ \A i \in 1..N : two[1 + i] = inputs[i]
  <2>1. 1 \in Nat
    OBVIOUS
  <2> QED
    BY <1>2, <1>3, <1>4, <2>1, JoinedHas, JoinedIs
<1> DEFINE m == 1 + N
<1>8. m \in Nat /\ m = N + 1 /\ m >= 1
  BY <1>2
<1>9. /\ two = [i \in 1..m |-> two[i]]
      /\ two[1] = dummy
      /\ \A i \in 1..N : two[1 + i] = inputs[i]
  <2>1. 1 \in 1..1
    OBVIOUS
  <2> QED
    BY <2>1, <1>3, <1>7
<1> HIDE DEF m, two
<1>10. /\ DOMAIN all = 1..(m + p) /\ all = [i \in 1..(m + p) |-> all[i]]
       /\ \A i \in 1..m : all[i] = two[i]
       /\ \A i \in 1..p : all[m + i] = keys[i]
  BY SMTT(20), <1>6, <1>8, <1>9, JoinedHas, JoinedIs
<1> HIDE DEF all
<1>11. all[1] = dummy
  <2>1. 1 \in 1..m
    BY <1>8
  <2> QED
    BY <2>1, <1>9, <1>10
<1>12. ASSUME NEW i \in PadRows
       PROVE  all[i] = Entry(DefaultInput(g, Actions[i - 1]), "global", Actions[i - 1])
  <2>1. i - 1 \in 1..N /\ 1 + (i - 1) = i /\ i \in 1..m
    BY <1>2, <1>8 DEF PadRows, N
  <2>2. two[i] = inputs[i - 1]
    BY <2>1, <1>9
  <2> QED
    BY <2>1, <2>2, <1>4, <1>10
<1>13. \A action : DefaultInput(g, action) \in PadInput \cup {"none"}
  BY DEF DefaultInput, BindingsFit
<1>14. \A i \in PadRows : PadRow(all[i], Actions[i - 1]) /\ all[i].context = "global"
  <2> TAKE i \in PadRows
  <2> DEFINE v == DefaultInput(g, Actions[i - 1])
             a == Actions[i - 1]
  <2>1. all[i] = Entry(v, "global", a) /\ v \in PadInput \cup {"none"}
    BY <1>12, <1>13
  <2> HIDE DEF v, a
  <2>2. all[i].vkey = v /\ all[i].context = "global" /\ all[i].action = a /\ IsRow(all[i])
    BY <2>1 DEF Entry, IsRow
  <2> QED
    BY <2>1, <2>2 DEF PadRow, a
<1>15. \A i \in 1..(m + p) : i > N + 1 => i - m \in 1..p /\ all[i] = keys[i - m]
  <2> TAKE i \in 1..(m + p)
  <2> HAVE i > N + 1
  <2>1. i - m \in 1..p /\ m + (i - m) = i
    BY <1>2, <1>8
  <2> QED
    BY <2>1, <1>10
<1>16. DOMAIN keys = 1..p
  BY <1>6
<1>17. \A i \in DOMAIN all : i > N + 1 => KeyRow(all[i]) /\ ReadsOwn(g, file, all[i])
  BY <1>5, <1>10, <1>15, <1>16 DEF KeysAre
<1>18. ASSUME NEW i \in DOMAIN all, NEW j \in DOMAIN all, i > N + 1, j > N + 1,
              all[i].context = "global", all[j].action = all[i].action
       PROVE  i = j
  <2>1. i - m = j - m
    BY <1>5, <1>10, <1>15, <1>16, <1>18 DEF KeysAre
  <2> QED
    BY <2>1, <1>8, <1>10
<1>19. TableFits(all)
  <2>1. m + p \in Nat /\ m + p >= N + 1
    BY <1>2, <1>8
  <2> QED
    BY <2>1, <1>10, <1>11, <1>14, <1>17, <1>18 DEF TableFits, N, dummy
<1>20. KeysReadOwn(all, g, file)
  <2>1. ASSUME NEW i \in DOMAIN all
        PROVE  ReadsOwn(g, file, all[i])
    <3>1. CASE i > N + 1
      BY <3>1, <1>17
    <3>2. CASE i = 1
      BY <3>2, <1>11 DEF Entry, ReadsOwn, dummy
    <3>3. CASE i \in PadRows
      BY <3>3, <1>14 DEF ReadsOwn
    <3>4. i > N + 1 \/ i = 1 \/ i \in PadRows
      BY <1>2, <1>8, <1>10 DEF PadRows, N
    <3> QED
      BY <3>1, <3>2, <3>3, <3>4
  <2> QED
    BY <2>1 DEF KeysReadOwn, ToSet
<1> QED
  BY <1>1, <1>19, <1>20

\* The rows of such a table fit.
LEMMA RowsOfTable ==
  ASSUME BindingsFit, NEW t, TableFits(t)
  PROVE  RowsFit(ToSet(t))
<1> DEFINE N == Len(Actions)
           Pad(i) == i \in PadRows
           At1(i) == i = 1
           Low(i) == i > N + 1
<1>1. PICK m \in Nat : m >= N + 1 /\ t = [i \in 1..m |-> t[i]]
  BY DEF TableFits
<1>2. N \in Nat /\ DOMAIN Actions = 1..N /\ DOMAIN t = 1..m
  BY <1>1 DEF BindingsFit
<1>3. \A i \in 1..m : At1(i) \/ Pad(i) \/ Low(i)
  BY <1>2 DEF PadRows
<1>4. \A i \in 1..m : At1(i) => t[i].vkey = "none" /\ t[i].context = "global" /\ t[i].action = Actions[1]
  BY DEF TableFits, Entry
<1>5. \A i \in 1..m : Pad(i) =>
        /\ t[i].action = Actions[i - 1]
        /\ \/ t[i].context = "global" /\ t[i].vkey \in PadInput \cup {"none"}
           \/ t[i].context \in Pads /\ t[i].vkey \in PadInput
  BY DEF TableFits, PadRow
<1>6. \A i \in 1..m : Low(i) =>
        \/ t[i].context = "keyboard" /\ t[i].vkey \in ToSet(Keys) \cup NewKeys
        \/ t[i].context = "mouse" /\ t[i].vkey \in KeyCodes
        \/ t[i].context = "global" /\ t[i].vkey = "none"
  BY <1>2 DEF TableFits, KeyRow
<1>7. \A i, j \in 1..m : Low(i) /\ Low(j) /\ t[i].context = "global" /\ t[j].action = t[i].action => i = j
  BY <1>2 DEF TableFits
<1>8. \A i, j : Pad(i) /\ Pad(j) /\ Actions[i - 1] = Actions[j - 1] => i = j
  <2>1. \A i : Pad(i) => i \in Int /\ i - 1 \in DOMAIN Actions
    BY <1>2 DEF PadRows
  <2>2. \A i, j : Pad(i) /\ Pad(j) /\ Actions[i - 1] = Actions[j - 1] => i - 1 = j - 1
    <3> HIDE DEF Pad
    <3> QED
      BY <2>1 DEF BindingsFit
  <2> HIDE DEF Pad
  <2> QED
    BY <2>1, <2>2
<1>9. /\ \A k \in ToSet(Keys) \cup NewKeys \cup KeyCodes : k \notin PadInput /\ k # "none"
      /\ "none" \notin PadInput
  BY DEF BindingsFit, KeyCodes, PadInput, Dpad, Triggers, LeftStick, RightStick, Buttons
<1>10. "keyboard" \notin Pads /\ "mouse" \notin Pads /\ "global" \notin Pads
  BY DEF Pads
<1>11. \A x \in ToSet(t) : \E i \in 1..m : x = t[i]
  BY <1>2 DEF ToSet
<1> HIDE DEF Pad, At1, Low, N
<1>12. \A i \in 1..m : t[i].vkey \in PadInput => Pad(i)
  BY <1>3, <1>4, <1>6, <1>9
<1>13. \A i \in 1..m : t[i].context \in {"keyboard", "mouse"} => Low(i)
  BY <1>3, <1>4, <1>5, <1>10
<1>14. \A i \in 1..m : Fitting(t[i])
  BY <1>3, <1>4, <1>5, <1>6 DEF Fitting
<1>15. \A x \in ToSet(t) : Fitting(x)
  BY <1>11, <1>14
<1>16. ASSUME NEW x \in ToSet(t), NEW y \in ToSet(t),
              x.vkey \in PadInput, y.vkey \in PadInput, x.action = y.action
       PROVE  x = y
  <2>1. PICK i \in 1..m : x = t[i]
    BY <1>11
  <2>2. PICK j \in 1..m : y = t[j]
    BY <1>11
  <2>3. Pad(i) /\ Pad(j)
    BY <1>12, <1>16, <2>1, <2>2
  <2>4. i = j
    BY <1>5, <1>8, <1>16, <2>1, <2>2, <2>3
  <2> QED
    BY <2>1, <2>2, <2>4
<1>17. ASSUME NEW x \in ToSet(t), NEW e \in ToSet(t), x.vkey = "none", e.vkey \in PadInput,
              x.action = e.action, KeyedIn(ToSet(t), e) # {}
       PROVE  e.action = Actions[1]
  <2>1. PICK i \in 1..m : x = t[i]
    BY <1>11
  <2>2. PICK j \in 1..m : e = t[j]
    BY <1>11
  <2>3. PICK y \in ToSet(t) : y.action = e.action /\ y.context \in {"keyboard", "mouse"}
    BY <1>17 DEF KeyedIn
  <2>4. PICK k \in 1..m : y = t[k]
    BY <1>11
  <2>5. Low(k)
    BY <1>13, <2>3, <2>4
  <2>6. CASE At1(i)
    BY <2>6, <1>4, <1>17, <2>1
  <2>7. CASE Pad(i)
    <3>1. Pad(j)
      BY <1>12, <1>17, <2>2
    <3>2. i = j
      BY <3>1, <2>7, <1>5, <1>8, <1>17, <2>1, <2>2
    <3> QED
      BY <3>2, <1>9, <1>17, <2>1, <2>2
  <2>8. CASE Low(i)
    <3>1. t[i].context = "global"
      BY <2>8, <1>6, <1>9, <1>17, <2>1
    <3>2. i = k
      BY <3>1, <2>1, <2>3, <2>4, <2>5, <2>8, <1>7, <1>17
    <3> QED
      BY <3>1, <3>2, <2>3, <2>4
  <2> QED
    BY <2>6, <2>7, <2>8, <1>3
<1> QED
  BY <1>15, <1>16, <1>17 DEF RowsFit

-----------------------------------------------------------------------------
(* The steps of the user and the launch.                                   *)

\* What the user changes of a row.
Changed(t, u, i, v, c) == u = [t EXCEPT ![i].vkey = v, ![i].context = c]
\* A change touches one row, and neither its action nor its shape.
LEMMA RowChanged ==
  ASSUME NEW m \in Nat, NEW t, t = [j \in 1..m |-> t[j]], NEW i, NEW v, NEW c, NEW u,
         Changed(t, u, i, v, c), \A j \in 1..m : IsRow(t[j])
  PROVE  /\ u = [j \in 1..m |-> u[j]]
         /\ \A j \in 1..m : j # i => u[j] = t[j]
         /\ i \in 1..m => u[i] = [vkey |-> v, context |-> c, action |-> t[i].action]
<1>1. u = [j \in 1..m |-> u[j]] /\ \A j \in 1..m : j # i => u[j] = t[j]
  BY DEF Changed
<1>2. ASSUME i \in 1..m
      PROVE  u[i] = [vkey |-> v, context |-> c, action |-> t[i].action]
  <2> DEFINE x == t[i]
  <2>1. x = [vkey |-> x.vkey, context |-> x.context, action |-> x.action]
    BY <1>2 DEF IsRow
  <2>2. u[i] = [[x EXCEPT !.vkey = v] EXCEPT !.context = c]
    BY <1>2 DEF Changed
  <2> HIDE DEF x
  <2>3. u[i] = [vkey |-> v, context |-> c, action |-> x.action]
    BY <2>1, <2>2
  <2> QED
    BY <2>3 DEF x
<1> QED
  BY <1>1, <1>2

\* What the view knows: rows, and no key before its table.
EntriesFit ==
  /\ \E m \in Nat : entries = [i \in 1..m |-> entries[i]]
  /\ \A i \in DOMAIN entries :
       IsRow(entries[i]) /\ (entries[i].context = "keyboard" => i > Len(Actions) + 1)

\* The keys of a player who has changed nothing.
OwnKeysHold ==
  edits = 0 /\ "keys" \in title.own /\ kept # <<>> =>
    \A k \in ToSet(Keys) : FreeKey(k) => binds[Key(k)] = kept[k]

\* The inductive invariant, with PlayedAsChosen itself.
Chosen ==
  /\ title \in Games /\ kept \in KeptFiles /\ edits \in Nat
  /\ TableFits(shown) /\ EntriesFit
  /\ edits = 0 => KeysReadOwn(entries, title, kept)
  /\ DOMAIN binds = PadNames \cup KeyNames
  /\ OwnKeysHold

\* The names of keys are no names of the controller.
LEMMA KeysAreNames ==
  ASSUME BindingsFit, NEW k \in ToSet(Keys) \cup NewKeys
  PROVE  /\ Key(k) \in KeyNames /\ k \notin PadInput
         /\ \A n \in PadNames : n # Key(k)
<1>1. Key(k) \in KeyNames
  BY DEF KeyNames
<1>2. k \notin PadInput
  BY DEF BindingsFit, KeyCodes
<1>3. \A n \in PadNames : n # Key(k)
  BY DEF PadNames, AxisNames, Key, Joy, Aux
<1> QED
  BY <1>1, <1>2, <1>3

LEMMA ChosenInit == ASSUME BindingsFit, BindingsInit PROVE Chosen /\ PlayedAsChosen
<1>1. /\ title \in Games /\ kept \in KeptFiles /\ edits = 0
      /\ shown = Table(title, kept) /\ entries = Table(title, kept)
      /\ binds = InitialBinds(kept)
  BY DEF BindingsInit
<1>2. TableFits(shown) /\ KeysReadOwn(entries, title, kept)
  BY <1>1, TableOpens
<1>3. EntriesFit
  <2>1. TableFits(entries)
    BY <1>1, <1>2
  <2>2. PICK m \in Nat : m >= Len(Actions) + 1 /\ entries = [i \in 1..m |-> entries[i]]
    BY <2>1 DEF TableFits
  <2>3. ASSUME NEW i \in DOMAIN entries
        PROVE  IsRow(entries[i]) /\ (entries[i].context = "keyboard" => i > Len(Actions) + 1)
    <3>1. CASE i > Len(Actions) + 1
      BY <3>1, <2>1 DEF TableFits, KeyRow
    <3>2. CASE i = 1
      BY <3>2, <2>1 DEF TableFits, Entry, IsRow
    <3>3. CASE i \in PadRows
      BY <3>3, <2>1 DEF TableFits, PadRow, Pads
    <3>4. i > Len(Actions) + 1 \/ i = 1 \/ i \in PadRows
      BY <2>2 DEF PadRows, BindingsFit
    <3> QED
      BY <3>1, <3>2, <3>3, <3>4
  <2> QED
    BY <2>2, <2>3 DEF EntriesFit
<1>4. DOMAIN binds = PadNames \cup KeyNames
  BY <1>1 DEF InitialBinds
<1>5. OwnKeysHold
  <2> SUFFICES ASSUME kept # <<>>, NEW k \in ToSet(Keys) PROVE binds[Key(k)] = kept[k]
    BY DEF OwnKeysHold
  <2>1. Key(k) \in KeyNames /\ Key(k) \notin PadNames /\ Key(k)[2] = k
    BY KeysAreNames DEF Key
  <2> QED
    BY <1>1, <2>1 DEF InitialBinds
<1>6. PlayedAsChosen
  BY DEF BindingsInit, NotPlayed, PlayedAsChosen
<1> QED
  BY <1>1, <1>2, <1>3, <1>4, <1>5, <1>6 DEF Chosen

\* The two ways of the user: an input for a row of the controller, or a key for one of the keys.
UserChanges(i, v, c) == ChangeRow(i, Entry(v, c, ""))
MayChange(i, v, c) ==
  \/ i \in PadRows /\ v \in PadInput /\ c \in Pads
  \/ i > Len(Actions) + 1 /\ c = "keyboard" /\ v \in NewKeys
  \/ i > Len(Actions) + 1 /\ c = "mouse" /\ v \in KeyCodes

\* A change is not a launch, and leaves the tables fitting.
LEMMA ChosenChange ==
  ASSUME BindingsFit, Chosen, NEW i \in Nat, NEW v, NEW c, UserChanges(i, v, c),
         MayChange(i, v, c)
  PROVE  Chosen' /\ PlayedAsChosen'
<1> DEFINE N == Len(Actions)
<1>1. /\ edits' = edits + 1 /\ played' = NotPlayed /\ UNCHANGED <<title, kept, binds>>
      /\ Changed(entries, entries', i, v, c) /\ Changed(shown, shown', i, v, c)
  BY DEF UserChanges, ChangeRow, Entry, Changed
<1>2. edits' \in Nat /\ edits' # 0
  <2>1. edits \in Nat
    BY DEF Chosen
  <2>2. edits' = edits + 1
    BY <1>1
  <2> QED
    BY <2>1, <2>2
<1>3. /\ N \in Nat /\ PadRows = 2..(N + 1)
      /\ "keyboard" \notin Pads /\ "global" \notin Pads
  <2>1. N \in Nat
    BY DEF BindingsFit
  <2> QED
    BY <2>1 DEF PadRows, Pads
<1>4. TableFits(shown)'
  <2>1. PICK m \in Nat : m >= N + 1 /\ shown = [j \in 1..m |-> shown[j]]
    BY DEF Chosen, TableFits
  <2>2. \A j \in 1..m : j = 1 \/ j \in PadRows \/ j > N + 1
    BY <1>3
  <2>3. \A j \in 1..m : IsRow(shown[j])
    <3>1. IsRow(shown[1])
      BY DEF Chosen, TableFits, Entry, IsRow
    <3> QED
      BY <2>1, <2>2, <3>1 DEF Chosen, TableFits, PadRow, KeyRow
  <2>4. /\ shown' = [j \in 1..m |-> shown'[j]]
        /\ \A j \in 1..m : j # i => shown'[j] = shown[j]
        /\ i \in 1..m => shown'[i] = [vkey |-> v, context |-> c, action |-> shown[i].action]
    BY <1>1, <2>1, <2>3, RowChanged
  <2>5. i # 1 /\ 1 \in 1..m
    BY <1>3, <2>1 DEF MayChange
  <2>6. shown'[1] = Entry("none", "global", Actions[1])
    BY <2>4, <2>5 DEF Chosen, TableFits
  <2>7. ASSUME NEW j \in PadRows
        PROVE  PadRow(shown'[j], Actions[j - 1])
    <3>1. j \in 1..m /\ ~(j > N + 1)
      BY <1>3, <2>1
    <3>2. PadRow(shown[j], Actions[j - 1])
      BY DEF Chosen, TableFits
    <3>3. CASE j # i
      BY <3>1, <3>2, <3>3, <2>4
    <3>4. CASE j = i
      BY <1>3, <3>1, <3>2, <3>4, <2>4 DEF PadRow, IsRow, MayChange
    <3> QED
      BY <3>3, <3>4
  <2>8. ASSUME NEW j \in 1..m, j > N + 1
        PROVE  /\ KeyRow(shown'[j]) /\ shown'[j].action = shown[j].action
               /\ shown'[j].context = "global" => shown[j].context = "global"
    <3>1. KeyRow(shown[j])
      BY <2>1, <2>8 DEF Chosen, TableFits
    <3>2. CASE j # i
      BY <3>1, <3>2, <2>4
    <3>3. CASE j = i
      <4>1. i \notin PadRows
        BY <1>3, <2>8, <3>3
      <4> QED
        BY <3>3, <4>1, <2>4 DEF KeyRow, IsRow, MayChange
    <3> QED
      BY <3>2, <3>3
  <2>9. ASSUME NEW j \in 1..m, NEW k \in 1..m, j > N + 1, k > N + 1,
               shown'[j].context = "global", shown'[k].action = shown'[j].action
        PROVE  j = k
    <3>1. shown[j].context = "global" /\ shown[k].action = shown[j].action
      BY <2>8, <2>9
    <3> QED
      BY <3>1, <2>1, <2>9 DEF Chosen, TableFits
  <2>10. DOMAIN shown' = 1..m
    BY <2>4
  <2> QED
    BY <2>1, <2>4, <2>6, <2>7, <2>8, <2>9, <2>10 DEF TableFits
<1>5. EntriesFit'
  <2>1. PICK m \in Nat : entries = [j \in 1..m |-> entries[j]]
    BY DEF Chosen, EntriesFit
  <2>2. \A j \in 1..m : IsRow(entries[j]) /\ (entries[j].context = "keyboard" => j > N + 1)
    BY <2>1 DEF Chosen, EntriesFit
  <2>3. /\ entries' = [j \in 1..m |-> entries'[j]]
        /\ \A j \in 1..m : j # i => entries'[j] = entries[j]
        /\ i \in 1..m => entries'[i] = [vkey |-> v, context |-> c, action |-> entries[i].action]
    BY <1>1, <2>1, <2>2, RowChanged
  <2>4. ASSUME NEW j \in 1..m
        PROVE  IsRow(entries'[j]) /\ (entries'[j].context = "keyboard" => j > N + 1)
    <3>1. CASE j # i
      BY <3>1, <2>2, <2>3
    <3>2. CASE j = i
      BY <3>2, <1>3, <2>3 DEF IsRow, MayChange
    <3> QED
      BY <3>1, <3>2
  <2>5. DOMAIN entries' = 1..m
    BY <2>3
  <2> QED
    BY <2>3, <2>4, <2>5 DEF EntriesFit
<1>6. OwnKeysHold'
  BY <1>2 DEF OwnKeysHold
<1>7. PlayedAsChosen'
  BY <1>1 DEF PlayedAsChosen, NotPlayed
<1> QED
  BY <1>1, <1>2, <1>4, <1>5, <1>6, <1>7 DEF Chosen

\* A launch: what it hands over, the binds after it, and the tables as they were.
LEMMA ChosenHandOver ==
  ASSUME BindingsFit, Chosen, NEW pads \in Plugged, HandOver(pads)
  PROVE  Chosen' /\ PlayedAsChosen'
<1> DEFINE N == Len(Actions)
           T == Partitioned(entries)
           shared == Shared(T, pads)
           native == shared.native
           handed == shared.keys \o native
           lines == SaveBindings(title, handed)
<1>1. /\ entries' = T /\ UNCHANGED <<title, kept, shown, edits>>
      /\ played' = [shared EXCEPT !.look = LookInputs(title, handed)]
      /\ title.runs => binds' = Run(title, binds, lines)
      /\ ~title.runs => binds' = binds
  BY DEF HandOver
<1>2. /\ played'.done /\ played'.pads = pads
      /\ played'.native = native /\ played'.inputs = shared.inputs
  <2>1. shared = [done |-> TRUE, pads |-> pads, keys |-> KeyArgs(T), native |-> shared.native,
                  inputs |-> shared.inputs, look |-> {}]
    BY SharedIs
  <2> HIDE DEF shared, lines, handed, T
  <2> QED
    BY <2>1, <1>1
<1>3. PadsFit(pads)
  BY DEF BindingsFit, PadsFit
<1>4. PICK m \in Nat : entries = [i \in 1..m |-> entries[i]]
  BY DEF Chosen, EntriesFit
<1>5. DOMAIN entries = 1..m
  BY <1>4
<1>6. /\ DOMAIN T = 1..m /\ T = [i \in 1..m |-> T[i]]
      /\ \A i \in 1..m : \E j \in 1..m :
           T[i] = entries[j] /\ (entries[j].context = "keyboard" => j <= i)
      /\ \A j \in 1..m : \E i \in 1..m : T[i] = entries[j]
  <2>1. Moved(entries, T, m)
    BY <1>5, PartitionedHas
  <2> HIDE DEF T
  <2> QED
    BY <2>1 DEF Moved
<1>7. N \in Nat /\ title \in Games /\ kept \in KeptFiles
  BY DEF BindingsFit, Chosen
<1>8. NativeFit(native) /\ Handed(T, m, native, handed, lines)
  <2> HIDE DEF T
  <2>1. Handed(T, m, Shared(T, pads).native, Shared(T, pads).keys \o Shared(T, pads).native,
               SaveBindings(title, Shared(T, pads).keys \o Shared(T, pads).native))
    BY <1>3, <1>6, HandedOver
  <2> QED
    BY <1>3, <1>6, <2>1, SharedFits
<1>9. \A i \in 1..m : IsRow(T[i]) /\ (T[i].context = "keyboard" => i > N + 1)
  <2> TAKE i \in 1..m
  <2>1. PICK j \in 1..m : T[i] = entries[j] /\ (entries[j].context = "keyboard" => j <= i)
    BY <1>6
  <2>2. IsRow(entries[j]) /\ (entries[j].context = "keyboard" => j > N + 1)
    BY <1>5 DEF Chosen, EntriesFit
  <2> HIDE DEF T
  <2>3. IsRow(T[i])
    BY <2>1, <2>2
  <2>4. T[i].context = "keyboard" => j <= i /\ j > N + 1
    BY <2>1, <2>2
  <2>5. j <= i /\ j > N + 1 => i > N + 1
    BY <1>7
  <2> QED
    BY <2>3, <2>4, <2>5
<1>10. ToSet(T) = ToSet(entries)
  BY <1>5, <1>6 DEF ToSet
<1>11. EntriesFit'
  BY <1>1, <1>6, <1>9 DEF EntriesFit
<1>12. edits' = 0 => KeysReadOwn(entries', title', kept')
  BY <1>1, <1>10 DEF Chosen, KeysReadOwn
<1>13. DOMAIN binds' = PadNames \cup KeyNames
  <2> HIDE DEF lines
  <2>1. DOMAIN Run(title, binds, lines) = DOMAIN binds
    BY DEF Run
  <2> QED
    BY <1>1, <2>1 DEF Chosen
<1> HIDE DEF T, shared, native, handed, lines
<1>14. ASSUME title.runs, NEW k \in ToSet(Keys) \cup NewKeys, FreeKey(k)
       PROVE  \/ /\ binds'[Key(k)] = binds[Key(k)]
                 /\ \A x \in ToSet(T) : ~(x.context = "keyboard" /\ x.vkey = k)
              \/ \E x \in ToSet(T) :
                   x.context = "keyboard" /\ x.vkey = k /\ binds'[Key(k)] = x.action
  <2>1. Key(k) \in DOMAIN binds /\ k \notin PadInput
    BY KeysAreNames DEF Chosen
  <2>2. \A i \in 1..m : T[i].context = "keyboard" => i >= Len(Actions) + 2
    BY <1>7, <1>9
  <2>3. KeyDoes(ToSet(T), k, binds[Key(k)], Run(title, binds, lines)[Key(k)])
    BY <1>6, <1>7, <1>8, <1>14, <2>1, <2>2, KeyRun
  <2> QED
    BY <1>1, <1>14, <2>3 DEF KeyDoes
<1>15. OwnKeysHold'
  <2> SUFFICES ASSUME edits = 0, "keys" \in title.own, kept # <<>>,
                      NEW k \in ToSet(Keys), FreeKey(k)
               PROVE  binds'[Key(k)] = kept[k]
    BY <1>1 DEF OwnKeysHold, FreeKey
  <2>1. binds[Key(k)] = kept[k]
    BY DEF Chosen, OwnKeysHold
  <2>2. \A x \in ToSet(T) : x.context = "keyboard" /\ x.vkey = k => x.action = kept[k]
    BY <1>10 DEF Chosen, KeysReadOwn, ReadsOwn
  <2> QED
    BY <1>1, <1>14, <2>1, <2>2
<1>16. Chosen'
  BY <1>1, <1>11, <1>12, <1>13, <1>15 DEF Chosen
<1>17. ASSUME ToSet(shown) = ToSet(T)
       PROVE  InputsPlayedOnce' /\ (title.runs => KeysHold')
  <2>1. RowsFit(ToSet(T))
    BY <1>17, RowsOfTable DEF Chosen
  <2>2. InputsPlayedOnce'
    <3> SUFFICES ASSUME SeenByStudio(pads), NEW e \in PadEntries(T),
                        KeyedIn(ToSet(T), e) # {}, FindsItsKey(e), AllOrNone(pads, e), Alone(T, e)
                 PROVE  NativeHasIt(shared, e) <=> ~InputsHaveIt(T, shared, e)
      <4>1. \A e : Keyed(e)' = KeyedIn(ToSet(T), e)
        BY <1>1 DEF Keyed, KeyedIn
      <4>2. \A e : OnAllOrNone(e)' <=> AllOrNone(pads, e)
        BY <1>2 DEF OnAllOrNone, AllOrNone
      <4>3. \A e : HasKeyOfItsOwn(e)' <=> Alone(T, e)
        BY <1>1, <4>1 DEF HasKeyOfItsOwn, Alone
      <4>4. \A e : PlayedByGame(e)' <=> NativeHasIt(shared, e)
        BY <1>2 DEF PlayedByGame, NativeHasIt, native
      <4>5. \A e : PlayedAsKey(e)' <=> InputsHaveIt(T, shared, e)
        BY <1>2, <4>1 DEF PlayedAsKey, InputsHaveIt
      <4> QED
        BY <1>1, <1>2, <4>1, <4>2, <4>3, <4>4, <4>5 DEF InputsPlayedOnce
    <3> QED
      BY <1>3, <1>6, <1>7, <2>1, PlayedOnce DEF shared
  <2>3. ASSUME title.runs PROVE KeysHold'
    <3>1. ASSUME NEW e \in ToSet(T), e.context = "keyboard", FreeKey(e.vkey)
          PROVE  \E x \in ToSet(T) : x.context = "keyboard" /\ x.vkey = e.vkey
                                     /\ binds'[Key(e.vkey)] = x.action
      <4>1. e.vkey \in ToSet(Keys) \cup NewKeys
        BY <2>1, <3>1 DEF RowsFit, Fitting, Pads
      <4> QED
        BY <4>1, <1>14, <2>3, <3>1
    <3>2. "keys" \in title'.own /\ kept' # <<>> /\ edits' = 0
            => \A k \in ToSet(Keys) : FreeKey(k)' => binds'[Key(k)] = kept'[k]
      BY <1>15 DEF OwnKeysHold
    <3>3. \A k : FreeKey(k)' <=> FreeKey(k)
      BY <1>1 DEF FreeKey
    <3> QED
      BY <1>1, <3>1, <3>2, <3>3 DEF KeysHold
  <2> QED
    BY <2>2, <2>3
<1>18. ASSUME title.runs PROVE ButtonsHold'
  <2>1. title.first => ButtonsAfter(native, binds')
    <3>1. PadNames \subseteq DOMAIN binds
      BY DEF Chosen
    <3> QED
      BY <1>1, <1>7, <1>8, <1>18, <3>1, ButtonsRun
  <2>2. title' = title /\ played'.native = native
    BY <1>1, <1>2
  <2> QED
    BY <2>1, <2>2 DEF ButtonsHold, ButtonsAfter, TakenForAxis
<1>19. PlayedAsChosen'
  <2>1. ShowsWhatItKnows' => ToSet(shown) = ToSet(T)
    BY <1>1 DEF ShowsWhatItKnows
  <2> QED
    BY <1>1, <1>17, <1>18, <2>1 DEF PlayedAsChosen
<1> QED
  BY <1>16, <1>19

\* For any games, actions, keys and files that fit together, any controllers, and however many
\* changes and launches came before: as long as the tables show what the view knows, a launch has
\* every input of the tables whose action has a key play that action, once, natively or as the key
\* (launch in exe_view.launch.cpp, hardware_index_lookup_from_context in input.cpp),
\* every key does what one of its rows says, and every button's name has an action of that button
\* (save_bindings_to_config and the names of id-tech-shared.cpp).
THEOREM BindingsPlayedAsChosen ==
  ASSUME BindingsFit
  PROVE  BindingsSpec => []PlayedAsChosen
<1>1. BindingsInit => Chosen /\ PlayedAsChosen
  BY ChosenInit
<1>2. Chosen /\ PlayedAsChosen /\ [BindingsNext]_bindingVars => Chosen' /\ PlayedAsChosen'
  <2> SUFFICES ASSUME Chosen, PlayedAsChosen, [BindingsNext]_bindingVars
               PROVE  Chosen' /\ PlayedAsChosen'
    OBVIOUS
  <2>1. ASSUME NEW i \in PadRows, NEW v \in NewInputs, NEW pads \in Plugged,
               NEW pad \in ToSet(pads) \ {"unknown"}, ChangeInput(i, v, pad)
        PROVE  Chosen' /\ PlayedAsChosen'
    <3>1. v \in PadInput /\ pad \in Pads /\ i \in Nat
      BY DEF BindingsFit, PadRows, ToSet
    <3>2. MayChange(i, v, pad) /\ UserChanges(i, v, pad)
      BY <2>1, <3>1 DEF ChangeInput, MayChange, UserChanges
    <3> QED
      BY <3>1, <3>2, ChosenChange
  <2>2. ASSUME NEW i \in KeyRows(shown), NEW key \in NewKeys, ChangeKey(i, key)
        PROVE  Chosen' /\ PlayedAsChosen'
    <3> DEFINE c == IF key \in ToSet(MouseButtons) THEN "mouse" ELSE "keyboard"
    <3>1. i \in Nat /\ i > Len(Actions) + 1
      <4>1. PICK m \in Nat : shown = [j \in 1..m |-> shown[j]]
        BY DEF Chosen, TableFits
      <4>2. Len(shown) = m
        BY <4>1, IsLong
      <4>3. Len(Actions) \in Nat
        BY DEF BindingsFit
      <4> QED
        BY <4>2, <4>3 DEF KeyRows
    <3>2. UserChanges(i, key, c)
      BY <2>2 DEF ChangeKey, UserChanges
    <3>3. key \in KeyCodes
      BY DEF KeyCodes
    <3>4. c = "mouse" \/ c = "keyboard"
      OBVIOUS
    <3> HIDE DEF c
    <3>5. MayChange(i, key, c)
      BY <3>1, <3>3, <3>4 DEF MayChange
    <3> QED
      BY <3>1, <3>2, <3>5, ChosenChange
  <2>3. ASSUME NEW pads \in Plugged, HandOver(pads)
        PROVE  Chosen' /\ PlayedAsChosen'
    BY <2>3, ChosenHandOver
  <2>4. CASE UNCHANGED bindingVars
    <3>1. UNCHANGED <<title, kept, entries, shown, binds, played, edits>>
      BY <2>4 DEF bindingVars
    <3>2. Chosen'
      BY <3>1 DEF Chosen, EntriesFit, OwnKeysHold, FreeKey
    <3>3. PlayedAsChosen'
      BY <3>1 DEF PlayedAsChosen, ShowsWhatItKnows, InputsPlayedOnce, Keyed, OnAllOrNone,
                  HasKeyOfItsOwn, PlayedByGame, PlayedAsKey, KeysHold, FreeKey, ButtonsHold,
                  TakenForAxis
    <3> QED
      BY <3>2, <3>3
  <2> QED
    BY <2>1, <2>2, <2>3, <2>4 DEF BindingsNext
<1> QED
  BY <1>1, <1>2, PTL DEF BindingsSpec

================================================================================
