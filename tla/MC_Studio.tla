------------------------------- MODULE MC_Studio -------------------------------
(***************************************************************************)
(* Four parts of Siege Studio that have no state in common: the detection  *)
(* of games, the update of the program, the view of an archive, and the    *)
(* unpacker.  A behaviour is one of any of them.                           *)
(*                                                                         *)
(* Detection: one drive, with a known game and another executable beside   *)
(* it and a program that a view can show, and two rounds.  Update: the     *)
(* last week of a long year, two weeks of the next, whose names text and   *)
(* numbers order differently, and one of the year after.  Archive: one of  *)
(* each kind, with files at the top and in folders up to two deep, as far  *)
(* as the kind has folders.  Unpacker: a game of three discs, the second   *)
(* of which is not beside the others, one of two whose files are not       *)
(* found, and one with archives in it and options.                         *)
(***************************************************************************)
EXTENDS GameDetection, AppUpdate, TLC

CONSTANTS
  game, editor, demo, folder, drive, root,
  maps, dm, art, readme, skin, level, Stored, Shown,
  disc1, disc2, disc3, Description, Given, Beside, Copied

VARIABLES
  part,  \* whose behaviour this is
  kind, tools, walker, contents, goOn, rows, indices, selected, writing, viewUi, job, saved,
  page, callback, dialog, cancel, dialogApcs, idle, exited, work, paths, answer, late

View   == INSTANCE VolumeView WITH ui <- viewUi
Unpack == INSTANCE GameUnpack WITH apcs <- dialogApcs, Files <- Copied

MCNear   == {<<editor, game>>, <<game, editor>>}
MCFiles  == [s \in Search |-> IF s = folder THEN {game, editor} ELSE {editor, demo}]
MCRootOf == [s \in Search |-> root]

MCVersion == {<<26, 53>>, <<27, 2>>, <<27, 10>>, <<28, 2>>}
MCOwnVersion == <<27, 2>>

File(path) == [path |-> path, empty |-> FALSE]
Mark(path) == [path |-> path, empty |-> TRUE]
MCCab == <<File(<<maps, dm, level>>), File(<<maps, skin>>), File(<<readme>>)>>
MCGroups == <<Mark(<<maps>>), Mark(<<art>>), File(<<maps, level>>), File(<<art, skin>>), File(<<art, readme>>)>>
MCFlat == <<File(<<level>>), File(<<readme>>), File(<<skin>>)>>
MCTwo == <<File(<<level>>), File(<<readme>>)>>
MCStored ==
  [pak |-> <<File(<<maps, dm, level>>), File(<<art, skin>>), File(<<readme>>)>>,
   res |-> <<File(<<maps, level>>), File(<<readme>>), File(<<art, skin>>)>>,
   zip |-> <<File(<<maps, dm, level>>), Mark(<<maps>>), Mark(<<maps, dm>>), File(<<maps, readme>>), File(<<skin>>)>>,
   cln |-> <<Mark(<<maps>>), File(<<maps, readme>>), Mark(<<maps, dm>>), File(<<maps, dm, level>>)>>,
   vol |-> MCGroups, prj |-> MCGroups,
   rmf |-> <<Mark(<<maps>>), File(<<maps, level>>), Mark(<<art>>), File(<<art, skin>>)>>,
   darkstar |-> MCFlat, dyn |-> MCTwo, rbx |-> MCTwo, tbv |-> MCTwo, clm |-> MCTwo, atd |-> MCTwo,
   wad |-> <<Mark(<<maps>>)>> \o MCFlat, rsc |-> Append(MCTwo, Mark(<<maps>>)),
   mw4 |-> <<File(<<level>>), Mark(<<maps>>), File(<<readme>>)>>,
   cab2 |-> MCCab, cab5 |-> MCCab, cab6 |-> MCCab, mscab |-> MCFlat]

Describe(names, discs, fits, nested, variables) ==
  [names |-> names, discs |-> discs, fits |-> fits, nested |-> nested, variables |-> variables]
MCDescription ==
  <<Describe({disc1, disc2, disc3}, <<disc1, disc2, disc3>>, TRUE, FALSE, 0),
    Describe({disc1, disc2}, <<disc1, disc2>>, FALSE, FALSE, 0),
    Describe({game, demo}, <<>>, TRUE, TRUE, 2)>>

-----------------------------------------------------------------------------
viewVars   == <<kind, tools, walker, contents, goOn, rows, indices, selected, writing, viewUi, job, saved>>
unpackVars == <<page, callback, dialog, cancel, dialogApcs, idle, exited, work, paths, answer, late>>

StudioInit ==
  /\ part \in {"detection", "update", "view", "unpacker"}
  /\ Init /\ UpdateInit /\ View!Init /\ Unpack!Init
  \* One of the initial states of a part that does not move.
  /\ part # "view" => kind = "pak"
  /\ part # "update" => embedded /\ installed = {}
  /\ part # "unpacker" => paths = {game}

StudioNext ==
  /\ UNCHANGED part
  /\ \/ part = "detection" /\ Next
        /\ UNCHANGED <<updateVars, viewVars, unpackVars>>
     \/ part = "update" /\ UpdateNext
        /\ UNCHANGED <<vars, viewVars, unpackVars>>
     \/ part = "view" /\ View!Next
        /\ UNCHANGED <<vars, updateVars, unpackVars>>
     \/ part = "unpacker" /\ Unpack!Next
        /\ UNCHANGED <<vars, updateVars, viewVars>>

\* What does not move has nothing to do that could be unfair to it.
StudioSpec ==
  /\ StudioInit
  /\ [][StudioNext]_<<part, vars, updateVars, viewVars, unpackVars>>
  /\ Fairness /\ UpdateFairness /\ View!Fairness /\ Unpack!Fairness

\* The properties of the parts, which each of them states.
ArchiveListed    == View!ArchiveListed
DialogFollows    == Unpack!DialogFollows
=============================================================================
