------------------------------- MODULE GameUnpack -------------------------------
(***************************************************************************)
(* The game unpacker (game-unpack.win32.cpp): a dialog of several pages,   *)
(* and a work item that finds out which game a back-up holds, asks where   *)
(* and with which options to install it, and copies its files.  The work   *)
(* item changes the dialog by APCs, which the dialog's thread runs when    *)
(* the timer of a page fires; the user may close the dialog at any time.   *)
(***************************************************************************)
EXTENDS Naturals, Sequences, FiniteSets

CONSTANTS
  Description,  \* the installation modules in order: the names each goes by, its
                \* discs as a sequence in the order of their names, whether its files are found, whether some of these are
                \* looked for in archives among them, its variables with options
  Given,        \* what the user may give: sets of paths
  Beside,       \* readable archives in the folder of a path, named like discs
  Files         \* bound: files of the back-up that a rule copies

VARIABLES
  page,      \* the page of the dialog
  callback,  \* button_callback
  dialog,    \* is the dialog there?
  cancel,    \* should_cancel
  apcs,      \* APCs queued to the dialog's thread
  idle,      \* is_done
  exited,    \* has the program ended?
  work,      \* the work item: where it is, which module it is at, how many files or
             \* variables are left, and how it ended
  paths,     \* backup_paths, as do_unpacking has them
  answer,    \* has a promise been given its value?
  late       \* history: files installed after the user cancelled

shown == <<page, callback, dialog>>
vars  == <<shown, cancel, apcs, idle, exited, work, paths, answer, late>>

Init ==
  /\ page = "start" /\ callback = "none" /\ dialog = TRUE
  /\ cancel = FALSE /\ apcs = <<>> /\ idle = TRUE /\ exited = FALSE
  /\ work = [at |-> "unborn", module |-> 1, left |-> 0, status |-> "none"]
  /\ paths \in Given
  /\ answer = FALSE /\ late = 0

\* Mutant of Timed: the page after an option has no timer.
TimedOnce(p) == p \in {"detecting", "installing"}

\* The pages with TDF_CALLBACK_TIMER.
Timed(p) == p \in {"detecting", "installing", "continuing"}

-----------------------------------------------------------------------------
\* TDN_BUTTON_CLICKED on the first page: the work is queued, and the page left.
Choose ==
  /\ dialog /\ page = "start"
  /\ page' = "detecting"
  /\ work' = [work EXCEPT !.at = "queued"]
  /\ UNCHANGED <<callback, dialog, cancel, apcs, idle, exited, paths, answer, late>>

\* The user takes a path or an option: the page's callback fulfils the promise,
\* shows the next page and is cleared.
Answer ==
  /\ dialog /\ callback # "none" /\ page = callback
  /\ answer' = TRUE
  /\ page' = IF callback = "path" THEN "installing" ELSE "continuing"
  /\ callback' = "none"
  /\ UNCHANGED <<dialog, cancel, apcs, idle, exited, work, paths, late>>

\* TDN_TIMER: SleepEx runs an APC that was queued.
Timer ==
  /\ dialog /\ Timed(page) /\ apcs # <<>>
  /\ page' = Head(apcs)
  /\ callback' = IF Head(apcs) \in {"path", "variable"} THEN Head(apcs) ELSE callback
  /\ apcs' = Tail(apcs)
  /\ UNCHANGED <<dialog, cancel, idle, exited, work, paths, answer, late>>

\* The user closes the dialog ...
Close ==
  /\ dialog
  /\ dialog' = FALSE /\ cancel' = TRUE
  /\ UNCHANGED <<page, callback, apcs, idle, exited, work, paths, answer, late>>

\* ... and main returns when the work is done, or after ten seconds.
Exit ==
  /\ ~dialog
  /\ exited' = TRUE
  /\ UNCHANGED <<shown, cancel, apcs, idle, work, paths, answer, late>>

-----------------------------------------------------------------------------
Module == Description[work.module]

At(at) == work.at = at
Go(at) == work' = [work EXCEPT !.at = at]
Finish(status) == work' = [work EXCEPT !.at = "over", !.status = status]

\* The next module, or the end of the loop over them.
NextModule ==
  work' = IF work.module < Len(Description)
          THEN [work EXCEPT !.at = "module", !.module = @ + 1]
          ELSE [work EXCEPT !.at = "found", !.module = 0]

Own(step) == step /\ UNCHANGED <<shown, cancel, idle, exited>>

\* Something cannot be created, and nobody catches the exception.
Crash ==
  /\ exited' = TRUE
  /\ UNCHANGED <<shown, cancel, apcs, idle, work, paths, answer, late>>

\* The work item begins.
Begin ==
  /\ At("queued")
  /\ idle' = FALSE
  /\ \/ Go("module") \/ Finish("failed")
  /\ UNCHANGED <<shown, cancel, apcs, exited, paths, answer, late>>

\* A game of several discs of which one path is given, and the discs that are found
\* beside it.
Alone == Len(Module.discs) > 1 /\ Cardinality(paths) = 1
Found == {i \in DOMAIN Module.discs : Module.discs[i] \in Beside \ paths}

\* A disc that is not found: the next one that is takes its place, if there is any.
Lacks == \E i \in DOMAIN Module.discs : Module.discs[i] \notin paths
Taken == \A i \in DOMAIN Module.discs : Module.discs[i] \in paths \/ \E j \in Found : j >= i

\* Every path must go by one of the module's names; of one path for a game of
\* several discs, others must be beside it, and stay in the list for the modules
\* that follow.  After the last disc that is found there is none to take (580), nor
\* may the folder be read.
CheckNames ==
  /\ At("module")
  /\ \/ /\ cancel /\ Go("found") /\ UNCHANGED <<paths, exited>>
     \/ /\ ~cancel /\ ~(paths \subseteq Module.names) /\ NextModule /\ UNCHANGED <<paths, exited>>
     \/ /\ ~cancel /\ paths \subseteq Module.names /\ ~Alone
        /\ Go("rules") /\ UNCHANGED <<paths, exited>>
     \/ /\ ~cancel /\ paths \subseteq Module.names /\ Alone
        /\ \/ Found = {} /\ NextModule /\ UNCHANGED <<paths, exited>>
           \/ Found # {} /\ Taken /\ Go("rules") /\ UNCHANGED exited
              /\ paths' = paths \cup {Module.discs[i] : i \in Found}
           \/ exited' = TRUE /\ UNCHANGED <<work, paths>>
  /\ UNCHANGED <<shown, cancel, apcs, idle, answer, late>>

\* The rules are gone through, tools fetched and the files listed; if one that the
\* rules need is missing, as one of a disc that is not there may be, the next module
\* is tried.  A path may not be read, nor the staging folder be created.
Gather ==
  /\ At("rules")
  /\ \/ Own(\/ cancel /\ Finish("cancelled")
            \/ ~cancel /\ (~Module.fits \/ Lacks) /\ NextModule
            \/ ~cancel /\ Module.fits /\ Module.nested
               /\ work' = [work EXCEPT !.at = "staging", !.left = Files]
            \/ ~cancel /\ Module.fits /\ ~Module.nested /\ Go("found"))
        /\ UNCHANGED <<apcs, paths, answer, late>>
     \/ Crash

\* Files that may hold others are extracted, looked into and listed.  What is
\* found missing in them does not matter.
Stage ==
  /\ At("staging")
  /\ \/ Own(IF cancel THEN Finish("cancelled")
            ELSE IF work.left = 0 THEN Go("found")
            ELSE work' = [work EXCEPT !.left = @ - 1])
        /\ UNCHANGED <<apcs, paths, answer, late>>
     \/ ~cancel /\ work.left > 0 /\ Crash

\* exec_on_thread.
Queue(apc) == apcs' = Append(apcs, apc)

\* With a module the user is asked for a path ...
AskForPath ==
  /\ At("found")
  /\ IF cancel THEN Finish("cancelled") /\ UNCHANGED apcs
     ELSE IF work.module = 0 THEN Finish("failed") /\ UNCHANGED apcs
     ELSE Go("path") /\ Queue("path")
  /\ answer' = FALSE
  /\ UNCHANGED <<shown, cancel, idle, exited, paths, late>>

TakePath ==
  /\ At("path") /\ answer
  /\ \/ work' = [work EXCEPT !.at = "variables", !.left = Module.variables]
        /\ UNCHANGED <<shown, cancel, apcs, idle, exited, paths, answer, late>>
     \/ Crash

\* ... and for each variable for an option ...
AskForVariable ==
  /\ At("variables")
  /\ IF work.left = 0 THEN work' = [work EXCEPT !.at = "check", !.left = Files] /\ UNCHANGED apcs
     ELSE IF cancel THEN Finish("cancelled") /\ UNCHANGED apcs
     ELSE Go("variable") /\ Queue("variable")
  /\ answer' = FALSE
  /\ UNCHANGED <<shown, cancel, idle, exited, paths, late>>

TakeVariable ==
  /\ At("variable") /\ answer
  /\ work' = [work EXCEPT !.at = "variables", !.left = @ - 1]
  /\ UNCHANGED <<shown, cancel, apcs, idle, exited, paths, answer, late>>

\* Mutant of CheckCancel: only the first file of a rule is checked for.
CheckFirst ==
  /\ At("check")
  /\ Own(IF work.left = 0 THEN Finish("succeeded")
         ELSE IF cancel /\ work.left = Files THEN Finish("cancelled")
         ELSE Go("install"))
  /\ UNCHANGED <<apcs, paths, answer, late>>

\* ... and the files are installed, one by one, unless the user has cancelled;
\* then the module's own steps run.
CheckCancel ==
  /\ At("check")
  /\ Own(IF work.left = 0 THEN Finish("succeeded")
         ELSE IF cancel THEN Finish("cancelled")
         ELSE Go("install"))
  /\ UNCHANGED <<apcs, paths, answer, late>>

InstallTo ==
  /\ At("install")
  /\ \/ /\ work' = [work EXCEPT !.at = "check", !.left = @ - 1]
        /\ late' = IF cancel THEN late + 1 ELSE late
        /\ UNCHANGED <<shown, cancel, apcs, idle, exited, paths, answer>>
     \/ Crash

\* The result goes to the dialog, and the work is done.
Report ==
  /\ At("over")
  /\ Queue(IF work.status = "succeeded" THEN "installed" ELSE "failed")
  /\ Go("gone")
  /\ idle' = TRUE
  /\ UNCHANGED <<shown, cancel, exited, paths, answer, late>>

Work ==
  \/ Begin \/ CheckNames \/ Gather \/ Stage \/ AskForPath \/ TakePath
  \/ AskForVariable \/ TakeVariable \/ CheckCancel \/ InstallTo \/ Report

Next == ~exited /\ (Choose \/ Answer \/ Timer \/ Close \/ Exit \/ Work)

\* The work item runs, a page's timer fires, and ten seconds pass.
Fairness == WF_vars(~exited /\ Work) /\ WF_vars(~exited /\ Timer) /\ WF_vars(~exited /\ Exit)

Spec == Init /\ [][Next]_vars /\ Fairness
-----------------------------------------------------------------------------
\* A user who cancels gets at most the file that is being copied.
CancelStops == late <= 1

\* The page that the work item is waiting for, or ends with.
Expected(p) ==
  \/ work.at = p /\ ~answer
  \/ work.at = "gone" /\ p = IF work.status = "succeeded" THEN "installed" ELSE "failed"

\* A cancelled installation stops, and in the end the dialog shows what the work item
\* asks, or how it ended, and the program is gone once the dialog is closed, though the
\* work may be waiting for an answer that will not come.
DialogFollows ==
  /\ []CancelStops
  /\ <>[](\/ exited
          \/ dialog /\ \A p \in {"path", "variable", "installed", "failed"} : Expected(p) => page = p)
=============================================================================
