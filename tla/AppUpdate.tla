------------------------------- MODULE AppUpdate -------------------------------
(***************************************************************************)
(* How a running Siege Studio replaces itself (app-update.cpp,             *)
(* siege-studio.cpp, siege_main_window.cpp).                               *)
(*                                                                         *)
(* The executable loads its views from a core module.  An update that the  *)
(* user asks for is an attempt with three parts, each on a thread of the   *)
(* pool: the task that waits for a version, asks the user and shows the    *)
(* progress; the look-up that finds the version; and the work that         *)
(* downloads it, closes the window, frees the core, installs and loads the *)
(* new one and opens a window again.  The window lives on the main thread, *)
(* which runs APCs for the work between its messages.                      *)
(***************************************************************************)
EXTENDS Integers, Sequences, FiniteSets

CONSTANTS
  Channel,     \* "stable" and "development"
  Version,     \* the versions the server has, as <<year, week>>
  OwnVersion,  \* the version of the executable
  OwnChannel,  \* SIEGE_CHANNEL_TYPE of the executable
  MaxAttempts  \* bound: updates the user asks for

\* Versions are the year and the week of the build (the time stamp "%y" and "%V").
ASSUME UpdateAssumption ==
  /\ Version \subseteq Nat \X (1 .. 53)
  /\ OwnVersion \in Nat \X (1 .. 53)
  /\ OwnChannel \in Channel
  /\ MaxAttempts \in Nat

Attempt    == 1 .. MaxAttempts
MainWindow == 1 .. MaxAttempts + 1
Load       == 0 .. MaxAttempts + 1

VARIABLES
  embedded,   \* has the executable modules in its resources?
  installed,  \* complete installations: their channel, the version in the name
              \* of their folder, and the one they hold
  core,       \* core_module: which load of it (0: none, the executable's own code)
  loads,      \* how often a core module was loaded
  class,      \* the registered window class: whose code it runs
  mainWindow, \* the main windows there have been
  closing,    \* destroy_dialog, of each load of the code
  info,       \* what the last look-ups found, per channel
  attempt,    \* the attempts to update
  apcs,       \* APCs queued to the main thread
  quit,       \* was the quit message posted?
  raced       \* history: did two look-ups of a channel overlap, or was a version
              \* read while one could still write it?

disk == <<embedded, installed>>
code == <<core, loads, class>>
updateVars == <<disk, code, mainWindow, closing, info, attempt, apcs, quit, raced>>

NoClass == -1
Zero    == <<0, 0>>

Unborn == [at |-> "unborn", code |-> 0, updating |-> FALSE, enabled |-> TRUE]
Unmade == [window |-> 0, channel |-> "none", task |-> "none", lookup |-> "none",
           found |-> Zero, work |-> "none", version |-> Zero,
           thread |-> FALSE, target |-> TRUE]

-----------------------------------------------------------------------------
\* Mutant of WeekTotal: months are taken for weeks.
MonthTotal(v) == v[1] * 12 + v[2]

\* get_week_total.
WeekTotal(v) == v[1] * 52 + v[2]

\* The text of a week, with -1 after the end of a short one.
WeekText(n) == IF n < 10 THEN <<n, -1>> ELSE <<n \div 10, n % 10>>

\* The names of folders are compared as text; the year has two digits.
NameAfter(v, w) ==
  LET a == <<v[1]>> \o WeekText(v[2])
      b == <<w[1]>> \o WeekText(w[2])
  IN \E i \in 1 .. 3 : a[i] > b[i] /\ \A j \in 1 .. i - 1 : a[j] = b[j]

\* discover_installation_info: an installation of that version in that channel,
\* or one of a later name in any, means that nothing is to be extracted.
HasTarget(v, c) ==
  /\ embedded
  /\ \A e \in installed : ~(e.channel = c /\ e.name = v) /\ ~NameAfter(e.name, v)

Installation(name, holds) == [channel |-> OwnChannel, name |-> name, holds |-> holds]

-----------------------------------------------------------------------------
\* wWinMain, once it has a window.  An executable that could extract its modules
\* has done so and left to the one it installed: with modules it runs only if
\* there is an installation, or with its own code because extracting failed.
UpdateInit ==
  /\ embedded \in BOOLEAN
  /\ \E names \in {{}} \cup {{v} : v \in Version} :
       /\ installed = {Installation(v, v) : v \in names}
       /\ ~embedded => names = {OwnVersion}
       /\ core = IF \E v \in names : v = OwnVersion \/ NameAfter(v, OwnVersion) THEN 1 ELSE 0
  /\ loads = core
  /\ class = core
  /\ mainWindow = [w \in MainWindow |-> IF w = 1 THEN [Unborn EXCEPT !.at = "open", !.code = core] ELSE Unborn]
  /\ closing = [l \in Load |-> FALSE]
  /\ info = [c \in Channel |-> [available |-> FALSE, version |-> Zero]]
  /\ attempt = [k \in Attempt |-> Unmade]
  /\ apcs = <<>>
  /\ quit = FALSE
  /\ raced = FALSE

IsOpen(w) == w \in MainWindow /\ mainWindow[w].at = "open"

Doing(k, part, at) == attempt[k][part] = at
Move(k, part, at) == attempt' = [attempt EXCEPT ![k][part] = at]

-----------------------------------------------------------------------------
\* The first attempt there has not been.
NextAttempt(k) == Doing(k, "window", 0) /\ \A j \in Attempt : j < k => ~Doing(j, "window", 0)

\* Mutant of Trigger: whether an update is in progress is not asked.
TriggerAgain(w, c, k) ==
  /\ IsOpen(w) /\ mainWindow[w].enabled
  /\ NextAttempt(k)
  /\ attempt' = [attempt EXCEPT ![k].window = w, ![k].channel = c, ![k].task = "detect"]
  /\ mainWindow' = [mainWindow EXCEPT ![w].updating = TRUE]
  /\ UNCHANGED <<disk, code, closing, info, apcs, quit, raced>>

\* trigger_update, from the menu.
Trigger(w, c, k) ==
  /\ IsOpen(w) /\ mainWindow[w].enabled
  /\ ~mainWindow[w].updating
  /\ NextAttempt(k)
  /\ attempt' = [attempt EXCEPT ![k].window = w, ![k].channel = c, ![k].task = "detect"]
  /\ mainWindow' = [mainWindow EXCEPT ![w].updating = TRUE]
  /\ UNCHANGED <<disk, code, closing, info, apcs, quit, raced>>

\* Is a look-up of the channel c under way?
LooksUp(c) == \E j \in Attempt : attempt[j].channel = c /\ ~Doing(j, "lookup", "none")

\* detect_update, called by the task: what was found before does not count.
DetectUpdate(k) ==
  /\ Doing(k, "task", "detect")
  /\ raced' = (raced \/ LooksUp(attempt[k].channel))
  /\ info' = [info EXCEPT ![attempt[k].channel].available = FALSE]
  /\ attempt' = [attempt EXCEPT ![k].task = "poll", ![k].lookup = "fetch"]
  /\ UNCHANGED <<disk, code, mainWindow, closing, apcs, quit>>

\* Its work item asks the server, which may not answer ...
Fetch(k) ==
  /\ Doing(k, "lookup", "fetch")
  /\ \/ Move(k, "lookup", "none")
     \/ \E v \in Version :
          attempt' = [attempt EXCEPT ![k].found = v,
            ![k].lookup = IF WeekTotal(v) > WeekTotal(OwnVersion) THEN "flag" ELSE "none"]
  /\ UNCHANGED <<disk, code, mainWindow, closing, info, apcs, quit, raced>>

\* ... and then stores the flag, the year and the week, in this order.
Store(k) ==
  /\ LET c == attempt[k].channel
         v == attempt[k].found
     IN \/ Doing(k, "lookup", "flag") /\ info' = [info EXCEPT ![c].available = TRUE]
                                   /\ Move(k, "lookup", "year")
        \/ Doing(k, "lookup", "year") /\ info' = [info EXCEPT ![c].version[1] = v[1]]
                                   /\ Move(k, "lookup", "week")
        \/ Doing(k, "lookup", "week") /\ info' = [info EXCEPT ![c].version[2] = v[2]]
                                   /\ Move(k, "lookup", "none")
  /\ UNCHANGED <<disk, code, mainWindow, closing, apcs, quit, raced>>

\* The window of the attempt gets a new value in a field, if it is still there
\* (its memory is freed when it is not).
WindowOf(k, field, value) ==
  IF IsOpen(attempt[k].window) THEN [mainWindow EXCEPT ![attempt[k].window][field] = value] ELSE mainWindow

\* The task polls for twelve seconds, and asks the user or gives up ...
Poll(k) ==
  /\ Doing(k, "task", "poll")
  /\ IF info[attempt[k].channel].available
     THEN Move(k, "task", "ask") /\ UNCHANGED mainWindow
     ELSE Move(k, "task", "none") /\ mainWindow' = WindowOf(k, "updating", FALSE)
  /\ UNCHANGED <<disk, code, closing, info, apcs, quit, raced>>

\* ... who does not want to ...
Decline(k) ==
  /\ Doing(k, "task", "ask")
  /\ Move(k, "task", "none")
  /\ mainWindow' = WindowOf(k, "updating", FALSE)
  /\ UNCHANGED <<disk, code, closing, info, apcs, quit, raced>>

\* ... or does: apply_update queues the work, unless the flag was cleared.
Accept(k) ==
  /\ Doing(k, "task", "ask")
  /\ closing' = [closing EXCEPT ![mainWindow[attempt[k].window].code] = FALSE]
  /\ LET applies == info[attempt[k].channel].available
     IN /\ attempt' = [attempt EXCEPT ![k].task = "progress",
                         ![k].work = IF applies THEN "download" ELSE @]
        /\ mainWindow' = IF applies THEN WindowOf(k, "enabled", FALSE) ELSE mainWindow
  /\ UNCHANGED <<disk, code, info, apcs, quit, raced>>

\* The dialog with the progress ends once its code has seen the window destroyed
\* (destroy_dialog, which the next update clears), or when the user closes it.
DialogCallback(k) ==
  /\ Doing(k, "task", "progress")
  /\ closing[mainWindow[attempt[k].window].code]
  /\ Move(k, "task", "none")
  /\ UNCHANGED <<disk, code, mainWindow, closing, info, apcs, quit, raced>>

CloseDialog(k) ==
  /\ Doing(k, "task", "progress")
  /\ Move(k, "task", "none")
  /\ UNCHANGED <<disk, code, mainWindow, closing, info, apcs, quit, raced>>

-----------------------------------------------------------------------------
\* The work reads the version and downloads it.  Without the file, or with one
\* that is no module, it ends; one with modules in it replaces the core, so that
\* the window is enabled and has to go.
Download(k) ==
  /\ Doing(k, "work", "download")
  /\ LET c == attempt[k].channel
         v == info[c].version
     IN /\ \/ Move(k, "work", "finish") /\ UNCHANGED mainWindow
           \/ \E next \in {"unload", "install"} :
                /\ v \in Version
                /\ attempt' = [attempt EXCEPT ![k].work = next, ![k].version = v,
                                 ![k].thread = IsOpen(attempt[k].window)]
                /\ mainWindow' = IF next = "unload" THEN WindowOf(k, "enabled", TRUE) ELSE mainWindow
        /\ raced' = (raced \/ LooksUp(c))
  /\ UNCHANGED <<disk, code, closing, info, apcs, quit>>

\* unload_core_module: nothing if there is none; else the main thread is asked
\* to destroy the window ...
Unload(k) ==
  /\ Doing(k, "work", "unload")
  /\ Move(k, "work", IF core = 0 THEN "install" ELSE "await")
  /\ apcs' = IF core # 0 /\ IsOpen(attempt[k].window)
             THEN Append(apcs, [does |-> "destroy", window |-> attempt[k].window]) ELSE apcs
  /\ UNCHANGED <<disk, code, mainWindow, closing, info, quit, raced>>

\* Mutant of Await: nobody waits for the window to go.
AwaitNothing(k) ==
  /\ Doing(k, "work", "await")
  /\ Move(k, "work", "free")
  /\ UNCHANGED <<disk, code, mainWindow, closing, info, apcs, quit, raced>>

\* ... and once it is gone ...
Await(k) ==
  /\ Doing(k, "work", "await")
  /\ ~IsOpen(attempt[k].window)
  /\ Move(k, "work", "free")
  /\ UNCHANGED <<disk, code, mainWindow, closing, info, apcs, quit, raced>>

\* ... the class is unregistered, which fails while it has a window, and the
\* core freed.
Free(k) ==
  /\ Doing(k, "work", "free")
  /\ core' = 0
  /\ class' = IF class = core /\ \A w \in MainWindow : ~(IsOpen(w) /\ mainWindow[w].code = class)
              THEN NoClass ELSE class
  /\ Move(k, "work", "install")
  /\ UNCHANGED <<disk, loads, mainWindow, closing, info, apcs, quit, raced>>

\* The version is read again, for the folder.  If that is to be extracted, the
\* files are copied, or some of them, and load_core_module loads the new core.
Install(k) ==
  /\ Doing(k, "work", "install")
  /\ LET v == info[attempt[k].channel].version
     IN IF ~HasTarget(v, attempt[k].channel)
        THEN /\ attempt' = [attempt EXCEPT ![k].work = "finish", ![k].target = FALSE]
             /\ UNCHANGED <<installed, core, loads>>
        ELSE \E complete \in BOOLEAN :
               /\ Move(k, "work", "register")
               /\ installed' = IF complete
                               THEN installed \cup {Installation(v, attempt[k].version)} ELSE installed
               /\ IF complete /\ core = 0
                  THEN loads' = loads + 1 /\ core' = loads + 1
                  ELSE UNCHANGED <<core, loads>>
  /\ UNCHANGED <<embedded, class, mainWindow, closing, info, apcs, quit, raced>>

\* Mutant of Register: the window that was found no thread for.
RegisterOnly(k) ==
  /\ Doing(k, "work", "register")
  /\ class' = IF class = NoClass THEN core ELSE class
  /\ Move(k, "work", "finish")
  /\ UNCHANGED <<disk, core, loads, mainWindow, closing, info, apcs, quit, raced>>

\* register_and_create_main_window: registering fails for a class there is; the
\* window is made by the main thread, if that was found by the old window.
Register(k) ==
  /\ Doing(k, "work", "register")
  /\ class' = IF class = NoClass THEN core ELSE class
  /\ apcs' = IF class = NoClass /\ attempt[k].thread
             THEN Append(apcs, [does |-> "create", window |-> 0]) ELSE apcs
  /\ Move(k, "work", "finish")
  /\ UNCHANGED <<disk, core, loads, mainWindow, closing, info, quit, raced>>

\* "deferred": the window is enabled, if it is still the old one.
Finish(k) ==
  /\ Doing(k, "work", "finish")
  /\ Move(k, "work", "over")
  /\ mainWindow' = WindowOf(k, "enabled", TRUE)
  /\ UNCHANGED <<disk, code, closing, info, apcs, quit, raced>>

-----------------------------------------------------------------------------
\* wm_destroy: unless an update is in progress, the program quits.
Destroyed(w, how) ==
  /\ mainWindow' = [mainWindow EXCEPT ![w].at = how]
  /\ closing' = [closing EXCEPT ![mainWindow[w].code] = TRUE]
  /\ quit' = ~mainWindow[w].updating

\* The user closes the window.
Close(w) ==
  /\ IsOpen(w) /\ mainWindow[w].enabled
  /\ Destroyed(w, "closed")
  /\ UNCHANGED <<disk, code, info, attempt, apcs, raced>>

\* Mutant of RunApc: the main loop is not alertable.
NeverAlertable == FALSE /\ UNCHANGED updateVars

\* The first window there has not been.
Born(w)   == mainWindow[w].at # "unborn"
NewWindow == CHOOSE w \in MainWindow : ~Born(w) /\ \A v \in MainWindow : v < w => Born(v)

\* The main loop's wait is alertable: it destroys the old window, if it is still
\* there, or makes the new one, with the code of the class.
RunApc ==
  /\ apcs # <<>>
  /\ apcs' = Tail(apcs)
  /\ LET a == Head(apcs)
     IN \/ /\ a.does = "destroy"
           /\ IF IsOpen(a.window) THEN Destroyed(a.window, "replaced")
              ELSE UNCHANGED <<mainWindow, closing, quit>>
        \/ /\ a.does = "create"
           /\ mainWindow' = [mainWindow EXCEPT ![NewWindow].at = "open", ![NewWindow].code = class]
           /\ UNCHANGED <<closing, quit>>
  /\ UNCHANGED <<disk, code, info, attempt, raced>>

-----------------------------------------------------------------------------
Work(k) ==
  \/ Download(k) \/ Unload(k) \/ Await(k) \/ Free(k) \/ Install(k) \/ Register(k) \/ Finish(k)

Task(k) ==
  \/ DetectUpdate(k) \/ Poll(k) \/ Decline(k) \/ Accept(k)
  \/ DialogCallback(k) \/ CloseDialog(k)

\* Nothing runs any more once the main thread has quit.
UpdateNext ==
  /\ ~quit
  /\ \/ RunApc
     \/ \E w \in MainWindow : Close(w) \/ \E c \in Channel, k \in Attempt : Trigger(w, c, k)
     \/ \E k \in Attempt : Task(k) \/ Fetch(k) \/ Store(k) \/ Work(k)

\* Work items run, and the main thread comes back to its loop.
UpdateFairness ==
  /\ WF_updateVars(~quit /\ RunApc)
  /\ \A k \in Attempt : WF_updateVars(~quit /\ Work(k)) /\ WF_updateVars(~quit /\ DialogCallback(k))

UpdateSpec == UpdateInit /\ [][UpdateNext]_updateVars /\ UpdateFairness
-----------------------------------------------------------------------------
Replacing(k) == attempt[k].work \in {"download", "unload", "await", "free", "install", "register"}

\* At most one update downloads, frees, installs and loads at a time: a second
\* one would free the core under the first, or write the files it loads.
OneUpdate == \A j, k \in Attempt : Replacing(j) /\ Replacing(k) => j = k

\* A window's code is there: the core a window comes from is never freed nor
\* exchanged before the window is gone.
WindowCodeLoaded == \A w \in MainWindow : IsOpen(w) => mainWindow[w].code \in {0, core}

\* Nothing is left that could open a window or end the program.
Deserted ==
  /\ ~quit /\ apcs = <<>>
  /\ \A w \in MainWindow : ~IsOpen(w)
  /\ \A k \in Attempt : Doing(k, "task", "none") /\ attempt[k].work \in {"none", "over"}

\* The program does not stay without a window, but for two ways the code has: a
\* window closed by the user while an update is in progress does not end it, and
\* an update that finds nothing to extract opens no window.
NoWindowLeft ==
  Deserted => \/ \E w \in MainWindow : mainWindow[w].at = "closed" /\ mainWindow[w].updating
              \/ \E k \in Attempt : ~attempt[k].target

\* There is a window whenever there should be one, and the code of it stays loaded while it is open.
WindowStays == NoWindowLeft /\ WindowCodeLoaded

Later(v, w) == v[1] > w[1] \/ (v[1] = w[1] /\ v[2] > w[2])

\* An update is one, unless look-ups of two attempts overlapped or the version was
\* read before it was written: what it installs is later than the executable, and
\* in the folder of its own name.
InstalledIsLater ==
  \A k \in Attempt :
    ~raced /\ attempt[k].work \in {"register", "finish", "over"} /\ attempt[k].version # Zero =>
      /\ Later(attempt[k].version, OwnVersion)
      /\ \A e \in installed : e.name = e.holds

\* In the end no update is under way, though its thread waits for the main thread
\* to destroy the window; nor does its dialog stay when the window was replaced, if
\* no other update was accepted before it looked.
UpdateEnds ==
  <>[](\/ quit
       \/ \A k \in Attempt :
            /\ ~Replacing(k)
            /\ Doing(k, "task", "progress") /\ mainWindow[attempt[k].window].at = "replaced"
                 => \E j \in Attempt : j > k /\ ~Doing(j, "work", "none"))
=============================================================================
