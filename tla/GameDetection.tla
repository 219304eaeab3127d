----------------------------- MODULE GameDetection -----------------------------
(***************************************************************************)
(* The search for installed games behind Siege Studio's first view         *)
(* (default_view.cpp).                                                     *)
(*                                                                         *)
(* detect_games is a work item, queued when the view is created and again  *)
(* whenever a game was unpacked, so that several rounds may run at once.   *)
(* In each, one worker per drive walks its search paths.  An executable of *)
(* a game Studio knows is detected at once; the others are collected and   *)
(* looked at in batches, as fallbacks.  What a worker detects it puts into *)
(* "pending", and it posts a message, unless one is on its way, for the    *)
(* window's thread to take what is pending and to list it.                 *)
(***************************************************************************)
EXTENDS Integers, FiniteSets

CONSTANTS
  Path,      \* executables that are a known game or that a view can show
  Known,     \* the known games among them (a loaded extension supports them)
  Near,      \* pairs of paths of which one lies in or below the other's folder
  Search,    \* search paths
  Files,     \* the executables each of them leads to
  Root,      \* drives
  RootOf,    \* the drive of a search path
  NoPath,    \* "no path", for a worker between two
  Batch,     \* fallbacks that are looked at together (25 in the code)
  MaxRounds  \* bound: times detect_games is queued

ASSUME DetectionAssumption ==
  /\ Known \subseteq Path /\ Near \subseteq Path \X Path /\ NoPath \notin Path
  /\ Files \in [Search -> SUBSET Path] /\ RootOf \in [Search -> Root]
  /\ Batch \in Nat \ {0} /\ MaxRounds \in Nat

VARIABLES
  detected,   \* detected_paths: whether a path was detected, and as what
  pending,    \* pending_known_detections and pending_fallback_detections
  scheduled,  \* flush_scheduled
  active,     \* ui_updates_active
  messages,   \* WM_FLUSH_DETECTIONS in the queue of the window's thread
  ui,         \* what that thread is doing
  listed,     \* the paths that have a row in the list
  rounds,     \* how often detect_games was queued
  worker      \* where each worker is, what it has to walk and to look at

vars == <<detected, pending, scheduled, active, messages, ui, listed, rounds, worker>>

window == <<scheduled, active, messages, ui, listed, rounds>>

Worker == (1 .. MaxRounds) \X Root

Walking(searches) ==
  [at |-> "walk", path |-> NoPath, searches |-> searches, todo |-> {}, fallback |-> {}]

Init ==
  /\ detected = [p \in Path |-> "no"]
  /\ pending = {}
  /\ scheduled = FALSE /\ active = TRUE
  /\ messages = 0
  /\ ui = "idle"
  /\ listed = {}
  /\ rounds = 0
  /\ worker = [w \in Worker |-> Walking({})]

At(w, at) == worker[w].at = at

\* The worker w goes on at "at", about path p.
Go(w, at, p) == worker' = [worker EXCEPT ![w].at = at, ![w].path = p]

\* What it goes on with after a path: a fallback comes out of a batch.
Resume(p) == IF p \in Known THEN "walk" ELSE "batch"

-----------------------------------------------------------------------------
\* The next search path: there is nothing left of the one before.
NextSearch(w) ==
  /\ At(w, "walk")
  /\ worker[w].todo = {} /\ worker[w].fallback = {}
  /\ \E s \in worker[w].searches :
       worker' = [worker EXCEPT ![w].searches = @ \ {s}, ![w].todo = Files[s]]
  /\ UNCHANGED <<detected, pending, window>>

\* process_path of a known game: add_path, under path_lock, tells whether the
\* path is new.
Detect(w) ==
  /\ At(w, "walk")
  /\ \E p \in worker[w].todo \cap Known :
       /\ worker' = [worker EXCEPT ![w].todo = @ \ {p},
            ![w].at = IF detected[p] = "no" THEN "check" ELSE @,
            ![w].path = IF detected[p] = "no" THEN p ELSE @]
       /\ detected' = IF detected[p] = "no" THEN [detected EXCEPT ![p] = "known"] ELSE detected
  /\ UNCHANGED <<pending, window>>

\* process_path of another: it is kept for later, and a full batch is due.
Collect(w) ==
  /\ At(w, "walk")
  /\ \E p \in worker[w].todo \ Known :
       LET fallback == worker[w].fallback \cup {p}
       IN worker' = [worker EXCEPT ![w].todo = @ \ {p}, ![w].fallback = fallback,
                       ![w].at = IF Cardinality(fallback) >= Batch THEN "batch" ELSE @]
  /\ UNCHANGED <<detected, pending, window>>

\* The search path is walked, and what was collected is due.
Walked(w) ==
  /\ At(w, "walk")
  /\ worker[w].todo = {} /\ worker[w].fallback # {}
  /\ Go(w, "batch", NoPath)
  /\ UNCHANGED <<detected, pending, window>>

\* is_extended_app_present: the path, or a known game in or around its folder.
Present(p) ==
  \/ detected[p] # "no"
  \/ \E q \in Path : detected[q] = "known" /\ <<p, q>> \in Near

\* process_fallback: first it is looked for, under path_lock ...
Look(w) ==
  /\ At(w, "batch")
  /\ \E p \in worker[w].fallback :
       worker' = [worker EXCEPT ![w].fallback = @ \ {p},
                    ![w].at = IF Present(p) THEN @ ELSE "add",
                    ![w].path = IF Present(p) THEN @ ELSE p]
  /\ UNCHANGED <<detected, pending, window>>

BatchDone(w) ==
  /\ At(w, "batch")
  /\ worker[w].fallback = {}
  /\ Go(w, "walk", NoPath)
  /\ UNCHANGED <<detected, pending, window>>

\* ... and then it is added, with path_lock taken again.
Add(w) ==
  /\ At(w, "add")
  /\ LET p == worker[w].path
     IN IF detected[p] = "no"
        THEN detected' = [detected EXCEPT ![p] = "fallback"] /\ Go(w, "check", p)
        ELSE Go(w, "batch", NoPath) /\ UNCHANGED detected
  /\ UNCHANGED <<pending, window>>

\* "if (ui_updates_active)", read without a lock ...
Check(w) ==
  /\ At(w, "check")
  /\ IF active THEN Go(w, "push", worker[w].path) ELSE Go(w, Resume(worker[w].path), NoPath)
  /\ UNCHANGED <<detected, pending, window>>

\* ... push_back under pending_detection_lock ...
Push(w) ==
  /\ At(w, "push")
  /\ pending' = pending \cup {worker[w].path}
  /\ Go(w, "schedule", worker[w].path)
  /\ UNCHANGED <<detected, window>>

\* Mutant of Schedule: whether a message is on its way is not asked.
ScheduleAlways(w) ==
  /\ At(w, "schedule")
  /\ IF active
     THEN scheduled' = TRUE /\ Go(w, "post", worker[w].path)
     ELSE Go(w, Resume(worker[w].path), NoPath) /\ UNCHANGED scheduled
  /\ UNCHANGED <<detected, pending, active, messages, ui, listed, rounds>>

\* ... and schedule_detection_flush: who finds the flag clear, and sets it ...
Schedule(w) ==
  /\ At(w, "schedule")
  /\ IF active /\ ~scheduled
     THEN scheduled' = TRUE /\ Go(w, "post", worker[w].path)
     ELSE Go(w, Resume(worker[w].path), NoPath) /\ UNCHANGED scheduled
  /\ UNCHANGED <<detected, pending, active, messages, ui, listed, rounds>>

\* ... posts the message, which fails once the window is gone.
Post(w) ==
  /\ At(w, "post")
  /\ messages' = IF ui = "gone" THEN messages ELSE messages + 1
  /\ Go(w, Resume(worker[w].path), NoPath)
  /\ UNCHANGED <<detected, pending, scheduled, active, ui, listed, rounds>>

\* The file system throws: the worker ends, with what it collected.
Fail(w) ==
  /\ worker[w].at \in {"walk", "batch"}
  /\ worker' = [worker EXCEPT ![w] = Walking({})]
  /\ UNCHANGED <<detected, pending, window>>

-----------------------------------------------------------------------------
\* wm_create, or SIEGE_UNPACK_DONE: a round is queued.
StartRound ==
  /\ ui = "idle"
  /\ rounds < MaxRounds
  /\ rounds' = rounds + 1
  /\ worker' = [w \in Worker |->
       IF w[1] = rounds + 1 THEN Walking({s \in Search : RootOf[s] = w[2]}) ELSE worker[w]]
  /\ UNCHANGED <<detected, pending, scheduled, active, messages, ui, listed>>

\* wm_flush_detections: first the flag is cleared ...
Flush ==
  /\ ui = "idle"
  /\ messages > 0
  /\ messages' = messages - 1
  /\ IF active THEN scheduled' = FALSE /\ ui' = "take" ELSE UNCHANGED <<scheduled, ui>>
  /\ UNCHANGED <<detected, pending, active, listed, rounds, worker>>

\* Mutant of Take: the fallbacks that were taken are not listed.
TakeKnown ==
  /\ ui = "take"
  /\ listed' = listed \cup (pending \cap Known)
  /\ pending' = {}
  /\ ui' = "recheck"
  /\ UNCHANGED <<detected, scheduled, active, messages, rounds, worker>>

\* ... then the batches are swapped out under the lock, and listed ...
Take ==
  /\ ui = "take"
  /\ listed' = listed \cup pending
  /\ pending' = {}
  /\ ui' = "recheck"
  /\ UNCHANGED <<detected, scheduled, active, messages, rounds, worker>>

\* ... and in the end, under the lock, what came meanwhile is scheduled.
Recheck ==
  /\ ui = "recheck"
  /\ ui' = "idle"
  /\ IF pending # {} /\ ~scheduled
     THEN scheduled' = TRUE /\ messages' = messages + 1
     ELSE UNCHANGED <<scheduled, messages>>
  /\ UNCHANGED <<detected, pending, active, listed, rounds, worker>>

\* wm_destroy: no updates any more ...
Destroy ==
  /\ ui = "idle"
  /\ active
  /\ active' = FALSE
  /\ ui' = "clear"
  /\ UNCHANGED <<detected, pending, scheduled, messages, listed, rounds, worker>>

\* ... and nothing pending.  The window's messages are gone with it.
Clear ==
  /\ ui = "clear"
  /\ pending' = {}
  /\ messages' = 0
  /\ ui' = "gone"
  /\ UNCHANGED <<detected, scheduled, active, listed, rounds, worker>>

-----------------------------------------------------------------------------
Scan(w) ==
  \/ NextSearch(w) \/ Detect(w) \/ Collect(w) \/ Walked(w)
  \/ Look(w) \/ BatchDone(w) \/ Add(w)
  \/ Check(w) \/ Push(w) \/ Schedule(w) \/ Post(w)

Window == Flush \/ Take \/ Recheck \/ Clear

Next ==
  \/ \E w \in Worker : Scan(w) \/ Fail(w)
  \/ Window \/ StartRound \/ Destroy

\* Work items run, and the window's thread handles its messages.
Fairness == WF_vars(Window) /\ \A w \in Worker : WF_vars(Scan(w))

Spec == Init /\ [][Next]_vars /\ Fairness
-----------------------------------------------------------------------------
WorkerType ==
  [at : {"walk", "batch", "add", "check", "push", "schedule", "post"},
   path : Path \cup {NoPath}, searches : SUBSET Search,
   todo : SUBSET Path, fallback : SUBSET Path]

\* Types of the table of paths, the flags, the window's thread and the workers;
\* a worker that has something to report knows what.
TypeOK ==
  /\ detected \in [Path -> {"no", "known", "fallback"}]
  /\ pending \subseteq Path /\ listed \subseteq Path
  /\ scheduled \in BOOLEAN /\ active \in BOOLEAN
  /\ messages \in Nat /\ rounds \in 0 .. MaxRounds
  /\ ui \in {"idle", "take", "recheck", "clear", "gone"}
  /\ worker \in [Worker -> WorkerType]
  /\ \A w \in Worker : worker[w].at \in {"add", "check", "push", "schedule", "post"}
       => worker[w].path \in Path

Posting == {w \in Worker : At(w, "post")}

\* However many workers detect something, at most one message is in the queue
\* or about to be posted, and the flag says whether there is one.
OneFlush ==
  active =>
    \/ ~scheduled /\ messages = 0 /\ Posting = {}
    \/ scheduled /\ messages = 1 /\ Posting = {}
    \/ scheduled /\ messages = 0 /\ \E w \in Worker : Posting = {w}

\* No detection is left behind: while something is pending there is a message
\* for it, or a worker is about to post one, or the window's thread will look.
NothingStranded ==
  active /\ pending # {} =>
    \/ messages > 0
    \/ ui \in {"take", "recheck"}
    \/ \E w \in Worker : worker[w].at \in {"schedule", "post"}

\* However many workers detect something while the window comes and goes, there is
\* one flush under way and no more while there is something to flush.
FlushUnderWay == OneFlush /\ NothingStranded

\* In the end every game that was detected is listed, if there is a list.
DetectedListed ==
  <>[](active => \A p \in Path : detected[p] # "no" => p \in listed)
=============================================================================
