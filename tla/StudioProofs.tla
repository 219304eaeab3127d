----------------------------- MODULE StudioProofs -----------------------------
(***************************************************************************)
(* Proofs about three parts of Siege Studio.                               *)
(*                                                                         *)
(* The detection of games, for any drives, search paths, batches and any   *)
(* number of rounds: one message at most is on its way, and nothing that   *)
(* is pending is left behind.                                              *)
(*                                                                         *)
(* The update of the program, for any versions, channels and number of     *)
(* attempts.  Turns: there is one window at most, and one attempt that is  *)
(* alive, of which that window knows.  Replacement: when the window goes,  *)
(* what is to open the next one is under way.  Versions: what is kept of a *)
(* look-up is whole, and stays as it is while an attempt relies on it.     *)
(*                                                                         *)
(* The game unpacker, for any games and files: a cancelled one stops.      *)
(***************************************************************************)
EXTENDS GameDetection, AppUpdate, TLAPS

-----------------------------------------------------------------------------
(***************************************************************************)
(* The detection of games (GameDetection).                                 *)
(***************************************************************************)
\* There are updates until the window is on its way out.
ActiveMeansOpen == active <=> ui \in {"idle", "take", "recheck"}

\* The workers of the rounds to come have nothing to do: without this a new round
\* could be thought to take the message from a worker that is posting it.
Unstarted == \A w \in Worker : w[1] > rounds => worker[w] = Walking({})

\* The inductive invariant.  OneFlush makes it safe for a worker that finds the
\* flag set to post nothing, and for Recheck to do the same: NothingStranded
\* would not be inductive without it.
IInv == TypeOK /\ ActiveMeansOpen /\ Unstarted /\ OneFlush /\ NothingStranded

-----------------------------------------------------------------------------
\* What a step of w that ends at "at" says of the workers.
Moved(w, at) ==
  /\ worker' \in [Worker -> WorkerType]
  /\ \A v \in Worker : worker'[v].at \in {"add", "check", "push", "schedule", "post"}
       => worker'[v].path \in Path
  /\ worker'[w].at = at
  /\ \A v \in Worker : v # w => worker'[v] = worker[v]

\* A record of a worker keeps its type when it moves on.
LEMMA MovesOn ==
  ASSUME TypeOK, NEW w \in Worker,
         NEW at \in {"walk", "batch", "add", "check", "push", "schedule", "post"},
         NEW p \in Path \cup {NoPath},
         at \in {"add", "check", "push", "schedule", "post"} => p \in Path,
         Go(w, at, p)
  PROVE  Moved(w, at)
<1>1. worker[w] \in WorkerType
  BY DEF TypeOK
<1>2. worker' = [worker EXCEPT ![w] = [worker[w] EXCEPT !.at = at, !.path = p]]
  BY DEF Go, TypeOK
<1>3. [worker[w] EXCEPT !.at = at, !.path = p] \in WorkerType
  BY <1>1 DEF WorkerType
<1>4. [worker[w] EXCEPT !.at = at, !.path = p].at = at
      /\ [worker[w] EXCEPT !.at = at, !.path = p].path = p
  BY <1>1 DEF WorkerType
<1> QED BY <1>2, <1>3, <1>4 DEF TypeOK, Moved

\* The steps of a worker before it has something to report: they leave all but
\* the worker and the table of paths alone.
Silent(w) ==
  \/ NextSearch(w) \/ Detect(w) \/ Collect(w) \/ Walked(w)
  \/ Look(w) \/ BatchDone(w) \/ Add(w) \/ Check(w) \/ Fail(w)

LEMMA SilentSteps ==
  ASSUME TypeOK, NEW w \in Worker, Silent(w)
  PROVE  /\ UNCHANGED <<pending, window>>
         /\ detected' \in [Path -> {"no", "known", "fallback"}]
         /\ worker' \in [Worker -> WorkerType]
         /\ \A v \in Worker : worker'[v].at \in {"add", "check", "push", "schedule", "post"}
              => worker'[v].path \in Path
         /\ \A v \in Worker : v # w => worker'[v] = worker[v]
         /\ worker[w].at \notin {"schedule", "post"}
         /\ worker'[w].at \notin {"schedule", "post"}
<1> USE DEF TypeOK
<1>0. worker[w] \in WorkerType
  OBVIOUS
<1>1. CASE NextSearch(w)
  <2>1. PICK s \in worker[w].searches :
          worker' = [worker EXCEPT ![w] = [worker[w] EXCEPT !.searches = @ \ {s}, !.todo = Files[s]]]
    BY <1>1 DEF NextSearch
  <2>2. s \in Search /\ Files[s] \subseteq Path
    BY <1>0, DetectionAssumption DEF WorkerType
  <2>3. [worker[w] EXCEPT !.searches = @ \ {s}, !.todo = Files[s]] \in WorkerType
    BY <1>0, <2>2 DEF WorkerType
  <2>4. worker'[w].at = "walk" /\ worker[w].at = "walk"
    BY <1>0, <1>1, <2>1 DEF NextSearch, At, WorkerType
  <2> QED BY <1>1, <2>1, <2>3, <2>4 DEF NextSearch, window
<1>2. CASE Detect(w)
  <2>1. PICK p \in worker[w].todo \cap Known :
          /\ worker' = [worker EXCEPT ![w] = [worker[w] EXCEPT !.todo = @ \ {p},
               !.at = IF detected[p] = "no" THEN "check" ELSE @,
               !.path = IF detected[p] = "no" THEN p ELSE @]]
          /\ detected' = IF detected[p] = "no" THEN [detected EXCEPT ![p] = "known"] ELSE detected
    BY <1>2 DEF Detect
  <2>2. p \in Path
    BY <1>0 DEF WorkerType
  <2>3. worker[w].at = "walk"
    BY <1>2 DEF Detect, At
  <2>4. worker'[w] \in WorkerType
    BY <1>0, <2>1, <2>2 DEF WorkerType
  <2>5. worker'[w].at \in {"walk", "check"} /\ (worker'[w].at = "check" => worker'[w].path \in Path)
    BY <1>0, <2>1, <2>2, <2>3 DEF WorkerType
  <2> QED BY <1>2, <2>1, <2>2, <2>3, <2>4, <2>5 DEF Detect, window
<1>3. CASE Collect(w)
  <2>1. PICK p \in worker[w].todo \ Known :
          worker' = [worker EXCEPT ![w] = [worker[w] EXCEPT !.todo = @ \ {p},
            !.fallback = worker[w].fallback \cup {p},
            !.at = IF Cardinality(worker[w].fallback \cup {p}) >= Batch THEN "batch" ELSE @]]
    BY <1>3 DEF Collect
  <2>2. p \in Path
    BY <1>0 DEF WorkerType
  <2>3. worker[w].at = "walk"
    BY <1>3 DEF Collect, At
  <2>4. worker'[w] \in WorkerType
    BY <1>0, <2>1, <2>2 DEF WorkerType
  <2>5. worker'[w].at \in {"walk", "batch"}
    BY <1>0, <2>1, <2>3 DEF WorkerType
  <2> QED BY <1>3, <2>1, <2>3, <2>4, <2>5 DEF Collect, window
<1>4. CASE Walked(w)
  BY <1>4, MovesOn DEF Moved, Walked, At, window
<1>5. CASE Look(w)
  <2>1. PICK p \in worker[w].fallback :
          worker' = [worker EXCEPT ![w] = [worker[w] EXCEPT !.fallback = @ \ {p},
            !.at = IF Present(p) THEN @ ELSE "add",
            !.path = IF Present(p) THEN @ ELSE p]]
    BY <1>5 DEF Look
  <2>2. p \in Path
    BY <1>0 DEF WorkerType
  <2>3. worker[w].at = "batch"
    BY <1>5 DEF Look, At
  <2>4. worker'[w] \in WorkerType
    BY <1>0, <2>1, <2>2 DEF WorkerType
  <2>5. worker'[w].at \in {"batch", "add"} /\ (worker'[w].at = "add" => worker'[w].path \in Path)
    BY <1>0, <2>1, <2>2, <2>3 DEF WorkerType
  <2> QED BY <1>5, <2>1, <2>3, <2>4, <2>5 DEF Look, window
<1>6. CASE BatchDone(w)
  BY <1>6, MovesOn DEF Moved, BatchDone, At, window
<1>7. CASE Add(w)
  <2>1. worker[w].at = "add" /\ worker[w].path \in Path
    BY <1>7 DEF Add, At
  <2>2. CASE detected[worker[w].path] = "no"
    BY <1>7, <2>1, <2>2, MovesOn DEF Moved, Add, window
  <2>3. CASE detected[worker[w].path] # "no"
    BY <1>7, <2>1, <2>3, MovesOn DEF Moved, Add, window
  <2> QED BY <2>2, <2>3
<1>8. CASE Check(w)
  <2>1. worker[w].at = "check" /\ worker[w].path \in Path
    BY <1>8 DEF Check, At
  <2>2. CASE active
    BY <1>8, <2>1, <2>2, MovesOn DEF Moved, Check, window
  <2>3. CASE ~active
    BY <1>8, <2>1, <2>3, MovesOn DEF Moved, Check, window, Resume
  <2> QED BY <2>2, <2>3
<1>9. CASE Fail(w)
  <2>1. Walking({}) \in WorkerType /\ Walking({}).at = "walk"
    BY DEF Walking, WorkerType
  <2> QED BY <1>9, <2>1 DEF Fail, window
<1> QED BY <1>1, <1>2, <1>3, <1>4, <1>5, <1>6, <1>7, <1>8, <1>9 DEF Silent

-----------------------------------------------------------------------------
\* A worker that has nothing to do does nothing.
LEMMA IdleStays ==
  ASSUME TypeOK, NEW w \in Worker, Scan(w) \/ Fail(w), worker[w] = Walking({})
  PROVE  worker'[w] = Walking({})
<1>1. /\ worker[w].at = "walk" /\ worker[w].searches = {}
      /\ worker[w].todo = {} /\ worker[w].fallback = {}
  BY DEF Walking
<1>2. CASE Fail(w)
  BY <1>2 DEF Fail, TypeOK
<1>3. ~Scan(w)
  BY <1>1 DEF Scan, NextSearch, Detect, Collect, Walked, Look, BatchDone, Add, Check, Push,
              Schedule, Post, At
<1> QED BY <1>2, <1>3

\* So the workers of the rounds to come wait, whatever one of them all does.
LEMMA UnstartedKept ==
  ASSUME TypeOK, Unstarted, NEW w \in Worker, Scan(w) \/ Fail(w), UNCHANGED rounds,
         \A v \in Worker : v # w => worker'[v] = worker[v]
  PROVE  Unstarted'
BY IdleStays DEF Unstarted

\* What the invariant says is kept by a step that leaves the window, what is
\* pending, and who posts or is about to, alone.
LEMMA SilentKeeps ==
  ASSUME IInv, NEW w \in Worker, Silent(w)
  PROVE  IInv'
<1>1. TypeOK /\ UNCHANGED <<pending, scheduled, active, messages, ui, listed, rounds>>
  BY SilentSteps DEF IInv, window
<1>2. TypeOK'
  BY <1>1, SilentSteps DEF TypeOK
<1>3. \A v \in Worker : worker'[v].at \in {"schedule", "post"} <=> worker[v].at \in {"schedule", "post"}
  BY <1>1, SilentSteps
<1>4. \A v \in Worker : worker'[v].at = "post" <=> worker[v].at = "post"
  BY <1>1, SilentSteps
<1>5. Posting' = Posting
  BY <1>4 DEF Posting, At
<1>6. Unstarted'
  BY <1>1, SilentSteps, UnstartedKept DEF IInv, Silent, Scan
<1> QED BY <1>1, <1>2, <1>3, <1>5, <1>6 DEF IInv, ActiveMeansOpen, OneFlush, NothingStranded

\* A worker at one of these steps has a path to report, and what it resumes is
\* neither of them.
LEMMA Reports ==
  ASSUME TypeOK, NEW w \in Worker, worker[w].at \in {"push", "schedule", "post"}
  PROVE  worker[w].path \in Path /\ Resume(worker[w].path) \in {"walk", "batch"}
BY DEF TypeOK, Resume

\* Push: who has added to what is pending is about to see that it is looked at.
LEMMA PushKeeps ==
  ASSUME IInv, NEW w \in Worker, Push(w)
  PROVE  IInv'
<1>1. TypeOK /\ worker[w].at = "push" /\ worker[w].path \in Path
  BY Reports DEF IInv, Push, At
<1>2. Go(w, "schedule", worker[w].path) /\ pending' = pending \cup {worker[w].path}
      /\ UNCHANGED <<detected, scheduled, active, messages, ui, listed, rounds>>
  BY DEF Push, window
<1>3. Moved(w, "schedule")
  BY <1>1, <1>2, MovesOn
<1>4. Posting' = Posting
  BY <1>1, <1>3 DEF Posting, At, Moved
<1>5. TypeOK'
  BY <1>1, <1>2, <1>3 DEF TypeOK, Moved
<1>6. NothingStranded'
  BY <1>3 DEF NothingStranded, Moved
<1>7. Unstarted'
  BY <1>1, <1>2, <1>3, UnstartedKept DEF IInv, Scan, Moved
<1> QED BY <1>2, <1>4, <1>5, <1>6, <1>7 DEF IInv, ActiveMeansOpen, OneFlush

\* Schedule: the flag that is found set stands for a message or for a worker that
\* posts one, and whoever finds it clear becomes that worker.
LEMMA ScheduleKeeps ==
  ASSUME IInv, NEW w \in Worker, Schedule(w)
  PROVE  IInv'
<1>1. TypeOK /\ worker[w].at = "schedule" /\ worker[w].path \in Path
      /\ Resume(worker[w].path) \in {"walk", "batch"}
  BY Reports DEF IInv, Schedule, At
<1>2. UNCHANGED <<detected, pending, active, messages, ui, listed, rounds>>
  BY DEF Schedule
<1>3. CASE active /\ ~scheduled
  <2>1. scheduled' = TRUE /\ Go(w, "post", worker[w].path)
    BY <1>3 DEF Schedule
  <2>2. Moved(w, "post")
    BY <1>1, <2>1, MovesOn
  <2>3. Posting' = Posting \cup {w}
    BY <2>2 DEF Posting, At, Moved
  <2>4. messages = 0 /\ Posting = {}
    BY <1>3 DEF IInv, OneFlush
  <2>5. OneFlush'
    BY <1>2, <2>1, <2>3, <2>4 DEF OneFlush
  <2>6. NothingStranded'
    BY <2>2 DEF NothingStranded, Moved
  <2>7. TypeOK'
    BY <1>1, <1>2, <2>1, <2>2 DEF TypeOK, Moved
  <2>8. Unstarted'
    BY <1>1, <1>2, <2>2, UnstartedKept DEF IInv, Scan, Moved
  <2> QED BY <1>2, <2>5, <2>6, <2>7, <2>8 DEF IInv, ActiveMeansOpen
<1>4. CASE ~(active /\ ~scheduled)
  <2>1. UNCHANGED scheduled /\ Go(w, Resume(worker[w].path), NoPath)
    BY <1>4 DEF Schedule
  <2>2. Moved(w, Resume(worker[w].path))
    BY <1>1, <2>1, MovesOn
  <2>3. Posting' = Posting
    BY <1>1, <2>2 DEF Posting, At, Moved
  <2>4. OneFlush'
    BY <1>2, <2>1, <2>3 DEF IInv, OneFlush
  <2>5. active => messages > 0 \/ \E v \in Worker : worker[v].at = "post"
    BY <1>4 DEF IInv, OneFlush, Posting, At
  <2>6. active => messages > 0 \/ \E v \in Worker : worker'[v].at = "post"
    BY <1>1, <2>2, <2>5 DEF Moved
  <2>7. NothingStranded'
    BY <1>2, <2>6 DEF NothingStranded
  <2>8. TypeOK'
    BY <1>1, <1>2, <2>1, <2>2 DEF TypeOK, Moved
  <2>9. Unstarted'
    BY <1>1, <1>2, <2>2, UnstartedKept DEF IInv, Scan, Moved
  <2> QED BY <1>2, <2>4, <2>7, <2>8, <2>9 DEF IInv, ActiveMeansOpen
<1> QED BY <1>3, <1>4

\* Post: what the worker was to post is in the queue, unless the window is gone.
LEMMA PostKeeps ==
  ASSUME IInv, NEW w \in Worker, Post(w)
  PROVE  IInv'
<1>1. TypeOK /\ worker[w].at = "post" /\ worker[w].path \in Path
      /\ Resume(worker[w].path) \in {"walk", "batch"}
  BY Reports DEF IInv, Post, At
<1>2. /\ UNCHANGED <<detected, pending, scheduled, active, ui, listed, rounds>>
      /\ messages' = IF ui = "gone" THEN messages ELSE messages + 1
      /\ Go(w, Resume(worker[w].path), NoPath)
  BY DEF Post
<1>3. Moved(w, Resume(worker[w].path))
  BY <1>1, <1>2, MovesOn
<1>4. Posting' = Posting \ {w} /\ w \in Posting
  BY <1>1, <1>3 DEF Posting, At, Moved
<1>5. TypeOK'
  BY <1>1, <1>2, <1>3 DEF TypeOK, Moved
<1>6. ASSUME active PROVE scheduled /\ messages = 0 /\ Posting = {w} /\ ui # "gone"
  BY <1>4, <1>6 DEF IInv, OneFlush, ActiveMeansOpen
<1>7. active => scheduled' /\ messages' = 1 /\ Posting' = {}
  BY <1>2, <1>4, <1>6
<1>8. Unstarted'
  BY <1>1, <1>2, <1>3, UnstartedKept DEF IInv, Scan, Moved
<1> QED BY <1>2, <1>5, <1>7, <1>8 DEF IInv, ActiveMeansOpen, OneFlush, NothingStranded

-----------------------------------------------------------------------------
\* A new round leaves the window alone, and those whom it gives something to do
\* had nothing to report.
LEMMA StartRoundKeeps ==
  ASSUME IInv, StartRound
  PROVE  IInv'
<1>1. /\ UNCHANGED <<detected, pending, scheduled, active, messages, ui, listed>>
      /\ rounds < MaxRounds /\ rounds' = rounds + 1
      /\ worker' = [w \in Worker |->
           IF w[1] = rounds + 1 THEN Walking({s \in Search : RootOf[s] = w[2]}) ELSE worker[w]]
  BY DEF StartRound
<1>2. TypeOK /\ rounds \in Nat /\ MaxRounds \in Nat
  BY DetectionAssumption DEF IInv, TypeOK
<1>3. \A w \in Worker : w[1] \in Int
  BY <1>2 DEF Worker
<1>4. \A S \in SUBSET Search : Walking(S) \in WorkerType /\ Walking(S).at = "walk"
  BY DEF Walking, WorkerType
<1>5. \A w \in Worker : w[1] = rounds + 1 => worker'[w].at = "walk" /\ worker[w].at = "walk"
  BY <1>1, <1>2, <1>3, <1>4 DEF IInv, Unstarted
<1>6. \A w \in Worker : w[1] # rounds + 1 => worker'[w] = worker[w]
  BY <1>1
<1>7. Posting' = Posting
  BY <1>5, <1>6 DEF Posting, At
<1>8. worker' \in [Worker -> WorkerType]
  BY <1>1, <1>2, <1>4 DEF TypeOK
<1>9. TypeOK'
  BY <1>1, <1>2, <1>5, <1>6, <1>8 DEF TypeOK
<1>10. Unstarted'
  BY <1>1, <1>2, <1>3, <1>6 DEF IInv, Unstarted
<1>11. \A w \in Worker : worker'[w].at \in {"schedule", "post"} <=> worker[w].at \in {"schedule", "post"}
  BY <1>5, <1>6
<1> QED BY <1>1, <1>7, <1>9, <1>10, <1>11 DEF IInv, ActiveMeansOpen, OneFlush, NothingStranded

\* Flush: it was the only message, and the thread goes on to look.
LEMMA FlushStepKeeps ==
  ASSUME IInv, Flush
  PROVE  IInv'
<1>1. UNCHANGED Posting
  BY DEF Flush, Posting, At
<1>2. TypeOK'
  <2>1. messages' \in Nat
    BY DEF IInv, TypeOK, Flush
  <2>2. scheduled' \in BOOLEAN
    BY DEF IInv, TypeOK, Flush
  <2> QED BY <2>1, <2>2 DEF IInv, TypeOK, Flush
<1>3. active /\ ui = "idle"
  BY DEF IInv, ActiveMeansOpen, Flush
<1>4. messages = 1 /\ Posting = {}
  BY <1>3 DEF IInv, OneFlush, Flush
<1>5. OneFlush'
  BY <1>1, <1>3, <1>4 DEF OneFlush, Flush
<1> QED BY <1>2, <1>3, <1>5 DEF IInv, ActiveMeansOpen, Unstarted, NothingStranded, Flush

\* Take: nothing is pending any more.
LEMMA TakeKeeps ==
  ASSUME IInv, Take
  PROVE  IInv'
BY DEF IInv, TypeOK, ActiveMeansOpen, Unstarted, OneFlush, NothingStranded, Posting, At, Take

\* Recheck: what is pending has a message, its own or that of whoever set the flag.
LEMMA RecheckKeeps ==
  ASSUME IInv, Recheck
  PROVE  IInv'
<1>1. UNCHANGED <<Posting, worker, active, pending, detected, listed, rounds>>
  BY DEF Recheck, Posting, At
<1>2. active /\ ui = "recheck" /\ ui' = "idle"
  BY DEF IInv, ActiveMeansOpen, Recheck
<1>3. TypeOK'
  <2>1. messages' \in Nat
    BY DEF IInv, TypeOK, Recheck
  <2>2. scheduled' \in BOOLEAN
    BY DEF IInv, TypeOK, Recheck
  <2> QED BY <2>1, <2>2 DEF IInv, TypeOK, Recheck
<1>4. CASE pending # {} /\ ~scheduled
  <2>1. messages = 0 /\ Posting = {} /\ scheduled' = TRUE /\ messages' = messages + 1
    BY <1>2, <1>4 DEF IInv, OneFlush, Recheck
  <2> QED BY <1>1, <1>2, <1>3, <2>1 DEF IInv, ActiveMeansOpen, Unstarted, OneFlush, NothingStranded
<1>5. CASE ~(pending # {} /\ ~scheduled)
  <2>1. UNCHANGED <<scheduled, messages>>
    BY <1>5 DEF Recheck
  <2>2. OneFlush'
    BY <1>1, <2>1 DEF IInv, OneFlush
  <2>3. pending # {} => messages > 0 \/ \E w \in Worker : worker[w].at = "post"
    BY <1>2, <1>5 DEF IInv, OneFlush, Posting, At
  <2>4. NothingStranded'
    BY <1>1, <2>1, <2>3 DEF NothingStranded
  <2> QED BY <1>1, <1>2, <1>3, <2>2, <2>4 DEF IInv, ActiveMeansOpen, Unstarted
<1> QED BY <1>4, <1>5

\* Destroy and Clear: there is no list any more.
LEMMA EndKeeps ==
  ASSUME IInv, Destroy \/ Clear
  PROVE  IInv'
<1>1. ~active'
  BY DEF IInv, ActiveMeansOpen, Destroy, Clear
<1>2. ActiveMeansOpen' /\ Unstarted' /\ OneFlush' /\ NothingStranded'
  BY <1>1 DEF IInv, ActiveMeansOpen, Unstarted, OneFlush, NothingStranded, Destroy, Clear
<1>3. active' \in BOOLEAN
  BY DEF IInv, TypeOK, Destroy, Clear
<1>4. TypeOK'
  BY <1>3 DEF IInv, TypeOK, Destroy, Clear
<1> QED BY <1>2, <1>4 DEF IInv

\* Before the first round nothing is detected, pending or scheduled.
LEMMA InitHolds == Init => IInv
<1> SUFFICES ASSUME Init PROVE IInv
  OBVIOUS
<1>1. Walking({}) \in WorkerType /\ Walking({}).at = "walk"
  BY DEF Walking, WorkerType
<1>2. \A w \in Worker : worker[w] = Walking({})
  BY DEF Init
<1>3. Posting = {}
  BY <1>1, <1>2 DEF Posting, At
<1>4. TypeOK
  <2>1. rounds \in 0 .. MaxRounds
    BY DetectionAssumption DEF Init
  <2>2. worker \in [Worker -> WorkerType]
    BY <1>1 DEF Init
  <2>3. scheduled \in BOOLEAN /\ active \in BOOLEAN
    BY DEF Init
  <2> QED BY <1>1, <1>2, <2>1, <2>2, <2>3 DEF Init, TypeOK
<1> QED BY <1>2, <1>3, <1>4 DEF Init, IInv, ActiveMeansOpen, Unstarted, OneFlush, NothingStranded

\* Every step keeps the invariant.
LEMMA StepKeeps == IInv /\ [Next]_vars => IInv'
<1> SUFFICES ASSUME IInv, [Next]_vars PROVE IInv'
  OBVIOUS
<1>1. ASSUME NEW w \in Worker, Scan(w) \/ Fail(w) PROVE IInv'
  BY <1>1, SilentKeeps, PushKeeps, ScheduleKeeps, PostKeeps DEF Silent, Scan
<1>2. CASE Window
  BY <1>2, FlushStepKeeps, TakeKeeps, RecheckKeeps, EndKeeps DEF Window
<1>3. CASE StartRound
  BY <1>3, StartRoundKeeps
<1>4. CASE Destroy
  BY <1>4, EndKeeps
<1>5. CASE UNCHANGED vars
  BY <1>5 DEF vars, IInv, TypeOK, ActiveMeansOpen, Unstarted, OneFlush, NothingStranded, Posting, At
<1> QED BY <1>1, <1>2, <1>3, <1>4, <1>5 DEF Next

\* The tables, the flags and the workers keep their types: default_view.cpp never
\* reports a path that it does not have.
THEOREM DetectionTypeCorrect == Spec => []TypeOK
<1>1. IInv => TypeOK
  BY DEF IInv
<1> QED BY <1>1, InitHolds, StepKeeps, PTL DEF Spec

\* However many workers detect something at once, one WM_FLUSH_DETECTIONS at most
\* is queued or about to be (schedule_detection_flush), and whatever is pending has
\* a message that will take it, or a thread that is on its way to see to one
\* (wm_flush_detections).
THEOREM DetectionFlushUnderWay == Spec => []FlushUnderWay
<1>1. IInv => FlushUnderWay
  BY DEF IInv, FlushUnderWay
<1> QED BY <1>1, InitHolds, StepKeeps, PTL DEF Spec

-----------------------------------------------------------------------------
(***************************************************************************)
(* The update of the program (AppUpdate).                                  *)
(***************************************************************************)
WindowType ==
  [at : {"unborn", "open", "closed", "replaced"}, code : Int, updating : BOOLEAN, enabled : BOOLEAN]

AttemptType ==
  [window : {0} \cup MainWindow, channel : {"none"} \cup Channel,
   task : {"none", "detect", "poll", "ask", "progress"},
   lookup : {"none", "fetch", "flag", "year", "week"}, found : Nat \X Nat,
   work : {"none", "download", "unload", "await", "free", "install", "register", "finish", "over"},
   version : Nat \X Nat, thread : BOOLEAN, target : BOOLEAN]

InfoType == [available : BOOLEAN, version : Nat \X Nat]
ApcType  == [does : {"destroy", "create"}, window : {0} \cup MainWindow]

UpdateTypeOK ==
  /\ embedded \in BOOLEAN
  /\ installed \subseteq [channel : Channel, name : Nat \X Nat, holds : Nat \X Nat]
  /\ core \in Nat /\ loads \in Nat /\ class \in Int
  /\ mainWindow \in [MainWindow -> WindowType]
  /\ closing \in [Load -> BOOLEAN]
  /\ info \in [Channel -> InfoType]
  /\ attempt \in [Attempt -> AttemptType]
  /\ apcs \in Seq(ApcType)
  /\ quit \in BOOLEAN /\ raced \in BOOLEAN

\* An attempt is alive until it gives up or has made the main thread open a window.
Asking(k) == attempt[k].task \in {"detect", "poll", "ask"}
Live(k)   == Asking(k) \/ Replacing(k)

\* A window is about to be opened.
Creating == \E i \in DOMAIN apcs : apcs[i].does = "create"

\* An attempt that was not made yet, and one whose user was not asked yet.
Unused   == \A k \in Attempt : IF attempt[k].window = 0 THEN attempt[k] = Unmade
                                                      ELSE attempt[k].channel \in Channel
WorkLast == \A k \in Attempt : Asking(k) => attempt[k].work = "none"

\* There is one window at most, and one attempt, which is about that window and
\* has told it so: Trigger finds either no window or that an update is in progress.
OneOpen    == \A v, w \in MainWindow : IsOpen(v) /\ IsOpen(w) => v = w
OneLive    == \A j, k \in Attempt : Live(j) /\ Live(k) => j = k
LiveWindow == \A k \in Attempt, w \in MainWindow :
                Live(k) /\ IsOpen(w) => attempt[k].window = w /\ mainWindow[w].updating

\* A new window is opened when there is neither, and once, with the code of the core.
CreateOnce  == \A i, j \in DOMAIN apcs : apcs[i].does = "create" /\ apcs[j].does = "create" => i = j
CreateAlone == Creating => /\ \A w \in MainWindow : ~IsOpen(w)
                           /\ \A k \in Attempt : ~Live(k)
                           /\ class = core

\* Without a class there is no window, and an update that is to register it again.
Unregistered ==
  class = NoClass => /\ \A w \in MainWindow : ~IsOpen(w)
                     /\ ~Creating
                     /\ \A k \in Attempt : Live(k) => attempt[k].work \in {"install", "register"}
Awaited == \A k \in Attempt : attempt[k].work = "free" => \A w \in MainWindow : ~IsOpen(w)

Turns ==
  /\ UpdateTypeOK /\ Unused /\ WorkLast
  /\ OneOpen /\ OneLive /\ LiveWindow
  /\ CreateOnce /\ CreateAlone /\ Unregistered /\ Awaited
  /\ WindowCodeLoaded

\* A class that is not the core's: the window that has it is the last to be updated.
LastClass ==
  class \notin {core, NoClass} =>
    /\ \A k \in Attempt : Live(k) => attempt[k].work = "register"
    /\ \A w \in MainWindow : IsOpen(w) => mainWindow[w].updating

\* A window that is to be destroyed is one whose thread the work has found.
Found ==
  \A k \in Attempt :
    attempt[k].work \in {"unload", "await"} /\ IsOpen(attempt[k].window) => attempt[k].thread
Destroying ==
  \A i \in DOMAIN apcs, w \in {0} \cup MainWindow :
    apcs[i].does = "destroy" /\ apcs[i].window = w =>
      /\ w \in MainWindow /\ Born(w)
      /\ IsOpen(w) => \E k \in Attempt : /\ attempt[k].work = "await"
                                         /\ attempt[k].window = w /\ attempt[k].thread

\* Windows are born in order, each after an attempt to replace the one before, so
\* that there is one left for the next.
Latest(w) == w \in MainWindow /\ Born(w) /\ \A v \in MainWindow : Born(v) => v <= w
Births ==
  /\ \A v, w \in MainWindow : v < w /\ Born(w) => Born(v)
  /\ \A w \in MainWindow : IsOpen(w) => Latest(w)
  /\ \A w \in MainWindow : w > 1 /\ Born(w) => \E k \in Attempt : attempt[k].window = w - 1
  /\ Creating => \E k \in Attempt : Latest(attempt[k].window)
Attempts ==
  /\ \A j, k \in Attempt : j < k /\ attempt[k].window # 0 => attempt[j].window # 0
  /\ \A k \in Attempt : attempt[k].window <= k
  /\ \A k \in Attempt : Live(k) => Latest(attempt[k].window)

\* There is a window, or one will be opened, or none is meant to be.
WindowComes ==
  \/ quit
  \/ \E w \in MainWindow : IsOpen(w)
  \/ Creating
  \/ \E w \in MainWindow : mainWindow[w].at = "closed" /\ mainWindow[w].updating
  \/ \E k \in Attempt : ~attempt[k].target
  \/ \E k \in Attempt : attempt[k].work \in {"await", "free"} /\ attempt[k].thread
  \/ \E k \in Attempt : /\ attempt[k].work \in {"install", "register"} /\ attempt[k].thread
                        /\ class = NoClass

Replacement == LastClass /\ Found /\ Destroying /\ Births /\ Attempts /\ WindowComes

\* What was found and what is kept of it.
Good(v)   == v = Zero \/ Later(v, OwnVersion)
FoundIsLater ==
  \A k \in Attempt : attempt[k].lookup \in {"flag", "year", "week"} =>
    attempt[k].found \in Version /\ Later(attempt[k].found, OwnVersion)
LooksAlone ==
  \A j, k \in Attempt :
    attempt[j].lookup # "none" /\ attempt[k].lookup # "none" /\ attempt[j].channel = attempt[k].channel
      => j = k
HalfWritten ==
  /\ \A c \in Channel : \/ Good(info[c].version)
                        \/ \E k \in Attempt : attempt[k].lookup = "week" /\ attempt[k].channel = c
  /\ \A k \in Attempt : attempt[k].lookup = "week" => info[attempt[k].channel].version[1] = attempt[k].found[1]
Unchanged ==
  \A k \in Attempt : attempt[k].work \in {"unload", "await", "free", "install"} =>
    ~LooksUp(attempt[k].channel) /\ info[attempt[k].channel].version = attempt[k].version
Versions ==
  /\ FoundIsLater
  /\ ~raced => /\ LooksAlone /\ HalfWritten /\ Unchanged
               /\ \A k \in Attempt : Good(attempt[k].version)
               /\ \A e \in installed : e.name = e.holds
-----------------------------------------------------------------------------
\* WindowOf changes no more than the field it is told to.
LEMMA WindowOfKeeps ==
  ASSUME UpdateTypeOK, NEW k \in Attempt, NEW value \in BOOLEAN, NEW field \in {"updating", "enabled"}
  PROVE  /\ WindowOf(k, field, value) \in [MainWindow -> WindowType]
         /\ \A w \in MainWindow : /\ WindowOf(k, field, value)[w].at = mainWindow[w].at
                                  /\ WindowOf(k, field, value)[w].code = mainWindow[w].code
                                  /\ (field = "enabled" \/ attempt[k].window # w \/ ~IsOpen(w)) =>
                                       WindowOf(k, field, value)[w].updating = mainWindow[w].updating
BY DEF UpdateTypeOK, WindowType, WindowOf, IsOpen

\* The attempt k goes on, and nothing but the part that moves changes.
Goes(k) == attempt' \in [Attempt -> AttemptType] /\ \A j \in Attempt : j # k => attempt'[j] = attempt[j]

Keeps(k) ==
  /\ attempt'[k].window = attempt[k].window /\ attempt'[k].channel = attempt[k].channel
  /\ attempt'[k].found = attempt[k].found /\ attempt'[k].version = attempt[k].version
  /\ attempt'[k].thread = attempt[k].thread /\ attempt'[k].target = attempt[k].target

\* Moving one part of an attempt leaves the others alone.
LEMMA MoveTask ==
  ASSUME UpdateTypeOK, NEW k \in Attempt, NEW at \in {"none", "detect", "poll", "ask", "progress"},
         Move(k, "task", at)
  PROVE  /\ Goes(k) /\ Keeps(k) /\ attempt'[k].task = at
         /\ attempt'[k].lookup = attempt[k].lookup /\ attempt'[k].work = attempt[k].work
<1> DEFINE r == [attempt[k] EXCEPT !.task = at]
<1>1. attempt \in [Attempt -> AttemptType] /\ attempt' = [attempt EXCEPT ![k] = r]
  BY DEF UpdateTypeOK, Move
<1>2. /\ r \in AttemptType /\ r.task = at
      /\ r.lookup = attempt[k].lookup /\ r.work = attempt[k].work
      /\ r.window = attempt[k].window /\ r.channel = attempt[k].channel
      /\ r.found = attempt[k].found /\ r.version = attempt[k].version
      /\ r.thread = attempt[k].thread /\ r.target = attempt[k].target
  <2>1. attempt[k] \in AttemptType
    BY <1>1
  <2> QED BY <2>1 DEF AttemptType
<1> HIDE DEF r
<1> QED BY <1>1, <1>2 DEF Goes, Keeps

LEMMA MoveLookup ==
  ASSUME UpdateTypeOK, NEW k \in Attempt, NEW at \in {"none", "fetch", "flag", "year", "week"},
         Move(k, "lookup", at)
  PROVE  /\ Goes(k) /\ Keeps(k) /\ attempt'[k].lookup = at
         /\ attempt'[k].task = attempt[k].task /\ attempt'[k].work = attempt[k].work
<1> DEFINE r == [attempt[k] EXCEPT !.lookup = at]
<1>1. attempt \in [Attempt -> AttemptType] /\ attempt' = [attempt EXCEPT ![k] = r]
  BY DEF UpdateTypeOK, Move
<1>2. /\ r \in AttemptType /\ r.lookup = at
      /\ r.task = attempt[k].task /\ r.work = attempt[k].work
      /\ r.window = attempt[k].window /\ r.channel = attempt[k].channel
      /\ r.found = attempt[k].found /\ r.version = attempt[k].version
      /\ r.thread = attempt[k].thread /\ r.target = attempt[k].target
  <2>1. attempt[k] \in AttemptType
    BY <1>1
  <2> QED BY <2>1 DEF AttemptType
<1> HIDE DEF r
<1> QED BY <1>1, <1>2 DEF Goes, Keeps

LEMMA MoveWork ==
  ASSUME UpdateTypeOK, NEW k \in Attempt,
         NEW at \in {"unload", "await", "free", "install", "register", "finish", "over"},
         Move(k, "work", at)
  PROVE  /\ Goes(k) /\ Keeps(k) /\ attempt'[k].work = at
         /\ attempt'[k].task = attempt[k].task /\ attempt'[k].lookup = attempt[k].lookup
<1> DEFINE r == [attempt[k] EXCEPT !.work = at]
<1>1. attempt \in [Attempt -> AttemptType] /\ attempt' = [attempt EXCEPT ![k] = r]
  BY DEF UpdateTypeOK, Move
<1>2. /\ r \in AttemptType /\ r.work = at
      /\ r.task = attempt[k].task /\ r.lookup = attempt[k].lookup
      /\ r.window = attempt[k].window /\ r.channel = attempt[k].channel
      /\ r.found = attempt[k].found /\ r.version = attempt[k].version
      /\ r.thread = attempt[k].thread /\ r.target = attempt[k].target
  <2>1. attempt[k] \in AttemptType
    BY <1>1
  <2> QED BY <2>1 DEF AttemptType
<1> HIDE DEF r
<1> QED BY <1>1, <1>2 DEF Goes, Keeps

\* wWinMain leaves a state of the right type.
LEMMA UpdateInitType == UpdateInit => UpdateTypeOK
<1> SUFFICES ASSUME UpdateInit PROVE UpdateTypeOK
  OBVIOUS
<1>1. core \in {0, 1} /\ loads = core /\ class = core
  BY DEF UpdateInit
<1>2. mainWindow \in [MainWindow -> WindowType]
  <2>1. Unborn \in WindowType
    BY DEF Unborn, WindowType
  <2> DEFINE p == [Unborn EXCEPT !.at = "open"]
  <2>2. p \in WindowType
    BY <2>1 DEF WindowType
  <2>3. [p EXCEPT !.code = core] \in WindowType
    <3> HIDE DEF p
    <3> QED BY <1>1, <2>2 DEF WindowType
  <2> QED BY <2>1, <2>3 DEF UpdateInit
<1>3. attempt \in [Attempt -> AttemptType]
  <2>1. Unmade \in AttemptType
    BY DEF Unmade, AttemptType, Zero
  <2> QED BY <2>1 DEF UpdateInit
<1>4. installed \subseteq [channel : Channel, name : Nat \X Nat, holds : Nat \X Nat]
  <2>1. \A v \in Version : v \in Nat \X Nat
    BY UpdateAssumption
  <2>2. PICK names \in {{}} \cup {{v} : v \in Version} : installed = {Installation(v, v) : v \in names}
    BY DEF UpdateInit
  <2>3. \A v \in names : v \in Nat \X Nat
    BY <2>1, <2>2
  <2> QED BY <2>2, <2>3, UpdateAssumption DEF Installation
<1>5. info \in [Channel -> InfoType]
  BY DEF UpdateInit, Zero, InfoType
<1>6. apcs \in Seq(ApcType)
  <2>1. apcs = <<>>
    BY DEF UpdateInit
  <2> QED BY <2>1
<1>7. closing \in [Load -> BOOLEAN] /\ quit \in BOOLEAN /\ raced \in BOOLEAN /\ embedded \in BOOLEAN
  BY DEF UpdateInit
<1> QED BY <1>1, <1>2, <1>3, <1>4, <1>5, <1>6, <1>7 DEF UpdateTypeOK

\* What changes when the user asks for an update.
Triggered(w, c, k) ==
  /\ UpdateTypeOK' /\ IsOpen(w) /\ ~mainWindow[w].updating /\ NextAttempt(k)
  /\ UNCHANGED <<embedded, installed, core, class, info, apcs, quit, raced>>
  /\ \A v \in MainWindow : /\ mainWindow'[v].at = mainWindow[v].at
                           /\ mainWindow'[v].code = mainWindow[v].code
                           /\ mainWindow'[v].updating = (IF v = w THEN TRUE ELSE mainWindow[v].updating)
  /\ Goes(k) /\ attempt'[k].window = w /\ attempt'[k].channel = c /\ attempt'[k].task = "detect"
  /\ attempt'[k].work = attempt[k].work /\ attempt'[k].lookup = attempt[k].lookup
  /\ attempt'[k].version = attempt[k].version /\ attempt'[k].target = attempt[k].target

\* The user asks for an update.
LEMMA TriggerSteps ==
  ASSUME UpdateTypeOK, NEW w \in MainWindow, NEW c \in Channel, NEW k \in Attempt, Trigger(w, c, k)
  PROVE  Triggered(w, c, k)
<1> DEFINE p == [attempt[k] EXCEPT !.window = w]
           q == [p EXCEPT !.channel = c]
           r == [q EXCEPT !.task = "detect"]
<1>1. attempt \in [Attempt -> AttemptType] /\ attempt' = [attempt EXCEPT ![k] = r]
  BY DEF UpdateTypeOK, Trigger
<1>2. /\ r \in AttemptType /\ r.window = w /\ r.channel = c /\ r.task = "detect"
      /\ r.work = attempt[k].work /\ r.lookup = attempt[k].lookup
      /\ r.version = attempt[k].version /\ r.target = attempt[k].target
  <2>1. p \in AttemptType /\ p.window = w /\ \A x \in {"task", "lookup", "work", "version", "target"} : p[x] = attempt[k][x]
    BY <1>1 DEF AttemptType
  <2> HIDE DEF p
  <2>2. q \in AttemptType /\ q.window = w /\ q.channel = c /\ \A x \in {"task", "lookup", "work", "version", "target"} : q[x] = p[x]
    BY <2>1 DEF AttemptType
  <2> HIDE DEF q
  <2>3. r \in AttemptType /\ r.window = w /\ r.channel = c /\ r.task = "detect" /\ \A x \in {"lookup", "work", "version", "target"} : r[x] = q[x]
    BY <2>2 DEF AttemptType
  <2> QED BY <2>1, <2>2, <2>3
<1>3. Goes(k) /\ attempt'[k] = r
  BY <1>1, <1>2 DEF Goes
<1>4. /\ mainWindow' \in [MainWindow -> WindowType]
      /\ \A v \in MainWindow : /\ mainWindow'[v].at = mainWindow[v].at
                               /\ mainWindow'[v].code = mainWindow[v].code
                               /\ mainWindow'[v].updating = (IF v = w THEN TRUE ELSE mainWindow[v].updating)
  BY DEF UpdateTypeOK, Trigger, WindowType
<1>5. /\ UNCHANGED <<embedded, installed, core, loads, class, closing, info, apcs, quit, raced>>
      /\ IsOpen(w) /\ ~mainWindow[w].updating /\ NextAttempt(k)
  BY DEF Trigger, disk, code
<1>6. UpdateTypeOK'
  BY <1>3, <1>4, <1>5 DEF UpdateTypeOK, Goes
<1> QED BY <1>2, <1>3, <1>4, <1>5, <1>6 DEF Triggered

\* What the task does when there is no update.
LEMMA GivesUp ==
  ASSUME UpdateTypeOK, NEW k \in Attempt, attempt[k].task \in {"poll", "ask"}, Move(k, "task", "none"),
         mainWindow' = WindowOf(k, "updating", FALSE),
         UNCHANGED <<disk, code, closing, info, apcs, quit, raced>>
  PROVE  /\ UpdateTypeOK' /\ Goes(k) /\ Keeps(k) /\ Asking(k) /\ ~Asking(k)'
         /\ UNCHANGED <<embedded, installed, core, class, info, apcs, quit, raced>>
         /\ \A w \in MainWindow : /\ mainWindow'[w].at = mainWindow[w].at
                                  /\ mainWindow'[w].code = mainWindow[w].code
         /\ attempt'[k].work = attempt[k].work /\ attempt'[k].lookup = attempt[k].lookup
         /\ \A w \in MainWindow : mainWindow'[w].updating # mainWindow[w].updating =>
              w = attempt[k].window /\ IsOpen(w)
<1>1. /\ Goes(k) /\ Keeps(k) /\ attempt'[k].task = "none"
      /\ attempt'[k].work = attempt[k].work /\ attempt'[k].lookup = attempt[k].lookup
  BY MoveTask
<1>2. /\ mainWindow' \in [MainWindow -> WindowType]
      /\ \A w \in MainWindow : /\ mainWindow'[w].at = mainWindow[w].at
                               /\ mainWindow'[w].code = mainWindow[w].code
                               /\ attempt[k].window # w \/ ~IsOpen(w) => mainWindow'[w].updating = mainWindow[w].updating
  BY WindowOfKeeps
<1>3. UNCHANGED <<embedded, installed, core, loads, class, closing, info, apcs, quit, raced>>
  BY DEF disk, code
<1>4. UpdateTypeOK'
  BY <1>1, <1>2, <1>3 DEF UpdateTypeOK, Goes
<1> QED BY <1>1, <1>2, <1>3, <1>4 DEF Asking

\* The steps of the task that asks the user: the attempt is no longer alive when it
\* tells the window that there is no update, and goes on with the work otherwise.
LEMMA TaskSteps ==
  ASSUME UpdateTypeOK, NEW k \in Attempt, Task(k)
  PROVE  /\ UpdateTypeOK' /\ Goes(k) /\ Keeps(k)
         /\ UNCHANGED <<embedded, installed, core, class, apcs, quit>>
         /\ \A w \in MainWindow : /\ mainWindow'[w].at = mainWindow[w].at
                                  /\ mainWindow'[w].code = mainWindow[w].code
         /\ attempt[k].task # "none" /\ (Asking(k)' => Asking(k))
         /\ attempt'[k].work # attempt[k].work => Asking(k) /\ ~Asking(k)' /\ attempt'[k].work = "download"
         /\ \A w \in MainWindow : mainWindow'[w].updating # mainWindow[w].updating =>
              w = attempt[k].window /\ IsOpen(w) /\ Asking(k) /\ ~Asking(k)' /\ attempt'[k].work = attempt[k].work
         /\ DetectUpdate(k) \/ (attempt'[k].lookup = attempt[k].lookup /\ UNCHANGED <<info, raced>>)
<1>1. CASE DetectUpdate(k)
  <2> DEFINE p == [attempt[k] EXCEPT !.task = "poll"]
             r == [p EXCEPT !.lookup = "fetch"]
  <2>1. attempt \in [Attempt -> AttemptType] /\ attempt' = [attempt EXCEPT ![k] = r]
    BY <1>1 DEF UpdateTypeOK, DetectUpdate
  <2>2. /\ r \in AttemptType /\ r.task = "poll" /\ r.work = attempt[k].work
        /\ \A x \in {"window", "channel", "found", "version", "thread", "target"} : r[x] = attempt[k][x]
    <3>1. /\ p \in AttemptType /\ p.task = "poll"
          /\ \A x \in {"window", "channel", "found", "version", "thread", "target", "work"} : p[x] = attempt[k][x]
      BY <2>1 DEF AttemptType
    <3> HIDE DEF p
    <3> QED BY <3>1 DEF AttemptType
  <2> HIDE DEF r
  <2>3. Goes(k) /\ Keeps(k) /\ attempt'[k].task = "poll" /\ attempt'[k].work = attempt[k].work
    BY <2>1, <2>2 DEF Goes, Keeps
  <2>4. info' \in [Channel -> InfoType]
    BY <1>1 DEF DetectUpdate, UpdateTypeOK, InfoType
  <2>5. /\ UNCHANGED <<embedded, installed, core, loads, class, mainWindow, closing, apcs, quit>>
        /\ attempt[k].task = "detect" /\ raced' \in BOOLEAN
    BY <1>1 DEF DetectUpdate, Doing, UpdateTypeOK, disk, code
  <2>6. UpdateTypeOK'
    BY <2>3, <2>4, <2>5 DEF UpdateTypeOK, Goes
  <2>7. Asking(k)
    BY <2>5 DEF Asking
  <2> QED BY <1>1, <2>3, <2>5, <2>6, <2>7
<1>2. CASE Poll(k)
  <2>1. attempt[k].task = "poll"
    BY <1>2 DEF Poll, Doing
  <2>2. CASE info[attempt[k].channel].available
    BY <1>2, <2>1, <2>2, MoveTask DEF Poll, UpdateTypeOK, Goes, Asking, disk, code
  <2>3. CASE ~info[attempt[k].channel].available
    <3>1. Move(k, "task", "none") /\ mainWindow' = WindowOf(k, "updating", FALSE)
      BY <1>2, <2>3 DEF Poll
    <3> QED BY <1>2, <2>1, <3>1, GivesUp DEF Poll
  <2> QED BY <2>2, <2>3
<1>3. CASE Decline(k)
  BY <1>3, GivesUp DEF Decline, Doing
<1>4. CASE Accept(k)
  <2> DEFINE p == [attempt[k] EXCEPT !.task = "progress"]
             at == IF info[attempt[k].channel].available THEN "download" ELSE attempt[k].work
             r == [p EXCEPT !.work = at]
  <2>1. attempt \in [Attempt -> AttemptType] /\ attempt' = [attempt EXCEPT ![k] = r]
    BY <1>4 DEF UpdateTypeOK, Accept, AttemptType
  <2>2. /\ r \in AttemptType /\ r.task = "progress" /\ r.work = at
        /\ \A x \in {"window", "channel", "found", "version", "thread", "target", "lookup"} : r[x] = attempt[k][x]
    <3>1. /\ p \in AttemptType /\ p.task = "progress" /\ p.work = attempt[k].work
          /\ \A x \in {"window", "channel", "found", "version", "thread", "target", "lookup"} : p[x] = attempt[k][x]
      BY <2>1 DEF AttemptType
    <3> HIDE DEF p
    <3> QED BY <2>1, <3>1 DEF AttemptType
  <2> HIDE DEF r
  <2>3. /\ Goes(k) /\ Keeps(k) /\ attempt'[k].task = "progress" /\ attempt'[k].work = at
        /\ attempt'[k].lookup = attempt[k].lookup
    BY <2>1, <2>2 DEF Goes, Keeps
  <2>4. closing' \in [Load -> BOOLEAN]
    BY <1>4 DEF Accept, UpdateTypeOK
  <2>5. mainWindow' = mainWindow \/ mainWindow' = WindowOf(k, "enabled", FALSE)
    BY <1>4 DEF Accept
  <2>6. /\ mainWindow' \in [MainWindow -> WindowType]
        /\ \A w \in MainWindow : /\ mainWindow'[w].at = mainWindow[w].at
                                 /\ mainWindow'[w].code = mainWindow[w].code
                                 /\ mainWindow'[w].updating = mainWindow[w].updating
    <3>1. CASE mainWindow' = mainWindow
      BY <3>1 DEF UpdateTypeOK
    <3>2. CASE mainWindow' = WindowOf(k, "enabled", FALSE)
      BY <3>2, WindowOfKeeps
    <3> QED BY <2>5, <3>1, <3>2
  <2>7. /\ UNCHANGED <<embedded, installed, core, loads, class, info, apcs, quit, raced>>
        /\ attempt[k].task = "ask"
    BY <1>4 DEF Accept, Doing, disk, code
  <2>8. UpdateTypeOK'
    BY <2>3, <2>4, <2>6, <2>7 DEF UpdateTypeOK, Goes
  <2> QED BY <2>3, <2>6, <2>7, <2>8 DEF Asking
<1>5. CASE DialogCallback(k)
  BY <1>5, MoveTask DEF DialogCallback, UpdateTypeOK, Goes, Doing, Asking, disk, code
<1>6. CASE CloseDialog(k)
  BY <1>6, MoveTask DEF CloseDialog, UpdateTypeOK, Goes, Doing, Asking, disk, code
<1> QED BY <1>1, <1>2, <1>3, <1>4, <1>5, <1>6 DEF Task

\* A look-up is about the version, and about nothing else.
LEMMA LookupSteps ==
  ASSUME UpdateTypeOK, NEW k \in Attempt, Fetch(k) \/ Store(k)
  PROVE  /\ UpdateTypeOK' /\ Goes(k)
         /\ UNCHANGED <<embedded, installed, core, class, mainWindow, apcs, quit>>
         /\ attempt[k].lookup # "none"
         /\ attempt'[k].window = attempt[k].window /\ attempt'[k].channel = attempt[k].channel
         /\ attempt'[k].version = attempt[k].version /\ attempt'[k].thread = attempt[k].thread
         /\ attempt'[k].target = attempt[k].target
         /\ attempt'[k].task = attempt[k].task /\ attempt'[k].work = attempt[k].work
<1>1. CASE Fetch(k)
  <2>1. CASE Move(k, "lookup", "none")
    BY <1>1, <2>1, MoveLookup DEF Fetch, UpdateTypeOK, Goes, Keeps, Doing, disk, code
  <2>2. ASSUME NEW v \in Version,
               attempt' = [attempt EXCEPT ![k].found = v,
                 ![k].lookup = IF WeekTotal(v) > WeekTotal(OwnVersion) THEN "flag" ELSE "none"]
        PROVE  /\ Goes(k) /\ attempt'[k].window = attempt[k].window /\ attempt'[k].channel = attempt[k].channel
               /\ attempt'[k].version = attempt[k].version /\ attempt'[k].thread = attempt[k].thread
               /\ attempt'[k].target = attempt[k].target
               /\ attempt'[k].task = attempt[k].task /\ attempt'[k].work = attempt[k].work
    <3> DEFINE p == [attempt[k] EXCEPT !.found = v]
               at == IF WeekTotal(v) > WeekTotal(OwnVersion) THEN "flag" ELSE "none"
               r == [p EXCEPT !.lookup = at]
    <3>1. attempt \in [Attempt -> AttemptType] /\ attempt' = [attempt EXCEPT ![k] = r]
      BY <2>2 DEF UpdateTypeOK
    <3>2. v \in Nat \X Nat
      BY UpdateAssumption
    <3>3. /\ p \in AttemptType
          /\ \A x \in {"window", "channel", "version", "thread", "target", "task", "work"} : p[x] = attempt[k][x]
      <4>1. attempt[k] \in AttemptType
        BY <3>1
      <4> QED BY <3>2, <4>1 DEF AttemptType
    <3> HIDE DEF p
    <3>4. /\ r \in AttemptType
          /\ \A x \in {"window", "channel", "version", "thread", "target", "task", "work"} : r[x] = attempt[k][x]
      BY <3>3 DEF AttemptType
    <3> HIDE DEF r
    <3> QED BY <3>1, <3>4 DEF Goes
  <2> QED BY <1>1, <2>1, <2>2 DEF Fetch, UpdateTypeOK, Goes, Doing, disk, code
<1>2. CASE Store(k)
  <2>1. PICK at \in {"year", "week", "none"} : Move(k, "lookup", at)
    BY <1>2 DEF Store
  <2>2. info' \in [Channel -> InfoType]
    <3>1. attempt[k].found \in Nat \X Nat /\ info \in [Channel -> InfoType]
      BY DEF UpdateTypeOK, AttemptType
    <3> DEFINE c == attempt[k].channel
               v == attempt[k].found
    <3>2. \/ info' = [info EXCEPT ![c].available = TRUE]
          \/ info' = [info EXCEPT ![c].version[1] = v[1]]
          \/ info' = [info EXCEPT ![c].version[2] = v[2]]
      BY <1>2 DEF Store
    <3> HIDE DEF c, v
    <3>3. v \in Nat \X Nat
      BY <3>1 DEF v
    <3>4. CASE info' = [info EXCEPT ![c].available = TRUE]
      BY <3>1, <3>4 DEF InfoType
    <3>5. CASE info' = [info EXCEPT ![c].version[1] = v[1]]
      <4>1. c \in Channel => [info[c] EXCEPT !.version[1] = v[1]] \in InfoType
        BY <3>1, <3>3 DEF InfoType
      <4> QED BY <3>1, <3>5, <4>1
    <3>6. CASE info' = [info EXCEPT ![c].version[2] = v[2]]
      <4>1. c \in Channel => [info[c] EXCEPT !.version[2] = v[2]] \in InfoType
        BY <3>1, <3>3 DEF InfoType
      <4> QED BY <3>1, <3>6, <4>1
    <3> QED BY <3>2, <3>4, <3>5, <3>6
  <2> QED BY <1>2, <2>1, <2>2, MoveLookup DEF Store, UpdateTypeOK, Goes, Keeps, Doing, disk, code
<1> QED BY <1>1, <1>2

\* The steps of the work, one by one.
Elsewhere(k) == attempt'[k].task = attempt[k].task /\ attempt'[k].lookup = attempt[k].lookup

WindowsStay ==
  \A w \in MainWindow : /\ mainWindow'[w].at = mainWindow[w].at
                        /\ mainWindow'[w].code = mainWindow[w].code
                        /\ mainWindow'[w].updating = mainWindow[w].updating

\* The version is read and its file downloaded, or the work ends.
LEMMA DownloadSteps ==
  ASSUME UpdateTypeOK, NEW k \in Attempt, Download(k)
  PROVE  /\ UpdateTypeOK' /\ Goes(k) /\ Elsewhere(k) /\ WindowsStay
         /\ UNCHANGED <<embedded, installed, core, class, info, apcs, quit>>
         /\ raced' = (raced \/ LooksUp(attempt[k].channel))
         /\ attempt[k].work = "download"
         /\ attempt'[k].window = attempt[k].window /\ attempt'[k].channel = attempt[k].channel
         /\ attempt'[k].target = attempt[k].target
         /\ \/ attempt'[k].work = "finish" /\ attempt'[k].version = attempt[k].version
            \/ /\ attempt'[k].work \in {"unload", "install"}
               /\ attempt'[k].version = info[attempt[k].channel].version
               /\ attempt'[k].version \in Version
               /\ attempt'[k].thread = IsOpen(attempt[k].window)
<1> DEFINE v == info[attempt[k].channel].version
<1>1. /\ UNCHANGED <<embedded, installed, core, loads, class, closing, info, apcs, quit>>
      /\ raced' = (raced \/ LooksUp(attempt[k].channel)) /\ attempt[k].work = "download"
  BY DEF Download, Doing, disk, code
<1>2. raced' \in BOOLEAN
  BY <1>1 DEF UpdateTypeOK
<1>3. CASE Move(k, "work", "finish") /\ UNCHANGED mainWindow
  <2>1. UpdateTypeOK' /\ WindowsStay
    BY <1>1, <1>2, <1>3, MoveWork DEF UpdateTypeOK, Goes, WindowsStay
  <2> QED BY <1>1, <1>3, <2>1, MoveWork DEF Keeps, Elsewhere
<1>4. ASSUME NEW next \in {"unload", "install"}, v \in Version,
             attempt' = [attempt EXCEPT ![k].work = next, ![k].version = v,
                           ![k].thread = IsOpen(attempt[k].window)],
             mainWindow' = IF next = "unload" THEN WindowOf(k, "enabled", TRUE) ELSE mainWindow
      PROVE  /\ UpdateTypeOK' /\ Goes(k) /\ Elsewhere(k) /\ WindowsStay
             /\ attempt'[k].window = attempt[k].window /\ attempt'[k].channel = attempt[k].channel
             /\ attempt'[k].target = attempt[k].target
             /\ attempt'[k].work \in {"unload", "install"}
             /\ attempt'[k].version = v /\ attempt'[k].thread = IsOpen(attempt[k].window)
  <2> DEFINE t == IsOpen(attempt[k].window)
             p == [attempt[k] EXCEPT !.work = next]
             q == [p EXCEPT !.version = v]
             r == [q EXCEPT !.thread = t]
  <2>1. attempt[k] \in AttemptType /\ attempt \in [Attempt -> AttemptType] /\ v \in Nat \X Nat /\ t \in BOOLEAN
    <3>1. t \in BOOLEAN
      BY DEF IsOpen
    <3>2. v \in Nat \X Nat
      BY <1>4, UpdateAssumption
    <3> QED BY <3>1, <3>2 DEF UpdateTypeOK
  <2>2. attempt' = [attempt EXCEPT ![k] = r]
    BY <1>4, <2>1
  <2> HIDE DEF v, t
  <2>3. /\ p \in AttemptType /\ p.work = next
        /\ \A x \in {"window", "channel", "target", "task", "lookup"} : p[x] = attempt[k][x]
    BY <2>1 DEF AttemptType
  <2> HIDE DEF p
  <2>4. /\ q \in AttemptType /\ q.work = next /\ q.version = v
        /\ \A x \in {"window", "channel", "target", "task", "lookup"} : q[x] = p[x]
    BY <2>1, <2>3 DEF AttemptType
  <2> HIDE DEF q
  <2>5. /\ r \in AttemptType /\ r.work = next /\ r.version = v /\ r.thread = t
        /\ \A x \in {"window", "channel", "target", "task", "lookup"} : r[x] = q[x]
    BY <2>1, <2>4 DEF AttemptType
  <2> HIDE DEF r
  <2>6. /\ Goes(k) /\ Elsewhere(k) /\ attempt'[k] = r
        /\ attempt'[k].window = attempt[k].window /\ attempt'[k].channel = attempt[k].channel
        /\ attempt'[k].target = attempt[k].target
    BY <2>1, <2>2, <2>3, <2>4, <2>5 DEF Goes, Elsewhere
  <2>7. mainWindow' \in [MainWindow -> WindowType] /\ WindowsStay
    BY <1>4, WindowOfKeeps DEF UpdateTypeOK, WindowsStay
  <2>8. UpdateTypeOK'
    BY <1>1, <1>2, <2>6, <2>7 DEF UpdateTypeOK, Goes
  <2> QED BY <1>4, <2>5, <2>6, <2>7, <2>8 DEF t
<1> QED BY <1>1, <1>3, <1>4 DEF Download

\* The window is asked to go, if there is a core to unload.
LEMMA UnloadSteps ==
  ASSUME UpdateTypeOK, NEW k \in Attempt, Unload(k)
  PROVE  /\ UpdateTypeOK' /\ Goes(k) /\ Keeps(k) /\ Elsewhere(k)
         /\ UNCHANGED <<embedded, installed, core, class, mainWindow, info, quit, raced>>
         /\ attempt[k].work = "unload"
         /\ attempt'[k].work = IF core = 0 THEN "install" ELSE "await"
         /\ \/ apcs' = apcs
            \/ /\ core # 0 /\ IsOpen(attempt[k].window)
               /\ apcs' = Append(apcs, [does |-> "destroy", window |-> attempt[k].window])
<1>1. /\ UNCHANGED <<embedded, installed, core, loads, class, mainWindow, closing, info, quit, raced>>
      /\ attempt[k].work = "unload"
  BY DEF Unload, Doing, disk, code
<1>2. PICK at \in {"install", "await"} : at = (IF core = 0 THEN "install" ELSE "await") /\ Move(k, "work", at)
  BY DEF Unload
<1>3. Goes(k) /\ Keeps(k) /\ Elsewhere(k) /\ attempt'[k].work = at
  BY <1>2, MoveWork DEF Elsewhere
<1>4. \/ apcs' = apcs
      \/ /\ core # 0 /\ IsOpen(attempt[k].window)
         /\ apcs' = Append(apcs, [does |-> "destroy", window |-> attempt[k].window])
  BY DEF Unload
<1>5. apcs' \in Seq(ApcType)
  <2>1. IsOpen(attempt[k].window) => [does |-> "destroy", window |-> attempt[k].window] \in ApcType
    BY DEF IsOpen, ApcType
  <2> QED BY <1>4, <2>1 DEF UpdateTypeOK
<1>6. UpdateTypeOK'
  BY <1>1, <1>3, <1>5 DEF UpdateTypeOK, Goes
<1> QED BY <1>1, <1>2, <1>3, <1>4, <1>6

\* The window is gone.
LEMMA AwaitSteps ==
  ASSUME UpdateTypeOK, NEW k \in Attempt, Await(k)
  PROVE  /\ UpdateTypeOK' /\ Goes(k) /\ Keeps(k) /\ Elsewhere(k)
         /\ UNCHANGED <<embedded, installed, core, class, mainWindow, info, apcs, quit, raced>>
         /\ attempt[k].work = "await" /\ attempt'[k].work = "free"
         /\ ~IsOpen(attempt[k].window)
<1>1. Goes(k) /\ Keeps(k) /\ Elsewhere(k) /\ attempt'[k].work = "free"
  BY MoveWork DEF Await, Elsewhere
<1> QED BY <1>1 DEF Await, Doing, UpdateTypeOK, Goes, disk, code

\* The core is freed, with its class if that has no window.
LEMMA FreeSteps ==
  ASSUME UpdateTypeOK, NEW k \in Attempt, Free(k)
  PROVE  /\ UpdateTypeOK' /\ Goes(k) /\ Keeps(k) /\ Elsewhere(k)
         /\ UNCHANGED <<embedded, installed, mainWindow, info, apcs, quit, raced>>
         /\ attempt[k].work = "free" /\ attempt'[k].work = "install"
         /\ core' = 0
         /\ class' = IF class = core /\ \A w \in MainWindow : ~(IsOpen(w) /\ mainWindow[w].code = class)
                     THEN NoClass ELSE class
<1>1. Goes(k) /\ Keeps(k) /\ Elsewhere(k) /\ attempt'[k].work = "install"
  BY MoveWork DEF Free, Elsewhere
<1>2. class' \in Int
  BY DEF Free, UpdateTypeOK, NoClass
<1>3. UNCHANGED <<embedded, installed, loads, mainWindow, closing, info, apcs, quit, raced>>
  BY DEF Free, disk
<1>4. UpdateTypeOK'
  BY <1>1, <1>2, <1>3 DEF UpdateTypeOK, Goes, Free
<1> QED BY <1>1, <1>3, <1>4 DEF Free, Doing

\* A folder is made, complete or not, or there was nothing to extract.
LEMMA InstallSteps ==
  ASSUME UpdateTypeOK, Unused, NEW k \in Attempt, Install(k)
  PROVE  /\ UpdateTypeOK' /\ Goes(k) /\ Elsewhere(k)
         /\ UNCHANGED <<embedded, class, mainWindow, info, apcs, quit, raced>>
         /\ attempt'[k].window = attempt[k].window /\ attempt'[k].channel = attempt[k].channel
         /\ attempt'[k].version = attempt[k].version /\ attempt'[k].thread = attempt[k].thread
         /\ attempt[k].work = "install"
         /\ \/ /\ attempt'[k].work = "finish" /\ attempt'[k].target = FALSE
               /\ UNCHANGED <<installed, core>>
            \/ /\ attempt'[k].work = "register" /\ attempt'[k].target = attempt[k].target
               /\ \/ installed' = installed
                  \/ installed' = installed \cup
                       {Installation(info[attempt[k].channel].version, attempt[k].version)}
               /\ core' = core \/ core = 0
<1>1. /\ UNCHANGED <<embedded, class, mainWindow, closing, info, apcs, quit, raced>>
      /\ attempt[k].work = "install" /\ attempt[k] \in AttemptType
  BY DEF Install, Doing, UpdateTypeOK
<1>2. CASE /\ attempt' = [attempt EXCEPT ![k].work = "finish", ![k].target = FALSE]
           /\ UNCHANGED <<installed, core, loads>>
  <2> DEFINE p == [attempt[k] EXCEPT !.work = "finish"]
             r == [p EXCEPT !.target = FALSE]
  <2>1. attempt \in [Attempt -> AttemptType] /\ attempt' = [attempt EXCEPT ![k] = r]
    BY <1>2 DEF UpdateTypeOK
  <2>2. /\ p \in AttemptType /\ p.work = "finish"
        /\ \A x \in {"window", "channel", "version", "thread", "task", "lookup"} : p[x] = attempt[k][x]
    BY <1>1 DEF AttemptType
  <2> HIDE DEF p
  <2>3. /\ r \in AttemptType /\ r.work = "finish" /\ r.target = FALSE
        /\ \A x \in {"window", "channel", "version", "thread", "task", "lookup"} : r[x] = p[x]
    BY <2>2 DEF AttemptType
  <2> HIDE DEF r
  <2>4. /\ Goes(k) /\ Elsewhere(k) /\ attempt'[k] = r
        /\ attempt'[k].window = attempt[k].window /\ attempt'[k].channel = attempt[k].channel
        /\ attempt'[k].version = attempt[k].version /\ attempt'[k].thread = attempt[k].thread
    BY <2>1, <2>2, <2>3 DEF Goes, Elsewhere
  <2>5. UpdateTypeOK'
    BY <1>1, <1>2, <2>4 DEF UpdateTypeOK, Goes
  <2> QED BY <1>1, <1>2, <2>3, <2>4, <2>5
<1>3. ASSUME NEW complete \in BOOLEAN, Move(k, "work", "register"),
             installed' = IF complete
                          THEN installed \cup {Installation(info[attempt[k].channel].version, attempt[k].version)}
                          ELSE installed,
             IF complete /\ core = 0
             THEN loads' = loads + 1 /\ core' = loads + 1 ELSE UNCHANGED <<core, loads>>
      PROVE  /\ UpdateTypeOK' /\ Goes(k) /\ Keeps(k) /\ Elsewhere(k) /\ attempt'[k].work = "register"
             /\ \/ installed' = installed
                \/ installed' = installed \cup
                     {Installation(info[attempt[k].channel].version, attempt[k].version)}
             /\ core' = core \/ core = 0
  <2>1. Goes(k) /\ Keeps(k) /\ Elsewhere(k) /\ attempt'[k].work = "register"
    BY <1>3, MoveWork DEF Elsewhere
  <2>2. core' \in Nat /\ loads' \in Nat /\ (core' = core \/ core = 0)
    BY <1>3 DEF UpdateTypeOK
  <2>3. attempt[k].version \in Nat \X Nat /\ attempt[k].channel \in Channel
    BY <1>1 DEF AttemptType, Unused, Unmade
  <2>4. installed' \subseteq [channel : Channel, name : Nat \X Nat, holds : Nat \X Nat]
    <3> DEFINE v == info[attempt[k].channel].version
    <3>1. v \in Nat \X Nat
      BY <2>3 DEF UpdateTypeOK, InfoType
    <3> HIDE DEF v
    <3>2. Installation(v, attempt[k].version) \in [channel : Channel, name : Nat \X Nat, holds : Nat \X Nat]
      BY <2>3, <3>1, UpdateAssumption DEF Installation
    <3> QED BY <1>3, <3>2 DEF UpdateTypeOK, v
  <2>5. UpdateTypeOK'
    BY <1>1, <2>1, <2>2, <2>4 DEF UpdateTypeOK, Goes
  <2> QED BY <1>3, <2>1, <2>2, <2>5
<1> QED BY <1>1, <1>2, <1>3 DEF Install, Keeps

\* A class is registered where there is none, and a window asked for.
LEMMA RegisterSteps ==
  ASSUME UpdateTypeOK, NEW k \in Attempt, Register(k)
  PROVE  /\ UpdateTypeOK' /\ Goes(k) /\ Keeps(k) /\ Elsewhere(k)
         /\ UNCHANGED <<embedded, installed, core, mainWindow, info, quit, raced>>
         /\ attempt[k].work = "register" /\ attempt'[k].work = "finish"
         /\ class' = (IF class = NoClass THEN core ELSE class)
         /\ apcs' = (IF class = NoClass /\ attempt[k].thread
                     THEN Append(apcs, [does |-> "create", window |-> 0]) ELSE apcs)
<1>1. Goes(k) /\ Keeps(k) /\ Elsewhere(k) /\ attempt'[k].work = "finish"
  BY MoveWork DEF Register, Elsewhere
<1>2. UNCHANGED <<embedded, installed, core, loads, mainWindow, closing, info, quit, raced>>
  BY DEF Register, disk
<1>3. class' \in Int
  BY DEF Register, UpdateTypeOK
<1>4. apcs' \in Seq(ApcType)
  <2>1. [does |-> "create", window |-> 0] \in ApcType
    BY DEF ApcType
  <2> QED BY <2>1 DEF Register, UpdateTypeOK
<1>5. UpdateTypeOK'
  BY <1>1, <1>2, <1>3, <1>4 DEF UpdateTypeOK, Goes
<1> QED BY <1>1, <1>2, <1>5 DEF Register, Doing

\* The window is enabled.
LEMMA FinishSteps ==
  ASSUME UpdateTypeOK, NEW k \in Attempt, Finish(k)
  PROVE  /\ UpdateTypeOK' /\ Goes(k) /\ Keeps(k) /\ Elsewhere(k) /\ WindowsStay
         /\ UNCHANGED <<embedded, installed, core, class, info, apcs, quit, raced>>
         /\ attempt[k].work = "finish" /\ attempt'[k].work = "over"
<1>1. Goes(k) /\ Keeps(k) /\ Elsewhere(k) /\ attempt'[k].work = "over"
  BY MoveWork DEF Finish, Elsewhere
<1>2. mainWindow' \in [MainWindow -> WindowType] /\ WindowsStay
  BY WindowOfKeeps DEF Finish, WindowsStay
<1>3. UNCHANGED <<embedded, installed, core, loads, class, closing, info, apcs, quit, raced>>
  BY DEF Finish, disk, code
<1>4. UpdateTypeOK'
  BY <1>1, <1>2, <1>3 DEF UpdateTypeOK, Goes
<1> QED BY <1>1, <1>2, <1>3, <1>4 DEF Finish, Doing

\* The steps of the main thread.
Gone(w, how) ==
  /\ mainWindow'[w].at = how
  /\ \A v \in MainWindow : /\ v # w => mainWindow'[v].at = mainWindow[v].at
                           /\ mainWindow'[v].code = mainWindow[v].code
                           /\ mainWindow'[v].updating = mainWindow[v].updating
  /\ quit' = ~mainWindow[w].updating

LEMMA DestroyedSteps ==
  ASSUME UpdateTypeOK, NEW w \in MainWindow, NEW how \in {"closed", "replaced"}, Destroyed(w, how)
  PROVE  /\ mainWindow' \in [MainWindow -> WindowType] /\ closing' \in [Load -> BOOLEAN] /\ quit' \in BOOLEAN
         /\ Gone(w, how)
BY DEF Destroyed, UpdateTypeOK, WindowType, Gone

LEMMA CloseSteps ==
  ASSUME UpdateTypeOK, NEW w \in MainWindow, Close(w)
  PROVE  /\ UpdateTypeOK' /\ IsOpen(w) /\ Gone(w, "closed")
         /\ UNCHANGED <<embedded, installed, core, class, info, attempt, apcs, raced>>
<1>1. UNCHANGED <<embedded, installed, core, loads, class, info, attempt, apcs, raced>> /\ IsOpen(w)
  BY DEF Close, disk, code
<1>2. /\ mainWindow' \in [MainWindow -> WindowType] /\ closing' \in [Load -> BOOLEAN] /\ quit' \in BOOLEAN
      /\ Gone(w, "closed")
  BY DestroyedSteps DEF Close
<1> QED BY <1>1, <1>2 DEF UpdateTypeOK

LEMMA RunApcSteps ==
  ASSUME UpdateTypeOK, RunApc
  PROVE  /\ UpdateTypeOK' /\ apcs # <<>> /\ apcs' = Tail(apcs)
         /\ UNCHANGED <<embedded, installed, core, class, info, attempt, raced>>
         /\ \/ /\ apcs[1].does = "destroy" /\ IsOpen(apcs[1].window) /\ Gone(apcs[1].window, "replaced")
            \/ /\ apcs[1].does = "destroy" /\ ~IsOpen(apcs[1].window) /\ UNCHANGED <<mainWindow, quit>>
            \/ /\ apcs[1].does = "create" /\ quit' = quit
               /\ \A v \in MainWindow :
                    /\ mainWindow'[v].at = (IF v = NewWindow THEN "open" ELSE mainWindow[v].at)
                    /\ mainWindow'[v].code = (IF v = NewWindow THEN class ELSE mainWindow[v].code)
                    /\ mainWindow'[v].updating = mainWindow[v].updating
<1>1. /\ UNCHANGED <<embedded, installed, core, loads, class, info, attempt, raced>>
      /\ apcs # <<>> /\ apcs' = Tail(apcs) /\ apcs' \in Seq(ApcType) /\ Head(apcs) = apcs[1]
  BY DEF RunApc, UpdateTypeOK, disk, code
<1>2. CASE apcs[1].does = "destroy" /\ IsOpen(apcs[1].window) /\ Destroyed(apcs[1].window, "replaced")
  <2>1. apcs[1].window \in MainWindow
    BY <1>2 DEF IsOpen
  <2>2. /\ mainWindow' \in [MainWindow -> WindowType] /\ closing' \in [Load -> BOOLEAN] /\ quit' \in BOOLEAN
        /\ Gone(apcs[1].window, "replaced")
    BY <1>2, <2>1, DestroyedSteps
  <2>3. UpdateTypeOK'
    BY <1>1, <2>2 DEF UpdateTypeOK
  <2> QED BY <1>1, <1>2, <2>2, <2>3
<1>3. CASE /\ apcs[1].does = "destroy" /\ ~IsOpen(apcs[1].window)
           /\ UNCHANGED <<mainWindow, closing, quit>>
  <2>1. UpdateTypeOK'
    BY <1>1, <1>3 DEF UpdateTypeOK
  <2> QED BY <1>1, <1>3, <2>1
<1>4. CASE /\ apcs[1].does = "create" /\ UNCHANGED <<closing, quit>>
           /\ mainWindow' = [mainWindow EXCEPT ![NewWindow].at = "open", ![NewWindow].code = class]
  <2> DEFINE w == NewWindow
  <2>1. mainWindow \in [MainWindow -> WindowType] /\ class \in Int
    BY DEF UpdateTypeOK
  <2>2. mainWindow' = [mainWindow EXCEPT ![w].at = "open", ![w].code = class]
    BY <1>4
  <2> HIDE DEF w
  <2>3. /\ mainWindow' \in [MainWindow -> WindowType]
        /\ \A v \in MainWindow :
             /\ mainWindow'[v].at = (IF v = w THEN "open" ELSE mainWindow[v].at)
             /\ mainWindow'[v].code = (IF v = w THEN class ELSE mainWindow[v].code)
             /\ mainWindow'[v].updating = mainWindow[v].updating
    BY <2>1, <2>2 DEF WindowType
  <2>4. UpdateTypeOK'
    BY <1>1, <1>4, <2>3 DEF UpdateTypeOK
  <2> QED BY <1>1, <1>4, <2>3, <2>4 DEF w
<1> QED BY <1>1, <1>2, <1>3, <1>4 DEF RunApc

\* What a step that changes nothing leaves alone.
LEMMA StutterSteps ==
  ASSUME UNCHANGED updateVars
  PROVE  UNCHANGED <<embedded, installed, core, loads, class, mainWindow, closing, info, attempt, apcs, quit, raced>>
BY DEF updateVars, disk, code
-----------------------------------------------------------------------------
\* A step that opens no window, frees nothing, and brings no attempt to life.
Calm ==
  /\ core' = core /\ class' = class
  /\ \A w \in MainWindow : IsOpen(w)' => /\ IsOpen(w) /\ mainWindow'[w].code = mainWindow[w].code
                                         /\ \/ mainWindow'[w].updating = mainWindow[w].updating
                                            \/ \A k \in Attempt : ~Live(k)'
  /\ \A k \in Attempt : attempt'[k].window = attempt[k].window /\ (Live(k)' => Live(k))
  /\ \A i \in DOMAIN apcs' : apcs'[i].does = "create" => i \in DOMAIN apcs /\ apcs[i].does = "create"

\* A calm step disturbs nobody's turn.
LEMMA CalmTurns ==
  ASSUME Turns, UpdateTypeOK', Unused', WorkLast', Calm, Unregistered', Awaited'
  PROVE  Turns'
<1>1. \A w \in MainWindow : IsOpen(w)' => IsOpen(w)
  BY DEF Calm
<1>2. Creating' => Creating
  BY DEF Calm, Creating
<1>3. OneOpen'
  BY <1>1 DEF Turns, OneOpen
<1>4. OneLive'
  BY DEF Turns, OneLive, Calm
<1>5. LiveWindow'
  BY DEF Turns, LiveWindow, Calm
<1>6. CreateOnce'
  BY DEF Turns, CreateOnce, Calm
<1>7. CreateAlone'
  BY <1>1, <1>2 DEF Turns, CreateAlone, Calm
<1>8. WindowCodeLoaded'
  BY DEF Turns, WindowCodeLoaded, Calm
<1> QED BY <1>3, <1>4, <1>5, <1>6, <1>7, <1>8 DEF Turns

\* An attempt that was made keeps its window and its channel.
LEMMA UsedKeeps ==
  ASSUME Unused, NEW k \in Attempt, Goes(k),
         attempt'[k].window = attempt[k].window, attempt'[k].channel = attempt[k].channel,
         attempt[k].task # "none" \/ attempt[k].lookup # "none" \/ attempt[k].work # "none"
  PROVE  Unused' /\ attempt[k].window # 0 /\ attempt[k].channel \in Channel
<1>1. attempt[k].window # 0 /\ attempt[k].channel \in Channel
  BY DEF Unused, Unmade
<1>2. ASSUME NEW j \in Attempt
      PROVE  IF attempt'[j].window = 0 THEN attempt'[j] = Unmade ELSE attempt'[j].channel \in Channel
  BY <1>1 DEF Unused, Goes
<1> QED BY <1>1, <1>2 DEF Unused

\* The task is alive until it has told the window that there is no update.
LEMMA TaskTurns ==
  ASSUME Turns, NEW k \in Attempt, Task(k)
  PROVE  Turns'
<1> USE DEF Live, Replacing
<1>1. /\ UpdateTypeOK' /\ Goes(k) /\ Keeps(k)
      /\ UNCHANGED <<core, class, apcs>>
      /\ \A w \in MainWindow : /\ mainWindow'[w].at = mainWindow[w].at
                               /\ mainWindow'[w].code = mainWindow[w].code
      /\ attempt[k].task # "none" /\ (Asking(k)' => Asking(k))
      /\ attempt'[k].work # attempt[k].work => Asking(k) /\ ~Asking(k)' /\ attempt'[k].work = "download"
      /\ \A w \in MainWindow : mainWindow'[w].updating # mainWindow[w].updating =>
           w = attempt[k].window /\ IsOpen(w) /\ Asking(k) /\ ~Asking(k)' /\ attempt'[k].work = attempt[k].work
  BY TaskSteps DEF Turns
<1>2. \A j \in Attempt : j # k => attempt'[j] = attempt[j] /\ (Asking(j)' <=> Asking(j))
  BY <1>1 DEF Goes, Asking
<1>3. Unused'
  BY <1>1, UsedKeeps DEF Turns, Keeps
<1>4. WorkLast'
  BY <1>1, <1>2 DEF Turns, WorkLast
<1>5. \A j \in Attempt : Live(j)' => Live(j)
  BY <1>1, <1>2
<1>6. \A w \in MainWindow : IsOpen(w)' <=> IsOpen(w)
  BY <1>1 DEF IsOpen
<1>7. ASSUME NEW w \in MainWindow, mainWindow'[w].updating # mainWindow[w].updating, NEW j \in Attempt
      PROVE  ~Live(j)'
  <2>1. Asking(k) /\ ~Asking(k)' /\ attempt'[k].work = "none"
    BY <1>1, <1>7 DEF Turns, WorkLast
  <2>2. CASE j = k
    BY <2>1, <2>2
  <2>3. CASE j # k
    BY <1>5, <2>1, <2>3 DEF Turns, OneLive
  <2> QED BY <2>2, <2>3
<1>8. Calm
  BY <1>1, <1>2, <1>5, <1>6, <1>7 DEF Calm, Goes, Keeps
<1>9. Unregistered'
  BY <1>1, <1>2, <1>5, <1>6 DEF Turns, Unregistered, Creating, WorkLast
<1>10. Awaited'
  BY <1>1, <1>2, <1>6 DEF Turns, Awaited
<1> QED BY <1>1, <1>3, <1>4, <1>8, <1>9, <1>10, CalmTurns

\* A look-up has no part in whose turn it is.
LEMMA LookupTurns ==
  ASSUME Turns, NEW k \in Attempt, Fetch(k) \/ Store(k)
  PROVE  Turns'
<1>1. /\ UpdateTypeOK' /\ Goes(k) /\ UNCHANGED <<core, class, mainWindow, apcs>>
      /\ attempt[k].lookup # "none"
      /\ attempt'[k].window = attempt[k].window /\ attempt'[k].channel = attempt[k].channel
      /\ attempt'[k].task = attempt[k].task /\ attempt'[k].work = attempt[k].work
  BY LookupSteps DEF Turns
<1>2. \A j \in Attempt : /\ attempt'[j].window = attempt[j].window /\ attempt'[j].work = attempt[j].work
                         /\ (Asking(j)' <=> Asking(j)) /\ (Live(j)' <=> Live(j))
  BY <1>1 DEF Goes, Asking, Live, Replacing
<1>3. Unused'
  BY <1>1, UsedKeeps DEF Turns
<1>4. WorkLast'
  BY <1>2 DEF Turns, WorkLast
<1>5. \A w \in MainWindow : IsOpen(w)' <=> IsOpen(w)
  BY <1>1 DEF IsOpen
<1>6. Calm
  BY <1>1, <1>2, <1>5 DEF Calm
<1>7. Unregistered' /\ Awaited'
  BY <1>1, <1>2, <1>5 DEF Turns, Unregistered, Awaited, Creating
<1> QED BY <1>1, <1>3, <1>4, <1>6, <1>7, CalmTurns

\* The work until the window is gone.
LEMMA CalmWorkTurns ==
  ASSUME Turns, NEW k \in Attempt, Download(k) \/ Unload(k) \/ Await(k) \/ Finish(k)
  PROVE  Turns'
<1>1. /\ UpdateTypeOK' /\ Goes(k) /\ Elsewhere(k) /\ WindowsStay /\ UNCHANGED <<core, class>>
      /\ attempt'[k].window = attempt[k].window /\ attempt'[k].channel = attempt[k].channel
      /\ attempt[k].work \in {"download", "unload", "await", "finish"}
      /\ attempt'[k].work \in {"finish", "unload", "install", "await", "free", "over"}
      /\ attempt[k].work = "finish" => attempt'[k].work = "over"
      /\ attempt'[k].work = "free" => attempt[k].work = "await" /\ ~IsOpen(attempt[k].window)
      /\ \/ apcs' = apcs
         \/ apcs' = Append(apcs, [does |-> "destroy", window |-> attempt[k].window])
  <2>1. CASE Download(k)
    BY <2>1, DownloadSteps DEF Turns
  <2>2. CASE Unload(k)
    BY <2>2, UnloadSteps DEF Turns, Keeps, WindowsStay
  <2>3. CASE Await(k)
    BY <2>3, AwaitSteps DEF Turns, Keeps, WindowsStay
  <2>4. CASE Finish(k)
    BY <2>4, FinishSteps DEF Turns, Keeps
  <2> QED BY <2>1, <2>2, <2>3, <2>4
<1>2. \A j \in Attempt : /\ j # k => attempt'[j] = attempt[j]
                         /\ (Asking(j)' <=> Asking(j)) /\ (Live(j)' => Live(j))
  BY <1>1 DEF Goes, Elsewhere, Asking, Live, Replacing
<1>3. Unused'
  BY <1>1, UsedKeeps DEF Turns
<1>4. WorkLast'
  BY <1>1, <1>2 DEF Turns, WorkLast
<1>5. \A w \in MainWindow : IsOpen(w)' <=> IsOpen(w)
  BY <1>1 DEF IsOpen, WindowsStay
<1>6. \A i \in DOMAIN apcs' : apcs'[i].does = "create" => i \in DOMAIN apcs /\ apcs[i].does = "create"
  <2> DEFINE a == [does |-> "destroy", window |-> attempt[k].window]
  <2>1. a.does # "create"
    OBVIOUS
  <2>2. apcs' = apcs \/ apcs' = Append(apcs, a)
    BY <1>1
  <2> HIDE DEF a
  <2>3. /\ apcs \in Seq(ApcType)
        /\ apcs' = Append(apcs, a) => /\ DOMAIN apcs' = 1 .. Len(apcs) + 1 /\ DOMAIN apcs = 1 .. Len(apcs)
                                     /\ apcs'[Len(apcs) + 1] = a
                                     /\ \A i \in 1 .. Len(apcs) : apcs'[i] = apcs[i]
    BY DEF Turns, UpdateTypeOK
  <2> QED BY <2>1, <2>2, <2>3
<1>7. Calm
  BY <1>1, <1>2, <1>5, <1>6 DEF Calm, Goes, WindowsStay
<1>8. Unregistered'
  <2> SUFFICES ASSUME class = NoClass
               PROVE  /\ \A w \in MainWindow : ~IsOpen(w)'
                      /\ ~Creating'
                      /\ \A j \in Attempt : Live(j)' => attempt'[j].work \in {"install", "register"}
    BY <1>1 DEF Unregistered
  <2>1. ~Live(k) \/ attempt[k].work \in {"install", "register"}
    BY DEF Turns, Unregistered
  <2>2. ~Live(k)
    BY <1>1, <2>1
  <2> QED BY <1>2, <1>5, <1>6, <2>2 DEF Turns, Unregistered, Creating
<1>9. Awaited'
  <2>1. ASSUME attempt'[k].work = "free" PROVE \A w \in MainWindow : ~IsOpen(w)
    BY <1>1, <2>1 DEF Turns, LiveWindow, Live, Replacing
  <2> QED BY <1>2, <1>5, <2>1 DEF Turns, Awaited
<1> QED BY <1>1, <1>3, <1>4, <1>7, <1>8, <1>9, CalmTurns

\* No window is open when the core is freed.
LEMMA FreeTurns ==
  ASSUME Turns, NEW k \in Attempt, Free(k)
  PROVE  Turns'
<1>1. /\ UpdateTypeOK' /\ Goes(k) /\ Keeps(k) /\ Elsewhere(k) /\ UNCHANGED <<mainWindow, apcs>>
      /\ attempt[k].work = "free" /\ attempt'[k].work = "install"
      /\ class' = (IF class = core /\ \A w \in MainWindow : ~(IsOpen(w) /\ mainWindow[w].code = class)
                   THEN NoClass ELSE class)
  BY FreeSteps DEF Turns
<1>2. \A w \in MainWindow : ~IsOpen(w) /\ ~IsOpen(w)'
  BY <1>1 DEF Turns, Awaited, IsOpen
<1>3. Live(k) /\ ~Creating /\ ~Creating'
  BY <1>1 DEF Turns, CreateAlone, Creating, Live, Replacing
<1>4. \A j \in Attempt : /\ j # k => attempt'[j] = attempt[j]
                         /\ (Asking(j)' <=> Asking(j)) /\ (Live(j)' => Live(j))
  BY <1>1, <1>3 DEF Goes, Elsewhere, Asking, Live, Replacing
<1>5. Unused'
  BY <1>1, UsedKeeps DEF Turns, Keeps
<1>6. WorkLast'
  <2>1. ~Asking(k)
    BY <1>1 DEF Turns, WorkLast
  <2> QED BY <1>4, <2>1 DEF Turns, WorkLast
<1>7. OneLive' /\ CreateOnce'
  BY <1>1, <1>4 DEF Turns, OneLive, CreateOnce
<1>8. OneOpen' /\ LiveWindow' /\ CreateAlone' /\ Awaited' /\ WindowCodeLoaded'
  BY <1>2, <1>3 DEF OneOpen, LiveWindow, CreateAlone, Awaited, WindowCodeLoaded
<1>9. Unregistered'
  <2>1. \A j \in Attempt : Live(j)' => j = k
    BY <1>3, <1>4 DEF Turns, OneLive
  <2> QED BY <1>1, <1>2, <1>3, <2>1 DEF Unregistered
<1> QED BY <1>1, <1>5, <1>6, <1>7, <1>8, <1>9 DEF Turns

\* A core is loaded when there is none, so that no window's code is exchanged.
LEMMA InstallTurns ==
  ASSUME Turns, NEW k \in Attempt, Install(k)
  PROVE  Turns'
<1>1. /\ UpdateTypeOK' /\ Goes(k) /\ Elsewhere(k) /\ UNCHANGED <<class, mainWindow, apcs>>
      /\ attempt'[k].window = attempt[k].window /\ attempt'[k].channel = attempt[k].channel
      /\ attempt[k].work = "install" /\ attempt'[k].work \in {"finish", "register"}
      /\ core' = core \/ core = 0
  BY InstallSteps DEF Turns
<1>2. /\ \A w \in MainWindow : IsOpen(w)' <=> IsOpen(w)
      /\ Creating' <=> Creating
  BY <1>1 DEF IsOpen, Creating
<1>3. Live(k) /\ ~Creating
  BY <1>1 DEF Turns, CreateAlone, Live, Replacing
<1>4. \A j \in Attempt : /\ j # k => attempt'[j] = attempt[j]
                         /\ (Asking(j)' <=> Asking(j)) /\ (Live(j)' => Live(j))
  BY <1>1, <1>3 DEF Goes, Elsewhere, Asking, Live, Replacing
<1>5. Unused'
  BY <1>1, UsedKeeps DEF Turns
<1>6. ~Asking(k)
  BY <1>1 DEF Turns, WorkLast
<1>7. WorkLast'
  BY <1>4, <1>6 DEF Turns, WorkLast
<1>8. OneLive' /\ CreateOnce' /\ CreateAlone'
  BY <1>1, <1>2, <1>3, <1>4 DEF Turns, OneLive, CreateOnce, CreateAlone
<1>9. OneOpen' /\ LiveWindow' /\ Awaited'
  BY <1>1, <1>2, <1>4 DEF Turns, OneOpen, LiveWindow, Awaited
<1>10. WindowCodeLoaded'
  BY <1>1, <1>2 DEF Turns, WindowCodeLoaded
<1>11. Unregistered'
  BY <1>1, <1>2, <1>4, <1>6 DEF Turns, Unregistered, Live, Replacing
<1> QED BY <1>1, <1>5, <1>7, <1>8, <1>9, <1>10, <1>11 DEF Turns

\* The attempt ends as it asks for the window.
LEMMA RegisterTurns ==
  ASSUME Turns, NEW k \in Attempt, Register(k)
  PROVE  Turns'
<1>1. /\ UpdateTypeOK' /\ Goes(k) /\ Keeps(k) /\ Elsewhere(k) /\ UNCHANGED <<core, mainWindow>>
      /\ attempt[k].work = "register" /\ attempt'[k].work = "finish"
      /\ class' = (IF class = NoClass THEN core ELSE class)
      /\ apcs' = (IF class = NoClass /\ attempt[k].thread
                  THEN Append(apcs, [does |-> "create", window |-> 0]) ELSE apcs)
  BY RegisterSteps DEF Turns
<1>2. \A w \in MainWindow : IsOpen(w)' <=> IsOpen(w)
  BY <1>1 DEF IsOpen
<1>3. Live(k) /\ ~Creating
  BY <1>1 DEF Turns, CreateAlone, Live, Replacing
<1>4. ~Asking(k)
  BY <1>1 DEF Turns, WorkLast
<1>5. \A j \in Attempt : /\ j # k => attempt'[j] = attempt[j]
                         /\ ~Live(j)' /\ ~Asking(j)'
  BY <1>1, <1>3, <1>4 DEF Turns, OneLive, Goes, Elsewhere, Asking, Live, Replacing
<1>6. Unused' /\ WorkLast' /\ OneLive' /\ LiveWindow'
  BY <1>1, <1>5, UsedKeeps DEF Turns, Keeps, WorkLast, OneLive, LiveWindow
<1>7. OneOpen' /\ Awaited'
  BY <1>1, <1>2, <1>5 DEF Turns, OneOpen, Awaited
<1>8. WindowCodeLoaded'
  BY <1>1, <1>2 DEF Turns, WindowCodeLoaded
<1>9. class' # NoClass
  BY <1>1 DEF Turns, UpdateTypeOK, NoClass
<1>10. CASE apcs' = apcs
  <2>1. ~Creating' /\ CreateOnce'
    BY <1>3, <1>10 DEF Turns, Creating, CreateOnce
  <2> QED BY <1>1, <1>6, <1>7, <1>8, <1>9, <2>1 DEF Turns, CreateAlone, Unregistered
<1>11. CASE class = NoClass /\ apcs' = Append(apcs, [does |-> "create", window |-> 0])
  <2>1. /\ DOMAIN apcs' = 1 .. Len(apcs) + 1 /\ DOMAIN apcs = 1 .. Len(apcs)
        /\ \A i \in 1 .. Len(apcs) : apcs'[i] = apcs[i]
        /\ Len(apcs) \in Nat
    BY <1>11 DEF Turns, UpdateTypeOK
  <2>2. CreateOnce'
    BY <1>3, <2>1 DEF CreateOnce, Creating
  <2>3. CreateAlone'
    BY <1>1, <1>2, <1>5, <1>11 DEF Turns, Unregistered, CreateAlone
  <2> QED BY <1>1, <1>6, <1>7, <1>8, <1>9, <2>2, <2>3 DEF Turns, Unregistered
<1> QED BY <1>1, <1>10, <1>11

\* A window that knows of no update is one that no attempt is alive for.
LEMMA TriggerTurns ==
  ASSUME Turns, NEW w \in MainWindow, NEW c \in Channel, NEW k \in Attempt, Trigger(w, c, k)
  PROVE  Turns'
<1>0. Triggered(w, c, k)
  BY TriggerSteps DEF Turns
<1>1. /\ UpdateTypeOK' /\ IsOpen(w) /\ ~mainWindow[w].updating /\ NextAttempt(k)
      /\ UNCHANGED <<embedded, installed, core, class, info, apcs, quit, raced>>
      /\ \A v \in MainWindow : /\ mainWindow'[v].at = mainWindow[v].at
                               /\ mainWindow'[v].code = mainWindow[v].code
                               /\ mainWindow'[v].updating = (IF v = w THEN TRUE ELSE mainWindow[v].updating)
      /\ Goes(k) /\ attempt'[k].window = w /\ attempt'[k].channel = c /\ attempt'[k].task = "detect"
      /\ attempt'[k].work = attempt[k].work /\ attempt'[k].lookup = attempt[k].lookup
      /\ attempt'[k].version = attempt[k].version /\ attempt'[k].target = attempt[k].target
  BY <1>0 DEF Triggered
<1>2. attempt[k] = Unmade
  BY <1>1 DEF NextAttempt, Doing, Turns, Unused
<1>3. attempt'[k].work = "none" /\ Live(k)'
  BY <1>1, <1>2 DEF Unmade, Live, Asking
<1>4. \A j \in Attempt : ~Live(j)
  BY <1>1 DEF Turns, LiveWindow
<1>5. \A j \in Attempt : /\ j # k => attempt'[j] = attempt[j]
                         /\ Live(j)' => j = k
  BY <1>1, <1>4 DEF Goes, Live, Asking, Replacing
<1>6. /\ \A v \in MainWindow : IsOpen(v)' <=> IsOpen(v)
      /\ \A v \in MainWindow : IsOpen(v) => v = w
      /\ ~Creating /\ ~Creating'
  BY <1>1 DEF IsOpen, Turns, OneOpen, CreateAlone, Creating
<1>7. Unused'
  <2>1. w # 0
    BY DEF MainWindow
  <2> QED BY <1>1, <1>5, <2>1 DEF Turns, Unused
<1>8. WorkLast' /\ OneLive' /\ Awaited'
  BY <1>3, <1>5, <1>6 DEF Turns, WorkLast, Asking, OneLive, Awaited
<1>9. OneOpen' /\ LiveWindow' /\ WindowCodeLoaded'
  <2>1. OneOpen'
    BY <1>6 DEF Turns, OneOpen
  <2>2. LiveWindow'
    <3> SUFFICES ASSUME NEW j \in Attempt, NEW v \in MainWindow, Live(j)', IsOpen(v)'
                 PROVE  attempt'[j].window = v /\ mainWindow'[v].updating
      BY DEF LiveWindow
    <3>1. j = k /\ v = w
      BY <1>5, <1>6
    <3> QED BY <1>1, <3>1
  <2>3. WindowCodeLoaded'
    BY <1>1, <1>6 DEF Turns, WindowCodeLoaded
  <2> QED BY <2>1, <2>2, <2>3
<1>10. CreateOnce' /\ CreateAlone' /\ Unregistered'
  BY <1>1, <1>6 DEF Turns, CreateOnce, CreateAlone, Unregistered
<1> QED BY <1>1, <1>7, <1>8, <1>9, <1>10 DEF Turns

\* The window goes; the attempt about it goes on.
LEMMA CloseTurns ==
  ASSUME Turns, NEW w \in MainWindow, Close(w)
  PROVE  Turns'
<1>1. /\ UpdateTypeOK' /\ Gone(w, "closed") /\ UNCHANGED <<core, class, attempt, apcs>>
  BY CloseSteps DEF Turns
<1>2. /\ \A v \in MainWindow : IsOpen(v)' => IsOpen(v)
      /\ \A k \in Attempt : Live(k)' <=> Live(k)
      /\ Creating' <=> Creating
  BY <1>1 DEF Gone, IsOpen, Live, Asking, Replacing, Creating
<1>3. Unused' /\ WorkLast'
  BY <1>1 DEF Turns, Unused, WorkLast, Asking
<1>4. Calm
  BY <1>1, <1>2 DEF Calm, Gone
<1>5. Unregistered' /\ Awaited'
  BY <1>1, <1>2 DEF Turns, Unregistered, Awaited
<1> QED BY <1>1, <1>3, <1>4, <1>5, CalmTurns

\* A window is destroyed, or opened with the code of the core.
LEMMA RunApcTurns ==
  ASSUME Turns, RunApc
  PROVE  Turns'
<1>1. /\ UpdateTypeOK' /\ apcs # <<>> /\ apcs' = Tail(apcs)
      /\ UNCHANGED <<core, class, attempt>>
      /\ \/ /\ apcs[1].does = "destroy" /\ IsOpen(apcs[1].window) /\ Gone(apcs[1].window, "replaced")
         \/ /\ apcs[1].does = "destroy" /\ ~IsOpen(apcs[1].window) /\ UNCHANGED <<mainWindow, quit>>
         \/ /\ apcs[1].does = "create" /\ quit' = quit
            /\ \A v \in MainWindow :
                 /\ mainWindow'[v].at = (IF v = NewWindow THEN "open" ELSE mainWindow[v].at)
                 /\ mainWindow'[v].code = (IF v = NewWindow THEN class ELSE mainWindow[v].code)
                 /\ mainWindow'[v].updating = mainWindow[v].updating
  BY RunApcSteps DEF Turns
<1>2. /\ DOMAIN apcs = 1 .. Len(apcs) /\ DOMAIN apcs' = 1 .. Len(apcs) - 1 /\ Len(apcs) \in Nat \ {0}
      /\ \A i \in DOMAIN apcs' : i + 1 \in DOMAIN apcs /\ apcs'[i] = apcs[i + 1]
  BY <1>1 DEF Turns, UpdateTypeOK
<1>3. Creating' => Creating
  BY <1>2 DEF Creating
<1>4. CreateOnce'
  BY <1>2 DEF Turns, CreateOnce
<1>5. \A k \in Attempt : (Live(k)' <=> Live(k)) /\ (Asking(k)' <=> Asking(k))
  BY <1>1 DEF Live, Asking, Replacing
<1>6. Unused' /\ WorkLast' /\ OneLive'
  BY <1>1, <1>5 DEF Turns, Unused, WorkLast, OneLive
<1>7. CASE apcs[1].does = "destroy"
  <2>1. \A v \in MainWindow : /\ IsOpen(v)' => IsOpen(v)
                              /\ mainWindow'[v].code = mainWindow[v].code
                              /\ mainWindow'[v].updating = mainWindow[v].updating
    BY <1>1, <1>7 DEF Gone, IsOpen
  <2>2. OneOpen' /\ LiveWindow'
    BY <1>1, <1>5, <2>1 DEF Turns, OneOpen, LiveWindow
  <2>3. CreateAlone' /\ Unregistered' /\ Awaited' /\ WindowCodeLoaded'
    BY <1>1, <1>3, <1>5, <2>1 DEF Turns, CreateAlone, Unregistered, Awaited, WindowCodeLoaded
  <2> QED BY <1>1, <1>4, <1>6, <2>2, <2>3 DEF Turns
<1>8. CASE apcs[1].does = "create"
  <2>1. 1 \in DOMAIN apcs /\ Creating
    BY <1>2, <1>8 DEF Creating
  <2>2. /\ \A w \in MainWindow : ~IsOpen(w)
        /\ \A k \in Attempt : ~Live(k)
        /\ class = core /\ class # NoClass
    BY <2>1 DEF Turns, CreateAlone, Unregistered
  <2>3. ~Creating'
    <3> SUFFICES ASSUME NEW i \in DOMAIN apcs', apcs'[i].does = "create" PROVE FALSE
      BY DEF Creating
    <3>1. i + 1 \in DOMAIN apcs /\ apcs[i + 1].does = "create" /\ i + 1 # 1
      BY <1>2
    <3> QED BY <1>8, <2>1, <3>1 DEF Turns, CreateOnce
  <2>4. \A w \in MainWindow : IsOpen(w)' => w = NewWindow /\ mainWindow'[w].code = class
    BY <1>1, <1>8, <2>2 DEF IsOpen
  <2>5. OneOpen' /\ LiveWindow' /\ WindowCodeLoaded'
    BY <1>1, <1>5, <2>2, <2>4 DEF OneOpen, LiveWindow, WindowCodeLoaded
  <2>6. CreateAlone' /\ Unregistered' /\ Awaited'
    BY <1>1, <1>5, <2>2, <2>3 DEF CreateAlone, Unregistered, Awaited, Live, Replacing
  <2> QED BY <1>1, <1>4, <1>6, <2>5, <2>6 DEF Turns
<1> QED BY <1>1, <1>7, <1>8

\* The first window has the code of the core, and there is no attempt.
LEMMA InitTurns == UpdateInit => Turns
<1> SUFFICES ASSUME UpdateInit PROVE Turns
  OBVIOUS
<1>1. UpdateTypeOK
  BY UpdateInitType
<1>2. attempt = [k \in Attempt |-> Unmade] /\ apcs = <<>> /\ class = core /\ core \in {0, 1}
  BY DEF UpdateInit
<1>3. \A k \in Attempt : attempt[k] = Unmade /\ ~Live(k) /\ attempt[k].work = "none"
  BY <1>2 DEF Unmade, Live, Asking, Replacing
<1>4. \A w \in MainWindow : IsOpen(w) => w = 1 /\ mainWindow[w].code = core
  <2>1. \A w \in MainWindow : w # 1 => mainWindow[w] = Unborn
    BY DEF UpdateInit
  <2>2. \A w \in MainWindow : w = 1 => mainWindow[w].code = core
    BY DEF UpdateInit, Unborn
  <2> QED BY <2>1, <2>2 DEF IsOpen, Unborn
<1>5. ~Creating /\ CreateOnce
  BY <1>2 DEF Creating, CreateOnce
<1>6. Unused /\ WorkLast /\ Awaited
  <2>1. Unmade.window = 0
    BY DEF Unmade
  <2>2. Unused
    BY <1>3, <2>1 DEF Unused
  <2> QED BY <1>3, <2>2 DEF WorkLast, Awaited
<1>7. OneOpen /\ OneLive /\ LiveWindow /\ CreateAlone /\ WindowCodeLoaded
  BY <1>3, <1>4, <1>5 DEF OneOpen, OneLive, LiveWindow, CreateAlone, WindowCodeLoaded
<1>8. Unregistered
  BY <1>2 DEF Unregistered, NoClass
<1> QED BY <1>1, <1>5, <1>6, <1>7, <1>8 DEF Turns

\* Every step of the program keeps the turns.
LEMMA StepTurns == Turns /\ [UpdateNext]_updateVars => Turns'
<1> SUFFICES ASSUME Turns, [UpdateNext]_updateVars PROVE Turns'
  OBVIOUS
<1>1. CASE RunApc
  BY <1>1, RunApcTurns
<1>2. ASSUME NEW w \in MainWindow, Close(w) PROVE Turns'
  BY <1>2, CloseTurns
<1>3. ASSUME NEW w \in MainWindow, NEW c \in Channel, NEW k \in Attempt, Trigger(w, c, k) PROVE Turns'
  BY <1>3, TriggerTurns
<1>4. ASSUME NEW k \in Attempt, Task(k) \/ Fetch(k) \/ Store(k) \/ Work(k) PROVE Turns'
  <2>1. CASE Task(k)
    BY <2>1, TaskTurns
  <2>2. CASE Fetch(k) \/ Store(k)
    BY <2>2, LookupTurns
  <2>3. CASE Work(k)
    BY <2>3, CalmWorkTurns, FreeTurns, InstallTurns, RegisterTurns DEF Work
  <2> QED BY <1>4, <2>1, <2>2, <2>3
<1>5. CASE UNCHANGED updateVars
  <2>1. UNCHANGED <<embedded, installed, core, loads, class, mainWindow, closing, info, attempt, apcs, quit, raced>>
    BY <1>5, StutterSteps
  <2> QED BY <2>1 DEF Turns, UpdateTypeOK, Unused, WorkLast, OneOpen, OneLive, LiveWindow, CreateOnce, CreateAlone,
               Unregistered, Awaited, WindowCodeLoaded, Creating, Live, Asking, Replacing, IsOpen
<1> QED BY <1>1, <1>2, <1>3, <1>4, <1>5 DEF UpdateNext

LEMMA AlwaysTurns == UpdateSpec => []Turns
<1> QED BY InitTurns, StepTurns, PTL DEF UpdateSpec

\* At most one update downloads, frees, installs and loads at a time, for any number of
\* attempts, versions and channels (is_updating, asked by trigger_update).
THEOREM UpdateOneUpdate == UpdateSpec => []OneUpdate
<1>1. Turns => OneUpdate
  BY DEF Turns, OneLive, Live, OneUpdate
<1> QED BY <1>1, AlwaysTurns, PTL
-----------------------------------------------------------------------------
\* A step that no window is born in, and no attempt made.
NoBirth ==
  /\ \A w \in MainWindow : (Born(w)' <=> Born(w)) /\ (IsOpen(w)' => IsOpen(w))
  /\ \A k \in Attempt : attempt'[k].window = attempt[k].window /\ (Live(k)' => Live(k))
  /\ Creating' => Creating \/ \E k \in Attempt : Live(k)

\* The order of windows and of attempts only changes with a new one.
LEMMA NoBirthKeeps ==
  ASSUME Births, Attempts, NoBirth
  PROVE  Births' /\ Attempts'
<1>1. \A n \in MainWindow : (Born(n)' <=> Born(n)) /\ (IsOpen(n)' => IsOpen(n))
  BY DEF NoBirth
<1>2. Births'
  <2>1. Creating' => \E k \in Attempt : Latest(attempt[k].window)
    BY DEF Births, Attempts, NoBirth
  <2>2. Creating' => \E k \in Attempt : Latest(attempt[k].window)'
    BY <1>1, <2>1 DEF NoBirth, Latest
  <2>3. \A w \in MainWindow : IsOpen(w)' => Latest(w)'
    BY <1>1 DEF Births, Latest
  <2>4. \A w \in MainWindow : w > 1 /\ Born(w)' => \E k \in Attempt : attempt'[k].window = w - 1
    BY <1>1 DEF Births, NoBirth
  <2> QED BY <1>1, <2>2, <2>3, <2>4 DEF Births
<1>3. Attempts'
  <2>1. \A k \in Attempt : Live(k)' => Latest(attempt[k].window)'
    BY <1>1 DEF Attempts, NoBirth, Latest
  <2> QED BY <2>1 DEF Attempts, NoBirth
<1> QED BY <1>2, <1>3

\* One that the main thread has no part in: windows stay as they are, but for the
\* field of the one that the task of the attempt k has given up.
Aside(k) ==
  /\ Goes(k) /\ attempt'[k].window = attempt[k].window
  /\ \A w \in MainWindow : mainWindow'[w].at = mainWindow[w].at
  /\ \A w \in MainWindow : mainWindow'[w].updating # mainWindow[w].updating => Asking(k) /\ IsOpen(w)
  /\ (Live(k)' => Live(k)) /\ quit' = quit

LEMMA AsideNoBirth ==
  ASSUME NEW k \in Attempt, Aside(k), Creating' => Creating \/ Live(k)
  PROVE  NoBirth
<1>1. \A j \in Attempt : attempt'[j].window = attempt[j].window /\ (Live(j)' => Live(j))
  BY DEF Aside, Goes, Live, Asking, Replacing
<1> QED BY <1>1 DEF Aside, NoBirth, Born, IsOpen

\* What is to come still comes, as long as the work does not go on.
LEMMA ComesOn ==
  ASSUME WindowComes, quit' = quit \/ quit', class' = class,
         \A w \in MainWindow : IsOpen(w) => IsOpen(w)',
         Creating => Creating',
         \A w \in MainWindow : mainWindow[w].at = "closed" => /\ mainWindow'[w].at = "closed"
                                                            /\ mainWindow'[w].updating = mainWindow[w].updating,
         \A k \in Attempt :
           /\ attempt'[k].target = attempt[k].target
           /\ attempt[k].work \in {"await", "free"}
                => attempt'[k].work \in {"await", "free"} /\ attempt'[k].thread = attempt[k].thread
           /\ attempt[k].work \in {"install", "register"}
                => attempt'[k].work = attempt[k].work /\ attempt'[k].thread = attempt[k].thread
  PROVE  WindowComes'
<1>1. CASE quit \/ (\E w \in MainWindow : IsOpen(w)) \/ Creating
  BY <1>1 DEF WindowComes
<1>2. CASE (\E w \in MainWindow : mainWindow[w].at = "closed" /\ mainWindow[w].updating)
           \/ (\E k \in Attempt : ~attempt[k].target)
  BY <1>2 DEF WindowComes
<1>3. CASE \E k \in Attempt : attempt[k].work \in {"await", "free"} /\ attempt[k].thread
  BY <1>3 DEF WindowComes
<1>4. CASE \E k \in Attempt : /\ attempt[k].work \in {"install", "register"} /\ attempt[k].thread
                             /\ class = NoClass
  BY <1>4 DEF WindowComes
<1> QED BY <1>1, <1>2, <1>3, <1>4 DEF WindowComes

\* The steps of the task and of a look-up.
LEMMA TaskReplacement ==
  ASSUME Turns, Turns', Replacement, NEW k \in Attempt, Task(k) \/ Fetch(k) \/ Store(k)
  PROVE  Replacement'
<1>1. /\ Aside(k) /\ UNCHANGED <<core, class, apcs>>
      /\ attempt'[k].thread = attempt[k].thread /\ attempt'[k].target = attempt[k].target
      /\ attempt'[k].work # attempt[k].work => Asking(k) /\ ~Asking(k)' /\ attempt'[k].work = "download"
  <2>1. CASE Task(k)
    BY <2>1, TaskSteps DEF Turns, Aside, Keeps, Live, Replacing
  <2>2. CASE Fetch(k) \/ Store(k)
    BY <2>2, LookupSteps DEF Turns, Aside, Live, Asking, Replacing
  <2> QED BY <2>1, <2>2
<1>2. \A j \in Attempt : j # k => attempt'[j] = attempt[j]
  BY <1>1 DEF Aside, Goes
<1>3. \A w \in MainWindow : (IsOpen(w)' <=> IsOpen(w)) /\ (Born(w)' <=> Born(w))
  BY <1>1 DEF Aside, IsOpen, Born
<1>4. Births' /\ Attempts'
  <2>1. Creating' => Creating
    BY <1>1 DEF Creating
  <2> QED BY <1>1, <2>1, AsideNoBirth, NoBirthKeeps DEF Replacement
<1>5. Asking(k) => attempt[k].work = "none" /\ Live(k)
  BY DEF Turns, WorkLast, Live
<1>6. LastClass'
  <2>1. class \notin {core, NoClass} => ~Asking(k)
    BY <1>5 DEF Replacement, LastClass
  <2>2. ~Asking(k) => \A j \in Attempt : (Live(j)' => Live(j)) /\ attempt'[j].work = attempt[j].work
    BY <1>1, <1>2 DEF Aside, Live, Asking, Replacing
  <2> QED BY <1>1, <1>3, <2>1, <2>2 DEF Replacement, LastClass, Aside
<1>7. Found' /\ Destroying'
  <2>1. \A j \in Attempt : /\ attempt'[j].work \in {"unload", "await"} => attempt[j].work = attempt'[j].work
                           /\ attempt[j].work = "await" => attempt'[j].work = "await"
                           /\ attempt'[j].window = attempt[j].window /\ attempt'[j].thread = attempt[j].thread
    BY <1>1, <1>2, <1>5 DEF Aside
  <2>2. Found'
    <3> SUFFICES ASSUME NEW j \in Attempt, attempt'[j].work \in {"unload", "await"}, IsOpen(attempt[j].window)'
                 PROVE  attempt'[j].thread
      BY DEF Found
    <3>1. IsOpen(attempt[j].window)
      BY <1>3, <2>1 DEF IsOpen
    <3>2. attempt[j].thread
      BY <2>1, <3>1 DEF Replacement, Found
    <3> QED BY <2>1, <3>2
  <2>3. Destroying'
    BY <1>1, <1>3, <2>1 DEF Replacement, Destroying
  <2> QED BY <2>2, <2>3
<1>8. WindowComes'
  <2>1. \A j \in Attempt : /\ attempt[j].work \in {"await", "free", "install", "register"}
                                => attempt'[j].work = attempt[j].work
                           /\ attempt'[j].target = attempt[j].target /\ attempt'[j].thread = attempt[j].thread
    BY <1>1, <1>2, <1>5
  <2>2. \A w \in MainWindow : mainWindow[w].at = "closed" => /\ mainWindow'[w].at = "closed"
                                                           /\ mainWindow'[w].updating = mainWindow[w].updating
    BY <1>1 DEF Aside, IsOpen
  <2>3. Creating' <=> Creating
    BY <1>1 DEF Creating
  <2> QED BY <1>1, <1>3, <2>1, <2>2, <2>3, ComesOn DEF Replacement, Aside
<1> QED BY <1>4, <1>6, <1>7, <1>8 DEF Replacement

\* A destroyed window is the one of an attempt that waits for it, so that what is
\* queued for other windows is not disturbed.
LEMMA CalmWorkReplacement ==
  ASSUME Turns, Turns', Replacement, NEW k \in Attempt, Download(k) \/ Unload(k) \/ Await(k) \/ Finish(k)
  PROVE  Replacement'
<1> DEFINE a == [does |-> "destroy", window |-> attempt[k].window]
<1>1. /\ Aside(k) /\ UNCHANGED <<core, class>> /\ WindowsStay /\ attempt'[k].target = attempt[k].target
      /\ attempt[k].work \in {"download", "unload", "await", "finish"}
      /\ attempt'[k].work \in {"finish", "unload", "install", "await", "free", "over"}
      /\ attempt[k].work = "await" => /\ attempt'[k].work = "free" /\ attempt'[k].thread = attempt[k].thread
                                      /\ ~IsOpen(attempt[k].window)
      /\ attempt'[k].work = "await" => attempt[k].work = "unload" /\ attempt'[k].thread = attempt[k].thread
      /\ attempt'[k].work = "unload" => attempt'[k].thread = IsOpen(attempt[k].window)
      /\ attempt[k].work = "finish" => attempt'[k].work = "over"
      /\ \/ apcs' = apcs
         \/ /\ attempt'[k].work = "await" /\ IsOpen(attempt[k].window)
            /\ apcs' = Append(apcs, a)
  <2>1. CASE Download(k)
    BY <2>1, DownloadSteps DEF Turns, Aside, Elsewhere, WindowsStay, Live, Asking, Replacing
  <2>2. CASE Unload(k)
    BY <2>2, UnloadSteps DEF Turns, Aside, Elsewhere, WindowsStay, Keeps, Live, Asking, Replacing
  <2>3. CASE Await(k)
    BY <2>3, AwaitSteps DEF Turns, Aside, Elsewhere, WindowsStay, Keeps, Live, Asking, Replacing
  <2>4. CASE Finish(k)
    BY <2>4, FinishSteps DEF Turns, Aside, Elsewhere, WindowsStay, Keeps, Live, Asking, Replacing
  <2> QED BY <2>1, <2>2, <2>3, <2>4
<1>2. \A j \in Attempt : j # k => attempt'[j] = attempt[j]
  BY <1>1 DEF Aside, Goes
<1>3. \A w \in MainWindow : (IsOpen(w)' <=> IsOpen(w)) /\ (Born(w)' <=> Born(w))
  BY <1>1 DEF Aside, IsOpen, Born
<1>4. /\ apcs \in Seq(ApcType) /\ a.does = "destroy" /\ a.window = attempt[k].window
      /\ apcs' = Append(apcs, a) => /\ DOMAIN apcs' = 1 .. Len(apcs) + 1 /\ DOMAIN apcs = 1 .. Len(apcs)
                                   /\ apcs'[Len(apcs) + 1] = a
                                   /\ \A i \in 1 .. Len(apcs) : apcs'[i] = apcs[i]
  <2>1. apcs \in Seq(ApcType) /\ a.does = "destroy" /\ a.window = attempt[k].window
    BY DEF Turns, UpdateTypeOK
  <2> HIDE DEF a
  <2> QED BY <2>1
<1> HIDE DEF a
<1>5. Creating' <=> Creating
  BY <1>1, <1>4 DEF Creating
<1>6. Births' /\ Attempts'
  BY <1>1, <1>5, AsideNoBirth, NoBirthKeeps DEF Replacement
<1>7. LastClass'
  <2>1. class \notin {core, NoClass} => attempt[k].work = "finish"
    BY <1>1 DEF Replacement, LastClass, Live, Replacing
  <2>2. attempt[k].work = "finish" => (Live(k)' => Live(k) /\ attempt[k].work = "register")
    BY <1>1 DEF Aside, Live, Replacing, Turns, WorkLast
  <2>3. \A j \in Attempt : j # k => (Live(j)' <=> Live(j)) /\ attempt'[j].work = attempt[j].work
    BY <1>2 DEF Live, Asking, Replacing
  <2> QED BY <1>1, <1>3, <2>1, <2>2, <2>3 DEF Replacement, LastClass, WindowsStay
<1>8. Found'
  <2>1. attempt'[k].work \in {"unload", "await"} /\ IsOpen(attempt[k].window) => attempt'[k].thread
    BY <1>1 DEF Replacement, Found
  <2>2. attempt'[k].window = attempt[k].window
    BY <1>1 DEF Aside
  <2> QED BY <1>2, <1>3, <2>1, <2>2 DEF Replacement, Found, IsOpen
<1>9. Destroying'
  <2> SUFFICES ASSUME NEW i \in DOMAIN apcs', NEW w \in {0} \cup MainWindow,
                      apcs'[i].does = "destroy", apcs'[i].window = w
               PROVE  /\ w \in MainWindow /\ Born(w)'
                      /\ IsOpen(w)' => \E j \in Attempt : /\ attempt'[j].work = "await"
                                                          /\ attempt'[j].window = w /\ attempt'[j].thread
    BY DEF Destroying
  <2>1. CASE i \in DOMAIN apcs /\ apcs'[i] = apcs[i]
    <3>1. /\ w \in MainWindow /\ Born(w)
          /\ IsOpen(w) => \E j \in Attempt : /\ attempt[j].work = "await"
                                             /\ attempt[j].window = w /\ attempt[j].thread
      <4>1. i \in DOMAIN apcs /\ apcs[i].does = "destroy" /\ apcs[i].window = w
        BY <2>1
      <4> QED BY <4>1 DEF Replacement, Destroying
    <3>2. ASSUME IsOpen(w), NEW j \in Attempt, attempt[j].work = "await", attempt[j].window = w, attempt[j].thread
          PROVE  attempt'[j] = attempt[j]
      BY <1>1, <1>2, <3>2
    <3> QED BY <1>3, <3>1, <3>2
  <2>2. CASE attempt'[k].work = "await" /\ IsOpen(attempt[k].window) /\ apcs'[i] = a
    <3>1. w = attempt[k].window /\ w \in MainWindow /\ Born(w)
      BY <1>4, <2>2 DEF IsOpen, Born
    <3>2. attempt'[k].thread /\ attempt'[k].window = w
      BY <1>1, <2>2, <3>1 DEF Replacement, Found, Aside
    <3> QED BY <1>3, <2>2, <3>1, <3>2
  <2> QED BY <1>1, <1>4, <2>1, <2>2
<1>10. WindowComes'
  <2>1. \A w \in MainWindow : mainWindow[w].at = "closed" => /\ mainWindow'[w].at = "closed"
                                                           /\ mainWindow'[w].updating = mainWindow[w].updating
    BY <1>1 DEF WindowsStay
  <2>2. \A j \in Attempt :
           /\ attempt'[j].target = attempt[j].target
           /\ attempt[j].work \in {"await", "free"}
                => attempt'[j].work \in {"await", "free"} /\ attempt'[j].thread = attempt[j].thread
           /\ attempt[j].work \in {"install", "register"}
                => attempt'[j].work = attempt[j].work /\ attempt'[j].thread = attempt[j].thread
    BY <1>1, <1>2
  <2> QED BY <1>1, <1>3, <1>5, <2>1, <2>2, ComesOn DEF Replacement, Aside
<1> QED BY <1>6, <1>7, <1>8, <1>9, <1>10 DEF Replacement

\* What is queued for a window stays right while the attempt waits.
LEMMA DestroyingKeeps ==
  ASSUME Destroying,
         \A i \in DOMAIN apcs' : apcs'[i].does = "destroy" => \E j \in DOMAIN apcs : apcs[j] = apcs'[i],
         \A w \in MainWindow : (Born(w) => Born(w)') /\ (IsOpen(w)' => IsOpen(w)),
         \A k \in Attempt : attempt[k].work = "await" =>
           /\ attempt'[k].work = "await"
           /\ attempt'[k].window = attempt[k].window /\ attempt'[k].thread = attempt[k].thread
  PROVE  Destroying'
<1> SUFFICES ASSUME NEW i \in DOMAIN apcs', NEW w \in {0} \cup MainWindow,
                    apcs'[i].does = "destroy", apcs'[i].window = w
             PROVE  /\ w \in MainWindow /\ Born(w)'
                    /\ IsOpen(w)' => \E k \in Attempt : /\ attempt'[k].work = "await"
                                                        /\ attempt'[k].window = w /\ attempt'[k].thread
  BY DEF Destroying
<1>1. PICK j \in DOMAIN apcs : apcs[j] = apcs'[i]
  OBVIOUS
<1>2. apcs[j].does = "destroy" /\ apcs[j].window = w
  BY <1>1
<1>3. /\ w \in MainWindow /\ Born(w)
      /\ IsOpen(w) => \E k \in Attempt : /\ attempt[k].work = "await"
                                         /\ attempt[k].window = w /\ attempt[k].thread
  BY <1>2 DEF Destroying
<1> QED BY <1>3

\* The class goes with the core, and what opens the next window is the work itself.
LEMMA FreeReplacement ==
  ASSUME Turns, Turns', Replacement, NEW k \in Attempt, Free(k)
  PROVE  Replacement'
<1>1. /\ Aside(k) /\ Keeps(k) /\ UNCHANGED <<mainWindow, apcs>>
      /\ attempt[k].work = "free" /\ attempt'[k].work = "install"
      /\ class' = (IF class = core /\ \A w \in MainWindow : ~(IsOpen(w) /\ mainWindow[w].code = class)
                   THEN NoClass ELSE class)
  BY FreeSteps DEF Turns, Aside, Elsewhere, Keeps, Live, Asking, Replacing
<1>2. \A j \in Attempt : j # k => attempt'[j] = attempt[j]
  BY <1>1 DEF Aside, Goes
<1>3. \A w \in MainWindow : ~IsOpen(w) /\ ~IsOpen(w)' /\ (Born(w)' <=> Born(w))
  BY <1>1 DEF Turns, Awaited, IsOpen, Born
<1>4. Live(k) /\ ~Creating /\ ~Creating'
  BY <1>1 DEF Turns, CreateAlone, Creating, Live, Replacing
\* The class is the core's, so that it goes with it.
<1>5. class' = NoClass
  <2>1. class \in {core, NoClass}
    BY <1>1, <1>4 DEF Replacement, LastClass
  <2>2. class # NoClass
    BY <1>1, <1>4 DEF Turns, Unregistered
  <2> QED BY <1>1, <1>3, <2>1, <2>2
<1>6. Births' /\ Attempts'
  BY <1>1, <1>4, AsideNoBirth, NoBirthKeeps DEF Replacement
<1>7. LastClass' /\ Found'
  BY <1>3, <1>5 DEF LastClass, Found, IsOpen
<1>8. Destroying'
  BY <1>1, <1>2, <1>3, DestroyingKeeps DEF Replacement
<1>9. WindowComes'
  <2>1. CASE \E j \in Attempt : attempt[j].work \in {"await", "free"} /\ attempt[j].thread
    <3>1. attempt[k].thread
      BY <1>4, <2>1 DEF Turns, OneLive, Live, Replacing
    <3> QED BY <1>1, <1>5, <3>1 DEF WindowComes, Keeps
  <2>2. CASE \E j \in Attempt : attempt[j].work \in {"install", "register"}
    BY <1>1, <1>4, <2>2 DEF Turns, OneLive, Live, Replacing
  <2>3. CASE \/ quit
             \/ \E w \in MainWindow : mainWindow[w].at = "closed" /\ mainWindow[w].updating
             \/ \E j \in Attempt : ~attempt[j].target
    BY <1>1, <1>2, <2>3 DEF WindowComes, Aside, Keeps
  <2> QED BY <1>3, <1>4, <2>1, <2>2, <2>3 DEF Replacement, WindowComes
<1> QED BY <1>6, <1>7, <1>8, <1>9 DEF Replacement

\* The work goes on to register the class, or has found nothing to extract.
LEMMA InstallReplacement ==
  ASSUME Turns, Turns', Replacement, NEW k \in Attempt, Install(k)
  PROVE  Replacement'
<1>1. /\ Aside(k) /\ UNCHANGED <<class, mainWindow, apcs>>
      /\ attempt[k].work = "install" /\ attempt'[k].thread = attempt[k].thread
      /\ \/ attempt'[k].work = "finish" /\ attempt'[k].target = FALSE /\ core' = core
         \/ attempt'[k].work = "register" /\ attempt'[k].target = attempt[k].target
  BY InstallSteps DEF Turns, Aside, Elsewhere, Live, Asking, Replacing
<1>2. \A j \in Attempt : j # k => attempt'[j] = attempt[j]
  BY <1>1 DEF Aside, Goes
<1>3. \A w \in MainWindow : (IsOpen(w)' <=> IsOpen(w)) /\ (Born(w)' <=> Born(w))
  BY <1>1 DEF IsOpen, Born
<1>4. Live(k) /\ ~Asking(k) /\ (Creating' <=> Creating)
  BY <1>1 DEF Turns, WorkLast, Creating, Live, Replacing
<1>5. Births' /\ Attempts'
  BY <1>1, <1>4, AsideNoBirth, NoBirthKeeps DEF Replacement
<1>6. LastClass'
  <2>1. \A j \in Attempt : Live(j)' => j = k
    BY <1>2, <1>4 DEF Turns, OneLive, Live, Asking, Replacing
  <2>2. Live(k)' => attempt'[k].work = "register"
    BY <1>1, <1>4 DEF Turns, WorkLast, Live, Replacing
  <2>3. \A w \in MainWindow : IsOpen(w)' => mainWindow'[w].updating
    BY <1>1, <1>3, <1>4 DEF Turns, LiveWindow
  <2> QED BY <2>1, <2>2, <2>3 DEF LastClass
<1>7. Found'
  BY <1>1, <1>2, <1>3 DEF Replacement, Found, Aside, IsOpen
<1>8. Destroying'
  BY <1>1, <1>2, <1>3, DestroyingKeeps DEF Replacement
<1>9. WindowComes'
  <2>1. CASE \E j \in Attempt : attempt[j].work \in {"await", "free"}
    BY <1>1, <1>4, <2>1 DEF Turns, OneLive, Live, Replacing
  <2>2. CASE \E j \in Attempt : /\ attempt[j].work \in {"install", "register"} /\ attempt[j].thread
                                /\ class = NoClass
    <3>1. attempt[k].thread /\ class = NoClass
      BY <1>4, <2>2 DEF Turns, OneLive, Live, Replacing
    <3> QED BY <1>1, <3>1 DEF WindowComes
  <2>3. CASE \/ quit \/ Creating
             \/ \E w \in MainWindow : IsOpen(w)
             \/ \E w \in MainWindow : mainWindow[w].at = "closed" /\ mainWindow[w].updating
    BY <1>1, <1>3, <1>4, <2>3 DEF WindowComes, Aside
  <2>4. CASE \E j \in Attempt : ~attempt[j].target
    BY <1>1, <1>2, <2>4 DEF WindowComes
  <2> QED BY <2>1, <2>2, <2>3, <2>4 DEF Replacement, WindowComes
<1> QED BY <1>5, <1>6, <1>7, <1>8, <1>9 DEF Replacement

\* Where there was no class, the window that is asked for is the next.
LEMMA RegisterReplacement ==
  ASSUME Turns, Turns', Replacement, NEW k \in Attempt, Register(k)
  PROVE  Replacement'
<1> DEFINE a == [does |-> "create", window |-> 0]
<1>1. /\ Aside(k) /\ Keeps(k) /\ UNCHANGED <<core, mainWindow>>
      /\ attempt[k].work = "register" /\ attempt'[k].work = "finish"
      /\ class' = (IF class = NoClass THEN core ELSE class)
      /\ apcs' = (IF class = NoClass /\ attempt[k].thread THEN Append(apcs, a) ELSE apcs)
  BY RegisterSteps DEF Turns, Aside, Elsewhere, Keeps, Live, Asking, Replacing
<1>2. \A j \in Attempt : j # k => attempt'[j] = attempt[j]
  BY <1>1 DEF Aside, Goes
<1>3. \A w \in MainWindow : (IsOpen(w)' <=> IsOpen(w)) /\ (Born(w)' <=> Born(w))
  BY <1>1 DEF IsOpen, Born
<1>4. Live(k) /\ ~Creating
  BY <1>1 DEF Turns, CreateAlone, Live, Replacing
<1>5. \A j \in Attempt : ~Live(j)'
  BY <1>1, <1>2, <1>4 DEF Turns, WorkLast, OneLive, Live, Asking, Replacing
<1>6. Births' /\ Attempts'
  BY <1>1, <1>4, AsideNoBirth, NoBirthKeeps DEF Replacement
<1>7. LastClass'
  BY <1>1, <1>3, <1>5 DEF Replacement, LastClass
<1>8. Found'
  BY <1>1, <1>2, <1>3 DEF Replacement, Found, IsOpen
<1>9. /\ apcs \in Seq(ApcType) /\ a.does = "create"
      /\ apcs' = Append(apcs, a) => /\ DOMAIN apcs' = 1 .. Len(apcs) + 1 /\ DOMAIN apcs = 1 .. Len(apcs)
                                   /\ apcs'[Len(apcs) + 1] = a /\ Len(apcs) + 1 \in DOMAIN apcs'
                                   /\ \A i \in 1 .. Len(apcs) : apcs'[i] = apcs[i]
  <2>1. apcs \in Seq(ApcType) /\ a.does = "create"
    BY DEF Turns, UpdateTypeOK
  <2> HIDE DEF a
  <2> QED BY <2>1
<1> HIDE DEF a
<1>10. Destroying'
  <2>1. \A i \in DOMAIN apcs' : apcs'[i].does = "destroy" => \E j \in DOMAIN apcs : apcs[j] = apcs'[i]
    BY <1>1, <1>9
  <2> QED BY <1>1, <1>2, <1>3, <2>1, DestroyingKeeps DEF Replacement
<1>11. WindowComes'
  <2>1. CASE \E j \in Attempt : attempt[j].work \in {"await", "free"}
    BY <1>1, <1>4, <2>1 DEF Turns, OneLive, Live, Replacing
  <2>2. CASE \E j \in Attempt : /\ attempt[j].work \in {"install", "register"} /\ attempt[j].thread
                                /\ class = NoClass
    <3>1. attempt[k].thread /\ class = NoClass
      BY <1>4, <2>2 DEF Turns, OneLive, Live, Replacing
    <3>2. Creating'
      BY <1>1, <1>9, <3>1 DEF Creating
    <3> QED BY <3>2 DEF WindowComes
  <2>3. CASE \/ quit
             \/ \E w \in MainWindow : IsOpen(w)
             \/ \E w \in MainWindow : mainWindow[w].at = "closed" /\ mainWindow[w].updating
    BY <1>1, <1>3, <2>3 DEF WindowComes, Aside
  <2>4. CASE \E j \in Attempt : ~attempt[j].target
    BY <1>1, <1>2, <2>4 DEF WindowComes, Keeps
  <2> QED BY <1>4, <2>1, <2>2, <2>3, <2>4 DEF Replacement, WindowComes
<1> QED BY <1>6, <1>7, <1>8, <1>10, <1>11 DEF Replacement

\* The attempt is for the latest window, which no other was made for.
LEMMA TriggerReplacement ==
  ASSUME Turns, Turns', Replacement, NEW w \in MainWindow, NEW c \in Channel, NEW k \in Attempt, Trigger(w, c, k)
  PROVE  Replacement'
<1>0. Triggered(w, c, k)
  BY TriggerSteps DEF Turns
<1>1. /\ IsOpen(w) /\ ~mainWindow[w].updating /\ NextAttempt(k)
      /\ UNCHANGED <<core, class, apcs, quit>>
      /\ \A v \in MainWindow : mainWindow'[v].at = mainWindow[v].at
      /\ Goes(k) /\ attempt'[k].window = w /\ attempt'[k].work = attempt[k].work
  BY <1>0 DEF Triggered
<1>2. /\ attempt[k].window = 0 /\ attempt[k].work = "none"
      /\ \A j \in Attempt : j < k => attempt[j].window # 0
  BY <1>1 DEF NextAttempt, Doing, Turns, Unused, Unmade
<1>3. \A j \in Attempt : j # k => attempt'[j] = attempt[j] /\ (Live(j)' <=> Live(j))
  BY <1>1 DEF Goes, Live, Asking, Replacing
<1>4. \A v \in MainWindow : (IsOpen(v)' <=> IsOpen(v)) /\ (Born(v)' <=> Born(v))
  BY <1>1 DEF IsOpen, Born
<1>5. Latest(w) /\ w # 0
  BY <1>1 DEF Replacement, Births, MainWindow
\* An attempt has replaced the window before, and was made before.
<1>6. w <= k
  <2>1. CASE w = 1
    BY <2>1 DEF Attempt
  <2>2. CASE w > 1
    <3>1. PICK j \in Attempt : attempt[j].window = w - 1
      BY <1>5, <2>2 DEF Replacement, Births, Latest
    <3>2. j \in Int /\ k \in Int /\ w \in Int
      BY DEF Attempt, MainWindow
    <3>3. ~(k < j) /\ j # k
      BY <1>2, <2>2, <3>1, <3>2 DEF Replacement, Attempts
    <3>4. attempt[j].window <= j
      BY DEF Replacement, Attempts
    <3> QED BY <3>1, <3>2, <3>3, <3>4
  <2> QED BY <2>1, <2>2 DEF MainWindow
<1>7. Births'
  <2>1. ~Creating /\ ~Creating'
    BY <1>1 DEF Turns, CreateAlone, Creating
  <2>2. ASSUME NEW v \in MainWindow, v > 1, Born(v)
        PROVE  \E j \in Attempt : attempt'[j].window = v - 1
    <3>1. PICK j \in Attempt : attempt[j].window = v - 1
      BY <2>2 DEF Replacement, Births
    <3>2. j # k
      BY <1>2, <2>2, <3>1 DEF MainWindow
    <3> QED BY <1>3, <3>1, <3>2
  <2>3. \A v \in MainWindow : IsOpen(v)' => Latest(v)'
    BY <1>4 DEF Replacement, Births, Latest
  <2> QED BY <1>4, <2>1, <2>2, <2>3 DEF Replacement, Births
<1>8. Attempts'
  <2>1. \A i, j \in Attempt : i < j /\ attempt'[j].window # 0 => attempt'[i].window # 0
    <3> SUFFICES ASSUME NEW i \in Attempt, NEW j \in Attempt, i < j, attempt'[j].window # 0
                 PROVE  attempt'[i].window # 0
      OBVIOUS
    <3>1. CASE i = k
      BY <1>1, <1>5, <3>1
    <3>2. CASE i # k /\ j = k
      BY <1>2, <1>3, <3>2
    <3>3. CASE i # k /\ j # k
      BY <1>3, <3>3 DEF Replacement, Attempts
    <3> QED BY <3>1, <3>2, <3>3
  <2>2. \A j \in Attempt : attempt'[j].window <= j
    BY <1>1, <1>3, <1>6 DEF Replacement, Attempts
  <2>3. \A j \in Attempt : Live(j)' => Latest(attempt[j].window)'
    <3>1. Latest(w)'
      BY <1>4, <1>5 DEF Latest
    <3>2. \A j \in Attempt : j # k /\ Live(j)' => Latest(attempt[j].window)'
      BY <1>3, <1>4 DEF Replacement, Attempts, Latest
    <3> QED BY <1>1, <3>1, <3>2
  <2> QED BY <2>1, <2>2, <2>3 DEF Attempts
<1>9. LastClass'
  BY <1>1 DEF Replacement, LastClass
<1>10. Found'
  BY <1>1, <1>2, <1>3, <1>4 DEF Replacement, Found, IsOpen
<1>11. Destroying'
  BY <1>1, <1>2, <1>3, <1>4, DestroyingKeeps DEF Replacement
<1>12. WindowComes'
  BY <1>1, <1>4 DEF WindowComes
<1> QED BY <1>7, <1>8, <1>9, <1>10, <1>11, <1>12 DEF Replacement

\* The window quits the program, or is one that an update was in progress for.
LEMMA CloseReplacement ==
  ASSUME Turns, Replacement, NEW w \in MainWindow, Close(w)
  PROVE  Replacement'
<1>1. IsOpen(w) /\ Gone(w, "closed") /\ UNCHANGED <<core, class, attempt, apcs>>
  BY CloseSteps DEF Turns
<1>2. \A v \in MainWindow : /\ IsOpen(v)' => IsOpen(v) /\ mainWindow'[v].updating = mainWindow[v].updating
                            /\ Born(v)' <=> Born(v)
  BY <1>1 DEF Gone, IsOpen, Born
<1>3. (\A k \in Attempt : Live(k)' <=> Live(k)) /\ (Creating' <=> Creating)
  BY <1>1 DEF Live, Asking, Replacing, Creating
<1>4. Births' /\ Attempts'
  BY <1>1, <1>2, <1>3, NoBirthKeeps DEF Replacement, NoBirth
<1>5. LastClass' /\ Found'
  <2>1. LastClass'
    BY <1>1, <1>2, <1>3 DEF Replacement, LastClass
  <2>2. \A v : IsOpen(v)' => IsOpen(v)
    BY <1>2 DEF IsOpen
  <2>3. Found'
    BY <1>1, <2>2 DEF Replacement, Found, IsOpen
  <2> QED BY <2>1, <2>3
<1>6. Destroying'
  BY <1>1, <1>2, DestroyingKeeps DEF Replacement
<1>7. WindowComes'
  BY <1>1 DEF Gone, WindowComes
<1> QED BY <1>4, <1>5, <1>6, <1>7 DEF Replacement

\* There is a window left to be opened: the one after the latest.
LEMMA NewWindowIsNext ==
  ASSUME Births, Attempts, Creating
  PROVE  /\ NewWindow \in MainWindow /\ ~Born(NewWindow)
         /\ \A v \in MainWindow : Born(v) <=> v < NewWindow
         /\ \E k \in Attempt : attempt[k].window = NewWindow - 1
<1>1. PICK k \in Attempt : Latest(attempt[k].window)
  BY DEF Births
<1> DEFINE m == attempt[k].window
<1>2. m \in MainWindow /\ m <= k /\ m + 1 \in MainWindow
  BY <1>1, UpdateAssumption DEF Latest, Attempts, Attempt, MainWindow
<1>3. ~Born(m + 1) /\ \A v \in MainWindow : v < m + 1 => Born(v)
  <2>1. ~Born(m + 1)
    BY <1>1, <1>2 DEF Latest, MainWindow
  <2>2. ASSUME NEW v \in MainWindow, v < m + 1 PROVE Born(v)
    BY <1>1, <1>2, <2>2 DEF Latest, Births, MainWindow
  <2> QED BY <2>1, <2>2
<1>4. /\ NewWindow \in MainWindow /\ ~Born(NewWindow)
      /\ \A v \in MainWindow : v < NewWindow => Born(v)
  BY <1>2, <1>3 DEF NewWindow
<1> HIDE DEF m
<1>5. NewWindow = m + 1
  BY <1>2, <1>3, <1>4 DEF MainWindow
<1>6. \A v \in MainWindow : Born(v) => v < NewWindow
  BY <1>1, <1>2, <1>5 DEF Latest, MainWindow, m
<1>7. attempt[k].window = NewWindow - 1
  BY <1>2, <1>5 DEF m, MainWindow
<1> QED BY <1>4, <1>6, <1>7

\* The window that is destroyed has an attempt that waits for it; the one that is
\* opened is the next.
LEMMA RunApcReplacement ==
  ASSUME Turns, Turns', Replacement, RunApc
  PROVE  Replacement'
<1>1. /\ apcs \in Seq(ApcType) /\ apcs # <<>> /\ apcs' = Tail(apcs)
      /\ UNCHANGED <<core, class, attempt>>
      /\ \/ /\ apcs[1].does = "destroy" /\ IsOpen(apcs[1].window) /\ Gone(apcs[1].window, "replaced")
         \/ /\ apcs[1].does = "destroy" /\ ~IsOpen(apcs[1].window) /\ UNCHANGED <<mainWindow, quit>>
         \/ /\ apcs[1].does = "create" /\ quit' = quit
            /\ \A v \in MainWindow :
                 /\ mainWindow'[v].at = (IF v = NewWindow THEN "open" ELSE mainWindow[v].at)
                 /\ mainWindow'[v].updating = mainWindow[v].updating
  BY RunApcSteps DEF Turns, UpdateTypeOK
<1>2. /\ 1 \in DOMAIN apcs
      /\ \A i \in DOMAIN apcs' : i + 1 \in DOMAIN apcs /\ apcs'[i] = apcs[i + 1]
      /\ \A i \in DOMAIN apcs : i # 1 => i - 1 \in DOMAIN apcs' /\ apcs'[i - 1] = apcs[i]
  BY <1>1
<1>3. \A i \in DOMAIN apcs' : \E j \in DOMAIN apcs : apcs[j] = apcs'[i]
  BY <1>2
<1>4. Creating' => Creating
  BY <1>2 DEF Creating
<1>5. \A k \in Attempt : Live(k)' <=> Live(k)
  BY <1>1 DEF Live, Asking, Replacing
<1>6. CASE \/ apcs[1].does = "destroy" /\ IsOpen(apcs[1].window) /\ Gone(apcs[1].window, "replaced")
           \/ apcs[1].does = "destroy" /\ ~IsOpen(apcs[1].window) /\ UNCHANGED <<mainWindow, quit>>
  <2>1. \A v \in MainWindow : /\ IsOpen(v)' => IsOpen(v) /\ mainWindow'[v].updating = mainWindow[v].updating
                              /\ Born(v)' <=> Born(v)
    <3>1. CASE apcs[1].does = "destroy" /\ IsOpen(apcs[1].window) /\ Gone(apcs[1].window, "replaced")
      BY <3>1 DEF Gone, IsOpen, Born
    <3>2. CASE UNCHANGED mainWindow
      BY <3>2 DEF IsOpen, Born
    <3> QED BY <1>6, <3>1, <3>2
  <2>2. Births' /\ Attempts'
    BY <1>1, <1>4, <1>5, <2>1, NoBirthKeeps DEF Replacement, NoBirth
  <2>3. LastClass'
    BY <1>1, <1>5, <2>1 DEF Replacement, LastClass
  <2>4. Found'
    <3>1. \A v : IsOpen(v)' => IsOpen(v)
      BY <2>1 DEF IsOpen
    <3> QED BY <1>1, <3>1 DEF Replacement, Found, IsOpen
  <2>5. Destroying'
    BY <1>1, <1>3, <2>1, DestroyingKeeps DEF Replacement
  <2>6. WindowComes'
    <3>1. CASE apcs[1].does = "destroy" /\ IsOpen(apcs[1].window)
      <4>1. apcs[1].window \in {0} \cup MainWindow
        BY <3>1 DEF IsOpen
      <4>2. \E k \in Attempt : attempt[k].work = "await" /\ attempt[k].thread
        BY <1>2, <3>1, <4>1 DEF Replacement, Destroying
      <4> QED BY <1>1, <4>2 DEF WindowComes
    <3>2. CASE apcs[1].does = "destroy" /\ UNCHANGED <<mainWindow, quit>>
      <4>1. Creating => Creating'
        <5> SUFFICES ASSUME NEW i \in DOMAIN apcs, apcs[i].does = "create" PROVE Creating'
          BY DEF Creating
        <5> QED BY <1>2, <3>2 DEF Creating
      <4>2. \A v \in MainWindow : IsOpen(v) => IsOpen(v)'
        BY <3>2 DEF IsOpen
      <4> QED BY <1>1, <3>2, <4>1, <4>2, ComesOn DEF Replacement
    <3> QED BY <1>6, <3>1, <3>2
  <2> QED BY <2>2, <2>3, <2>4, <2>5, <2>6 DEF Replacement
<1>7. CASE /\ apcs[1].does = "create" /\ quit' = quit
           /\ \A v \in MainWindow : mainWindow'[v].at = (IF v = NewWindow THEN "open" ELSE mainWindow[v].at)
  <2>1. Creating
    BY <1>2, <1>7 DEF Creating
  <2>2. /\ \A v \in MainWindow : ~IsOpen(v)
        /\ \A k \in Attempt : ~Live(k)
        /\ class = core
    BY <2>1 DEF Turns, CreateAlone
  <2>3. /\ NewWindow \in MainWindow /\ ~Born(NewWindow)
        /\ \A v \in MainWindow : Born(v) <=> v < NewWindow
        /\ \E k \in Attempt : attempt[k].window = NewWindow - 1
    BY <2>1, NewWindowIsNext DEF Replacement
  <2>4. /\ \A v \in MainWindow : (Born(v)' <=> v <= NewWindow) /\ (IsOpen(v)' <=> v = NewWindow)
    BY <1>7, <2>2, <2>3 DEF Born, IsOpen, MainWindow
  <2>5. ~Creating'
    BY <2>3, <2>4 DEF Turns, CreateAlone
  <2>6. Births'
    <3>1. \A v \in MainWindow : IsOpen(v)' => Latest(v)'
      BY <2>3, <2>4 DEF Latest, MainWindow
    <3>2. \A v \in MainWindow : v > 1 /\ Born(v)' => \E k \in Attempt : attempt'[k].window = v - 1
      BY <1>1, <2>3, <2>4 DEF Replacement, Births, MainWindow
    <3>3. \A v, w \in MainWindow : v < w /\ Born(w)' => Born(v)'
      BY <2>3, <2>4 DEF MainWindow
    <3> QED BY <2>5, <3>1, <3>2, <3>3 DEF Births
  <2>7. Attempts'
    BY <1>1, <1>5, <2>2 DEF Replacement, Attempts
  <2>8. LastClass'
    BY <1>1, <2>2 DEF LastClass
  <2>9. Found'
    BY <1>1, <2>2 DEF Found, Live, Replacing
  <2>10. Destroying'
    <3> SUFFICES ASSUME NEW i \in DOMAIN apcs', NEW w \in {0} \cup MainWindow,
                        apcs'[i].does = "destroy", apcs'[i].window = w
                 PROVE  w \in MainWindow /\ Born(w)' /\ ~IsOpen(w)'
      BY DEF Destroying
    <3>1. w \in MainWindow /\ Born(w)
      <4>1. i + 1 \in DOMAIN apcs /\ apcs[i + 1].does = "destroy" /\ apcs[i + 1].window = w
        BY <1>2
      <4>2. Destroying
        BY DEF Replacement
      <4> QED BY <4>1, <4>2 DEF Destroying
    <3> QED BY <2>3, <2>4, <3>1 DEF MainWindow
  <2>11. WindowComes'
    BY <2>3, <2>4 DEF WindowComes
  <2> QED BY <2>6, <2>7, <2>8, <2>9, <2>10, <2>11 DEF Replacement
<1> QED BY <1>1, <1>6, <1>7

\* The first window is open.
LEMMA InitReplacement == UpdateInit => Replacement
<1> SUFFICES ASSUME UpdateInit PROVE Replacement
  OBVIOUS
<1>1. attempt = [k \in Attempt |-> Unmade] /\ apcs = <<>> /\ class = core
  BY DEF UpdateInit
<1>2. \A k \in Attempt : attempt[k].window = 0 /\ ~Live(k) /\ attempt[k].work = "none"
  BY <1>1 DEF Unmade, Live, Asking, Replacing
<1>3. 1 \in MainWindow /\ \A w \in MainWindow : (IsOpen(w) <=> w = 1) /\ (Born(w) <=> w = 1)
  <2>1. 1 \in MainWindow
    BY UpdateAssumption DEF MainWindow
  <2> QED BY <2>1 DEF UpdateInit, Unborn, IsOpen, Born
<1>4. ~Creating
  BY <1>1 DEF Creating
<1>5. Births
  BY <1>3, <1>4 DEF Births, Latest, MainWindow
<1>6. Attempts
  BY <1>2 DEF Attempts, Attempt
<1>7. LastClass /\ Found /\ Destroying /\ WindowComes
  BY <1>1, <1>2, <1>3 DEF LastClass, Found, Destroying, WindowComes
<1> QED BY <1>5, <1>6, <1>7 DEF Replacement

\* Every step of the program keeps what is to open the next window.
LEMMA StepReplacement == Turns /\ Turns' /\ Replacement /\ [UpdateNext]_updateVars => Replacement'
<1> SUFFICES ASSUME Turns, Turns', Replacement, [UpdateNext]_updateVars PROVE Replacement'
  OBVIOUS
<1>1. CASE RunApc
  BY <1>1, RunApcReplacement
<1>2. ASSUME NEW w \in MainWindow, Close(w) PROVE Replacement'
  BY <1>2, CloseReplacement
<1>3. ASSUME NEW w \in MainWindow, NEW c \in Channel, NEW k \in Attempt, Trigger(w, c, k) PROVE Replacement'
  BY <1>3, TriggerReplacement
<1>4. ASSUME NEW k \in Attempt, Task(k) \/ Fetch(k) \/ Store(k) \/ Work(k) PROVE Replacement'
  <2>1. CASE Task(k) \/ Fetch(k) \/ Store(k)
    BY <2>1, TaskReplacement
  <2>2. CASE Work(k)
    BY <2>2, CalmWorkReplacement, FreeReplacement, InstallReplacement, RegisterReplacement DEF Work
  <2> QED BY <1>4, <2>1, <2>2
<1>5. CASE UNCHANGED updateVars
  <2>1. UNCHANGED <<core, class, mainWindow, attempt, apcs, quit>>
    BY <1>5, StutterSteps
  <2> QED BY <2>1 DEF Replacement, LastClass, Found, Destroying, Births, Attempts, WindowComes, Latest, Born,
               Creating, Live, Asking, Replacing, IsOpen
<1> QED BY <1>1, <1>2, <1>3, <1>4, <1>5 DEF UpdateNext

LEMMA AlwaysReplacement == UpdateSpec => []Replacement
<1> QED BY AlwaysTurns, InitReplacement, StepReplacement, PTL DEF UpdateSpec

\* The code of a window stays loaded while it is open, and the program never stays
\* without a window, but for the two ways the code has (unload_core_module,
\* register_and_create_main_window, wm_destroy).
THEOREM UpdateWindowStays == UpdateSpec => []WindowStays
<1>1. Turns /\ Replacement => WindowStays
  <2> SUFFICES ASSUME Turns, Replacement, Deserted
               PROVE  \/ \E w \in MainWindow : mainWindow[w].at = "closed" /\ mainWindow[w].updating
                      \/ \E k \in Attempt : ~attempt[k].target
    BY DEF WindowStays, NoWindowLeft, Turns
  <2>1. ~quit /\ ~Creating /\ \A w \in MainWindow : ~IsOpen(w)
    BY DEF Deserted, Creating
  <2>2. \A k \in Attempt : attempt[k].work \in {"none", "over"}
    BY DEF Deserted
  <2> QED BY <2>1, <2>2 DEF Replacement, WindowComes
<1> QED BY <1>1, AlwaysTurns, AlwaysReplacement, PTL
-----------------------------------------------------------------------------
\* A greater number of weeks is a later version, as no year has more than 53.
LEMMA WeekLater ==
  ASSUME NEW v \in Nat \X (1 .. 53), NEW w \in Nat \X (1 .. 53), WeekTotal(v) > WeekTotal(w)
  PROVE  Later(v, w)
<1>1. v[1] \in Nat /\ v[2] \in 1 .. 53 /\ w[1] \in Nat /\ w[2] \in 1 .. 53
  OBVIOUS
<1>2. v[1] * 52 + v[2] > w[1] * 52 + w[2]
  BY DEF WeekTotal
<1> QED BY <1>1, <1>2 DEF Later

\* Of a look-up, and of the attempts whose work goes by what one has found.
Looking(k) == attempt[k].lookup # "none"
Relying(k) == attempt[k].work \in {"unload", "await", "free", "install"}

\* What the steps of a look-up do to it and to what is kept.
LEMMA DetectSteps ==
  ASSUME UpdateTypeOK, NEW k \in Attempt, DetectUpdate(k)
  PROVE  /\ Goes(k) /\ Keeps(k) /\ installed' = installed /\ Asking(k)
         /\ attempt'[k].lookup = "fetch" /\ attempt'[k].work = attempt[k].work
         /\ raced' = (raced \/ LooksUp(attempt[k].channel))
         /\ \A c \in Channel : info'[c].version = info[c].version
<1>1. /\ Goes(k) /\ Keeps(k) /\ installed' = installed
      /\ attempt'[k].work # attempt[k].work => attempt'[k].work = "download" /\ ~Asking(k)'
  BY TaskSteps DEF Task
<1>2. /\ attempt[k].task = "detect" /\ raced' = (raced \/ LooksUp(attempt[k].channel))
      /\ info' = [info EXCEPT ![attempt[k].channel].available = FALSE]
      /\ attempt' = [attempt EXCEPT ![k].task = "poll", ![k].lookup = "fetch"]
  BY DEF DetectUpdate, Doing
<1>3. attempt'[k].lookup = "fetch" /\ attempt'[k].task = "poll"
  <2> DEFINE p == [attempt[k] EXCEPT !.task = "poll"]
  <2>1. attempt' = [attempt EXCEPT ![k] = [p EXCEPT !.lookup = "fetch"]] /\ attempt \in [Attempt -> AttemptType]
    BY <1>2 DEF UpdateTypeOK
  <2>2. p \in AttemptType /\ p.task = "poll"
    BY <2>1 DEF AttemptType
  <2> HIDE DEF p
  <2> QED BY <2>1, <2>2 DEF AttemptType
<1>4. \A c \in Channel : info'[c].version = info[c].version
  BY <1>2 DEF UpdateTypeOK, InfoType
<1> QED BY <1>1, <1>2, <1>3, <1>4 DEF Asking

\* A version is found to be later by its weeks.
LEMMA FetchSteps ==
  ASSUME UpdateTypeOK, NEW k \in Attempt, Fetch(k)
  PROVE  /\ attempt[k].lookup = "fetch" /\ UNCHANGED <<installed, info, raced>>
         /\ \/ attempt'[k].lookup = "none"
            \/ /\ attempt'[k].lookup = "flag" /\ attempt'[k].found \in Version
               /\ WeekTotal(attempt'[k].found) > WeekTotal(OwnVersion)
<1>1. attempt[k].lookup = "fetch" /\ UNCHANGED <<installed, info, raced>>
  BY DEF Fetch, Doing, disk
<1>2. CASE Move(k, "lookup", "none")
  BY <1>1, <1>2, MoveLookup
<1>3. ASSUME NEW v \in Version,
             attempt' = [attempt EXCEPT ![k].found = v,
               ![k].lookup = IF WeekTotal(v) > WeekTotal(OwnVersion) THEN "flag" ELSE "none"]
      PROVE  /\ attempt'[k].found = v
             /\ attempt'[k].lookup = IF WeekTotal(v) > WeekTotal(OwnVersion) THEN "flag" ELSE "none"
  <2> DEFINE p == [attempt[k] EXCEPT !.found = v]
             at == IF WeekTotal(v) > WeekTotal(OwnVersion) THEN "flag" ELSE "none"
  <2>1. attempt' = [attempt EXCEPT ![k] = [p EXCEPT !.lookup = at]] /\ attempt \in [Attempt -> AttemptType]
    BY <1>3 DEF UpdateTypeOK
  <2>2. v \in Nat \X Nat
    BY UpdateAssumption
  <2>3. p \in AttemptType /\ p.found = v
    <3>1. attempt[k] \in AttemptType
      BY <2>1
    <3> QED BY <2>2, <3>1 DEF AttemptType
  <2> HIDE DEF p, at
  <2>4. attempt'[k].lookup = at /\ attempt'[k].found = v
    BY <2>1, <2>3 DEF AttemptType
  <2> QED BY <2>4 DEF at
<1> QED BY <1>1, <1>2, <1>3 DEF Fetch

\* The flag, the year or the week is stored.
LEMMA StoreSteps ==
  ASSUME UpdateTypeOK, NEW k \in Attempt, Store(k), attempt[k].channel \in Channel
  PROVE  /\ UNCHANGED <<installed, raced>> /\ attempt'[k].found = attempt[k].found
         /\ \A c \in Channel : c # attempt[k].channel => info'[c] = info[c]
         /\ \/ /\ attempt[k].lookup = "flag" /\ attempt'[k].lookup = "year"
               /\ info'[attempt[k].channel].version = info[attempt[k].channel].version
            \/ /\ attempt[k].lookup = "year" /\ attempt'[k].lookup = "week"
               /\ info'[attempt[k].channel].version[1] = attempt[k].found[1]
            \/ /\ attempt[k].lookup = "week" /\ attempt'[k].lookup = "none"
               /\ info[attempt[k].channel].version[1] = attempt[k].found[1] =>
                    info'[attempt[k].channel].version = attempt[k].found
<1> DEFINE c == attempt[k].channel
           v == attempt[k].found
<1>1. UNCHANGED <<installed, raced>> /\ info \in [Channel -> InfoType] /\ v \in Nat \X Nat
  BY DEF Store, disk, UpdateTypeOK, AttemptType
<1>2. \/ /\ attempt[k].lookup = "flag" /\ Move(k, "lookup", "year")
         /\ info' = [info EXCEPT ![c].available = TRUE]
      \/ /\ attempt[k].lookup = "year" /\ Move(k, "lookup", "week")
         /\ info' = [info EXCEPT ![c].version[1] = v[1]]
      \/ /\ attempt[k].lookup = "week" /\ Move(k, "lookup", "none")
         /\ info' = [info EXCEPT ![c].version[2] = v[2]]
  BY DEF Store, Doing
<1> HIDE DEF c, v
<1>3. c \in Channel /\ info[c] \in InfoType
  BY <1>1 DEF c
<1>4. \A d \in Channel : d # c => info'[d] = info[d]
  BY <1>1, <1>2
<1>5. attempt'[k].found = v
  BY <1>2, MoveLookup DEF Keeps, v
<1>6. CASE attempt[k].lookup = "flag" /\ Move(k, "lookup", "year") /\ info' = [info EXCEPT ![c].available = TRUE]
  BY <1>1, <1>3, <1>4, <1>5, <1>6, MoveLookup DEF InfoType, c, v
<1>7. CASE attempt[k].lookup = "year" /\ Move(k, "lookup", "week") /\ info' = [info EXCEPT ![c].version[1] = v[1]]
  <2>1. [info[c] EXCEPT !.version[1] = v[1]].version[1] = v[1]
    BY <1>3 DEF InfoType
  <2>2. info'[c].version[1] = v[1]
    BY <1>1, <1>3, <1>7, <2>1
  <2> QED BY <1>1, <1>4, <1>5, <1>7, <2>2, MoveLookup DEF c, v
<1>8. CASE attempt[k].lookup = "week" /\ Move(k, "lookup", "none") /\ info' = [info EXCEPT ![c].version[2] = v[2]]
  <2> DEFINE old == info[c].version
  <2>1. info'[c].version = [old EXCEPT ![2] = v[2]] /\ old \in Nat \X Nat
    BY <1>1, <1>3, <1>8 DEF InfoType
  <2>2. old[1] = v[1] => [old EXCEPT ![2] = v[2]] = v
    BY <1>1, <2>1
  <2> QED BY <1>1, <1>4, <1>5, <1>8, <2>1, <2>2, MoveLookup DEF c, v
<1> QED BY <1>2, <1>6, <1>7, <1>8

\* A step that look-ups, and what was read of them, have no part in.
Apart ==
  /\ UNCHANGED <<info, installed, raced>>
  /\ \A k \in Attempt : /\ attempt'[k].lookup = attempt[k].lookup /\ attempt'[k].version = attempt[k].version
                        /\ Looking(k) => /\ attempt'[k].channel = attempt[k].channel
                                         /\ attempt'[k].found = attempt[k].found
                        /\ Relying(k)' => Relying(k) /\ attempt'[k].channel = attempt[k].channel

\* Such a step leaves the versions as they are.
LEMMA ApartVersions ==
  ASSUME Versions, Apart PROVE Versions'
<1>1. FoundIsLater'
  BY DEF Versions, FoundIsLater, Apart, Looking
<1>2. ASSUME ~raced'
      PROVE  /\ LooksAlone' /\ HalfWritten' /\ Unchanged'
             /\ \A k \in Attempt : Good(attempt'[k].version)
             /\ \A e \in installed' : e.name = e.holds
  <2>1. LooksAlone /\ HalfWritten /\ Unchanged
    BY <1>2 DEF Versions, Apart
  <2>2. LooksAlone'
    BY <2>1 DEF LooksAlone, Apart, Looking
  <2>3. HalfWritten'
    <3>1. \A k \in Attempt : attempt'[k].lookup = "week" =>
            info[attempt'[k].channel].version[1] = attempt'[k].found[1]
      BY <2>1 DEF HalfWritten, Apart, Looking
    <3>2. ASSUME NEW c \in Channel
          PROVE  Good(info[c].version) \/ \E k \in Attempt : attempt'[k].lookup = "week" /\ attempt'[k].channel = c
      <4>1. CASE \E k \in Attempt : attempt[k].lookup = "week" /\ attempt[k].channel = c
        BY <4>1 DEF Apart, Looking
      <4> QED BY <2>1, <4>1 DEF HalfWritten
    <3> QED BY <3>1, <3>2 DEF HalfWritten, Apart, Good
  <2>4. Unchanged'
    <3>1. \A c : (\E j \in Attempt : attempt'[j].channel = c /\ attempt'[j].lookup # "none") => LooksUp(c)
      BY DEF LooksUp, Apart, Looking, Doing
    <3> QED BY <2>1, <3>1 DEF Unchanged, Apart, Relying, LooksUp, Doing
  <2> QED BY <1>2, <2>2, <2>3, <2>4 DEF Versions, Apart
<1> QED BY <1>1, <1>2 DEF Versions, Good

\* A look-up begins: no other attempt relies on what was found, and no other look-up
\* of the channel is under way.
LEMMA DetectVersions ==
  ASSUME Turns, Versions, NEW k \in Attempt, DetectUpdate(k) PROVE Versions'
<1>1. /\ Goes(k) /\ Keeps(k) /\ installed' = installed /\ Asking(k)
      /\ attempt'[k].lookup = "fetch" /\ attempt'[k].work = attempt[k].work
      /\ raced' = (raced \/ LooksUp(attempt[k].channel))
      /\ \A c \in Channel : info'[c].version = info[c].version
  BY DetectSteps DEF Turns
<1>2. \A j \in Attempt : j # k => attempt'[j] = attempt[j]
  BY <1>1 DEF Goes
<1>3. FoundIsLater'
  BY <1>1, <1>2 DEF Versions, FoundIsLater
<1>4. ASSUME ~raced'
      PROVE  /\ LooksAlone' /\ HalfWritten' /\ Unchanged'
             /\ \A j \in Attempt : Good(attempt'[j].version)
             /\ \A e \in installed' : e.name = e.holds
  <2>1. /\ ~raced /\ LooksAlone /\ HalfWritten
        /\ \A j \in Attempt : attempt[j].channel = attempt[k].channel => attempt[j].lookup = "none"
    BY <1>1, <1>4 DEF Versions, LooksUp, Doing
  <2>2. \A j \in Attempt : attempt'[j].channel = attempt[j].channel
    BY <1>1, <1>2 DEF Keeps
  <2>3. LooksAlone'
    BY <1>2, <2>1, <2>2 DEF LooksAlone
  <2>4. HalfWritten'
    <3>1. \A j \in Attempt : attempt[j].lookup = "week" \/ attempt'[j].lookup = "week" => attempt'[j] = attempt[j]
      BY <1>1, <1>2, <2>1
    <3>2. \A j \in Attempt : attempt'[j].lookup = "week" => attempt[j].channel \in Channel
      BY <3>1 DEF Turns, Unused, Unmade
    <3>3. \A j \in Attempt : attempt'[j].lookup = "week" =>
            info'[attempt'[j].channel].version[1] = attempt'[j].found[1]
      BY <1>1, <2>1, <3>1, <3>2 DEF HalfWritten
    <3>4. ASSUME NEW c \in Channel
          PROVE  \/ Good(info'[c].version)
                 \/ \E j \in Attempt : attempt'[j].lookup = "week" /\ attempt'[j].channel = c
      <4>1. CASE \E j \in Attempt : attempt[j].lookup = "week" /\ attempt[j].channel = c
        BY <3>1, <4>1
      <4> QED BY <1>1, <2>1, <4>1 DEF HalfWritten
    <3> QED BY <3>3, <3>4 DEF HalfWritten, Good
  <2>5. Unchanged'
    <3>1. \A j \in Attempt : ~Relying(j)
      BY <1>1 DEF Turns, OneLive, WorkLast, Live, Replacing, Relying
    <3> QED BY <1>1, <1>2, <3>1 DEF Unchanged, Relying
  <2>6. \A j \in Attempt : attempt'[j].version = attempt[j].version
    BY <1>1, <1>2 DEF Keeps
  <2> QED BY <1>1, <2>1, <2>3, <2>4, <2>5, <2>6 DEF Versions
<1> QED BY <1>3, <1>4 DEF Versions, Good

\* What was found is a version that the server has, and a later one.
LEMMA FetchVersions ==
  ASSUME Turns, Versions, NEW k \in Attempt, Fetch(k) PROVE Versions'
<1>1. /\ Goes(k) /\ attempt[k].lookup = "fetch" /\ UNCHANGED <<installed, info, raced>>
      /\ attempt'[k].channel = attempt[k].channel /\ attempt'[k].version = attempt[k].version
      /\ attempt'[k].work = attempt[k].work
      /\ \/ attempt'[k].lookup = "none"
         \/ /\ attempt'[k].lookup = "flag" /\ attempt'[k].found \in Version
            /\ WeekTotal(attempt'[k].found) > WeekTotal(OwnVersion)
  BY FetchSteps, LookupSteps DEF Turns
<1>2. \A j \in Attempt : j # k => attempt'[j] = attempt[j]
  BY <1>1 DEF Goes
<1>3. FoundIsLater'
  <2>1. attempt'[k].lookup = "flag" => attempt'[k].found \in Version /\ Later(attempt'[k].found, OwnVersion)
    <3>1. attempt'[k].found \in Version => attempt'[k].found \in Nat \X (1 .. 53) /\ OwnVersion \in Nat \X (1 .. 53)
      BY UpdateAssumption
    <3> QED BY <1>1, <3>1, WeekLater
  <2> QED BY <1>1, <1>2, <2>1 DEF Versions, FoundIsLater
<1>4. \A j \in Attempt : /\ Looking(j)' => Looking(j)
                         /\ attempt'[j].channel = attempt[j].channel
                         /\ attempt'[j].version = attempt[j].version
                         /\ attempt'[j].work = attempt[j].work
                         /\ attempt[j].lookup = "week" \/ attempt'[j].lookup = "week" => attempt'[j] = attempt[j]
  BY <1>1, <1>2 DEF Looking
<1>5. ASSUME ~raced'
      PROVE  /\ LooksAlone' /\ HalfWritten' /\ Unchanged'
             /\ \A j \in Attempt : Good(attempt'[j].version)
             /\ \A e \in installed' : e.name = e.holds
  <2>1. LooksAlone /\ HalfWritten /\ Unchanged
    BY <1>1, <1>5 DEF Versions
  <2>2. LooksAlone'
    BY <1>4, <2>1 DEF LooksAlone, Looking
  <2>3. HalfWritten'
    <3>1. \A j \in Attempt : attempt'[j].lookup = "week" =>
            info[attempt'[j].channel].version[1] = attempt'[j].found[1]
      BY <1>4, <2>1 DEF HalfWritten
    <3>2. ASSUME NEW c \in Channel
          PROVE  Good(info[c].version) \/ \E j \in Attempt : attempt'[j].lookup = "week" /\ attempt'[j].channel = c
      BY <1>4, <2>1 DEF HalfWritten
    <3> QED BY <1>1, <3>1, <3>2 DEF HalfWritten, Good
  <2>4. Unchanged'
    <3>1. \A c : (\E j \in Attempt : attempt'[j].channel = c /\ attempt'[j].lookup # "none") => LooksUp(c)
      BY <1>4 DEF LooksUp, Looking, Doing
    <3> QED BY <1>1, <1>4, <2>1, <3>1 DEF Unchanged, LooksUp, Doing
  <2> QED BY <1>1, <1>4, <1>5, <2>2, <2>3, <2>4 DEF Versions
<1> QED BY <1>3, <1>5 DEF Versions, Good

\* The year and the week are of the same version, as no other look-up of the channel
\* writes between them; and no attempt relies on the version meanwhile.
LEMMA StoreVersions ==
  ASSUME Turns, Versions, NEW k \in Attempt, Store(k) PROVE Versions'
<1> DEFINE c == attempt[k].channel
<1>1. /\ Goes(k) /\ Looking(k)
      /\ attempt'[k].channel = c /\ attempt'[k].version = attempt[k].version
      /\ attempt'[k].work = attempt[k].work
  BY LookupSteps DEF Turns, Looking
<1>2. c \in Channel
  BY <1>1 DEF Looking, Turns, Unused, Unmade
<1>3. /\ UNCHANGED <<installed, raced>> /\ attempt'[k].found = attempt[k].found
      /\ \A d \in Channel : d # c => info'[d] = info[d]
      /\ \/ /\ attempt[k].lookup = "flag" /\ attempt'[k].lookup = "year"
            /\ info'[c].version = info[c].version
         \/ /\ attempt[k].lookup = "year" /\ attempt'[k].lookup = "week"
            /\ info'[c].version[1] = attempt[k].found[1]
         \/ /\ attempt[k].lookup = "week" /\ attempt'[k].lookup = "none"
            /\ info[c].version[1] = attempt[k].found[1] => info'[c].version = attempt[k].found
  BY <1>2, StoreSteps DEF Turns
<1> HIDE DEF c
<1>4. \A j \in Attempt : j # k => attempt'[j] = attempt[j]
  BY <1>1 DEF Goes
<1>5. FoundIsLater'
  BY <1>3, <1>4 DEF Versions, FoundIsLater
<1>6. \A j \in Attempt : /\ Looking(j)' => Looking(j)
                         /\ attempt'[j].channel = attempt[j].channel
                         /\ attempt'[j].version = attempt[j].version
                         /\ attempt'[j].work = attempt[j].work
  BY <1>1, <1>4 DEF Looking, c
<1>7. \A j \in Attempt : Looking(j) \/ Relying(j) => attempt[j].channel \in Channel
  BY DEF Turns, Unused, Unmade, Looking, Relying
<1>8. ASSUME ~raced'
      PROVE  /\ LooksAlone' /\ HalfWritten' /\ Unchanged'
             /\ \A j \in Attempt : Good(attempt'[j].version)
             /\ \A e \in installed' : e.name = e.holds
  <2>1. LooksAlone /\ HalfWritten /\ Unchanged
    BY <1>3, <1>8 DEF Versions
  <2>2. LooksAlone'
    BY <1>6, <2>1 DEF LooksAlone, Looking
  <2>3. \A j \in Attempt : j # k /\ Looking(j) => attempt[j].channel # c
    BY <1>1, <2>1 DEF LooksAlone, Looking, c
  <2>4. HalfWritten'
    <3>1. ASSUME NEW j \in Attempt, attempt'[j].lookup = "week"
          PROVE  info'[attempt'[j].channel].version[1] = attempt'[j].found[1]
      <4>1. CASE j = k
        BY <1>1, <1>3, <3>1, <4>1
      <4>2. CASE j # k
        <5>1. /\ attempt'[j] = attempt[j] /\ attempt[j].channel \in Channel
              /\ attempt[j].channel # c /\ info'[attempt[j].channel] = info[attempt[j].channel]
          BY <1>3, <1>4, <1>7, <2>3, <3>1, <4>2 DEF Looking
        <5> QED BY <2>1, <3>1, <5>1 DEF HalfWritten
      <4> QED BY <4>1, <4>2
    <3>2. ASSUME NEW d \in Channel
          PROVE  \/ Good(info'[d].version)
                 \/ \E j \in Attempt : attempt'[j].lookup = "week" /\ attempt'[j].channel = d
      <4>1. CASE d # c
        <5>1. info'[d] = info[d]
          BY <1>3, <4>1
        <5>2. CASE Good(info[d].version)
          BY <5>1, <5>2
        <5>3. ASSUME NEW j \in Attempt, attempt[j].lookup = "week", attempt[j].channel = d
              PROVE  attempt'[j].lookup = "week" /\ attempt'[j].channel = d
          <6>1. j # k
            BY <4>1, <5>3 DEF c
          <6> QED BY <1>4, <5>3, <6>1
        <5> QED BY <2>1, <5>2, <5>3 DEF HalfWritten
      <4>2. CASE d = c /\ attempt[k].lookup = "flag"
        <5>1. ~\E j \in Attempt : attempt[j].lookup = "week" /\ attempt[j].channel = c
          BY <2>3, <4>2 DEF Looking
        <5> QED BY <1>2, <1>3, <2>1, <4>2, <5>1 DEF HalfWritten
      <4>3. CASE d = c /\ attempt[k].lookup = "year"
        BY <1>1, <1>3, <4>3
      <4>4. CASE d = c /\ attempt[k].lookup = "week"
        <5>1. info'[c].version = attempt[k].found
          BY <1>3, <2>1, <4>4 DEF HalfWritten, c
        <5>2. Later(attempt[k].found, OwnVersion)
          BY <4>4 DEF Versions, FoundIsLater
        <5> QED BY <4>4, <5>1, <5>2 DEF Good
      <4> QED BY <1>3, <4>1, <4>2, <4>3, <4>4
    <3> QED BY <3>1, <3>2 DEF HalfWritten, Good
  <2>5. Unchanged'
    <3> SUFFICES ASSUME NEW j \in Attempt, Relying(j)
                 PROVE  ~LooksUp(attempt[j].channel)' /\ info'[attempt'[j].channel].version = attempt'[j].version
      BY <1>6 DEF Unchanged, Relying
    <3>1. ~LooksUp(attempt[j].channel) /\ info[attempt[j].channel].version = attempt[j].version
      BY <2>1 DEF Unchanged, Relying
    <3>2. attempt[j].channel # c
      BY <1>1, <3>1 DEF LooksUp, Looking, Doing, c
    <3>3. ~LooksUp(attempt[j].channel)'
      BY <1>6, <3>1 DEF LooksUp, Looking, Doing
    <3> QED BY <1>3, <1>6, <1>7, <3>1, <3>2, <3>3
  <2> QED BY <1>3, <1>6, <1>8, <2>2, <2>4, <2>5 DEF Versions
<1> QED BY <1>5, <1>8 DEF Versions, Good

\* The version is whole when it is read.
LEMMA DownloadVersions ==
  ASSUME Turns, Versions, NEW k \in Attempt, Download(k) PROVE Versions'
<1>1. /\ Goes(k) /\ UNCHANGED <<installed, info>> /\ attempt[k].work = "download"
      /\ raced' = (raced \/ LooksUp(attempt[k].channel))
      /\ attempt'[k].lookup = attempt[k].lookup /\ attempt'[k].channel = attempt[k].channel
      /\ \/ attempt'[k].work = "finish" /\ attempt'[k].version = attempt[k].version
         \/ attempt'[k].version = info[attempt[k].channel].version
  BY DownloadSteps DEF Turns, Elsewhere
<1>2. attempt'[k].found = attempt[k].found
  <2>1. attempt \in [Attempt -> AttemptType]
    BY DEF Turns, UpdateTypeOK
  <2>2. CASE Move(k, "work", "finish")
    BY <2>2, MoveWork DEF Turns, Keeps
  <2>3. ASSUME NEW next \in {"unload", "install"}, NEW v, NEW t,
               attempt' = [attempt EXCEPT ![k].work = next, ![k].version = v, ![k].thread = t]
        PROVE  attempt'[k].found = attempt[k].found
    BY <2>1, <2>3 DEF AttemptType
  <2> QED BY <2>2, <2>3 DEF Download
<1>3. \A j \in Attempt : j # k => attempt'[j] = attempt[j]
  BY <1>1 DEF Goes
<1>4. \A j \in Attempt : /\ attempt'[j].lookup = attempt[j].lookup
                         /\ attempt'[j].channel = attempt[j].channel
                         /\ attempt'[j].found = attempt[j].found
  BY <1>1, <1>2, <1>3
<1>5. FoundIsLater'
  BY <1>4 DEF Versions, FoundIsLater
<1>6. ASSUME ~raced'
      PROVE  /\ LooksAlone' /\ HalfWritten' /\ Unchanged'
             /\ \A j \in Attempt : Good(attempt'[j].version)
             /\ \A e \in installed' : e.name = e.holds
  <2>1. LooksAlone /\ HalfWritten /\ Unchanged /\ ~LooksUp(attempt[k].channel) /\ ~raced
    BY <1>1, <1>6 DEF Versions
  <2>2. LooksAlone' /\ HalfWritten'
    BY <1>1, <1>4, <2>1 DEF LooksAlone, HalfWritten, Good
  <2>3. \A c : (\E j \in Attempt : attempt'[j].channel = c /\ attempt'[j].lookup # "none") => LooksUp(c)
    BY <1>4 DEF LooksUp, Doing
  <2>4. Unchanged'
    BY <1>1, <1>3, <1>4, <2>1, <2>3 DEF Unchanged, LooksUp, Doing
  <2>5. Good(info[attempt[k].channel].version)
    <3>1. attempt[k].channel \in Channel
      BY <1>1 DEF Turns, Unused, Unmade
    <3> QED BY <2>1, <3>1 DEF HalfWritten, LooksUp, Doing
  <2>6. \A j \in Attempt : Good(attempt'[j].version)
    BY <1>1, <1>3, <2>1, <2>5 DEF Versions
  <2> QED BY <1>1, <2>1, <2>2, <2>4, <2>6 DEF Versions
<1> QED BY <1>5, <1>6 DEF Versions, Good

\* ... and is the one that was downloaded when the folder gets its name.
LEMMA InstallVersions ==
  ASSUME Turns, Versions, NEW k \in Attempt, Install(k) PROVE Versions'
<1>1. /\ Goes(k) /\ UNCHANGED <<info, raced>> /\ attempt[k].work = "install"
      /\ attempt'[k].lookup = attempt[k].lookup /\ attempt'[k].channel = attempt[k].channel
      /\ attempt'[k].version = attempt[k].version /\ attempt'[k].work \in {"finish", "register"}
      /\ \/ installed' = installed
         \/ installed' = installed \cup {Installation(info[attempt[k].channel].version, attempt[k].version)}
  BY InstallSteps DEF Turns, Elsewhere
<1>2. attempt'[k].found = attempt[k].found
  <2>1. attempt \in [Attempt -> AttemptType]
    BY DEF Turns, UpdateTypeOK
  <2>2. CASE Move(k, "work", "register")
    BY <2>2, MoveWork DEF Turns, Keeps
  <2>3. CASE attempt' = [attempt EXCEPT ![k].work = "finish", ![k].target = FALSE]
    BY <2>1, <2>3 DEF AttemptType
  <2> QED BY <2>2, <2>3 DEF Install
<1>3. \A j \in Attempt : j # k => attempt'[j] = attempt[j]
  BY <1>1 DEF Goes
<1>4. \A j \in Attempt : /\ attempt'[j].lookup = attempt[j].lookup
                         /\ attempt'[j].channel = attempt[j].channel
                         /\ attempt'[j].found = attempt[j].found
                         /\ attempt'[j].version = attempt[j].version
                         /\ Relying(j)' => Relying(j)
  BY <1>1, <1>2, <1>3 DEF Relying
<1>5. FoundIsLater'
  BY <1>4 DEF Versions, FoundIsLater
<1>6. ASSUME ~raced'
      PROVE  /\ LooksAlone' /\ HalfWritten' /\ Unchanged'
             /\ \A j \in Attempt : Good(attempt'[j].version)
             /\ \A e \in installed' : e.name = e.holds
  <2>1. LooksAlone /\ HalfWritten /\ Unchanged /\ ~raced
    BY <1>1, <1>6 DEF Versions
  <2>2. LooksAlone' /\ HalfWritten'
    BY <1>1, <1>4, <2>1 DEF LooksAlone, HalfWritten, Good
  <2>3. \A c : (\E j \in Attempt : attempt'[j].channel = c /\ attempt'[j].lookup # "none") => LooksUp(c)
    BY <1>4 DEF LooksUp, Doing
  <2>4. Unchanged'
    BY <1>1, <1>4, <2>1, <2>3 DEF Unchanged, Relying, LooksUp, Doing
  <2>5. info[attempt[k].channel].version = attempt[k].version
    BY <1>1, <2>1 DEF Unchanged
  <2>6. \A e \in installed' : e.name = e.holds
    BY <1>1, <2>1, <2>5 DEF Versions, Installation
  <2> QED BY <1>4, <2>1, <2>2, <2>4, <2>6 DEF Versions
<1> QED BY <1>5, <1>6 DEF Versions, Good

\* Nothing was looked up yet, and an installation is of its own name.
LEMMA InitVersions == UpdateInit => Versions
<1> SUFFICES ASSUME UpdateInit PROVE Versions
  OBVIOUS
<1>1. \A k \in Attempt : attempt[k] = Unmade
  BY DEF UpdateInit
<1>2. FoundIsLater /\ LooksAlone /\ Unchanged /\ \A k \in Attempt : Good(attempt[k].version)
  BY <1>1 DEF FoundIsLater, LooksAlone, Unchanged, Good, Unmade
<1>3. HalfWritten
  <2>1. \A c \in Channel : info[c].version = Zero
    BY DEF UpdateInit
  <2> QED BY <1>1, <2>1 DEF HalfWritten, Good, Unmade
<1>4. \A e \in installed : e.name = e.holds
  <2>1. PICK names \in {{}} \cup {{v} : v \in Version} : installed = {Installation(v, v) : v \in names}
    BY DEF UpdateInit
  <2>2. \A v \in names : Installation(v, v).name = v /\ Installation(v, v).holds = v
    BY DEF Installation
  <2> QED BY <2>1, <2>2
<1> QED BY <1>2, <1>3, <1>4 DEF Versions

\* Every step of the program keeps the versions.
LEMMA StepVersions == Turns /\ Versions /\ [UpdateNext]_updateVars => Versions'
<1> SUFFICES ASSUME Turns, Versions, [UpdateNext]_updateVars PROVE Versions'
  OBVIOUS
<1>1. CASE RunApc
  BY <1>1, RunApcSteps, ApartVersions DEF Turns, Apart, Relying
<1>2. ASSUME NEW w \in MainWindow, Close(w) PROVE Versions'
  BY <1>2, CloseSteps, ApartVersions DEF Turns, Apart, Relying
<1>3. ASSUME NEW w \in MainWindow, NEW c \in Channel, NEW k \in Attempt, Trigger(w, c, k) PROVE Versions'
  <2>0. Triggered(w, c, k)
    BY <1>3, TriggerSteps DEF Turns
  <2>1. /\ NextAttempt(k) /\ UNCHANGED <<info, installed, raced>> /\ Goes(k)
        /\ attempt'[k].work = attempt[k].work /\ attempt'[k].lookup = attempt[k].lookup
        /\ attempt'[k].version = attempt[k].version
    BY <2>0 DEF Triggered
  <2>2. attempt[k].work = "none" /\ attempt[k].lookup = "none"
    BY <2>1 DEF NextAttempt, Doing, Turns, Unused, Unmade
  <2>3. Apart
    BY <2>1, <2>2 DEF Goes, Apart, Looking, Relying
  <2> QED BY <2>3, ApartVersions
<1>4. ASSUME NEW k \in Attempt, Task(k) \/ Fetch(k) \/ Store(k) \/ Work(k) PROVE Versions'
  <2>1. CASE Task(k)
    <3>1. CASE DetectUpdate(k)
      BY <3>1, DetectVersions
    <3>2. CASE ~DetectUpdate(k)
      <4>1. /\ Goes(k) /\ Keeps(k) /\ UNCHANGED <<installed, info, raced>> /\ attempt'[k].lookup = attempt[k].lookup
            /\ attempt'[k].work # attempt[k].work => attempt'[k].work = "download"
        BY <2>1, <3>2, TaskSteps DEF Turns
      <4>2. Apart
        BY <4>1 DEF Goes, Keeps, Apart, Relying
      <4> QED BY <4>2, ApartVersions
    <3> QED BY <3>1, <3>2
  <2>2. CASE Fetch(k) \/ Store(k) \/ Download(k) \/ Install(k)
    BY <2>2, FetchVersions, StoreVersions, DownloadVersions, InstallVersions
  <2>3. CASE Unload(k) \/ Await(k) \/ Free(k) \/ Register(k) \/ Finish(k)
    <3>1. /\ Goes(k) /\ Keeps(k) /\ Elsewhere(k) /\ UNCHANGED <<installed, info, raced>>
          /\ Relying(k)' => Relying(k)
      BY <2>3, UnloadSteps, AwaitSteps, FreeSteps, RegisterSteps, FinishSteps DEF Turns, Relying
    <3>2. Apart
      BY <3>1 DEF Goes, Keeps, Elsewhere, Apart, Relying
    <3> QED BY <3>2, ApartVersions
  <2> QED BY <1>4, <2>1, <2>2, <2>3 DEF Work
<1>5. CASE UNCHANGED updateVars
  <2>1. UNCHANGED <<installed, info, attempt, raced>>
    BY <1>5, StutterSteps
  <2> QED BY <2>1, ApartVersions DEF Apart, Relying
<1> QED BY <1>1, <1>2, <1>3, <1>4, <1>5 DEF UpdateNext

LEMMA AlwaysVersions == UpdateSpec => []Versions
<1> QED BY AlwaysTurns, InitVersions, StepVersions, PTL DEF UpdateSpec

\* What an update installs is later than the executable and in the folder of its own
\* name, unless look-ups overlapped or a version was read before it was written
\* (detect_update, apply_update), for all versions, if no year has more than 53 weeks.
THEOREM UpdateInstalledIsLater == UpdateSpec => []InstalledIsLater
<1>1. Versions => InstalledIsLater
  BY DEF Versions, InstalledIsLater, Good
<1> QED BY <1>1, AlwaysVersions, PTL
-----------------------------------------------------------------------------
(***************************************************************************)
(* The game unpacker (GameUnpack).                                         *)
(***************************************************************************)
CONSTANTS Description, Given, Beside, Copied
VARIABLES page, callback, dialog, cancel, dialogApcs, idle, exited, work, paths, answer, late

Unpack == INSTANCE GameUnpack WITH apcs <- dialogApcs, Files <- Copied

WorkPlace == {"unborn", "queued", "module", "rules", "staging", "found", "path", "variables",
              "variable", "check", "install", "over", "gone"}

\* The work item is a record, of which it matters where it is.
WorkOK ==
  /\ work = [at |-> work.at, module |-> work.module, left |-> work.left, status |-> work.status]
  /\ work.at \in WorkPlace

\* The inductive invariant: a file comes late only if it was being copied when the user
\* cancelled, and no other is begun after it.
CancelInv ==
  /\ WorkOK
  /\ cancel \in BOOLEAN /\ late \in 0..1
  /\ late = 1 => cancel /\ work.at # "install"

\* What a step may do that copies no file: once cancelled stays cancelled, and a file is
\* begun only by who has not been cancelled.
Obeys ==
  /\ WorkOK'
  /\ cancel' \in {cancel, TRUE} /\ late' = late
  /\ work'.at = "install" => work.at = "install" \/ ~cancel

LEMMA ObeyingKeeps == CancelInv /\ Obeys => CancelInv'
BY DEF CancelInv, Obeys

\* The user's steps, and a crash, leave the work item where it is, or start it.
LEMMA DialogObeys ==
  ASSUME CancelInv, Unpack!Choose \/ Unpack!Answer \/ Unpack!Timer \/ Unpack!Close \/ Unpack!Exit \/ Unpack!Crash
  PROVE  Obeys
<1>1. CASE Unpack!Choose
  BY <1>1 DEF Unpack!Choose, CancelInv, Obeys, WorkOK, WorkPlace
<1>2. CASE UNCHANGED work
  BY <1>2 DEF Unpack!Answer, Unpack!Timer, Unpack!Close, Unpack!Exit, Unpack!Crash, Unpack!Choose,
              Unpack!shown, CancelInv, Obeys, WorkOK, WorkPlace
<1> QED
  BY <1>1, <1>2 DEF Unpack!Answer, Unpack!Timer, Unpack!Close, Unpack!Exit, Unpack!Crash

\* Up to the question where to install to, and between the others, no file is begun.
LEMMA AskingObeys ==
  ASSUME CancelInv, Unpack!Begin \/ Unpack!CheckNames \/ Unpack!Gather \/ Unpack!Stage \/ Unpack!AskForPath
                    \/ Unpack!TakePath \/ Unpack!AskForVariable \/ Unpack!TakeVariable \/ Unpack!Report
  PROVE  Obeys
<1> USE DEF Unpack!At, Unpack!Go, Unpack!Finish, Unpack!Own, Unpack!shown, CancelInv, Obeys, WorkOK, WorkPlace
<1>1. CASE Unpack!Begin
  BY <1>1 DEF Unpack!Begin
<1>2. CASE Unpack!CheckNames
  BY <1>2 DEF Unpack!CheckNames, Unpack!NextModule
<1>3. CASE Unpack!Gather
  BY <1>3, DialogObeys DEF Unpack!Gather, Unpack!NextModule
<1>4. CASE Unpack!Stage
  BY <1>4, DialogObeys DEF Unpack!Stage
<1>5. CASE Unpack!AskForPath
  BY <1>5 DEF Unpack!AskForPath
<1>6. CASE Unpack!TakePath
  BY <1>6, DialogObeys DEF Unpack!TakePath
<1>7. CASE Unpack!AskForVariable
  BY <1>7 DEF Unpack!AskForVariable
<1>8. CASE Unpack!TakeVariable
  BY <1>8 DEF Unpack!TakeVariable
<1>9. CASE Unpack!Report
  BY <1>9 DEF Unpack!Report
<1> QED
  BY <1>1, <1>2, <1>3, <1>4, <1>5, <1>6, <1>7, <1>8, <1>9

\* Each file is begun only after a look at should_cancel, ...
LEMMA CheckingObeys == CancelInv /\ Unpack!CheckCancel => Obeys
BY DEF Unpack!CheckCancel, Unpack!At, Unpack!Go, Unpack!Finish, Unpack!Own, Unpack!shown,
       CancelInv, Obeys, WorkOK, WorkPlace

\* ... so that the one being copied is the first and last that may come late.
LEMMA CopyingKeeps == CancelInv /\ Unpack!InstallTo => CancelInv'
<1> SUFFICES ASSUME CancelInv, Unpack!InstallTo PROVE CancelInv'
  OBVIOUS
<1>1. CASE Unpack!Crash
  BY <1>1, DialogObeys, ObeyingKeeps
<1>2. CASE ~Unpack!Crash
  <2>1. /\ work' = [work EXCEPT !.at = "check", !.left = @ - 1]
        /\ late' = IF cancel THEN late + 1 ELSE late
        /\ cancel' = cancel /\ late = 0
    BY <1>2 DEF Unpack!InstallTo, Unpack!At, CancelInv
  <2>2. WorkOK' /\ work'.at = "check"
    BY <2>1 DEF CancelInv, WorkOK, WorkPlace
  <2> QED
    BY <2>1, <2>2 DEF CancelInv
<1> QED
  BY <1>1, <1>2

\* A user who closes the dialog gets at most the file that is being copied, whatever the
\* work item is at and however many files there are (do_unpacking, should_cancel).
THEOREM UnpackCancelStops == Unpack!Spec => []Unpack!CancelStops
<1>1. Unpack!Init => CancelInv
  <2> SUFFICES ASSUME Unpack!Init PROVE CancelInv
    OBVIOUS
  <2>1. WorkOK
    BY DEF Unpack!Init, WorkOK, WorkPlace
  <2>2. ~cancel /\ cancel \in BOOLEAN /\ late = 0
    BY DEF Unpack!Init
  <2> QED
    BY <2>1, <2>2 DEF CancelInv
<1>2. CancelInv /\ [Unpack!Next]_Unpack!vars => CancelInv'
  <2> SUFFICES ASSUME CancelInv, [Unpack!Next]_Unpack!vars PROVE CancelInv'
    OBVIOUS
  <2>1. CASE UNCHANGED Unpack!vars
    BY <2>1 DEF Unpack!vars, CancelInv, WorkOK, WorkPlace
  <2>2. CASE Unpack!Next
    BY <2>2, DialogObeys, AskingObeys, CheckingObeys, CopyingKeeps, ObeyingKeeps DEF Unpack!Next, Unpack!Work
  <2> QED
    BY <2>1, <2>2
<1>3. CancelInv => Unpack!CancelStops
  BY DEF CancelInv, Unpack!CancelStops
<1> QED
  BY <1>1, <1>2, <1>3, PTL DEF Unpack!Spec
=============================================================================
