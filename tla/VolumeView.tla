------------------------------- MODULE VolumeView -------------------------------
(***************************************************************************)
(* The view of an archive (vol_shared.cpp, vol_view.win32.cpp).  A thread  *)
(* walks the folders of the archive and gives every file a row in the      *)
(* list, which only the window's thread can make: the walker sends it the  *)
(* row and waits.  The window's thread meanwhile lists, opens and extracts *)
(* files, filters the rows and may close the view.                         *)
(***************************************************************************)
EXTENDS ArchiveFormats, FiniteSets

CONSTANTS
  Stored, \* kind of archive -> what one of that kind stores
  Shown   \* names of files of a category that some view knows

Kind == DOMAIN Stored

VARIABLES
  kind,      \* the kind of the archive, which decides on the reader
  tools,     \* additional_flags: the tools that were found to list it
  walker,    \* the loading thread: where it is, what it has to walk, at which file
  contents,  \* controller_state::contents
  goOn,      \* should_continue
  rows,      \* the rows of the list
  indices,   \* file_indices: the row of a file
  writing,   \* is the lock held by the walker?
  ui,        \* the window's thread
  selected,  \* selected_table_items
  job,       \* the work item that extracts all: what it has still to write
  saved      \* has_saved

list == <<rows, indices, selected>>
vars == <<kind, tools, walker, contents, goOn, list, writing, ui, job, saved>>

Init ==
  /\ kind \in Kind
  /\ tools = {}
  /\ walker = [at |-> "unborn", agenda |-> <<>>]
  /\ contents = <<>> /\ goOn = FALSE
  /\ rows = <<>> /\ indices = <<>> /\ selected = {}
  /\ writing = FALSE
  /\ ui = "loop"
  /\ job = [at |-> "none", left |-> <<>>]
  /\ saved = "unset"

Open == ui \in {"loop", "contents"}

Walker(at) == walker' = [walker EXCEPT !.at = at]
Current == Head(walker.agenda)
Contents(d) == Listing(kind, Stored[kind], d)

-----------------------------------------------------------------------------
\* load_volume, in wm_copy_data: the top folder is listed at once, the rest by a
\* thread.
LoadVolume ==
  /\ ui = "loop" /\ walker.at = "unborn"
  /\ contents' = <<>> /\ goOn' = TRUE
  /\ walker' = [at |-> "next", agenda |-> Contents(Top)]
  /\ tools' = Remember(tools, FALSE, kind, Contents(Top))
  /\ UNCHANGED <<kind, list, writing, ui, job, saved>>

\* get_full_listing: a folder is replaced by what is in it.
NextItem ==
  /\ walker.at = "next"
  /\ IF walker.agenda = <<>> \/ ~goOn THEN Walker("done") /\ UNCHANGED tools
     ELSE IF Current.folder
     THEN /\ walker' = [walker EXCEPT !.agenda = Contents(Current.path) \o Tail(@)]
          /\ tools' = Remember(tools, TRUE, kind, Contents(Current.path))
     ELSE Walker("append") /\ UNCHANGED tools
  /\ UNCHANGED <<kind, contents, goOn, list, writing, ui, job, saved>>

\* Mutant of AppendFile: the row is sent before the lock is given back.
AppendAndHold ==
  /\ walker.at = "append" /\ Open
  /\ contents' = Append(contents, Current.path)
  /\ writing' = TRUE
  /\ Walker("show")
  /\ UNCHANGED <<kind, tools, goOn, list, ui, job, saved>>

\* A file is added to the contents, under the lock ...
AppendFile ==
  /\ walker.at = "append" /\ Open
  /\ contents' = Append(contents, Current.path)
  /\ Walker("show")
  /\ UNCHANGED <<kind, tools, goOn, list, writing, ui, job, saved>>

\* ... and then told to the view (on_new_item), which stops the walk if there is
\* no list, and else sends a row for a file of a category that is known ...
OnNewItem ==
  /\ walker.at = "show"
  /\ goOn' = (goOn /\ Open)
  /\ IF Open /\ Last(Current.path) \in Shown
     THEN Walker("sent") /\ UNCHANGED writing
     ELSE walker' = [at |-> "next", agenda |-> Tail(walker.agenda)] /\ writing' = FALSE
  /\ UNCHANGED <<kind, tools, contents, list, ui, job, saved>>

\* ... which the window's thread inserts when it is back in its loop ...
InsertRow ==
  /\ walker.at = "sent" /\ ui = "loop"
  /\ rows' = Append(rows, Current.path)
  /\ Walker("index")
  /\ UNCHANGED <<kind, tools, contents, goOn, indices, selected, writing, ui, job, saved>>

\* ... the row's number is kept, and the tile sent likewise.
KeepIndex ==
  /\ walker.at = "index" /\ Open
  /\ indices' = Append(indices, [file |-> Current.path, row |-> Len(rows)])
  /\ Walker("tile")
  /\ UNCHANGED <<kind, tools, contents, goOn, rows, selected, writing, ui, job, saved>>

SetTileInfo ==
  /\ walker.at = "tile" /\ ui = "loop"
  /\ walker' = [at |-> "next", agenda |-> Tail(walker.agenda)]
  /\ writing' = FALSE
  /\ UNCHANGED <<kind, tools, contents, goOn, list, ui, job, saved>>

\* What a walker does to a view that is gone is done to freed memory; here it
\* only stops.
Stray ==
  /\ walker.at \in {"append", "sent", "index", "tile"} /\ ~Open
  /\ Walker("done")
  /\ UNCHANGED <<kind, tools, contents, goOn, list, writing, ui, job, saved>>

Walk == NextItem \/ AppendFile \/ OnNewItem \/ InsertRow \/ KeepIndex \/ SetTileInfo \/ Stray

-----------------------------------------------------------------------------
\* A row is selected, or is no more: either way it is added to the selection.
ItemChanged(i) ==
  /\ ui = "loop" /\ i \in DOMAIN rows /\ i \notin selected
  /\ selected' = selected \cup {i}
  /\ UNCHANGED <<kind, tools, walker, contents, goOn, rows, indices, writing, ui, job, saved>>

\* Extracting, and opening, files begins with get_contents, which waits for the
\* lock.
AskContents ==
  /\ ui = "loop" /\ walker.at # "unborn"
  /\ ui' = "contents"
  /\ UNCHANGED <<kind, tools, walker, contents, goOn, list, writing, job, saved>>

\* extract_selected_files, and open_new_tab_for_item with one row: what has the
\* name of a selected row, the first of that name, is written or read by the
\* window's thread.
ExtractSelected ==
  /\ ui = "contents" /\ ~writing
  /\ ui' = "loop"
  /\ UNCHANGED <<kind, tools, walker, contents, goOn, list, writing, job, saved>>

\* extract_all_files: a work item for what is in the contents now, unless one is
\* at work.  (One asked for before the last has begun is left out: a bound.)
ExtractAll ==
  /\ ui = "contents" /\ ~writing
  /\ ui' = "loop"
  /\ IF saved = "no" \/ job.at # "none" THEN UNCHANGED job
     ELSE job' = [at |-> "queued", left |-> contents]
  /\ UNCHANGED <<kind, tools, walker, contents, goOn, list, writing, saved>>

BeginJob ==
  /\ job.at = "queued" /\ Open
  /\ job' = [job EXCEPT !.at = "writing"]
  /\ saved' = "no"
  /\ UNCHANGED <<kind, tools, walker, contents, goOn, list, writing, ui>>

\* load_content_data takes the lock too.  (What is not written when the view is
\* closed is read from freed memory; here it is not written.)
WriteFile ==
  /\ job.at = "writing" /\ Open /\ ~writing
  /\ IF job.left = <<>>
     THEN job' = [job EXCEPT !.at = "none"] /\ saved' = "yes"
     ELSE job' = [job EXCEPT !.left = Tail(@)] /\ UNCHANGED saved
  /\ UNCHANGED <<kind, tools, walker, contents, goOn, list, writing, ui>>

\* The view is closed: its destructor tells the walker to stop, and the state
\* waits for it.
CloseView ==
  /\ ui = "loop"
  /\ ui' = "joining"
  /\ goOn' = FALSE
  /\ UNCHANGED <<kind, tools, walker, contents, list, writing, job, saved>>

Destroyed ==
  /\ ui = "joining" /\ walker.at \in {"unborn", "done"}
  /\ ui' = "gone"
  /\ UNCHANGED <<kind, tools, walker, contents, goOn, list, writing, job, saved>>

Window ==
  \/ LoadVolume \/ AskContents \/ ExtractSelected \/ ExtractAll
  \/ CloseView \/ Destroyed \/ \E i \in DOMAIN rows : ItemChanged(i)

Next == Window \/ Walk \/ BeginJob \/ WriteFile

\* Threads run, and the window's thread answers what it has been asked.
Fairness == WF_vars(NextItem) /\ WF_vars(AppendFile) /\ WF_vars(OnNewItem)
            /\ SF_vars(InsertRow) /\ WF_vars(KeepIndex) /\ SF_vars(SetTileInfo) /\ WF_vars(Stray)
            /\ WF_vars(ExtractSelected) /\ WF_vars(Destroyed)

Spec == Init /\ [][Next]_vars /\ Fairness
-----------------------------------------------------------------------------
\* A file is found in the row that is kept for it.
RowsFound == \A n \in DOMAIN indices : rows[indices[n].row] = indices[n].file

\* No tool but the one that listed a cabinet is remembered for it.
ToolKept == kind \in CabTool => tools \subseteq {kind}

AllListed ==
  /\ walker.at = "done"
  /\ ToSet(contents) = StoredFiles(Stored[kind]) /\ IsInjective(contents)
  /\ rows = SelectSeq(contents, LAMBDA f : Last(f) \in Shown)
  /\ RowsFound
  /\ ExtractedWith(tools, kind) = kind

\* A view that was given an archive, of whatever kind, and stays open comes to list
\* it, each stored file once and found under its own row, and to extract with the
\* tool that listed; one that is closed goes away.  This though its two threads
\* wait for one another: the walker for the window's thread to make a row, that one
\* for the lock to read the contents, or for the walker to end.
ArchiveListed == <>[](walker.at = "unborn" \/ ui = "gone" \/ (Open /\ AllListed))
=============================================================================
