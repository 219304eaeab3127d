----------------------------- MODULE ArchiveFormats -----------------------------
(***************************************************************************)
(* How the readers of archives list a folder (the content modules).  What  *)
(* an archive stores is a sequence of entries, each with a path, which is  *)
(* a sequence of names below the archive, and perhaps no contents.  A      *)
(* listing is a sequence of items, each a path that is a folder or a file. *)
(* How entries are laid out in bytes, and the order of a listing where a   *)
(* reader sorts or hashes, are left out.                                   *)
(***************************************************************************)
EXTENDS Integers, Sequences, SequencesExt

Top == <<>>

Item(path, folder) == [path |-> path, folder |-> folder]
IsIn(path, d) == path # Top /\ Front(path) = d

FileItems(stored) == [i \in DOMAIN stored |-> Item(stored[i].path, FALSE)]

\* Entries as they come, those without contents as folders.
Items(stored) == [i \in DOMAIN stored |-> Item(stored[i].path, stored[i].empty)]
Within(items, d) == SelectSeq(items, LAMBDA item : IsIn(item.path, d))

FolderItems(folders, d) ==
  SetToSeq({Item(f, TRUE) : f \in {g \in folders : IsIn(g, d)}})

HasContents(e) == ~e.empty
StoredFiles(stored) == {e.path : e \in ToSet(SelectSeq(stored, HasContents))}
-----------------------------------------------------------------------------
\* Entries are files; a folder is what holds a file, and what holds such a folder.
PakListing(stored, d) ==
  LET holding == {Front(e.path) : e \in ToSet(stored)}
      above   == {Front(f) : f \in {g \in holding : Len(g) > 1}}
  IN FolderItems(holding \cup above, d) \o Within(FileItems(stored), d)

\* The names are those of another file, last first; folders are what holds a file.
ResListing(stored, d) ==
  FolderItems({Front(e.path) : e \in ToSet(stored)}, d) \o Within(FileItems(Reverse(stored)), d)

\* Folders have entries of their own.
ZipListing(stored, d) == Within(Items(stored), d)

\* The archive itself shows folders only, and a folder what is in it if it has an
\* entry.
ClnListing(stored, d) ==
  LET shown == Within(Items(stored), d)
  IN IF d = Top THEN SelectSeq(shown, LAMBDA item : item.folder)
     ELSE IF \E e \in ToSet(stored) : e.empty /\ e.path = d THEN shown ELSE <<>>

\* A table of folders, and files that name one by its number.  Without a table
\* all files are in the archive itself; a number beyond it is any folder's.
VolListing(stored, d) ==
  LET table == SelectSeq(Items(stored), LAMBDA item : item.folder)
      known(f) == Item(f, TRUE) \in ToSet(table)
      files == SelectSeq(stored, LAMBDA e : ~e.empty /\ (IsIn(e.path, d) \/ ~known(Front(e.path))))
  IN IF d = Top /\ table # <<>> THEN table
     ELSE [i \in DOMAIN files |-> Item(Append(d, Last(files[i].path)), FALSE)]

\* Groups of files; one that has no index is not stored.
PrjListing(stored, d) ==
  SelectSeq(Within(Items(stored), d), LAMBDA item : item.folder <=> d = Top)

\* A map of volumes beside it: each volume is a folder.
RmfListing(stored, d) ==
  LET volumes == SelectSeq(Items(stored), LAMBDA item : item.folder)
  IN IF d = Top THEN volumes ELSE Within(FileItems(SelectSeq(stored, HasContents)), d)

\* No folders: an index of names and one of files, in the same order.
DarkstarListing(stored) == FileItems(stored)

\* No folders: one file behind the other, or a table that is sorted by where the
\* files begin, or one that is taken as it is.
DynListing(stored) == FileItems(stored)
RbxListing(stored) == FileItems(stored)
TbvListing(stored) == FileItems(stored)
ClmListing(stored) == FileItems(stored)
AtdListing(stored) == FileItems(stored)

\* No folders: entries without contents only say where a group begins and ends
\* (wad), where the last file ends (rsc), or that a place is free (mw4).
WadListing(stored) == FileItems(SelectSeq(stored, HasContents))
RscListing(stored) == FileItems(SelectSeq(stored, HasContents))
Mw4Listing(stored) == FileItems(SelectSeq(stored, HasContents))
-----------------------------------------------------------------------------
\* The folders on the way to one, and itself.
Segments(f) == [i \in DOMAIN f |-> SubSeq(f, 1, i)]

\* The tools that list cabinets show files only; each folder is added when its
\* first file comes.
AddFolders(listed, f) ==
  LET folders == listed.folders \cup {f}
      new == IF f \in listed.folders THEN <<>>
             ELSE SelectSeq(Segments(f), LAMBDA g : g = f \/ g \notin folders)
  IN [folders |-> folders \cup ToSet(new),
      items   |-> listed.items \o [i \in DOMAIN new |-> Item(new[i], TRUE)]]

CabListing(stored, d) ==
  LET add(listed, e) ==
        [AddFolders(listed, Front(e.path)) EXCEPT !.items = Append(@, Item(e.path, FALSE))]
  IN Within(FoldLeft(add, [folders |-> {}, items |-> <<>>], stored).items, d)

\* The tools for cabinets; a cabinet of Microsoft's is left to the one for other
\* archives.
CabTool == {"cab2", "cab5", "cab6"}
Cabinet == CabTool \cup {"mscab"}

\* Mutant of Remember: whatever tool is remembered already.
RememberAlways(tools, kept, own, listing) ==
  IF own \notin Cabinet \/ listing = <<>> THEN tools
  ELSE tools \cup ({IF kept THEN "cab2" ELSE own} \cap CabTool)

\* The tools are tried in turn, and the listing is kept, so that from then on the
\* first one seems to have made it.  The tool that lists is remembered
\* (additional_flags), unless another one is.
Remember(tools, kept, own, listing) ==
  LET lister == IF kept THEN "cab2" ELSE own
  IN IF own \notin Cabinet \/ listing = <<>> \/ tools \ {lister} # {} THEN tools
     ELSE tools \cup ({lister} \cap CabTool)

\* Files are extracted with the tool that is remembered, and with none with the
\* first that does it.
ExtractedWith(tools, own) ==
  Head(Append(SelectSeq(<<"cab2", "cab5", "cab6">>, LAMBDA t : t \in tools), own))
-----------------------------------------------------------------------------
\* make_resource_reader: the reader for a kind of archive.
Listing(kind, stored, d) ==
  CASE kind = "pak" -> PakListing(stored, d)
    [] kind = "res" -> ResListing(stored, d)
    [] kind = "zip" -> ZipListing(stored, d)
    [] kind = "cln" -> ClnListing(stored, d)
    [] kind = "vol" -> VolListing(stored, d)
    [] kind = "prj" -> PrjListing(stored, d)
    [] kind = "darkstar" -> DarkstarListing(stored)
    [] kind = "rmf" -> RmfListing(stored, d)
    [] kind = "dyn" -> DynListing(stored)
    [] kind = "rbx" -> RbxListing(stored)
    [] kind = "tbv" -> TbvListing(stored)
    [] kind = "clm" -> ClmListing(stored)
    [] kind = "atd" -> AtdListing(stored)
    [] kind = "wad" -> WadListing(stored)
    [] kind = "rsc" -> RscListing(stored)
    [] kind = "mw4" -> Mw4Listing(stored)
    [] kind = "mscab" -> ZipListing(stored, d)
    [] kind \in CabTool -> CabListing(stored, d)
=============================================================================
