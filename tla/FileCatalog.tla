----------------------------- MODULE FileCatalog -----------------------------
(* The file catalogue (file_catalog.rs, file_catalog/windows_ntfs.rs): one    *)
(* SQLite database that lists the entries of one root.  A build either walks  *)
(* the whole root or, on an NTFS drive, applies what the change journal of    *)
(* the drive recorded since the checkpoint of the stored listing.  Files keep *)
(* changing while a build reads them; a build writes into a transaction, so   *)
(* that only a commit is seen.  Builds and clearing hold the work slot        *)
(* (ScanRuntime); there is one at a time.                                     *)
(*                                                                            *)
(* The drive has files and one folder; a path is <<name>> or <<folder name,   *)
(* name>>.  The other root is an empty folder that has no journal.            *)
EXTENDS Integers, Sequences, FiniteSets, TLC

CONSTANTS
  Files,        \* file records of the drive
  Names,        \* names an entry may have
  MaxEntries,   \* FileCatalogConfig.max_entries
  MaxChanges,   \* bound: changes of the drive
  MaxBuilds     \* bound: builds started

CatalogAssumption ==
  MaxEntries \in Nat \ {0} /\ "folder" \notin Files /\ "drive" \notin Files

VARIABLES
  disk,     \* where each record is now
  log,      \* the change journal: record and parents of each change
  lowest,   \* first position of the journal that is still there
  rows,     \* file_catalog_entries, by path
  meta,     \* file_catalog_meta
  build,    \* the running build
  builds

drive == <<disk, log, lowest>>
vars == <<drive, rows, meta, build, builds>>

Records == Files \cup {"folder"}
Absent == [parent |-> "none", name |-> "none"]
Spots(o) == [parent : IF o = "folder" THEN {"drive"} ELSE {"drive", "folder"}, name : Names]
NoMeta == [root |-> "none"]
None == [at |-> "none"]
NoCheckpoint == -1
NoRows == <<>>

\* The path of a record, given where the folder is; {} when it has none.
PathsOf(at, folder) ==
  CASE at.parent = "drive" -> {<<at.name>>}
    [] at.parent = "folder" /\ folder # Absent -> {<<folder.name, at.name>>}
    [] OTHER -> {}

Init ==
  /\ disk \in {d \in [Records -> {Absent} \cup Spots("file")] :
       /\ \A o \in Records : d[o] \in {Absent} \cup Spots(o)
       /\ \A o, p \in Records : d[o] = d[p] => o = p \/ d[o] = Absent
       /\ d["folder"] = Absent => \A o \in Files : d[o].parent # "folder"}
  /\ log = <<>> /\ lowest = 0 /\ rows = NoRows /\ meta = NoMeta
  /\ build = None /\ builds = 0

-----------------------------------------------------------------------------
(* The drive: other programs create, remove, rename and move entries, and     *)
(* Windows records each change before anybody can see it.                     *)

Change(o) ==
  /\ Len(log) < MaxChanges
  /\ \E spot \in ({Absent} \cup Spots(o)) \ {disk[o]} :
       /\ spot # Absent => \A p \in Records : disk[p] # spot
       /\ spot.parent = "folder" => disk["folder"] # Absent
       /\ o = "folder" /\ spot = Absent => \A f \in Files : disk[f].parent # "folder"
       /\ disk' = [disk EXCEPT ![o] = spot]
       /\ log' = Append(log, [id |-> o, parents |-> {disk[o].parent, spot.parent}])
  /\ UNCHANGED <<lowest, rows, meta, build, builds>>

\* The journal is bounded, and may be deleted and created again.
Truncate ==
  /\ lowest < Len(log) /\ lowest' = Len(log)
  /\ UNCHANGED <<disk, log, rows, meta, build, builds>>

-----------------------------------------------------------------------------
(* build_file_catalog_inner: the stored meta is read, and the source opened;  *)
(* an NTFS source notes the end of the journal at once.                       *)

Begin(root, source, start) ==
  /\ build = None /\ builds < MaxBuilds /\ builds' = builds + 1
  /\ source = "ntfs" => root = "drive"
  /\ start # NoCheckpoint => source = "ntfs" /\ start = Len(log)
  /\ build' = [at |-> "choose", root |-> root, source |-> source, start |-> start,
               next |-> start, prev |-> meta, tx |-> rows, gen |-> 0, left |-> {},
               ids |-> {}, folder |-> Absent, count |-> 0, limit |-> FALSE]
  /\ UNCHANGED <<drive, rows, meta>>

\* can_apply_ntfs_delta and ntfs_checkpoint.
CanApplyDelta(b) ==
  /\ b.source = "ntfs" /\ b.prev # NoMeta /\ b.prev.source = "ntfs"
  /\ ~b.prev.limit /\ b.prev.root = b.root /\ b.prev.next # NoCheckpoint

\* read_journal_delta: the journal must still hold what follows the checkpoint.
Continues(next) == next >= lowest

Indexed(tx, o) == {p \in DOMAIN tx : tx[p].id = o}
\* load_ntfs_directory_paths: the drive, and the folder where the listing has it.
KnownFolders(tx) == {"drive"} \cup {o \in {"folder"} : Indexed(tx, o) # {}}
FolderOf(tx) ==
  IF Indexed(tx, "folder") = {} THEN Absent
  ELSE [parent |-> "drive", name |-> (CHOOSE p \in Indexed(tx, "folder") : TRUE)[1]]

\* The changed records that matter to the listing.
Relevant(tx, next) ==
  {log[i].id : i \in {k \in next + 1 .. Len(log) :
     Indexed(tx, log[k].id) # {} \/ log[k].parents \cap KnownFolders(tx) # {}}}

\* build_full_catalog opens its transaction: rows of another root go, and the
\* generation continues that of the same root only.
Full(b) ==
  LET same == meta # NoMeta /\ meta.root = b.root
  IN [b EXCEPT !.at = "folders", !.count = 0, !.limit = FALSE, !.ids = {}, !.next = b.start,
               !.tx = IF meta # NoMeta /\ ~same THEN NoRows ELSE rows,
               !.gen = IF same THEN meta.gen + 1 ELSE 1]

Choose ==
  /\ build.at = "choose"
  /\ IF CanApplyDelta(build) /\ Continues(build.prev.next)
     THEN LET ids == Relevant(rows, build.prev.next)
          IN build' = IF "folder" \in ids \/ Cardinality(ids) > MaxEntries THEN Full(build)
                      ELSE [build EXCEPT !.at = "changed", !.ids = ids, !.left = ids,
                                         !.next = Len(log), !.gen = build.prev.gen + 1,
                                         !.folder = FolderOf(rows)]
     ELSE build' = Full(build)
  /\ UNCHANGED <<drive, rows, meta, builds>>

-----------------------------------------------------------------------------
(* Rows (prepare_upsert): an entry at a known path keeps when that path was   *)
(* first seen; at a new path it inherits from the row of its record, if any.  *)

\* Asking the row of the record alone.
FirstSeenByRecord(tx, path, id, gen) ==
  IF id # "none" /\ Indexed(tx, id) # {} THEN tx[CHOOSE p \in Indexed(tx, id) : TRUE].first ELSE gen

FirstSeen(tx, path, id, gen) ==
  IF path \in DOMAIN tx THEN tx[path].first
  ELSE FirstSeenByRecord(tx, path, id, gen)

Upsert(tx, path, id, gen) ==
  (path :> [id |-> id, gen |-> gen, first |-> FirstSeen(tx, path, id, gen)]) @@ tx

KeepRows(tx, keep) == [p \in keep |-> tx[p]]

\* CatalogWriter.push: one entry, or the limit is noted.
Push(b, o, path) ==
  IF b.count >= MaxEntries THEN [b EXCEPT !.limit = TRUE, !.left = {}]
  ELSE [b EXCEPT !.tx = Upsert(b.tx, path, IF b.source = "ntfs" THEN o ELSE "none", b.gen),
                 !.count = b.count + 1, !.left = b.left \ {o}]

\* enumerate_changed: each changed record is read as it is now.  A record no
\* longer inside is skipped; a listing at its limit needs the whole walk.
ReadChanged(o) ==
  /\ build.at = "changed" /\ o \in build.left
  /\ LET paths == PathsOf(disk[o], build.folder)
     IN IF paths = {} THEN build' = [build EXCEPT !.left = @ \ {o}]
        ELSE \E path \in paths :
               LET b == Push(build, o, path) IN build' = IF b.limit THEN Full(build) ELSE b
  /\ UNCHANGED <<drive, rows, meta, builds>>

\* The first pass of enumerate_full collects the folders; a walk comes to the
\* folder before its entries.
ReadFolders ==
  /\ build.at = "folders"
  /\ build' = [build EXCEPT !.at = "entries", !.folder = disk["folder"],
                            !.left = IF build.root = "drive" THEN Records ELSE {}]
  /\ UNCHANGED <<drive, rows, meta, builds>>

\* The second pass: the entries one after the other.
ReadEntry(o) ==
  /\ build.at = "entries" /\ o \in build.left
  /\ LET paths == PathsOf(disk[o], build.folder)
     IN IF paths = {} THEN build' = [build EXCEPT !.left = @ \ {o}]
        ELSE \E path \in paths : build' = Push(build, o, path)
  /\ UNCHANGED <<drive, rows, meta, builds>>

-----------------------------------------------------------------------------
(* The end of a build.                                                        *)

Fresh(b) == {p \in DOMAIN b.tx : b.tx[p].gen = b.gen}
Unchanged(b) == {p \in DOMAIN b.tx : b.tx[p].id \notin b.ids}

\* What a build commits, with the journal position reached when it is complete.
ListingAtEnd(b) ==
  [root |-> b.root, gen |-> b.gen, source |-> b.source, limit |-> b.limit,
   next |-> IF b.next = NoCheckpoint THEN NoCheckpoint ELSE Len(log)]
\* The same; the checkpoint is the position noted before the records were read.
Listing(b) ==
  [root |-> b.root, gen |-> b.gen, source |-> b.source, limit |-> b.limit, next |-> b.next]

CommitFull ==
  /\ build.at = "entries" /\ build.left = {}
  /\ rows' = KeepRows(build.tx, Fresh(build)) /\ meta' = Listing(build) /\ build' = None
  /\ UNCHANGED <<drive, builds>>

\* Rows of changed records that were not written again go.
CommitChanged ==
  /\ build.at = "changed" /\ build.left = {}
  /\ LET keep == Unchanged(build) \cup Fresh(build)
     IN IF Cardinality(keep) > MaxEntries
        THEN build' = Full(build) /\ UNCHANGED <<rows, meta>>
        ELSE rows' = KeepRows(build.tx, keep) /\ meta' = Listing(build) /\ build' = None
  /\ UNCHANGED <<drive, builds>>

\* Cancellation, a resource limit or an error: the transaction is rolled back.
Stop ==
  /\ build # None /\ build' = None
  /\ UNCHANGED <<drive, rows, meta, builds>>

\* clear_file_catalog.
Clear ==
  /\ build = None /\ meta # NoMeta /\ rows' = NoRows /\ meta' = NoMeta
  /\ UNCHANGED <<drive, build, builds>>

-----------------------------------------------------------------------------

Next ==
  \/ \E o \in Records : Change(o) \/ ReadChanged(o) \/ ReadEntry(o)
  \/ Truncate
  \/ \E root \in {"drive", "other"}, source \in {"ntfs", "walk"} :
        \E start \in {NoCheckpoint, Len(log)} : Begin(root, source, start)
  \/ Choose \/ ReadFolders \/ CommitFull \/ CommitChanged \/ Stop \/ Clear

Spec == Init /\ [][Next]_vars

-----------------------------------------------------------------------------
(* Properties.                                                                *)

\* Type invariant of the database and of the running build.
TypeOK ==
  /\ \A p \in DOMAIN rows :
       /\ rows[p].id \in Records \cup {"none"}
       /\ rows[p].first \in 1 .. rows[p].gen /\ rows[p].gen \in 1 .. meta.gen
  /\ meta = NoMeta => rows = NoRows
  /\ build # None => build.at \in {"choose", "changed", "folders", "entries"}
  /\ lowest \in 0 .. Len(log)

\* A stored checkpoint vouches for the listing: what the journal does not name
\* after it is listed exactly where it is.  So a build that only applies the
\* journal misses nothing, although files changed while the listing was read
\* and rows were overwritten in between (windows_ntfs.rs, checkpoint).
CheckpointVouches ==
  meta # NoMeta /\ meta.next # NoCheckpoint /\ ~meta.limit =>
    LET after == {log[i].id : i \in meta.next + 1 .. Len(log)}
    IN "folder" \in after \/
       \A o \in Records \ after : Indexed(rows, o) = PathsOf(disk[o], disk["folder"])

FirstSeenKept ==
  meta # NoMeta /\ meta'.root = meta.root =>
    \A p \in DOMAIN rows \cap DOMAIN rows' : rows'[p].first = rows[p].first

\* A path that stays listed is never announced as newly found, whatever file
\* is there now and whatever is renamed over it: a builder changes when it was
\* first seen only by starting a new listing (prepare_upsert,
\* recent_file_catalog_entries).
FirstSeenStays == [][FirstSeenKept]_vars

=============================================================================
