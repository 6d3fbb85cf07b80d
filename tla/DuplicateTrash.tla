--------------------------- MODULE DuplicateTrash ---------------------------
(***************************************************************************)
(* The checks a file passes before it goes to the trash                    *)
(* (bloomsweepy-core/src/actions.rs): the files of a duplicate group, of   *)
(* which one must stay, or a single file of a folder map.  Every file is   *)
(* checked when the job starts and again just before it is moved, while    *)
(* other programs write, link, replace and delete files.                   *)
(***************************************************************************)
EXTENDS Integers, Sequences, FiniteSets

CONSTANTS
  Paths, Contents,
  NoKeeper,       \* a single file needs none
  MaxChanges      \* bound: changes by others

TrashAssumption == IsFiniteSet(Paths) /\ NoKeeper \notin Paths /\ MaxChanges \in Nat

VARIABLES
  fs, changes,    \* what the paths lead to, and the changes by others so far
  group,          \* the files of the report, as they were
  phase,          \* "idle", "prepare", "move", "over"
  keeper, todo,   \* required_keeper, and the selected paths not yet done
  queue, step,    \* the files still to check, and how far the first one is
  held,           \* metadata read before the content
  snapshot,       \* FileSnapshot of the files that were accepted
  quiet,          \* history: nobody else changed a file since the last checks began
  moved           \* history: the files that went to the trash

disk == <<fs, changes>>
job == <<phase, keeper, todo, queue, step, held, snapshot>>
vars == <<disk, group, job, quiet, moved>>

Gone == [id |-> -1]
Present(p) == fs[p] # Gone
Links(p) == Cardinality({q \in Paths : fs[q].id = fs[p].id})

\* every path led to a file of its own when the scan made the report
Init ==
  /\ \E f \in [Paths -> Contents], i \in [Paths -> 1..Cardinality(Paths)] :
       /\ \A p, q \in Paths : p # q => i[p] # i[q]
       /\ fs = [p \in Paths |-> [id |-> i[p], content |-> f[p], stamp |-> 0]]
       /\ \E c \in Contents : group = [p \in {q \in Paths : f[q] = c} |-> fs[p]]
  /\ changes = 0 /\ phase = "idle" /\ keeper = NoKeeper /\ todo = <<>>
  /\ queue = <<>> /\ step = "look" /\ held = Gone
  /\ snapshot = [p \in {} |-> Gone] /\ quiet = TRUE /\ moved = {}

Orders(S) == {s \in [1..Cardinality(S) -> S] : \A m, n \in DOMAIN s : m # n => s[m] # s[n]}

(***************************************************************************)
(* The request.                                                            *)
(***************************************************************************)
\* a keeper that may itself be among the files to move
AnyMember(S) == DOMAIN group

\* a keeper that is not selected
Keepers(S) == DOMAIN group \ S

\* validate_duplicate_trash_selection, down to the choice of the keeper
RequestGroup ==
  /\ phase = "idle" /\ phase' = "prepare"
  /\ \E S \in SUBSET DOMAIN group, k \in DOMAIN group :
       /\ S # {} /\ Cardinality(S) < Cardinality(DOMAIN group) /\ k \in Keepers(S)
       /\ \E s \in Orders(S) : todo' = s /\ queue' = <<k>> \o s
       /\ keeper' = k
  /\ UNCHANGED <<disk, group, step, held, snapshot, quiet, moved>>

\* validate_directory_trash_file
RequestFile ==
  /\ phase = "idle" /\ phase' = "prepare"
  /\ \E p \in DOMAIN group : todo' = <<p>> /\ queue' = <<p>>
  /\ UNCHANGED <<disk, group, keeper, step, held, snapshot, quiet, moved>>

(***************************************************************************)
(* validate_file_snapshot and revalidate_file_snapshot: the metadata, the  *)
(* content, and the metadata once more, compared to the report and later   *)
(* to the snapshot; for a single file capture_cleanup_snapshot does it.    *)
(***************************************************************************)
Stop == phase' = "over" /\ queue' = <<>> /\ UNCHANGED <<step, held, snapshot>>

File == Head(queue)
Checking == phase \in {"prepare", "move"} /\ queue # <<>>
Single == keeper = NoKeeper

\* the report of duplicates knows the content of a file, the folder map its identity
Expected(p) ==
  IF phase = "move" THEN snapshot[p]
  ELSE IF Single THEN group[p] ELSE [group[p] EXCEPT !.id = fs[p].id]

Look ==
  /\ Checking /\ step = "look"
  /\ IF Present(File) /\ Links(File) = 1 /\ fs[File].stamp = Expected(File).stamp /\ fs[File].id = Expected(File).id
     THEN /\ held' = fs[File] /\ step' = "read"
          /\ UNCHANGED <<phase, queue, snapshot>>
     ELSE Stop
  /\ quiet' = IF phase = "move" /\ File = Head(todo) THEN TRUE ELSE quiet
  /\ UNCHANGED <<disk, group, keeper, todo, moved>>

Read ==
  /\ Checking /\ step = "read"
  /\ IF Present(File) /\ (phase = "move" \/ ~Single => fs[File].content = Expected(File).content)
     THEN /\ held' = [held EXCEPT !.content = fs[File].content] /\ step' = "again"
          /\ UNCHANGED <<phase, queue, snapshot>>
     ELSE Stop
  /\ UNCHANGED <<disk, group, keeper, todo, quiet, moved>>

Again ==
  /\ Checking /\ step = "again"
  /\ IF Present(File) /\ Links(File) = 1 /\ fs[File].id = held.id /\ (Single \/ fs[File].stamp = held.stamp)
     THEN /\ queue' = Tail(queue) /\ step' = "look" /\ held' = Gone
          /\ snapshot' = IF phase = "prepare"
                         THEN [p \in DOMAIN snapshot \cup {File} |-> IF p = File THEN held ELSE snapshot[p]]
                         ELSE snapshot
          /\ UNCHANGED phase
     ELSE Stop
  /\ UNCHANGED <<disk, group, keeper, todo, quiet, moved>>

(***************************************************************************)
(* execute_with_journal: the checks of a file and of its keeper, and the   *)
(* move.  (The journal is TrashJournal.)                                   *)
(***************************************************************************)
\* the file alone, as if a keeper that was there once stayed
FileOnly(p) == <<p>>

Recheck(p) == IF Single THEN <<p>> ELSE <<p, keeper>>

Prepared ==
  /\ phase = "prepare" /\ queue = <<>> /\ phase' = "move" /\ queue' = Recheck(Head(todo))
  /\ UNCHANGED <<disk, group, keeper, todo, step, held, snapshot, quiet, moved>>

Copies(p) == {q \in Paths \ {p} : Present(q) /\ fs[q].content = fs[p].content /\ fs[q].id # fs[p].id}

Move ==
  /\ phase = "move" /\ queue = <<>>
  /\ LET p == Head(todo) IN
       IF Present(p)
       THEN /\ fs' = [fs EXCEPT ![p] = Gone]
            /\ moved' = moved \cup {[path |-> p, file |-> fs[p], copies |-> Copies(p), quiet |-> quiet]}
            /\ todo' = Tail(todo)
            /\ IF Tail(todo) = <<>> THEN phase' = "over" /\ UNCHANGED queue
                                    ELSE queue' = Recheck(todo[2]) /\ UNCHANGED phase
       ELSE phase' = "over" /\ UNCHANGED <<fs, todo, queue, moved>>
  /\ UNCHANGED <<changes, group, keeper, step, held, snapshot, quiet>>

\* the user stops the job between two checks
Cancel ==
  /\ Checking /\ Stop
  /\ UNCHANGED <<disk, group, keeper, todo, quiet, moved>>

(***************************************************************************)
(* Other programs.  A write may leave the time as it was: it is kept in    *)
(* milliseconds and can be set.                                            *)
(***************************************************************************)
Change ==
  /\ changes < MaxChanges /\ changes' = changes + 1 /\ quiet' = FALSE
  /\ \E p \in Paths :
       \/ \E c \in Contents, s \in {0, 1} : \* write
            /\ Present(p)
            /\ fs' = [q \in Paths |-> IF fs[q].id = fs[p].id
                                      THEN [fs[q] EXCEPT !.content = c, !.stamp = s] ELSE fs[q]]
       \/ \E c \in Contents : \* replace
            fs' = [fs EXCEPT ![p] = [id |-> Cardinality(Paths) + changes', content |-> c, stamp |-> 0]]
       \/ \E q \in Paths : Present(q) /\ fs' = [fs EXCEPT ![p] = fs[q]] \* link
       \/ fs' = [fs EXCEPT ![p] = Gone]
  /\ UNCHANGED <<group, job, moved>>

Next ==
  \/ RequestGroup \/ RequestFile \/ Look \/ Read \/ Again
  \/ Prepared \/ Move \/ Cancel \/ Change

Spec == Init /\ [][Next]_vars

TypeOK ==
  /\ \A p \in Paths : Present(p) => fs[p].content \in Contents /\ fs[p].stamp \in {0, 1}
  /\ phase \in {"idle", "prepare", "move", "over"} /\ step \in {"look", "read", "again"}
  /\ keeper \in DOMAIN group \cup {NoKeeper} /\ DOMAIN snapshot \subseteq DOMAIN group
  /\ todo \in Seq(DOMAIN group) /\ queue \in Seq(DOMAIN group)

(***************************************************************************)
(* A moved file held the bytes that were checked when the job started, for *)
(* a duplicate those of the report, and then another file with the same    *)
(* bytes stayed - unless somebody changed files while the last checks ran, *)
(* which no check of a path can exclude                                    *)
(* (bloomsweepy-core/src/actions.rs:129-201, 230-245, 936-1021).           *)
(***************************************************************************)
MovedFileHasACopy ==
  \A m \in moved : m.quiet =>
    /\ m.file = snapshot[m.path]
    /\ keeper # NoKeeper => m.file.content = group[m.path].content /\ m.copies # {}
=============================================================================
