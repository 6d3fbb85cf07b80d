--------------------------- MODULE FolderSnapshot ---------------------------
(***************************************************************************)
(* The review of a folder that is to be moved to the trash                 *)
(* (bloomsweepy-core/src/actions.rs): a walk that fingerprints every entry *)
(* when the plan is made, for the cleanup tree a second walk that looks    *)
(* for protected entries, and the first walk once more just before the     *)
(* move.  Other programs change the folder meanwhile; one walk is no       *)
(* atomic view of it.                                                      *)
(***************************************************************************)
EXTENDS Integers, Sequences, FiniteSets, SequencesExt

CONSTANTS
  Entries, Dirs,   \* names below the folder, and those of folders
  Top,             \* the folder
  Parent,          \* the folder an entry is in
  Protected,       \* entries validate_cleanup_tree_path refuses
  Kinds,           \* which of the kinds of review below
  MaxEntries,      \* FOLDER_MAX_ENTRIES
  MaxChanges       \* bound: changes by others

AllKinds == {"folder", "tree", "cleanup", "empty"}

FolderAssumption ==
  /\ Dirs \subseteq Entries /\ Top \notin Entries /\ Protected \subseteq Entries
  /\ Parent \in [Entries -> Dirs \cup {Top}]
  /\ IsFiniteSet(Entries) /\ \A S \in SUBSET Entries : S # {} => \E e \in S : Parent[e] \notin S
  /\ Kinds \subseteq AllKinds /\ MaxEntries \in Nat \ {0} /\ MaxChanges \in Nat

VARIABLES
  fs, changes,    \* the metadata of what exists (0: absent), and the changes so far
  kind, report,   \* how the folder is reviewed, and what the scan knew of it
  phase,          \* "idle", "capture", "audit", "planned", "recapture", "move", "over"
  stack,          \* the open frames of the walk, the deepest last
  got,            \* the fingerprints of the walk
  snapshot,       \* the snapshot of the plan
  quiet,          \* history: no change since the last walk began
  moved           \* history: the entries that went to the trash

disk == <<fs, changes>>
walk == <<stack, got>>
vars == <<disk, kind, report, phase, walk, snapshot, quiet, moved>>

Folders == Dirs \cup {Top}
In(d) == {e \in Entries : Parent[e] = d /\ fs[e] # 0}
There == {e \in Entries : fs[e] # 0}
\* the entry and what is below it
Under(e) ==
  {x \in Entries : \A S \in SUBSET Entries : e \in S /\ (\A y \in Entries : Parent[y] \in S => y \in S) => x \in S}
Prints(S) == {[entry |-> e, stamp |-> fs[e]] : e \in S}
Nothing == {[entry |-> Top, stamp |-> -1]}

\* the node of the report: identity and time of the folder, and the counts below it
NodeOf(prints) ==
  [top |-> fs[Top], files |-> Cardinality({f \in prints : f.entry \in Entries \ Dirs}),
   directories |-> Cardinality({f \in prints : f.entry \in Dirs})]

Init ==
  /\ fs \in [Entries \cup {Top} -> 0..1]
  /\ fs[Top] = 1 /\ \A e \in There : fs[Parent[e]] # 0
  /\ changes = 0 /\ kind \in Kinds
  /\ report = NodeOf(Prints(There)) /\ (kind = "empty" => There = {})
  /\ phase = "idle" /\ stack = <<>> /\ got = {} /\ snapshot = Nothing
  /\ quiet = TRUE /\ moved = Nothing

(***************************************************************************)
(* The walk: one open iterator for each depth.  What is created or removed *)
(* after the iterator was opened may be returned or not.                   *)
(***************************************************************************)
Walking == phase \in {"capture", "audit", "recapture"}
Frame(d) == [dir |-> d, stamp |-> fs[d], opened |-> In(d), read |-> {}]
Start == stack' = <<Frame(Top)>> /\ got' = Prints({Top})

Refuse == phase' = "over" /\ stack' = <<>> /\ UNCHANGED <<got, snapshot>>

Deepest == Last(stack)
Put(f) == [stack EXCEPT ![Len(stack)] = f]

\* validate_cleanup_tree_path of the entry, in the second walk only
Allowed(e) == phase = "audit" => e \notin Protected

Next1(e) ==
  /\ Walking /\ stack # <<>> /\ e \in (Deepest.opened \cup In(Deepest.dir)) \ Deepest.read
  /\ IF fs[e] = 0 \/ Cardinality(got) >= MaxEntries \/ ~Allowed(e) THEN Refuse
     ELSE /\ got' = got \cup Prints({e})
          /\ stack' = IF e \in Dirs THEN Append(Put([Deepest EXCEPT !.read = @ \cup {e}]), Frame(e))
                                    ELSE Put([Deepest EXCEPT !.read = @ \cup {e}])
          /\ UNCHANGED <<phase, snapshot>>
  /\ UNCHANGED <<disk, kind, report, quiet, moved>>

\* the metadata of a folder at the end of its entries is what it was at their beginning;
\* a cleanup candidate is checked at its top only, and there for its identity
SameFrame(f) == (kind = "cleanup" \/ phase = "audit") \/ fs[f.dir] = f.stamp

Close ==
  /\ Walking /\ stack # <<>> /\ Deepest.opened \cap In(Deepest.dir) \subseteq Deepest.read
  /\ IF SameFrame(Deepest) THEN stack' = Front(stack) /\ UNCHANGED <<phase, got, snapshot>>
                           ELSE Refuse
  /\ UNCHANGED <<disk, kind, report, quiet, moved>>

(***************************************************************************)
(* The phases.                                                             *)
(***************************************************************************)
\* the walk that fingerprints comes last, and nothing looks at what appeared before it
AuditFirst(p) == IF p = "idle" THEN "audit" ELSE IF p = "audit" THEN "capture" ELSE "planned"
Order(p) == IF p = "idle" THEN "capture" ELSE IF p = "capture" /\ kind = "tree" THEN "audit" ELSE "planned"

Prepare ==
  /\ phase = "idle" /\ phase' = Order("idle") /\ Start
  /\ UNCHANGED <<disk, kind, report, snapshot, quiet, moved>>

\* the checks of validate_directory_trash_folder, of an empty folder and of a cleanup candidate
Matches(prints) ==
  /\ kind = "empty" => prints = Prints({Top})
  /\ LET node == NodeOf(prints) IN
       IF kind = "cleanup" THEN node.files + node.directories = report.files + report.directories
                           ELSE node = report

Captured ==
  /\ phase = "capture" /\ stack = <<>>
  /\ IF ~Matches(got) THEN Refuse
     ELSE /\ snapshot' = got /\ phase' = Order("capture")
          /\ IF phase' \in {"audit", "capture"} THEN Start ELSE UNCHANGED walk
  /\ UNCHANGED <<disk, kind, report, quiet, moved>>

Audited ==
  /\ phase = "audit" /\ stack = <<>> /\ phase' = Order("audit")
  /\ IF phase' = "capture" THEN Start ELSE UNCHANGED walk
  /\ UNCHANGED <<disk, kind, report, snapshot, quiet, moved>>

\* revalidate_verified_trash_item
Revalidate ==
  /\ phase = "planned" /\ phase' = "recapture" /\ Start /\ quiet' = TRUE
  /\ UNCHANGED <<disk, kind, report, snapshot, moved>>

\* only the folder itself is compared
SameTop == \E f \in got \cap snapshot : f.entry = Top
Same == got = snapshot

Recheck ==
  /\ phase = "recapture" /\ stack = <<>>
  /\ IF Same THEN phase' = "move" /\ UNCHANGED <<walk, snapshot>> ELSE Refuse
  /\ UNCHANGED <<disk, kind, report, quiet, moved>>

Move ==
  /\ phase = "move" /\ phase' = "over" /\ moved' = Prints(There \cup {Top})
  /\ fs' = [e \in DOMAIN fs |-> 0]
  /\ UNCHANGED <<changes, kind, report, walk, snapshot, quiet>>

\* the user cancels, time or memory runs out
Cancel ==
  /\ Walking /\ Refuse
  /\ UNCHANGED <<disk, kind, report, quiet, moved>>

(***************************************************************************)
(* Other programs create, write and remove entries; what is in a folder    *)
(* changes its time.  No time is seen twice.                               *)
(***************************************************************************)
Stamped(S) == [e \in DOMAIN fs |-> IF e \in S THEN changes + 2 ELSE fs[e]]

Change ==
  /\ changes < MaxChanges /\ changes' = changes + 1 /\ quiet' = FALSE /\ fs[Top] # 0
  /\ \E e \in Entries :
       \/ fs[e] # 0 /\ e \notin Dirs /\ fs' = Stamped({e})
       \/ fs[e] = 0 /\ fs[Parent[e]] # 0 /\ fs' = Stamped({e, Parent[e]})
       \/ fs[e] # 0 /\ fs' = [x \in DOMAIN fs |-> IF x \in Under(e) THEN 0 ELSE Stamped({Parent[e]})[x]]
  /\ UNCHANGED <<kind, report, phase, walk, snapshot, moved>>

Next ==
  \/ \E e \in Entries : Next1(e)
  \/ Close \/ Prepare \/ Captured \/ Audited \/ Revalidate \/ Recheck \/ Move
  \/ Cancel \/ Change

Spec == Init /\ [][Next]_vars

TypeOK ==
  /\ fs \in [Entries \cup {Top} -> Nat] /\ kind \in AllKinds
  /\ \A n \in DOMAIN stack : stack[n].dir \in Folders /\ stack[n].read \subseteq Entries
  /\ Cardinality(got) <= MaxEntries

(***************************************************************************)
(* What goes to the trash with a folder is what the plan showed, entry by  *)
(* entry, and nothing protected - unless the folder changed while the last *)
(* walk ran.  A change within an earlier walk, before or behind the point  *)
(* it had reached, is found by the next                                    *)
(* (bloomsweepy-core/src/actions.rs:230-273, 560-656, 696-859).            *)
(***************************************************************************)
ReviewedFolderMoves ==
  moved # Nothing /\ quiet =>
    /\ moved = snapshot
    /\ kind = "tree" => \A f \in moved : f.entry \notin Protected
=============================================================================
