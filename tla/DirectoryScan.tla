---------------------------- MODULE DirectoryScan ----------------------------
(***************************************************************************)
(* The folder map: a walk with one open iterator for each depth            *)
(* (bloomsweepy-core/src/streaming_walk.rs) and the report that sums up    *)
(* what is below every child of the folder (directory.rs).  Entries may be *)
(* excluded, unreadable or too many; a map of a whole volume that is not   *)
(* complete gives no child the identity a move to the trash needs.  Every  *)
(* file has one byte.                                                      *)
(***************************************************************************)
EXTENDS Integers, Sequences, FiniteSets, SequencesExt

CONSTANTS
  Entries, Root,  \* names below the folder, and the folder
  Parent,         \* the folder an entry is in
  Scopes,         \* which of "folder" and "volume" is mapped
  MaxOpen,        \* MAX_OPEN_DIRECTORIES
  MaxVisited,     \* MAX_LOCAL_VOLUME_VISITED
  MaxTracked, MaxChildren, MaxEmpty,  \* DirectoryScanConfig
  MaxErrors       \* bound: entries that cannot be read

DirectoryAssumption ==
  /\ Root \notin Entries /\ Parent \in [Entries -> Entries \cup {Root}]
  /\ Scopes \subseteq {"folder", "volume"}
  /\ {MaxOpen, MaxVisited, MaxTracked, MaxChildren, MaxEmpty, MaxErrors} \subseteq Nat

VARIABLES
  is, scope,           \* what the entries are, and LocalVolumeScope
  frames, visited, excluded,         \* StreamingWalk
  children, direct, empties,         \* NodeAccumulators, direct children and empty folders
  totals, unreadable, limit, partly, \* totals of the walk, tracking_limit_reached, scope_incomplete
  phase, report

tree == <<is, scope>>
walk == <<frames, visited, excluded>>
sums == <<children, direct, empties, totals>>
vars == <<tree, walk, sums, unreadable, limit, partly, phase, report>>

None == [none |-> TRUE]
\* an online-only or cloud entry is "cloud", a folder on another device "mount"
Forms == {"absent", "file", "folder", "link", "cloud", "mount"}
FoldersOnDisk == {"folder", "mount"}
In(d) == {e \in Entries : Parent[e] = d /\ is[e] # "absent"}
Above[e \in Entries \cup {Root}] == IF e = Root THEN <<>> ELSE Append(Above[Parent[e]], e)
Below(e) == {x \in Entries : \E n \in DOMAIN Above[x] : Above[x][n] = e}
Direct(e) == Head(Above[e])
Depth(e) == Len(Above[e])

Node == [files |-> 0, folders |-> 0, folder |-> FALSE]
Frame(d) == [dir |-> d, rest |-> In(d)]

Init ==
  /\ is \in [Entries -> Forms] /\ scope \in Scopes
  /\ \A e \in Entries : is[e] # "absent" /\ Parent[e] # Root => is[Parent[e]] \in FoldersOnDisk
  /\ frames = IF In(Root) = {} THEN <<>> ELSE <<Frame(Root)>>
  /\ visited = 1 /\ excluded = 0
  /\ children = [c \in {} |-> Node] /\ direct = 0 /\ empties = 0 /\ totals = [Node EXCEPT !.folder = TRUE]
  /\ unreadable = 0 /\ limit = FALSE /\ partly = FALSE /\ phase = "walk" /\ report = None

(***************************************************************************)
(* StreamingWalk::next and visit.                                          *)
(***************************************************************************)
Top == Last(frames)
Without(e) == [frames EXCEPT ![Len(frames)].rest = @ \ {e}]
Going == phase = "walk" /\ (scope = "volume" => visited - 1 < MaxVisited)
Ready(e) == Going /\ frames # <<>> /\ e \in Top.rest

\* a boundary that is passed over without a trace
PruneQuietly(e) == UNCHANGED excluded
CountExcluded(e) == excluded' = excluded + 1

\* cloud entries, and folders on another device when a volume is mapped
Prune(e) ==
  /\ Ready(e) /\ (is[e] = "cloud" \/ (scope = "volume" /\ is[e] = "mount"))
  /\ frames' = Without(e) /\ visited' = visited + 1 /\ CountExcluded(e)
  /\ UNCHANGED <<tree, sums, unreadable, limit, partly, phase, report>>

\* metadata or read_dir fails
Unreadable(e) ==
  /\ Ready(e) /\ is[e] # "cloud" /\ unreadable < MaxErrors
  /\ frames' = Without(e) /\ visited' = visited + 1 /\ unreadable' = unreadable + 1
  /\ UNCHANGED <<tree, excluded, sums, limit, partly, phase, report>>

Enters(e) == is[e] \in FoldersOnDisk /\ ~(scope = "volume" /\ is[e] = "mount")

\* too many open folders: the whole scan fails
TooDeep(e) ==
  /\ Ready(e) /\ Enters(e) /\ (Depth(e) >= MaxOpen \/ Len(frames) >= MaxOpen)
  /\ phase' = "failed" /\ frames' = <<>>
  /\ UNCHANGED <<tree, visited, excluded, sums, unreadable, limit, partly, report>>

(***************************************************************************)
(* An entry of the walk in scan_directory_level_inner; tracked_child.      *)
(***************************************************************************)
Tracked(c) == c \in DOMAIN children \/ Cardinality(DOMAIN children) < MaxTracked
Add(c, node) == [x \in DOMAIN children \cup {c} |-> IF x = c THEN node ELSE children[x]]
Child(c) == IF c \in DOMAIN children THEN children[c] ELSE Node

Count(e) ==
  LET via == Direct(e)
      file == [Child(via) EXCEPT !.files = @ + 1, !.folder = (e # via)]
      folder == [Child(via) EXCEPT !.folders = @ + 1, !.folder = TRUE]
  IN IF is[e] = "link" THEN UNCHANGED <<children, totals, limit>>
     ELSE /\ children' = IF ~Tracked(via) THEN children
                         ELSE IF is[e] = "file" THEN Add(via, file) ELSE Add(via, folder)
          /\ limit' = (limit \/ ~Tracked(via))
          /\ totals' = IF is[e] = "file" THEN [totals EXCEPT !.files = @ + 1]
                                         ELSE [totals EXCEPT !.folders = @ + 1]

Enter(e) ==
  /\ Ready(e) /\ is[e] \notin {"cloud"} /\ ~(scope = "volume" /\ is[e] = "mount")
  /\ Enters(e) => Depth(e) < MaxOpen /\ Len(frames) < MaxOpen
  /\ visited' = visited + 1
  /\ frames' = IF Enters(e) /\ In(e) # {} THEN Append(Without(e), Frame(e)) ELSE Without(e)
  /\ Count(e)
  /\ direct' = IF Parent[e] = Root /\ is[e] # "link" THEN direct + 1 ELSE direct
  /\ empties' = IF Enters(e) /\ In(e) = {} THEN empties + 1 ELSE empties
  /\ UNCHANGED <<tree, excluded, unreadable, partly, phase, report>>

Close ==
  /\ Going /\ frames # <<>> /\ Top.rest = {} /\ frames' = Front(frames)
  /\ UNCHANGED <<tree, visited, excluded, sums, unreadable, limit, partly, phase, report>>

\* MAX_LOCAL_VOLUME_VISITED or MAX_LOCAL_VOLUME_DURATION ends the walk of a volume
Interrupt ==
  /\ phase = "walk" /\ scope = "volume" /\ partly' = TRUE /\ phase' = "finish"
  /\ UNCHANGED <<tree, walk, sums, unreadable, limit, report>>

\* the user cancels, the root is replaced, or memory runs short
Fail ==
  /\ phase = "walk" /\ phase' = "failed" /\ frames' = <<>>
  /\ UNCHANGED <<tree, visited, excluded, sums, unreadable, limit, partly, report>>

WalkEnds ==
  /\ Going /\ frames = <<>> /\ phase' = "finish"
  /\ UNCHANGED <<tree, walk, sums, unreadable, limit, partly, report>>

(***************************************************************************)
(* The report.                                                             *)
(***************************************************************************)
\* the part of a volume that was left out does not make its map a partial one
PartlyOnly == partly
Incomplete == scope = "volume" /\ (partly \/ excluded + unreadable # 0)

Kept == CHOOSE S \in SUBSET DOMAIN children :
  /\ Cardinality(S) = IF Cardinality(DOMAIN children) < MaxChildren THEN Cardinality(DOMAIN children) ELSE MaxChildren
  /\ \A c \in S, o \in DOMAIN children \ S : children[c].files >= children[o].files

SumOf(S) == FoldFunctionOnSet(LAMBDA node, n : n + node.files, 0, children, S)

Finish ==
  /\ phase = "finish" /\ phase' = "done"
  /\ LET cut == Incomplete IN
       report' = [nodes |-> [c \in Kept |-> children[c]],
                  authority |-> ~(scope = "volume" /\ (cut \/ limit)),
                  limited |-> cut \/ limit, truncated |-> cut \/ direct > Cardinality(Kept),
                  omitted |-> totals.files - SumOf(Kept), files |-> totals.files,
                  empty |-> empties, emptyTruncated |-> cut \/ empties > MaxEmpty]
  /\ UNCHANGED <<tree, walk, sums, unreadable, limit, partly>>

Next ==
  \/ \E e \in Entries : Prune(e) \/ Unreadable(e) \/ TooDeep(e) \/ Enter(e)
  \/ Close \/ Interrupt \/ Fail \/ WalkEnds \/ Finish

Spec == Init /\ [][Next]_vars

TypeOK ==
  /\ is \in [Entries -> Forms] /\ scope \in Scopes
  /\ DOMAIN children \subseteq {e \in Entries : Parent[e] = Root} /\ Cardinality(DOMAIN children) <= MaxTracked
  /\ Len(frames) <= MaxOpen /\ phase \in {"walk", "finish", "done", "failed"}

(***************************************************************************)
(* A child of a volume's map that may be moved to the trash, and any child *)
(* of a folder's map from which nothing was left out, has the numbers of   *)
(* all that is below it, however the walk went; a map that does not say it *)
(* is truncated shows every child, and what it omits is accounted for      *)
(* (bloomsweepy-core/src/directory.rs:172-651, streaming_walk.rs:241-397). *)
(***************************************************************************)
MapIsExact ==
  phase = "done" =>
    LET exact == IF scope = "volume" THEN report.authority ELSE excluded + unreadable = 0 /\ ~limit
        Real(S, forms) == Cardinality({x \in S : is[x] \in forms})
    IN /\ exact => \A c \in DOMAIN report.nodes :
            /\ report.nodes[c].files = Real(Below(c), {"file"})
            /\ report.nodes[c].folders = Real(Below(c), FoldersOnDisk)
            /\ report.nodes[c].folder = (is[c] \in FoldersOnDisk)
       /\ exact /\ ~report.truncated => DOMAIN report.nodes = {e \in In(Root) : is[e] # "link"}
       /\ exact => report.omitted + SumOf(DOMAIN report.nodes) = Real(Entries, {"file"})
=============================================================================
