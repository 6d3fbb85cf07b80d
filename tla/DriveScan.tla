------------------------------ MODULE DriveScan ------------------------------
(***************************************************************************)
(* The measure of a whole drive (bloomsweepy-core/src/drive.rs): one walk  *)
(* that adds every file to its category and to the folder at most          *)
(* LocationDepth levels down, with limits on the hard links remembered and *)
(* on the folders kept. Outside Windows, where hard links are told apart.  *)
(***************************************************************************)
EXTENDS Integers, Sequences, SequencesExt, FiniteSetsExt

CONSTANTS
  Files, FolderOf, Bytes, Extension,   \* a file, its folders from the root down, size and type
  Known, First, Anywhere, Developer,   \* categories of known folders, of first names, of names at any level
  Home,                                \* the user's own folder
  Ids, LocationDepth, MaxIds, MaxTracked, MaxLocations

DriveAssumption ==
  /\ DOMAIN FolderOf = Files /\ Bytes \in [Files -> Nat] /\ DOMAIN Extension = Files
  /\ {LocationDepth, MaxIds, MaxTracked, MaxLocations} \subseteq Nat \ {0}

VARIABLES
  identity,      \* the content behind each name: two names of one are hard links
  rest, counted, \* files the walk has not met; files counted, with the category each was put in
  sums, locations, total, seen,
  skipped, idLimit, locationLimit, unreadable,
  shown, phase

vars == <<identity, rest, counted, sums, locations, total, seen, skipped, idLimit,
          locationLimit, unreadable, shown, phase>>

Names(f) == {FolderOf[f][n] : n \in DOMAIN FolderOf[f]}
Within(f, p) == IsPrefix(p, FolderOf[f])

(***************************************************************************)
(* StorageClassifier::classify: known folders first, the longest first;    *)
(* then the folders of the system, a developer's folder and the extension. *)
(***************************************************************************)
Outermost(ps) == CHOOSE p \in ps : \A q \in ps : Len(p) <= Len(q)
Longest(ps) == CHOOSE p \in ps : \A q \in ps : Len(p) >= Len(q)
KnownAbove(f) == {p \in DOMAIN Known : Within(f, p)}
HasFirst(f) == FolderOf[f] # <<>> /\ Head(FolderOf[f]) \in DOMAIN First
OtherUser(f) == FolderOf[f] # <<>> /\ Head(FolderOf[f]) = "users" /\ ~Within(f, Home)
IsDeveloper(f) == Names(f) \cap Developer # {}
CategoryFromExtension(f) == Extension[f]

PlatformCategory(f) ==
  IF Names(f) \cap DOMAIN Anywhere # {} THEN Anywhere[CHOOSE n \in Names(f) \cap DOMAIN Anywhere : TRUE]
  ELSE IF HasFirst(f) THEN First[Head(FolderOf[f])]
  ELSE IF OtherUser(f) THEN "otherUsers"
  ELSE "none"

Classify(f) ==
  IF KnownAbove(f) # {} THEN Known[Longest(KnownAbove(f))]
  ELSE IF PlatformCategory(f) # "none" THEN PlatformCategory(f)
  ELSE IF IsDeveloper(f) THEN "developer"
  ELSE CategoryFromExtension(f)

Bucket(f) == SubSeq(FolderOf[f], 1, Min({LocationDepth, Len(FolderOf[f])}))

Init ==
  /\ identity \in [Files -> Ids] /\ rest = Files /\ counted = [f \in {} |-> ""]
  /\ sums = [k \in {} |-> 0] /\ locations = [b \in {} |-> 0] /\ total = 0 /\ seen = {}
  /\ skipped = 0 /\ idLimit = FALSE /\ locationLimit = FALSE /\ unreadable = 0
  /\ shown = <<>> /\ phase = "discovering"

Put(f, k, v) == [x \in DOMAIN f \cup {k} |-> IF x = k THEN v ELSE f[x]]
Add(f, k, n) == Put(f, k, n + (IF k \in DOMAIN f THEN f[k] ELSE 0))

Measures == <<counted, sums, locations, total, locationLimit>>

\* a file not on this disk, or one whose metadata cannot be read
Pass ==
  /\ unreadable' \in {unreadable, unreadable + 1}
  /\ UNCHANGED <<seen, skipped, idLimit, Measures>>

Repeated(f) == identity[f] \in seen

Remember(f) ==
  IF Cardinality(seen) >= MaxIds THEN idLimit' = TRUE /\ UNCHANGED seen
  ELSE seen' = seen \cup {identity[f]} /\ UNCHANGED idLimit

Room == Cardinality(DOMAIN locations) < MaxTracked

TrackedLocation(f) ==
  IF Bucket(f) \in DOMAIN locations \/ Room
  THEN locations' = Add(locations, Bucket(f), Bytes[f]) /\ UNCHANGED locationLimit
  ELSE locationLimit' = TRUE /\ UNCHANGED locations

Count(f) ==
  /\ Remember(f) /\ TrackedLocation(f)
  /\ counted' = Put(counted, f, Classify(f))
  /\ sums' = Add(sums, Classify(f), Bytes[f]) /\ total' = total + Bytes[f]
  /\ UNCHANGED <<skipped, unreadable>>

Visit(f) ==
  /\ phase = "discovering" /\ f \in rest /\ rest' = rest \ {f}
  /\ \/ Pass
     \/ Repeated(f) /\ skipped' = skipped + 1 /\ UNCHANGED <<seen, idLimit, unreadable, Measures>>
     \/ ~Repeated(f) /\ Count(f)
  /\ UNCHANGED <<identity, shown, phase>>

\* the kept folders by size; names break a tie
Larger(b, c) == locations[b] > locations[c]

Finish ==
  /\ phase = "discovering" /\ rest = {} /\ phase' = "done"
  /\ LET all == SetToSortSeq(DOMAIN locations, Larger)
     IN shown' = SubSeq(all, 1, Min({MaxLocations, Len(all)}))
  /\ UNCHANGED <<identity, rest, seen, skipped, idLimit, unreadable, Measures>>

\* cancelled, or the walk met a limit of the system: no report
Stop ==
  /\ phase = "discovering" /\ phase' = "failed"
  /\ UNCHANGED <<identity, rest, seen, skipped, idLimit, unreadable, shown, Measures>>

Next == (\E f \in Files : Visit(f)) \/ Finish \/ Stop

Spec == Init /\ [][Next]_vars

TypeOK ==
  /\ rest \subseteq Files /\ DOMAIN counted \subseteq Files \ rest /\ seen \subseteq Ids
  /\ Cardinality(seen) <= MaxIds /\ Cardinality(DOMAIN locations) <= MaxTracked
  /\ Len(shown) <= MaxLocations /\ phase \in {"discovering", "done", "failed"}

(***************************************************************************)
(* The report adds up: the categories and the total have the same files; a *)
(* folder that is listed is exact even when others found no place, and no  *)
(* kept folder is larger than a listed one; unless the report says it lost *)
(* count of hard links or of folders no content is counted twice and every *)
(* folder has its place; and a file below two known folders is in the      *)
(* category of the inner one (drive.rs:141-350, 391-443, 526-535).         *)
(***************************************************************************)
DriveAddsUp ==
  LET Sum(fs) == MapThenSumSet(LAMBDA f : Bytes[f], fs)
      Met == DOMAIN counted
      In(k) == {f \in Met : counted[f] = k}
      At(b) == {f \in Met : Bucket(f) = b}
  IN phase = "done" =>
       /\ total = Sum(Met) /\ \A k \in DOMAIN sums : sums[k] = Sum(In(k))
       /\ \A b \in DOMAIN locations : locations[b] = Sum(At(b))
       /\ \A b \in DOMAIN locations \ ToSet(shown), n \in DOMAIN shown : locations[b] <= locations[shown[n]]
       /\ idLimit \/ \A f, g \in Met : identity[f] = identity[g] => f = g
       /\ locationLimit \/ \A f \in Met : Bucket(f) \in DOMAIN locations
       /\ \A f \in Met : \A p, q \in KnownAbove(f) :
            Len(p) < Len(q) /\ Known[p] # Known[q] => counted[f] # Known[p]
=============================================================================
