------------------------------ MODULE NameSearch ------------------------------
(***************************************************************************)
(* Search by name through the folders of the chat                          *)
(* (bloomsweepy-core/src/local_search.rs) and through every local drive    *)
(* (assistant_access.rs), which asks each drive in turn for what is left   *)
(* of one budget.  While a walk is on its way the root of a drive may be   *)
(* replaced by another.                                                    *)
(***************************************************************************)
EXTENDS Integers, FiniteSets

CONSTANTS
  Entries, Drives, DriveOf,  \* files and folders by the drive they are below
  Scopes,                    \* which of "folder" and "drives" is searched
  MaxVisited, MaxResults,    \* MAX_VISITED and MAX_RESULTS
  MaxIds                     \* bound: roots a drive has had; a new one is never an old one again

SearchAssumption ==
  /\ DriveOf \in [Entries -> Drives] /\ Scopes \subseteq {"folder", "drives"}
  /\ {MaxVisited, MaxResults, MaxIds} \subseteq Nat

VARIABLES
  form, root, last,     \* the entries on disk, the root of every drive (0: not there), the last identity given
  scope, left,          \* what is searched, and the drives still to be searched
  drive, seen, rest,    \* the walk under way, root_identity and what is below it
  found, visited, bad, cut,          \* LocalSearchReport of the walk under way
  entries, total, unreadable, truncated, scanned, omitted,  \* sums over the drives
  phase,
  walked                \* history: the root a drive had when its own walk was over

disk == <<form, root, last>>
report == <<found, visited, bad, cut>>
sums == <<entries, total, unreadable, truncated, scanned, omitted>>
vars == <<disk, scope, left, drive, seen, rest, report, sums, phase, walked>>

NoDrive == [none |-> TRUE]
\* "cloud" and what is on another device is passed over, a "link" is never a result
Forms == {"match", "other", "link", "cloud", "locked"}
Below(d) == {e \in Entries : DriveOf[e] = d}

\* drives that are gone, network or cloud drives are left out of the list
Init ==
  /\ form \in [Entries -> Forms] /\ root = [d \in Drives |-> 1] /\ last = 1
  /\ scope \in Scopes /\ omitted \in SUBSET Drives /\ left = Drives \ omitted
  /\ scope = "folder" => Cardinality(left) = 1
  /\ drive = NoDrive /\ seen = 0 /\ rest = {}
  /\ found = {} /\ visited = 0 /\ bad = 0 /\ cut = FALSE
  /\ entries = {} /\ total = 0 /\ unreadable = 0 /\ scanned = 0
  /\ truncated = (scope = "drives" /\ omitted # {}) /\ phase = "drives"
  /\ walked = [d \in Drives |-> 0]

VisitsLeft == MaxVisited - total
ResultsLeft == MaxResults - Cardinality(entries)

\* a drive whose search fails counts as one entry that could not be read
\* (in a folder the failure is the answer)
FailDrive ==
  /\ drive' = NoDrive /\ found' = {} /\ visited' = 0 /\ bad' = 0 /\ cut' = FALSE
  /\ IF scope = "folder" THEN phase' = "failed" /\ UNCHANGED <<unreadable, truncated>>
     ELSE phase' = "drives" /\ unreadable' = unreadable + 1 /\ truncated' = TRUE
  /\ UNCHANGED <<disk, scope, seen, entries, total, scanned, omitted, walked>>

(***************************************************************************)
(* validate_local_volume_directory and the guard of the root's own visit.  *)
(***************************************************************************)
Start(d) ==
  /\ phase = "drives" /\ d \in left /\ VisitsLeft > 0 /\ ResultsLeft > 0
  /\ left' = left \ {d}
  /\ \/ /\ root[d] # 0 /\ drive' = d /\ seen' = root[d] /\ rest' = Below(d)
        /\ found' = {} /\ visited' = 0 /\ bad' = 0 /\ cut' = FALSE /\ phase' = "walk"
        /\ UNCHANGED <<disk, scope, sums, walked>>
     \/ root[d] = 0 /\ rest' = {} /\ FailDrive

\* the budget or the time is spent before every drive was asked
SkipDrives ==
  /\ scope = "drives" /\ phase = "drives" /\ left # {} /\ left' = {} /\ truncated' = TRUE
  /\ UNCHANGED <<disk, scope, drive, seen, rest, report, entries, total, unreadable, scanned, omitted, phase, walked>>

(***************************************************************************)
(* The loop of search_local_volume_entries and of search_local_entries.    *)
(* A drive stops as soon as a budget is spent, a folder when one more      *)
(* entry would go over it.                                                 *)
(***************************************************************************)
Full == scope = "drives" /\ (Cardinality(found) >= ResultsLeft \/ visited >= VisitsLeft)
Walking == phase = "walk" /\ ~cut

Visit(e) ==
  /\ Walking /\ ~Full /\ e \in rest /\ rest' = rest \ {e}
  /\ LET is == IF root[drive] = 0 THEN "locked" ELSE form[e]
         over == visited >= VisitsLeft
         full == is = "match" /\ Cardinality(found) >= ResultsLeft
     IN /\ visited' = IF over \/ (scope = "folder" /\ is \in {"cloud", "locked"}) THEN visited ELSE visited + 1
        /\ bad' = IF is = "locked" /\ ~over THEN bad + 1 ELSE bad
        /\ found' = IF is = "match" /\ ~over /\ ~full THEN found \cup {<<e, root[drive]>>} ELSE found
        /\ cut' = (is # "cloud" /\ (over \/ full))
  /\ UNCHANGED <<disk, scope, left, drive, seen, sums, phase, walked>>

\* time or the bytes of the paths are spent
Interrupt ==
  /\ Walking /\ cut' = TRUE
  /\ UNCHANGED <<disk, scope, left, drive, seen, rest, found, visited, bad, sums, phase, walked>>

\* memory or open files run short: the walk ends with an error
Exhausted == phase = "walk" /\ rest' = {} /\ left' = left /\ FailDrive

Stopped == phase = "walk" /\ (cut \/ Full \/ rest = {})

\* an answer of the drive whose root changed is kept
KeepAnyway == TRUE
SameRoot == root[drive] = seen

\* the check of the root after the walk, and the sums of assistant_access.rs
Finish ==
  /\ Stopped /\ (scope = "drives" => SameRoot)
  /\ entries' = entries \cup found /\ total' = total + visited /\ unreadable' = unreadable + bad
  /\ truncated' = (truncated \/ cut \/ Full) /\ scanned' = scanned + 1
  /\ drive' = NoDrive /\ found' = {} /\ visited' = 0 /\ bad' = 0 /\ cut' = FALSE /\ phase' = "drives"
  /\ UNCHANGED <<disk, scope, left, seen, rest, omitted>>
  /\ walked' = [walked EXCEPT ![drive] = root[drive]]

Replaced == Stopped /\ scope = "drives" /\ ~SameRoot /\ rest' = {} /\ left' = left /\ FailDrive

Answer ==
  /\ phase = "drives" /\ left = {} /\ phase' = "done"
  /\ truncated' = (truncated \/ (scope = "drives" /\ scanned # Cardinality(Drives \ omitted)))
  /\ UNCHANGED <<disk, scope, left, drive, seen, rest, report, entries, total, unreadable, scanned, omitted, walked>>

\* the stop of the chat, of the scan, or of the permission the chat works under
Cancel ==
  /\ phase \in {"drives", "walk"} /\ phase' = "failed" /\ rest' = {} /\ drive' = NoDrive
  /\ UNCHANGED <<disk, scope, left, seen, report, sums, walked>>

(***************************************************************************)
(* A drive is taken away, or another one is put in its place.              *)
(***************************************************************************)
Swap(d) ==
  /\ phase \in {"drives", "walk"}
  /\ \/ root[d] # 0 /\ root' = [root EXCEPT ![d] = 0] /\ UNCHANGED <<form, last>>
     \/ /\ last < MaxIds /\ last' = last + 1 /\ root' = [root EXCEPT ![d] = last + 1]
        /\ \E f \in [Below(d) -> {"match", "other"}] :
             form' = [e \in Entries |-> IF DriveOf[e] = d THEN f[e] ELSE form[e]]
  /\ UNCHANGED <<scope, left, drive, seen, rest, report, sums, phase, walked>>

Next ==
  \/ \E d \in Drives : Start(d) \/ Swap(d)
  \/ \E e \in Entries : Visit(e)
  \/ SkipDrives \/ Interrupt \/ Exhausted \/ Finish \/ Replaced \/ Answer \/ Cancel

Spec == Init /\ [][Next]_vars

TypeOK ==
  /\ form \in [Entries -> Forms] /\ root \in [Drives -> 0..MaxIds] /\ scope \in Scopes
  /\ left \subseteq Drives /\ rest \subseteq Entries /\ found \cup entries \subseteq Entries \X (1..MaxIds)
  /\ phase \in {"drives", "walk", "done", "failed"}

(***************************************************************************)
(* An answer about every drive never goes over the common budget, and what *)
(* it shows of a drive is all of one root.  One that calls itself complete *)
(* leaves out no drive of the list, and has every matching entry, and no   *)
(* other, of each drive whose root has stayed since its own walk           *)
(* (assistant_access.rs:472-512, local_search.rs:74-230).                  *)
(***************************************************************************)
CompleteIsWhole ==
  phase = "done" /\ scope = "drives" =>
    /\ total <= MaxVisited /\ Cardinality(entries) <= MaxResults
    /\ \A x, y \in entries : DriveOf[x[1]] = DriveOf[y[1]] => x[2] = y[2]
    /\ ~truncated /\ unreadable = 0 =>
         \A d \in Drives : /\ walked[d] # 0
                           /\ walked[d] = root[d] => {x \in entries : DriveOf[x[1]] = d} =
                                {<<e, root[d]>> : e \in {n \in Below(d) : form[n] = "match"}}
===============================================================================
