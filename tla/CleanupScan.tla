----------------------------- MODULE CleanupScan -----------------------------
(***************************************************************************)
(* The search for cleanup candidates (bloomsweepy-core/src/cleanup.rs):    *)
(* the direct entries of a few known folders, each inspected to its last   *)
(* descendant within limits on candidates and on entries.                  *)
(***************************************************************************)
EXTENDS Integers, FiniteSets

CONSTANTS
  Roots, Items,   \* the known folders, and their direct entries
  RootOf, Inner,  \* the folder of an item, and the names below it
  MaxCandidates, MaxPerRoot, MaxEntries   \* CleanupScanConfig

CleanupAssumption ==
  /\ RootOf \in [Items -> Roots] /\ DOMAIN Inner = Items
  /\ {MaxCandidates, MaxPerRoot, MaxEntries} \subseteq Nat \ {0}

VARIABLES
  seen,               \* what the items were when they were looked at, and what was below them
  roots, root, rest,  \* roots not begun, the present one, and its entries not yet read
  candidates,         \* the candidates, with their entry counts
  processed, unreadable, issue, limit, phase  \* of the report; issue: it names at least one

vars == <<seen, roots, root, rest, candidates, processed, unreadable, issue, limit, phase>>

\* "new" was modified within minimum_age; "protected" is a protected or installed name;
\* "bad" has no metadata to read
Tops == {"old", "new", "protected", "link", "cloud", "bad"}
Bodies == {"absent", "old", "new", "link", "cloud", "bad"}
NoRoot == "none"

\* the entries an item may turn out to be
Forms(i) ==
  {[top |-> t, folder |-> TRUE, below |-> [x \in Inner[i] |-> "absent"]] : t \in Tops \ {"old"}}
    \cup {[top |-> "old", folder |-> FALSE, below |-> [x \in Inner[i] |-> "absent"]]}
    \cup {[top |-> "old", folder |-> TRUE, below |-> b] : b \in [Inner[i] -> Bodies]}

Init ==
  /\ seen = [i \in {} |-> 0]
  /\ roots = Roots /\ root = NoRoot /\ rest = {} /\ candidates = [i \in {} |-> 0]
  /\ processed = 0 /\ unreadable = 0 /\ issue = FALSE /\ limit = FALSE /\ phase = "scan"

With(f, i, v) == [x \in DOMAIN f \cup {i} |-> IF x = i THEN v ELSE f[x]]
Of(t, forms) == {x \in DOMAIN t.below : t.below[x] \in forms}

Begin(r) ==
  /\ phase = "scan" /\ root = NoRoot /\ r \in roots
  /\ roots' = roots \ {r}
  /\ \/ root' = r /\ rest' = {i \in Items : RootOf[i] = r} /\ UNCHANGED <<unreadable, issue>>
     \/ issue' = TRUE /\ UNCHANGED <<root, rest, unreadable>>  \* no local folder
     \/ issue' = TRUE /\ unreadable' = unreadable + 1 /\ UNCHANGED <<root, rest>>
  /\ UNCHANGED <<seen, candidates, processed, limit, phase>>

EndRoot == root' = NoRoot /\ rest' = {}
EndAll == phase' = "done" /\ EndRoot

\* the limits are looked at before an entry that is not in the cloud is inspected
Limited == Cardinality(DOMAIN candidates) >= MaxCandidates \/ processed >= MaxEntries
RootLimited == Cardinality({c \in DOMAIN candidates : RootOf[c] = root}) >= MaxPerRoot

(***************************************************************************)
(* scan_candidate: the walk below one entry.                               *)
(***************************************************************************)
Visited(t) == IF t.folder THEN Cardinality(Of(t, {"old", "new", "link"})) ELSE 1
Room == MaxEntries - processed
Unseen(t) == Cardinality(Of(t, {"cloud", "bad"}))

\* the time of the entry itself, whatever was written below it
TopOnly(t) == t.top
Newest(t) == IF Of(t, {"new"}) # {} THEN "new" ELSE t.top

\* content that nobody looked at is no reason
Refused(t) == Unseen(t) > 0

Pass(i) == rest' = rest \ {i} /\ UNCHANGED <<root, candidates, processed, unreadable, issue, limit, phase>>

Inspect(i, t) ==
  IF Visited(t) > Room
  THEN \* truncated: the entries there was room for are counted, the errors met before too
       /\ limit' = TRUE /\ EndAll /\ processed' = MaxEntries
       /\ unreadable' \in unreadable..(unreadable + Unseen(t)) /\ issue' = (issue \/ unreadable' > unreadable)
       /\ UNCHANGED candidates
  ELSE /\ processed' = processed + Visited(t) /\ unreadable' = unreadable + Unseen(t)
       /\ issue' = (issue \/ Unseen(t) > 0)
       /\ candidates' = IF Refused(t) \/ Newest(t) = "new" THEN candidates ELSE With(candidates, i, Visited(t))
       /\ rest' = rest \ {i} /\ UNCHANGED <<root, limit, phase>>

Take(i) ==
  /\ phase = "scan" /\ i \in rest
  /\ \E t \in Forms(i) :
       /\ seen' = With(seen, i, t)
       /\ IF t.top = "cloud" THEN Pass(i)
          ELSE IF Limited THEN limit' = TRUE /\ EndAll /\ UNCHANGED <<candidates, processed, unreadable, issue>>
          ELSE IF RootLimited THEN limit' = TRUE /\ EndRoot /\ UNCHANGED <<candidates, processed, unreadable, issue, phase>>
          ELSE IF t.top = "bad" THEN /\ unreadable' = unreadable + 1 /\ issue' = TRUE /\ rest' = rest \ {i}
                                     /\ UNCHANGED <<root, candidates, processed, limit, phase>>
          ELSE IF t.top # "old" THEN Pass(i)
          ELSE Inspect(i, t)
  /\ UNCHANGED roots

RootEnds ==
  /\ phase = "scan" /\ root # NoRoot /\ rest = {} /\ EndRoot
  /\ UNCHANGED <<seen, roots, candidates, processed, unreadable, issue, limit, phase>>

Finish ==
  /\ phase = "scan" /\ root = NoRoot /\ roots = {} /\ phase' = "done"
  /\ UNCHANGED <<seen, roots, root, rest, candidates, processed, unreadable, issue, limit>>

\* the user cancels or memory runs short: no report
Fail ==
  /\ phase = "scan" /\ phase' = "failed" /\ EndRoot
  /\ UNCHANGED <<seen, roots, candidates, processed, unreadable, issue, limit>>

Next ==
  \/ \E r \in Roots : Begin(r)
  \/ \E i \in Items : Take(i)
  \/ RootEnds \/ Finish \/ Fail

Spec == Init /\ [][Next]_vars

TypeOK ==
  /\ root \in Roots \cup {NoRoot} /\ rest \subseteq Items /\ DOMAIN candidates \subseteq Items
  /\ processed \in 0..MaxEntries /\ phase \in {"scan", "done", "failed"}

(***************************************************************************)
(* A candidate is idle to its last descendant and holds nothing that was   *)
(* not looked at, its count is that of all its entries - the check before  *)
(* a move compares it - and a report that names no limit and no issue has  *)
(* every such entry (a folder that is not there or not local is an issue   *)
(* only, whatever is unreadable is one too: bloomsweepy-core/src/          *)
(* cleanup.rs:136-472).                                                    *)
(***************************************************************************)
CandidatesAreIdle ==
  LET Idle(t) == t.top = "old" /\ Of(t, {"new", "cloud", "bad"}) = {}
      Count(t) == IF t.folder THEN Cardinality(Of(t, Bodies \ {"absent"})) ELSE 1
  IN /\ \A c \in DOMAIN candidates : Idle(seen[c]) /\ candidates[c] = Count(seen[c])
     /\ unreadable > 0 => issue
     /\ phase = "done" /\ ~limit /\ ~issue =>
          \A i \in Items : i \in DOMAIN seen /\ (Idle(seen[i]) => i \in DOMAIN candidates)
=============================================================================
