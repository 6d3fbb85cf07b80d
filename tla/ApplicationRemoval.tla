------------------------- MODULE ApplicationRemoval -------------------------
(***************************************************************************)
(* Moving an application or its cache and preferences to the trash on      *)
(* macOS (application_actions.rs): a list of applications, one plan made   *)
(* from it, its confirmation and the native move. Every command holds the  *)
(* slot of ScanRuntime while it works, so there is one at a time; the disk *)
(* and the user go on meanwhile.                                           *)
(***************************************************************************)
EXTENDS Integers, FiniteSets

CONSTANTS
  Apps, Kinds,   \* bundles, all with the same identifier; data paths of the identifier
  MaxLists, MaxPlans, MaxChanges

RemovalAssumption == "bundle" \notin Kinds /\ {MaxLists, MaxPlans, MaxChanges} \subseteq Nat

VARIABLES
  app, data,     \* on disk: [there, version, running] of a bundle; version of data, 0 when absent
  inventory,     \* number of the cached list, 0 for none
  inner,         \* ActionsInner: [id, entries, pending]
  work,          \* the command under way
  needs,         \* needs_inspection
  late, moved,   \* requests the system has not settled; items moved, with what was checked
  lists, plans, changes

vars == <<app, data, inventory, inner, work, needs, late, moved, lists, plans, changes>>

NoPlan == [n |-> 0]
NoItems == [k \in Kinds |-> 0]
NoEntries == [a \in {} |-> 0]
Empty == [id |-> 0, entries |-> NoEntries, pending |-> NoPlan]
Idle == [step |-> "idle", app |-> "", list |-> 0, kinds |-> {}, found |-> NoItems, plan |-> NoPlan,
         left |-> {}, cancelled |-> FALSE, complete |-> TRUE, done |-> {}]

Init ==
  /\ app \in [Apps -> {[there |-> t, version |-> 1, running |-> FALSE] : t \in BOOLEAN}]
  /\ data = [k \in Kinds |-> 1] /\ inventory = 0 /\ inner = Empty /\ work = Idle
  /\ needs = FALSE /\ late = {} /\ moved = {} /\ lists = 0 /\ plans = 0 /\ changes = 0

Disk == <<app, data>>
Ghosts == <<late, moved>>
Counts == <<lists, plans, changes>>
Free == work = Idle
End == work' = Idle
Go(step) == work' = [work EXCEPT !.step = step]
Record(a, list) == list = inner.id /\ a \in DOMAIN inner.entries
Entry(a) == inner.entries[a]

\* installed applications of the identifier; the whole system is searched
Owners == {a \in Apps : app[a].there}

(***************************************************************************)
(* load_inventory and publish_inventory                                    *)
(***************************************************************************)
Load ==
  /\ Free /\ lists < MaxLists /\ work' = [Idle EXCEPT !.step = "clear"]
  /\ UNCHANGED <<Disk, inventory, inner, needs, Ghosts, Counts>>

Clear ==
  /\ work.step = "clear" /\ inventory' = 0 /\ inner' = Empty /\ Go("list")
  /\ UNCHANGED <<Disk, needs, Ghosts, Counts>>

Published ==
  [a \in Owners |-> [version |-> app[a].version, protected |-> app[a].running \/ needs,
                     shared |-> Cardinality(Owners) > 1, removed |-> FALSE, candidates |-> NoItems]]

Publish ==
  /\ work.step = "list"
  /\ IF work.cancelled THEN End /\ UNCHANGED <<inner, lists>>
     ELSE /\ inner' = [id |-> lists + 1, entries |-> Published, pending |-> NoPlan]
          /\ lists' = lists + 1 /\ Go("cache")
  /\ UNCHANGED <<Disk, inventory, needs, Ghosts, plans, changes>>

Cache ==
  /\ work.step = "cache" /\ End
  /\ inventory' = IF work.cancelled THEN inventory ELSE inner.id
  /\ UNCHANGED <<Disk, inner, needs, Ghosts, Counts>>

(***************************************************************************)
(* verify_app_current: the bundle as it was listed, or still absent after  *)
(* it was moved, and nothing of it running. ensure_unique_bundle_owner.    *)
(***************************************************************************)
Current(a, version, removed) ==
  IF removed THEN ~app[a].there ELSE app[a].there /\ app[a].version = version /\ ~app[a].running

UniqueOwner(a, removed) == Owners = (IF removed THEN {} ELSE {a})

\* collect_candidates
Candidates(a) == IF UniqueOwner(a, FALSE) THEN data ELSE NoItems

Inspect(a) ==
  /\ Free /\ inventory # 0
  /\ work' = [Idle EXCEPT !.step = "inspect", !.app = a, !.list = inventory]
  /\ UNCHANGED <<Disk, inventory, inner, needs, Ghosts, Counts>>

Collect ==
  LET a == work.app
  IN /\ work.step = "inspect"
     /\ IF ~Record(a, work.list) \/ work.cancelled THEN End
        ELSE LET e == Entry(a)
             IN IF e.protected \/ e.shared \/ ~Current(a, e.version, e.removed) THEN End
                ELSE work' = [work EXCEPT !.step = "keep",
                       !.found = IF e.candidates = NoItems /\ ~e.removed THEN Candidates(a) ELSE e.candidates]
     /\ UNCHANGED <<Disk, inventory, inner, needs, Ghosts, Counts>>

Keep ==
  LET a == work.app
  IN /\ work.step = "keep" /\ End
     /\ IF ~work.cancelled /\ Current(a, Entry(a).version, Entry(a).removed)
        THEN inner' = [inner EXCEPT !.entries[a].candidates = work.found]
        ELSE UNCHANGED inner
     /\ UNCHANGED <<Disk, inventory, needs, Ghosts, Counts>>

(***************************************************************************)
(* prepare: no kinds is the bundle itself, kinds are its data              *)
(***************************************************************************)
Prepare(a, list, kinds) ==
  /\ Free /\ ~needs /\ plans < MaxPlans
  /\ work' = [Idle EXCEPT !.step = "take", !.app = a, !.list = list, !.kinds = kinds]
  /\ UNCHANGED <<Disk, inventory, inner, needs, Ghosts, Counts>>

\* ApplicationItem::revalidate
ByContent(a, e, k) ==
  Current(a, e.version, e.removed) /\ e.candidates[k] # 0 /\ data[k] = e.candidates[k]
DataCurrent(a, e, k) ==
  /\ Current(a, e.version, e.removed) /\ UniqueOwner(a, e.removed)
  /\ e.candidates[k] # 0 /\ data[k] = e.candidates[k]

Take ==
  LET a == work.app
      taken == [inner EXCEPT !.pending = NoPlan]
  IN /\ work.step = "take" /\ ~needs /\ inner' = taken
     /\ IF ~Record(a, work.list) \/ work.cancelled THEN End
        ELSE LET e == Entry(a)
                 refused == \/ e.protected \/ ~Current(a, e.version, e.removed)
                            \/ work.kinds = {} /\ e.removed
                            \/ \E k \in work.kinds : ~DataCurrent(a, e, k)
             IN IF refused THEN End
                ELSE work' = [work EXCEPT !.step = "store",
                       !.found = IF work.kinds # {} \/ e.shared THEN e.candidates ELSE Candidates(a)]
     /\ UNCHANGED <<Disk, inventory, needs, Ghosts, Counts>>

Store ==
  LET a == work.app
      e == Entry(a)
      plan == [n |-> plans + 1, app |-> a, list |-> work.list, kinds |-> work.kinds,
               version |-> e.version, removed |-> e.removed, items |-> work.found]
  IN /\ work.step = "store" /\ End
     /\ IF work.cancelled \/ ~Current(a, e.version, e.removed) THEN UNCHANGED <<inner, plans>>
        ELSE /\ inner' = [inner EXCEPT !.pending = plan,
                            !.entries[a].candidates = IF work.kinds = {} THEN work.found ELSE @]
             /\ plans' = plans + 1
     /\ UNCHANGED <<Disk, inventory, needs, Ghosts, lists, changes>>

(***************************************************************************)
(* confirm: the plan is claimed, then the flag is set, then the items move *)
(***************************************************************************)
Confirm(n, kinds) ==
  /\ Free /\ ~needs
  /\ work' = [Idle EXCEPT !.step = "claim", !.list = n, !.kinds = kinds]
  /\ UNCHANGED <<Disk, inventory, inner, needs, Ghosts, Counts>>

\* a plan of this number and of this kind, made from the present list
Claim ==
  LET p == inner.pending
  IN /\ work.step = "claim" /\ ~needs
     /\ IF p.n # 0 /\ p.n = work.list /\ p.list = inner.id /\ (p.kinds # {}) = (work.kinds # {})
        THEN /\ work' = [work EXCEPT !.step = "commit", !.plan = p]
             /\ inner' = [inner EXCEPT !.pending = NoPlan]
        ELSE End /\ UNCHANGED inner
     /\ UNCHANGED <<Disk, inventory, needs, Ghosts, Counts>>

\* the items of a plan: the bundle, or the data of some kinds
Items(p) == IF p.kinds = {} THEN {"bundle"} ELSE p.kinds

\* armed before native code runs: a worker that ends without a word stays suspect
ArmLater == UNCHANGED needs
Arm == needs' = TRUE

Commit ==
  /\ work.step = "commit"
  /\ IF work.cancelled THEN End /\ UNCHANGED needs
     ELSE work' = [work EXCEPT !.step = "items", !.left = Items(work.plan)] /\ Arm
  /\ UNCHANGED <<Disk, inventory, inner, Ghosts, Counts>>

Revalidated(p, i) ==
  IF i = "bundle" THEN Current(p.app, p.version, FALSE)
  ELSE DataCurrent(p.app, [version |-> p.version, removed |-> p.removed, candidates |-> p.items], i)

\* what the disk is when an item is looked at for the last time
Seen(p, i) ==
  [item |-> i, app |-> p.app, removed |-> p.removed, owners |-> Owners, running |-> app[p.app].running,
   reviewed |-> IF i = "bundle" THEN p.version ELSE p.items[i],
   found |-> IF i = "bundle" THEN app[p.app].version ELSE data[i]]

Check(i) ==
  LET p == work.plan
  IN /\ work.step = "items" /\ i \in work.left
     /\ IF Revalidated(p, i) THEN work' = [work EXCEPT !.step = "native", !.found = Seen(p, i)]
        ELSE work' = [work EXCEPT !.step = "report"]
     /\ UNCHANGED <<Disk, inventory, inner, needs, Ghosts, Counts>>

Gone(i) ==
  IF i.item = "bundle" THEN app' = [app EXCEPT ![i.app].there = FALSE, ![i.app].running = FALSE] /\ UNCHANGED data
  ELSE data' = [data EXCEPT ![i.item] = 0] /\ UNCHANGED app

\* moved, with or without a record of it, or an answer that tells nothing
Native ==
  LET i == work.found
  IN /\ work.step = "native"
     /\ \/ /\ Gone(i) /\ moved' = moved \cup {i} /\ UNCHANGED late
           /\ \E recorded \in BOOLEAN :
                work' = [work EXCEPT !.complete = recorded, !.left = @ \ {i.item}, !.done = @ \cup {i.item},
                           !.step = IF recorded /\ work.left # {i.item} THEN "items" ELSE "report"]
        \/ late' = late \cup {i} /\ work' = [work EXCEPT !.complete = FALSE, !.step = "report"] /\ UNCHANGED <<Disk, moved>>
     /\ UNCHANGED <<inventory, inner, needs, Counts>>

\* record_result
Recorded ==
  LET p == work.plan
      e == Entry(p.app)
  IN IF ~Record(p.app, p.list) THEN inner
     ELSE [inner EXCEPT !.entries[p.app] =
             IF ~work.complete THEN [e EXCEPT !.candidates = NoItems, !.protected = TRUE]
             ELSE [e EXCEPT !.removed = @ \/ "bundle" \in work.done,
                            !.candidates = [k \in Kinds |-> IF k \in work.done THEN 0 ELSE @[k]]]]

Report ==
  /\ work.step = "report" /\ End
  /\ needs' = (IF work.complete THEN FALSE ELSE needs) /\ inner' = Recorded
  /\ UNCHANGED <<Disk, inventory, Ghosts, Counts>>

\* an error before the first item or a panic of the worker: the flag stays as it is
Panic ==
  /\ ~Free /\ End
  /\ late' = IF work.step = "native" THEN late \cup {work.found} ELSE late
  /\ UNCHANGED <<Disk, inventory, inner, needs, moved, Counts>>

\* accepted until the command commits
Cancel ==
  /\ ~Free /\ work.step \notin {"items", "native", "report"} /\ ~work.cancelled
  /\ work' = [work EXCEPT !.cancelled = TRUE]
  /\ UNCHANGED <<Disk, inventory, inner, needs, Ghosts, Counts>>

Dismiss(n) ==
  /\ n = inner.pending.n /\ n # 0 /\ inner' = [inner EXCEPT !.pending = NoPlan]
  /\ UNCHANGED <<Disk, inventory, work, needs, Ghosts, Counts>>

(***************************************************************************)
(* Outside: an update, an installation, a start or an end of an            *)
(* application, new data, and the late end of a native request.            *)
(***************************************************************************)
ChangeApp(a) ==
  /\ changes < MaxChanges /\ changes' = changes + 1
  /\ \/ app' = [app EXCEPT ![a].there = TRUE, ![a].version = @ + 1]
     \/ app[a].there /\ app' = [app EXCEPT ![a].running = ~@]
  /\ UNCHANGED <<data, inventory, inner, work, needs, Ghosts, lists, plans>>

ChangeData(k) ==
  /\ changes < MaxChanges /\ changes' = changes + 1 /\ data' = [data EXCEPT ![k] = @ + 1]
  /\ UNCHANGED <<app, inventory, inner, work, needs, Ghosts, lists, plans>>

Settle(i) ==
  /\ i \in late /\ late' = late \ {i}
  /\ Gone(i) \/ UNCHANGED Disk
  /\ UNCHANGED <<inventory, inner, work, needs, moved, Counts>>

\* the user was told to look at the system before the program is started again
Restart ==
  /\ late = {} /\ needs
  /\ inventory' = 0 /\ inner' = Empty /\ work' = Idle /\ needs' = FALSE
  /\ UNCHANGED <<Disk, Ghosts, Counts>>

Next ==
  \/ Load \/ Clear \/ Publish \/ Cache \/ Collect \/ Keep \/ Take \/ Store \/ Claim \/ Commit
  \/ \E a \in Apps : Inspect(a) \/ ChangeApp(a)
  \/ \E a \in Apps, list \in 1..lists, kinds \in SUBSET Kinds : Prepare(a, list, kinds)
  \/ \E n \in 1..plans, kinds \in {{}, Kinds} : Confirm(n, kinds)
  \/ \E i \in Kinds \cup {"bundle"} : Check(i)
  \/ Native \/ Report \/ Panic \/ Cancel
  \/ \E n \in 1..plans : Dismiss(n)
  \/ \E k \in Kinds : ChangeData(k)
  \/ \E i \in late : Settle(i)
  \/ Restart

Spec == Init /\ [][Next]_vars

TypeOK ==
  /\ inventory \in 0..lists /\ inner.id \in 0..lists /\ inner.pending.n \in 0..plans
  /\ DOMAIN inner.entries \subseteq Apps /\ needs \in BOOLEAN /\ data \in [Kinds -> 0..(1 + MaxChanges)]

(***************************************************************************)
(* What is moved is what the user reviewed, of an application that did not *)
(* run; data is moved only while no other installed application has its    *)
(* identifier, and after the application itself only while it is gone.     *)
(* After an answer that settled nothing no further request reaches the     *)
(* system before a restart (application_actions.rs:21-25, 445-510,         *)
(* 677-700, 1336-1372).                                                    *)
(***************************************************************************)
RemovalIsAsReviewed ==
  /\ Cardinality(late) <= 1
  /\ work.step = "native" => late = {}
  /\ \A m \in moved :
       /\ m.found = m.reviewed /\ ~m.running
       /\ m.item # "bundle" => m.owners = (IF m.removed THEN {} ELSE {m.app})
=============================================================================
