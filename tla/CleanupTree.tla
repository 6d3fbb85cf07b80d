---------------------------- MODULE CleanupTree ----------------------------
(***************************************************************************)
(* The life of the cleanup tree (cleanup_tree.rs): one tree, made from a   *)
(* stored scan report, changed by a selection and by folders read later,   *)
(* reviewed into one plan, and given up when the plan is confirmed.  Its   *)
(* commands look at a copy of the tree first, some of them wait for the    *)
(* one work slot, and all of them store under the lock of the permissions, *)
(* where the tree, its report and the epoch of the chat are looked at      *)
(* again.  What the selection means is in CleanupTreeSelection.            *)
(***************************************************************************)
EXTENDS Integers, Sequences

CONSTANTS
  Jobs,        \* commands of the view
  NItems,      \* entries a plan moves
  MaxTrees,    \* bound: trees opened and plans made
  MaxSelects,  \* bound: changes of the selection
  MaxScans,    \* bound: reports stored by other scans
  MaxChanges   \* bound: changes of the permission mode

LifeAssumption == NItems \in Nat \ {0} /\ "none" \notin Jobs

VARIABLES
  tree, made,        \* CleanupTreeState, and the trees and plans made so far
  report, cleared,   \* StoredReports: the newest generation, and those cleared by a move
  slot, flag,        \* ScanRuntime: who holds it, and its cancellation
  registered,        \* the chat may cancel the holder (register_cancellation)
  epoch, change,     \* native_chat_epoch, and a mode change between its steps
  job

reports == <<report, cleared>>
work == <<slot, flag, registered>>
mode == <<epoch, change>>
vars == <<tree, made, reports, work, mode, job>>

NoPlan == [id |-> 0, revision |-> 0]
NoTree == [id |-> 0, generation |-> 0, bound |-> FALSE, epoch |-> 0, revision |-> 0, plan |-> NoPlan]
New == [at |-> "idle", op |-> "", tree |-> NoTree, moved |-> 0, plan |-> NoPlan]

Init ==
  /\ tree = NoTree /\ made = 0
  /\ report = 1 /\ cleared = 0
  /\ slot = "none" /\ flag = FALSE /\ registered = FALSE
  /\ epoch = 0 /\ change = "done"
  /\ job = [j \in Jobs |-> New]

At(j, pc) == job[j].at = pc
Go(j, pc) == job' = [job EXCEPT ![j].at = pc]

\* check_source: the report the tree was made from is still the stored one
Current(t) == t.generation = report /\ report > cleared
\* with_native_tree_authority: a tree of the chat is of the present epoch
Allowed(t) == t.bound => t.epoch = epoch
\* live_tree: the copy is of the tree that is stored
Live(t) == tree.id = t.id /\ tree # NoTree
\* cancelled, as the workers look at it
Cancelled(t) == flag \/ ~Allowed(t)

(***************************************************************************)
(* The commands begin: open looks at the report, the others copy the tree. *)
(***************************************************************************)
Open(j, bound) ==
  /\ At(j, "idle") /\ report > cleared /\ made < MaxTrees
  /\ job' = [job EXCEPT ![j] = [New EXCEPT !.at = "begin", !.op = "open",
       !.tree = [NoTree EXCEPT !.generation = report, !.bound = bound, !.epoch = epoch]]]
  /\ UNCHANGED <<tree, made, reports, work, mode>>

Copy(j, op) ==
  /\ At(j, "idle") /\ tree # NoTree /\ Current(tree)
  /\ op = "confirm" => tree.plan # NoPlan
  /\ job' = [job EXCEPT ![j] = [New EXCEPT !.at = IF op = "confirm" THEN "allowed" ELSE op,
                                           !.op = op, !.tree = tree, !.plan = tree.plan]]
  /\ UNCHANGED <<tree, made, reports, work, mode>>

Refuse(j) ==
  /\ job' = [job EXCEPT ![j] = New]
  /\ UNCHANGED <<tree, made, reports, work, mode>>

\* update_cleanup_tree_selection
Select(j) ==
  /\ At(j, "select")
  /\ LET t == job[j].tree IN
       IF Allowed(t) /\ Live(t) /\ Current(t) /\ tree.revision = t.revision
       THEN /\ tree.revision < MaxSelects
            /\ tree' = [tree EXCEPT !.revision = @ + 1, !.plan = NoPlan]
            /\ job' = [job EXCEPT ![j] = New]
            /\ UNCHANGED <<made, reports, work, mode>>
       ELSE Refuse(j)

\* dismiss_cleanup_tree_plan
Dismiss(j) ==
  /\ At(j, "dismiss")
  /\ LET t == job[j].tree IN
       IF Allowed(t) /\ Live(t) /\ (t.bound => Current(t))
       THEN /\ tree' = IF tree.plan.id = job[j].plan.id THEN [tree EXCEPT !.plan = NoPlan] ELSE tree
            /\ job' = [job EXCEPT ![j] = New]
            /\ UNCHANGED <<made, reports, work, mode>>
       ELSE Refuse(j)

\* prepare_cleanup_tree_plan, up to its wait for the slot: the tree is copied again
Prepare(j) ==
  /\ At(j, "prepare")
  /\ LET t == job[j].tree IN
       IF Allowed(t) /\ Live(t) /\ Current(t) /\ tree.revision = t.revision
       THEN /\ tree' = [tree EXCEPT !.plan = NoPlan]
            /\ job' = [job EXCEPT ![j].at = "begin", ![j].tree = tree']
            /\ made < MaxTrees
            /\ UNCHANGED <<made, reports, work, mode>>
       ELSE Refuse(j)

\* confirm_cleanup_tree_plan, up to its wait for the slot
ConfirmAllowed(j) ==
  /\ At(j, "allowed")
  /\ IF Allowed(job[j].tree)
     THEN Go(j, "begin") /\ UNCHANGED <<tree, made, reports, work, mode>>
     ELSE Refuse(j)

(***************************************************************************)
(* ScanRuntime.begin and the registration of its cancellation.             *)
(***************************************************************************)
Begin(j) ==
  /\ At(j, "begin")
  /\ IF slot = "none"
     THEN /\ slot' = j /\ flag' = FALSE /\ registered' = FALSE
          /\ Go(j, IF job[j].tree.bound THEN "register" ELSE "work")
          /\ UNCHANGED <<tree, made, reports, mode>>
     ELSE Refuse(j)

\* a worker the change of the mode does not reach
NotRegistered(j) ==
  /\ At(j, "register") /\ Go(j, "work")
  /\ UNCHANGED <<tree, made, reports, work, mode>>

Register(j) ==
  /\ At(j, "register") /\ Go(j, "work")
  /\ registered' = TRUE
  /\ UNCHANGED <<tree, made, reports, slot, flag, mode>>

Release == slot' = "none" /\ registered' = FALSE /\ UNCHANGED flag

\* a worker fails, is cancelled or finds the tree changed
Fail(j) == job' = [job EXCEPT ![j] = New] /\ Release /\ UNCHANGED <<tree, made, reports, mode>>

\* open: the tree is stored in place of any other
StoreTree(j) ==
  /\ At(j, "work") /\ job[j].op = "open"
  /\ LET t == job[j].tree IN
       IF ~Cancelled(t) /\ Current(t)
       THEN /\ tree' = [t EXCEPT !.id = made + 1]
            /\ made' = made + 1
            /\ job' = [job EXCEPT ![j] = New] /\ Release
            /\ UNCHANGED <<reports, mode>>
       ELSE Fail(j)

\* a plan stored whatever was selected meanwhile
StoreUnchecked(j) ==
  /\ At(j, "work") /\ job[j].op = "prepare"
  /\ LET t == job[j].tree IN
       IF Live(t) /\ ~Cancelled(t) /\ Current(t)
       THEN /\ tree' = [tree EXCEPT !.plan = [id |-> made + 1, revision |-> t.revision]]
            /\ made' = made + 1
            /\ job' = [job EXCEPT ![j] = New] /\ Release
            /\ UNCHANGED <<reports, mode>>
       ELSE Fail(j)

\* prepare: the plan is stored with the tree, if the selection is the one that was verified
StorePlan(j) ==
  /\ At(j, "work") /\ job[j].op = "prepare"
  /\ LET t == job[j].tree IN
       IF Live(t) /\ tree.revision = t.revision /\ ~Cancelled(t) /\ Current(t)
       THEN /\ tree' = [tree EXCEPT !.plan = [id |-> made + 1, revision |-> t.revision]]
            /\ made' = made + 1
            /\ job' = [job EXCEPT ![j] = New] /\ Release
            /\ UNCHANGED <<reports, mode>>
       ELSE Fail(j)

\* claim: the whole tree is given up before the first entry is moved
Claim(j) ==
  /\ At(j, "work") /\ job[j].op = "confirm"
  /\ LET t == job[j].tree IN
       IF /\ Allowed(t) /\ Current(t) /\ Live(t)
          /\ tree.revision = t.revision /\ tree.plan = job[j].plan
       THEN /\ tree' = NoTree
            /\ Go(j, "move")
            /\ UNCHANGED <<made, reports, work, mode>>
       ELSE Fail(j)

\* trash_verified_cleanup_tree_files, an entry at a time, while it is not cancelled
Move(j) ==
  /\ At(j, "move") /\ ~flag /\ job[j].moved < NItems
  /\ job' = [job EXCEPT ![j].moved = @ + 1]
  /\ UNCHANGED <<tree, made, reports, work, mode>>

Moved(j) ==
  /\ At(j, "move")
  /\ flag \/ job[j].moved = NItems
  /\ Go(j, "clear")
  /\ UNCHANGED <<tree, made, reports, work, mode>>

\* the slot is free while the reports of what was moved are still there
FreeFirst(j) ==
  \/ At(j, "clear") /\ Release /\ Go(j, "forget") /\ UNCHANGED <<tree, made, reports, mode>>
  \/ /\ At(j, "forget") /\ cleared' = report /\ job' = [job EXCEPT ![j] = New]
     /\ UNCHANGED <<tree, made, report, work, mode>>

\* the reports are cleared before the slot is free again
Clear(j) ==
  \/ /\ At(j, "clear") /\ cleared' = report /\ Go(j, "free")
     /\ UNCHANGED <<tree, made, report, work, mode>>
  \/ At(j, "free") /\ Release /\ job' = [job EXCEPT ![j] = New] /\ UNCHANGED <<tree, made, reports, mode>>

(***************************************************************************)
(* What happens meanwhile.                                                 *)
(***************************************************************************)
\* another scan stores its report, in the slot
Scan ==
  /\ slot = "none" /\ report <= MaxScans
  /\ report' = report + 1
  /\ UNCHANGED <<tree, made, cleared, work, mode, job>>

\* the tree or the plan in it comes to its deadline
Expire ==
  /\ tree # NoTree /\ tree' = NoTree
  /\ UNCHANGED <<made, reports, work, mode, job>>

\* cancel_scan
Cancel ==
  /\ slot # "none" /\ ~flag /\ flag' = TRUE
  /\ UNCHANGED <<tree, made, reports, slot, registered, mode, job>>

ChangeMode ==
  /\ change = "done" /\ epoch < MaxChanges
  /\ epoch' = epoch + 1 /\ change' = "flag"
  /\ UNCHANGED <<tree, made, reports, work, job>>

FlagJobs ==
  /\ change = "flag" /\ change' = "done"
  /\ flag' = (flag \/ registered)
  /\ UNCHANGED <<tree, made, reports, slot, registered, epoch, job>>

Work(j) == StoreTree(j) \/ StorePlan(j) \/ Claim(j) \/ Move(j) \/ Moved(j) \/ Clear(j)

Next ==
  \/ \E j \in Jobs :
       \/ \E bound \in BOOLEAN : Open(j, bound)
       \/ \E op \in {"select", "dismiss", "prepare", "confirm"} : Copy(j, op)
       \/ Select(j) \/ Dismiss(j) \/ Prepare(j) \/ ConfirmAllowed(j)
       \/ Begin(j) \/ Register(j) \/ Work(j)
  \/ Scan \/ Expire \/ Cancel
  \/ ChangeMode \/ FlagJobs

Spec == Init /\ [][Next]_vars

TypeOK ==
  /\ tree.id \in 0..made /\ slot \in Jobs \cup {"none"}
  /\ flag \in BOOLEAN /\ change \in {"done", "flag"}
  /\ \A j \in Jobs : job[j].moved \in 0..NItems

(***************************************************************************)
(* The plan stored with a tree is the one of its present selection: a      *)
(* selection changed while a plan was being verified leaves none           *)
(* (prepare_cleanup_tree_plan: cleanup_tree.rs:1095-1110; select: 728).    *)
(***************************************************************************)
PlanIsOfSelection == tree.plan # NoPlan => tree.plan.revision = tree.revision

EntryUnderPermission ==
  \A j \in Jobs :
    /\ job'[j].moved > job[j].moved
    /\ job[j].tree.bound
    => ~(change = "done" /\ job[j].tree.epoch # epoch)

(***************************************************************************)
(* Once a change of the permission mode has returned, no further entry of  *)
(* a plan the chat made under the earlier mode is moved, whichever step    *)
(* its confirmation was at (confirm_cleanup_tree_plan:                     *)
(* cleanup_tree.rs:1131-1148).                                             *)
(***************************************************************************)
RevokedTreeMovesNothing == [][EntryUnderPermission]_vars

(***************************************************************************)
(* No tree is built on a report made before entries were moved: what it    *)
(* would show may be gone (confirm_cleanup_tree_plan:                      *)
(* cleanup_tree.rs:1125-1155; open_cleanup_tree: 838-845).                 *)
(***************************************************************************)
TreeIsOfLiveReport == tree # NoTree => tree.generation > cleared
=============================================================================
