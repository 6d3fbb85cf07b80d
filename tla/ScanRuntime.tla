----------------------------- MODULE ScanRuntime ------------------------------
(***************************************************************************)
(* The single work slot (ScanRuntime), its completion leases               *)
(* (ScanCompletionGuard) and the reports kept for later actions            *)
(* (StoredReports), with the commands that compete for them.  A member of  *)
(* Work is one command issued again and again; while it holds the slot it   *)
(* also stands for the Arc<AtomicBool> that marks that one piece of work.   *)
(***************************************************************************)
EXTENDS Naturals

CONSTANTS
    Work,           \* commands of the main window and of the control socket
    NoWork,         \* the empty slot, and the operation id None
    KindOf,         \* what each command does with the slot
    MaxGeneration   \* bound on the reports stored of each sort

Kinds == {"appScan", "controlScan", "cleanupScan", "directoryScan", "trash", "planTrash", "reader"}
Reports == {"scan", "cleanup", "directory"}

ASSUME WorkAssumption == NoWork \notin Work /\ KindOf \in [Work -> Kinds]
ASSUME BoundAssumption == MaxGeneration \in [Reports -> Nat]

VARIABLES
    active,         \* the work in the slot, or NoWork
    phase,          \* its RuntimePhase
    closing,        \* progress of close_and_cancel
    cancelled,      \* works whose cancellation flag is set
    pc,             \* where each command stands
    leases,         \* clones of its ScanCompletionGuard that are alive
    marker,         \* the work_marker its lease captured
    dropping,       \* works whose last lease passed the ownership test
    reports,        \* generation of each stored report, 0 when there is none
    nextGeneration, \* the counters behind the generations
    held,           \* <<report, generation>> a command stored or acts on
    accepted,       \* history: works whose cancellation request was answered "accepted"
    spent           \* history: <<report, generation>> stored when a trash command moved files

slot == <<active, phase, closing>>
lease == <<leases, marker, dropping>>
stores == <<reports, nextGeneration, held, spent>>
vars == <<slot, cancelled, pc, lease, stores, accepted>>

Stages ==
    {"idle", "entered", "reserved", "guarded", "working", "computed", "committing",
     "halted", "stored", "returned", "joined", "finalized", "leaked"}

Closed == closing # "open"
OpId(w) == IF w \in Work /\ KindOf[w] = "controlScan" THEN w ELSE NoWork
Scans(w) == KindOf[w] \in {"appScan", "controlScan"}
CommitsFirst(w) == Scans(w) \/ KindOf[w] = "planTrash"
Publishes(w) == KindOf[w] \in {"cleanupScan", "directoryScan"}
Target(w) == CASE KindOf[w] = "cleanupScan" -> "cleanup"
               [] KindOf[w] = "directoryScan" -> "directory"
               [] OTHER -> "scan"
Nothing == <<"scan", 0>>   \* generations start at 1
Produces(w) == Scans(w) \/ Publishes(w)

TypeOK ==
    /\ active \in Work \cup {NoWork}
    /\ phase \in {"Running", "Committing"}
    /\ closing \in {"open", "closing", "closed"}
    /\ cancelled \subseteq Work
    /\ pc \in [Work -> Stages]
    /\ leases \in [Work -> 0..2]
    /\ marker \in [Work -> Work \cup {NoWork}]
    /\ dropping \subseteq Work
    /\ reports \in [Reports -> Nat]
    /\ nextGeneration \in [Reports -> Nat]
    /\ held \in [Work -> Reports \X Nat]
    /\ accepted \subseteq Work
    /\ spent \subseteq Reports \X Nat

Init ==
    /\ active = NoWork
    /\ phase = "Running"
    /\ closing = "open"
    /\ cancelled = {}
    /\ pc = [w \in Work |-> "idle"]
    /\ leases = [w \in Work |-> 0]
    /\ marker = [w \in Work |-> NoWork]
    /\ dropping = {}
    /\ reports = [r \in Reports |-> 0]
    /\ nextGeneration = [r \in Reports |-> 0]
    /\ held = [w \in Work |-> Nothing]
    /\ accepted = {}
    /\ spent = {}

Goto(w, stage) == pc' = [pc EXCEPT ![w] = stage]

-------------------------------------------------------------------------------
(* begin_inner: the closed flag is read before the mutex and again under it. *)

EnterBegin(w) ==
    /\ pc[w] = "idle"
    /\ ~Closed
    /\ Goto(w, "entered")
    /\ UNCHANGED <<slot, cancelled, lease, stores, accepted>>

\* A begin_inner that trusts the test of the closed flag it made before it waited
\* for the mutex.
ReserveSlotOneTest(w) ==
    /\ pc[w] = "entered"
    /\ active = NoWork
    /\ Produces(w) => nextGeneration[Target(w)] < MaxGeneration[Target(w)]
    /\ active' = w
    /\ phase' = "Running"
    /\ cancelled' = cancelled \ {w}
    /\ accepted' = accepted \ {w}
    /\ Goto(w, "reserved")
    /\ UNCHANGED <<closing, lease, stores>>

ReserveSlot(w) ==
    /\ pc[w] = "entered"
    /\ ~Closed
    /\ active = NoWork
    /\ Produces(w) => nextGeneration[Target(w)] < MaxGeneration[Target(w)]
    /\ active' = w
    /\ phase' = "Running"
    /\ cancelled' = cancelled \ {w}
    /\ accepted' = accepted \ {w}
    /\ Goto(w, "reserved")
    /\ UNCHANGED <<closing, lease, stores>>

\* Busy, closing, or ensure_operation_memory found too little free memory.
RefuseBegin(w) ==
    /\ pc[w] = "entered"
    /\ Goto(w, "idle")
    /\ UNCHANGED <<slot, cancelled, lease, stores, accepted>>

\* ScanCompletionGuard::new / for_control captures the marker of the slot.
CreateGuard(w) ==
    /\ pc[w] = "reserved"
    /\ marker' = [marker EXCEPT ![w] =
                    IF active # NoWork /\ OpId(active) = OpId(w) THEN active ELSE NoWork]
    /\ leases' = [leases EXCEPT ![w] = 1]
    /\ Goto(w, "guarded")
    /\ UNCHANGED <<slot, cancelled, dropping, stores, accepted>>

\* The permission behind a plan made in a chat was changed after the command was
\* let in: application_actions::confirm returns the error of
\* register_plan_cancellation before it has created a guard.
RegisterFails(w) ==
    /\ pc[w] = "reserved"
    /\ KindOf[w] = "planTrash"
    /\ Goto(w, "leaked")
    /\ UNCHANGED <<slot, cancelled, lease, stores, accepted>>

-------------------------------------------------------------------------------
(* The command bodies up to the blocking worker. *)

\* Mistakes in counting clones: none for the worker, one for every worker, one
\* more for the progress callback.
LeaseOfNoWorker(w) == 0
LeaseOfEveryWorker(w) == 1
LeaseOfWorkerAndProgress(w) == IF CommitsFirst(w) THEN 2 ELSE 0

\* A scan clears the report it is about to replace, then spawns its worker;
\* a storage scan hands the worker a clone of the guard.
LeaseOfWorker(w) == IF CommitsFirst(w) THEN 1 ELSE 0

StartScan(w) ==
    /\ pc[w] = "guarded"
    /\ Produces(w)
    /\ reports' = [reports EXCEPT ![Target(w)] = 0]
    /\ leases' = [leases EXCEPT ![w] = @ + LeaseOfWorker(w)]
    /\ Goto(w, "working")
    /\ UNCHANGED <<slot, cancelled, marker, dropping, nextGeneration, held, accepted, spent>>

\* start_storage_scan cleared the report but could not record the operation.
StartScanFails(w) ==
    /\ pc[w] = "guarded"
    /\ KindOf[w] = "controlScan"
    /\ reports' = [reports EXCEPT ![Target(w)] = 0]
    /\ Goto(w, "finalized")
    /\ UNCHANGED <<slot, cancelled, lease, nextGeneration, held, accepted, spent>>

\* A trash command takes a copy of the stored report it was asked to act on.
StartTrash(w, r) ==
    /\ pc[w] = "guarded"
    /\ KindOf[w] = "trash"
    /\ reports[r] # 0
    /\ held' = [held EXCEPT ![w] = <<r, reports[r]>>]
    /\ Goto(w, "working")
    /\ UNCHANGED <<slot, cancelled, lease, reports, nextGeneration, accepted, spent>>

\* A search, an index, a recovery audit, or the removal of an application.
StartWorker(w) ==
    /\ pc[w] = "guarded"
    /\ KindOf[w] \in {"reader", "planTrash"}
    /\ leases' = [leases EXCEPT ![w] = @ + LeaseOfWorker(w)]
    /\ Goto(w, "working")
    /\ UNCHANGED <<slot, cancelled, marker, dropping, stores, accepted>>

\* An early return: no stored report, an unusable path, a revoked permission.
StartRefused(w) ==
    /\ pc[w] = "guarded"
    /\ KindOf[w] \in {"trash", "reader"}
    /\ Goto(w, "finalized")
    /\ UNCHANGED <<slot, cancelled, lease, stores, accepted>>

-------------------------------------------------------------------------------
(* The blocking worker. *)

\* The last poll of the flag was negative; a trash worker has moved files, so
\* every report stored now describes a disk that is no more.
StoredNow == {<<r, reports[r]>> : r \in {q \in Reports : reports[q] # 0}}

Compute(w) ==
    /\ pc[w] = "working"
    /\ Goto(w, "computed")
    /\ spent' = IF KindOf[w] = "trash" THEN spent \cup StoredNow ELSE spent
    /\ UNCHANGED <<slot, cancelled, lease, reports, nextGeneration, held, accepted>>

\* A poll saw the flag, or the work failed.
Halt(w) ==
    /\ pc[w] = "working"
    /\ Goto(w, "halted")
    /\ UNCHANGED <<slot, cancelled, lease, stores, accepted>>

\* begin_commit_inner: the slot must hold work with the same operation id.
SlotMatches(w) == active # NoWork /\ OpId(active) = OpId(w)

\* A commit that does not look at the cancellation flag.
BeginCommitUnchecked(w) ==
    /\ pc[w] = "computed"
    /\ CommitsFirst(w)
    /\ SlotMatches(w)
    /\ phase' = "Committing"
    /\ Goto(w, "committing")
    /\ UNCHANGED <<active, closing, cancelled, lease, stores, accepted>>

BeginCommit(w) ==
    /\ pc[w] = "computed"
    /\ CommitsFirst(w)
    /\ SlotMatches(w)
    /\ active \notin cancelled
    /\ phase' = "Committing"
    /\ Goto(w, "committing")
    /\ UNCHANGED <<active, closing, cancelled, lease, stores, accepted>>

CommitRefused(w) ==
    /\ pc[w] = "computed"
    /\ CommitsFirst(w)
    /\ ~SlotMatches(w) \/ active \in cancelled
    /\ Goto(w, "halted")
    /\ UNCHANGED <<slot, cancelled, lease, stores, accepted>>

\* replace_scan / replace_cleanup / replace_directory.
Store(w) ==
    LET r == Target(w)
        g == nextGeneration[r] + 1
    IN  /\ nextGeneration' = [nextGeneration EXCEPT ![r] = g]
        /\ reports' = [reports EXCEPT ![r] = g]
        /\ held' = [held EXCEPT ![w] = <<r, g>>]

ReplaceScan(w) ==
    /\ pc[w] = "committing"
    /\ Scans(w)
    /\ Store(w)
    /\ Goto(w, "stored")
    /\ UNCHANGED <<slot, cancelled, lease, accepted, spent>>

\* The generation was taken but the random candidate key was not.
ReplaceScanFails(w) ==
    /\ pc[w] = "committing"
    /\ Scans(w)
    /\ nextGeneration' = [nextGeneration EXCEPT !["scan"] = @ + 1]
    /\ Goto(w, "halted")
    /\ UNCHANGED <<slot, cancelled, lease, reports, held, accepted, spent>>

\* The worker of a confirmed removal moves the items and ends with clear_all.
MoveItems(w) ==
    /\ pc[w] = "committing"
    /\ KindOf[w] = "planTrash"
    /\ spent' = spent \cup StoredNow
    /\ reports' = [r \in Reports |-> 0]
    /\ Goto(w, "stored")
    /\ UNCHANGED <<slot, cancelled, lease, nextGeneration, held, accepted>>

-------------------------------------------------------------------------------
(* Leases.  The drop of the last one tests ownership in one critical section *)
(* and clears the slot in another.                                           *)

Owns(w) == marker[w] # NoWork /\ active = marker[w] /\ OpId(active) = OpId(w)

\* A lease that releases the slot at the first drop of a clone.
DropFirstLease(w) ==
    /\ leases' = [leases EXCEPT ![w] = @ - 1]
    /\ dropping' = IF Owns(w) THEN dropping \cup {w} ELSE dropping

DropLease(w) ==
    /\ leases' = [leases EXCEPT ![w] = @ - 1]
    /\ dropping' = IF leases[w] = 1 /\ Owns(w) THEN dropping \cup {w} ELSE dropping

\* The closure of the worker ends; its clone of the guard, if any, goes first.
WorkerReturns(w) ==
    /\ \/ pc[w] \in {"stored", "halted"}
       \/ pc[w] = "computed" /\ ~CommitsFirst(w)
    /\ Goto(w, IF pc[w] = "computed" /\ Publishes(w) THEN "returned" ELSE "joined")
    /\ IF CommitsFirst(w) THEN DropLease(w) ELSE UNCHANGED <<leases, dropping>>
    /\ UNCHANGED <<slot, cancelled, marker, stores, accepted>>

\* Drive-level scans publish from the async command, with no commit phase.
PublishReport(w) ==
    /\ pc[w] = "returned"
    /\ Store(w)
    /\ Goto(w, "joined")
    /\ UNCHANGED <<slot, cancelled, lease, accepted, spent>>

\* A trash command that clears only the report it acted on.
FinalizeOwnReport(w) ==
    /\ pc[w] = "joined"
    /\ reports' = IF KindOf[w] = "trash" THEN [reports EXCEPT ![held[w][1]] = 0] ELSE reports
    /\ Goto(w, "finalized")
    /\ UNCHANGED <<slot, cancelled, lease, nextGeneration, held, accepted, spent>>

\* finish_operation for a control scan; clear_all for a trash command.
Finalize(w) ==
    /\ pc[w] = "joined"
    /\ reports' = IF KindOf[w] = "trash" THEN [r \in Reports |-> 0] ELSE reports
    /\ Goto(w, "finalized")
    /\ UNCHANGED <<slot, cancelled, lease, nextGeneration, held, accepted, spent>>

DropGuard(w) ==
    /\ pc[w] = "finalized"
    /\ leases[w] > 0
    /\ DropLease(w)
    /\ held' = [held EXCEPT ![w] = Nothing]
    /\ Goto(w, "idle")
    /\ UNCHANGED <<slot, cancelled, marker, reports, nextGeneration, accepted, spent>>

\* A finish that leaves the slot alone once the runtime is closed.
ReleaseSlotWhileOpen(w) ==
    /\ w \in dropping
    /\ active' = IF Closed \/ (KindOf[w] = "controlScan" /\ OpId(active) # OpId(w))
                   THEN active ELSE NoWork
    /\ dropping' = dropping \ {w}
    /\ UNCHANGED <<phase, closing, cancelled, pc, leases, marker, stores, accepted>>

\* finish clears the slot whatever it holds; finish_control compares the id.
ReleaseSlot(w) ==
    /\ w \in dropping
    /\ active' = IF KindOf[w] = "controlScan" /\ OpId(active) # OpId(w) THEN active ELSE NoWork
    /\ dropping' = dropping \ {w}
    /\ UNCHANGED <<phase, closing, cancelled, pc, leases, marker, stores, accepted>>

-------------------------------------------------------------------------------
(* Cancellation and shutdown. *)

Cancel ==
    /\ active # NoWork
    /\ phase = "Running"
    /\ cancelled' = cancelled \cup {active}
    /\ accepted' = accepted \cup {active}
    /\ UNCHANGED <<slot, pc, lease, stores>>

\* A cancel_control that does not ask whether the commit has begun.
CancelControlAnyPhase(w) ==
    /\ active # NoWork
    /\ KindOf[w] = "controlScan"
    /\ OpId(active) = w
    /\ cancelled' = cancelled \cup {active}
    /\ accepted' = accepted \cup {active}
    /\ UNCHANGED <<slot, pc, lease, stores>>

CancelControl(w) ==
    /\ active # NoWork
    /\ KindOf[w] = "controlScan"
    /\ OpId(active) = w
    /\ phase # "Committing"
    /\ cancelled' = cancelled \cup {active}
    /\ accepted' = accepted \cup {active}
    /\ UNCHANGED <<slot, pc, lease, stores>>

CloseRuntime ==
    /\ closing = "open"
    /\ closing' = "closing"
    /\ UNCHANGED <<active, phase, cancelled, pc, lease, stores, accepted>>

CancelAtClose ==
    /\ closing = "closing"
    /\ closing' = "closed"
    /\ cancelled' = IF active # NoWork THEN cancelled \cup {active} ELSE cancelled
    /\ UNCHANGED <<active, phase, pc, lease, stores, accepted>>

-------------------------------------------------------------------------------
\* What a command that was admitted does by itself.
Progress(w) ==
    \/ CreateGuard(w)
    \/ RegisterFails(w)
    \/ StartScan(w)
    \/ StartScanFails(w)
    \/ \E r \in Reports : StartTrash(w, r)
    \/ StartWorker(w)
    \/ StartRefused(w)
    \/ Compute(w)
    \/ Halt(w)
    \/ BeginCommit(w)
    \/ CommitRefused(w)
    \/ ReplaceScan(w)
    \/ ReplaceScanFails(w)
    \/ MoveItems(w)
    \/ WorkerReturns(w)
    \/ PublishReport(w)
    \/ Finalize(w)
    \/ DropGuard(w)
    \/ ReleaseSlot(w)

Next ==
    \/ \E w \in Work :
        \/ EnterBegin(w)
        \/ ReserveSlot(w)
        \/ RefuseBegin(w)
        \/ Progress(w)
        \/ CancelControl(w)
    \/ Cancel
    \/ CloseRuntime
    \/ CancelAtClose

Spec == Init /\ [][Next]_vars

\* Admitted commands run to their end; nobody has to issue or cancel one.
FairSpec == Spec /\ (\A w \in Work : WF_vars(Progress(w))) /\ WF_vars(CancelAtClose)

-------------------------------------------------------------------------------
(* Properties. *)

\* A command is between its begin and the release of its slot.
InRegion(w) == pc[w] \notin {"idle", "entered"} \/ w \in dropping

\* The slot names exactly the command that is between begin and release: two
\* commands never overlap, a stale lease never frees the slot of another, and a
\* free slot has no command at work behind it (begin_inner,
\* ScanCompletionLease::drop, finish, finish_control).
SlotNamesItsCommand == \A w \in Work : InRegion(w) <=> active = w

\* A storage scan or a confirmed removal whose cancellation was answered
\* "accepted" never reaches its commit: it stores no report and moves no item
\* (cancel, cancel_control, begin_commit_inner).
AcceptedCancelStoresNothing ==
    \A w \in accepted : CommitsFirst(w) =>
        pc[w] \notin {"committing", "stored"} /\ held[w] = Nothing

\* From the moment a command stores its report until it gives the slot back,
\* that report is the stored one: nobody clears or replaces it before the
\* final status that names its generation is out (execute_reserved_scan and the
\* two leases of start_storage_scan).
StoredReportStays ==
    \A w \in Work : Produces(w) /\ held[w] # Nothing => reports[held[w][1]] = held[w][2]

\* No trash command moves files on the strength of a report that was already
\* stored when an earlier trash command moved files (clear_all at the end of
\* every trash command, whatever its outcome).
NoMoveFromSpentReport ==
    [][\A w \in Work :
          KindOf[w] = "trash" /\ pc[w] = "working" /\ pc'[w] = "computed"
              => held[w] \notin spent]_vars

\* Once close_and_cancel has set its flag the slot changes hands no more
\* (begin_inner tests the flag again under the mutex).
ClosedAdmitsNothing == [][Closed => active' \in {active, NoWork}]_vars

\* Every command that took the slot gives it back.
SlotIsGivenBack == \A w \in Work : active = w ~> active # w

\* After shutdown begins the slot becomes free for good.
ShutdownDrains == Closed ~> [](active = NoWork)

\* The runtime implements the abstract work slot.
Abstract == INSTANCE WorkSlot WITH
    holder <- active,
    committing <- active # NoWork /\ phase = "Committing",
    stopped <- active \in accepted,
    shut <- Closed

ImplementsWorkSlot == Abstract!Spec
===============================================================================
