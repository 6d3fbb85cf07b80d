-------------------------- MODULE ScanRuntimeProofs ---------------------------
(***************************************************************************)
(* Proofs about what the scans of the application and its clients share:   *)
(* ScanRuntime, for any set of commands, ControlServer, for any connections *)
(* and any limit, and ExternalFiles, for any calls and changes of what the  *)
(* client may do.                                                          *)
(***************************************************************************)
EXTENDS ScanRuntime, Integers, Sequences, FiniteSetTheorems, TLAPS

Early == {"idle", "entered"}
Shared == {"working", "computed", "committing", "stored", "halted"}
Last == {"returned", "joined", "finalized"}

\* How many guards a command has alive at each stage.
LeaseCount ==
    \A w \in Work :
        /\ pc[w] \in Early \cup {"reserved", "leaked"} => leases[w] = 0
        /\ pc[w] \in {"guarded"} \cup Last => leases[w] = 1
        /\ pc[w] \in Shared => leases[w] = 1 + LeaseOfWorker(w)

\* A guard captured the marker of its own command, and only a command whose
\* body is over is being dropped.
MarkerOwn ==
    \A w \in Work :
        /\ pc[w] \in {"guarded"} \cup Shared \cup Last => marker[w] = w
        /\ w \in dropping => pc[w] \in Early

\* Which stages can hold a report, and under which phase.
HeldWhen ==
    \A w \in Work :
        /\ held[w] # Nothing => pc[w] \notin Early \cup {"reserved", "leaked", "guarded"}
        /\ held[w] # Nothing => KindOf[w] # "planTrash"
        /\ Produces(w) /\ held[w] # Nothing => pc[w] \in {"stored"} \cup Last
        /\ CommitsFirst(w) /\ (pc[w] \in {"committing", "stored"} \/ held[w] # Nothing)
              => phase = "Committing"

\* A report that a trash command has made obsolete is stored only until the
\* same command clears it.
SpentWhen ==
    \A r \in Reports :
        <<r, reports[r]>> \in spent =>
            /\ active # NoWork
            /\ KindOf[active] = "trash"
            /\ pc[active] \in {"computed", "joined"}

\* Generations only grow.
GenerationBound ==
    /\ \A r \in Reports : reports[r] <= nextGeneration[r]
    /\ \A e \in spent : e[2] # 0 /\ e[2] <= nextGeneration[e[1]]

\* A trash worker acts on a report that is stored while it works.
TrashReads ==
    \A w \in Work : KindOf[w] = "trash" /\ pc[w] = "working" =>
        \E r \in Reports : held[w] = <<r, reports[r]>>

\* Stages only some commands pass through.
StageKinds ==
    \A w \in Work :
        /\ pc[w] \in {"committing", "stored"} => CommitsFirst(w)
        /\ pc[w] = "returned" => Publishes(w)

\* An accepted cancellation raised the flag.
StopsAreFlags == accepted \subseteq cancelled

IInv ==
    /\ TypeOK
    /\ SlotNamesItsCommand
    /\ LeaseCount
    /\ MarkerOwn
    /\ HeldWhen
    /\ AcceptedCancelStoresNothing
    /\ StoredReportStays
    /\ SpentWhen
    /\ GenerationBound
    /\ TrashReads
    /\ StageKinds
    /\ StopsAreFlags

USE DEF Early, Shared, Last, Stages, Kinds, Reports, Nothing, Goto, InRegion, OpId,
        Scans, CommitsFirst, Publishes, Produces, Target, LeaseOfWorker

\* The runtime starts empty.
LEMMA InitInvariant == Init => IInv
  BY WorkAssumption DEF Init, IInv, TypeOK, SlotNamesItsCommand, LeaseCount,
     MarkerOwn, HeldWhen, AcceptedCancelStoresNothing, StoredReportStays,
     SpentWhen, GenerationBound, TrashReads, StageKinds, StopsAreFlags

\* Generation 0 is never spent.
LEMMA SpentPair ==
  ASSUME IInv, NEW r, NEW g, <<r, g>> \in spent
  PROVE  g # 0 /\ g <= nextGeneration[r]
  BY DEF IInv, GenerationBound

\* begin_inner before the mutex.
LEMMA EnterBeginStep ==
  ASSUME IInv, NEW w \in Work, EnterBegin(w)
  PROVE  IInv'
  BY WorkAssumption, SMTT(60) DEF EnterBegin, slot, lease, stores, Closed,
     IInv, TypeOK, SlotNamesItsCommand, LeaseCount, MarkerOwn, HeldWhen,
     AcceptedCancelStoresNothing, StoredReportStays, SpentWhen,
     GenerationBound, TrashReads, StageKinds, StopsAreFlags

\* begin_inner under the mutex: the slot was free, so nobody was in its region.
LEMMA ReserveSlotStep ==
  ASSUME IInv, NEW w \in Work, ReserveSlot(w)
  PROVE  IInv'
  BY WorkAssumption, SMTT(60) DEF ReserveSlot, lease, stores, Closed, IInv,
     TypeOK, SlotNamesItsCommand, LeaseCount, MarkerOwn, HeldWhen,
     AcceptedCancelStoresNothing, StoredReportStays, SpentWhen,
     GenerationBound, TrashReads, StageKinds, StopsAreFlags

\* A refused begin has not touched the slot.
LEMMA RefuseBeginStep ==
  ASSUME IInv, NEW w \in Work, RefuseBegin(w)
  PROVE  IInv'
  BY WorkAssumption, SMTT(60) DEF RefuseBegin, slot, lease, stores, IInv,
     TypeOK, SlotNamesItsCommand, LeaseCount, MarkerOwn, HeldWhen,
     AcceptedCancelStoresNothing, StoredReportStays, SpentWhen,
     GenerationBound, TrashReads, StageKinds, StopsAreFlags

\* The slot still names the command, so the guard captures its own marker.
LEMMA CreateGuardStep ==
  ASSUME IInv, NEW w \in Work, CreateGuard(w)
  PROVE  IInv'
  BY WorkAssumption, SMTT(60) DEF CreateGuard, slot, stores, IInv, TypeOK,
     SlotNamesItsCommand, LeaseCount, MarkerOwn, HeldWhen,
     AcceptedCancelStoresNothing, StoredReportStays, SpentWhen,
     GenerationBound, TrashReads, StageKinds, StopsAreFlags

\* The command is gone and no guard was made: its region never ends.
LEMMA RegisterFailsStep ==
  ASSUME IInv, NEW w \in Work, RegisterFails(w)
  PROVE  IInv'
  BY WorkAssumption, SMTT(60) DEF RegisterFails, slot, lease, stores, IInv, TypeOK,
     SlotNamesItsCommand, LeaseCount, MarkerOwn, HeldWhen,
     AcceptedCancelStoresNothing, StoredReportStays, SpentWhen,
     GenerationBound, TrashReads, StageKinds, StopsAreFlags

\* The report that is cleared was stored by an earlier command.
LEMMA StartScanStep ==
  ASSUME IInv, NEW w \in Work, StartScan(w)
  PROVE  IInv'
<1>1. SpentWhen'
  <2>. SUFFICES ASSUME NEW r \in Reports, <<r, reports'[r]>> \in spent
                PROVE  FALSE
    BY DEF StartScan, SpentWhen
  <2>1. active = w /\ KindOf[w] # "trash" /\ Target(w) \in Reports
    BY DEF StartScan, IInv, SlotNamesItsCommand
  <2>2. r # Target(w)
    BY <2>1, SpentPair DEF StartScan, IInv, TypeOK
  <2>. QED BY <2>1, <2>2 DEF StartScan, IInv, TypeOK, SpentWhen
<1>. USE WorkAssumption DEF StartScan, slot, IInv, TypeOK,
     SlotNamesItsCommand, LeaseCount, MarkerOwn, HeldWhen,
     AcceptedCancelStoresNothing, StoredReportStays, SpentWhen,
     GenerationBound, TrashReads, StageKinds, StopsAreFlags
<1>2. TypeOK'
  BY SMTT(60)
<1>3. SlotNamesItsCommand'
  BY SMTT(60)
<1>4. LeaseCount'
  BY SMTT(60)
<1>5. MarkerOwn'
  BY SMTT(60)
<1>6. HeldWhen'
  BY SMTT(60)
<1>7. AcceptedCancelStoresNothing'
  BY SMTT(60)
<1>8. StoredReportStays'
  BY SMTT(60)
<1>9. GenerationBound'
  BY SMTT(60)
<1>10. TrashReads'
  BY SMTT(60)
<1>11. StageKinds'
  BY SMTT(60)
<1>12. StopsAreFlags'
  BY SMTT(60)
<1>. QED BY <1>1, <1>2, <1>3, <1>4, <1>5, <1>6, <1>7, <1>8, <1>9, <1>10, <1>11, <1>12

\* Only the report is cleared; the guard of the command remains.
LEMMA StartScanFailsStep ==
  ASSUME IInv, NEW w \in Work, StartScanFails(w)
  PROVE  IInv'
  BY WorkAssumption, SMTT(60) DEF StartScanFails, slot, lease, IInv, TypeOK,
     SlotNamesItsCommand, LeaseCount, MarkerOwn, HeldWhen,
     AcceptedCancelStoresNothing, StoredReportStays, SpentWhen,
     GenerationBound, TrashReads, StageKinds, StopsAreFlags

\* The copy is taken of a report that is stored now.
LEMMA StartTrashStep ==
  ASSUME IInv, NEW w \in Work, NEW r \in Reports, StartTrash(w, r)
  PROVE  IInv'
  BY WorkAssumption, SMTT(60) DEF StartTrash, slot, lease, IInv, TypeOK,
     SlotNamesItsCommand, LeaseCount, MarkerOwn, HeldWhen,
     AcceptedCancelStoresNothing, StoredReportStays, SpentWhen,
     GenerationBound, TrashReads, StageKinds, StopsAreFlags

\* A removal hands its worker a second guard, a reader does not.
LEMMA StartWorkerStep ==
  ASSUME IInv, NEW w \in Work, StartWorker(w)
  PROVE  IInv'
  BY WorkAssumption, SMTT(60) DEF StartWorker, slot, stores, IInv,
     TypeOK, SlotNamesItsCommand, LeaseCount, MarkerOwn, HeldWhen,
     AcceptedCancelStoresNothing, StoredReportStays, SpentWhen,
     GenerationBound, TrashReads, StageKinds, StopsAreFlags

\* An early return leaves the guard to be dropped.
LEMMA StartRefusedStep ==
  ASSUME IInv, NEW w \in Work, StartRefused(w)
  PROVE  IInv'
  BY WorkAssumption, SMTT(60) DEF StartRefused, slot, lease, stores, IInv,
     TypeOK, SlotNamesItsCommand, LeaseCount, MarkerOwn, HeldWhen,
     AcceptedCancelStoresNothing, StoredReportStays, SpentWhen,
     GenerationBound, TrashReads, StageKinds, StopsAreFlags

\* The reports a trash worker makes obsolete stay stored until Finalize.
LEMMA ComputeStep ==
  ASSUME IInv, NEW w \in Work, Compute(w)
  PROVE  IInv'
  BY WorkAssumption, SMTT(60) DEF Compute, slot, lease, StoredNow, IInv,
     TypeOK, SlotNamesItsCommand, LeaseCount, MarkerOwn, HeldWhen,
     AcceptedCancelStoresNothing, StoredReportStays, SpentWhen,
     GenerationBound, TrashReads, StageKinds, StopsAreFlags

\* A halted worker stores nothing.
LEMMA HaltStep ==
  ASSUME IInv, NEW w \in Work, Halt(w)
  PROVE  IInv'
  BY WorkAssumption, SMTT(60) DEF Halt, slot, lease, stores, IInv, TypeOK,
     SlotNamesItsCommand, LeaseCount, MarkerOwn, HeldWhen,
     AcceptedCancelStoresNothing, StoredReportStays, SpentWhen,
     GenerationBound, TrashReads, StageKinds, StopsAreFlags

\* The flag is down, hence no cancellation was accepted.
LEMMA BeginCommitStep ==
  ASSUME IInv, NEW w \in Work, BeginCommit(w)
  PROVE  IInv'
  BY WorkAssumption, SMTT(60) DEF BeginCommit, lease, stores, SlotMatches,
     IInv, TypeOK, SlotNamesItsCommand, LeaseCount, MarkerOwn, HeldWhen,
     AcceptedCancelStoresNothing, StoredReportStays, SpentWhen,
     GenerationBound, TrashReads, StageKinds, StopsAreFlags

\* A refused commit stores nothing.
LEMMA CommitRefusedStep ==
  ASSUME IInv, NEW w \in Work, CommitRefused(w)
  PROVE  IInv'
  BY WorkAssumption, SMTT(60) DEF CommitRefused, slot, lease, stores,
     SlotMatches, IInv, TypeOK, SlotNamesItsCommand, LeaseCount, MarkerOwn,
     HeldWhen, AcceptedCancelStoresNothing, StoredReportStays, SpentWhen,
     GenerationBound, TrashReads, StageKinds, StopsAreFlags

\* The new generation is larger than every spent one.
LEMMA ReplaceScanStep ==
  ASSUME IInv, NEW w \in Work, ReplaceScan(w)
  PROVE  IInv'
<1>1. SpentWhen'
  <2>. SUFFICES ASSUME NEW r \in Reports, <<r, reports'[r]>> \in spent
                PROVE  FALSE
    BY DEF ReplaceScan, SpentWhen
  <2>1. active = w /\ KindOf[w] # "trash" /\ Target(w) \in Reports
    BY DEF ReplaceScan, IInv, SlotNamesItsCommand, StageKinds
  <2>2. r # Target(w)
    BY <2>1, SpentPair DEF ReplaceScan, Store, IInv, TypeOK
  <2>. QED BY <2>1, <2>2 DEF ReplaceScan, Store, IInv, TypeOK, SpentWhen
<1>. USE WorkAssumption DEF ReplaceScan, slot, lease, Store, IInv, TypeOK,
     SlotNamesItsCommand, LeaseCount, MarkerOwn, HeldWhen,
     AcceptedCancelStoresNothing, StoredReportStays, SpentWhen,
     GenerationBound, TrashReads, StageKinds, StopsAreFlags
<1>2. TypeOK'
  BY SMTT(60)
<1>3. SlotNamesItsCommand'
  BY SMTT(60)
<1>4. LeaseCount'
  BY SMTT(60)
<1>5. MarkerOwn'
  BY SMTT(60)
<1>6. HeldWhen'
  BY SMTT(60)
<1>7. AcceptedCancelStoresNothing'
  BY SMTT(60)
<1>8. StoredReportStays'
  BY SMTT(60)
<1>9. GenerationBound'
  BY SMTT(60)
<1>10. TrashReads'
  BY SMTT(60)
<1>11. StageKinds'
  BY SMTT(60)
<1>12. StopsAreFlags'
  BY SMTT(60)
<1>. QED BY <1>1, <1>2, <1>3, <1>4, <1>5, <1>6, <1>7, <1>8, <1>9, <1>10, <1>11, <1>12

\* Only the counter moved.
LEMMA ReplaceScanFailsStep ==
  ASSUME IInv, NEW w \in Work, ReplaceScanFails(w)
  PROVE  IInv'
  BY WorkAssumption, SMTT(60) DEF ReplaceScanFails, slot, lease, IInv,
     TypeOK, SlotNamesItsCommand, LeaseCount, MarkerOwn, HeldWhen,
     AcceptedCancelStoresNothing, StoredReportStays, SpentWhen,
     GenerationBound, TrashReads, StageKinds, StopsAreFlags

\* Every report is cleared in the step that makes it obsolete.
LEMMA MoveItemsStep ==
  ASSUME IInv, NEW w \in Work, MoveItems(w)
  PROVE  IInv'
<1>1. SpentWhen'
  <2>. SUFFICES ASSUME NEW r \in Reports, <<r, 0>> \in spent'
                PROVE  FALSE
    BY DEF MoveItems, SpentWhen
  <2>1. <<r, 0>> \notin spent
    BY SpentPair DEF IInv
  <2>. QED BY <2>1 DEF MoveItems, StoredNow
<1>. USE WorkAssumption DEF MoveItems, slot, lease, StoredNow, IInv, TypeOK,
     SlotNamesItsCommand, LeaseCount, MarkerOwn, HeldWhen,
     AcceptedCancelStoresNothing, StoredReportStays, SpentWhen,
     GenerationBound, TrashReads, StageKinds, StopsAreFlags
<1>2. TypeOK'
  BY SMTT(60)
<1>3. SlotNamesItsCommand'
  BY SMTT(60)
<1>4. LeaseCount'
  BY SMTT(60)
<1>5. MarkerOwn'
  BY SMTT(60)
<1>6. HeldWhen'
  BY SMTT(60)
<1>7. AcceptedCancelStoresNothing'
  BY SMTT(60)
<1>8. StoredReportStays'
  BY SMTT(60)
<1>9. GenerationBound'
  BY SMTT(60)
<1>10. TrashReads'
  BY SMTT(60)
<1>11. StageKinds'
  BY SMTT(60)
<1>12. StopsAreFlags'
  BY SMTT(60)
<1>. QED BY <1>1, <1>2, <1>3, <1>4, <1>5, <1>6, <1>7, <1>8, <1>9, <1>10, <1>11, <1>12

\* The clone of the worker is never the last guard.
LEMMA WorkerReturnsStep ==
  ASSUME IInv, NEW w \in Work, WorkerReturns(w)
  PROVE  IInv'
  BY WorkAssumption, SMTT(60) DEF WorkerReturns, slot, stores, DropLease,
     Owns, IInv, TypeOK, SlotNamesItsCommand, LeaseCount, MarkerOwn,
     HeldWhen, AcceptedCancelStoresNothing, StoredReportStays, SpentWhen,
     GenerationBound, TrashReads, StageKinds, StopsAreFlags

\* A drive-level report is published while its command holds the slot.
LEMMA PublishReportStep ==
  ASSUME IInv, NEW w \in Work, PublishReport(w)
  PROVE  IInv'
<1>1. SpentWhen'
  <2>. SUFFICES ASSUME NEW r \in Reports, <<r, reports'[r]>> \in spent
                PROVE  FALSE
    BY DEF PublishReport, SpentWhen
  <2>1. active = w /\ pc[w] = "returned" /\ Target(w) \in Reports
    BY DEF PublishReport, IInv, SlotNamesItsCommand
  <2>2. r # Target(w)
    BY <2>1, SpentPair DEF PublishReport, Store, IInv, TypeOK
  <2>. QED BY <2>1, <2>2 DEF PublishReport, Store, IInv, TypeOK, SpentWhen
<1>. USE WorkAssumption DEF PublishReport, slot, lease, Store, IInv, TypeOK,
     SlotNamesItsCommand, LeaseCount, MarkerOwn, HeldWhen,
     AcceptedCancelStoresNothing, StoredReportStays, SpentWhen,
     GenerationBound, TrashReads, StageKinds, StopsAreFlags
<1>2. TypeOK'
  BY SMTT(60)
<1>3. SlotNamesItsCommand'
  BY SMTT(60)
<1>4. LeaseCount'
  BY SMTT(60)
<1>5. MarkerOwn'
  BY SMTT(60)
<1>6. HeldWhen'
  BY SMTT(60)
<1>7. AcceptedCancelStoresNothing'
  BY SMTT(60)
<1>8. StoredReportStays'
  BY SMTT(60)
<1>9. GenerationBound'
  BY SMTT(60)
<1>10. TrashReads'
  BY SMTT(60)
<1>11. StageKinds'
  BY SMTT(60)
<1>12. StopsAreFlags'
  BY SMTT(60)
<1>. QED BY <1>1, <1>2, <1>3, <1>4, <1>5, <1>6, <1>7, <1>8, <1>9, <1>10, <1>11, <1>12

\* A trash command clears every report before it gives the slot back.
LEMMA FinalizeStep ==
  ASSUME IInv, NEW w \in Work, Finalize(w)
  PROVE  IInv'
<1>1. SpentWhen'
  <2>. SUFFICES ASSUME NEW r \in Reports, <<r, reports'[r]>> \in spent
                PROVE  FALSE
    BY DEF Finalize, SpentWhen
  <2>1. active = w
    BY DEF Finalize, IInv, SlotNamesItsCommand
  <2>2. KindOf[w] # "trash"
    BY SpentPair DEF Finalize, IInv
  <2>. QED BY <2>1, <2>2 DEF Finalize, IInv, SpentWhen
<1>. USE WorkAssumption DEF Finalize, slot, lease, IInv, TypeOK,
     SlotNamesItsCommand, LeaseCount, MarkerOwn, HeldWhen,
     AcceptedCancelStoresNothing, StoredReportStays, SpentWhen,
     GenerationBound, TrashReads, StageKinds, StopsAreFlags
<1>2. TypeOK'
  BY SMTT(60)
<1>3. SlotNamesItsCommand'
  BY SMTT(60)
<1>4. LeaseCount'
  BY SMTT(60)
<1>5. MarkerOwn'
  BY SMTT(60)
<1>6. HeldWhen'
  BY SMTT(60)
<1>7. AcceptedCancelStoresNothing'
  BY SMTT(60)
<1>8. StoredReportStays'
  BY SMTT(60)
<1>9. GenerationBound'
  BY SMTT(60)
<1>10. TrashReads'
  BY SMTT(60)
<1>11. StageKinds'
  BY SMTT(60)
<1>12. StopsAreFlags'
  BY SMTT(60)
<1>. QED BY <1>1, <1>2, <1>3, <1>4, <1>5, <1>6, <1>7, <1>8, <1>9, <1>10, <1>11, <1>12

\* The last guard: its command owns the slot.
LEMMA DropGuardStep ==
  ASSUME IInv, NEW w \in Work, DropGuard(w)
  PROVE  IInv'
  BY WorkAssumption, SMTT(60) DEF DropGuard, slot, DropLease, Owns, IInv,
     TypeOK, SlotNamesItsCommand, LeaseCount, MarkerOwn, HeldWhen,
     AcceptedCancelStoresNothing, StoredReportStays, SpentWhen,
     GenerationBound, TrashReads, StageKinds, StopsAreFlags

\* The slot still holds the dropped work, so clearing it is right.
LEMMA ReleaseSlotStep ==
  ASSUME IInv, NEW w \in Work, ReleaseSlot(w)
  PROVE  IInv'
  BY WorkAssumption, SMTT(60) DEF ReleaseSlot, stores, IInv, TypeOK,
     SlotNamesItsCommand, LeaseCount, MarkerOwn, HeldWhen,
     AcceptedCancelStoresNothing, StoredReportStays, SpentWhen,
     GenerationBound, TrashReads, StageKinds, StopsAreFlags

\* A stop is accepted only before the commit.
LEMMA CancelControlStep ==
  ASSUME IInv, NEW w \in Work, CancelControl(w)
  PROVE  IInv'
  BY WorkAssumption, SMTT(60) DEF CancelControl, slot, lease, stores, IInv,
     TypeOK, SlotNamesItsCommand, LeaseCount, MarkerOwn, HeldWhen,
     AcceptedCancelStoresNothing, StoredReportStays, SpentWhen,
     GenerationBound, TrashReads, StageKinds, StopsAreFlags

\* The same for the stop button of the window.
LEMMA CancelStep ==
  ASSUME IInv, Cancel
  PROVE  IInv'
  BY WorkAssumption, SMTT(60) DEF Cancel, slot, lease, stores, IInv, TypeOK,
     SlotNamesItsCommand, LeaseCount, MarkerOwn, HeldWhen,
     AcceptedCancelStoresNothing, StoredReportStays, SpentWhen,
     GenerationBound, TrashReads, StageKinds, StopsAreFlags

\* Setting the flag touches nothing else.
LEMMA CloseRuntimeStep ==
  ASSUME IInv, CloseRuntime
  PROVE  IInv'
  BY WorkAssumption, SMTT(60) DEF CloseRuntime, lease, stores, IInv, TypeOK,
     SlotNamesItsCommand, LeaseCount, MarkerOwn, HeldWhen,
     AcceptedCancelStoresNothing, StoredReportStays, SpentWhen,
     GenerationBound, TrashReads, StageKinds, StopsAreFlags

\* Shutdown raises the flag of the work in the slot, it accepts no request.
LEMMA CancelAtCloseStep ==
  ASSUME IInv, CancelAtClose
  PROVE  IInv'
  BY WorkAssumption, SMTT(60) DEF CancelAtClose, lease, stores, IInv, TypeOK,
     SlotNamesItsCommand, LeaseCount, MarkerOwn, HeldWhen,
     AcceptedCancelStoresNothing, StoredReportStays, SpentWhen,
     GenerationBound, TrashReads, StageKinds, StopsAreFlags

\* Every step keeps the invariant: one action lemma per disjunct of Next.
LEMMA StepInvariant == IInv /\ [Next]_vars => IInv'
<1>. SUFFICES ASSUME IInv, [Next]_vars PROVE IInv'
  OBVIOUS
<1>1. CASE UNCHANGED vars
  BY <1>1 DEF vars, slot, lease, stores, IInv, TypeOK, SlotNamesItsCommand, LeaseCount,
     MarkerOwn, HeldWhen, AcceptedCancelStoresNothing, StoredReportStays, SpentWhen,
     GenerationBound, TrashReads, StageKinds, StopsAreFlags
<1>2. ASSUME NEW w \in Work, EnterBegin(w) \/ ReserveSlot(w) \/ RefuseBegin(w)
      PROVE  IInv'
  BY <1>2, EnterBeginStep, ReserveSlotStep, RefuseBeginStep
<1>3. ASSUME NEW w \in Work, Progress(w) PROVE IInv'
  BY <1>3, CreateGuardStep, RegisterFailsStep, StartScanStep, StartScanFailsStep, StartTrashStep,
     StartWorkerStep, StartRefusedStep, ComputeStep, HaltStep, BeginCommitStep,
     CommitRefusedStep, ReplaceScanStep, ReplaceScanFailsStep, MoveItemsStep, WorkerReturnsStep,
     PublishReportStep, FinalizeStep, DropGuardStep, ReleaseSlotStep DEF Progress
<1>4. ASSUME NEW w \in Work, CancelControl(w) PROVE IInv'
  BY <1>4, CancelControlStep
<1>5. CASE Cancel \/ CloseRuntime \/ CancelAtClose
  BY <1>5, CancelStep, CloseRuntimeStep, CancelAtCloseStep
<1>. QED BY <1>1, <1>2, <1>3, <1>4, <1>5 DEF Next

\* The strengthened invariant holds in every reachable state of the runtime.
THEOREM InductiveInvariant == Spec => []IInv
<1>1. Init => IInv
  BY InitInvariant
<1>2. IInv /\ [Next]_vars => IInv'
  BY StepInvariant
<1>. QED BY <1>1, <1>2, PTL DEF Spec

\* Every reachable state is well typed.
THEOREM TypeCorrect == Spec => []TypeOK
<1>1. IInv => TypeOK
  BY DEF IInv
<1>. QED BY <1>1, InductiveInvariant, PTL

\* The slot names exactly the command between its begin and its release, for
\* any number of commands: no overlap and no stale release.  (A command that
\* ended without a guard keeps the slot: SlotIsGivenBack is about that.)
THEOREM SlotSafety == Spec => []SlotNamesItsCommand
<1>1. IInv => SlotNamesItsCommand
  BY DEF IInv
<1>. QED BY <1>1, InductiveInvariant, PTL

\* A storage scan whose cancellation was accepted never stores a report, a
\* confirmed removal moves nothing.
THEOREM CancelSafety == Spec => []AcceptedCancelStoresNothing
<1>1. IInv => AcceptedCancelStoresNothing
  BY DEF IInv
<1>. QED BY <1>1, InductiveInvariant, PTL

\* A stored report stays until the command that stored it gives the slot back.
THEOREM ReportSafety == Spec => []StoredReportStays
<1>1. IInv => StoredReportStays
  BY DEF IInv
<1>. QED BY <1>1, InductiveInvariant, PTL

\* No files are moved on the strength of a report that predates a move.
THEOREM MoveSafety == Spec => NoMoveFromSpentReport
<1>1. IInv /\ [Next]_vars =>
        [\A w \in Work :
            KindOf[w] = "trash" /\ pc[w] = "working" /\ pc'[w] = "computed"
               => held[w] \notin spent]_vars
  <2>. SUFFICES ASSUME IInv, NEW w \in Work, KindOf[w] = "trash",
                       pc[w] = "working", held[w] \in spent
                PROVE  FALSE
    OBVIOUS
  <2>1. PICK r \in Reports : held[w] = <<r, reports[r]>>
    BY DEF IInv, TrashReads
  <2>2. pc[active] \in {"computed", "joined"}
    BY <2>1 DEF IInv, SpentWhen
  <2>3. active = w
    BY DEF IInv, SlotNamesItsCommand
  <2>. QED BY <2>2, <2>3
<1>. QED BY <1>1, InductiveInvariant, PTL DEF Spec, NoMoveFromSpentReport

\* Nothing is admitted after shutdown began.
THEOREM ShutdownSafety == Spec => ClosedAdmitsNothing
<1>1. [Next]_vars => [Closed => active' \in {active, NoWork}]_vars
  BY DEF Next, Progress, EnterBegin, ReserveSlot, RefuseBegin, CreateGuard, RegisterFails,
     StartScan,
     StartScanFails, StartTrash, StartWorker, StartRefused, Compute, Halt, BeginCommit,
     CommitRefused, ReplaceScan, ReplaceScanFails, MoveItems, WorkerReturns, PublishReport,
     Finalize,
     DropGuard, ReleaseSlot, CancelControl, Cancel, CloseRuntime, CancelAtClose, slot, vars
<1>. QED BY <1>1, PTL DEF Spec, ClosedAdmitsNothing

\* Every step of the runtime is a step of the abstract slot, or leaves it alone.
LEMMA AbstractStep == IInv /\ [Next]_vars => [Abstract!Next]_(Abstract!vars)
<1>. SUFFICES ASSUME IInv, [Next]_vars PROVE [Abstract!Next]_(Abstract!vars)
  OBVIOUS
<1>. USE DEF Abstract!Next, Abstract!vars
<1>1. CASE UNCHANGED <<slot, accepted>>
  BY <1>1 DEF slot, Closed
<1>2. ASSUME NEW w \in Work, ReserveSlot(w) PROVE Abstract!Take(w)
  BY <1>2, WorkAssumption DEF ReserveSlot, Abstract!Take, Closed
<1>3. ASSUME NEW w \in Work, BeginCommit(w) PROVE Abstract!Commit
  BY <1>3 DEF BeginCommit, SlotMatches, Abstract!Commit, Closed, IInv, StopsAreFlags
<1>4. ASSUME NEW w \in Work, ReleaseSlot(w) PROVE Abstract!Release
  <2>1. active = w
    BY <1>4 DEF ReleaseSlot, IInv, SlotNamesItsCommand
  <2>2. active' = NoWork
    BY <1>4, <2>1 DEF ReleaseSlot
  <2>3. NoWork \notin accepted'
    BY <1>4, WorkAssumption DEF ReleaseSlot, IInv, TypeOK
  <2>. QED BY <1>4, <2>1, <2>2, <2>3, WorkAssumption DEF ReleaseSlot, Abstract!Release, Closed
<1>5. ASSUME Cancel \/ \E w \in Work : CancelControl(w) PROVE Abstract!Stop
  BY <1>5 DEF Cancel, CancelControl, slot, Abstract!Stop, Closed
<1>6. CASE CloseRuntime
  BY <1>6 DEF CloseRuntime, Abstract!Shut, Closed
<1>7. CASE CancelAtClose
  BY <1>7 DEF CancelAtClose, Closed
<1>8. ASSUME NEW w \in Work, Progress(w) PROVE \/ BeginCommit(w)
                                              \/ ReleaseSlot(w)
                                              \/ UNCHANGED <<slot, accepted>>
  BY <1>8 DEF Progress, CreateGuard, RegisterFails, StartScan, StartScanFails, StartTrash,
     StartWorker,
     StartRefused, Compute, Halt, CommitRefused, ReplaceScan, ReplaceScanFails, MoveItems,
     WorkerReturns, PublishReport, Finalize, DropGuard
<1>9. ASSUME NEW w \in Work, EnterBegin(w) \/ RefuseBegin(w)
      PROVE  UNCHANGED <<slot, accepted>>
  BY <1>9 DEF EnterBegin, RefuseBegin
<1>10. CASE UNCHANGED vars
  BY <1>1, <1>10 DEF vars
<1>. QED BY <1>1, <1>2, <1>3, <1>4, <1>5, <1>6, <1>7, <1>8, <1>9, <1>10 DEF Next

\* The runtime implements the abstract work slot.
THEOREM Refinement == Spec => ImplementsWorkSlot
<1>1. Init => Abstract!Init
  BY WorkAssumption DEF Init, Abstract!Init, Closed
<1>. QED BY <1>1, AbstractStep, InductiveInvariant, PTL
        DEF Spec, ImplementsWorkSlot, Abstract!Spec

-----------------------------------------------------------------------------
(* The server of the chat clients (ControlServer), for any number of starts  *)
(* of the application and of connections and any limit.                      *)

CONSTANTS Processes, Conns, MaxConnections
VARIABLES proc, lock, file, acceptor, served, streams, handles, conn

Server == INSTANCE ControlServer WITH active <- served

-----------------------------------------------------------------------------
(* The lock and the descriptor.                                              *)

\* From its lock to its end a process holds the lock; once it has published its
\* descriptor, until it reads it again, the descriptor is its own.
OwnsLock == \A p \in Processes : proc[p] \notin {"off", "ended"} => lock = p
OwnsFile ==
  \A p \in Processes :
    proc[p] \in {"published", "up", "flagged", "joinAccept", "joinWorkers"} => file = p

FileInv == proc = [p \in Processes |-> proc[p]] /\ OwnsLock /\ OwnsFile

\* The initial state satisfies the invariant.
LEMMA FileInit == Server!Init => FileInv
BY DEF Server!Init, FileInv, OwnsLock, OwnsFile

\* Every step keeps the invariant.
LEMMA FileStep ==
  ASSUME Server!ServerAssumption
  PROVE  FileInv /\ [Server!Next]_(Server!vars) => FileInv'
<1> SUFFICES ASSUME FileInv, [Server!Next]_(Server!vars) PROVE FileInv'
  OBVIOUS
<1> USE DEF FileInv, OwnsLock, OwnsFile, Server!Step, Server!shared
<1>1. ASSUME NEW p \in Processes, Server!Lock(p) PROVE FileInv'
  BY <1>1 DEF Server!Lock, Server!ServerAssumption
<1>2. ASSUME NEW p \in Processes, Server!ClearFile(p) \/ Server!Publish(p) \/ Server!RemoveFile(p)
      PROVE  FileInv'
  BY <1>2 DEF Server!ClearFile, Server!Publish, Server!RemoveFile
<1>3. ASSUME NEW p \in Processes,
             Server!StartAccept(p) \/ Server!StartFails(p) \/ Server!Shutdown(p) \/ Server!CloseStreams(p) \/ Server!JoinAccept(p) \/ Server!JoinWorkers(p)
      PROVE  FileInv'
  BY <1>3 DEF Server!StartAccept, Server!StartFails, Server!Shutdown, Server!CloseStreams,
     Server!JoinAccept, Server!JoinWorkers
<1>4. ASSUME NEW p \in Processes, Server!Crash(p) PROVE FileInv'
  BY <1>4 DEF Server!Crash
<1>5. ASSUME NEW p \in Processes, Server!ReadFile(p) PROVE FileInv'
  BY <1>5 DEF Server!ReadFile, Server!HoldLock
<1>6. ASSUME NEW p \in Processes, Server!Unlock(p) PROVE FileInv'
  BY <1>6 DEF Server!Unlock, Server!FreeLock
<1>7. ASSUME NEW p \in Processes, Server!AcceptStep(p) \/ Server!AcceptFails(p) PROVE FileInv'
  BY <1>7
  DEF Server!AcceptStep, Server!AcceptFails, Server!SetAcceptor, Server!LoopTop,
  Server!NothingQueued, Server!Accept, Server!Register,
  Server!Count, Server!Spawn, Server!SpawnFails, Server!KeepHandle
<1>8. ASSUME NEW c \in Conns,
             Server!Connect(c) \/ Server!Send(c) \/ Server!HangUp(c) \/ Server!ConnStep(c) \/ Server!TimesOut(c) \/ Server!Written(c)
      PROVE  FileInv'
  BY <1>8
  DEF Server!Connect, Server!Send, Server!HangUp, Server!ConnStep, Server!TimesOut, Server!Written,
  Server!Check, Server!Read, Server!SocketClosed, Server!CheckAgain, Server!Ran,
      Server!Goto, Server!Return
<1>9. CASE UNCHANGED Server!vars
  BY <1>9 DEF Server!vars
<1> QED
  BY <1>1, <1>2, <1>3, <1>4, <1>5, <1>6, <1>7, <1>8, <1>9 DEF Server!Next, Server!ShutdownStep

\* The descriptor names the server, by the invariant.
LEMMA DescriptorIsOwn ==
  ASSUME Server!ServerAssumption
  PROVE  FileInv => Server!DescriptorNamesServer
BY DEF FileInv, OwnsFile, Server!DescriptorNamesServer

\* A process that serves is the one the descriptor names, for any number of
\* starts and crashes (write_descriptor, remove_descriptor_if_owned).
THEOREM DescriptorSafety ==
  ASSUME Server!ServerAssumption
  PROVE  Server!Spec => []Server!DescriptorNamesServer
BY DescriptorIsOwn, FileInit, FileStep, PTL DEF Server!Spec

-----------------------------------------------------------------------------
(* The Server!threads of the connections.                                           *)

\* The accept thread is not running before a process is up, nor after it has
\* been joined.
AcceptorGone ==
  \A p \in Processes : proc[p] \notin {"up", "flagged", "joinAccept"} => acceptor[p] = Server!Gone

\* What the accept thread holds is a connection of its own process that is not
\* served yet, until it has started the thread.
AcceptorHolds ==
  \A p \in Processes :
    \/ acceptor[p] \in {Server!Gone, Server!Waiting, [at |-> "accept"]}
    \/ /\ acceptor[p].c \in Conns /\ conn[acceptor[p].c].srv = p
       /\ acceptor[p] \in {[at |-> a, c |-> acceptor[p].c] : a \in {"taken", "kept", "counted", "spawned"}}
       /\ acceptor[p].at # "spawned" => conn[acceptor[p].c].at = "accepted"
       /\ conn[acceptor[p].c].at # "new"

\* A thread that runs will be joined, or has just been started by a live accept
\* thread; and there is none before its process is up or after it was joined.
Known(c) ==
  /\ conn[c].srv \in Processes
  /\ c \in handles[conn[c].srv] \/ acceptor[conn[c].srv] = [at |-> "spawned", c |-> c]
  /\ proc[conn[c].srv] \in {"up", "flagged", "joinAccept", "joinWorkers"}
ThreadIsKnown == \A c \in Conns : Server!Alive(c) => Known(c)

ServerStages == {"new", "queued", "accepted", "check", "read", "checkAgain", "run", "write", "over"}
Conn == [srv : Processes \cup {"none"}, sent : BOOLEAN, closed : BOOLEAN, at : ServerStages]
Shapes ==
  /\ proc = [p \in Processes |-> proc[p]] /\ acceptor = [p \in Processes |-> acceptor[p]]
  /\ handles = [p \in Processes |-> handles[p]] /\ file \in Processes \cup {"none"}
  /\ conn \in [Conns -> Conn]

ThreadInv == Shapes /\ AcceptorGone /\ AcceptorHolds /\ ThreadIsKnown

\* The initial state satisfies the invariant.
LEMMA ThreadInit == Server!Init => ThreadInv
<1> SUFFICES ASSUME Server!Init PROVE ThreadInv
  OBVIOUS
<1>1. Shapes
  BY DEF Server!Init, Shapes, Server!NoConn, Conn, ServerStages
<1>2. AcceptorGone /\ AcceptorHolds
  BY DEF Server!Init, AcceptorGone, AcceptorHolds
<1>3. ThreadIsKnown
  BY DEF Server!Init, ThreadIsKnown, Server!Alive, Server!NoConn
<1> QED
  BY <1>1, <1>2, <1>3 DEF ThreadInv

\* Every step keeps the invariant.
LEMMA ThreadStep ==
  ASSUME Server!ServerAssumption
  PROVE  ThreadInv /\ [Server!Next]_(Server!vars) => ThreadInv'
<1> SUFFICES ASSUME ThreadInv, [Server!Next]_(Server!vars) PROVE ThreadInv'
  OBVIOUS
<1> USE DEF ThreadInv, Server!Step, Server!shared, Server!Gone, Server!Waiting, Server!ServerAssumption
<1>1. ASSUME NEW p \in Processes,
             Server!Lock(p) \/ Server!ClearFile(p) \/ Server!Publish(p) \/ Server!StartAccept(p) \/ Server!StartFails(p)
      PROVE  ThreadInv'
  <2>1. Shapes'
    BY <1>1 DEF Shapes, Conn, ServerStages, Server!Lock, Server!ClearFile, Server!Publish,
       Server!StartAccept, Server!StartFails,
       Server!threads
  <2>2. AcceptorGone'
    BY <1>1 DEF Shapes, AcceptorGone, Server!Lock, Server!ClearFile, Server!Publish,
       Server!StartAccept, Server!StartFails,
       Server!threads
  <2>3. AcceptorHolds'
    BY <1>1 DEF Shapes, AcceptorHolds, Server!Lock, Server!ClearFile, Server!Publish,
       Server!StartAccept, Server!StartFails,
       Server!threads
  <2>4. ASSUME NEW d \in Conns, Server!Alive(d)' PROVE Known(d)'
    <3>1. Server!Alive(d) /\ conn'[d].srv = conn[d].srv
      BY <1>1, <2>4 DEF Shapes, Conn, Server!Alive, Server!Lock, Server!ClearFile,
         Server!Publish, Server!StartAccept,
         Server!StartFails, Server!threads
    <3>2. Known(d)
      BY <3>1 DEF ThreadIsKnown
    <3> QED
      BY <1>1, <2>4, <3>1, <3>2 DEF Shapes, Known, Server!Lock, Server!ClearFile,
         Server!Publish, Server!StartAccept,
         Server!StartFails, Server!threads
  <2> QED
    BY <2>1, <2>2, <2>3, <2>4 DEF ThreadIsKnown
<1>2. ASSUME NEW p \in Processes, Server!Crash(p) PROVE ThreadInv'
  <2>1. Shapes'
    BY <1>2 DEF Shapes, Conn, ServerStages, Server!Crash, Server!Of
  <2>2. AcceptorGone'
    BY <1>2 DEF Shapes, AcceptorGone, Server!Crash, Server!Of
  <2>3. AcceptorHolds'
    BY <1>2 DEF Shapes, Conn, AcceptorHolds, Server!Crash, Server!Of
  <2>4. ASSUME NEW d \in Conns, Server!Alive(d)' PROVE Known(d)'
    <3>1. Server!Alive(d) /\ conn'[d].srv = conn[d].srv
      BY <1>2, <2>4 DEF Shapes, Conn, Server!Alive, Server!Crash, Server!Of
    <3>2. Known(d)
      BY <3>1 DEF ThreadIsKnown
    <3> QED
      BY <1>2, <2>4, <3>1, <3>2 DEF Shapes, Known, Server!Alive, Server!Crash, Server!Of
  <2> QED
    BY <2>1, <2>2, <2>3, <2>4 DEF ThreadIsKnown
<1>3. ASSUME NEW p \in Processes, Server!Shutdown(p) \/ Server!JoinAccept(p) PROVE ThreadInv'
  <2>1. Shapes'
    BY <1>3 DEF Shapes, Conn, ServerStages, Server!Shutdown, Server!JoinAccept,
       Server!JoinFirst, Server!AcceptorEnded,
       Server!threads
  <2>2. AcceptorGone'
    BY <1>3 DEF Shapes, AcceptorGone, Server!Shutdown, Server!JoinAccept, Server!JoinFirst,
       Server!AcceptorEnded,
       Server!threads
  <2>3. AcceptorHolds'
    BY <1>3 DEF Shapes, AcceptorHolds, Server!Shutdown, Server!JoinAccept, Server!JoinFirst,
       Server!AcceptorEnded,
       Server!threads
  <2>4. ASSUME NEW d \in Conns, Server!Alive(d)' PROVE Known(d)'
    <3>1. Server!Alive(d) /\ conn'[d].srv = conn[d].srv
      BY <1>3, <2>4 DEF Shapes, Conn, Server!Alive, Server!Shutdown, Server!JoinAccept,
         Server!JoinFirst,
         Server!AcceptorEnded, Server!threads
    <3>2. Known(d)
      BY <3>1 DEF ThreadIsKnown
    <3> QED
      BY <1>3, <2>4, <3>1, <3>2 DEF Shapes, AcceptorGone, Known, Server!Shutdown, Server!JoinAccept,
         Server!JoinFirst, Server!AcceptorEnded, Server!threads
  <2> QED
    BY <2>1, <2>2, <2>3, <2>4 DEF ThreadIsKnown
<1>4. ASSUME NEW p \in Processes, Server!CloseStreams(p) PROVE ThreadInv'
  <2>1. Shapes'
    BY <1>4 DEF Shapes, Conn, ServerStages, Server!CloseStreams
  <2>2. AcceptorGone'
    BY <1>4 DEF Shapes, AcceptorGone, Server!CloseStreams
  <2>3. AcceptorHolds'
    BY <1>4 DEF Shapes, Conn, AcceptorHolds, Server!CloseStreams
  <2>4. ASSUME NEW d \in Conns, Server!Alive(d)' PROVE Known(d)'
    <3>1. Server!Alive(d) /\ conn'[d].srv = conn[d].srv
      BY <1>4, <2>4 DEF Shapes, Conn, Server!Alive, Server!CloseStreams
    <3>2. Known(d)
      BY <3>1 DEF ThreadIsKnown
    <3> QED
      BY <1>4, <2>4, <3>1, <3>2 DEF Shapes, Known, Server!CloseStreams
  <2> QED
    BY <2>1, <2>2, <2>3, <2>4 DEF ThreadIsKnown
<1>5. ASSUME NEW p \in Processes, Server!JoinWorkers(p) PROVE ThreadInv'
  <2>1. Shapes'
    BY <1>5 DEF Shapes, Conn, ServerStages, Server!JoinWorkers, Server!WorkersEnded
  <2>2. AcceptorGone'
    BY <1>5 DEF Shapes, AcceptorGone, Server!JoinWorkers, Server!WorkersEnded
  <2>3. AcceptorHolds'
    BY <1>5 DEF Shapes, AcceptorHolds, Server!JoinWorkers, Server!WorkersEnded
  <2>4. ASSUME NEW d \in Conns, Server!Alive(d)' PROVE Known(d)'
    <3>1. Server!Alive(d) /\ conn'[d].srv = conn[d].srv
      BY <1>5, <2>4 DEF Shapes, Conn, Server!Alive, Server!JoinWorkers, Server!WorkersEnded
    <3>2. Known(d)
      BY <3>1 DEF ThreadIsKnown
    <3> QED
      BY <1>5, <2>4, <3>1, <3>2 DEF Server!Alive, Shapes, AcceptorGone, Known, Server!JoinWorkers,
         Server!WorkersEnded
  <2> QED
    BY <2>1, <2>2, <2>3, <2>4 DEF ThreadIsKnown
<1>6. ASSUME NEW p \in Processes, Server!ReadFile(p) \/ Server!RemoveFile(p) \/ Server!Unlock(p)
      PROVE  ThreadInv'
  <2>1. Shapes'
    BY <1>6 DEF Shapes, Conn, ServerStages, Server!ReadFile, Server!RemoveFile, Server!Unlock,
       Server!HoldLock, Server!threads
  <2>2. AcceptorGone'
    BY <1>6 DEF Shapes, AcceptorGone, Server!ReadFile, Server!RemoveFile, Server!Unlock,
       Server!HoldLock, Server!threads
  <2>3. AcceptorHolds'
    BY <1>6 DEF Shapes, AcceptorHolds, Server!ReadFile, Server!RemoveFile, Server!Unlock,
       Server!HoldLock, Server!threads
  <2>4. ASSUME NEW d \in Conns, Server!Alive(d)' PROVE Known(d)'
    <3>1. Server!Alive(d) /\ conn'[d].srv = conn[d].srv
      BY <1>6, <2>4 DEF Shapes, Conn, Server!Alive, Server!ReadFile, Server!RemoveFile,
         Server!Unlock, Server!HoldLock, Server!threads
    <3>2. Known(d)
      BY <3>1 DEF ThreadIsKnown
    <3> QED
      BY <1>6, <2>4, <3>1, <3>2 DEF Shapes, Known, Server!ReadFile, Server!RemoveFile,
         Server!Unlock,
         Server!HoldLock, Server!threads
  <2> QED
    BY <2>1, <2>2, <2>3, <2>4 DEF ThreadIsKnown
<1>7. ASSUME NEW p \in Processes, Server!LoopTop(p) \/ Server!AcceptFails(p) PROVE ThreadInv'
  <2>1. Shapes'
    <3>1. \A e \in Conn : [e EXCEPT !.at = "over"] \in Conn
      BY DEF Conn, ServerStages
    <3>2. conn' \in [Conns -> Conn]
      BY <1>7, <3>1 DEF Shapes, Server!LoopTop, Server!AcceptFails, Server!Drained
    <3> QED
      BY <1>7, <3>2 DEF Shapes, Server!LoopTop, Server!AcceptFails, Server!SetAcceptor
  <2>2. AcceptorGone'
    BY <1>7 DEF Shapes, AcceptorGone, Server!LoopTop, Server!AcceptFails, Server!SetAcceptor,
       Server!Drained,
       Server!Of, Server!Stopping
  <2>3. AcceptorHolds'
    BY <1>7 DEF Shapes, Conn, AcceptorHolds, Server!LoopTop, Server!AcceptFails,
       Server!SetAcceptor, Server!Drained,
       Server!Of, Server!Stopping
  <2>4. ASSUME NEW d \in Conns, Server!Alive(d)' PROVE Known(d)'
    <3>1. Server!Alive(d) /\ conn'[d].srv = conn[d].srv
      BY <1>7, <2>4 DEF Shapes, Conn, Server!Alive, Server!LoopTop, Server!AcceptFails,
         Server!Drained, Server!Of,
         Server!Stopping
    <3>2. Known(d)
      BY <3>1 DEF ThreadIsKnown
    <3> QED
      BY <1>7, <2>4, <3>1, <3>2 DEF Server!Alive, Shapes, Known, Server!LoopTop, Server!AcceptFails,
         Server!SetAcceptor, Server!Stopping
  <2> QED
    BY <2>1, <2>2, <2>3, <2>4 DEF ThreadIsKnown
<1>8. ASSUME NEW p \in Processes, Server!NothingQueued(p) PROVE ThreadInv'
  <2>1. Shapes'
    BY <1>8 DEF Shapes, Conn, ServerStages, Server!NothingQueued, Server!SetAcceptor
  <2>2. AcceptorGone'
    BY <1>8 DEF Shapes, AcceptorGone, Server!NothingQueued, Server!SetAcceptor
  <2>3. AcceptorHolds'
    BY <1>8 DEF Shapes, AcceptorHolds, Server!NothingQueued, Server!SetAcceptor
  <2>4. ASSUME NEW d \in Conns, Server!Alive(d)' PROVE Known(d)'
    <3>1. Server!Alive(d) /\ conn'[d].srv = conn[d].srv
      BY <1>8, <2>4 DEF Shapes, Conn, Server!Alive, Server!NothingQueued
    <3>2. Known(d)
      BY <3>1 DEF ThreadIsKnown
    <3> QED
      BY <1>8, <2>4, <3>1, <3>2 DEF Shapes, Known, Server!NothingQueued, Server!SetAcceptor
  <2> QED
    BY <2>1, <2>2, <2>3, <2>4 DEF ThreadIsKnown
<1>9. ASSUME NEW p \in Processes, NEW c \in Conns, Server!Accept(p, c) PROVE ThreadInv'
  <2>1. Shapes'
    BY <1>9 DEF Shapes, Conn, ServerStages, Server!Accept, Server!SetAcceptor, Server!Of
  <2>2. AcceptorGone'
    BY <1>9 DEF Shapes, AcceptorGone, Server!Accept, Server!SetAcceptor, Server!Of
  <2>3. AcceptorHolds'
    BY <1>9 DEF Shapes, Conn, AcceptorHolds, Server!Accept, Server!SetAcceptor, Server!Of
  <2>4. ASSUME NEW d \in Conns, Server!Alive(d)' PROVE Known(d)'
    <3>1. Server!Alive(d) /\ conn'[d].srv = conn[d].srv
      BY <1>9, <2>4 DEF Shapes, Conn, Server!Alive, Server!Accept, Server!Of
    <3>2. Known(d)
      BY <3>1 DEF ThreadIsKnown
    <3> QED
      BY <1>9, <2>4, <3>1, <3>2 DEF Shapes, Known, Server!Accept, Server!SetAcceptor
  <2> QED
    BY <2>1, <2>2, <2>3, <2>4 DEF ThreadIsKnown
<1>10. ASSUME NEW p \in Processes, Server!Register(p) \/ Server!Count(p) PROVE ThreadInv'
  <2>1. Shapes'
    BY <1>10 DEF Shapes, Conn, ServerStages, Server!Register, Server!Count, Server!SetAcceptor
  <2>2. AcceptorGone'
    BY <1>10 DEF Shapes, AcceptorGone, Server!Register, Server!Count, Server!SetAcceptor
  <2>3. AcceptorHolds'
    BY <1>10 DEF Shapes, AcceptorHolds, Server!Register, Server!Count, Server!SetAcceptor
  <2>4. ASSUME NEW d \in Conns, Server!Alive(d)' PROVE Known(d)'
    <3>1. Server!Alive(d) /\ conn'[d].srv = conn[d].srv
      BY <1>10, <2>4 DEF Shapes, Conn, Server!Alive, Server!Register, Server!Count
    <3>2. Known(d)
      BY <3>1 DEF ThreadIsKnown
    <3> QED
      BY <1>10, <2>4, <3>1, <3>2 DEF Shapes, Known, Server!Register, Server!Count,
         Server!SetAcceptor
  <2> QED
    BY <2>1, <2>2, <2>3, <2>4 DEF ThreadIsKnown
<1>11. ASSUME NEW p \in Processes, Server!Spawn(p) PROVE ThreadInv'
  <2>1. Shapes'
    BY <1>11 DEF Shapes, Conn, ServerStages, Server!Spawn, Server!SetAcceptor
  <2>2. AcceptorGone'
    BY <1>11 DEF Shapes, AcceptorGone, Server!Spawn, Server!SetAcceptor
  <2>3. AcceptorHolds'
    BY <1>11 DEF Shapes, Conn, AcceptorHolds, Server!Spawn, Server!SetAcceptor
  <2>4. ASSUME NEW d \in Conns, Server!Alive(d)' PROVE Known(d)'
    <3>1. /\ acceptor[p].at = "counted" /\ acceptor[p].c \in Conns /\ conn[acceptor[p].c].srv = p
          /\ acceptor[p] = [at |-> "counted", c |-> acceptor[p].c]
          /\ acceptor'[p] = [at |-> "spawned", c |-> acceptor[p].c]
      BY <1>11 DEF Shapes, AcceptorHolds, Server!Spawn, Server!SetAcceptor
    <3>2. conn'[d].srv = conn[d].srv
      BY <1>11 DEF Shapes, Conn, Server!Spawn
    <3>3. CASE d = acceptor[p].c
      <4>1. proc[p] \in {"up", "flagged", "joinAccept"}
        BY <3>1 DEF AcceptorGone
      <4> QED
        BY <1>11, <3>1, <3>2, <3>3, <4>1 DEF Server!Spawn, Known
    <3>4. CASE d # acceptor[p].c
      <4>1. Known(d)
        BY <1>11, <2>4, <3>4 DEF Shapes, Server!Alive, Server!Spawn, ThreadIsKnown
      <4>2. \A q \in Processes : q # p => acceptor'[q] = acceptor[q]
        BY <1>11 DEF Shapes, Server!Spawn, Server!SetAcceptor
      <4> QED
        BY <1>11, <3>1, <3>2, <4>1, <4>2 DEF Server!Spawn, Known
    <3> QED
      BY <3>3, <3>4
  <2> QED
    BY <2>1, <2>2, <2>3, <2>4 DEF ThreadIsKnown
<1>12. ASSUME NEW p \in Processes, Server!SpawnFails(p) PROVE ThreadInv'
  <2>1. Shapes'
    BY <1>12 DEF Shapes, Conn, ServerStages, Server!SpawnFails, Server!SetAcceptor
  <2>2. AcceptorGone'
    BY <1>12 DEF Shapes, AcceptorGone, Server!SpawnFails, Server!SetAcceptor
  <2>3. AcceptorHolds'
    <3>1. /\ conn[acceptor[p].c].srv = p /\ acceptor[p].c \in Conns
          /\ \A d \in Conns : d # acceptor[p].c => conn'[d] = conn[d]
          /\ \A q \in Processes : q # p => acceptor'[q] = acceptor[q]
          /\ acceptor'[p] = Server!Waiting
      BY <1>12 DEF Shapes, AcceptorHolds, Server!SpawnFails, Server!SetAcceptor
    <3> QED
      BY <3>1 DEF AcceptorHolds
  <2>4. ASSUME NEW d \in Conns, Server!Alive(d)' PROVE Known(d)'
    <3>1. Server!Alive(d) /\ conn'[d].srv = conn[d].srv
      BY <1>12, <2>4 DEF Shapes, Conn, Server!Alive, Server!SpawnFails
    <3>2. Known(d)
      BY <3>1 DEF ThreadIsKnown
    <3> QED
      BY <1>12, <2>4, <3>1, <3>2 DEF Shapes, Known, Server!SpawnFails, Server!SetAcceptor
  <2> QED
    BY <2>1, <2>2, <2>3, <2>4 DEF ThreadIsKnown
<1>13. ASSUME NEW p \in Processes, Server!KeepHandle(p) PROVE ThreadInv'
  <2>1. Shapes'
    BY <1>13 DEF Shapes, Conn, ServerStages, Server!KeepHandle, Server!SetAcceptor
  <2>2. AcceptorGone'
    BY <1>13 DEF Shapes, AcceptorGone, Server!KeepHandle, Server!SetAcceptor
  <2>3. AcceptorHolds'
    BY <1>13 DEF Shapes, AcceptorHolds, Server!KeepHandle, Server!SetAcceptor
  <2>4. ASSUME NEW d \in Conns, Server!Alive(d)' PROVE Known(d)'
    <3>1. Server!Alive(d) /\ conn'[d].srv = conn[d].srv
      BY <1>13, <2>4 DEF Shapes, Conn, Server!Alive, Server!KeepHandle
    <3>2. Known(d)
      BY <3>1 DEF ThreadIsKnown
    <3> QED
      BY <1>13, <2>4, <3>1, <3>2 DEF Shapes, Known, Server!KeepHandle, Server!SetAcceptor
  <2> QED
    BY <2>1, <2>2, <2>3, <2>4 DEF ThreadIsKnown
<1>14. ASSUME NEW c \in Conns, Server!Connect(c) PROVE ThreadInv'
  <2>1. Shapes'
    <3>1. \A e \in Conn : [e EXCEPT !.at = "queued", !.srv = file] \in Conn
      BY DEF Shapes, Conn, ServerStages
    <3>2. conn' = [conn EXCEPT ![c] = [conn[c] EXCEPT !.at = "queued", !.srv = file]]
      BY <1>14 DEF Server!Connect, Shapes
    <3>3. conn' \in [Conns -> Conn]
      BY <3>1, <3>2 DEF Shapes
    <3> QED
      BY <1>14, <3>3 DEF Shapes, Server!Connect
  <2>2. AcceptorGone'
    BY <1>14 DEF Shapes, AcceptorGone, Server!Connect
  <2>3. AcceptorHolds'
    BY <1>14 DEF Shapes, Conn, AcceptorHolds, Server!Connect
  <2>4. ASSUME NEW d \in Conns, Server!Alive(d)' PROVE Known(d)'
    <3>1. Server!Alive(d) /\ conn'[d].srv = conn[d].srv
      BY <1>14, <2>4 DEF Shapes, Conn, Server!Alive, Server!Connect
    <3>2. Known(d)
      BY <3>1 DEF ThreadIsKnown
    <3> QED
      BY <1>14, <2>4, <3>1, <3>2 DEF Shapes, Known, Server!Connect
  <2> QED
    BY <2>1, <2>2, <2>3, <2>4 DEF ThreadIsKnown
<1>15. ASSUME NEW c \in Conns, Server!Send(c) \/ Server!HangUp(c) PROVE ThreadInv'
  <2>1. Shapes'
    <3>1. \A e \in Conn : [e EXCEPT !.sent = TRUE] \in Conn /\ [e EXCEPT !.closed = TRUE] \in Conn
      BY DEF Conn
    <3>2. \/ conn' = [conn EXCEPT ![c] = [conn[c] EXCEPT !.sent = TRUE]]
          \/ conn' = [conn EXCEPT ![c] = [conn[c] EXCEPT !.closed = TRUE]]
      BY <1>15 DEF Server!Send, Server!HangUp
    <3>3. conn' \in [Conns -> Conn]
      BY <3>1, <3>2 DEF Shapes
    <3> QED
      BY <1>15, <3>3 DEF Shapes, Server!Send, Server!HangUp
  <2>2. AcceptorGone'
    BY <1>15 DEF Shapes, AcceptorGone, Server!Send, Server!HangUp
  <2>3. AcceptorHolds'
    BY <1>15 DEF Shapes, Conn, AcceptorHolds, Server!Send, Server!HangUp
  <2>4. ASSUME NEW d \in Conns, Server!Alive(d)' PROVE Known(d)'
    <3>1. Server!Alive(d) /\ conn'[d].srv = conn[d].srv
      BY <1>15, <2>4 DEF Shapes, Conn, Server!Alive, Server!Send, Server!HangUp
    <3>2. Known(d)
      BY <3>1 DEF ThreadIsKnown
    <3> QED
      BY <1>15, <2>4, <3>1, <3>2 DEF Shapes, Known, Server!Send, Server!HangUp
  <2> QED
    BY <2>1, <2>2, <2>3, <2>4 DEF ThreadIsKnown
<1>16. ASSUME NEW c \in Conns, Server!ConnStep(c) \/ Server!TimesOut(c) \/ Server!Written(c)
       PROVE  ThreadInv'
  <2>1. Shapes'
    BY <1>16 DEF Shapes, Conn, ServerStages, Server!ConnStep, Server!TimesOut, Server!Written,
       Server!Check, Server!Read,
       Server!SocketClosed, Server!CheckAgain, Server!Ran, Server!Goto, Server!Return
  <2>2. AcceptorGone'
    BY <1>16 DEF Shapes, AcceptorGone, Server!ConnStep, Server!TimesOut, Server!Written,
       Server!Check, Server!Read,
       Server!SocketClosed, Server!CheckAgain, Server!Ran, Server!Goto, Server!Return
  <2>3. AcceptorHolds'
    BY <1>16 DEF Shapes, Conn, AcceptorHolds, Server!ConnStep, Server!TimesOut, Server!Written,
       Server!Check, Server!Read,
       Server!SocketClosed, Server!CheckAgain, Server!Ran, Server!Goto, Server!Return
  <2>4. ASSUME NEW d \in Conns, Server!Alive(d)' PROVE Known(d)'
    <3>1. Server!Alive(d) /\ conn'[d].srv = conn[d].srv
      BY <1>16, <2>4 DEF Shapes, Conn, Server!Alive, Server!ConnStep, Server!TimesOut,
         Server!Written, Server!Check, Server!Read,
         Server!SocketClosed, Server!CheckAgain, Server!Ran, Server!Goto, Server!Return
    <3>2. Known(d)
      BY <3>1 DEF ThreadIsKnown
    <3> QED
      BY <1>16, <2>4, <3>1, <3>2 DEF Shapes, Known, Server!ConnStep, Server!TimesOut,
         Server!Written, Server!Check,
         Server!Read, Server!SocketClosed, Server!CheckAgain, Server!Ran, Server!Goto, Server!Return
  <2> QED
    BY <2>1, <2>2, <2>3, <2>4 DEF ThreadIsKnown
<1>17. CASE UNCHANGED Server!vars
  <2>1. Shapes'
    BY <1>17 DEF Shapes, Conn, ServerStages, Server!vars
  <2>2. AcceptorGone'
    BY <1>17 DEF Shapes, AcceptorGone, Server!vars
  <2>3. AcceptorHolds'
    BY <1>17 DEF Shapes, AcceptorHolds, Server!vars
  <2>4. ASSUME NEW d \in Conns, Server!Alive(d)' PROVE Known(d)'
    <3>1. Server!Alive(d) /\ conn'[d].srv = conn[d].srv
      BY <1>17, <2>4 DEF Shapes, Conn, Server!Alive, Server!vars
    <3>2. Known(d)
      BY <3>1 DEF ThreadIsKnown
    <3> QED
      BY <1>17, <2>4, <3>1, <3>2 DEF Shapes, Known, Server!vars
  <2> QED
    BY <2>1, <2>2, <2>3, <2>4 DEF ThreadIsKnown
<1> QED
  BY <1>1, <1>2, <1>3, <1>4, <1>5, <1>6, <1>7, <1>8, <1>9, <1>10, <1>11, <1>12, <1>13,
     <1>14, <1>15, <1>16, <1>17 DEF Server!Next, Server!AcceptStep, Server!ShutdownStep

\* Nobody is served after the join, by the invariant.
LEMMA NobodyAfterJoin ==
  ASSUME Server!ServerAssumption
  PROVE  ThreadInv => Server!NobodyServedAfterJoin
BY DEF ThreadInv, ThreadIsKnown, Known, Server!NobodyServedAfterJoin

\* No thread of a connection runs once its server has joined them, for any
\* number of connections (accept_loop, shutdown).
THEOREM JoinSafety ==
  ASSUME Server!ServerAssumption
  PROVE  Server!Spec => []Server!NobodyServedAfterJoin
BY NobodyAfterJoin, ThreadInit, ThreadStep, PTL DEF Server!Spec

-----------------------------------------------------------------------------
(* The count of the connections.                                             *)

\* The threads a process has counted: those that run, and the one its accept
\* thread is about to start.
Serving(p) ==
  {c \in Conns : conn[c].srv = p /\ (Server!Alive(c) \/ acceptor[p] = [at |-> "counted", c |-> c])}

\* The count is exact, and the accept thread that found it below the limit is
\* the only one that raises it.
CountIsExact ==
  \A p \in Processes :
    /\ IsFiniteSet(Serving(p)) /\ served[p] = Cardinality(Serving(p))
    /\ served[p] <= MaxConnections
    /\ acceptor[p].at \in {"taken", "kept"} => served[p] < MaxConnections

\* What shutdown closes and joins are connections of its own process.
StreamsAreOwn ==
  \A p \in Processes : \A c \in streams[p] \cup handles[p] :
    c \in Conns /\ conn[c].srv = p /\ conn[c].at # "new"

CountInv ==
  /\ served = [p \in Processes |-> served[p]] /\ streams = [p \in Processes |-> streams[p]]
  /\ lock \in Processes \cup {"none"}
  /\ CountIsExact /\ StreamsAreOwn

\* The initial state satisfies the invariant.
LEMMA CountInit == ASSUME Server!ServerAssumption PROVE Server!Init => CountInv
<1> SUFFICES ASSUME Server!Init PROVE CountInv
  OBVIOUS
<1>1. \A p \in Processes : Serving(p) = {}
  BY DEF Server!Init, Serving, Server!Alive, Server!NoConn, Server!Gone
<1>2. CountIsExact
  BY <1>1, FS_EmptySet DEF Server!Init, CountIsExact, Server!Gone, Server!ServerAssumption
<1> QED
  BY <1>2 DEF Server!Init, CountInv, StreamsAreOwn

\* A step that neither starts nor ends a counted thread.
LEMMA SameCount ==
  ASSUME CountIsExact,
         \A p \in Processes : /\ Serving(p)' = Serving(p) /\ served'[p] = served[p]
                              /\ acceptor'[p].at \in {"taken", "kept"} =>
                                   acceptor[p].at \in {"taken", "kept"} \/ served[p] < MaxConnections
  PROVE  CountIsExact'
BY DEF CountIsExact

\* A counted thread ends.
LEMMA OneLess ==
  ASSUME Server!ServerAssumption, CountIsExact, NEW p \in Processes, NEW c \in Serving(p),
         Serving(p)' = Serving(p) \ {c}, served'[p] = served[p] - 1,
         \A q \in Processes \ {p} : Serving(q)' = Serving(q) /\ served'[q] = served[q],
         \A q \in Processes : acceptor'[q].at \in {"taken", "kept"} =>
                                acceptor'[q] = acceptor[q]
  PROVE  CountIsExact'
<1>1. /\ IsFiniteSet(Serving(p)) /\ served[p] = Cardinality(Serving(p))
      /\ served[p] <= MaxConnections
  BY DEF CountIsExact
<1>2. served[p] \in Nat /\ MaxConnections \in Nat
  BY <1>1, FS_CardinalityType DEF Server!ServerAssumption
<1>3. IsFiniteSet(Serving(p)') /\ Cardinality(Serving(p)') = served[p] - 1
  <2>1. /\ IsFiniteSet(Serving(p) \ {c})
        /\ Cardinality(Serving(p) \ {c}) = Cardinality(Serving(p)) - 1
    BY <1>1, FS_RemoveElement
  <2> QED
    BY <1>1, <2>1
<1>4. ASSUME NEW q \in Processes
      PROVE  /\ IsFiniteSet(Serving(q)') /\ served'[q] = Cardinality(Serving(q)')
             /\ served'[q] <= MaxConnections
             /\ acceptor'[q].at \in {"taken", "kept"} => served'[q] < MaxConnections
  <2>1. CASE q = p
    <3>1. served'[p] < MaxConnections
      BY <1>1, <1>2
    <3>2. served'[p] <= MaxConnections
      BY <1>1, <1>2
    <3>3. IsFiniteSet(Serving(p)') /\ served'[p] = Cardinality(Serving(p)')
      BY <1>3
    <3> QED
      BY <2>1, <3>1, <3>2, <3>3
  <2>2. CASE q # p
    <3>1. Serving(q)' = Serving(q) /\ served'[q] = served[q]
      BY <2>2
    <3> QED
      BY <3>1 DEF CountIsExact
  <2> QED
    BY <2>1, <2>2
<1> QED
  BY <1>4 DEF CountIsExact

\* Every step keeps the invariant.
LEMMA CountStep ==
  ASSUME Server!ServerAssumption PROVE ThreadInv /\ CountInv /\ [Server!Next]_(Server!vars) => CountInv'
<1> SUFFICES ASSUME ThreadInv, CountInv, [Server!Next]_(Server!vars) PROVE CountInv'
  OBVIOUS
<1> USE DEF Server!Step, Server!shared, Server!Gone, Server!Waiting
<1>1. ASSUME NEW p \in Processes,
             \/ Server!Lock(p) \/ Server!ClearFile(p) \/ Server!Publish(p) \/ Server!StartAccept(p) \/ Server!StartFails(p)
             \/ Server!Shutdown(p) \/ Server!JoinAccept(p) \/ Server!ReadFile(p) \/ Server!RemoveFile(p) \/ Server!Unlock(p)
      PROVE  CountInv'
  <2>1. /\ UNCHANGED <<served, streams, handles, conn>> /\ lock' \in Processes \cup {"none"}
        /\ \A q \in Processes : acceptor'[q] = acceptor[q]
                                \/ (acceptor[q] = Server!Gone /\ acceptor'[q] = Server!Waiting)
    BY <1>1
    DEF Server!Lock, Server!ClearFile, Server!Publish, Server!StartAccept, Server!StartFails,
    Server!Shutdown, Server!JoinAccept, Server!ReadFile,
        Server!RemoveFile, Server!Unlock, Server!threads, Server!HoldLock, Server!FreeLock,
        CountInv, ThreadInv, Shapes, AcceptorGone
  <2>2. \A q \in Processes : Serving(q)' = Serving(q)
    BY <2>1 DEF Serving, Server!Alive
  <2>3. \A q \in Processes : acceptor'[q].at \in {"taken", "kept"} => acceptor'[q] = acceptor[q]
    BY <2>1
  <2>4. CountIsExact'
    BY <2>1, <2>2, <2>3, SameCount DEF CountInv
  <2> QED
    BY <2>1, <2>4 DEF CountInv, StreamsAreOwn
<1>2. ASSUME NEW p \in Processes, Server!Crash(p) PROVE CountInv'
  <2>1. /\ \A d \in Conns : /\ conn'[d].srv = conn[d].srv
                            /\ (conn[d].srv = p => conn'[d].at = "over")
                            /\ (conn[d].srv # p => conn'[d].at = conn[d].at)
        /\ \A q \in Processes \ {p} : acceptor'[q] = acceptor[q] /\ served'[q] = served[q]
        /\ acceptor'[p].at = "gone" /\ served'[p] = 0
    BY <1>2 DEF Server!Crash, Server!Of, CountInv, ThreadInv, Shapes, Conn
  <2>2. Serving(p)' = {} /\ \A q \in Processes \ {p} : Serving(q)' = Serving(q)
    <3>1. Serving(p)' = {}
      <4>1. ASSUME NEW d \in Conns, conn'[d].srv = p
            PROVE  ~Server!Alive(d)' /\ acceptor'[p] # [at |-> "counted", c |-> d]
        BY <2>1, <4>1 DEF Server!Alive
      <4> QED
        BY <4>1 DEF Serving
    <3>2. ASSUME NEW q \in Processes \ {p} PROVE Serving(q)' = Serving(q)
      <4>1. q # p /\ q \in Processes /\ acceptor'[q] = acceptor[q]
        BY <2>1
      <4>2. ASSUME NEW d \in Conns, conn[d].srv = q PROVE Server!Alive(d)' <=> Server!Alive(d)
        BY <2>1, <4>1, <4>2 DEF Server!Alive
      <4> QED
        BY <2>1, <4>1, <4>2 DEF Serving
    <3> QED
      BY <3>1, <3>2
  <2>3. IsFiniteSet(Serving(p)') /\ Cardinality(Serving(p)') = 0
    BY <2>2, FS_EmptySet
  <2>4. ASSUME NEW q \in Processes
        PROVE  /\ IsFiniteSet(Serving(q)') /\ served'[q] = Cardinality(Serving(q)')
               /\ served'[q] <= MaxConnections
               /\ acceptor'[q].at \in {"taken", "kept"} => served'[q] < MaxConnections
    <3>1. CASE q = p
      BY <2>1, <2>3, <3>1 DEF Server!ServerAssumption
    <3>2. CASE q # p
      BY <2>1, <2>2, <3>2 DEF CountInv, CountIsExact
    <3> QED
      BY <3>1, <3>2
  <2>5. CountIsExact'
    BY <2>4 DEF CountIsExact
  <2>6. StreamsAreOwn'
    BY <1>2, <2>1 DEF Server!Crash, CountInv, StreamsAreOwn, ThreadInv, Shapes
  <2> QED
    BY <1>2, <2>5, <2>6 DEF Server!Crash, CountInv
<1>3. ASSUME NEW p \in Processes, Server!CloseStreams(p) \/ Server!JoinWorkers(p) PROVE CountInv'
  <2>1. /\ UNCHANGED <<lock, served, streams, acceptor>>
        /\ \A d \in Conns : conn'[d].srv = conn[d].srv /\ conn'[d].at = conn[d].at
        /\ \A q \in Processes : handles'[q] \subseteq handles[q]
    BY <1>3 DEF Server!CloseStreams, Server!JoinWorkers, ThreadInv, Shapes, Conn
  <2>2. \A q \in Processes : Serving(q)' = Serving(q)
    BY <2>1 DEF Serving, Server!Alive
  <2>3. CountIsExact'
    BY <2>1, <2>2, SameCount DEF CountInv
  <2> QED
    BY <2>1, <2>3 DEF CountInv, StreamsAreOwn
<1>4. ASSUME NEW p \in Processes, Server!LoopTop(p) \/ Server!AcceptFails(p) \/ Server!NothingQueued(p)
      PROVE  CountInv'
  <2>1. /\ UNCHANGED <<lock, served, streams>>
        /\ \A d \in Conns : /\ conn'[d].srv = conn[d].srv
                            /\ \/ conn'[d].at = conn[d].at
                               \/ (conn[d].at = "queued" /\ conn'[d].at = "over")
        /\ \A q \in Processes : handles'[q] \subseteq handles[q]
        /\ \A q \in Processes :
             \/ acceptor'[q] = acceptor[q]
             \/ /\ acceptor[q].at \in {"loop", "accept"}
                /\ acceptor'[q].at \in {"loop", "accept", "gone"}
    BY <1>4 DEF Server!LoopTop, Server!AcceptFails, Server!NothingQueued, Server!Drained,
       Server!SetAcceptor,
       ThreadInv, Shapes, Conn
  <2>2. \A q \in Processes : Serving(q)' = Serving(q)
    BY <2>1 DEF Serving, Server!Alive
  <2>3. CountIsExact'
    BY <2>1, <2>2, SameCount DEF CountInv
  <2> QED
    BY <2>1, <2>3 DEF CountInv, StreamsAreOwn
<1>5. ASSUME NEW p \in Processes, NEW c \in Conns, Server!Accept(p, c) PROVE CountInv'
  <2>1. /\ UNCHANGED <<lock, served, streams, handles>>
        /\ \A d \in Conns : /\ conn'[d].srv = conn[d].srv
                            /\ \/ conn'[d].at = conn[d].at
                               \/ (conn[d].at = "queued" /\ conn'[d].at \in {"over", "accepted"})
        /\ \A q \in Processes \ {p} : acceptor'[q] = acceptor[q]
        /\ acceptor[p].at = "accept" /\ acceptor'[p].at \in {"loop", "taken"}
        /\ acceptor'[p].at = "taken" => ~(served[p] >= MaxConnections)
    BY <1>5 DEF Server!Accept, Server!SetAcceptor, ThreadInv, Shapes, Conn
  <2>2. \A q \in Processes : Serving(q)' = Serving(q)
    BY <2>1 DEF Serving, Server!Alive
  <2>3. served[p] \in Nat /\ MaxConnections \in Nat
    BY FS_CardinalityType DEF CountInv, CountIsExact, Server!ServerAssumption
  <2>4. acceptor'[p].at = "taken" => served[p] < MaxConnections
    BY <2>1, <2>3
  <2>5. CountIsExact'
    BY <2>1, <2>2, <2>4, SameCount DEF CountInv
  <2> QED
    BY <2>1, <2>5 DEF CountInv, StreamsAreOwn
<1>6. ASSUME NEW p \in Processes, Server!Register(p) \/ Server!KeepHandle(p) PROVE CountInv'
  <2>1. /\ acceptor[p].at \in {"taken", "spawned"} /\ acceptor[p].c \in Conns
        /\ conn[acceptor[p].c].srv = p /\ conn[acceptor[p].c].at # "new"
        /\ acceptor'[p].at \in {"kept", "loop"}
        /\ acceptor'[p].at = "kept" => acceptor[p].at = "taken"
        /\ \A q \in Processes \ {p} : acceptor'[q] = acceptor[q]
    BY <1>6 DEF Server!Register, Server!KeepHandle, Server!SetAcceptor, ThreadInv, Shapes,
       AcceptorHolds
  <2>2. /\ UNCHANGED <<lock, served, conn>> /\ streams' = [q \in Processes |-> streams'[q]]
        /\ \A q \in Processes \ {p} : streams'[q] = streams[q] /\ handles'[q] = handles[q]
        /\ streams'[p] \subseteq streams[p] \cup {acceptor[p].c}
        /\ handles'[p] \subseteq handles[p] \cup {acceptor[p].c}
    BY <1>6 DEF Server!Register, Server!KeepStream, Server!KeepHandle, CountInv, ThreadInv, Shapes
  <2>3. \A q \in Processes : Serving(q)' = Serving(q)
    BY <2>1, <2>2 DEF Serving, Server!Alive
  <2>4. CountIsExact'
    BY <2>1, <2>2, <2>3, SameCount DEF CountInv
  <2>5. StreamsAreOwn'
    BY <2>1, <2>2 DEF CountInv, StreamsAreOwn
  <2> QED
    BY <2>2, <2>4, <2>5 DEF CountInv
<1>7. ASSUME NEW p \in Processes, Server!Count(p) PROVE CountInv'
  <2> DEFINE c == acceptor[p].c
  <2>1. /\ acceptor[p] = [at |-> "kept", c |-> c] /\ acceptor'[p] = [at |-> "counted", c |-> c]
        /\ c \in Conns /\ conn[c].srv = p /\ conn[c].at = "accepted"
        /\ \A q \in Processes \ {p} : acceptor'[q] = acceptor[q] /\ served'[q] = served[q]
        /\ served'[p] = served[p] + 1 /\ UNCHANGED <<lock, streams, handles, conn>>
    BY <1>7 DEF Server!Count, Server!CountOne, Server!SetAcceptor, CountInv, ThreadInv, Shapes,
       AcceptorHolds
  <2>2. Serving(p)' = Serving(p) \cup {c} /\ c \notin Serving(p)
    BY <2>1 DEF Serving, Server!Alive
  <2>3. \A q \in Processes \ {p} : Serving(q)' = Serving(q)
    BY <2>1 DEF Serving, Server!Alive
  <2>4. IsFiniteSet(Serving(p)) /\ served[p] = Cardinality(Serving(p)) /\ served[p] < MaxConnections
    BY <2>1 DEF CountInv, CountIsExact
  <2>5. served[p] \in Nat /\ MaxConnections \in Nat
    BY <2>4, FS_CardinalityType DEF Server!ServerAssumption
  <2>6. IsFiniteSet(Serving(p)') /\ Cardinality(Serving(p)') = served[p] + 1
    BY <2>2, <2>4, FS_AddElement
  <2>7. ASSUME NEW q \in Processes
        PROVE  /\ IsFiniteSet(Serving(q)') /\ served'[q] = Cardinality(Serving(q)')
               /\ served'[q] <= MaxConnections
               /\ acceptor'[q].at \in {"taken", "kept"} => served'[q] < MaxConnections
    <3>1. CASE q = p
      BY <2>1, <2>4, <2>5, <2>6, <3>1
    <3>2. CASE q # p
      BY <2>1, <2>3, <3>2 DEF CountInv, CountIsExact
    <3> QED
      BY <3>1, <3>2
  <2>8. CountIsExact'
    BY <2>7 DEF CountIsExact
  <2> QED
    BY <1>7, <2>1, <2>8 DEF Server!Count, Server!CountOne, CountInv, StreamsAreOwn
<1>8. ASSUME NEW p \in Processes, Server!Spawn(p) PROVE CountInv'
  <2> DEFINE c == acceptor[p].c
  <2>1. /\ acceptor[p] = [at |-> "counted", c |-> c] /\ acceptor'[p].at = "spawned"
        /\ c \in Conns /\ conn[c].srv = p
        /\ \A d \in Conns : conn'[d].srv = conn[d].srv
        /\ \A d \in Conns \ {c} : conn'[d].at = conn[d].at
        /\ conn'[c].at = "check"
        /\ \A q \in Processes \ {p} : acceptor'[q] = acceptor[q]
        /\ UNCHANGED <<lock, served, streams, handles>>
    BY <1>8 DEF Server!Spawn, Server!SetAcceptor, ThreadInv, Shapes, Conn, AcceptorHolds
  <2>2. \A q \in Processes : Serving(q)' = Serving(q)
    BY <2>1 DEF Serving, Server!Alive
  <2>3. CountIsExact'
    BY <2>1, <2>2, SameCount DEF CountInv
  <2> QED
    BY <2>1, <2>3 DEF CountInv, StreamsAreOwn
<1>9. ASSUME NEW p \in Processes, Server!SpawnFails(p) PROVE CountInv'
  <2> DEFINE c == acceptor[p].c
  <2>1. /\ acceptor[p] = [at |-> "counted", c |-> c] /\ acceptor'[p].at = "loop"
        /\ c \in Conns /\ conn[c].srv = p
        /\ \A d \in Conns : conn'[d].srv = conn[d].srv
        /\ \A d \in Conns \ {c} : conn'[d].at = conn[d].at
        /\ conn'[c].at = "over"
    BY <1>9 DEF Server!SpawnFails, Server!SetAcceptor, ThreadInv, Shapes, Conn, AcceptorHolds
  <2>2. /\ \A q \in Processes \ {p} : acceptor'[q] = acceptor[q] /\ served'[q] = served[q]
        /\ served'[p] = served[p] - 1 /\ UNCHANGED <<lock, handles>>
        /\ \A q \in Processes : streams'[q] \subseteq streams[q]
    BY <1>9 DEF Server!SpawnFails, Server!SetAcceptor, CountInv, ThreadInv, Shapes
  <2>3. c \in Serving(p) /\ Serving(p)' = Serving(p) \ {c}
    BY <2>1 DEF Serving, Server!Alive
  <2>4. \A q \in Processes \ {p} : Serving(q)' = Serving(q)
    BY <2>1, <2>2 DEF Serving, Server!Alive
  <2>5. CountIsExact'
    BY <2>1, <2>2, <2>3, <2>4, OneLess DEF CountInv
  <2>6. StreamsAreOwn'
    BY <2>1, <2>2 DEF CountInv, StreamsAreOwn
  <2> QED
    BY <1>9, <2>2, <2>5, <2>6 DEF Server!SpawnFails, CountInv
<1>10. ASSUME NEW c \in Conns, Server!Connect(c) PROVE CountInv'
  <2>1. /\ UNCHANGED <<lock, acceptor, served, streams, handles>>
        /\ conn[c].at = "new" /\ conn'[c].at = "queued"
        /\ \A d \in Conns \ {c} : conn'[d] = conn[d]
    BY <1>10 DEF Server!Connect, ThreadInv, Shapes, Conn
  <2>2. \A q \in Processes : acceptor[q] # [at |-> "counted", c |-> c]
    BY <2>1 DEF ThreadInv, AcceptorHolds
  <2>3. \A q \in Processes : Serving(q)' = Serving(q)
    BY <2>1, <2>2 DEF Serving, Server!Alive
  <2>4. CountIsExact'
    BY <2>1, <2>3, SameCount DEF CountInv
  <2> QED
    BY <2>1, <2>4 DEF CountInv, StreamsAreOwn
<1>11. ASSUME NEW c \in Conns, Server!Send(c) \/ Server!HangUp(c) PROVE CountInv'
  <2>1. /\ UNCHANGED <<lock, acceptor, served, streams, handles>>
        /\ \A d \in Conns : conn'[d].srv = conn[d].srv /\ conn'[d].at = conn[d].at
    BY <1>11 DEF Server!Send, Server!HangUp, ThreadInv, Shapes, Conn
  <2>2. \A q \in Processes : Serving(q)' = Serving(q)
    BY <2>1 DEF Serving, Server!Alive
  <2>3. CountIsExact'
    BY <2>1, <2>2, SameCount DEF CountInv
  <2> QED
    BY <2>1, <2>3 DEF CountInv, StreamsAreOwn
<1>12. ASSUME NEW c \in Conns, Server!Alive(c), Server!Return(c) PROVE CountInv'
  <2>1. PICK p \in Processes : p = conn[c].srv
    BY <1>12 DEF ThreadInv, ThreadIsKnown, Known
  <2>2. /\ \A d \in Conns : conn'[d].srv = conn[d].srv
        /\ \A d \in Conns \ {c} : conn'[d].at = conn[d].at
        /\ conn'[c].at = "over"
    BY <1>12 DEF Server!Return, ThreadInv, Shapes, Conn
  <2>3. /\ \A q \in Processes \ {p} : served'[q] = served[q]
        /\ served'[p] = served[p] - 1 /\ UNCHANGED <<lock, handles, acceptor>>
        /\ \A q \in Processes : streams'[q] \subseteq streams[q]
        /\ served' = [q \in Processes |-> served'[q]] /\ streams' = [q \in Processes |-> streams'[q]]
    BY <1>12, <2>1 DEF Server!Return, CountInv
  <2>4. \A q \in Processes : acceptor[q] # [at |-> "counted", c |-> c]
    BY <1>12 DEF ThreadInv, AcceptorHolds, Server!Alive
  <2>5. c \in Serving(p) /\ Serving(p)' = Serving(p) \ {c}
    BY <1>12, <2>1, <2>2, <2>3, <2>4 DEF Serving, Server!Alive
  <2>6. \A q \in Processes \ {p} : Serving(q)' = Serving(q)
    BY <2>1, <2>2, <2>3 DEF Serving, Server!Alive
  <2>7. CountIsExact'
    BY <2>1, <2>3, <2>5, <2>6, OneLess DEF CountInv
  <2>8. StreamsAreOwn'
    BY <2>2, <2>3 DEF CountInv, StreamsAreOwn
  <2> QED
    BY <2>3, <2>7, <2>8 DEF CountInv
<1>13. ASSUME NEW c \in Conns, NEW at \in {"read", "checkAgain", "run", "write"}, Server!Alive(c), Server!Goto(c, at)
       PROVE  CountInv'
  <2>1. /\ UNCHANGED <<lock, acceptor, served, streams, handles>>
        /\ \A d \in Conns : conn'[d].srv = conn[d].srv
        /\ \A d \in Conns \ {c} : conn'[d].at = conn[d].at
        /\ conn'[c].at = at
    BY <1>13 DEF Server!Goto, ThreadInv, Shapes, Conn
  <2>2. \A q \in Processes : Serving(q)' = Serving(q)
    BY <1>13, <2>1 DEF Serving, Server!Alive
  <2>3. CountIsExact'
    BY <2>1, <2>2, SameCount DEF CountInv
  <2> QED
    BY <2>1, <2>3 DEF CountInv, StreamsAreOwn
<1>14. ASSUME NEW c \in Conns, Server!ConnStep(c) \/ Server!TimesOut(c) \/ Server!Written(c)
       PROVE  CountInv'
  <2>1. Server!Alive(c) /\ (Server!Return(c) \/ \E at \in {"read", "checkAgain", "run", "write"} : Server!Goto(c, at))
    BY <1>14 DEF Server!ConnStep, Server!TimesOut, Server!Written, Server!Check, Server!Read,
       Server!SocketClosed, Server!CheckAgain, Server!Ran, Server!Alive
  <2> QED
    BY <1>12, <1>13, <2>1
<1>15. CASE UNCHANGED Server!vars
  BY <1>15 DEF Server!vars, CountInv, CountIsExact, StreamsAreOwn, Serving, Server!Alive
<1> QED
  BY <1>1, <1>2, <1>3, <1>4, <1>5, <1>6, <1>7, <1>8, <1>9, <1>10, <1>11, <1>14, <1>15
  DEF Server!Next, Server!AcceptStep, Server!ShutdownStep

\* The types that follow from the three invariants.
LEMMA ServerTypes ==
  ASSUME Server!ServerAssumption, FileInv, ThreadInv, CountInv
  PROVE  Server!TypeOK
<1>1. \A p \in Processes : served[p] \in Nat /\ MaxConnections \in Nat /\ served[p] <= MaxConnections
  BY FS_CardinalityType DEF CountInv, CountIsExact, Server!ServerAssumption
<1>2. \A p \in Processes : served[p] \in 0 .. MaxConnections
  BY <1>1
<1>3. \A p \in Processes : streams[p] \cup handles[p] \subseteq Server!Of(p)
  BY DEF CountInv, StreamsAreOwn, Server!Of
<1>4. \A c \in Conns : Server!Alive(c) => conn[c].srv # "none"
  BY DEF ThreadInv, ThreadIsKnown, Known, Server!ServerAssumption
<1> QED
  BY <1>2, <1>3, <1>4 DEF Server!TypeOK, CountInv, ThreadInv, Shapes

\* The count never leaves its limits, and what shutdown closes and joins are
\* connections of its own process, for any number of starts and connections.
THEOREM ServerTyped == ASSUME Server!ServerAssumption PROVE Server!Spec => []Server!TypeOK
BY ServerTypes, FileInit, FileStep, ThreadInit, ThreadStep, CountInit, CountStep, PTL DEF
   Server!Spec

\* What the exact count says of the threads that serve.
LEMMA LimitIsKept == ASSUME Server!ServerAssumption PROVE CountInv => Server!ServingWithinLimit
<1>1. ASSUME CountInv, NEW p \in Processes
      PROVE  Server!Cardinality({c \in Server!Of(p) : Server!Alive(c)}) <= MaxConnections
  <2> DEFINE running == {c \in Server!Of(p) : Server!Alive(c)}
  <2>1. IsFiniteSet(Serving(p)) /\ Cardinality(Serving(p)) <= MaxConnections
    BY <1>1 DEF CountInv, CountIsExact
  <2>2. running \in SUBSET Serving(p)
    BY DEF Serving, Server!Of
  <2>3. IsFiniteSet(running) /\ Cardinality(running) <= Cardinality(Serving(p))
    BY <2>1, <2>2, FS_Subset
  <2>4. Cardinality(running) \in Nat /\ Cardinality(Serving(p)) \in Nat /\ MaxConnections \in Nat
    BY <2>1, <2>3, FS_CardinalityType DEF Server!ServerAssumption
  <2>5. Server!Cardinality(running) = Cardinality(running)
    BY Zenon DEF Server!Cardinality, Cardinality
  <2> QED
    BY <2>1, <2>3, <2>4, <2>5
<1> QED
  BY <1>1 DEF Server!ServingWithinLimit

\* The limit on connections holds for the threads that serve, for any limit and
\* any number of connections, although the accept thread counts a connection
\* up and the thread of that connection counts it down (accept_loop,
\* ActiveConnectionGuard).
THEOREM LimitSafety ==
  ASSUME Server!ServerAssumption
  PROVE  Server!Spec => []Server!ServingWithinLimit
BY LimitIsKept, ThreadInit, ThreadStep, CountInit, CountStep, PTL DEF Server!Spec

-----------------------------------------------------------------------------
(* The file workspace of the clients (ExternalFiles), for any folders,       *)
(* entries, pages and calls, and any number of changes of permission.        *)

CONSTANTS Calls, Roots, NItems, Dirs, Inside, PageSize, MaxChanges
VARIABLES grant, cleanup, scopeEpoch, cleanupEpoch, binding, operation, workspace, filesSlot, call, task,
          confirm, ids, claims, dismissed

Files == INSTANCE ExternalFiles WITH slot <- filesSlot

\* A permission that was read: it is of epochs there have been, and when these
\* are those in force so are the folder and the approval.
Past(b) ==
  /\ b \in Files!Bindings /\ b.scope <= scopeEpoch /\ b.review <= cleanupEpoch
  /\ b.scope = scopeEpoch => b.root = grant
  /\ b.review = cleanupEpoch => b.allowed = cleanup
InForce(b) == b.scope = scopeEpoch /\ b.review = cleanupEpoch

PermsInv ==
  /\ grant \in Roots \cup {Files!NoRoot} /\ cleanup \in BOOLEAN
  /\ scopeEpoch \in Nat /\ cleanupEpoch \in Nat /\ scopeEpoch + cleanupEpoch <= MaxChanges

\* Requests of clients, without the bound on their revisions.
Reqs ==
  [kind : {"status", "scan", "named"}] \cup [kind : {"browse"}, rev : Nat, item : Files!Items]
  \cup [kind : {"parent"}, rev : Nat] \cup [kind : {"page"}, rev : Nat, offset : {0, PageSize}]
  \cup [kind : {"select"}, rev : Nat, with : SUBSET Files!Items, without : SUBSET Files!Items]
  \cup [kind : {"review"}, rev : Nat, items : SUBSET Files!Items]

\* A call knows what was asked and under which permission.
CallStages == {"bind", "bound", "reserve", "reserved", "light", "apply", "applied", "clear", "cleared"}
CallRec == [at : CallStages, req : Reqs, bind : Files!Bindings]
GoodCall(r) ==
  \/ r.at \in {"idle", "done", "view"}
  \/ r \in CallRec /\ Past(r.bind) /\ (r.at \in {"light", "apply"} => r.req.kind \in {"page", "select"})
                   /\ (r.at \in {"reserve", "reserved"} => Files!Heavy(r.req.kind))
CallInv == DOMAIN call = Calls /\ \A c \in Calls : GoodCall(call[c])

\* A task has the records of its stages one after the other.
TaskStages == {"start", "scan", "store", "name", "prepare", "verify", "plan", "judge", "record", "finish"}
Plain == [at : TaskStages, req : Reqs, bind : Files!Bindings, stop : BOOLEAN, failed : BOOLEAN]
Below == [at : TaskStages, req : Reqs, bind : Files!Bindings, stop : BOOLEAN, failed : BOOLEAN, below : BOOLEAN]
Revised == [at : TaskStages, req : Reqs, bind : Files!Bindings, stop : BOOLEAN, failed : BOOLEAN, rev : Nat]
Listed == [at : TaskStages, req : Reqs, bind : Files!Bindings, stop : BOOLEAN, failed : BOOLEAN, rev : Nat,
           items : SUBSET Files!Items]
TaskRec == Plain \cup Below \cup Revised \cup Listed
GoodTask(r) ==
  r = Files!Idle \/
    /\ r \in TaskRec /\ Past(r.bind) /\ Files!Heavy(r.req.kind)
    /\ r.at \in {"scan", "store"} => r \in Below
    /\ r.at \in {"verify", "plan"} => r \in Listed /\ ~r.failed
    /\ r.at \in {"name", "prepare", "verify", "plan"} => Files!NeedsReview(r.req.kind)
TaskInv == GoodTask(task)

ConfirmRec == [at : {"check", "claim", "move", "outcome"}, bind : Files!Bindings, rev : Nat, plan : Nat]
ConfirmInv == confirm = Files!Idle \/ (confirm \in ConfirmRec /\ Past(confirm.bind) /\ confirm.plan <= ids)

\* Who holds the slot of the scanner.
SlotInv ==
  /\ filesSlot \in {Files!Free, "task", "confirm"} \cup Calls
  /\ task # Files!Idle => filesSlot = "task"
  /\ confirm.at \in {"claim", "move", "outcome"} => filesSlot = "confirm"
  /\ \A c \in Calls :
       /\ call[c].at = "apply" => filesSlot = c
       /\ call[c].at = "reserved" =>
            filesSlot = "task" /\ task = Files!Idle /\ \A d \in Calls : call[d].at = "reserved" => d = c

Claimed == {claims[i].plan : i \in DOMAIN claims}
Ended == Claimed \cup dismissed
ClaimsInv ==
  /\ ids \in Nat /\ dismissed \subseteq 1 .. ids
  /\ claims \in Seq([plan : 1 .. ids, by : Files!Bindings, now : Files!Bindings])
  /\ Files!PlanEndsOnce /\ \A i \in DOMAIN claims : Files!SameReview(claims[i].by, claims[i].now)

\* A plan is of what is selected, and it has neither been moved nor dismissed.
HasPlan == workspace # Files!None /\ workspace.plan # Files!NoPlan
ListInv ==
  /\ workspace = Files!None \/ workspace \in Files!Lists
  /\ HasPlan => /\ workspace.plan.items = workspace.sel /\ Past(workspace.plan.by)
                /\ workspace.plan.id \in (1 .. ids) \ Ended

\* A plan that was stored is not looked at before its task has compared the
\* permission again; from then on, whoever is bound to the permission in force
\* sees only a plan made under it, and so does a confirmation that names it.
Judging == task.at = "judge" /\ ~task.failed
VouchInv ==
  /\ HasPlan /\ ~Judging =>
       /\ binding # Files!None /\ InForce(binding) => InForce(workspace.plan.by)
       /\ confirm.at \in {"check", "claim"} /\ InForce(confirm.bind) /\ confirm.plan = workspace.plan.id
            => InForce(workspace.plan.by)
  /\ HasPlan /\ Judging => workspace.plan.by = task.bind /\ Files!NeedsReview(task.req.kind)
  /\ task.at \in {"scan", "store", "name", "prepare", "verify", "plan"} => ~HasPlan

CoreInv ==
  /\ binding = Files!None \/ Past(binding)
  /\ operation \in Files!Busy \cup {"none", "completed", "cancelled", "failed"}
  /\ PermsInv /\ TaskInv /\ ConfirmInv /\ ClaimsInv /\ ListInv /\ VouchInv
FilesInv == CoreInv /\ CallInv /\ SlotInv

-----------------------------------------------------------------------------
(* Records.                                                                  *)

LEMMA Nones ==
  Files!None.kind = "none" /\ Files!Idle.at = "idle" /\ Files!None \notin Files!Lists /\ Files!NoPlan.id = 0 /\ Files!None # Files!Idle
BY DEF Files!None, Files!Idle, Files!Lists, Files!NoPlan

\* What was read of the permissions now is past.
LEMMA NowIsPast ==
  ASSUME Files!ItemsAssumption, PermsInv, grant # Files!NoRoot
  PROVE  Past(Files!Binding)
BY DEF Files!ItemsAssumption, PermsInv, Past, Files!Binding, Files!Bindings, Files!Epochs

LEMMA PastHas ==
  ASSUME NEW b, Past(b)
  PROVE  /\ b \in Files!Bindings /\ b.root \in Roots /\ b.scope \in Nat /\ b.review \in Nat /\ b.allowed \in BOOLEAN
         /\ b # Files!None
BY DEF Past, Files!Bindings, Files!Epochs, Files!None

\* A permission that is in force, of a folder that is still granted.
LEMMA CurrentIsInForce ==
  ASSUME NEW b, Past(b), NEW review \in BOOLEAN, Files!BindingCurrent(b, review)
  PROVE  b.scope = scopeEpoch /\ (review => InForce(b) /\ b.root = grant /\ cleanup)
BY DEF Files!BindingCurrent, Files!SameReview, Files!SameScope, Files!Binding, InForce

LEMMA RequestHas ==
  ASSUME Files!ItemsAssumption, ids \in Nat, NEW r \in Files!Requests PROVE r \in Reqs
BY DEF Files!Requests, Reqs

LEMMA ReqHas ==
  ASSUME NEW r \in Reqs
  PROVE  /\ r.kind \in {"status", "scan", "named", "browse", "parent", "page", "select", "review"}
         /\ r.kind = "page" => r.offset \in {0, PageSize}
         /\ r.kind = "select" => r.with \subseteq Files!Items /\ r.without \subseteq Files!Items
         /\ r.kind = "review" => r.items \subseteq Files!Items /\ r.rev \in Nat
BY DEF Reqs

\* A call goes on.
LEMMA CallGoes ==
  ASSUME NEW r, r \in CallRec, NEW a \in CallStages
  PROVE  /\ [r EXCEPT !.at = a] \in CallRec /\ [r EXCEPT !.at = a].at = a
         /\ [r EXCEPT !.at = a].req = r.req /\ [r EXCEPT !.at = a].bind = r.bind
BY DEF CallRec

\* A task goes on, fails, or is stopped.
LEMMA TaskGoesOn ==
  ASSUME NEW r, r \in TaskRec, NEW a \in TaskStages, NEW q, q = [r EXCEPT !.at = a]
  PROVE  /\ q \in TaskRec /\ q.at = a /\ q.req = r.req /\ q.bind = r.bind /\ q.failed = r.failed
         /\ r \in Below => q \in Below
         /\ r \in Listed => q \in Listed /\ q.items = r.items
<1>1. CASE r \in Plain
  BY <1>1 DEF TaskRec, Plain, Below, Revised, Listed
<1>2. CASE r \in Below
  BY <1>2 DEF TaskRec, Plain, Below, Revised, Listed
<1>3. CASE r \in Revised
  BY <1>3 DEF TaskRec, Plain, Below, Revised, Listed
<1>4. CASE r \in Listed
  BY <1>4 DEF TaskRec, Plain, Below, Revised, Listed
<1> QED
  BY <1>1, <1>2, <1>3, <1>4 DEF TaskRec

LEMMA TaskFailsOn ==
  ASSUME NEW r, r \in TaskRec, NEW q, q = [r EXCEPT !.at = "judge", !.failed = TRUE]
  PROVE  q \in TaskRec /\ q.at = "judge" /\ q.req = r.req /\ q.bind = r.bind /\ q.failed
<1>1. CASE r \in Plain
  BY <1>1 DEF TaskRec, TaskStages, Plain, Below, Revised, Listed
<1>2. CASE r \in Below
  BY <1>2 DEF TaskRec, TaskStages, Plain, Below, Revised, Listed
<1>3. CASE r \in Revised
  BY <1>3 DEF TaskRec, TaskStages, Plain, Below, Revised, Listed
<1>4. CASE r \in Listed
  BY <1>4 DEF TaskRec, TaskStages, Plain, Below, Revised, Listed
<1> QED
  BY <1>1, <1>2, <1>3, <1>4 DEF TaskRec

LEMMA TaskStops ==
  ASSUME NEW r, r \in TaskRec, NEW q, q = [r EXCEPT !.stop = TRUE]
  PROVE  /\ q \in TaskRec /\ q.at = r.at /\ q.req = r.req /\ q.bind = r.bind /\ q.failed = r.failed
         /\ r \in Below => q \in Below
         /\ r \in Listed => q \in Listed
<1>1. CASE r \in Plain
  BY <1>1 DEF TaskRec, Plain, Below, Revised, Listed
<1>2. CASE r \in Below
  BY <1>2 DEF TaskRec, Plain, Below, Revised, Listed
<1>3. CASE r \in Revised
  BY <1>3 DEF TaskRec, Plain, Below, Revised, Listed
<1>4. CASE r \in Listed
  BY <1>4 DEF TaskRec, Plain, Below, Revised, Listed
<1> QED
  BY <1>1, <1>2, <1>3, <1>4 DEF TaskRec

LEMMA TaskHas ==
  ASSUME NEW r, r \in TaskRec
  PROVE  /\ r.at \in TaskStages /\ r.req \in Reqs /\ r.bind \in Files!Bindings /\ r.stop \in BOOLEAN
         /\ r.failed \in BOOLEAN /\ r # Files!Idle
BY DEF TaskRec, Plain, Below, Revised, Listed, Files!Idle, TaskStages

\* Lists stay lists when more identifiers are handed out.
LEMMA ListsGrow ==
  ASSUME ids \in Nat, ids' \in Nat, ids <= ids', NEW w, w \in Files!Lists PROVE w \in Files!Lists'
<1>1. 1 .. ids \subseteq 1 .. ids'
  OBVIOUS
<1>2. Files!Plans \subseteq Files!Plans'
  BY <1>1 DEF Files!Plans
<1> QED
  BY <1>1, <1>2 DEF Files!Lists

\* A new selection drops the plan.
LEMMA ChosenHas ==
  ASSUME workspace \in Files!Lists, NEW S \in SUBSET Files!Items
  PROVE  Files!Chosen(S) \in Files!Lists /\ Files!Chosen(S).plan = Files!NoPlan /\ Files!Chosen(S).sel = S /\ Files!Chosen(S).rev = workspace.rev
<1>1. Files!NoPlan \in Files!Plans
  BY DEF Files!Plans
<1> QED
  BY <1>1 DEF Files!Chosen, Files!Lists

LEMMA ListHas ==
  ASSUME Files!ItemsAssumption, NEW w, w \in Files!Lists
  PROVE  w # Files!None /\ w.plan \in Files!Plans /\ w.sel \subseteq Files!Items /\ w.n \in Nat /\ w.n <= NItems
         /\ w.offset \in 0 .. NItems /\ w.below \in BOOLEAN
BY Nones DEF Files!Lists, Files!ItemsAssumption

\* The beginning of the page of an entry.
LEMMA PageBegins ==
  ASSUME Files!ItemsAssumption, NEW i \in Files!Items
  PROVE  ((i - 1) \div PageSize) * PageSize \in 0 .. NItems
<1>1. PICK a \in Nat : a = i - 1 /\ a <= NItems
  BY DEF Files!Items, Files!ItemsAssumption
<1>2. PICK b \in Nat \ {0} : b = PageSize
  BY DEF Files!ItemsAssumption
<1>3. (a \div b) * b \in 0 .. a
  OBVIOUS
<1> QED
  BY <1>1, <1>2, <1>3 DEF Files!ItemsAssumption

\* Sequences over a set are sequences over a larger one.
LEMMA SeqsGrow == ASSUME NEW S, NEW T, S \subseteq T, NEW q \in Seq(S) PROVE q \in Seq(T)
<1>1. Len(q) \in Nat /\ q \in [1 .. Len(q) -> T]
  OBVIOUS
<1> QED
  BY <1>1

LEMMA SeqHas == ASSUME NEW S, NEW q \in Seq(S) PROVE \A i \in DOMAIN q : q[i] \in S
<1>1. Len(q) \in Nat /\ q \in [1 .. Len(q) -> S]
  OBVIOUS
<1> QED
  BY <1>1
-----------------------------------------------------------------------------
(* The calls of the clients.                                                 *)

\* A step that leaves the task, the confirmation and the permissions as they are
\* and keeps the plan or drops it; who is bound to the permission in force
\* afterwards was so before, when the plan is kept.
LEMMA CoreKeeps ==
  ASSUME CoreInv,
         UNCHANGED <<grant, cleanup, scopeEpoch, cleanupEpoch, task, confirm, ids, claims, dismissed>>,
         binding' = Files!None \/ Past(binding'),
         operation' \in Files!Busy \cup {"none", "completed", "cancelled", "failed"},
         workspace' = Files!None \/ workspace' \in Files!Lists,
         HasPlan' => /\ HasPlan /\ workspace'.plan = workspace.plan /\ workspace'.sel = workspace.sel
                     /\ (binding' # Files!None /\ InForce(binding') => binding # Files!None /\ InForce(binding))
  PROVE  CoreInv'
<1>1. PermsInv' /\ TaskInv' /\ ConfirmInv' /\ ClaimsInv'
  BY DEF CoreInv, PermsInv, TaskInv, GoodTask, Past, ConfirmInv, ClaimsInv, Files!PlanEndsOnce
<1>2. (binding = Files!None \/ Past(binding))'
  BY DEF Past
<1>3. ListInv'
  <2>1. Files!Lists' = Files!Lists
    BY DEF Files!Lists, Files!Plans
  <2> QED
    BY <2>1 DEF CoreInv, ListInv, Past, Ended, Claimed
<1>4. VouchInv'
  BY DEF CoreInv, VouchInv, Judging, InForce, HasPlan
<1> QED
  BY <1>1, <1>2, <1>3, <1>4 DEF CoreInv

\* A call goes on, and has the slot or not.
LEMMA CallGoesOn ==
  ASSUME FilesInv, NEW c \in Calls, NEW r, call' = [call EXCEPT ![c] = r], GoodCall(r),
         UNCHANGED <<grant, cleanup, scopeEpoch, cleanupEpoch, task, confirm>>,
         \/ UNCHANGED filesSlot /\ call[c].at # "apply" /\ r.at \notin {"apply", "reserved"}
         \/ filesSlot = Files!Free /\ filesSlot' = "task" /\ r.at = "reserved"
         \/ filesSlot = Files!Free /\ filesSlot' = c /\ r.at = "apply"
         \/ filesSlot' = Files!Free /\ call[c].at = "apply" /\ r.at \notin {"apply", "reserved"},
         Files!ItemsAssumption
  PROVE  CallInv' /\ SlotInv'
<1>1. \A d \in Calls : call'[d] = IF d = c THEN r ELSE call[d]
  BY DEF FilesInv, CallInv
<1>2. \A q : GoodCall(q) => GoodCall(q)'
  BY DEF GoodCall, Past
<1>3. CallInv'
  BY <1>1, <1>2 DEF FilesInv, CallInv
<1>4. "free" \notin Calls /\ "task" \notin Calls /\ "confirm" \notin Calls
  BY DEF Files!ItemsAssumption
<1>5. SlotInv'
  BY <1>1, <1>4, Nones DEF FilesInv, SlotInv, Files!Free, Files!Idle
<1> QED
  BY <1>3, <1>5

\* A binding is read, by a client that has one or not.
LEMMA ReadBindingStep ==
  ASSUME Files!ItemsAssumption, FilesInv, NEW c \in Calls, Files!ReadBinding(c)
  PROVE  FilesInv'
<1>1. /\ UNCHANGED <<grant, cleanup, scopeEpoch, cleanupEpoch, filesSlot, task, confirm, ids, claims, dismissed>>
      /\ call[c].at = "idle"
  BY DEF Files!ReadBinding, Files!perms
<1>2. CASE grant = Files!NoRoot /\ call' = [call EXCEPT ![c] = [at |-> "done"]] /\ Files!Invalidate
  <2>1. GoodCall([at |-> "done"])
    BY DEF GoodCall
  <2>2. CallInv' /\ SlotInv'
    BY <1>1, <1>2, <2>1, CallGoesOn
  <2>3. CoreInv'
    BY <1>1, <1>2, CoreKeeps DEF FilesInv, Files!Invalidate, HasPlan
  <2> QED
    BY <2>2, <2>3 DEF FilesInv
<1>3. ASSUME NEW r \in Files!Requests, grant # Files!NoRoot, UNCHANGED Files!files,
             call' = [call EXCEPT ![c] = [at |-> "bind", req |-> r, bind |-> Files!Binding]]
      PROVE  FilesInv'
  <2>1. PICK b : b = Files!Binding /\ Past(b) /\ b \in Files!Bindings
    BY <1>3, NowIsPast, PastHas DEF FilesInv, CoreInv
  <2>2. r \in Reqs
    BY RequestHas DEF FilesInv, CoreInv, ClaimsInv
  <2>3. PICK q \in CallRec : q = [at |-> "bind", req |-> r, bind |-> b] /\ q.bind = b /\ q.at = "bind"
    <3>1. [at |-> "bind", req |-> r, bind |-> b] \in CallRec
      BY <2>1, <2>2 DEF CallRec, CallStages
    <3> QED
      BY <3>1
  <2>4. GoodCall(q)
    BY <2>1, <2>3 DEF GoodCall
  <2>5. CallInv' /\ SlotInv'
    BY <1>1, <1>3, <2>1, <2>3, <2>4, CallGoesOn
  <2>6. CoreInv'
    BY <1>1, <1>3, CoreKeeps DEF FilesInv, CoreInv, Files!files, HasPlan, ListInv
  <2> QED
    BY <2>5, <2>6 DEF FilesInv
<1> QED
  BY <1>2, <1>3 DEF Files!ReadBinding

\* A call is bound: a list of another permission is dropped, or its plan.
LEMMA BindStep ==
  ASSUME Files!ItemsAssumption, FilesInv, NEW c \in Calls, Files!BindExternal(c)
  PROVE  FilesInv'
<1>1. /\ UNCHANGED <<grant, cleanup, scopeEpoch, cleanupEpoch, filesSlot, task, confirm, ids, claims, dismissed>>
      /\ call[c].at = "bind"
  BY DEF Files!BindExternal, Files!perms
<1>2. call[c] \in CallRec /\ Past(call[c].bind)
  BY <1>1 DEF FilesInv, CallInv, GoodCall
<1>3. PICK b : b = call[c].bind /\ Past(b) /\ b # Files!None
  BY <1>2, PastHas
<1>4. CallInv' /\ SlotInv'
  <2>1. CASE call' = [call EXCEPT ![c] = [at |-> "done"]]
    <3>1. GoodCall([at |-> "done"])
      BY DEF GoodCall
    <3> QED
      BY <1>1, <2>1, <3>1, CallGoesOn
  <2>2. CASE call' = [call EXCEPT ![c] = [@ EXCEPT !.at = "bound"]]
    <3>1. PICK q \in CallRec : q = [call[c] EXCEPT !.at = "bound"] /\ q.at = "bound" /\ q.bind = b
      BY <1>2, <1>3, CallGoes DEF CallStages
    <3>2. GoodCall(q) /\ call' = [call EXCEPT ![c] = q]
      BY <1>3, <2>2, <3>1 DEF GoodCall
    <3> QED
      BY <1>1, <3>1, <3>2, CallGoesOn
  <2> QED
    BY <2>1, <2>2 DEF Files!BindExternal
<1>5. CoreInv'
  <2>1. binding' = b /\ Past(binding')
    BY <1>3 DEF Files!BindExternal
  <2>2. CASE workspace' = Files!None /\ operation' = "none"
    BY <1>1, <2>1, <2>2, CoreKeeps DEF FilesInv, HasPlan
  <2>3. CASE /\ binding # Files!None /\ Files!SameScope(binding, b) /\ UNCHANGED operation
             /\ workspace' = IF binding.review # b.review /\ workspace # Files!None THEN Files!Chosen({}) ELSE workspace
    <3>1. CASE binding.review # b.review /\ workspace # Files!None
      <4>1. workspace \in Files!Lists
        BY <3>1 DEF FilesInv, CoreInv, ListInv
      <4>2. workspace' \in Files!Lists /\ workspace'.plan = Files!NoPlan
        BY <2>3, <3>1, <4>1, ChosenHas
      <4> QED
        BY <1>1, <2>1, <2>3, <4>2, CoreKeeps DEF FilesInv, CoreInv, HasPlan
    <3>2. CASE workspace' = workspace /\ (binding.review = b.review \/ workspace = Files!None)
      <4>1. HasPlan' => HasPlan /\ (InForce(b) => InForce(binding))
        BY <2>3, <3>2 DEF HasPlan, InForce, Files!SameScope
      <4> QED
        BY <1>1, <2>1, <2>3, <3>2, <4>1, CoreKeeps DEF FilesInv, CoreInv, ListInv
    <3> QED
      BY <2>3, <3>1, <3>2
  <2> QED
    BY <1>3, <2>2, <2>3 DEF Files!BindExternal
<1> QED
  BY <1>4, <1>5 DEF FilesInv

\* A call that looks at the workspace, or is answered.
LEMMA AnswerStep ==
  ASSUME Files!ItemsAssumption, FilesInv, NEW c \in Calls, Files!ReadView(c) \/ Files!Deliver(c) \/ Files!AnswerRunning(c)
  PROVE  FilesInv'
<1>1. /\ UNCHANGED <<grant, cleanup, scopeEpoch, cleanupEpoch, filesSlot, task, confirm, ids, claims, dismissed>>
      /\ call[c].at \in {"bound", "cleared", "view"}
  BY DEF Files!ReadView, Files!Deliver, Files!AnswerRunning, Files!perms
<1>2. CASE Files!ReadView(c)
  <2>1. PICK r : r = [at |-> "view", status |-> call[c].at = "bound", bind |-> call[c].bind, view |-> workspace]
    OBVIOUS
  <2>2. GoodCall(r) /\ r.at = "view"
    BY <2>1 DEF GoodCall
  <2>3. call' = [call EXCEPT ![c] = r]
    BY <1>2, <2>1 DEF Files!ReadView
  <2>4. CallInv' /\ SlotInv'
    BY <1>1, <2>2, <2>3, CallGoesOn
  <2>5. CoreInv'
    BY <1>1, <1>2, CoreKeeps DEF FilesInv, CoreInv, Files!files, HasPlan, ListInv, Files!ReadView
  <2> QED
    BY <2>4, <2>5 DEF FilesInv
<1>3. ASSUME call' = [call EXCEPT ![c] = [at |-> "done"]] PROVE CallInv' /\ SlotInv'
  <2>1. GoodCall([at |-> "done"])
    BY DEF GoodCall
  <2> QED
    BY <1>1, <1>3, <2>1, CallGoesOn
<1>4. CASE UNCHANGED Files!files /\ Files!Answer(c)
  <2>1. CoreInv'
    BY <1>1, <1>4, CoreKeeps DEF FilesInv, CoreInv, Files!files, HasPlan, ListInv
  <2> QED
    BY <1>3, <1>4, <2>1 DEF FilesInv, Files!Answer
<1>5. CASE Files!Invalidate /\ Files!Answer(c)
  <2>1. CoreInv'
    BY <1>1, <1>5, CoreKeeps DEF FilesInv, Files!Invalidate, HasPlan
  <2> QED
    BY <1>3, <1>5, <2>1 DEF FilesInv, Files!Answer
<1> QED
  BY <1>2, <1>4, <1>5 DEF Files!Deliver, Files!AnswerRunning

\* A call is passed on, takes the slot, or gives up.
LEMMA PassStep ==
  ASSUME Files!ItemsAssumption, FilesInv, NEW c \in Calls, Files!PassRunning(c) \/ Files!Reserve(c) \/ Files!BeginLight(c)
  PROVE  FilesInv'
<1>1. /\ UNCHANGED <<grant, cleanup, scopeEpoch, cleanupEpoch, task, confirm, ids, claims, dismissed>>
      /\ UNCHANGED <<binding, operation, workspace>> /\ call[c].at \in {"bound", "reserve", "light"}
  BY DEF Files!PassRunning, Files!Reserve, Files!BeginLight, Files!perms, Files!files
<1>2. CoreInv'
  BY <1>1, CoreKeeps DEF FilesInv, CoreInv, HasPlan, ListInv
<1>3. call[c] \in CallRec /\ Past(call[c].bind) /\ call[c].req \in Reqs
  BY <1>1 DEF FilesInv, CallInv, GoodCall, CallRec
<1>4. ASSUME NEW a \in CallStages, Files!Go(c, a), a \in {"light", "apply"} => call[c].req.kind \in {"page", "select"},
             a \in {"reserve", "reserved"} => Files!Heavy(call[c].req.kind)
      PROVE  \E r : r.at = a /\ GoodCall(r) /\ call' = [call EXCEPT ![c] = r]
  <2>1. PICK r \in CallRec : r = [call[c] EXCEPT !.at = a] /\ r.at = a /\ r.req = call[c].req /\ r.bind = call[c].bind
    BY <1>3, CallGoes
  <2> QED
    BY <1>3, <1>4, <2>1 DEF GoodCall, Files!Go
<1>5. CASE call' = [call EXCEPT ![c] = [at |-> "done"]] /\ UNCHANGED filesSlot
  <2>1. GoodCall([at |-> "done"])
    BY DEF GoodCall
  <2> QED
    BY <1>1, <1>2, <1>5, <2>1, CallGoesOn DEF FilesInv
<1>6. CASE Files!PassRunning(c)
  <2>1. PICK a \in {"reserve", "light"} : Files!Go(c, a) /\ (a = "reserve" <=> Files!Heavy(call[c].req.kind))
    BY <1>6 DEF Files!PassRunning
  <2>2. call[c].req.kind # "status"
    BY <1>6 DEF Files!PassRunning
  <2>3. a = "light" => call[c].req.kind \in {"page", "select"}
    BY <1>3, <2>1, <2>2, ReqHas DEF Files!Heavy
  <2>4. PICK r : r.at = a /\ GoodCall(r) /\ call' = [call EXCEPT ![c] = r]
    BY <1>4, <2>1, <2>3 DEF CallStages
  <2> QED
    BY <1>1, <1>2, <1>6, <2>4, CallGoesOn DEF FilesInv, Files!PassRunning
<1>7. CASE Files!Reserve(c) /\ filesSlot = Files!Free /\ filesSlot' = "task" /\ Files!Go(c, "reserved")
  <2>1. Files!Heavy(call[c].req.kind)
    BY <1>7 DEF FilesInv, CallInv, GoodCall, Files!Reserve
  <2>2. PICK r : r.at = "reserved" /\ GoodCall(r) /\ call' = [call EXCEPT ![c] = r]
    BY <1>4, <1>7, <2>1 DEF CallStages
  <2> QED
    BY <1>1, <1>2, <1>7, <2>2, CallGoesOn DEF FilesInv
<1>8. CASE Files!BeginLight(c) /\ filesSlot = Files!Free /\ filesSlot' = c /\ Files!Go(c, "apply")
  <2>1. call[c].req.kind \in {"page", "select"}
    BY <1>8 DEF FilesInv, CallInv, GoodCall, Files!BeginLight
  <2>2. PICK r : r.at = "apply" /\ GoodCall(r) /\ call' = [call EXCEPT ![c] = r]
    BY <1>4, <1>8, <2>1 DEF CallStages
  <2> QED
    BY <1>1, <1>2, <1>8, <2>2, CallGoesOn DEF FilesInv
<1> QED
  BY <1>5, <1>6, <1>7, <1>8 DEF Files!Reserve, Files!BeginLight, Files!Answer

\* A task begins with the request of its call.
LEMMA SpawnStep ==
  ASSUME Files!ItemsAssumption, FilesInv, NEW c \in Calls, Files!Spawn(c)
  PROVE  FilesInv'
<1>1. /\ UNCHANGED <<grant, cleanup, scopeEpoch, cleanupEpoch, filesSlot, confirm, ids, claims, dismissed>>
      /\ UNCHANGED <<binding, workspace>> /\ operation' = "running" /\ call[c].at = "reserved"
      /\ call' = [call EXCEPT ![c] = [at |-> "done"]]
  BY DEF Files!Spawn, Files!perms, Files!Answer
<1>2. /\ filesSlot = "task" /\ task = Files!Idle /\ \A d \in Calls : call[d].at = "reserved" => d = c
  BY <1>1 DEF FilesInv, SlotInv
<1>3. PICK q, b : q = call[c].req /\ b = call[c].bind /\ q \in Reqs /\ Past(b) /\ b \in Files!Bindings /\ Files!Heavy(q.kind)
  BY <1>1 DEF FilesInv, CallInv, GoodCall, CallRec
<1>4. task' = [at |-> "start", req |-> q, bind |-> b, stop |-> FALSE, failed |-> FALSE]
  BY <1>3 DEF Files!Spawn
<1>5. task' \in Plain /\ task'.at = "start" /\ task'.req = q /\ task'.bind = b
  BY <1>3, <1>4 DEF Plain, TaskStages
<1>6. TaskInv'
  BY <1>1, <1>3, <1>5 DEF TaskInv, GoodTask, TaskRec, Past
<1>7. CallInv' /\ SlotInv'
  <2>1. \A d \in Calls : call'[d] = IF d = c THEN [at |-> "done"] ELSE call[d]
    BY <1>1 DEF FilesInv, CallInv
  <2>2. \A d \in Calls : call'[d].at # "reserved" /\ (call'[d].at = "apply" => call[d].at = "apply")
    BY <1>2, <2>1
  <2>3. SlotInv'
    BY <1>1, <1>2, <2>2 DEF FilesInv, SlotInv
  <2>4. \A q1 : GoodCall(q1) => GoodCall(q1)'
    BY <1>1 DEF GoodCall, Past
  <2>5. GoodCall([at |-> "done"])
    BY DEF GoodCall
  <2>6. CallInv'
    BY <1>1, <2>1, <2>4, <2>5 DEF FilesInv, CallInv
  <2> QED
    BY <2>3, <2>6
<1>8. (binding = Files!None \/ Past(binding))' /\ PermsInv' /\ ConfirmInv' /\ ClaimsInv' /\ ListInv'
  <2>1. Files!Lists' = Files!Lists
    BY <1>1 DEF Files!Lists, Files!Plans
  <2> QED
    BY <1>1, <2>1 DEF FilesInv, CoreInv, PermsInv, Past, ConfirmInv, ClaimsInv,
       Files!PlanEndsOnce, ListInv, Ended, Claimed,
       HasPlan
<1>9. VouchInv'
  BY <1>1, <1>2, <1>5, Nones DEF FilesInv, CoreInv, VouchInv, Judging, InForce, HasPlan
<1> QED
  BY <1>1, <1>6, <1>7, <1>8, <1>9 DEF FilesInv, CoreInv, Files!Busy

\* A light call turns the page, which leaves the plan, or chooses, which drops it.
LEMMA LightStep ==
  ASSUME Files!ItemsAssumption, FilesInv, NEW c \in Calls, Files!ApplyLight(c) PROVE FilesInv'
<1>1. /\ UNCHANGED <<grant, cleanup, scopeEpoch, cleanupEpoch, task, confirm, ids, claims, dismissed>>
      /\ UNCHANGED <<binding, operation>> /\ call[c].at = "apply" /\ filesSlot' = Files!Free
  BY DEF Files!ApplyLight, Files!perms
<1>2. /\ call[c] \in CallRec /\ Past(call[c].bind) /\ call[c].req.kind \in {"page", "select"}
      /\ call[c].req \in Reqs
  BY <1>1 DEF FilesInv, CallInv, GoodCall, CallRec
<1>3. CASE call' = [call EXCEPT ![c] = [at |-> "done"]] /\ UNCHANGED workspace
  <2>1. GoodCall([at |-> "done"])
    BY DEF GoodCall
  <2>2. CoreInv'
    BY <1>1, <1>3, CoreKeeps DEF FilesInv, CoreInv, HasPlan, ListInv
  <2> QED
    BY <1>1, <1>3, <2>1, <2>2, CallGoesOn DEF FilesInv
<1>4. CASE Files!LightAllowed(call[c].req) /\ workspace' = Files!LightChange(call[c].req) /\ Files!Go(c, "applied")
  <2>1. PICK r \in CallRec : r = [call[c] EXCEPT !.at = "applied"] /\ r.at = "applied" /\ r.bind = call[c].bind
    BY <1>2, CallGoes DEF CallStages
  <2>2. GoodCall(r) /\ call' = [call EXCEPT ![c] = r]
    BY <1>2, <1>4, <2>1 DEF GoodCall, Files!Go
  <2>3. workspace \in Files!Lists
    BY <1>4 DEF FilesInv, CoreInv, ListInv, Files!LightAllowed, Files!At
  <2>4. CASE call[c].req.kind = "page"
    <3>1. PICK o \in 0 .. NItems : o = call[c].req.offset
      <4>1. call[c].req.offset \in {0, PageSize} /\ (call[c].req.offset = 0 \/ call[c].req.offset < workspace.n)
        BY <1>2, <1>4, <2>4, ReqHas DEF Files!LightAllowed
      <4> QED
        BY <2>3, <4>1, ListHas DEF Files!ItemsAssumption
    <3>2. workspace' = [workspace EXCEPT !.offset = o]
      BY <1>4, <2>4, <3>1 DEF Files!LightChange
    <3>3. workspace' \in Files!Lists /\ workspace'.plan = workspace.plan /\ workspace'.sel = workspace.sel
      BY <2>3, <3>2 DEF Files!Lists
    <3>4. CoreInv'
      BY <1>1, <2>3, <3>3, ListHas, CoreKeeps DEF FilesInv, CoreInv, HasPlan
    <3> QED
      BY <1>1, <2>1, <2>2, <3>4, CallGoesOn DEF FilesInv
  <2>5. CASE call[c].req.kind = "select"
    <3>1. PICK S \in SUBSET Files!Items : S = (workspace.sel \ call[c].req.without) \cup call[c].req.with
      BY <1>2, <2>3, <2>5, ListHas, ReqHas
    <3>2. workspace' = Files!Chosen(S)
      BY <1>4, <2>5, <3>1 DEF Files!LightChange
    <3>3. workspace' \in Files!Lists /\ workspace'.plan = Files!NoPlan
      BY <2>3, <3>2, ChosenHas
    <3>4. CoreInv'
      BY <1>1, <3>3, CoreKeeps DEF FilesInv, CoreInv, HasPlan
    <3> QED
      BY <1>1, <2>1, <2>2, <3>4, CallGoesOn DEF FilesInv
  <2> QED
    BY <1>2, <2>4, <2>5
<1> QED
  BY <1>3, <1>4 DEF Files!ApplyLight, Files!Answer

\* What a light call does after it has given the slot back.
LEMMA AfterLightStep ==
  ASSUME Files!ItemsAssumption, FilesInv, NEW c \in Calls, Files!CheckLight(c) \/ Files!ClearOperation(c) PROVE FilesInv'
<1>1. /\ UNCHANGED <<grant, cleanup, scopeEpoch, cleanupEpoch, filesSlot, task, confirm, ids, claims, dismissed>>
      /\ call[c].at \in {"applied", "clear"}
  BY DEF Files!CheckLight, Files!ClearOperation, Files!perms
<1>2. call[c] \in CallRec /\ Past(call[c].bind)
  BY <1>1 DEF FilesInv, CallInv, GoodCall
<1>3. ASSUME NEW a \in CallStages, a \in {"clear", "cleared"}, Files!Go(c, a), UNCHANGED <<binding, workspace>>,
             operation' \in {operation, "none"}
      PROVE  FilesInv'
  <2>2. PICK r \in CallRec : r = [call[c] EXCEPT !.at = a] /\ r.at = a /\ r.bind = call[c].bind
    BY <1>2, CallGoes
  <2>3. GoodCall(r) /\ call' = [call EXCEPT ![c] = r]
    BY <1>2, <1>3, <2>2 DEF GoodCall, Files!Go
  <2>4. CoreInv'
    BY <1>1, <1>3, CoreKeeps DEF FilesInv, CoreInv, HasPlan, ListInv
  <2> QED
    BY <1>1, <1>3, <2>2, <2>3, <2>4, CallGoesOn DEF FilesInv
<1>4. CASE Files!Invalidate /\ call' = [call EXCEPT ![c] = [at |-> "done"]]
  <2>1. GoodCall([at |-> "done"])
    BY DEF GoodCall
  <2>2. CoreInv'
    BY <1>1, <1>4, CoreKeeps DEF FilesInv, Files!Invalidate, HasPlan
  <2> QED
    BY <1>1, <1>4, <2>1, <2>2, CallGoesOn DEF FilesInv
<1> QED
  BY <1>3, <1>4 DEF Files!CheckLight, Files!ClearOperation, Files!Answer, Files!files, CallStages
-----------------------------------------------------------------------------
(* The permissions.                                                          *)

\* A change of permission leaves nothing that was read before it in force.
LEMMA GrantChangeStep ==
  ASSUME Files!ItemsAssumption, FilesInv, NEW root \in Roots \cup {Files!NoRoot}, Files!SetScope(root) \/ Files!SetCleanup
  PROVE  FilesInv'
<1>1. UNCHANGED <<binding, operation, workspace, filesSlot, call, task, confirm, ids, claims, dismissed>>
  BY DEF Files!SetScope, Files!SetCleanup, Files!files
<1>2. PermsInv'
  <2>1. cleanup' \in BOOLEAN /\ grant' \in Roots \cup {Files!NoRoot}
    BY DEF Files!SetScope, Files!SetCleanup, PermsInv, FilesInv, CoreInv
  <2>2. /\ scopeEpoch' \in Nat /\ cleanupEpoch' \in Nat /\ MaxChanges \in Nat
        /\ scopeEpoch' + cleanupEpoch' <= MaxChanges
    BY DEF Files!SetScope, Files!SetCleanup, Files!Changes, PermsInv, FilesInv, CoreInv,
       Files!ItemsAssumption
  <2> QED
    BY <2>1, <2>2 DEF PermsInv
<1>3. \A b : Past(b) => Past(b)' /\ ~InForce(b)'
  <2>1. SUFFICES ASSUME NEW b, Past(b) PROVE Past(b)' /\ ~InForce(b)'
    OBVIOUS
  <2>2. b.scope \in Nat /\ b.review \in Nat /\ b \in Files!Bindings /\ b.scope <= scopeEpoch /\ b.review <= cleanupEpoch
        /\ (b.scope = scopeEpoch => b.root = grant) /\ (b.review = cleanupEpoch => b.allowed = cleanup)
    BY <2>1, PastHas DEF Past
  <2>3. scopeEpoch \in Nat /\ cleanupEpoch \in Nat
    BY DEF FilesInv, CoreInv, PermsInv
  <2>4. CASE Files!SetScope(root)
    BY <2>2, <2>3, <2>4 DEF Files!SetScope, Past, InForce
  <2>5. CASE Files!SetCleanup
    BY <2>2, <2>3, <2>5 DEF Files!SetCleanup, Past, InForce
  <2> QED
    BY <2>4, <2>5
<1>4. (binding = Files!None \/ Past(binding))' /\ ConfirmInv' /\ TaskInv'
  BY <1>1, <1>3 DEF FilesInv, CoreInv, ConfirmInv, TaskInv, GoodTask
<1>5. CallInv'
  <2>1. \A q : GoodCall(q) => GoodCall(q)'
    BY <1>3 DEF GoodCall
  <2> QED
    BY <1>1, <2>1 DEF FilesInv, CallInv
<1>6. ClaimsInv' /\ SlotInv'
  BY <1>1 DEF FilesInv, CoreInv, ClaimsInv, Files!PlanEndsOnce, SlotInv
<1>7. ListInv'
  <2>1. Files!Lists' = Files!Lists
    BY <1>1 DEF Files!Lists, Files!Plans
  <2> QED
    BY <1>1, <1>3, <2>1 DEF FilesInv, CoreInv, ListInv, HasPlan, Ended, Claimed
<1>8. VouchInv'
  BY <1>1, <1>3, Nones DEF FilesInv, CoreInv, VouchInv, HasPlan, Judging, ConfirmInv
<1> QED
  BY <1>1, <1>2, <1>4, <1>5, <1>6, <1>7, <1>8 DEF FilesInv, CoreInv

-----------------------------------------------------------------------------
(* The tasks of the heavy calls.                                             *)

\* While a task has the slot no call has it and no confirmation moves.
LEMMA TaskAlone ==
  ASSUME Files!ItemsAssumption, SlotInv, task # Files!Idle
  PROVE  /\ filesSlot = "task" /\ confirm.at \notin {"claim", "move", "outcome"}
         /\ \A c \in Calls : call[c].at \notin {"apply", "reserved"}
BY DEF Files!ItemsAssumption, SlotInv

\* A step of a task that keeps no plan, or one it does not look at, or one it has
\* found to be made under the permission in force.
LEMMA TaskKeeps ==
  ASSUME Files!ItemsAssumption, FilesInv, task # Files!Idle,
         UNCHANGED <<grant, cleanup, scopeEpoch, cleanupEpoch, call, confirm, claims, dismissed>>,
         ids' \in Nat, ids <= ids', binding' \in {binding, Files!None},
         operation' \in Files!Busy \cup {"none", "completed", "cancelled", "failed"},
         NEW r, task' = r, GoodTask(r),
         (r = Files!Idle /\ filesSlot' = Files!Free) \/ (r # Files!Idle /\ UNCHANGED filesSlot),
         workspace' = Files!None \/ workspace' \in Files!Lists',
         HasPlan' => /\ UNCHANGED <<binding, workspace, ids>>
                     /\ r.at \notin {"scan", "store", "name", "prepare", "verify", "plan"}
                     /\ \/ ~Judging /\ ~Judging'
                        \/ Judging /\ Judging' /\ r.bind = task.bind /\ r.req = task.req
                        \/ InForce(workspace.plan.by) /\ ~Judging'
  PROVE  FilesInv'
<1>1. PermsInv' /\ TaskInv' /\ CallInv' /\ (binding = Files!None \/ Past(binding))'
  <2>1. TaskInv'
    BY DEF TaskInv, GoodTask, Past
  <2>2. \A q : GoodCall(q) => GoodCall(q)'
    BY DEF GoodCall, Past
  <2> QED
    BY <2>1, <2>2 DEF FilesInv, CoreInv, PermsInv, CallInv, Past
<1>2. ConfirmInv' /\ ClaimsInv'
  <2>1. 1 .. ids \subseteq 1 .. ids'
    BY DEF FilesInv, CoreInv, ClaimsInv
  <2>2. ConfirmInv'
    BY DEF FilesInv, CoreInv, ConfirmInv, ConfirmRec, Past, ClaimsInv
  <2>3. claims \in Seq([plan : 1 .. ids', by : Files!Bindings, now : Files!Bindings])
    <3>1. [plan : 1 .. ids, by : Files!Bindings, now : Files!Bindings] \subseteq [plan : 1 .. ids', by : Files!Bindings, now : Files!Bindings]
      BY <2>1
    <3>2. claims \in Seq([plan : 1 .. ids, by : Files!Bindings, now : Files!Bindings])
      BY DEF FilesInv, CoreInv, ClaimsInv
    <3> QED
      BY <3>1, <3>2, SeqsGrow
  <2>4. Files!PlanEndsOnce' /\ (\A i \in DOMAIN claims : Files!SameReview(claims[i].by, claims[i].now))'
    BY DEF FilesInv, CoreInv, ClaimsInv, Files!PlanEndsOnce
  <2> QED
    BY <2>1, <2>2, <2>3, <2>4 DEF FilesInv, CoreInv, ClaimsInv
<1>3. SlotInv'
  BY TaskAlone, Nones DEF FilesInv, SlotInv, Files!Free
<1>4. ListInv'
  BY DEF FilesInv, CoreInv, ListInv, HasPlan, Ended, Claimed, Past
<1>5. VouchInv'
  <2>1. CASE ~HasPlan'
    BY <2>1 DEF VouchInv
  <2>2. CASE HasPlan' /\ ~Judging /\ ~Judging'
    BY <2>2 DEF FilesInv, CoreInv, VouchInv, HasPlan, InForce
  <2>3. CASE HasPlan' /\ Judging /\ Judging' /\ r.bind = task.bind /\ r.req = task.req
    BY <2>3 DEF FilesInv, CoreInv, VouchInv, HasPlan, InForce
  <2>4. CASE HasPlan' /\ InForce(workspace.plan.by) /\ ~Judging'
    BY <2>4 DEF FilesInv, CoreInv, VouchInv, HasPlan, InForce
  <2> QED
    BY <2>1, <2>2, <2>3, <2>4
<1> QED
  BY <1>1, <1>2, <1>3, <1>4, <1>5 DEF FilesInv, CoreInv

\* A task that fails goes to its end.
LEMMA FailKeeps ==
  ASSUME Files!ItemsAssumption, FilesInv, task # Files!Idle, task.at \in TaskStages, Files!TaskFails,
         UNCHANGED <<Files!perms, Files!files, filesSlot, call, confirm, ids, claims, dismissed>>,
         ~HasPlan \/ task.at = "start"
  PROVE  FilesInv'
<1>1. task \in TaskRec /\ Past(task.bind) /\ Files!Heavy(task.req.kind)
  BY DEF FilesInv, CoreInv, TaskInv, GoodTask
<1>2. PICK r : r = [task EXCEPT !.at = "judge", !.failed = TRUE]
  OBVIOUS
<1>3. /\ r \in TaskRec /\ r.at = "judge" /\ r.failed /\ r.req = task.req /\ r.bind = task.bind
  BY <1>1, <1>2, TaskFailsOn
<1>4. GoodTask(r) /\ r # Files!Idle
  BY <1>1, <1>3, TaskHas DEF GoodTask
<1>5. UNCHANGED <<grant, cleanup, scopeEpoch, cleanupEpoch, call, confirm, claims, dismissed, binding, operation,
                  workspace, filesSlot, ids>>
  BY DEF Files!perms, Files!files
<1>6. ids \in Nat /\ operation \in Files!Busy \cup {"none", "completed", "cancelled", "failed"}
  BY DEF FilesInv, CoreInv, ClaimsInv
<1>7. workspace' = Files!None \/ workspace' \in Files!Lists'
  BY <1>5 DEF FilesInv, CoreInv, ListInv, Files!Lists, Files!Plans
<1>8. task' = r
  BY <1>2 DEF Files!TaskFails
<1>9. HasPlan' => ~Judging /\ ~Judging'
  BY <1>3, <1>5, <1>8 DEF Judging, HasPlan
<1> QED
  BY <1>3, <1>4, <1>5, <1>6, <1>7, <1>8, <1>9, TaskKeeps

\* A task goes on with its work, of which no plan is shown.
LEMMA WorkKeeps ==
  ASSUME Files!ItemsAssumption, FilesInv, task # Files!Idle, NEW r, task' = r, GoodTask(r), r # Files!Idle,
         UNCHANGED <<grant, cleanup, scopeEpoch, cleanupEpoch, call, confirm, claims, dismissed, binding, operation, filesSlot>>,
         ids' \in Nat, ids <= ids', workspace' = Files!None \/ workspace' \in Files!Lists', ~HasPlan'
  PROVE  FilesInv'
<1>1. operation \in Files!Busy \cup {"none", "completed", "cancelled", "failed"}
  BY DEF FilesInv, CoreInv
<1> QED
  BY <1>1, TaskKeeps

LEMMA TaskKnown ==
  ASSUME FilesInv, task.at # "idle"
  PROVE  /\ task # Files!Idle /\ task \in TaskRec /\ Past(task.bind) /\ Files!Heavy(task.req.kind) /\ task.bind \in Files!Bindings
         /\ task.req \in Reqs /\ task.stop \in BOOLEAN /\ task.failed \in BOOLEAN /\ task.at \in TaskStages
         /\ ids \in Nat /\ (workspace = Files!None \/ workspace \in Files!Lists)
         /\ operation \in Files!Busy \cup {"none", "completed", "cancelled", "failed"}
<1>1. task # Files!Idle
  BY Nones
<1>2. task \in TaskRec /\ Past(task.bind) /\ Files!Heavy(task.req.kind)
  BY <1>1 DEF FilesInv, CoreInv, TaskInv, GoodTask
<1> QED
  BY <1>1, <1>2, TaskHas DEF FilesInv, CoreInv, ListInv, ClaimsInv

\* The list is forgotten and the folder walked.
LEMMA ScanStep ==
  ASSUME Files!ItemsAssumption, FilesInv, Files!StartScan \/ Files!Scan \/ Files!ScanFails
  PROVE  FilesInv'
<1>1. /\ task # Files!Idle /\ task \in TaskRec /\ Past(task.bind) /\ Files!Heavy(task.req.kind) /\ task.bind \in Files!Bindings
      /\ task.req \in Reqs /\ task.stop \in BOOLEAN /\ task.at \in {"start", "scan"} /\ task.at \in TaskStages
      /\ ids \in Nat /\ (workspace = Files!None \/ workspace \in Files!Lists)
  <2>1. task.at \in {"start", "scan"}
    BY DEF Files!StartScan, Files!Scan, Files!ScanFails
  <2> QED
    BY <2>1, TaskKnown
<1>2. UNCHANGED <<grant, cleanup, scopeEpoch, cleanupEpoch, call, confirm, claims, dismissed, binding, operation, filesSlot, ids>>
  BY DEF Files!StartScan, Files!Scan, Files!ScanFails, Files!Keep, Files!perms, Files!files
<1>3. task.at = "scan" => ~HasPlan /\ task \in Below
  BY <1>1 DEF FilesInv, CoreInv, VouchInv, TaskInv, GoodTask
<1>4. CASE Files!TaskFails /\ UNCHANGED workspace
  BY <1>1, <1>2, <1>3, <1>4, FailKeeps DEF Files!perms, Files!files
<1>5. CASE /\ task.at = "start" /\ workspace' = Files!None
           /\ \E below \in BOOLEAN :
                task' = [at |-> "scan", req |-> task.req, bind |-> task.bind, stop |-> task.stop, failed |-> FALSE,
                         below |-> below]
  <2>1. PICK below \in BOOLEAN :
          task' = [at |-> "scan", req |-> task.req, bind |-> task.bind, stop |-> task.stop, failed |-> FALSE,
                   below |-> below]
    BY <1>5
  <2>2. PICK r : r = [at |-> "scan", req |-> task.req, bind |-> task.bind, stop |-> task.stop, failed |-> FALSE,
                      below |-> below]
    OBVIOUS
  <2>3. r \in Below /\ r.at = "scan" /\ r.bind = task.bind /\ r.req = task.req
    BY <1>1, <2>2 DEF Below, TaskStages
  <2>4. GoodTask(r) /\ r # Files!Idle
    BY <1>1, <2>3, TaskHas DEF GoodTask, TaskRec
  <2> QED
    BY <1>1, <1>2, <1>5, <2>1, <2>2, <2>4, WorkKeeps DEF HasPlan
<1>6. CASE task.at = "scan" /\ Files!TaskGoes("store") /\ UNCHANGED workspace
  <2>1. PICK r : r = [task EXCEPT !.at = "store"]
    OBVIOUS
  <2>2. r \in Below /\ r.at = "store" /\ r.bind = task.bind /\ r.req = task.req /\ r \in TaskRec
    BY <1>1, <1>3, <1>6, <2>1, TaskGoesOn DEF TaskStages
  <2>3. GoodTask(r) /\ r # Files!Idle
    BY <1>1, <2>2, TaskHas DEF GoodTask
  <2>4. workspace' = Files!None \/ workspace' \in Files!Lists'
    BY <1>1, <1>2, <1>6 DEF Files!Lists, Files!Plans
  <2> QED
    BY <1>1, <1>2, <1>3, <1>6, <2>1, <2>3, <2>4, WorkKeeps DEF HasPlan, Files!TaskGoes
<1>7. CASE Files!StartScan
  <2>1. workspace # Files!None => workspace.below \in BOOLEAN
    BY <1>1, ListHas
  <2>2. CASE Files!TaskFails /\ UNCHANGED workspace
    BY <1>4, <2>2
  <2>3. ASSUME ~(Files!TaskFails /\ UNCHANGED workspace) PROVE FilesInv'
    <3>1. PICK below : /\ workspace' = Files!None /\ below \in BOOLEAN
                       /\ task' = [at |-> "scan", req |-> task.req, bind |-> task.bind, stop |-> task.stop,
                                   failed |-> FALSE, below |-> below]
      BY <1>7, <2>1, <2>3 DEF Files!StartScan, Files!Forget
    <3> QED
      BY <1>5, <1>7, <3>1 DEF Files!StartScan
  <2> QED
    BY <2>2, <2>3
<1> QED
  BY <1>4, <1>6, <1>7 DEF Files!Scan, Files!ScanFails, Files!files

\* A list with a new revision, without a plan.
LEMMA StoreStep == ASSUME Files!ItemsAssumption, FilesInv, Files!Store PROVE FilesInv'
<1>1. /\ task # Files!Idle /\ task \in TaskRec /\ Past(task.bind) /\ Files!Heavy(task.req.kind) /\ task.bind \in Files!Bindings
      /\ task.req \in Reqs /\ task.stop \in BOOLEAN /\ task.at = "store" /\ ids \in Nat
  <2>1. task.at = "store"
    BY DEF Files!Store
  <2> QED
    BY <2>1, TaskKnown
<1>2. /\ UNCHANGED <<grant, cleanup, scopeEpoch, cleanupEpoch, call, confirm, claims, dismissed, binding, operation, filesSlot>>
      /\ ids' = ids + 1 /\ workspace' = Files!Fresh(task.bind.root, task.below)
  BY DEF Files!Store, Files!Keep, Files!perms
<1>3. task.below \in BOOLEAN
  <2>1. task \in Below
    BY <1>1 DEF FilesInv, CoreInv, TaskInv, GoodTask
  <2> QED
    BY <2>1 DEF Below
<1>4. workspace' \in Files!Lists' /\ workspace'.plan = Files!NoPlan
  <2>1. Files!NoPlan \in Files!Plans'
    BY DEF Files!Plans
  <2>2. task.bind.root \in Roots /\ NItems \in Nat /\ ids + 1 \in 1 .. ids'
    BY <1>1, <1>2 DEF Files!Bindings, Files!ItemsAssumption
  <2> QED
    BY <1>2, <1>3, <2>1, <2>2 DEF Files!Fresh, Files!Lists
<1>5. PICK a \in {"name", "judge"} : /\ a = IF task.req.kind = "named" THEN "name" ELSE "judge"
                                     /\ a = "name" => Files!NeedsReview(task.req.kind)
  BY DEF Files!NeedsReview
<1>6. PICK n \in Nat : n = ids + 1
  BY <1>1
<1>7. PICK r : r = [at |-> a, req |-> task.req, bind |-> task.bind, stop |-> task.stop, failed |-> FALSE, rev |-> n]
  OBVIOUS
<1>8. r \in Revised /\ r.at = a /\ r.req = task.req /\ r.bind = task.bind
  BY <1>1, <1>5, <1>7 DEF Revised, TaskStages
<1>9. GoodTask(r) /\ r # Files!Idle
  BY <1>1, <1>5, <1>8, TaskHas DEF GoodTask, TaskRec
<1>10. task' = r
  BY <1>5, <1>6, <1>7 DEF Files!Store
<1>11. ids' \in Nat /\ ids <= ids'
  BY <1>1, <1>2
<1> QED
  BY <1>1, <1>2, <1>4, <1>9, <1>10, <1>11, WorkKeeps DEF HasPlan

\* A selection of a task drops the plan, and so does the beginning of prepare.
LEMMA SelectStep ==
  ASSUME Files!ItemsAssumption, FilesInv, Files!SelectNamed \/ Files!SelectReviewed
  PROVE  FilesInv'
<1>1. /\ task # Files!Idle /\ task \in TaskRec /\ Past(task.bind) /\ Files!Heavy(task.req.kind) /\ task.bind \in Files!Bindings
      /\ task.req \in Reqs /\ task.stop \in BOOLEAN /\ task.at \in {"start", "name"} /\ ids \in Nat
      /\ task.at \in TaskStages /\ (workspace = Files!None \/ workspace \in Files!Lists)
  <2>1. task.at \in {"start", "name"}
    BY DEF Files!SelectNamed, Files!SelectReviewed
  <2> QED
    BY <2>1, TaskKnown
<1>2. UNCHANGED <<grant, cleanup, scopeEpoch, cleanupEpoch, call, confirm, claims, dismissed, binding, operation, filesSlot, ids>>
  BY DEF Files!SelectNamed, Files!SelectReviewed, Files!Keep, Files!perms
<1>3. task.at = "name" => ~HasPlan /\ Files!NeedsReview(task.req.kind)
  BY <1>1 DEF FilesInv, CoreInv, VouchInv, TaskInv, GoodTask
<1>4. CASE Files!TaskFails /\ UNCHANGED workspace
  BY <1>1, <1>2, <1>3, <1>4, FailKeeps DEF Files!perms, Files!files
<1>5. Files!Lists' = Files!Lists
  BY <1>2 DEF Files!Lists, Files!Plans
<1>6. ASSUME NEW a \in TaskStages, a \in {"prepare", "judge"}, Files!TaskGoes(a), task.at = "name",
             workspace' \in Files!Lists \cup {Files!None}, ~HasPlan'
      PROVE  FilesInv'
  <2>1. PICK r : r = [task EXCEPT !.at = a]
    OBVIOUS
  <2>2. r \in TaskRec /\ r.at = a /\ r.bind = task.bind /\ r.req = task.req
    BY <1>1, <2>1, TaskGoesOn
  <2>3. GoodTask(r) /\ r # Files!Idle
    BY <1>1, <1>3, <1>6, <2>2, TaskHas DEF GoodTask
  <2> QED
    BY <1>1, <1>2, <1>5, <1>6, <2>1, <2>3, WorkKeeps DEF Files!TaskGoes
<1>7. ASSUME NEW i \in Files!Items, Files!At(task.rev), Files!TaskGoes("prepare"), task.at = "name",
             workspace' = [Files!Chosen({i}) EXCEPT !.offset = ((i - 1) \div PageSize) * PageSize]
      PROVE  FilesInv'
  <2>1. workspace \in Files!Lists
    BY <1>1, <1>7 DEF Files!At
  <2>2. PICK o \in 0 .. NItems : o = ((i - 1) \div PageSize) * PageSize
    BY PageBegins
  <2>3. PICK w : w = Files!Chosen({i}) /\ w \in Files!Lists /\ w.plan = Files!NoPlan
    BY <2>1, ChosenHas
  <2>4. workspace' = [w EXCEPT !.offset = o]
    BY <1>7, <2>2, <2>3
  <2>5. workspace' \in Files!Lists /\ workspace'.plan = Files!NoPlan
    BY <2>3, <2>4 DEF Files!Lists
  <2> QED
    BY <1>6, <1>7, <2>5 DEF HasPlan, TaskStages
<1>8. CASE Files!SelectNamed
  <2>1. task.at = "name"
    BY <1>8 DEF Files!SelectNamed
  <2>2. CASE Files!TaskGoes("judge") /\ UNCHANGED workspace
    BY <1>1, <1>3, <1>6, <2>1, <2>2 DEF TaskStages, HasPlan
  <2> QED
    BY <1>4, <1>7, <1>8, <2>1, <2>2 DEF Files!SelectNamed
<1>9. CASE Files!SelectReviewed
  <2>1. CASE /\ workspace' = Files!Chosen(task.req.items) /\ Files!At(task.req.rev)
             /\ task' = [at |-> "prepare", req |-> task.req, bind |-> task.bind, stop |-> task.stop,
                         failed |-> FALSE, rev |-> task.req.rev]
    <3>1. task.req.kind = "review" /\ task.req.items \subseteq Files!Items /\ task.req.rev \in Nat
      BY <1>1, <1>9, ReqHas DEF Files!SelectReviewed
    <3>2. workspace \in Files!Lists
      BY <1>1, <2>1 DEF Files!At
    <3>3. workspace' \in Files!Lists /\ workspace'.plan = Files!NoPlan
      BY <2>1, <3>1, <3>2, ChosenHas
    <3>4. PICK r : r = [at |-> "prepare", req |-> task.req, bind |-> task.bind, stop |-> task.stop,
                        failed |-> FALSE, rev |-> task.req.rev]
      OBVIOUS
    <3>5. r \in Revised /\ r.at = "prepare" /\ r.req = task.req /\ r.bind = task.bind
      BY <1>1, <3>1, <3>4 DEF Revised, TaskStages
    <3>6. GoodTask(r) /\ r # Files!Idle
      BY <1>1, <3>1, <3>5, TaskHas DEF GoodTask, TaskRec, Files!NeedsReview
    <3> QED
      BY <1>1, <1>2, <1>5, <2>1, <3>3, <3>4, <3>6, WorkKeeps DEF HasPlan
  <2> QED
    BY <1>4, <1>9, <2>1 DEF Files!SelectReviewed
<1> QED
  BY <1>8, <1>9

LEMMA PrepareStep == ASSUME Files!ItemsAssumption, FilesInv, Files!BeginPrepare PROVE FilesInv'
<1>1. /\ task # Files!Idle /\ task \in TaskRec /\ Past(task.bind) /\ Files!Heavy(task.req.kind) /\ task.bind \in Files!Bindings
      /\ task.req \in Reqs /\ task.stop \in BOOLEAN /\ task.at = "prepare" /\ ids \in Nat
      /\ task.at \in TaskStages /\ (workspace = Files!None \/ workspace \in Files!Lists)
  <2>1. task.at = "prepare"
    BY DEF Files!BeginPrepare
  <2> QED
    BY <2>1, TaskKnown
<1>2. UNCHANGED <<grant, cleanup, scopeEpoch, cleanupEpoch, call, confirm, claims, dismissed, binding, operation, filesSlot, ids>>
  BY DEF Files!BeginPrepare, Files!Keep, Files!perms
<1>3. ~HasPlan /\ Files!NeedsReview(task.req.kind)
  BY <1>1 DEF FilesInv, CoreInv, VouchInv, TaskInv, GoodTask
<1>4. CASE Files!TaskFails /\ UNCHANGED workspace
  BY <1>1, <1>2, <1>3, <1>4, FailKeeps DEF Files!perms, Files!files
<1>5. CASE Files!At(task.rev) /\ workspace' = [workspace EXCEPT !.plan = Files!NoPlan]
  <2>1. workspace \in Files!Lists
    BY <1>1, <1>5 DEF Files!At
  <2>2. workspace' = workspace
    <3>1. workspace.plan = Files!NoPlan
      BY <1>3, <2>1, Nones DEF HasPlan
    <3> QED
      BY <1>5, <2>1, <3>1 DEF Files!Lists
  <2>3. CASE Files!TaskFails
    BY <1>4, <2>2, <2>3
  <2>4. CASE task' = [at |-> "verify", req |-> task.req, bind |-> task.bind, stop |-> task.stop,
                      failed |-> FALSE, rev |-> task.rev, items |-> workspace.sel]
    <3>1. task.rev = workspace.rev /\ workspace.rev \in Nat /\ workspace.sel \in SUBSET Files!Items
      BY <1>1, <1>5, <2>1 DEF Files!At, Files!Lists
    <3>2. PICK n \in Nat : n = task.rev
      BY <3>1
    <3>3. PICK S \in SUBSET Files!Items : S = workspace.sel
      BY <3>1
    <3>4. PICK r : r = [at |-> "verify", req |-> task.req, bind |-> task.bind, stop |-> task.stop,
                        failed |-> FALSE, rev |-> n, items |-> S]
      OBVIOUS
    <3>5. r \in Listed /\ r.at = "verify" /\ r.req = task.req /\ r.bind = task.bind /\ ~r.failed
      BY <1>1, <3>4 DEF Listed, TaskStages
    <3>6. GoodTask(r) /\ r # Files!Idle
      BY <1>1, <1>3, <3>5, TaskHas DEF GoodTask, TaskRec
    <3>7. task' = r
      BY <2>4, <3>2, <3>3, <3>4
    <3>8. workspace' \in Files!Lists'
      BY <1>2, <2>1, <2>2 DEF Files!Lists, Files!Plans
    <3>9. ids' \in Nat /\ ids <= ids' /\ ~HasPlan'
      BY <1>1, <1>2, <1>3, <2>2 DEF HasPlan
    <3> QED
      BY <1>1, <1>2, <3>6, <3>7, <3>8, <3>9, WorkKeeps
  <2> QED
    BY <1>5, <2>3, <2>4 DEF Files!BeginPrepare
<1> QED
  BY <1>4, <1>5 DEF Files!BeginPrepare

LEMMA VerifyStep ==
  ASSUME Files!ItemsAssumption, FilesInv, Files!Verify \/ Files!VerifyFails
  PROVE  FilesInv'
<1>1. /\ task # Files!Idle /\ task \in TaskRec /\ Past(task.bind) /\ Files!Heavy(task.req.kind) /\ task.at = "verify"
      /\ ids \in Nat /\ task.at \in TaskStages /\ (workspace = Files!None \/ workspace \in Files!Lists)
  <2>1. task.at = "verify"
    BY DEF Files!Verify, Files!VerifyFails
  <2> QED
    BY <2>1, TaskKnown
<1>2. UNCHANGED <<grant, cleanup, scopeEpoch, cleanupEpoch, call, confirm, claims, dismissed, binding, operation, workspace, filesSlot, ids>>
  BY DEF Files!Verify, Files!VerifyFails, Files!Keep, Files!perms, Files!files
<1>3. ~HasPlan /\ Files!NeedsReview(task.req.kind) /\ task \in Listed /\ ~task.failed
  BY <1>1 DEF FilesInv, CoreInv, VouchInv, TaskInv, GoodTask
<1>4. CASE Files!TaskFails
  BY <1>1, <1>2, <1>3, <1>4, FailKeeps DEF Files!perms, Files!files
<1>5. CASE Files!TaskGoes("plan")
  <2>1. PICK r : r = [task EXCEPT !.at = "plan"]
    OBVIOUS
  <2>2. r \in TaskRec /\ r.at = "plan" /\ r.bind = task.bind /\ r.req = task.req /\ r \in Listed /\ r.failed = task.failed
    BY <1>1, <1>3, <2>1, TaskGoesOn DEF TaskStages
  <2>3. GoodTask(r) /\ r # Files!Idle
    BY <1>1, <1>3, <2>2, TaskHas DEF GoodTask
  <2>4. workspace' = Files!None \/ workspace' \in Files!Lists'
    BY <1>1, <1>2 DEF Files!Lists, Files!Plans
  <2> QED
    BY <1>1, <1>2, <1>3, <1>5, <2>1, <2>3, <2>4, WorkKeeps DEF HasPlan, Files!TaskGoes
<1> QED
  BY <1>4, <1>5 DEF Files!Verify, Files!VerifyFails

\* A plan is stored under a new identifier; it is of the task that made it, and
\* nobody looks at it yet.
LEMMA PlanStep == ASSUME Files!ItemsAssumption, FilesInv, Files!StorePlan PROVE FilesInv'
<1>1. /\ task # Files!Idle /\ task \in TaskRec /\ Past(task.bind) /\ Files!Heavy(task.req.kind) /\ task.at = "plan"
      /\ ids \in Nat /\ task.at \in TaskStages /\ (workspace = Files!None \/ workspace \in Files!Lists) /\ task.bind \in Files!Bindings
  <2>1. task.at = "plan"
    BY DEF Files!StorePlan
  <2> QED
    BY <2>1, TaskKnown
<1>2. UNCHANGED <<grant, cleanup, scopeEpoch, cleanupEpoch, call, confirm, claims, dismissed, binding, operation, filesSlot>>
  BY DEF Files!StorePlan, Files!Keep, Files!perms
<1>3. ~HasPlan /\ Files!NeedsReview(task.req.kind) /\ task \in Listed /\ ~task.failed
  BY <1>1 DEF FilesInv, CoreInv, VouchInv, TaskInv, GoodTask
<1>4. CASE Files!TaskFails /\ UNCHANGED <<workspace, ids>>
  BY <1>1, <1>2, <1>3, <1>4, FailKeeps DEF Files!perms, Files!files
<1>5. CASE /\ Files!At(task.rev) /\ workspace.sel = task.items /\ ids' = ids + 1 /\ Files!TaskGoes("judge")
           /\ workspace' = [workspace EXCEPT !.plan = [id |-> ids + 1, items |-> task.items, by |-> task.bind]]
  <2>1. workspace \in Files!Lists /\ workspace # Files!None
    BY <1>1, <1>5 DEF Files!At
  <2>2. PICK n \in Nat : n = ids + 1 /\ n \in 1 .. ids' /\ n \notin 1 .. ids /\ n # 0 /\ 1 .. ids \subseteq 1 .. ids'
    BY <1>1, <1>5
  <2>3. PICK S, b : S = task.items /\ S = workspace.sel /\ S \subseteq Files!Items /\ b = task.bind /\ b \in Files!Bindings /\ Past(b)
    BY <1>1, <1>3, <1>5 DEF Listed
  <2>4. PICK p : p = [id |-> n, items |-> S, by |-> b]
    OBVIOUS
  <2>5. p.id = n /\ p.items = S /\ p.by = b /\ p # Files!NoPlan /\ p \in Files!Plans'
    BY <2>2, <2>3, <2>4, Nones DEF Files!Plans
  <2>6. PICK w \in Files!Lists' : w = workspace
    BY <1>1, <1>5, <2>1, ListsGrow
  <2>7. workspace' = [w EXCEPT !.plan = p]
    BY <1>5, <2>2, <2>3, <2>4, <2>6
  <2>8. workspace' \in Files!Lists' /\ workspace'.plan = p /\ workspace'.sel = w.sel
    BY <2>5, <2>6, <2>7 DEF Files!Lists
  <2>9. PICK r : r = [task EXCEPT !.at = "judge"]
    OBVIOUS
  <2>10. r \in TaskRec /\ r.at = "judge" /\ r.bind = task.bind /\ r.req = task.req /\ ~r.failed /\ task' = r
    BY <1>1, <1>3, <1>5, <2>9, TaskGoesOn DEF TaskStages, Files!TaskGoes
  <2>11. PermsInv' /\ TaskInv' /\ CallInv' /\ (binding = Files!None \/ Past(binding))'
    <3>1. GoodTask(r) /\ r # Files!Idle
      BY <1>1, <2>10, TaskHas DEF GoodTask
    <3>2. TaskInv'
      BY <1>2, <2>10, <3>1 DEF TaskInv, GoodTask, Past
    <3>3. \A q : GoodCall(q) => GoodCall(q)'
      BY <1>2 DEF GoodCall, Past
    <3> QED
      BY <1>2, <3>2, <3>3 DEF FilesInv, CoreInv, PermsInv, CallInv, Past
  <2>12. ConfirmInv' /\ ClaimsInv'
    <3>1. ConfirmInv'
      BY <1>1, <1>2, <1>5 DEF FilesInv, CoreInv, ConfirmInv, ConfirmRec, Past, ClaimsInv
    <3>2. claims \in Seq([plan : 1 .. ids', by : Files!Bindings, now : Files!Bindings])
      <4>1. [plan : 1 .. ids, by : Files!Bindings, now : Files!Bindings] \subseteq [plan : 1 .. ids', by : Files!Bindings, now : Files!Bindings]
        BY <2>2
      <4>2. claims \in Seq([plan : 1 .. ids, by : Files!Bindings, now : Files!Bindings])
        BY DEF FilesInv, CoreInv, ClaimsInv
      <4> QED
        BY <4>1, <4>2, SeqsGrow
    <3>3. Files!PlanEndsOnce' /\ (\A i \in DOMAIN claims : Files!SameReview(claims[i].by, claims[i].now))'
      BY <1>2 DEF FilesInv, CoreInv, ClaimsInv, Files!PlanEndsOnce
    <3> QED
      BY <1>1, <1>2, <1>5, <2>2, <3>1, <3>2, <3>3 DEF FilesInv, CoreInv, ClaimsInv
  <2>13. SlotInv'
    <3>1. r # Files!Idle
      BY <2>10, TaskHas
    <3> QED
      BY <1>1, <1>2, <2>10, <3>1, TaskAlone DEF FilesInv, SlotInv
  <2>14. ListInv'
    <3>1. n \notin Ended
      <4>1. \A i \in DOMAIN claims : claims[i].plan \in 1 .. ids
        <5>1. claims \in Seq([plan : 1 .. ids, by : Files!Bindings, now : Files!Bindings])
          BY DEF FilesInv, CoreInv, ClaimsInv
        <5>2. \A i \in DOMAIN claims : claims[i] \in [plan : 1 .. ids, by : Files!Bindings, now : Files!Bindings]
          BY <5>1, SeqHas
        <5> QED
          BY <5>2
      <4>2. dismissed \subseteq 1 .. ids
        BY DEF FilesInv, CoreInv, ClaimsInv
      <4> QED
        BY <2>2, <4>1, <4>2 DEF Ended, Claimed
    <3>2. Ended' = Ended /\ Past(b)'
      BY <1>2, <2>3 DEF Ended, Claimed, Past
    <3> QED
      BY <2>2, <2>3, <2>5, <2>6, <2>8, <3>1, <3>2 DEF ListInv
  <2>15. VouchInv'
    <3>1. Judging' /\ task'.bind = b /\ Files!NeedsReview(task'.req.kind) /\ workspace'.plan.by = b
      BY <1>3, <2>3, <2>5, <2>8, <2>10 DEF Judging
    <3> QED
      BY <2>3, <2>10, <3>1 DEF VouchInv
  <2> QED
    BY <1>2, <2>11, <2>12, <2>13, <2>14, <2>15 DEF FilesInv, CoreInv
<1> QED
  BY <1>4, <1>5 DEF Files!StorePlan

\* A task compares the permission before its plan is looked at.
LEMMA JudgeStep == ASSUME Files!ItemsAssumption, FilesInv, Files!Judge PROVE FilesInv'
<1>1. /\ task # Files!Idle /\ task \in TaskRec /\ Past(task.bind) /\ Files!Heavy(task.req.kind) /\ task.at = "judge"
      /\ ids \in Nat /\ task.at \in TaskStages /\ (workspace = Files!None \/ workspace \in Files!Lists) /\ task.failed \in BOOLEAN
      /\ operation \in Files!Busy \cup {"none", "completed", "cancelled", "failed"}
  <2>1. task.at = "judge"
    BY DEF Files!Judge
  <2> QED
    BY <2>1, TaskKnown
<1>2. UNCHANGED <<grant, cleanup, scopeEpoch, cleanupEpoch, call, confirm, claims, dismissed, filesSlot, ids>>
  BY DEF Files!Judge, Files!Keep, Files!perms
<1>3. Files!Lists' = Files!Lists /\ ids' \in Nat /\ ids <= ids'
  BY <1>1, <1>2 DEF Files!Lists, Files!Plans
<1>4. ASSUME NEW a \in TaskStages, a \in {"record", "finish"}, Files!TaskGoes(a)
      PROVE  \E r \in TaskRec : task' = r /\ r.at = a /\ GoodTask(r) /\ r # Files!Idle
  <2>1. PICK r : r = [task EXCEPT !.at = a]
    OBVIOUS
  <2>2. r \in TaskRec /\ r.at = a /\ r.bind = task.bind /\ r.req = task.req
    BY <1>1, <2>1, TaskGoesOn
  <2>3. GoodTask(r) /\ r # Files!Idle
    BY <1>1, <1>4, <2>2, TaskHas DEF GoodTask
  <2> QED
    BY <1>4, <2>1, <2>2, <2>3 DEF Files!TaskGoes
<1>5. CASE Files!Invalidate /\ Files!TaskGoes("finish")
  <2>1. PICK r \in TaskRec : task' = r /\ r.at = "finish" /\ GoodTask(r) /\ r # Files!Idle
    BY <1>4, <1>5 DEF TaskStages
  <2> QED
    BY <1>1, <1>2, <1>3, <1>5, <2>1, TaskKeeps DEF Files!Invalidate, HasPlan
<1>6. CASE task.failed /\ workspace' = Files!None /\ Files!TaskGoes("record") /\ UNCHANGED <<binding, operation>>
  <2>1. PICK r \in TaskRec : task' = r /\ r.at = "record" /\ GoodTask(r) /\ r # Files!Idle
    BY <1>4, <1>6 DEF TaskStages
  <2> QED
    BY <1>1, <1>2, <1>3, <1>6, <2>1, TaskKeeps DEF HasPlan
<1>7. CASE /\ Files!BindingCurrent(task.bind, Files!NeedsReview(task.req.kind)) /\ ~task.failed /\ Files!TaskGoes("record")
           /\ UNCHANGED <<binding, operation, workspace>>
  <2>1. PICK r \in TaskRec : task' = r /\ r.at = "record" /\ GoodTask(r) /\ r # Files!Idle
    BY <1>4, <1>7 DEF TaskStages
  <2>2. HasPlan => InForce(workspace.plan.by)
    <3>1. SUFFICES ASSUME HasPlan PROVE InForce(workspace.plan.by)
      OBVIOUS
    <3>2. workspace.plan.by = task.bind /\ Files!NeedsReview(task.req.kind)
      BY <1>1, <1>7, <3>1 DEF FilesInv, CoreInv, VouchInv, Judging
    <3>3. Files!NeedsReview(task.req.kind) \in BOOLEAN
      BY DEF Files!NeedsReview
    <3>4. InForce(task.bind)
      BY <1>1, <1>7, <3>2, <3>3, CurrentIsInForce
    <3> QED
      BY <3>2, <3>4
  <2>3. HasPlan' => HasPlan /\ ~Judging'
    BY <1>7, <2>1 DEF HasPlan, Judging
  <2> QED
    BY <1>1, <1>2, <1>3, <1>7, <2>1, <2>2, <2>3, TaskKeeps
<1> QED
  BY <1>1, <1>5, <1>6, <1>7 DEF Files!Judge

\* The outcome is shown, and the slot given back.
LEMMA EndStep ==
  ASSUME Files!ItemsAssumption, FilesInv, Files!Record \/ Files!Finish
  PROVE  FilesInv'
<1>1. /\ task # Files!Idle /\ task \in TaskRec /\ Past(task.bind) /\ Files!Heavy(task.req.kind) /\ task.at \in {"record", "finish"}
      /\ ids \in Nat /\ task.at \in TaskStages /\ (workspace = Files!None \/ workspace \in Files!Lists)
      /\ operation \in Files!Busy \cup {"none", "completed", "cancelled", "failed"}
  <2>1. task.at \in {"record", "finish"}
    BY DEF Files!Record, Files!Finish
  <2> QED
    BY <2>1, TaskKnown
<1>2. UNCHANGED <<grant, cleanup, scopeEpoch, cleanupEpoch, call, confirm, claims, dismissed, binding, workspace, ids>>
  BY DEF Files!Record, Files!Finish, Files!Keep, Files!perms, Files!files
<1>3. Files!Lists' = Files!Lists /\ ids' \in Nat /\ ids <= ids' /\ ~Judging
  BY <1>1, <1>2 DEF Files!Lists, Files!Plans, Judging
<1>4. CASE Files!Record
  <2>1. PICK r : r = [task EXCEPT !.at = "finish"]
    OBVIOUS
  <2>2. r \in TaskRec /\ r.at = "finish" /\ r.bind = task.bind /\ r.req = task.req
    BY <1>1, <2>1, TaskGoesOn DEF TaskStages
  <2>3. GoodTask(r) /\ r # Files!Idle /\ task' = r
    BY <1>1, <1>4, <2>1, <2>2, TaskHas DEF GoodTask, Files!Record, Files!TaskGoes
  <2>4. operation' \in {"completed", "cancelled", "failed"} /\ UNCHANGED filesSlot
    BY <1>4 DEF Files!Record
  <2>5. HasPlan' => ~Judging'
    BY <2>2, <2>3 DEF Judging
  <2> QED
    BY <1>1, <1>2, <1>3, <2>2, <2>3, <2>4, <2>5, TaskKeeps
<1>5. CASE Files!Finish
  <2>1. PICK r : r = Files!Idle /\ r.at = "idle"
    BY Nones
  <2>2. task' = r /\ filesSlot' = Files!Free /\ operation' = operation /\ GoodTask(r)
    BY <1>5, <2>1 DEF Files!Finish, Files!files, GoodTask
  <2>3. ~Judging'
    BY <2>1, <2>2 DEF Judging
  <2>4. r.at \notin {"scan", "store", "name", "prepare", "verify", "plan"}
    BY <2>1
  <2>5. workspace' = Files!None \/ workspace' \in Files!Lists'
    BY <1>1, <1>2, <1>3
  <2>6. binding' \in {binding, Files!None} /\ operation' \in Files!Busy \cup {"none", "completed", "cancelled", "failed"}
    BY <1>1, <1>2, <2>2
  <2>7. HasPlan' => UNCHANGED <<binding, workspace, ids>> /\ ~Judging /\ ~Judging'
    BY <1>2, <1>3, <2>3
  <2>8. HasPlan' => /\ UNCHANGED <<binding, workspace, ids>>
                    /\ r.at \notin {"scan", "store", "name", "prepare", "verify", "plan"}
                    /\ ~Judging /\ ~Judging'
    BY <2>4, <2>7
  <2>9. (r = Files!Idle /\ filesSlot' = Files!Free) \/ (r # Files!Idle /\ UNCHANGED filesSlot)
    BY <2>1, <2>2
  <2>10. /\ task # Files!Idle /\ task' = r /\ GoodTask(r) /\ ids' \in Nat /\ ids <= ids'
         /\ UNCHANGED <<grant, cleanup, scopeEpoch, cleanupEpoch, call, confirm, claims, dismissed>>
    BY <1>1, <1>2, <1>3, <2>2
  <2> QED
    BY <2>5, <2>6, <2>8, <2>9, <2>10, TaskKeeps
<1> QED
  BY <1>4, <1>5

LEMMA StopStep == ASSUME Files!ItemsAssumption, FilesInv, Files!StopTask PROVE FilesInv'
<1>1. /\ task # Files!Idle /\ task \in TaskRec /\ Past(task.bind) /\ Files!Heavy(task.req.kind)
      /\ ids \in Nat /\ (workspace = Files!None \/ workspace \in Files!Lists)
      /\ operation \in Files!Busy \cup {"none", "completed", "cancelled", "failed"}
  <2>1. task.at # "idle"
    BY DEF Files!StopTask
  <2> QED
    BY <2>1, TaskKnown
<1>2. UNCHANGED <<grant, cleanup, scopeEpoch, cleanupEpoch, call, confirm, claims, dismissed, binding, operation,
                  workspace, filesSlot, ids>>
  BY DEF Files!StopTask, Files!Keep, Files!perms, Files!files
<1>3. Files!Lists' = Files!Lists /\ ids' \in Nat /\ ids <= ids'
  BY <1>1, <1>2 DEF Files!Lists, Files!Plans
<1>4. PICK r : r = [task EXCEPT !.stop = TRUE]
  OBVIOUS
<1>5. /\ r \in TaskRec /\ r.at = task.at /\ r.bind = task.bind /\ r.req = task.req /\ r.failed = task.failed
      /\ (task \in Below => r \in Below) /\ (task \in Listed => r \in Listed)
  BY <1>1, <1>4, TaskStops
<1>6. GoodTask(task)
  BY DEF FilesInv, CoreInv, TaskInv
<1>7. GoodTask(r) /\ r # Files!Idle /\ task' = r
  <2>1. r # Files!Idle /\ task' = r
    BY <1>4, <1>5, TaskHas DEF Files!StopTask
  <2>2. GoodTask(r)
    BY <1>1, <1>5, <1>6 DEF GoodTask
  <2> QED
    BY <2>1, <2>2
<1>8. HasPlan' => /\ r.at \notin {"scan", "store", "name", "prepare", "verify", "plan"}
                  /\ (Judging' <=> Judging)
  BY <1>2, <1>5, <1>7 DEF HasPlan, Judging, FilesInv, CoreInv, VouchInv
<1> QED
  BY <1>1, <1>2, <1>3, <1>5, <1>7, <1>8, TaskKeeps
-----------------------------------------------------------------------------
(* The main window.                                                          *)

\* A step of a confirmation that ends nothing and keeps the plan or drops it.
LEMMA ConfirmKeeps ==
  ASSUME Files!ItemsAssumption, FilesInv,
         UNCHANGED <<grant, cleanup, scopeEpoch, cleanupEpoch, call, task, ids, claims, dismissed>>,
         binding' \in {binding, Files!None}, operation' \in Files!Busy \cup {"none", "completed", "cancelled", "failed"},
         NEW r, confirm' = r, r = Files!Idle \/ (r \in ConfirmRec /\ Past(r.bind) /\ r.plan <= ids),
         r.at \in {"check", "claim"} =>
           \/ confirm.at \in {"check", "claim"} /\ r.bind = confirm.bind /\ r.plan = confirm.plan
           \/ r.bind = binding /\ binding # Files!None,
         \/ UNCHANGED filesSlot /\ (r.at \in {"claim", "move", "outcome"} => confirm.at \in {"claim", "move", "outcome"})
         \/ filesSlot = Files!Free /\ filesSlot' = "confirm"
         \/ filesSlot = "confirm" /\ filesSlot' = Files!Free /\ r = Files!Idle,
         workspace' \in {workspace, Files!None}
  PROVE  FilesInv'
<1>1. PermsInv' /\ TaskInv' /\ CallInv' /\ (binding = Files!None \/ Past(binding))'
  <2>1. \A q : GoodCall(q) => GoodCall(q)'
    BY DEF GoodCall, Past
  <2> QED
    BY <2>1 DEF FilesInv, CoreInv, PermsInv, CallInv, Past, TaskInv, GoodTask
<1>2. ConfirmInv' /\ ClaimsInv'
  BY DEF FilesInv, CoreInv, ConfirmInv, ClaimsInv, Files!PlanEndsOnce, Past
<1>3. SlotInv'
  BY Nones DEF FilesInv, SlotInv, Files!Free, Files!ItemsAssumption
<1>4. ListInv'
  <2>1. Files!Lists' = Files!Lists
    BY DEF Files!Lists, Files!Plans
  <2> QED
    BY <2>1 DEF FilesInv, CoreInv, ListInv, HasPlan, Ended, Claimed, Past
<1>5. VouchInv'
  BY DEF FilesInv, CoreInv, VouchInv, HasPlan, Judging, InForce
<1> QED
  BY <1>1, <1>2, <1>3, <1>4, <1>5 DEF FilesInv, CoreInv

LEMMA ConfirmKnown ==
  ASSUME FilesInv, confirm.at # "idle"
  PROVE  confirm \in ConfirmRec /\ Past(confirm.bind) /\ confirm.plan <= ids
BY Nones DEF FilesInv, CoreInv, ConfirmInv

LEMMA ConfirmGoes ==
  ASSUME NEW r, r \in ConfirmRec, NEW a \in {"claim", "move", "outcome"}, NEW q, q = [r EXCEPT !.at = a]
  PROVE  q \in ConfirmRec /\ q.at = a /\ q.bind = r.bind /\ q.plan = r.plan
BY DEF ConfirmRec

LEMMA ConfirmBegins == ASSUME Files!ItemsAssumption, FilesInv, Files!ConfirmRead PROVE FilesInv'
<1>1. UNCHANGED <<grant, cleanup, scopeEpoch, cleanupEpoch, binding, operation, workspace, filesSlot, call, task, ids,
                  claims, dismissed>>
  BY DEF Files!ConfirmRead, Files!perms, Files!files
<1>2. binding # Files!None /\ Past(binding) /\ binding \in Files!Bindings /\ ids \in Nat
      /\ operation \in Files!Busy \cup {"none", "completed", "cancelled", "failed"}
  BY PastHas DEF Files!ConfirmRead, FilesInv, CoreInv, ClaimsInv
<1>3. PICK plan \in 1 .. ids : \E rev \in 1 .. ids :
        confirm' = [at |-> "check", bind |-> binding, rev |-> rev, plan |-> plan]
  BY DEF Files!ConfirmRead
<1>4. PICK rev \in 1 .. ids : confirm' = [at |-> "check", bind |-> binding, rev |-> rev, plan |-> plan]
  BY <1>3
<1>5. PICK b : b = binding
  OBVIOUS
<1>6. PICK r : r = [at |-> "check", bind |-> b, rev |-> rev, plan |-> plan]
  OBVIOUS
<1>7. r \in ConfirmRec /\ r.at = "check" /\ r.bind = b /\ r.plan = plan
  BY <1>2, <1>5, <1>6 DEF ConfirmRec
<1>8. Past(r.bind) /\ r.plan <= ids /\ confirm' = r
  BY <1>2, <1>4, <1>5, <1>6, <1>7
<1> QED
  BY <1>1, <1>2, <1>5, <1>7, <1>8, ConfirmKeeps

LEMMA ConfirmCheckStep == ASSUME Files!ItemsAssumption, FilesInv, Files!ConfirmCheck PROVE FilesInv'
<1>1. /\ UNCHANGED <<grant, cleanup, scopeEpoch, cleanupEpoch, call, task, ids, claims, dismissed>>
      /\ confirm.at = "check"
  BY DEF Files!ConfirmCheck, Files!perms
<1>2. confirm \in ConfirmRec /\ Past(confirm.bind) /\ confirm.plan <= ids
  BY <1>1, ConfirmKnown
<1>3. operation \in Files!Busy \cup {"none", "completed", "cancelled", "failed"} /\ "none" \in Files!Busy \cup {"none"}
  BY DEF FilesInv, CoreInv
<1>4. CASE filesSlot = Files!Free /\ filesSlot' = "confirm" /\ confirm' = [confirm EXCEPT !.at = "claim"] /\ UNCHANGED Files!files
  <2>1. PICK q : q = [confirm EXCEPT !.at = "claim"]
    OBVIOUS
  <2>2. q \in ConfirmRec /\ q.at = "claim" /\ q.bind = confirm.bind /\ q.plan = confirm.plan
    BY <1>2, <2>1, ConfirmGoes
  <2>3. Past(q.bind) /\ q.plan <= ids /\ confirm' = q
    BY <1>2, <1>4, <2>1, <2>2
  <2> QED
    BY <1>1, <1>3, <1>4, <2>2, <2>3, ConfirmKeeps DEF Files!files
<1>5. CASE confirm' = Files!Idle /\ UNCHANGED filesSlot /\ (UNCHANGED Files!files \/ Files!Invalidate)
  <2>1. PICK q : q = Files!Idle /\ q.at = "idle"
    BY Nones
  <2>2. /\ binding' \in {binding, Files!None} /\ workspace' \in {workspace, Files!None}
        /\ operation' \in Files!Busy \cup {"none", "completed", "cancelled", "failed"}
    BY <1>3, <1>5 DEF Files!files, Files!Invalidate
  <2>3. confirm' = q
    BY <1>5, <2>1
  <2> QED
    BY <1>1, <1>5, <2>1, <2>2, <2>3, ConfirmKeeps
<1> QED
  BY <1>4, <1>5 DEF Files!ConfirmCheck

LEMMA ConfirmEndStep ==
  ASSUME Files!ItemsAssumption, FilesInv, Files!ConfirmMove \/ Files!ConfirmOutcome
  PROVE  FilesInv'
<1>1. /\ UNCHANGED <<grant, cleanup, scopeEpoch, cleanupEpoch, call, task, ids, claims, dismissed>>
      /\ confirm.at \in {"move", "outcome"}
  BY DEF Files!ConfirmMove, Files!ConfirmOutcome, Files!perms
<1>2. confirm \in ConfirmRec /\ Past(confirm.bind) /\ confirm.plan <= ids
  BY <1>1, ConfirmKnown
<1>3. operation \in Files!Busy \cup {"none", "completed", "cancelled", "failed"}
  BY DEF FilesInv, CoreInv
<1>4. filesSlot = "confirm"
  BY <1>1 DEF FilesInv, SlotInv
<1>5. CASE Files!ConfirmMove
  <2>1. PICK q : q = [confirm EXCEPT !.at = "outcome"]
    OBVIOUS
  <2>2. q \in ConfirmRec /\ q.at = "outcome" /\ q.bind = confirm.bind /\ q.plan = confirm.plan
    BY <1>2, <2>1, ConfirmGoes
  <2>3. Past(q.bind) /\ q.plan <= ids /\ confirm' = q
    BY <1>2, <1>5, <2>1, <2>2 DEF Files!ConfirmMove
  <2>4. workspace' = Files!None /\ UNCHANGED <<binding, operation, filesSlot>>
    BY <1>5 DEF Files!ConfirmMove, Files!Forget
  <2> QED
    BY <1>1, <1>3, <2>2, <2>3, <2>4, ConfirmKeeps
<1>6. CASE Files!ConfirmOutcome
  <2>1. PICK q : q = Files!Idle /\ q.at = "idle"
    BY Nones
  <2>2. /\ binding' \in {binding, Files!None} /\ workspace' \in {workspace, Files!None}
        /\ operation' \in Files!Busy \cup {"none", "completed", "cancelled", "failed"}
    BY <1>6 DEF Files!ConfirmOutcome, Files!Invalidate
  <2>3. confirm' = q /\ filesSlot' = Files!Free
    BY <1>6, <2>1 DEF Files!ConfirmOutcome
  <2> QED
    BY <1>1, <1>4, <2>1, <2>2, <2>3, ConfirmKeeps
<1> QED
  BY <1>5, <1>6

\* A claim: the confirmation names the plan and is bound to the permission in
\* force, so the plan was made under it; the plan is consumed by the claim.
LEMMA ClaimStep == ASSUME Files!ItemsAssumption, FilesInv, Files!ConfirmClaim PROVE FilesInv'
<1>1. /\ UNCHANGED <<grant, cleanup, scopeEpoch, cleanupEpoch, binding, call, task, ids, dismissed>>
      /\ confirm.at = "claim"
  BY DEF Files!ConfirmClaim, Files!perms
<1>2. confirm \in ConfirmRec /\ Past(confirm.bind) /\ confirm.plan <= ids
  BY <1>1, ConfirmKnown
<1>3. operation \in Files!Busy \cup {"none", "completed", "cancelled", "failed"}
  BY DEF FilesInv, CoreInv
<1>4. filesSlot = "confirm" /\ task = Files!Idle
  BY <1>1 DEF FilesInv, SlotInv
<1>5. CASE confirm' = Files!Idle /\ filesSlot' = Files!Free /\ UNCHANGED <<workspace, operation, claims>>
  <2>1. PICK q : q = Files!Idle /\ q.at = "idle"
    BY Nones
  <2>2. confirm' = q
    BY <1>5, <2>1
  <2> QED
    BY <1>1, <1>3, <1>4, <1>5, <2>1, <2>2, ConfirmKeeps
<1>6. CASE /\ grant # Files!NoRoot /\ Files!SameReview(confirm.bind, Files!Binding) /\ Files!Claimable
           /\ claims' = Append(claims, [plan |-> confirm.plan, by |-> workspace.plan.by, now |-> Files!Binding])
           /\ workspace' = Files!Consumed /\ operation' = "executing" /\ confirm' = [confirm EXCEPT !.at = "move"]
           /\ UNCHANGED filesSlot
  <2>1. workspace \in Files!Lists /\ HasPlan /\ workspace.plan.id = confirm.plan /\ workspace # Files!None
    BY <1>6 DEF Files!Claimable, Files!At, HasPlan, FilesInv, CoreInv, ListInv
  <2>2. ~Judging
    BY <1>4, Nones DEF Judging
  <2>3. InForce(confirm.bind) /\ cleanup
    BY <1>6 DEF Files!SameReview, Files!SameScope, Files!Binding, InForce
  <2>4. InForce(workspace.plan.by)
    BY <1>1, <2>1, <2>2, <2>3 DEF FilesInv, CoreInv, VouchInv
  <2>5. Past(workspace.plan.by) /\ workspace.plan.id \in (1 .. ids) \ Ended
    BY <2>1 DEF FilesInv, CoreInv, ListInv
  <2>6. PICK p, b, now : /\ p = confirm.plan /\ b = workspace.plan.by /\ now = Files!Binding
                         /\ p \in 1 .. ids /\ p \notin Ended /\ b \in Files!Bindings /\ now \in Files!Bindings
                         /\ Files!SameReview(b, now)
    <3>1. workspace.plan.by \in Files!Bindings /\ Files!Binding \in Files!Bindings
      BY <1>6, <2>5, NowIsPast, PastHas DEF FilesInv, CoreInv
    <3>2. Files!SameReview(workspace.plan.by, Files!Binding)
      BY <2>3, <2>4, <2>5 DEF Files!SameReview, Files!SameScope, Files!Binding, InForce, Past
    <3> QED
      BY <2>1, <2>5, <3>1, <3>2
  <2>7. PICK e : e = [plan |-> p, by |-> b, now |-> now]
    OBVIOUS
  <2>8. e \in [plan : 1 .. ids, by : Files!Bindings, now : Files!Bindings] /\ e.plan = p /\ e.by = b /\ e.now = now
    BY <2>6, <2>7
  <2>9. claims' = Append(claims, e)
    BY <1>6, <2>6, <2>7
  <2>10. claims \in Seq([plan : 1 .. ids, by : Files!Bindings, now : Files!Bindings])
    BY DEF FilesInv, CoreInv, ClaimsInv
  <2>11. PICK k \in Nat : /\ k = Len(claims) /\ DOMAIN claims = 1 .. k /\ DOMAIN claims' = 1 .. k + 1
                          /\ claims'[k + 1] = e /\ \A i \in 1 .. k : claims'[i] = claims[i]
    BY <2>8, <2>9, <2>10
  <2>12. ClaimsInv'
    <3>1. claims' \in Seq([plan : 1 .. ids, by : Files!Bindings, now : Files!Bindings])
      BY <2>8, <2>9, <2>10
    <3>2. /\ \A i \in 1 .. k : claims[i].plan # p /\ claims[i].plan \notin dismissed
          /\ p \notin dismissed
      BY <2>6, <2>11 DEF Ended, Claimed, FilesInv, CoreInv, ClaimsInv, Files!PlanEndsOnce
    <3>3. \A i, j \in 1 .. k : claims[i].plan = claims[j].plan => i = j
      BY <2>11 DEF FilesInv, CoreInv, ClaimsInv, Files!PlanEndsOnce
    <3>4. Files!PlanEndsOnce'
      <4>1. SUFFICES ASSUME NEW i \in 1 .. k + 1
                     PROVE  /\ claims'[i].plan \notin dismissed
                            /\ \A j \in 1 .. k + 1 : claims'[i].plan = claims'[j].plan => i = j
        BY <1>1, <2>11 DEF Files!PlanEndsOnce
      <4>2. \A j \in 1 .. k + 1 : j = k + 1 \/ j \in 1 .. k
        OBVIOUS
      <4> QED
        BY <2>8, <2>11, <3>2, <3>3, <4>2
    <3>5. \A i \in 1 .. k + 1 : Files!SameReview(claims'[i].by, claims'[i].now)
      <4>1. \A i \in 1 .. k : Files!SameReview(claims[i].by, claims[i].now)
        BY <2>11 DEF FilesInv, CoreInv, ClaimsInv
      <4>2. \A i \in 1 .. k + 1 : i = k + 1 \/ i \in 1 .. k
        OBVIOUS
      <4> QED
        BY <2>6, <2>8, <2>11, <4>1, <4>2
    <3>6. (\A i \in DOMAIN claims : Files!SameReview(claims[i].by, claims[i].now))'
      BY <2>11, <3>5 DEF Files!SameReview, Files!SameScope
    <3> QED
      BY <1>1, <3>1, <3>4, <3>6 DEF ClaimsInv, FilesInv, CoreInv
  <2>13. workspace' \in Files!Lists' /\ ~HasPlan'
    <3>1. Files!NoPlan \in Files!Plans /\ Files!Lists' = Files!Lists
      BY <1>1 DEF Files!Plans, Files!Lists
    <3> QED
      BY <1>6, <2>1, <3>1 DEF Files!Consumed, Files!Lists, HasPlan
  <2>14. PICK q : q = [confirm EXCEPT !.at = "move"]
    OBVIOUS
  <2>15. q \in ConfirmRec /\ q.at = "move" /\ q.bind = confirm.bind /\ q.plan = confirm.plan /\ confirm' = q
    BY <1>2, <1>6, <2>14, ConfirmGoes
  <2>16. PermsInv' /\ TaskInv' /\ CallInv' /\ (binding = Files!None \/ Past(binding))' /\ ConfirmInv'
    <3>1. \A c : GoodCall(c) => GoodCall(c)'
      BY <1>1 DEF GoodCall, Past
    <3>2. ConfirmInv'
      BY <1>1, <1>2, <2>15 DEF ConfirmInv, Past
    <3> QED
      BY <1>1, <3>1, <3>2 DEF FilesInv, CoreInv, PermsInv, CallInv, Past, TaskInv, GoodTask
  <2>17. SlotInv'
    BY <1>1, <1>4, <1>6, <2>15 DEF FilesInv, SlotInv
  <2>18. ListInv' /\ VouchInv'
    BY <1>1, <1>4, <2>13, Nones DEF ListInv, VouchInv
  <2> QED
    BY <1>1, <1>6, <2>12, <2>16, <2>17, <2>18 DEF FilesInv, CoreInv, Files!Busy
<1> QED
  BY <1>5, <1>6 DEF Files!ConfirmClaim

\* A dismissal drops the selection with its plan.
LEMMA DismissStep == ASSUME Files!ItemsAssumption, FilesInv, Files!Dismiss PROVE FilesInv'
<1>1. UNCHANGED <<grant, cleanup, scopeEpoch, cleanupEpoch, binding, filesSlot, call, task, confirm, ids, claims>>
  BY DEF Files!Dismiss, Files!perms
<1>2. HasPlan /\ operation' = "cancelled" /\ workspace \in Files!Lists /\ dismissed' = dismissed \cup {workspace.plan.id}
  BY DEF Files!Dismiss, HasPlan, FilesInv, CoreInv, ListInv
<1>3. workspace.plan.id \in (1 .. ids) \ Ended
  BY <1>2 DEF FilesInv, CoreInv, ListInv
<1>4. workspace' \in Files!Lists' /\ ~HasPlan'
  <2>1. workspace' \in Files!Lists /\ workspace'.plan = Files!NoPlan
    BY <1>2, ChosenHas DEF Files!Dismiss
  <2> QED
    BY <1>1, <2>1 DEF Files!Lists, Files!Plans, HasPlan
<1>5. PermsInv' /\ TaskInv' /\ CallInv' /\ (binding = Files!None \/ Past(binding))' /\ ConfirmInv' /\ SlotInv'
  <2>1. \A c : GoodCall(c) => GoodCall(c)'
    BY <1>1 DEF GoodCall, Past
  <2> QED
    BY <1>1, <2>1 DEF FilesInv, CoreInv, PermsInv, CallInv, Past, TaskInv, GoodTask, ConfirmInv,
       SlotInv
<1>6. ClaimsInv'
  <2>1. Files!PlanEndsOnce'
    BY <1>1, <1>2, <1>3 DEF FilesInv, CoreInv, ClaimsInv, Files!PlanEndsOnce, Ended, Claimed
  <2>2. dismissed' \subseteq 1 .. ids
    BY <1>2, <1>3 DEF FilesInv, CoreInv, ClaimsInv
  <2> QED
    BY <1>1, <2>1, <2>2 DEF FilesInv, CoreInv, ClaimsInv
<1>7. ListInv' /\ VouchInv'
  BY <1>1, <1>4 DEF FilesInv, CoreInv, ListInv, VouchInv
<1> QED
  BY <1>1, <1>2, <1>5, <1>6, <1>7 DEF FilesInv, CoreInv

-----------------------------------------------------------------------------
(* Theorems.                                                                 *)

LEMMA FilesBegin == ASSUME Files!ItemsAssumption, Files!Init PROVE FilesInv
<1>1. /\ grant = Files!NoRoot /\ cleanup = FALSE /\ scopeEpoch = 0 /\ cleanupEpoch = 0 /\ binding = Files!None
      /\ operation = "none" /\ workspace = Files!None /\ filesSlot = Files!Free /\ call = [c \in Calls |-> Files!Idle]
      /\ task = Files!Idle /\ confirm = Files!Idle /\ ids = 0 /\ claims = <<>> /\ dismissed = {}
  BY DEF Files!Init
<1>2. PermsInv
  <2>1. cleanup \in BOOLEAN /\ grant \in Roots \cup {Files!NoRoot}
    BY <1>1
  <2>2. scopeEpoch \in Nat /\ cleanupEpoch \in Nat /\ scopeEpoch + cleanupEpoch <= MaxChanges
    BY <1>1 DEF Files!ItemsAssumption
  <2> QED
    BY <2>1, <2>2 DEF PermsInv
<1>3. CallInv /\ SlotInv
  BY <1>1, Nones DEF CallInv, GoodCall, SlotInv
<1>4. TaskInv /\ ConfirmInv
  BY <1>1 DEF TaskInv, GoodTask, ConfirmInv
<1>5. ClaimsInv
  <2>1. claims \in Seq([plan : 1 .. ids, by : Files!Bindings, now : Files!Bindings]) /\ DOMAIN claims = {}
    BY <1>1
  <2> QED
    BY <1>1, <2>1 DEF ClaimsInv, Files!PlanEndsOnce
<1>6. ListInv /\ VouchInv
  BY <1>1, Nones DEF ListInv, VouchInv, HasPlan
<1> QED
  BY <1>1, <1>2, <1>3, <1>4, <1>5, <1>6 DEF FilesInv, CoreInv

LEMMA FilesStep == ASSUME Files!ItemsAssumption, FilesInv, [Files!Next]_(Files!vars) PROVE FilesInv'
<1>1. ASSUME NEW c \in Calls, Files!CallSteps(c) PROVE FilesInv'
  BY <1>1, ReadBindingStep, BindStep, AnswerStep, PassStep, SpawnStep, LightStep, AfterLightStep
     DEF Files!CallSteps
<1>2. CASE Files!TaskSteps
  BY <1>2, ScanStep, StoreStep, SelectStep, PrepareStep, VerifyStep, PlanStep, JudgeStep, EndStep
     DEF Files!TaskSteps
<1>3. CASE Files!ConfirmSteps
  BY <1>3, ConfirmCheckStep, ClaimStep, ConfirmEndStep DEF Files!ConfirmSteps
<1>4. ASSUME NEW root \in Roots \cup {Files!NoRoot}, Files!SetScope(root) PROVE FilesInv'
  BY <1>4, GrantChangeStep
<1>5. CASE Files!SetCleanup
  BY <1>5, GrantChangeStep
<1>6. CASE UNCHANGED Files!vars
  <2>1. UNCHANGED <<grant, cleanup, scopeEpoch, cleanupEpoch, binding, operation, workspace, filesSlot, call, task, confirm,
                    ids, claims, dismissed>>
    BY <1>6 DEF Files!vars, Files!perms, Files!files
  <2>2. CallInv' /\ SlotInv'
    <3>1. \A q : GoodCall(q) => GoodCall(q)'
      BY <2>1 DEF GoodCall, Past
    <3> QED
      BY <2>1, <3>1 DEF FilesInv, CallInv, SlotInv
  <2>3. CoreInv'
    BY <2>1, CoreKeeps DEF FilesInv, CoreInv, HasPlan, ListInv
  <2> QED
    BY <2>2, <2>3 DEF FilesInv
<1> QED
  BY <1>1, <1>2, <1>3, <1>4, <1>5, <1>6, StopStep, ConfirmBegins, DismissStep DEF Files!Next

LEMMA FilesAlways == ASSUME Files!ItemsAssumption PROVE Files!Spec => []FilesInv
<1>1. Files!Init => FilesInv
  BY FilesBegin
<1>2. FilesInv /\ [Files!Next]_(Files!vars) => FilesInv'
  BY FilesStep
<1> QED
  BY <1>1, <1>2, PTL DEF Files!Spec

\* TypeOK of the workspace: with the epochs below their bound.
LEMMA FilesTypes == ASSUME Files!ItemsAssumption, FilesInv PROVE Files!TypeOK
<1>1. scopeEpoch \in Files!Epochs /\ cleanupEpoch \in Files!Epochs
  BY DEF FilesInv, CoreInv, PermsInv, Files!Epochs, Files!ItemsAssumption
<1>2. binding = Files!None \/ binding \in Files!Bindings
  BY DEF FilesInv, CoreInv, Past
<1>3. \A c \in Calls : call[c].at \in {"idle", "bind", "bound", "view", "reserve", "reserved",
                                     "light", "apply", "applied", "clear", "cleared", "done"}
  <2>1. \A r \in CallRec : r.at \in CallStages
    BY DEF CallRec
  <2> QED
    BY <2>1 DEF FilesInv, CallInv, GoodCall, CallStages
<1>4. task.at \in {"idle", "start", "scan", "store", "name", "prepare", "verify", "plan",
                  "judge", "record", "finish"}
  BY Nones, TaskHas DEF FilesInv, CoreInv, TaskInv, GoodTask, TaskStages
<1>5. confirm.at \in {"idle", "check", "claim", "move", "outcome"}
  BY Nones DEF FilesInv, CoreInv, ConfirmInv, ConfirmRec
<1>6. \A i \in DOMAIN claims : claims[i].by \in Files!Bindings /\ claims[i].now \in Files!Bindings
  <2>1. claims \in Seq([plan : 1 .. ids, by : Files!Bindings, now : Files!Bindings])
    BY DEF FilesInv, CoreInv, ClaimsInv
  <2>2. \A i \in DOMAIN claims : claims[i] \in [plan : 1 .. ids, by : Files!Bindings, now : Files!Bindings]
    BY <2>1, SeqHas
  <2> QED
    BY <2>2
<1> QED
  BY <1>1, <1>2, <1>3, <1>4, <1>5, <1>6 DEF Files!TypeOK, FilesInv, CoreInv, PermsInv, ListInv,
     SlotInv, ClaimsInv

\* The variables of the workspace keep their types, and the slot is with one of
\* those that may hold it.
THEOREM FilesTyped == ASSUME Files!ItemsAssumption PROVE Files!Spec => []Files!TypeOK
BY FilesAlways, FilesTypes, PTL

\* What the invariant says of the plan that can be confirmed.
LEMMA PlansAreCurrent == ASSUME Files!ItemsAssumption PROVE FilesInv => Files!PlanIsCurrent
BY DEF FilesInv, CoreInv, ClaimsInv, ListInv, HasPlan, Files!PlanIsCurrent

\* What the window can confirm is what is selected, and every plan it claimed
\* was made under the folder, the epochs and the approval in force at the claim
\* (confirm_external_file_plan, finish_file_workspace_operation).
THEOREM PlanWasCurrent == ASSUME Files!ItemsAssumption PROVE Files!Spec => []Files!PlanIsCurrent
BY PlansAreCurrent, FilesAlways, PTL

\* What the invariant says of plans that ended.
LEMMA PlansEnd == ASSUME Files!ItemsAssumption PROVE FilesInv => Files!PlanEndsOnce
BY DEF FilesInv, CoreInv, ClaimsInv

\* A plan is moved at most once, and never after it was dismissed.
THEOREM PlanEnds == ASSUME Files!ItemsAssumption PROVE Files!Spec => []Files!PlanEndsOnce
BY PlansEnd, FilesAlways, PTL
==============================================================================
