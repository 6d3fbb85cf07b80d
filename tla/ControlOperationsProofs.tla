----------------------- MODULE ControlOperationsProofs -----------------------
(***************************************************************************)
(* Proofs about the jobs and the moves: ControlOperations, for any number  *)
(* of jobs, callers and records kept; EmptyTrash, for any requests;        *)
(* ApplicationRemoval, for any applications and lists; DuplicateTrash and  *)
(* FolderSnapshot, for any files and any changes by others; NativeFiles,   *)
(* for any commands of a conversation and changes of its mode.             *)
(***************************************************************************)
EXTENDS ControlOperations, Integers, SequenceTheorems, FiniteSetTheorems,
        WellFoundedInduction, TLAPS

\* What the proofs need of the types.
Typed ==
  /\ active \in Ops \cup {NoWork} /\ marked \subseteq Ops
  /\ stopped \in BOOLEAN /\ committing \in BOOLEAN
  /\ stage \in [Ops -> Stages]
  /\ kind \in [Ops -> {"scan", "index"}]
  /\ outcome \in [Ops -> Outcomes \cup {"none"}]
  /\ request \in [Ops -> Requests \cup {NoRequest}]
  /\ requests \in Seq(Requests \X Ops)
  /\ pc \in [Callers -> Places]
  /\ ref \in [Callers -> Ops \cup {NoWork}]

Holding == {"reserved", "started", "running", "committed", "worked", "finished"}
Visible == {"started", "running", "committed", "worked"}

\* A job holds the slot from its reservation to its release, and is active from
\* its start to its record.
HolderIsReserved == \A o \in Ops : stage[o] \in Holding <=> holder = o
ActiveIsVisible == \A o \in Ops : stage[o] \in Visible <=> active = o

\* The slot is never both stopped and committing.
StopOrCommit == ~(stopped /\ committing)

\* A scan that stored its report is the committing one while it has the slot.
StoredCommits ==
  \A o \in Ops :
    /\ stage[o] = "committed" => committing
    /\ outcome[o] = "completed" => stage[o] \in {"worked", "finished", "released"}
    /\ Commits(o) /\ outcome[o] = "completed" /\ holder = o => committing

\* A call that was told that its job will be cancelled, and a job that shows it.
MarkingIsStopped ==
  \A c \in Callers : pc[c] = "marking" =>
    /\ ref[c] \in Ops
    /\ stage[ref[c]] \notin {"none", "asked"}
    /\ holder = ref[c] => stopped
MarkedIsStopped ==
  \A o \in marked : stage[o] \notin {"none", "asked"} /\ (holder = o => stopped)

Shape == HolderIsReserved /\ ActiveIsVisible /\ StopOrCommit
Results == StoredCommits /\ MarkedScanNeverCompletes
Marks == MarkingIsStopped /\ MarkedIsStopped

IInv == Typed /\ Shape /\ Results /\ Marks

-----------------------------------------------------------------------------
\* The initial state satisfies the invariant.
LEMMA InitInv == ASSUME OperationAssumption PROVE Init => IInv
<1> SUFFICES ASSUME Init PROVE IInv
  OBVIOUS
<1> USE DEF Init, Slot!Init, OperationAssumption
<1>1. Typed
  BY EmptySeq DEF Typed, Stages, Places
<1>2. Shape
  BY DEF Shape, HolderIsReserved, ActiveIsVisible, StopOrCommit, Holding, Visible
<1>3. Results
  BY DEF Results, StoredCommits, MarkedScanNeverCompletes
<1>4. Marks
  BY DEF Marks, MarkingIsStopped, MarkedIsStopped
<1> QED
  BY <1>1, <1>2, <1>3, <1>4 DEF IInv

\* A bounded list keeps its type.
LEMMA PushType ==
  ASSUME NEW S, NEW queue \in Seq(S), NEW x \in S, NEW bound \in Nat \ {0}
  PROVE  Push(queue, x, bound) \in Seq(S)
<1>1. <<x>> \in Seq(S) /\ Len(<<x>>) = 1
  OBVIOUS
<1>2. <<x>> \o queue \in Seq(S) /\ Len(<<x>> \o queue) = 1 + Len(queue) /\ Len(queue) \in Nat
  BY <1>1, ConcatProperties, LenProperties
<1> DEFINE k == IF Len(queue) < bound THEN Len(queue) + 1 ELSE bound
<1>3. k \in 0..Len(<<x>> \o queue)
  BY <1>2
<1>4. SubSeq(<<x>> \o queue, 1, k) \in Seq(S)
  <2>1. 1 \in 1..Len(<<x>> \o queue) + 1
    BY <1>2
  <2>2. k \in 1 - 1..Len(<<x>> \o queue)
    BY <1>3
  <2> HIDE DEF k
  <2> QED
    BY <1>2, <2>1, <2>2, SubSeqProperties
<1> QED
  BY <1>4 DEF Push

\* Every step keeps the invariant.
LEMMA StepInv == ASSUME OperationAssumption PROVE IInv /\ [Next]_vars => IInv'
<1> SUFFICES ASSUME IInv, [Next]_vars PROVE IInv'
  OBVIOUS
<1> USE DEF IInv, OperationAssumption, Stages, Places, Outcomes, To, EndWork, Goto, Answer, Tell,
        slot, store, jobs, calls, Commits
<1>1. ASSUME NEW o \in Ops, NEW who \in {"external", "native"}, NEW what \in {"scan", "index"}, NEW q \in Requests \cup {NoRequest},
             AskStart(o, who, what, q)
      PROVE  IInv'
  <2>1. Typed'
    BY <1>1 DEF Typed, AskStart
  <2>2. Shape'
    BY <1>1 DEF Typed, AskStart,
       Shape, HolderIsReserved, ActiveIsVisible, StopOrCommit, Holding, Visible
  <2>3. Results'
    BY <1>1 DEF Typed, AskStart,
       Shape, HolderIsReserved, ActiveIsVisible, StopOrCommit, Holding, Visible,
       Results, StoredCommits, MarkedScanNeverCompletes, Marks, MarkingIsStopped, MarkedIsStopped
  <2>4. Marks'
    BY <1>1 DEF Typed, AskStart,
       Shape, HolderIsReserved, ActiveIsVisible, Holding, Visible,
       Marks, MarkingIsStopped, MarkedIsStopped
  <2> QED
    BY <2>1, <2>2, <2>3, <2>4
<1>2. ASSUME NEW o \in Ops,
             ReserveSlot(o) \/ RefuseStart(o)
      PROVE  IInv'
  <2>1. Typed'
    BY <1>2 DEF Typed, ReserveSlot, RefuseStart, Slot!Take
  <2>2. Shape'
    BY <1>2 DEF Typed, ReserveSlot, RefuseStart, Slot!Take,
       Shape, HolderIsReserved, ActiveIsVisible, StopOrCommit, Holding, Visible
  <2>3. Results'
    BY <1>2 DEF Typed, ReserveSlot, RefuseStart, Slot!Take,
       Shape, HolderIsReserved, ActiveIsVisible, StopOrCommit, Holding, Visible,
       Results, StoredCommits, MarkedScanNeverCompletes, Marks, MarkingIsStopped, MarkedIsStopped
  <2>4. Marks'
    BY <1>2 DEF Typed, ReserveSlot, RefuseStart, Slot!Take,
       Shape, HolderIsReserved, ActiveIsVisible, Holding, Visible,
       Marks, MarkingIsStopped, MarkedIsStopped
  <2> QED
    BY <2>1, <2>2, <2>3, <2>4
<1>3. ASSUME NEW o \in Ops,
             StartOperation(o)
      PROVE  IInv'
  <2>1. Typed'
    BY <1>3 DEF Typed, StartOperation
  <2>2. Shape'
    BY <1>3 DEF Typed, StartOperation,
       Shape, HolderIsReserved, ActiveIsVisible, StopOrCommit, Holding, Visible
  <2>3. Results'
    BY <1>3 DEF Typed, StartOperation,
       Shape, HolderIsReserved, ActiveIsVisible, StopOrCommit, Holding, Visible,
       Results, StoredCommits, MarkedScanNeverCompletes, Marks, MarkingIsStopped, MarkedIsStopped
  <2>4. Marks'
    BY <1>3 DEF Typed, StartOperation,
       Shape, HolderIsReserved, ActiveIsVisible, Holding, Visible,
       Marks, MarkingIsStopped, MarkedIsStopped
  <2> QED
    BY <2>1, <2>2, <2>3, <2>4
<1>4. ASSUME NEW o \in Ops,
             SpawnWorker(o)
      PROVE  IInv'
  <2>1. Typed'
    <3>1. CASE request[o] = NoRequest
      BY <1>4, <3>1 DEF Typed, SpawnWorker
    <3>2. CASE request[o] # NoRequest
      <4>1. <<request[o], o>> \in Requests \X Ops
        BY <3>2 DEF Typed
      <4>2. requests' \in Seq(Requests \X Ops)
        BY <1>4, <3>2, <4>1, PushType DEF Typed, SpawnWorker
      <4> QED
        BY <1>4, <4>2 DEF Typed, SpawnWorker
    <3> QED
      BY <3>1, <3>2
  <2>2. Shape'
    BY <1>4 DEF Typed, SpawnWorker,
       Shape, HolderIsReserved, ActiveIsVisible, StopOrCommit, Holding, Visible
  <2>3. Results'
    BY <1>4 DEF Typed, SpawnWorker,
       Shape, HolderIsReserved, ActiveIsVisible, StopOrCommit, Holding, Visible,
       Results, StoredCommits, MarkedScanNeverCompletes, Marks, MarkingIsStopped, MarkedIsStopped
  <2>4. Marks'
    BY <1>4 DEF Typed, SpawnWorker,
       Shape, HolderIsReserved, ActiveIsVisible, Holding, Visible,
       Marks, MarkingIsStopped, MarkedIsStopped
  <2> QED
    BY <2>1, <2>2, <2>3, <2>4
<1>5. ASSUME NEW o \in Ops,
             CommitScan(o)
      PROVE  IInv'
  <2>1. Typed'
    BY <1>5 DEF Typed, CommitScan, Slot!Commit
  <2>2. Shape'
    BY <1>5 DEF Typed, CommitScan, Slot!Commit,
       Shape, HolderIsReserved, ActiveIsVisible, StopOrCommit, Holding, Visible
  <2>3. Results'
    BY <1>5 DEF Typed, CommitScan, Slot!Commit,
       Shape, HolderIsReserved, ActiveIsVisible, StopOrCommit, Holding, Visible,
       Results, StoredCommits, MarkedScanNeverCompletes, Marks, MarkingIsStopped, MarkedIsStopped
  <2>4. Marks'
    BY <1>5 DEF Typed, CommitScan, Slot!Commit,
       Shape, HolderIsReserved, ActiveIsVisible, Holding, Visible,
       Marks, MarkingIsStopped, MarkedIsStopped
  <2> QED
    BY <2>1, <2>2, <2>3, <2>4
<1>6. ASSUME NEW o \in Ops,
             StoreScan(o)
      PROVE  IInv'
  <2>1. Typed'
    BY <1>6 DEF Typed, StoreScan
  <2>2. Shape'
    BY <1>6 DEF Typed, StoreScan,
       Shape, HolderIsReserved, ActiveIsVisible, StopOrCommit, Holding, Visible
  <2>3. Results'
    BY <1>6 DEF Typed, StoreScan,
       Shape, HolderIsReserved, ActiveIsVisible, StopOrCommit, Holding, Visible,
       Results, StoredCommits, MarkedScanNeverCompletes, Marks, MarkingIsStopped, MarkedIsStopped
  <2>4. Marks'
    BY <1>6 DEF Typed, StoreScan,
       Shape, HolderIsReserved, ActiveIsVisible, Holding, Visible,
       Marks, MarkingIsStopped, MarkedIsStopped
  <2> QED
    BY <2>1, <2>2, <2>3, <2>4
<1>7. ASSUME NEW o \in Ops,
             HaltWork(o) \/ EndIndex(o)
      PROVE  IInv'
  <2>1. Typed'
    BY <1>7 DEF Typed, HaltWork, EndIndex
  <2>2. Shape'
    BY <1>7 DEF Typed, HaltWork, EndIndex,
       Shape, HolderIsReserved, ActiveIsVisible, StopOrCommit, Holding, Visible
  <2>3. Results'
    BY <1>7 DEF Typed, HaltWork, EndIndex,
       Shape, HolderIsReserved, ActiveIsVisible, StopOrCommit, Holding, Visible,
       Results, StoredCommits, MarkedScanNeverCompletes, Marks, MarkingIsStopped, MarkedIsStopped
  <2>4. Marks'
    BY <1>7 DEF Typed, HaltWork, EndIndex,
       Shape, HolderIsReserved, ActiveIsVisible, Holding, Visible,
       Marks, MarkingIsStopped, MarkedIsStopped
  <2> QED
    BY <2>1, <2>2, <2>3, <2>4
<1>8. ASSUME NEW o \in Ops,
             FinishOperation(o)
      PROVE  IInv'
  <2>1. Typed'
    BY <1>8 DEF Typed, FinishOperation
  <2>2. Shape'
    BY <1>8 DEF Typed, FinishOperation,
       Shape, HolderIsReserved, ActiveIsVisible, StopOrCommit, Holding, Visible
  <2>3. Results'
    BY <1>8 DEF Typed, FinishOperation,
       Shape, HolderIsReserved, ActiveIsVisible, StopOrCommit, Holding, Visible,
       Results, StoredCommits, MarkedScanNeverCompletes, Marks, MarkingIsStopped, MarkedIsStopped
  <2>4. Marks'
    BY <1>8 DEF Typed, FinishOperation,
       Shape, HolderIsReserved, ActiveIsVisible, Holding, Visible,
       Marks, MarkingIsStopped, MarkedIsStopped
  <2> QED
    BY <2>1, <2>2, <2>3, <2>4
<1>9. ASSUME NEW o \in Ops,
             ReleaseSlot(o)
      PROVE  IInv'
  <2>1. Typed'
    BY <1>9 DEF Typed, ReleaseSlot, Slot!Release
  <2>2. Shape'
    BY <1>9 DEF Typed, ReleaseSlot, Slot!Release,
       Shape, HolderIsReserved, ActiveIsVisible, StopOrCommit, Holding, Visible
  <2>3. Results'
    BY <1>9 DEF Typed, ReleaseSlot, Slot!Release,
       Shape, HolderIsReserved, ActiveIsVisible, StopOrCommit, Holding, Visible,
       Results, StoredCommits, MarkedScanNeverCompletes, Marks, MarkingIsStopped, MarkedIsStopped
  <2>4. Marks'
    BY <1>9 DEF Typed, ReleaseSlot, Slot!Release,
       Shape, HolderIsReserved, ActiveIsVisible, Holding, Visible,
       Marks, MarkingIsStopped, MarkedIsStopped
  <2> QED
    BY <2>1, <2>2, <2>3, <2>4
<1>10. ASSUME NEW c \in Callers,
             \/ Authorize(c) \/ Look(c) \/ CheckOwner(c) \/ Resend(c)
                \/ \E o \in Ops : Ask(c, o)
      PROVE  IInv'
  <2>1. Typed'
    BY <1>10 DEF Typed, Authorize, Look, CheckOwner, Resend, Ask
  <2>2. Shape'
    BY <1>10 DEF Typed, Authorize, Look, CheckOwner, Resend, Ask,
       Shape, HolderIsReserved, ActiveIsVisible, StopOrCommit, Holding, Visible
  <2>3. Results'
    BY <1>10 DEF Typed, Authorize, Look, CheckOwner, Resend, Ask,
       Shape, HolderIsReserved, ActiveIsVisible, StopOrCommit, Holding, Visible,
       Results, StoredCommits, MarkedScanNeverCompletes, Marks, MarkingIsStopped, MarkedIsStopped
  <2>4. Marks'
    BY <1>10 DEF Typed, Authorize, Look, CheckOwner, Resend, Ask,
       Shape, HolderIsReserved, ActiveIsVisible, Holding, Visible,
       Marks, MarkingIsStopped, MarkedIsStopped
  <2> QED
    BY <2>1, <2>2, <2>3, <2>4
<1>11. ASSUME NEW c \in Callers,
             CancelSlot(c)
      PROVE  IInv'
  <2>1. Typed'
    BY <1>11 DEF Typed, CancelSlot, Slot!Stop
  <2>2. Shape'
    BY <1>11 DEF Typed, CancelSlot, Slot!Stop,
       Shape, HolderIsReserved, ActiveIsVisible, StopOrCommit, Holding, Visible
  <2>3. Results'
    BY <1>11 DEF Typed, CancelSlot, Slot!Stop,
       Shape, HolderIsReserved, ActiveIsVisible, StopOrCommit, Holding, Visible,
       Results, StoredCommits, MarkedScanNeverCompletes, Marks, MarkingIsStopped, MarkedIsStopped
  <2>4. Marks'
    BY <1>11 DEF Typed, CancelSlot, Slot!Stop,
       Shape, HolderIsReserved, ActiveIsVisible, Holding, Visible,
       Marks, MarkingIsStopped, MarkedIsStopped
  <2> QED
    BY <2>1, <2>2, <2>3, <2>4
<1>12. ASSUME NEW c \in Callers,
             MarkCancelled(c)
      PROVE  IInv'
  <2>1. Typed'
    <3>1. ref[c] \in Ops
      BY <1>12 DEF MarkCancelled, Marks, MarkingIsStopped
    <3>2. pc' \in [Callers -> Places] /\ marked' \subseteq Ops
      BY <1>12, <3>1 DEF Typed, MarkCancelled
    <3> QED
      BY <1>12, <3>2 DEF Typed, MarkCancelled
  <2>2. Shape'
    BY <1>12 DEF Typed, MarkCancelled,
       Shape, HolderIsReserved, ActiveIsVisible, StopOrCommit, Holding, Visible
  <2>3. Results'
    BY <1>12 DEF Typed, MarkCancelled,
       Shape, HolderIsReserved, ActiveIsVisible, StopOrCommit, Holding, Visible,
       Results, StoredCommits, MarkedScanNeverCompletes, Marks, MarkingIsStopped, MarkedIsStopped
  <2>4. Marks'
    BY <1>12 DEF Typed, MarkCancelled,
       Shape, HolderIsReserved, ActiveIsVisible, Holding, Visible,
       Marks, MarkingIsStopped, MarkedIsStopped
  <2> QED
    BY <2>1, <2>2, <2>3, <2>4
<1>13. CASE WindowTakes \/ WindowReleases \/ WindowStops \/ Close
  <2>1. Typed'
    BY <1>13 DEF Typed, WindowTakes, WindowReleases, WindowStops, Close, Slot!Take,
       Slot!Release, Slot!Stop, Slot!Shut
  <2>2. Shape'
    BY <1>13 DEF Typed, WindowTakes, WindowReleases, WindowStops, Close, Slot!Take,
       Slot!Release, Slot!Stop, Slot!Shut,
       Shape, HolderIsReserved, ActiveIsVisible, StopOrCommit, Holding, Visible
  <2>3. Results'
    BY <1>13 DEF Typed, WindowTakes, WindowReleases, WindowStops, Close, Slot!Take,
       Slot!Release, Slot!Stop, Slot!Shut,
       Shape, HolderIsReserved, ActiveIsVisible, StopOrCommit, Holding, Visible,
       Results, StoredCommits, MarkedScanNeverCompletes, Marks, MarkingIsStopped, MarkedIsStopped
  <2>4. Marks'
    BY <1>13 DEF Typed, WindowTakes, WindowReleases, WindowStops, Close, Slot!Take,
       Slot!Release, Slot!Stop, Slot!Shut,
       Shape, HolderIsReserved, ActiveIsVisible, Holding, Visible,
       Marks, MarkingIsStopped, MarkedIsStopped
  <2> QED
    BY <2>1, <2>2, <2>3, <2>4
<1>14. CASE UNCHANGED vars
  <2>1. Typed'
    BY <1>14 DEF Typed, vars
  <2>2. Shape'
    BY <1>14 DEF Typed, vars,
       Shape, HolderIsReserved, ActiveIsVisible, StopOrCommit, Holding, Visible
  <2>3. Results'
    BY <1>14 DEF Typed, vars,
       Shape, HolderIsReserved, ActiveIsVisible, StopOrCommit, Holding, Visible,
       Results, StoredCommits, MarkedScanNeverCompletes, Marks, MarkingIsStopped, MarkedIsStopped
  <2>4. Marks'
    BY <1>14 DEF Typed, vars,
       Shape, HolderIsReserved, ActiveIsVisible, Holding, Visible,
       Marks, MarkingIsStopped, MarkedIsStopped
  <2> QED
    BY <2>1, <2>2, <2>3, <2>4
<1> QED
  BY <1>1, <1>2, <1>3, <1>4, <1>5, <1>6, <1>7, <1>8, <1>9, <1>10, <1>11, <1>12, <1>13, <1>14 DEF
     Next, Run

-----------------------------------------------------------------------------
\* The invariant holds in every reachable state, for any number of jobs and
\* callers (start_operation, finish_operation, cancel_control).
THEOREM InductiveInvariant == ASSUME OperationAssumption PROVE Spec => []IInv
<1>1. Init => IInv
  BY InitInv
<1>2. IInv /\ [Next]_vars => IInv'
  BY StepInv
<1> QED
  BY <1>1, <1>2, PTL DEF Spec

\* An active job has the slot.
LEMMA ActiveHasTheSlot == ASSUME OperationAssumption PROVE IInv => ActiveHoldsSlot
BY DEF IInv, Typed, Shape, HolderIsReserved, ActiveIsVisible, Holding, Visible, ActiveHoldsSlot

\* The active job holds the slot, and the job that runs in it is the active one
\* (start_operation, finish_operation, the leases of start_storage_scan).
THEOREM SlotSafety == ASSUME OperationAssumption PROVE Spec => []ActiveHoldsSlot
BY ActiveHasTheSlot, InductiveInvariant, PTL

\* A marked scan does not complete.
LEMMA MarksAreKept == ASSUME OperationAssumption PROVE IInv => MarkedScanNeverCompletes
BY DEF IInv, Results

\* A storage scan whose status shows the cancellation request never completes
\* (cancel_control, request_operation_cancellation, begin_commit_inner).
THEOREM CancelSafety == ASSUME OperationAssumption PROVE Spec => []MarkedScanNeverCompletes
BY MarksAreKept, InductiveInvariant, PTL

\* A nonempty set of numbers has a least one.
LEMMA LeastNumber ==
  ASSUME NEW T \in SUBSET Nat, T # {}
  PROVE  \E n \in T : \A m \in T : n <= m
<1> DEFINE R == {ss \in Nat \X Nat : ss[1] < ss[2]}
<1>1. R = OpToRel(<, Nat)
  BY Zenon DEF OpToRel
<1>2. IsWellFoundedOn(R, Nat)
  BY <1>1, NatLessThanWellFounded, Zenon
<1>3. PICK n \in T : \A m \in T : <<m, n>> \notin R
  <2> HIDE DEF R
  <2> QED
    BY <1>2, WFMin
<1>4. ASSUME NEW m \in T PROVE n <= m
  <2>1. <<m, n>> \in Nat \X Nat
    OBVIOUS
  <2>2. ~ (<<m, n>>[1] < <<m, n>>[2])
    BY <1>3, <2>1, <1>4
  <2> QED
    BY <2>2
<1> QED
  BY <1>4

-----------------------------------------------------------------------------
(* What push_front with truncate, and retain, yield.                         *)

\* The newest comes first, the others follow in their order, and what is over
\* the bound is cut off.
Pushed(result, S, queue, x, bound) ==
  /\ result \in Seq(S)
  /\ Len(result) = IF Len(queue) < bound THEN Len(queue) + 1 ELSE bound
  /\ \A i \in 1 .. Len(result) : result[i] = (<<x>> \o queue)[i]

LEMMA PushElements ==
  ASSUME NEW S, NEW queue \in Seq(S), NEW x \in S, NEW bound \in Nat \ {0}
  PROVE  Pushed(Push(queue, x, bound), S, queue, x, bound)
<1> DEFINE all == <<x>> \o queue
           k == IF Len(queue) < bound THEN Len(queue) + 1 ELSE bound
<1>1. all \in Seq(S) /\ Len(all) = 1 + Len(queue) /\ Len(queue) \in Nat
  <2>1. <<x>> \in Seq(S) /\ Len(<<x>>) = 1
    OBVIOUS
  <2> QED
    BY <2>1, ConcatProperties, LenProperties
<1>2. k \in 1 .. Len(all)
  BY <1>1
<1>3. Push(queue, x, bound) = SubSeq(all, 1, k)
  BY DEF Push
<1> HIDE DEF all, k
<1>4. /\ SubSeq(all, 1, k) \in Seq(S) /\ Len(SubSeq(all, 1, k)) = k
      /\ \A i \in 1 .. k : SubSeq(all, 1, k)[i] = all[i]
  BY <1>1, <1>2
<1> QED
  BY <1>3, <1>4 DEF Pushed, all, k

\* A solution of the recursion in Retain, and its steps.
Solves(f, queue, S, n) ==
  f = [i \in 0 .. n |-> IF i = 0 THEN <<>>
                        ELSE IF queue[i] \in S THEN Append(f[i - 1], queue[i]) ELSE f[i - 1]]
Keeps(queue, S, f, n) ==
  \A i \in 0 .. n :
    f[i] = IF i = 0 THEN <<>> ELSE IF queue[i] \in S THEN Append(f[i - 1], queue[i]) ELSE f[i - 1]

\* The recursion has a solution: induction by a least counterexample.
LEMMA Keepable ==
  ASSUME NEW queue, NEW S, NEW n \in Nat
  PROVE  \E f : Solves(f, queue, S, n)
<1> DEFINE Wrong == {m \in Nat : ~\E f : Solves(f, queue, S, m)}
<1>1. Solves([i \in 0 .. 0 |-> <<>>], queue, S, 0)
  BY DEF Solves
<1>2. ASSUME NEW m \in Nat, NEW f, Solves(f, queue, S, m)
      PROVE  \E g : Solves(g, queue, S, m + 1)
  <2> DEFINE e == IF queue[m + 1] \in S THEN Append(f[m], queue[m + 1]) ELSE f[m]
             g == [i \in 0 .. m + 1 |-> IF i = m + 1 THEN e ELSE f[i]]
  <2>1. \A i \in 0 .. m + 1 : g[i] = IF i = m + 1 THEN e ELSE f[i]
    OBVIOUS
  <2>2. \A i \in 0 .. m : f[i] = IF i = 0 THEN <<>>
                                 ELSE IF queue[i] \in S THEN Append(f[i - 1], queue[i]) ELSE f[i - 1]
    BY <1>2 DEF Solves
  <2>3. \A i \in 0 .. m + 1 : i # 0 => i - 1 \in 0 .. m /\ i - 1 \in 0 .. m + 1 /\ i - 1 # m + 1
    OBVIOUS
  <2>4. \A i \in 0 .. m + 1 : i # 0 => g[i - 1] = f[i - 1]
    <3> HIDE DEF g, e
    <3> QED
      BY <2>1, <2>3
  <2>5. \A i \in 0 .. m + 1 : g[i] = IF i = 0 THEN <<>>
                                     ELSE IF queue[i] \in S THEN Append(g[i - 1], queue[i]) ELSE g[i - 1]
    <3> TAKE i \in 0 .. m + 1
    <3>1. CASE i = m + 1
      <4>1. g[i] = e
        BY <2>1, <3>1
      <4>2. i - 1 = m /\ i # 0
        BY <3>1
      <4> HIDE DEF g
      <4> QED
        BY <2>4, <3>1, <4>1, <4>2
    <3>2. CASE i # m + 1
      <4>1. i \in 0 .. m /\ g[i] = f[i]
        BY <2>1, <3>2
      <4> HIDE DEF g
      <4> QED
        BY <2>2, <2>4, <4>1
    <3> QED
      BY <3>1, <3>2
  <2>6. g = [i \in 0 .. m + 1 |-> g[i]]
    OBVIOUS
  <2> HIDE DEF g
  <2>7. Solves(g, queue, S, m + 1)
    BY <2>5, <2>6, Zenon DEF Solves
  <2> QED
    BY <2>7
<1>3. Wrong = {}
  <2> SUFFICES ASSUME Wrong # {} PROVE FALSE
    OBVIOUS
  <2>1. PICK m \in Wrong : \A k \in Wrong : m <= k
    <3>1. Wrong \in SUBSET Nat
      OBVIOUS
    <3> HIDE DEF Wrong
    <3> QED
      BY <3>1, LeastNumber
  <2>2. m \in Nat /\ ~\E f : Solves(f, queue, S, m)
    BY <2>1
  <2>3. m # 0
    BY <1>1, <2>2
  <2>4. m - 1 \in Nat /\ (m - 1) + 1 = m /\ ~(m <= m - 1)
    BY <2>2, <2>3
  <2>5. m - 1 \notin Wrong
    BY <2>1, <2>4
  <2>6. PICK f : Solves(f, queue, S, m - 1)
    BY <2>4, <2>5
  <2>7. \E g : Solves(g, queue, S, (m - 1) + 1)
    BY <1>2, <2>4, <2>6
  <2> QED
    BY <2>2, <2>4, <2>7
<1> QED
  BY <1>3

\* When the first k elements are those to keep, they are what is kept.
LEMMA RetainPrefix ==
  ASSUME NEW X, NEW queue \in Seq(X), NEW S, NEW k \in 0 .. Len(queue),
         \A i \in 1 .. Len(queue) : queue[i] \in S <=> i <= k
  PROVE  Retain(queue, S) = SubSeq(queue, 1, k)
<1>0. Len(queue) \in Nat
  OBVIOUS
<1>00. \E f : Solves(f, queue, S, Len(queue))
  BY <1>0, Keepable, Zenon
<1> DEFINE kept[n \in 0 .. Len(queue)] ==
             IF n = 0 THEN <<>>
             ELSE IF queue[n] \in S THEN Append(kept[n - 1], queue[n]) ELSE kept[n - 1]
<1>1. Retain(queue, S) = kept[Len(queue)]
  BY Zenon DEF Retain
<1>2. Keeps(queue, S, kept, Len(queue))
  <2>1. kept = [i \in 0 .. Len(queue) |->
                  IF i = 0 THEN <<>>
                  ELSE IF queue[i] \in S THEN Append(kept[i - 1], queue[i]) ELSE kept[i - 1]]
    BY <1>00, Zenon DEF Solves
  <2> HIDE DEF kept
  <2> QED
    BY <2>1 DEF Keeps
<1> HIDE DEF kept
<1> DEFINE Upto(n) == SubSeq(queue, 1, IF n <= k THEN n ELSE k)
           Wrong == {n \in 0 .. Len(queue) : kept[n] # Upto(n)}
<1>3. kept[0] = Upto(0)
  <2>1. kept[0] = <<>>
    BY <1>0, <1>2 DEF Keeps
  <2>2. Upto(0) = SubSeq(queue, 1, 0)
    OBVIOUS
  <2> QED
    BY <2>1, <2>2, SubSeqEmpty
<1>4. ASSUME NEW n \in 1 .. Len(queue), kept[n - 1] = Upto(n - 1)
      PROVE  kept[n] = Upto(n)
  <2>1. kept[n] = IF queue[n] \in S THEN Append(kept[n - 1], queue[n]) ELSE kept[n - 1]
    BY <1>0, <1>2 DEF Keeps
  <2>2. CASE n <= k
    <3>1. Upto(n - 1) = SubSeq(queue, 1, n - 1) /\ Upto(n) = SubSeq(queue, 1, n)
      BY <2>2
    <3>2. SubSeq(queue, 1, n) = Append(SubSeq(queue, 1, n - 1), queue[n])
      OBVIOUS
    <3> QED
      BY <1>4, <2>1, <2>2, <3>1, <3>2
  <2>3. CASE ~(n <= k)
    <3>1. Upto(n - 1) = SubSeq(queue, 1, k) /\ Upto(n) = SubSeq(queue, 1, k)
      BY <2>3
    <3> QED
      BY <1>4, <2>1, <2>3, <3>1
  <2> QED
    BY <2>2, <2>3
<1>5. Wrong = {}
  <2> SUFFICES ASSUME Wrong # {} PROVE FALSE
    OBVIOUS
  <2> HIDE DEF Upto
  <2>1. PICK n \in Wrong : \A j \in Wrong : n <= j
    <3>1. Wrong \in SUBSET Nat
      OBVIOUS
    <3> HIDE DEF Wrong
    <3> QED
      BY <3>1, LeastNumber
  <2>2. n \in 1 .. Len(queue)
    BY <1>0, <1>3, <2>1
  <2>3. n - 1 \in 0 .. Len(queue) /\ n - 1 \notin Wrong
    BY <2>1, <2>2
  <2> QED
    BY <1>4, <2>1, <2>2, <2>3
<1> QED
  BY <1>0, <1>1, <1>5

-----------------------------------------------------------------------------
(* The records of the jobs.                                                  *)

\* The types that Typed leaves out.
RecordTypes ==
  /\ holder \in Ops \cup {Window, NoWork} /\ shut \in BOOLEAN
  /\ history \in Seq(Ops) /\ Len(history) <= MaxCompleted
  /\ Len(requests) <= MaxCompleted
  /\ owner \in [Ops -> {"external", "native"}]
  /\ answer \in [Callers -> Outcomes \cup {"none", "running", "denied", "missing"}]
  /\ resent \subseteq Callers /\ evicted \subseteq Ops

\* The owners on record are those of the active job and of the recorded ones,
\* in the same order: no bound of the owners' list ever cuts off a job that is
\* still recorded.
OwnersFollow == authorities = IF active = NoWork THEN history ELSE <<active>> \o history

\* A job is recorded once, after its work.
RecordedOnce == \A i, j \in DOMAIN history : history[i] = history[j] => i = j
RecordedAreDone == \A o \in Range(history) \cup evicted : stage[o] \in {"finished", "released"}

\* What a call can be about: once recorded, a job leaves by eviction only.
Past == evicted \cup Range(history)
Recorded == Past \cup {o \in Ops : active = o}
StartsAreKnown == \A n \in 1 .. Len(requests) : requests[n][2] \in Recorded
AskedAreKnown ==
  \A c \in Callers : /\ (pc[c] # "idle" => ref[c] \in Recorded)
                     /\ (pc[c] = "second" => ref[c] \in Past)

RecordInv ==
  /\ RecordTypes /\ OwnersFollow /\ RecordedOnce /\ RecordedAreDone
  /\ StartsAreKnown /\ AskedAreKnown /\ LookupNeverMisses

\* The initial state satisfies the invariant.
LEMMA RecordInit == ASSUME OperationAssumption PROVE Init => RecordInv
<1> SUFFICES ASSUME Init PROVE RecordInv
  OBVIOUS
<1> USE DEF Init, Slot!Init, OperationAssumption
<1>1. RecordTypes
  <2>1. history \in Seq(Ops) /\ Len(history) <= MaxCompleted /\ Len(requests) <= MaxCompleted
    <3>1. Len(<<>>) = 0
      OBVIOUS
    <3> QED
      BY <3>1, EmptySeq
  <2> QED
    BY <2>1 DEF RecordTypes
<1>2. Range(history) = {}
  BY DEF Range
<1>3. OwnersFollow /\ RecordedOnce /\ RecordedAreDone
  BY <1>2 DEF OwnersFollow, RecordedOnce, RecordedAreDone
<1>4. StartsAreKnown /\ AskedAreKnown /\ LookupNeverMisses
  BY DEF StartsAreKnown, AskedAreKnown, LookupNeverMisses
<1> QED
  BY <1>1, <1>3, <1>4 DEF RecordInv

\* The owners on record are the jobs that can be looked up.
LEMMA OwnersAreRecorded ==
  ASSUME OperationAssumption, Typed, RecordTypes, OwnersFollow
  PROVE  /\ authorities \in Seq(Ops) /\ Len(authorities) <= MaxCompleted + 1
         /\ Range(authorities) = Range(history) \cup {o \in Ops : active = o}
         /\ Range(history) \subseteq Ops
<1>1. history \in Seq(Ops) /\ Len(history) \in Nat /\ Len(history) <= MaxCompleted
  BY DEF RecordTypes
<1>2. Range(history) \subseteq Ops
  BY <1>1 DEF Range
<1>3. CASE active = NoWork
  BY <1>1, <1>2, <1>3 DEF OwnersFollow, OperationAssumption
<1>4. CASE active # NoWork
  <2>1. active \in Ops /\ authorities = <<active>> \o history
    BY <1>4 DEF Typed, OwnersFollow
  <2>2. /\ authorities \in Seq(Ops) /\ Len(authorities) = 1 + Len(history)
        /\ \A i \in 1 .. Len(history) + 1 : authorities[i] = IF i = 1 THEN active ELSE history[i - 1]
    BY <1>1, <2>1
  <2>3. Range(authorities) = Range(history) \cup {active}
    <3>1. \A i \in 1 .. Len(history) : i + 1 \in 1 .. Len(history) + 1 /\ authorities[i + 1] = history[i]
      <4> TAKE i \in 1 .. Len(history)
      <4>1. i + 1 \in 1 .. Len(history) + 1 /\ i + 1 # 1 /\ (i + 1) - 1 = i
        BY <1>1
      <4> QED
        BY <2>2, <4>1
    <3>2. \A i \in 1 .. Len(history) + 1 : i # 1 => i - 1 \in 1 .. Len(history)
      BY <1>1
    <3>3. authorities[1] = active /\ 1 \in 1 .. Len(history) + 1
      BY <1>1, <2>2
    <3>4. DOMAIN authorities = 1 .. Len(history) + 1 /\ DOMAIN history = 1 .. Len(history)
      BY <1>1, <2>2
    <3>5. \A x \in Range(authorities) : x \in Range(history) \cup {active}
      BY <2>2, <3>2, <3>4 DEF Range
    <3>6. \A x \in Range(history) \cup {active} : x \in Range(authorities)
      BY <3>1, <3>3, <3>4 DEF Range
    <3> QED
      BY <3>5, <3>6
  <2> QED
    BY <1>1, <1>2, <2>1, <2>2, <2>3 DEF OperationAssumption
<1> QED
  BY <1>3, <1>4

\* A step that touches neither the records nor the calls.
LEMMA RecordsUntouched ==
  ASSUME RecordInv, RecordTypes',
         UNCHANGED <<active, history, authorities, requests, evicted, calls>>,
         \A o \in Ops : stage[o] \in {"finished", "released"} => stage'[o] \in {"finished", "released"}
  PROVE  RecordInv'
<1>1. Range(history) \subseteq Ops
  BY DEF RecordInv, RecordTypes, Range
<1>2. RecordedAreDone'
  BY <1>1 DEF RecordInv, RecordTypes, RecordedAreDone
<1>3. (OwnersFollow /\ RecordedOnce /\ StartsAreKnown /\ AskedAreKnown /\ LookupNeverMisses)'
  BY DEF RecordInv, OwnersFollow, RecordedOnce, StartsAreKnown, AskedAreKnown, Recorded, Past,
         LookupNeverMisses, calls
<1> QED
  BY <1>2, <1>3 DEF RecordInv

\* A step of a caller alone.
LEMMA RecordsAsked ==
  ASSUME RecordInv, RecordTypes', AskedAreKnown', LookupNeverMisses',
         UNCHANGED <<active, history, authorities, requests, evicted, stage>>
  PROVE  RecordInv'
BY DEF RecordInv, OwnersFollow, RecordedOnce, RecordedAreDone, StartsAreKnown, Recorded, Past

\* The record of a job that ends: the owners kept are those of the jobs kept.
LEMMA FinishRecords ==
  ASSUME OperationAssumption, Typed, RecordTypes, OwnersFollow, RecordedOnce,
         NEW o \in Ops, active = o, o \notin Range(history),
         NEW h, h = Push(history, o, MaxCompleted)
  PROVE  /\ h \in Seq(Ops) /\ Len(h) <= MaxCompleted
         /\ \A i, j \in DOMAIN h : h[i] = h[j] => i = j
         /\ o \in Range(h) /\ Range(h) \subseteq Range(history) \cup {o}
         /\ Retain(authorities, Range(h)) = h
<1> DEFINE all == <<o>> \o history
           k == Len(h)
<1>1. /\ history \in Seq(Ops) /\ Len(history) \in Nat /\ Len(history) <= MaxCompleted
      /\ MaxCompleted \in Nat \ {0} /\ o # NoWork
  BY DEF RecordTypes, OperationAssumption
<1>2. /\ h \in Seq(Ops) /\ k = IF Len(history) < MaxCompleted THEN Len(history) + 1 ELSE MaxCompleted
      /\ \A i \in 1 .. k : h[i] = all[i]
  <2>1. Pushed(h, Ops, history, o, MaxCompleted)
    BY <1>1, PushElements
  <2> QED
    BY <2>1, Zenon DEF Pushed
<1>3. authorities = all
  BY <1>1 DEF OwnersFollow
<1>4. /\ all \in Seq(Ops) /\ Len(all) = Len(history) + 1
      /\ \A i \in 1 .. Len(history) + 1 : all[i] = IF i = 1 THEN o ELSE history[i - 1]
  BY <1>1
<1>5. k \in 1 .. Len(all) /\ k <= MaxCompleted
  BY <1>1, <1>2, <1>4
<1>6. h = SubSeq(all, 1, k)
  <2>1. h = SubSeq(all, 1, IF Len(history) < MaxCompleted THEN Len(history) + 1 ELSE MaxCompleted)
    BY DEF Push
  <2> HIDE DEF k
  <2> QED
    BY <1>2, <2>1
<1> HIDE DEF all
<1>7. ASSUME NEW i \in 1 .. Len(all), NEW j \in 1 .. Len(all), all[i] = all[j] PROVE i = j
  <2>1. \A m \in 1 .. Len(history) + 1 : m # 1 => m - 1 \in DOMAIN history /\ all[m] = history[m - 1]
    BY <1>1, <1>4
  <2>2. \A m \in 1 .. Len(history) + 1 : m # 1 => all[m] # o
    BY <2>1 DEF Range
  <2>3. all[1] = o
    BY <1>1, <1>4
  <2>4. CASE i = 1 \/ j = 1
    BY <1>4, <1>7, <2>2, <2>3, <2>4
  <2>5. CASE i # 1 /\ j # 1
    <3>1. history[i - 1] = history[j - 1] /\ i - 1 \in DOMAIN history /\ j - 1 \in DOMAIN history
      BY <1>4, <1>7, <2>1, <2>5
    <3>2. i - 1 = j - 1
      BY <3>1 DEF RecordedOnce
    <3> QED
      BY <3>2
  <2> QED
    BY <2>4, <2>5
<1>8. DOMAIN h = 1 .. k /\ \A i \in 1 .. k : i \in 1 .. Len(all)
  BY <1>2, <1>5
<1>9. \A i, j \in DOMAIN h : h[i] = h[j] => i = j
  BY <1>2, <1>7, <1>8
<1>10. o \in Range(h) /\ Range(h) \subseteq Range(history) \cup {o}
  <2>1. 1 \in 1 .. k /\ h[1] = o
    BY <1>1, <1>2, <1>4, <1>5
  <2>2. ASSUME NEW i \in 1 .. k PROVE h[i] \in Range(history) \cup {o}
    <3>1. i \in 1 .. Len(history) + 1 /\ h[i] = all[i]
      BY <1>2, <1>4, <1>8
    <3>2. CASE i = 1
      BY <1>4, <3>1, <3>2
    <3>3. CASE i # 1
      <4>1. i - 1 \in DOMAIN history /\ h[i] = history[i - 1]
        BY <1>1, <1>4, <3>1, <3>3
      <4> QED
        BY <4>1 DEF Range
    <3> QED
      BY <3>2, <3>3
  <2> QED
    BY <1>8, <2>1, <2>2 DEF Range
<1>11. Retain(authorities, Range(h)) = h
  <2>1. ASSUME NEW i \in 1 .. Len(all) PROVE all[i] \in Range(h) <=> i <= k
    <3>1. CASE i <= k
      <4>1. i \in 1 .. k
        BY <1>5, <3>1
      <4> QED
        BY <1>2, <1>8, <3>1, <4>1 DEF Range
    <3>2. CASE ~(i <= k)
      <4> SUFFICES ASSUME all[i] \in Range(h) PROVE FALSE
        BY <3>2
      <4>1. PICK j \in 1 .. k : h[j] = all[i]
        BY <1>8 DEF Range
      <4>2. all[j] = all[i] /\ j \in 1 .. Len(all)
        BY <1>2, <1>8, <4>1
      <4>3. j = i
        BY <1>7, <4>2
      <4> QED
        BY <3>2, <4>1, <4>3
    <3> QED
      BY <3>1, <3>2
  <2>2. k \in 0 .. Len(all)
    BY <1>5
  <2>3. Retain(all, Range(h)) = SubSeq(all, 1, k)
    BY <1>4, <2>1, <2>2, RetainPrefix
  <2> QED
    BY <1>3, <1>6, <2>3
<1> QED
  BY <1>2, <1>5, <1>9, <1>10, <1>11

\* Every step keeps the invariant.
LEMMA RecordStep ==
  ASSUME OperationAssumption PROVE IInv /\ IInv' /\ RecordInv /\ [Next]_vars => RecordInv'
<1> SUFFICES ASSUME IInv, IInv', RecordInv, [Next]_vars PROVE RecordInv'
  OBVIOUS
<1> USE DEF OperationAssumption, To, EndWork, Goto, Answer, Tell, slot, store, jobs, calls
<1>t. Typed /\ Typed' /\ RecordTypes
  BY DEF IInv, RecordInv
<1>k. /\ authorities \in Seq(Ops) /\ Range(authorities) = Range(history) \cup {o \in Ops : active = o}
      /\ Range(history) \subseteq Ops
  BY <1>t, OwnersAreRecorded DEF RecordInv
<1>1. ASSUME NEW o \in Ops,
             \/ \E who \in {"external", "native"}, what \in {"scan", "index"},
                   q \in Requests \cup {NoRequest} : AskStart(o, who, what, q)
             \/ ReserveSlot(o) \/ RefuseStart(o) \/ CommitScan(o) \/ StoreScan(o)
             \/ HaltWork(o) \/ EndIndex(o) \/ ReleaseSlot(o)
      PROVE  RecordInv'
  <2>1. /\ UNCHANGED <<active, history, authorities, requests, evicted, calls>>
        /\ \A p \in Ops : stage[p] \in {"finished", "released"} => stage'[p] \in {"finished", "released"}
    BY <1>1, <1>t
    DEF Typed, AskStart, ReserveSlot, RefuseStart, CommitScan, StoreScan, HaltWork, EndIndex,
    ReleaseSlot
  <2>2. RecordTypes'
    BY <1>1, <1>t
    DEF Typed, RecordTypes, AskStart, ReserveSlot, RefuseStart, CommitScan, StoreScan, HaltWork,
    EndIndex,
        ReleaseSlot, Slot!Take, Slot!Commit, Slot!Release
  <2> QED
    BY <2>1, <2>2, RecordsUntouched
<1>2. CASE WindowTakes \/ WindowReleases \/ WindowStops \/ Close
  <2>1. RecordTypes'
    BY <1>2, <1>t DEF RecordTypes, WindowTakes, WindowReleases, WindowStops, Close, Slot!Take,
                      Slot!Release, Slot!Stop, Slot!Shut
  <2> QED
    BY <1>2, <2>1, RecordsUntouched DEF WindowTakes, WindowReleases, WindowStops, Close
<1>3. ASSUME NEW o \in Ops, StartOperation(o) PROVE RecordInv'
  <2>1. CASE active # NoWork
    <3>1. RecordTypes'
      BY <1>3, <1>t, <2>1 DEF RecordTypes, StartOperation
    <3> QED
      BY <1>3, <1>t, <2>1, <3>1, RecordsUntouched DEF Typed, StartOperation
  <2>2. CASE active = NoWork
    <3>1. /\ active' = o /\ authorities' = Push(history, o, MaxAuthorities)
          /\ stage[o] = "reserved" /\ stage' = [stage EXCEPT ![o] = "started"]
          /\ UNCHANGED <<history, requests, evicted, calls>>
      BY <1>3, <2>2 DEF StartOperation, RecordInv, OwnersFollow
    <3>2. RecordTypes'
      BY <1>3, <1>t DEF RecordTypes, StartOperation
    <3>3. Push(history, o, MaxAuthorities) = <<o>> \o history
      <4>1. /\ history \in Seq(Ops) /\ Len(history) \in Nat /\ Len(history) < MaxAuthorities
            /\ MaxAuthorities \in Nat
        BY <1>t DEF RecordTypes, MaxAuthorities
      <4>2. <<o>> \o history \in Seq(Ops) /\ Len(<<o>> \o history) = Len(history) + 1
        BY <4>1
      <4>3. SubSeq(<<o>> \o history, 1, Len(<<o>> \o history)) = <<o>> \o history
        BY <4>2
      <4> QED
        BY <4>1, <4>2, <4>3 DEF Push
    <3>4. OwnersFollow'
      BY <3>1, <3>3 DEF OwnersFollow
    <3>5. RecordedAreDone' /\ RecordedOnce'
      BY <1>k, <1>t, <3>1 DEF Typed, RecordTypes, RecordInv, RecordedAreDone, RecordedOnce
    <3>6. Recorded \subseteq Recorded' /\ Past' = Past
      BY <2>2, <3>1 DEF Recorded, Past
    <3> QED
      BY <3>1, <3>2, <3>4, <3>5, <3>6
      DEF RecordInv, StartsAreKnown, AskedAreKnown, LookupNeverMisses
  <2> QED
    BY <2>1, <2>2
<1>4. ASSUME NEW o \in Ops, SpawnWorker(o) PROVE RecordInv'
  <2>1. /\ UNCHANGED <<active, history, authorities, evicted, calls>>
        /\ stage[o] = "started" /\ stage' = [stage EXCEPT ![o] = "running"]
    BY <1>4 DEF SpawnWorker
  <2>2. active = o /\ o \in Recorded
    BY <2>1 DEF IInv, Shape, ActiveIsVisible, Visible, Recorded
  <2>3. Len(requests') <= MaxCompleted /\ StartsAreKnown'
    <3>1. CASE request[o] = NoRequest
      BY <1>4, <1>t, <2>1, <3>1
      DEF SpawnWorker, RecordTypes, RecordInv, StartsAreKnown, Recorded, Past
    <3>2. CASE request[o] # NoRequest
      <4> DEFINE x == <<request[o], o>>
                 r == Push(requests, x, MaxCompleted)
      <4>1. requests' = r /\ x \in Requests \X Ops /\ requests \in Seq(Requests \X Ops)
        BY <1>4, <1>t, <3>2 DEF SpawnWorker, Typed
      <4>2. /\ r \in Seq(Requests \X Ops)
            /\ Len(r) = IF Len(requests) < MaxCompleted THEN Len(requests) + 1 ELSE MaxCompleted
            /\ \A i \in 1 .. Len(r) : r[i] = (<<x>> \o requests)[i]
        <5>1. MaxCompleted \in Nat \ {0}
          OBVIOUS
        <5> HIDE DEF x
        <5>2. Pushed(r, Requests \X Ops, requests, x, MaxCompleted)
          BY <4>1, <5>1, PushElements
        <5> QED
          BY <5>2, Zenon DEF Pushed
      <4> HIDE DEF r
      <4>3. Len(r) <= MaxCompleted /\ Len(requests) \in Nat /\ Len(r) <= Len(requests) + 1
        BY <4>1, <4>2
      <4>4. ASSUME NEW i \in 1 .. Len(r) PROVE r[i][2] \in Recorded
        <5>1. r[i] = IF i = 1 THEN x ELSE requests[i - 1]
          <6>1. \A j \in 1 .. Len(requests) + 1 : (<<x>> \o requests)[j] = IF j = 1 THEN x ELSE requests[j - 1]
            BY <4>1
          <6> QED
            BY <4>2, <4>3, <6>1
        <5>2. CASE i = 1
          BY <2>2, <5>1, <5>2
        <5>3. CASE i # 1
          <6>1. i - 1 \in 1 .. Len(requests)
            BY <4>2, <4>3, <5>3
          <6> QED
            BY <5>1, <5>3, <6>1 DEF RecordInv, StartsAreKnown
        <5> QED
          BY <5>2, <5>3
      <4>5. Recorded' = Recorded
        BY <2>1 DEF Recorded, Past
      <4> QED
        BY <4>1, <4>3, <4>4, <4>5 DEF StartsAreKnown
    <3> QED
      BY <3>1, <3>2
  <2>4. RecordTypes'
    BY <1>4, <1>t, <2>1, <2>3 DEF RecordTypes, SpawnWorker
  <2>5. RecordedAreDone'
    BY <1>k, <1>t, <2>1 DEF Typed, RecordTypes, RecordInv, RecordedAreDone
  <2> QED
    BY <2>1, <2>3, <2>4, <2>5
    DEF RecordInv, OwnersFollow, RecordedOnce, AskedAreKnown, LookupNeverMisses, Recorded, Past
<1>5. ASSUME NEW o \in Ops, FinishOperation(o) PROVE RecordInv'
  <2>1. /\ active = o /\ active' = NoWork /\ history' = Push(history, o, MaxCompleted)
        /\ authorities' = Retain(authorities, Range(history'))
        /\ evicted' = evicted \cup (Range(history) \ Range(history'))
        /\ stage[o] = "worked" /\ stage' = [stage EXCEPT ![o] = "finished"]
        /\ UNCHANGED <<requests, calls>>
    BY <1>5 DEF FinishOperation
  <2>2. o \notin Range(history)
    BY <2>1 DEF RecordInv, RecordedAreDone
  <2>3. /\ history' \in Seq(Ops) /\ Len(history') <= MaxCompleted /\ RecordedOnce'
        /\ o \in Range(history') /\ Range(history') \subseteq Range(history) \cup {o}
        /\ authorities' = history'
    <3> DEFINE h == Push(history, o, MaxCompleted)
    <3>1. /\ h \in Seq(Ops) /\ Len(h) <= MaxCompleted
          /\ \A i, j \in DOMAIN h : h[i] = h[j] => i = j
          /\ o \in Range(h) /\ Range(h) \subseteq Range(history) \cup {o}
          /\ Retain(authorities, Range(h)) = h
      BY <1>t, <2>1, <2>2, FinishRecords DEF RecordInv
    <3> HIDE DEF h
    <3>2. history' = h
      BY <2>1 DEF h
    <3> QED
      BY <2>1, <3>1, <3>2 DEF RecordedOnce
  <2>4. RecordTypes'
    BY <1>5, <1>k, <1>t, <2>1, <2>3 DEF RecordTypes, FinishOperation
  <2>5. OwnersFollow'
    BY <2>1, <2>3 DEF OwnersFollow
  <2>6. RecordedAreDone'
    <3>1. Range(history') \cup evicted' \subseteq Range(history) \cup evicted \cup {o}
      BY <2>1, <2>3
    <3> QED
      BY <1>k, <1>t, <2>1, <3>1 DEF Typed, RecordTypes, RecordInv, RecordedAreDone
  <2>7. Past \subseteq Past' /\ Recorded \subseteq Recorded' /\ evicted \subseteq evicted'
    BY <2>1, <2>3 DEF Past, Recorded
  <2> QED
    BY <2>1, <2>3, <2>4, <2>5, <2>6, <2>7
    DEF RecordInv, StartsAreKnown, AskedAreKnown, LookupNeverMisses
<1>6. ASSUME NEW c \in Callers, CancelSlot(c) \/ MarkCancelled(c) \/ Authorize(c) \/ CheckOwner(c)
      PROVE  RecordInv'
  <2>1. UNCHANGED <<active, history, authorities, requests, evicted, stage, owner, ref, resent>>
    BY <1>6 DEF CancelSlot, MarkCancelled, Authorize, CheckOwner
  <2>2. RecordTypes'
    BY <1>6, <1>t
    DEF Typed, RecordTypes, Outcomes, CancelSlot, MarkCancelled, Authorize, CheckOwner, Slot!Stop
  <2>3. ref[c] \in Recorded /\ pc[c] \notin {"idle", "second"}
    BY <1>6 DEF CancelSlot, MarkCancelled, Authorize, CheckOwner, RecordInv, AskedAreKnown
  <2>4. /\ \A d \in Callers \ {c} : pc'[d] = pc[d] /\ answer'[d] = answer[d]
        /\ pc'[c] # "second" /\ (answer'[c] = "missing" /\ answer[c] # "missing" => ref[c] \in evicted)
    BY <1>6, <1>k, <1>t, <2>3
    DEF Typed, RecordTypes, CancelSlot, MarkCancelled, Authorize, CheckOwner, Recorded, Past
  <2>5. AskedAreKnown' /\ LookupNeverMisses'
    BY <2>1, <2>3, <2>4 DEF RecordInv, AskedAreKnown, LookupNeverMisses, Recorded, Past
  <2> QED
    BY <2>1, <2>2, <2>5, RecordsAsked
<1>7. ASSUME NEW c \in Callers, Look(c) PROVE RecordInv'
  <2>1. UNCHANGED <<active, history, authorities, requests, evicted, stage, owner, ref, resent>>
    BY <1>7 DEF Look
  <2>2. ref[c] \in Recorded /\ (pc[c] = "second" => ref[c] \in Past) /\ ref[c] \in Ops
    BY <1>7, <1>k, <1>t DEF Look, RecordInv, AskedAreKnown, Recorded, Past, RecordTypes
  <2>3. LookupOrder[1] = "active" /\ LookupOrder[2] = "history"
    BY DEF LookupOrder
  <2>4. RecordTypes'
    <3>1. answer' = answer \/ \E a \in Outcomes \cup {"none", "running", "missing"} :
                                answer' = [answer EXCEPT ![c] = a]
      <4>1. outcome[ref[c]] \in Outcomes \cup {"none", "running", "missing"}
        BY <1>t, <2>2 DEF Typed
      <4> QED
        BY <1>7, <4>1 DEF Look
    <3> QED
      BY <1>7, <1>t, <3>1 DEF Look, RecordTypes
  <2>5. /\ \A d \in Callers \ {c} : pc'[d] = pc[d] /\ answer'[d] = answer[d]
        /\ (pc'[c] = "second" => ref[c] \in Past)
        /\ (answer'[c] = "missing" /\ answer[c] # "missing" => ref[c] \in evicted)
    BY <1>7, <1>t, <2>2, <2>3 DEF Look, Found, Typed, RecordTypes, Recorded, Past, Outcomes
  <2>6. AskedAreKnown' /\ LookupNeverMisses'
    BY <2>1, <2>2, <2>5 DEF RecordInv, AskedAreKnown, LookupNeverMisses, Recorded, Past
  <2> QED
    BY <2>1, <2>4, <2>6, RecordsAsked
<1>8. ASSUME NEW c \in Callers, Resend(c) \/ \E o \in Ops : Ask(c, o) PROVE RecordInv'
  <2>1. UNCHANGED <<active, history, authorities, requests, evicted, stage, owner>>
    BY <1>8 DEF Resend, Ask
  <2>2. RecordTypes'
    BY <1>8, <1>t DEF Typed, RecordTypes, Outcomes, Resend, Ask
  <2>3. ref'[c] \in Recorded
    <3>1. CASE Resend(c)
      <4>1. PICK n \in DOMAIN requests : ref' = [ref EXCEPT ![c] = requests[n][2]]
        BY <3>1 DEF Resend
      <4>2. n \in 1 .. Len(requests)
        BY <1>t DEF Typed
      <4> QED
        BY <1>t, <4>1, <4>2 DEF Typed, RecordInv, StartsAreKnown
    <3>2. CASE \E o \in Ops : Ask(c, o)
      BY <1>k, <1>t, <3>2 DEF Ask, Typed, Recorded, Past
    <3> QED
      BY <1>8, <3>1, <3>2
  <2>4. /\ \A d \in Callers \ {c} : pc'[d] = pc[d] /\ answer'[d] = answer[d] /\ ref'[d] = ref[d]
        /\ pc'[c] # "second" /\ answer'[c] = "none"
    BY <1>8, <1>t DEF Typed, RecordTypes, Resend, Ask
  <2>5. AskedAreKnown' /\ LookupNeverMisses'
    BY <2>1, <2>3, <2>4 DEF RecordInv, AskedAreKnown, LookupNeverMisses, Recorded, Past
  <2> QED
    BY <2>1, <2>2, <2>5, RecordsAsked
<1>9. CASE UNCHANGED vars
  <2>1. RecordTypes'
    BY <1>9, <1>t DEF vars, RecordTypes
  <2> QED
    BY <1>9, <2>1, RecordsUntouched DEF vars
<1> QED
  BY <1>1, <1>2, <1>3, <1>4, <1>5, <1>6, <1>7, <1>8, <1>9 DEF Next, Run

\* The types that follow from the two invariants.
LEMMA OperationTypes == ASSUME OperationAssumption PROVE IInv /\ RecordInv => TypeOK
BY OwnersAreRecorded DEF IInv, RecordInv, Typed, RecordTypes, TypeOK, Slot!TypeOK

\* The types, and the bounds of the three records.
THEOREM TypeCorrect == ASSUME OperationAssumption PROVE Spec => []TypeOK
BY OperationTypes, InitInv, StepInv, RecordInit, RecordStep, PTL DEF Spec

\* A visible job has an owner.
LEMMA OwnersAreKept == ASSUME OperationAssumption PROVE IInv /\ RecordInv => VisibleHasOwner
BY OwnersAreRecorded DEF IInv, RecordInv, Typed, VisibleHasOwner

\* Every job that is visible has its owner on record, whatever the bound of the
\* records (start_operation, remember_operation_authority, finish_operation).
THEOREM OwnerSafety == ASSUME OperationAssumption PROVE Spec => []VisibleHasOwner
BY OwnersAreKept, InitInv, StepInv, RecordInit, RecordStep, PTL DEF Spec

\* A call about a job that was visible is told that the job is unknown only
\* when later jobs have pushed it out, although it looks at the active job and
\* at the finished ones under two locks (operation, finish_operation).
THEOREM LookupSafety == ASSUME OperationAssumption PROVE Spec => []LookupNeverMisses
<1>1. RecordInv => LookupNeverMisses
  BY DEF RecordInv
<1> QED
  BY <1>1, InitInv, StepInv, RecordInit, RecordStep, PTL DEF Spec

-----------------------------------------------------------------------------
(* Emptying the system's trash (EmptyTrash), for any set of calls and any    *)
(* number of plans.                                                          *)

CONSTANTS Calls, NoCall, MaxRequests
VARIABLES trashSlot, trashFlag, trashPlans, pending, unconfirmed, call, worker, atWork

Empty == INSTANCE EmptyTrash WITH
  MaxPlans <- MaxRequests, slot <- trashSlot, flag <- trashFlag, plans <- trashPlans

WorkerLives(c) == worker[c] \notin {"none", "gone"}

\* A call or a worker that is not over holds the slot.
HolderHasSlot ==
  \A c \in Calls : call[c].at \notin {"idle", "dropped"} \/ WorkerLives(c) => trashSlot = c

\* How far a worker is, by the stage of its call.
WorkerOfCall ==
  \A c \in Calls :
    /\ call[c].at \in {"idle", "claim", "commit"} => worker[c] = "none"
    /\ call[c].at = "await" => WorkerLives(c)
    /\ call[c].at \in Empty!Outcomes => worker[c] = "gone"

\* A request that may be at work is waited for, about to be recorded as not
\* confirmed, or recorded.
WorkIsKnown ==
  \A c \in atWork :
    unconfirmed \/ worker[c] \in {"asking", "unconfirmed"} \/ call[c].at = "unconfirmed"

\* Once the latch is set, nothing is on its way to a request.
LatchStops ==
  unconfirmed => \A c \in Calls : call[c].at # "commit" /\ worker[c] # "ready"

AloneAtWork == \A c, d \in atWork : c = d

EmptyInv == Empty!TypeOK /\ HolderHasSlot /\ WorkerOfCall /\ WorkIsKnown /\ LatchStops /\ AloneAtWork

-----------------------------------------------------------------------------
\* What TypeOK says of a plan and of a call.
EmptyPlan == [id : 0..MaxRequests, fresh : BOOLEAN]
EmptyCall == [at : Empty!Outcomes \cup {"idle", "claim", "commit", "await", "dropped"},
         plan : 0..MaxRequests, acknowledged : BOOLEAN]

\* The initial state satisfies the invariant.
LEMMA EmptyInit == ASSUME Empty!EmptyAssumption PROVE Empty!Init => EmptyInv
<1> SUFFICES ASSUME Empty!Init PROVE EmptyInv
  OBVIOUS
<1> USE DEF Empty!Init, Empty!EmptyAssumption
<1>1. Empty!TypeOK
  <2>1. 0 \in 0..MaxRequests
    OBVIOUS
  <2>2. Empty!NoPlan \in EmptyPlan /\ Empty!Idle \in EmptyCall
    BY <2>1 DEF Empty!NoPlan, Empty!Idle, EmptyPlan, EmptyCall
  <2> QED
    BY <2>1, <2>2 DEF Empty!TypeOK, EmptyPlan, EmptyCall, Empty!Outcomes
<1>2. HolderHasSlot /\ WorkerOfCall
  BY DEF HolderHasSlot, WorkerOfCall, WorkerLives, Empty!Idle, Empty!Outcomes
<1>3. WorkIsKnown /\ LatchStops /\ AloneAtWork
  BY DEF WorkIsKnown, LatchStops, AloneAtWork
<1> QED
  BY <1>1, <1>2, <1>3 DEF EmptyInv

\* Every step keeps the types.
LEMMA EmptyStepType ==
  ASSUME Empty!EmptyAssumption
  PROVE  Empty!TypeOK /\ [Empty!Next]_(Empty!vars) => Empty!TypeOK'
<1> SUFFICES ASSUME Empty!TypeOK, [Empty!Next]_(Empty!vars) PROVE Empty!TypeOK'
  OBVIOUS
<1>0. /\ 0 \in 0..MaxRequests /\ Empty!NoPlan \in EmptyPlan /\ Empty!Idle \in EmptyCall
      /\ pending \in EmptyPlan /\ call \in [Calls -> EmptyCall]
  <2>1. 0 \in 0..MaxRequests
    BY DEF Empty!EmptyAssumption
  <2> QED
    BY <2>1 DEF Empty!TypeOK, Empty!NoPlan, Empty!Idle, EmptyPlan, EmptyCall
<1>1. CASE Empty!Prepare
  <2>1. trashPlans' \in 0..MaxRequests
    BY <1>1 DEF Empty!Prepare, Empty!TypeOK, Empty!EmptyAssumption
  <2>2. pending' \in [id : 0..MaxRequests, fresh : BOOLEAN]
    BY <1>1, <2>1 DEF Empty!Prepare
  <2> QED
    BY <1>1, <2>1, <2>2 DEF Empty!Prepare, Empty!TypeOK
<1>2. CASE Empty!Dismiss \/ Empty!Expire \/ Empty!Cancel
  BY <1>0, <1>2 DEF Empty!Dismiss, Empty!Expire, Empty!Cancel, Empty!TypeOK, EmptyPlan
<1>3. ASSUME NEW c \in Calls, Empty!Begin(c) PROVE Empty!TypeOK'
  <2>1. PICK id \in 1..trashPlans, ack \in BOOLEAN :
          call' = [call EXCEPT ![c] = [at |-> "claim", plan |-> id, acknowledged |-> ack]]
    BY <1>3 DEF Empty!Begin
  <2>2. id \in 0..MaxRequests
    BY DEF Empty!TypeOK, Empty!EmptyAssumption
  <2>3. call' \in [Calls -> EmptyCall]
    BY <1>0, <2>1, <2>2 DEF EmptyCall
  <2> QED
    BY <1>3, <2>3 DEF Empty!Begin, Empty!TypeOK, EmptyCall
\* The stages a call may go to.
<1>4. ASSUME NEW c \in Calls,
             NEW at \in Empty!Outcomes \cup {"claim", "commit", "await", "dropped"}
      PROVE  [call EXCEPT ![c].at = at] \in [Calls -> EmptyCall]
  BY <1>0 DEF EmptyCall
<1>5. ASSUME NEW c \in Calls PROVE [call EXCEPT ![c] = Empty!Idle] \in [Calls -> EmptyCall]
  BY <1>0
<1>6. ASSUME NEW c \in Calls, Empty!Claim(c) PROVE Empty!TypeOK'
  <2>1. call' \in [Calls -> EmptyCall]
    <3>1. CASE call' = [call EXCEPT ![c].at = "commit"]
      <4>1. [call EXCEPT ![c].at = "commit"] \in [Calls -> EmptyCall]
        BY <1>4
      <4> QED
        BY <3>1, <4>1
    <3>2. CASE call' = [call EXCEPT ![c] = Empty!Idle]
      BY <1>5, <3>2
    <3> QED
      BY <1>6, <3>1, <3>2 DEF Empty!Claim, Empty!Leave
  <2>2. pending' \in EmptyPlan
    BY <1>0, <1>6 DEF Empty!Claim, Empty!TakePlan
  <2>3. trashSlot' \in Calls \cup {NoCall}
    BY <1>6 DEF Empty!Claim, Empty!Leave, Empty!FreeWith, Empty!TypeOK
  <2> QED
    BY <1>6, <2>1, <2>2, <2>3 DEF Empty!Claim, Empty!TypeOK, EmptyCall, EmptyPlan
<1>7. ASSUME NEW c \in Calls, Empty!Commit(c) PROVE Empty!TypeOK'
  <2>1. call' \in [Calls -> EmptyCall]
    <3>1. CASE call' = [call EXCEPT ![c].at = "await"]
      <4>1. [call EXCEPT ![c].at = "await"] \in [Calls -> EmptyCall]
        BY <1>4
      <4> QED
        BY <3>1, <4>1
    <3>2. CASE call' = [call EXCEPT ![c] = Empty!Idle]
      BY <1>5, <3>2
    <3> QED
      BY <1>7, <3>1, <3>2 DEF Empty!Commit, Empty!Leave
  <2>2. trashSlot' \in Calls \cup {NoCall}
    BY <1>7 DEF Empty!Commit, Empty!Leave, Empty!FreeWith, Empty!TypeOK
  <2>3. worker' \in [Calls -> Empty!Outcomes \cup {"none", "ready", "asking", "gone"}]
    BY <1>7 DEF Empty!Commit, Empty!TypeOK
  <2> QED
    BY <1>7, <2>1, <2>2, <2>3 DEF Empty!Commit, Empty!TypeOK, EmptyCall
<1>8. ASSUME NEW c \in Calls, Empty!Ask(c) \/ Empty!Answer(c) \/ Empty!SystemEnds(c)
      PROVE  Empty!TypeOK'
  BY <1>8 DEF Empty!Ask, Empty!Answer, Empty!SystemEnds, Empty!TypeOK, Empty!Outcomes
<1>9. ASSUME NEW c \in Calls, Empty!WorkerEnds(c) PROVE Empty!TypeOK'
  <2>1. call' \in [Calls -> EmptyCall]
    BY <1>0, <1>4, <1>9 DEF Empty!WorkerEnds
  <2> QED
    BY <1>0, <1>9, <2>1 DEF Empty!WorkerEnds, Empty!End, Empty!Record, Empty!FreeWith,
       Empty!TypeOK, EmptyCall, EmptyPlan
<1>10. ASSUME NEW c \in Calls, Empty!WorkerFails(c) \/ Empty!Drop(c) PROVE Empty!TypeOK'
  <2>1. call' \in [Calls -> EmptyCall]
    <3>1. /\ [call EXCEPT ![c].at = "unconfirmed"] \in [Calls -> EmptyCall]
          /\ [call EXCEPT ![c].at = "dropped"] \in [Calls -> EmptyCall]
      BY <1>4 DEF Empty!Outcomes
    <3> QED
      BY <1>10, <3>1 DEF Empty!WorkerFails, Empty!Drop
  <2> QED
    BY <1>10, <2>1 DEF Empty!WorkerFails, Empty!Drop, Empty!FreeWith, Empty!TypeOK, EmptyCall
<1>11. ASSUME NEW c \in Calls, Empty!Return(c) PROVE Empty!TypeOK'
  <2>1. call' \in [Calls -> EmptyCall]
    BY <1>5, <1>11 DEF Empty!Return, Empty!Leave
  <2> QED
    BY <1>0, <1>11, <2>1 DEF Empty!Return, Empty!Record, Empty!Leave, Empty!FreeWith,
       Empty!TypeOK, EmptyCall, EmptyPlan
<1>12. CASE UNCHANGED Empty!vars
  BY <1>12 DEF Empty!vars, Empty!TypeOK
<1> QED
  BY <1>1, <1>2, <1>3, <1>6, <1>7, <1>8, <1>9, <1>10, <1>11, <1>12 DEF Empty!Next

\* Steps that touch neither calls nor workers nor what is at work, and do not
\* set the latch.
LEMMA EmptyQuiet ==
  ASSUME EmptyInv, Empty!TypeOK', UNCHANGED <<trashSlot, call, worker, atWork, unconfirmed>>
  PROVE  EmptyInv'
BY DEF EmptyInv, HolderHasSlot, WorkerOfCall, WorkIsKnown, LatchStops, AloneAtWork, WorkerLives

\* Every step keeps the invariant.
LEMMA EmptyStep ==
  ASSUME Empty!EmptyAssumption
  PROVE  EmptyInv /\ [Empty!Next]_(Empty!vars) => EmptyInv'
<1> SUFFICES ASSUME EmptyInv, [Empty!Next]_(Empty!vars) PROVE EmptyInv'
  OBVIOUS
<1>0. Empty!TypeOK /\ Empty!TypeOK'
  BY EmptyStepType DEF EmptyInv
<1> USE DEF EmptyInv
<1>1. CASE Empty!Prepare \/ Empty!Dismiss \/ Empty!Expire \/ Empty!Cancel
  BY <1>0, <1>1, EmptyQuiet DEF Empty!Prepare, Empty!Dismiss, Empty!Expire, Empty!Cancel
<1>2. ASSUME NEW c \in Calls, Empty!Begin(c) PROVE EmptyInv'
  <2>1. HolderHasSlot' /\ WorkerOfCall'
    BY <1>0, <1>2 DEF Empty!TypeOK, Empty!EmptyAssumption, Empty!Begin, HolderHasSlot,
       WorkerOfCall, WorkerLives, Empty!Outcomes
  <2>2. WorkIsKnown' /\ LatchStops' /\ AloneAtWork'
    BY <1>0, <1>2 DEF Empty!TypeOK, Empty!Begin, WorkIsKnown, LatchStops, AloneAtWork
  <2> QED
    BY <1>0, <2>1, <2>2
<1>3. ASSUME NEW c \in Calls, Empty!Claim(c) PROVE EmptyInv'
  <2>1. HolderHasSlot' /\ WorkerOfCall'
    BY <1>0, <1>3
    DEF Empty!TypeOK, Empty!Claim, Empty!TakePlan, Empty!Leave, Empty!FreeWith, HolderHasSlot,
    WorkerOfCall, WorkerLives, Empty!Idle, Empty!Outcomes
  <2>2. WorkIsKnown' /\ LatchStops' /\ AloneAtWork'
    <3>1. CASE call' = [call EXCEPT ![c].at = "commit"] /\ ~unconfirmed
      BY <1>0, <1>3, <3>1 DEF Empty!TypeOK, Empty!Claim, WorkIsKnown, LatchStops, AloneAtWork
    <3>2. CASE call' = [call EXCEPT ![c] = Empty!Idle]
      BY <1>0, <1>3, <3>2 DEF Empty!TypeOK, Empty!Claim, WorkIsKnown, LatchStops, AloneAtWork,
         Empty!Idle
    <3> QED
      BY <1>3, <3>1, <3>2 DEF Empty!Claim, Empty!Leave
  <2> QED
    BY <1>0, <2>1, <2>2
<1>4. ASSUME NEW c \in Calls, Empty!Commit(c) PROVE EmptyInv'
  <2>0. trashSlot = c /\ worker[c] = "none" /\ ~unconfirmed
    BY <1>4 DEF Empty!Commit, HolderHasSlot, WorkerOfCall, LatchStops
  <2>1. CASE trashFlag
    <3>1. call' = [call EXCEPT ![c] = Empty!Idle] /\ trashSlot' = NoCall /\ UNCHANGED <<worker, atWork, unconfirmed>>
      BY <1>4, <2>0, <2>1 DEF Empty!Commit, Empty!Leave, Empty!FreeWith
    <3>2. HolderHasSlot' /\ WorkerOfCall'
      BY <1>0, <2>0, <3>1 DEF Empty!TypeOK, HolderHasSlot, WorkerOfCall, WorkerLives,
         Empty!Idle, Empty!Outcomes
    <3>3. WorkIsKnown' /\ LatchStops' /\ AloneAtWork'
      BY <1>0, <1>4, <2>0, <3>1 DEF Empty!TypeOK, Empty!Commit, WorkIsKnown, LatchStops,
         AloneAtWork, Empty!Idle
    <3> QED
      BY <1>0, <3>2, <3>3
  <2>2. CASE ~trashFlag
    <3>1. /\ call' = [call EXCEPT ![c].at = "await"] /\ worker' = [worker EXCEPT ![c] = "ready"]
          /\ UNCHANGED <<trashSlot, atWork, unconfirmed>>
      BY <1>4, <2>2 DEF Empty!Commit
    <3>2. HolderHasSlot' /\ WorkerOfCall'
      BY <1>0, <2>0, <3>1 DEF Empty!TypeOK, HolderHasSlot, WorkerOfCall, WorkerLives, Empty!Outcomes
    <3>3. WorkIsKnown' /\ LatchStops' /\ AloneAtWork'
      BY <1>0, <1>4, <2>0, <3>1 DEF Empty!TypeOK, Empty!Commit, WorkIsKnown, LatchStops, AloneAtWork
    <3> QED
      BY <1>0, <3>2, <3>3
  <2> QED
    BY <2>1, <2>2
\* The worker that asks holds the slot, and the latch is not set: whoever else
\* was at work would hold the slot as well.
<1>5. ASSUME NEW c \in Calls, Empty!Ask(c) PROVE EmptyInv'
  <2>1. HolderHasSlot' /\ WorkerOfCall'
    BY <1>0, <1>5 DEF Empty!TypeOK, Empty!Ask, HolderHasSlot, WorkerOfCall, WorkerLives,
       Empty!Outcomes
  <2>2. trashSlot = c /\ ~unconfirmed
    BY <1>5 DEF Empty!Ask, HolderHasSlot, LatchStops, WorkerLives
  <2>3. atWork = {}
    <3> SUFFICES ASSUME NEW d \in atWork PROVE FALSE
      OBVIOUS
    <3>1. d \in Calls
      BY <1>0 DEF Empty!TypeOK
    <3>2. trashSlot = d
      BY <2>2, <3>1 DEF WorkIsKnown, HolderHasSlot, WorkerLives
    <3> QED
      BY <1>5, <2>2, <3>1, <3>2 DEF Empty!Ask, WorkIsKnown, WorkerOfCall, Empty!Outcomes
  <2>4. WorkIsKnown' /\ LatchStops' /\ AloneAtWork'
    BY <1>0, <1>5, <2>2, <2>3 DEF Empty!TypeOK, Empty!Ask, WorkIsKnown, LatchStops, AloneAtWork
  <2> QED
    BY <1>0, <2>1, <2>4
<1>6. ASSUME NEW c \in Calls, Empty!Answer(c) PROVE EmptyInv'
  <2>1. HolderHasSlot' /\ WorkerOfCall'
    BY <1>0, <1>6 DEF Empty!TypeOK, Empty!Answer, HolderHasSlot, WorkerOfCall, WorkerLives,
       Empty!Outcomes
  <2>2. WorkIsKnown' /\ LatchStops' /\ AloneAtWork'
    BY <1>0, <1>6 DEF Empty!TypeOK, Empty!Answer, WorkIsKnown, LatchStops, AloneAtWork,
       Empty!Outcomes
  <2> QED
    BY <1>0, <2>1, <2>2
<1>7. ASSUME NEW c \in Calls, Empty!SystemEnds(c) PROVE EmptyInv'
  <2>1. HolderHasSlot' /\ WorkerOfCall'
    BY <1>7 DEF Empty!SystemEnds, HolderHasSlot, WorkerOfCall, WorkerLives
  <2>2. WorkIsKnown' /\ LatchStops' /\ AloneAtWork'
    BY <1>7 DEF Empty!SystemEnds, WorkIsKnown, LatchStops, AloneAtWork
  <2> QED
    BY <1>0, <2>1, <2>2
\* The latch may be set: the slot says that no other call is on its way.
<1>8. ASSUME NEW c \in Calls, Empty!WorkerEnds(c) PROVE EmptyInv'
  <2>0. trashSlot = c
    BY <1>8 DEF Empty!WorkerEnds, HolderHasSlot, WorkerLives, Empty!Outcomes
  <2>1. HolderHasSlot' /\ WorkerOfCall'
    BY <1>0, <1>8, <2>0
    DEF Empty!TypeOK, Empty!WorkerEnds, Empty!FreeWith, HolderHasSlot, WorkerOfCall, WorkerLives,
    Empty!Outcomes
  <2>2. WorkIsKnown' /\ AloneAtWork'
    <3>1. \A d \in Calls : d # c => worker'[d] = worker[d] /\ call'[d] = call[d]
      BY <1>0, <1>8 DEF Empty!TypeOK, Empty!WorkerEnds
    <3>2. c \in atWork => unconfirmed'
      BY <1>0, <1>8 DEF Empty!TypeOK, Empty!WorkerEnds, Empty!End, Empty!Record, WorkIsKnown,
         WorkerOfCall, WorkerLives, Empty!Outcomes
    <3> QED
      BY <1>0, <1>8, <3>1, <3>2 DEF Empty!TypeOK, Empty!WorkerEnds, Empty!End, Empty!Record,
         WorkIsKnown, AloneAtWork
  <2>3. LatchStops'
    BY <1>0, <1>8, <2>0
    DEF Empty!TypeOK, Empty!WorkerEnds, Empty!End, Empty!Record, LatchStops, HolderHasSlot,
    WorkerOfCall, WorkerLives, Empty!Outcomes
  <2> QED
    BY <1>0, <2>1, <2>2, <2>3
<1>9. ASSUME NEW c \in Calls, Empty!WorkerFails(c) PROVE EmptyInv'
  <2>1. HolderHasSlot' /\ WorkerOfCall'
    BY <1>0, <1>9 DEF Empty!TypeOK, Empty!WorkerFails, HolderHasSlot, WorkerOfCall, WorkerLives,
       Empty!Outcomes
  <2>2. WorkIsKnown' /\ LatchStops' /\ AloneAtWork'
    BY <1>0, <1>9 DEF Empty!TypeOK, Empty!WorkerFails, WorkIsKnown, LatchStops, AloneAtWork
  <2> QED
    BY <1>0, <2>1, <2>2
<1>10. ASSUME NEW c \in Calls, Empty!Return(c) PROVE EmptyInv'
  <2>0. trashSlot = c /\ worker[c] = "gone"
    BY <1>10 DEF Empty!Return, HolderHasSlot, WorkerOfCall, Empty!Outcomes
  <2>1. HolderHasSlot' /\ WorkerOfCall'
    BY <1>0, <1>10, <2>0
    DEF Empty!TypeOK, Empty!Return, Empty!Leave, Empty!FreeWith, HolderHasSlot, WorkerOfCall,
    WorkerLives, Empty!Idle, Empty!Outcomes
  <2>2. WorkIsKnown' /\ AloneAtWork'
    BY <1>0, <1>10, <2>0 DEF Empty!TypeOK, Empty!Return, Empty!Record, Empty!Leave, WorkIsKnown,
       AloneAtWork, Empty!Idle
  <2>3. LatchStops'
    BY <1>0, <1>10, <2>0
    DEF Empty!TypeOK, Empty!Return, Empty!Record, Empty!Leave, LatchStops, HolderHasSlot,
    WorkerLives, Empty!Idle
  <2> QED
    BY <1>0, <2>1, <2>2, <2>3
<1>11. ASSUME NEW c \in Calls, Empty!Drop(c) PROVE EmptyInv'
  <2>1. HolderHasSlot' /\ WorkerOfCall'
    BY <1>0, <1>11 DEF Empty!TypeOK, Empty!Drop, Empty!FreeWith, HolderHasSlot, WorkerOfCall,
       WorkerLives, Empty!Outcomes
  <2>2. WorkIsKnown' /\ LatchStops' /\ AloneAtWork'
    BY <1>0, <1>11 DEF Empty!TypeOK, Empty!Drop, WorkIsKnown, LatchStops, AloneAtWork
  <2> QED
    BY <1>0, <2>1, <2>2
<1>12. CASE UNCHANGED Empty!vars
  BY <1>0, <1>12, EmptyQuiet DEF Empty!vars
<1> QED
  BY <1>1, <1>2, <1>3, <1>4, <1>5, <1>6, <1>7, <1>8, <1>9, <1>10, <1>11, <1>12 DEF Empty!Next

-----------------------------------------------------------------------------
\* The invariant holds in every reachable state, for any set of calls
\* (empty_trash.rs, confirm_empty_system_trash and record_outcome).
THEOREM EmptyInductive == ASSUME Empty!EmptyAssumption PROVE Empty!Spec => []EmptyInv
<1>1. Empty!Init => EmptyInv
  BY EmptyInit
<1>2. EmptyInv /\ [Empty!Next]_(Empty!vars) => EmptyInv'
  BY EmptyStep
<1> QED
  BY <1>1, <1>2, PTL DEF Empty!Spec

\* What is at work is one request at most.
LEMMA AloneIsOne == EmptyInv => Empty!OneRequestAtWork
<1> SUFFICES ASSUME EmptyInv PROVE Cardinality(atWork) <= 1
  <2>1. Empty!Cardinality(atWork) = Cardinality(atWork)
    BY Zenon DEF Empty!Cardinality, Cardinality
  <2> QED
    BY <2>1 DEF Empty!OneRequestAtWork
<1>1. CASE atWork = {}
  BY <1>1, FS_EmptySet
<1>2. CASE atWork # {}
  <2>1. PICK c : atWork = {c}
    BY <1>2 DEF EmptyInv, AloneAtWork
  <2> QED
    BY <2>1, FS_Singleton
<1> QED
  BY <1>1, <1>2

\* The application never has two requests to empty the trash at work at once,
\* however many calls there are and whatever became of the earlier ones.
THEOREM RequestSafety == ASSUME Empty!EmptyAssumption PROVE Empty!Spec => []Empty!OneRequestAtWork
BY EmptyInductive, AloneIsOne, PTL

\* The types hold in every reachable state.
THEOREM EmptyTypes == ASSUME Empty!EmptyAssumption PROVE Empty!Spec => []Empty!TypeOK
<1>1. EmptyInv => Empty!TypeOK
  BY DEF EmptyInv
<1> QED
  BY <1>1, EmptyInductive, PTL

-----------------------------------------------------------------------------
(* The removal of an application, for any applications and kinds of data and *)
(* any number of lists, plans and changes by others.                         *)

CONSTANTS Apps, Kinds, MaxLists, MaxPlans, MaxChanges
VARIABLES app, data, inventory, inner, work, needs, late, moved, lists, issued, changes

Removal == INSTANCE ApplicationRemoval WITH plans <- issued

AppRec == [there : BOOLEAN, version : Nat, running : BOOLEAN]
Versions == [Kinds -> Nat]
EntryRec == [version : Nat, protected : BOOLEAN, shared : BOOLEAN, removed : BOOLEAN, candidates : Versions]
PlanRec == [n : Nat, app : Apps, list : Nat, kinds : SUBSET Kinds, version : Nat, removed : BOOLEAN, items : Versions]
Movable == Kinds \cup {"bundle"}
SeenRec ==
  [item : Movable, app : Apps, removed : BOOLEAN, owners : SUBSET Apps, running : BOOLEAN,
   reviewed : Nat, found : Nat]
RemovalStages ==
  {"idle", "clear", "list", "cache", "inspect", "keep", "take", "store", "claim", "commit",
   "items", "native", "report"}
WorkRec ==
  [step : RemovalStages, app : Apps \cup {""}, list : Nat, kinds : SUBSET Kinds, found : Versions \cup SeenRec,
   plan : PlanRec \cup {Removal!NoPlan}, left : SUBSET Movable, cancelled : BOOLEAN, complete : BOOLEAN, done : SUBSET Movable]
EntryMaps == UNION {[S -> EntryRec] : S \in SUBSET Apps}
InnerRec == [id : Nat, entries : EntryMaps, pending : PlanRec \cup {Removal!NoPlan}]

\* What is gone does not run, and data is as new as the changes.
RemovalDisk ==
  /\ app \in [Apps -> AppRec] /\ \A a \in Apps : ~app[a].there => ~app[a].running
  /\ changes \in 0 .. MaxChanges /\ data \in [Kinds -> Nat] /\ \A k \in Kinds : data[k] <= 1 + changes

RemovalCounts ==
  /\ lists \in Nat /\ issued \in Nat /\ inventory \in 0 .. lists
  /\ inner.id \in 0 .. lists /\ inner.pending.n \in 0 .. issued

RemovalWork ==
  /\ work \in WorkRec /\ inner \in InnerRec
  /\ work.step \in {"keep", "store"} => work.found \in Versions /\ work.app \in DOMAIN inner.entries
  /\ work.step \in {"commit", "items", "native", "report"} => work.plan \in PlanRec

\* An item that was found as it was reviewed.
AsReviewed(m) ==
  /\ m.found = m.reviewed /\ ~m.running
  /\ m.item # "bundle" => m.owners = (IF m.removed THEN {} ELSE {m.app})

RemovalMoves ==
  /\ work.step = "native" => work.found \in SeenRec /\ AsReviewed(work.found)
  /\ \A m \in moved : AsReviewed(m)

\* The latch is set from the commit to an answer, and as long as a request is
\* not settled; nothing is on its way to the system then.
RemovalLatch ==
  /\ needs \in BOOLEAN
  /\ late \subseteq SeenRec /\ \A i, j \in late : i = j
  /\ late # {} => needs
  /\ work.step \in {"take", "store", "claim", "commit"} => ~needs
  /\ work.step \in {"items", "native", "report"} => needs
  /\ work.step \in {"items", "native"} => late = {}
  /\ work.step = "report" /\ work.complete => late = {}

RemovalInv == RemovalDisk /\ RemovalCounts /\ RemovalWork /\ RemovalMoves /\ RemovalLatch

-----------------------------------------------------------------------------
(* Records.                                                                  *)

\* The cardinality of the model is that of the library.
LEMMA RemovalCardinality == \A S : Removal!Cardinality(S) = Cardinality(S)
BY Zenon DEF Removal!Cardinality, Cardinality

LEMMA GoTyped ==
  ASSUME NEW w \in WorkRec, NEW s \in RemovalStages, NEW q, q = [w EXCEPT !.step = s]
  PROVE  /\ q \in WorkRec /\ q.step = s /\ q.app = w.app /\ q.list = w.list /\ q.kinds = w.kinds
         /\ q.found = w.found /\ q.plan = w.plan /\ q.left = w.left
         /\ q.cancelled = w.cancelled /\ q.complete = w.complete /\ q.done = w.done
BY DEF WorkRec

LEMMA IdleTyped == Removal!Idle \in WorkRec /\ Removal!Idle.step = "idle"
<1>1. Removal!NoItems \in Versions
  BY DEF Removal!NoItems, Versions
<1> QED
  BY <1>1 DEF Removal!Idle, WorkRec, RemovalStages

LEMMA EmptyTyped ==
  Removal!Empty \in InnerRec /\ Removal!Empty.id = 0 /\ Removal!Empty.pending.n = 0 /\ DOMAIN Removal!Empty.entries = {}
<1>1. Removal!NoEntries \in [{} -> EntryRec]
  BY DEF Removal!NoEntries
<1>2. Removal!NoEntries \in EntryMaps /\ DOMAIN Removal!NoEntries = {}
  BY <1>1 DEF EntryMaps
<1> QED
  BY <1>2 DEF Removal!Empty, InnerRec, Removal!NoPlan

\* Only the plan that is waiting changes.
LEMMA WaitingTyped ==
  ASSUME NEW r \in InnerRec, NEW p \in PlanRec \cup {Removal!NoPlan}, NEW q, q = [r EXCEPT !.pending = p]
  PROVE  q \in InnerRec /\ q.id = r.id /\ q.entries = r.entries /\ q.pending = p
BY DEF InnerRec

LEMMA InnerTyped ==
  ASSUME NEW r \in InnerRec
  PROVE  /\ r.id \in Nat /\ r.pending \in PlanRec \cup {Removal!NoPlan} /\ DOMAIN r.entries \subseteq Apps
         /\ \A a \in DOMAIN r.entries : r.entries[a] \in EntryRec
BY DEF InnerRec, EntryMaps

\* One entry of the list changes.
LEMMA EntryChanges ==
  ASSUME NEW r \in InnerRec, NEW a \in DOMAIN r.entries, NEW e \in EntryRec,
         NEW q, q = [r EXCEPT !.entries[a] = e]
  PROVE  q \in InnerRec /\ q.id = r.id /\ q.pending = r.pending /\ DOMAIN q.entries = DOMAIN r.entries
<1>1. PICK S \in SUBSET Apps : r.entries \in [S -> EntryRec]
  BY DEF InnerRec, EntryMaps
<1>2. q = [r EXCEPT !.entries = [r.entries EXCEPT ![a] = e]]
  OBVIOUS
<1>3. [r.entries EXCEPT ![a] = e] \in [S -> EntryRec]
  BY <1>1
<1>4. [r.entries EXCEPT ![a] = e] \in EntryMaps
  BY <1>3 DEF EntryMaps
<1> QED
  BY <1>2, <1>4 DEF InnerRec

-----------------------------------------------------------------------------
(* Initial states, and steps that change nothing but the command.            *)

LEMMA RemovalBegins == ASSUME Removal!RemovalAssumption, Removal!Init PROVE RemovalInv
<1>1. RemovalDisk
  <2>1. \A a \in Apps : app[a] \in AppRec /\ app[a].running = FALSE
    <3>1. app \in [Apps -> {[there |-> t, version |-> 1, running |-> FALSE] : t \in BOOLEAN}]
      BY DEF Removal!Init
    <3>2. \A t \in BOOLEAN : [there |-> t, version |-> 1, running |-> FALSE] \in AppRec
      BY DEF AppRec
    <3> QED
      BY <3>1, <3>2
  <2>2. app \in [Apps -> AppRec]
    BY <2>1 DEF Removal!Init
  <2>3. changes = 0 /\ changes \in 0 .. MaxChanges
    BY DEF Removal!Init, Removal!RemovalAssumption
  <2>4. data \in [Kinds -> Nat] /\ \A k \in Kinds : data[k] = 1
    BY DEF Removal!Init
  <2>5. \A k \in Kinds : data[k] <= 1 + changes
    BY <2>3, <2>4
  <2>6. \A a \in Apps : ~app[a].there => ~app[a].running
    BY <2>1
  <2> QED
    BY <2>2, <2>3, <2>4, <2>5, <2>6 DEF RemovalDisk
<1>2. inner = Removal!Empty /\ work = Removal!Idle
  BY DEF Removal!Init
<1>3. RemovalCounts
  BY <1>2, EmptyTyped DEF Removal!Init, RemovalCounts
<1>4. RemovalWork
  BY <1>2, EmptyTyped, IdleTyped DEF RemovalWork
<1>5. RemovalMoves /\ RemovalLatch
  BY <1>2, IdleTyped DEF Removal!Init, RemovalMoves, RemovalLatch
<1> QED
  BY <1>1, <1>3, <1>4, <1>5 DEF RemovalInv

\* What a step of a command has to leave as it is, when it changes nothing else.
LEMMA CommandGoesOn ==
  ASSUME RemovalInv, UNCHANGED <<app, data, inventory, inner, needs, late, moved, lists, issued, changes>>,
         work' \in WorkRec,
         work'.step \in {"keep", "store"} => work'.found \in Versions /\ work'.app \in DOMAIN inner.entries,
         work'.step \in {"commit", "items", "native", "report"} => work'.plan \in PlanRec,
         work'.step = "native" => work'.found \in SeenRec /\ AsReviewed(work'.found),
         work'.step \in {"take", "store", "claim", "commit"} => ~needs,
         work'.step \in {"items", "native", "report"} => needs,
         work'.step \in {"items", "native"} => late = {},
         work'.step = "report" /\ work'.complete => late = {}
  PROVE  RemovalInv'
<1>1. RemovalDisk'
  BY DEF RemovalInv, RemovalDisk
<1>2. RemovalCounts'
  BY DEF RemovalInv, RemovalCounts
<1>3. RemovalWork'
  BY DEF RemovalInv, RemovalWork
<1>4. RemovalMoves'
  <2>1. AsReviewed(work.found)' <=> AsReviewed(work'.found)
    BY DEF AsReviewed
  <2>2. \A m \in moved' : AsReviewed(m)'
    BY DEF RemovalInv, RemovalMoves, AsReviewed
  <2> QED
    BY <2>1, <2>2 DEF RemovalMoves
<1>5. RemovalLatch'
  BY DEF RemovalInv, RemovalLatch
<1> QED
  BY <1>1, <1>2, <1>3, <1>4, <1>5 DEF RemovalInv

LEMMA CommandEnds ==
  ASSUME RemovalInv, UNCHANGED <<app, data, inventory, inner, needs, late, moved, lists, issued, changes>>, work' = Removal!Idle
  PROVE  RemovalInv'
BY IdleTyped, CommandGoesOn

LEMMA RemovalWorkTyped ==
  ASSUME RemovalInv
  PROVE  /\ work \in WorkRec /\ inner \in InnerRec
         /\ lists \in Nat /\ issued \in Nat /\ inventory \in Nat /\ needs \in BOOLEAN
BY DEF RemovalInv, RemovalWork, RemovalCounts, RemovalLatch

\* A command that starts.
LEMMA CommandStarts ==
  ASSUME RemovalInv, work' \in WorkRec, work'.step \in {"clear", "inspect", "take", "claim"},
         work'.step \in {"take", "claim"} => ~needs,
         UNCHANGED <<app, data, inventory, inner, needs, late, moved, lists, issued, changes>>
  PROVE  RemovalInv'
BY CommandGoesOn

LEMMA RemovalStarts ==
  ASSUME RemovalInv,
         \/ Removal!Load \/ (\E a \in Apps : Removal!Inspect(a))
         \/ (\E a \in Apps, list \in 1 .. lists, kinds \in SUBSET Kinds : Removal!Prepare(a, list, kinds))
         \/ (\E n \in 1 .. issued, kinds \in {{}, Kinds} : Removal!Confirm(n, kinds))
  PROVE  RemovalInv'
<1> USE RemovalWorkTyped
<1>1. UNCHANGED <<app, data, inventory, inner, needs, late, moved, lists, issued, changes>>
  BY DEF Removal!Load, Removal!Inspect, Removal!Prepare, Removal!Confirm, Removal!Disk,
     Removal!Ghosts, Removal!Counts
<1>2. CASE Removal!Load
  <2>1. work' \in WorkRec /\ work'.step = "clear"
    BY <1>2, IdleTyped, GoTyped DEF Removal!Load, RemovalStages
  <2> QED
    BY <1>1, <2>1, CommandStarts
<1>3. ASSUME NEW a \in Apps, Removal!Inspect(a) PROVE RemovalInv'
  <2>1. work' \in WorkRec /\ work'.step = "inspect"
    BY <1>3, IdleTyped DEF Removal!Inspect, WorkRec, RemovalStages
  <2> QED
    BY <1>1, <2>1, CommandStarts
<1>4. ASSUME NEW a \in Apps, NEW l \in 1 .. lists, NEW ks \in SUBSET Kinds, Removal!Prepare(a, l, ks)
      PROVE  RemovalInv'
  <2>1. work' = [Removal!Idle EXCEPT !.step = "take", !.app = a, !.list = l, !.kinds = ks] /\ ~needs
    BY <1>4 DEF Removal!Prepare
  <2>2. l \in Nat
    OBVIOUS
  <2>3. work' \in WorkRec /\ work'.step = "take"
    BY <2>1, <2>2, IdleTyped DEF WorkRec, RemovalStages
  <2> QED
    BY <1>1, <2>1, <2>3, CommandStarts
<1>5. ASSUME NEW n \in 1 .. issued, NEW ks \in {{}, Kinds}, Removal!Confirm(n, ks) PROVE RemovalInv'
  <2>1. work' = [Removal!Idle EXCEPT !.step = "claim", !.list = n, !.kinds = ks] /\ ~needs
    BY <1>5 DEF Removal!Confirm
  <2>2. n \in Nat /\ ks \in SUBSET Kinds
    OBVIOUS
  <2>3. work' \in WorkRec /\ work'.step = "claim"
    BY <2>1, <2>2, IdleTyped DEF WorkRec, RemovalStages
  <2> QED
    BY <1>1, <2>1, <2>3, CommandStarts
<1> QED
  BY <1>2, <1>3, <1>4, <1>5

-----------------------------------------------------------------------------
(* The list of applications.                                                 *)

LEMMA RemovalLists ==
  ASSUME RemovalInv, Removal!Clear \/ Removal!Publish \/ Removal!Cache
  PROVE  RemovalInv'
<1> USE RemovalWorkTyped
<1>1. UNCHANGED <<app, data, needs, late, moved, issued, changes>>
  BY DEF Removal!Clear, Removal!Publish, Removal!Cache, Removal!Disk, Removal!Ghosts, Removal!Counts
<1>2. RemovalDisk'
  BY <1>1 DEF RemovalInv, RemovalDisk
<1>3. \A m \in moved' : AsReviewed(m)'
  BY <1>1 DEF RemovalInv, RemovalMoves, AsReviewed
<1>4. ASSUME work' \in WorkRec, work'.step \in {"idle", "list", "cache"}
      PROVE  RemovalMoves' /\ RemovalLatch'
  BY <1>1, <1>3, <1>4 DEF RemovalInv, RemovalMoves, RemovalLatch
<1>5. CASE Removal!Clear
  <2>1. work' \in WorkRec /\ work'.step = "list" /\ inner' = Removal!Empty /\ inventory' = 0 /\ lists' = lists
    BY <1>5, GoTyped DEF Removal!Clear, Removal!Go, RemovalStages, Removal!Counts
  <2>2. RemovalCounts' /\ RemovalWork'
    BY <1>1, <2>1, EmptyTyped DEF RemovalCounts, RemovalWork
  <2> QED
    BY <1>2, <1>4, <2>1, <2>2 DEF RemovalInv
<1>6. CASE Removal!Publish
  <2>1. CASE work.cancelled
    BY <1>6, <2>1, CommandEnds DEF Removal!Publish, Removal!End, Removal!Disk, Removal!Ghosts
  <2>2. CASE ~work.cancelled
    <3>1. /\ inner' = [id |-> lists + 1, entries |-> Removal!Published, pending |-> Removal!NoPlan]
          /\ lists' = lists + 1 /\ Removal!Go("cache") /\ inventory' = inventory
      BY <1>6, <2>2 DEF Removal!Publish
    <3>2. work' \in WorkRec /\ work'.step = "cache"
      BY <3>1, GoTyped DEF Removal!Go, RemovalStages
    <3>3. Removal!Published \in EntryMaps
      <4>1. Removal!Published \in [Removal!Owners -> EntryRec]
        <5>1. Removal!NoItems \in Versions
          BY DEF Removal!NoItems, Versions
        <5>2. \A a \in Removal!Owners : app[a].version \in Nat /\ (app[a].running \/ needs) \in BOOLEAN
          BY DEF RemovalInv, RemovalDisk, AppRec, Removal!Owners
        <5> QED
          BY <5>1, <5>2 DEF Removal!Published, EntryRec
      <4>2. Removal!Owners \in SUBSET Apps
        BY DEF Removal!Owners
      <4> QED
        BY <4>1, <4>2 DEF EntryMaps
    <3>4. inner' \in InnerRec /\ inner'.id = lists + 1 /\ inner'.pending.n = 0
      BY <3>1, <3>3 DEF InnerRec, Removal!NoPlan
    <3>5. RemovalCounts'
      BY <1>1, <3>1, <3>4 DEF RemovalInv, RemovalCounts
    <3>6. RemovalWork'
      BY <3>2, <3>4 DEF RemovalWork
    <3> QED
      BY <1>2, <1>4, <3>2, <3>5, <3>6 DEF RemovalInv
  <2> QED
    BY <2>1, <2>2
<1>7. CASE Removal!Cache
  <2>1. work' = Removal!Idle /\ inner' = inner /\ lists' = lists /\ inventory' \in {inventory, inner.id}
    BY <1>7 DEF Removal!Cache, Removal!End, Removal!Counts
  <2>2. RemovalCounts'
    BY <1>1, <2>1 DEF RemovalInv, RemovalCounts
  <2>3. RemovalWork'
    BY <2>1, IdleTyped DEF RemovalWork
  <2> QED
    BY <1>2, <1>4, <2>1, <2>2, <2>3, IdleTyped DEF RemovalInv
<1> QED
  BY <1>5, <1>6, <1>7

-----------------------------------------------------------------------------
(* Inspection and plan.                                                      *)

\* RemovalStages that change the command and the list it works with, and neither the
\* disk nor the latch.
LEMMA ListChanges ==
  ASSUME RemovalInv, UNCHANGED <<app, data, inventory, needs, late, moved, lists, changes>>,
         work' \in WorkRec, inner' \in InnerRec, inner'.id = inner.id,
         issued' \in Nat, inner'.pending.n \in 0 .. issued',
         work'.step \in {"idle", "commit"} \/ (work'.step = "store" /\ work'.found \in Versions /\ work'.app \in DOMAIN inner'.entries),
         work'.step = "commit" => work'.plan \in PlanRec,
         work'.step \in {"store", "commit"} => ~needs
  PROVE  RemovalInv'
<1>1. RemovalDisk'
  BY DEF RemovalInv, RemovalDisk
<1>2. RemovalCounts'
  BY DEF RemovalInv, RemovalCounts
<1>3. RemovalWork'
  BY DEF RemovalWork
<1>4. RemovalMoves'
  <2>1. \A m \in moved' : AsReviewed(m)'
    BY DEF RemovalInv, RemovalMoves, AsReviewed
  <2> QED
    BY <2>1 DEF RemovalMoves
<1>5. RemovalLatch'
  BY DEF RemovalInv, RemovalLatch
<1> QED
  BY <1>1, <1>2, <1>3, <1>4, <1>5 DEF RemovalInv

LEMMA DataTyped == ASSUME RemovalInv, NEW a \in Apps PROVE Removal!Candidates(a) \in Versions
<1>1. data \in Versions /\ Removal!NoItems \in Versions
  BY DEF RemovalInv, RemovalDisk, Versions, Removal!NoItems
<1> QED
  BY <1>1 DEF Removal!Candidates

LEMMA RemovalInspects == ASSUME RemovalInv, Removal!Collect \/ Removal!Keep PROVE RemovalInv'
<1> USE RemovalWorkTyped, InnerTyped
<1>1. UNCHANGED <<app, data, inventory, needs, late, moved, lists, issued, changes>>
  BY DEF Removal!Collect, Removal!Keep, Removal!Disk, Removal!Ghosts, Removal!Counts
<1>2. CASE Removal!Collect
  <2>1. inner' = inner
    BY <1>2 DEF Removal!Collect
  <2>2. CASE work' = Removal!Idle
    BY <1>1, <2>1, <2>2, CommandEnds
  <2>3. CASE work' # Removal!Idle
    <3> DEFINE a == work.app
               e == Removal!Entry(a)
               f == IF e.candidates = Removal!NoItems /\ ~e.removed THEN Removal!Candidates(a) ELSE e.candidates
    <3>1. a \in DOMAIN inner.entries /\ work' = [work EXCEPT !.step = "keep", !.found = f]
      BY <1>2, <2>3 DEF Removal!Collect, Removal!Record, Removal!End
    <3>2. f \in Versions
      BY <3>1, DataTyped DEF Removal!Entry, EntryRec
    <3> HIDE DEF f
    <3>3. work' \in WorkRec /\ work'.step = "keep" /\ work'.found = f /\ work'.app = work.app
      BY <3>1, <3>2 DEF WorkRec, RemovalStages
    <3> QED
      BY <1>1, <2>1, <3>1, <3>2, <3>3, CommandGoesOn
  <2> QED
    BY <2>2, <2>3
<1>3. CASE Removal!Keep
  <2>1. work.step = "keep" /\ work' = Removal!Idle
    BY <1>3 DEF Removal!Keep, Removal!End
  <2>2. CASE inner' = inner
    BY <1>1, <2>1, <2>2, CommandEnds
  <2>3. CASE inner' # inner
    <3> DEFINE e == [inner.entries[work.app] EXCEPT !.candidates = work.found]
    <3>1. work.found \in Versions /\ work.app \in DOMAIN inner.entries
      BY <2>1 DEF RemovalInv, RemovalWork
    <3>2. inner' = [inner EXCEPT !.entries[work.app].candidates = work.found]
      BY <1>3, <2>3 DEF Removal!Keep
    <3>3. inner' = [inner EXCEPT !.entries[work.app] = e]
      BY <3>2
    <3>4. e \in EntryRec
      BY <3>1 DEF EntryRec
    <3> HIDE DEF e
    <3>5. inner' \in InnerRec /\ inner'.id = inner.id /\ inner'.pending = inner.pending
      BY <3>1, <3>3, <3>4, EntryChanges
    <3>6. inner'.pending.n \in 0 .. issued'
      BY <1>1, <3>5 DEF RemovalInv, RemovalCounts
    <3> QED
      BY <1>1, <2>1, <3>5, <3>6, IdleTyped, ListChanges
  <2> QED
    BY <2>2, <2>3
<1> QED
  BY <1>2, <1>3

LEMMA RemovalPlans == ASSUME RemovalInv, Removal!Take \/ Removal!Store PROVE RemovalInv'
<1> USE RemovalWorkTyped, InnerTyped
<1>1. UNCHANGED <<app, data, inventory, needs, late, moved, lists, changes>>
  BY DEF Removal!Take, Removal!Store, Removal!Disk, Removal!Ghosts, Removal!Counts
<1>2. CASE Removal!Take
  <2>1. work.step = "take" /\ ~needs /\ inner' = [inner EXCEPT !.pending = Removal!NoPlan] /\ issued' = issued
    BY <1>2 DEF Removal!Take, Removal!Counts
  <2>2. inner' \in InnerRec /\ inner'.id = inner.id /\ inner'.entries = inner.entries /\ inner'.pending = Removal!NoPlan
    BY <2>1, WaitingTyped
  <2>3. inner'.pending.n \in 0 .. issued'
    BY <2>1, <2>2 DEF Removal!NoPlan
  <2>4. CASE work' = Removal!Idle
    BY <1>1, <2>1, <2>2, <2>3, <2>4, IdleTyped, ListChanges
  <2>5. CASE work' # Removal!Idle
    <3> DEFINE a == work.app
               e == Removal!Entry(a)
               f == IF work.kinds # {} \/ e.shared THEN e.candidates ELSE Removal!Candidates(a)
    <3>1. a \in DOMAIN inner.entries /\ work' = [work EXCEPT !.step = "store", !.found = f]
      BY <1>2, <2>5 DEF Removal!Take, Removal!Record, Removal!End
    <3>2. f \in Versions
      BY <3>1, DataTyped DEF Removal!Entry, EntryRec
    <3> HIDE DEF f
    <3>3. work' \in WorkRec /\ work'.step = "store" /\ work'.found = f /\ work'.app = work.app
      BY <3>1, <3>2 DEF WorkRec, RemovalStages
    <3> QED
      BY <1>1, <2>1, <2>2, <2>3, <3>1, <3>2, <3>3, ListChanges
  <2> QED
    BY <2>4, <2>5
<1>3. CASE Removal!Store
  <2>1. work.step = "store" /\ work' = Removal!Idle
    BY <1>3 DEF Removal!Store, Removal!End
  <2>2. CASE UNCHANGED <<inner, issued>>
    BY <1>1, <2>1, <2>2, CommandEnds
  <2>3. CASE ~UNCHANGED <<inner, issued>>
    <3> DEFINE a == work.app
               e == Removal!Entry(a)
               p == [n |-> issued + 1, app |-> a, list |-> work.list, kinds |-> work.kinds,
                     version |-> e.version, removed |-> e.removed, items |-> work.found]
               c == IF work.kinds = {} THEN work.found ELSE e.candidates
               h == [inner.entries[a] EXCEPT !.candidates = c]
               i == [inner EXCEPT !.pending = p]
    <3>1. work.found \in Versions /\ a \in DOMAIN inner.entries
      BY <2>1 DEF RemovalInv, RemovalWork
    <3>2. e \in EntryRec /\ a \in Apps /\ work.list \in Nat /\ work.kinds \in SUBSET Kinds
      BY <3>1 DEF Removal!Entry, WorkRec
    <3>3. p \in PlanRec /\ p.n = issued + 1
      BY <3>1, <3>2 DEF PlanRec, EntryRec
    <3>4. h \in EntryRec
      BY <3>1, <3>2 DEF EntryRec, Removal!Entry
    <3>5. issued' = issued + 1
      BY <1>3, <2>3 DEF Removal!Store
    <3>6. inner' = [i EXCEPT !.entries[a] = h]
      <4>1. inner' = [inner EXCEPT !.pending = p, !.entries[a].candidates = IF work.kinds = {} THEN work.found ELSE @]
        BY <1>3, <2>3 DEF Removal!Store
      <4> QED
        BY <4>1 DEF Removal!Entry
    <3> HIDE DEF p, h
    <3>7. i \in InnerRec /\ i.id = inner.id /\ i.entries = inner.entries /\ i.pending = p
      BY <3>3, WaitingTyped
    <3> HIDE DEF i
    <3>8. inner' \in InnerRec /\ inner'.id = inner.id /\ inner'.pending = p
      BY <3>1, <3>4, <3>6, <3>7, EntryChanges
    <3>9. inner'.pending.n \in 0 .. issued'
      BY <3>3, <3>5, <3>8
    <3> QED
      BY <1>1, <2>1, <3>5, <3>8, <3>9, IdleTyped, ListChanges
  <2> QED
    BY <2>2, <2>3
<1> QED
  BY <1>2, <1>3

-----------------------------------------------------------------------------
(* The confirmation.                                                         *)

LEMMA RemovalClaims == ASSUME RemovalInv, Removal!Claim PROVE RemovalInv'
<1> USE RemovalWorkTyped, InnerTyped
<1>1. UNCHANGED <<app, data, inventory, needs, late, moved, lists, issued, changes>> /\ ~needs
  BY DEF Removal!Claim, Removal!Disk, Removal!Ghosts, Removal!Counts
<1>2. CASE work' = Removal!Idle /\ inner' = inner
  BY <1>1, <1>2, CommandEnds
<1>3. CASE ~(work' = Removal!Idle /\ inner' = inner)
  <2>1. /\ inner.pending.n # 0 /\ work' = [work EXCEPT !.step = "commit", !.plan = inner.pending]
        /\ inner' = [inner EXCEPT !.pending = Removal!NoPlan]
    BY <1>3 DEF Removal!Claim, Removal!End
  <2>2. inner.pending \in PlanRec
    BY <2>1 DEF Removal!NoPlan
  <2>3. work' \in WorkRec /\ work'.step = "commit" /\ work'.plan = inner.pending
    BY <2>1, <2>2 DEF WorkRec, RemovalStages
  <2>4. inner' \in InnerRec /\ inner'.id = inner.id /\ inner'.pending = Removal!NoPlan
    BY <2>1, WaitingTyped
  <2>5. inner'.pending.n \in 0 .. issued'
    BY <1>1, <2>4 DEF Removal!NoPlan
  <2> QED
    BY <1>1, <2>2, <2>3, <2>4, <2>5, ListChanges
<1> QED
  BY <1>2, <1>3

LEMMA RemovalCommits == ASSUME RemovalInv, Removal!Commit PROVE RemovalInv'
<1> USE RemovalWorkTyped
<1>1. work.step = "commit" /\ UNCHANGED <<app, data, inventory, inner, late, moved, lists, issued, changes>>
  BY DEF Removal!Commit, Removal!Disk, Removal!Ghosts, Removal!Counts
<1>2. CASE work' = Removal!Idle /\ UNCHANGED needs
  BY <1>1, <1>2, CommandEnds
<1>3. CASE ~(work' = Removal!Idle /\ UNCHANGED needs)
  <2>1. work' = [work EXCEPT !.step = "items", !.left = Removal!Items(work.plan)] /\ needs' = TRUE
    BY <1>3 DEF Removal!Commit, Removal!End, Removal!Arm
  <2>2. work.plan \in PlanRec /\ late = {}
    BY <1>1 DEF RemovalInv, RemovalWork, RemovalLatch
  <2>3. Removal!Items(work.plan) \in SUBSET Movable
    BY <2>2 DEF Removal!Items, PlanRec, Movable
  <2>4. work' \in WorkRec /\ work'.step = "items" /\ work'.plan = work.plan
    BY <2>1, <2>3 DEF WorkRec, RemovalStages
  <2>5. RemovalDisk' /\ RemovalCounts'
    BY <1>1 DEF RemovalInv, RemovalDisk, RemovalCounts
  <2>6. RemovalWork'
    BY <1>1, <2>2, <2>4 DEF RemovalWork
  <2>7. RemovalMoves'
    <3>1. \A m \in moved' : AsReviewed(m)'
      BY <1>1 DEF RemovalInv, RemovalMoves, AsReviewed
    <3> QED
      BY <2>4, <3>1 DEF RemovalMoves
  <2>8. RemovalLatch'
    BY <1>1, <2>1, <2>2, <2>4 DEF RemovalLatch
  <2> QED
    BY <2>5, <2>6, <2>7, <2>8 DEF RemovalInv
<1> QED
  BY <1>2, <1>3

\* What was looked at before the move is as it was reviewed.
LEMMA LookedAt ==
  ASSUME RemovalInv, NEW p \in PlanRec, NEW i \in Movable, Removal!Revalidated(p, i)
  PROVE  Removal!Seen(p, i) \in SeenRec /\ AsReviewed(Removal!Seen(p, i))
<1>1. /\ app[p.app] \in AppRec /\ p.app \in Apps /\ p.version \in Nat /\ p.removed \in BOOLEAN
      /\ (i # "bundle" => i \in Kinds /\ data[i] \in Nat /\ p.items[i] \in Nat)
  BY DEF RemovalInv, RemovalDisk, PlanRec, Movable, Versions
<1>2. app[p.app].running \in BOOLEAN /\ app[p.app].version \in Nat
  BY <1>1 DEF AppRec
<1>3. Removal!Seen(p, i) \in SeenRec
  BY <1>1, <1>2 DEF Removal!Seen, SeenRec, Removal!Owners
<1>4. CASE i = "bundle"
  <2>1. app[p.app].version = p.version /\ ~app[p.app].running
    BY <1>4 DEF Removal!Revalidated, Removal!Current
  <2>2. Removal!Seen(p, i).item = "bundle" /\ Removal!Seen(p, i).found = app[p.app].version /\ Removal!Seen(p, i).reviewed = p.version
    BY <1>4 DEF Removal!Seen
  <2>3. Removal!Seen(p, i).running = app[p.app].running
    BY DEF Removal!Seen
  <2> QED
    BY <1>3, <2>1, <2>2, <2>3 DEF AsReviewed
<1>5. CASE i # "bundle"
  <2>1. Removal!Current(p.app, p.version, p.removed) /\ Removal!UniqueOwner(p.app, p.removed) /\ data[i] = p.items[i]
    BY <1>5 DEF Removal!Revalidated, Removal!DataCurrent
  <2>2. ~app[p.app].running
    BY <1>1, <2>1 DEF Removal!Current, RemovalInv, RemovalDisk
  <2> QED
    BY <1>3, <1>5, <2>1, <2>2 DEF Removal!UniqueOwner, Removal!Seen, AsReviewed
<1> QED
  BY <1>3, <1>4, <1>5

LEMMA RemovalLooks ==
  ASSUME RemovalInv, NEW i \in Kinds \cup {"bundle"}, Removal!Check(i)
  PROVE  RemovalInv'
<1> USE RemovalWorkTyped
<1>1. work.step = "items" /\ UNCHANGED <<app, data, inventory, inner, needs, late, moved, lists, issued, changes>>
  BY DEF Removal!Check, Removal!Disk, Removal!Ghosts, Removal!Counts
<1>2. work.plan \in PlanRec /\ late = {} /\ needs
  BY <1>1 DEF RemovalInv, RemovalWork, RemovalLatch
<1>3. CASE Removal!Revalidated(work.plan, i)
  <2> DEFINE f == Removal!Seen(work.plan, i)
  <2>1. work' = [work EXCEPT !.step = "native", !.found = f]
    BY <1>3 DEF Removal!Check
  <2>2. f \in SeenRec /\ AsReviewed(f)
    BY <1>2, <1>3, LookedAt DEF Movable
  <2> HIDE DEF f
  <2>3. work' \in WorkRec /\ work'.step = "native" /\ work'.found = f /\ work'.plan = work.plan
    BY <2>1, <2>2 DEF WorkRec, RemovalStages
  <2> QED
    BY <1>1, <1>2, <2>2, <2>3, CommandGoesOn
<1>4. CASE ~Removal!Revalidated(work.plan, i)
  <2>1. work' = [work EXCEPT !.step = "report"]
    BY <1>4 DEF Removal!Check
  <2>2. work' \in WorkRec /\ work'.step = "report" /\ work'.plan = work.plan
    BY <2>1, GoTyped DEF RemovalStages
  <2> QED
    BY <1>1, <1>2, <2>2, CommandGoesOn
<1> QED
  BY <1>3, <1>4

-----------------------------------------------------------------------------
(* The move and its answer.                                                  *)

\* The disk without an item.
LEMMA ItemGoes ==
  ASSUME RemovalInv, NEW i \in SeenRec, Removal!Gone(i), UNCHANGED changes
  PROVE  RemovalDisk'
<1>1. CASE i.item = "bundle"
  <2>1. app' = [app EXCEPT ![i.app].there = FALSE, ![i.app].running = FALSE] /\ data' = data
    BY <1>1 DEF Removal!Gone
  <2>2. i.app \in Apps /\ app \in [Apps -> AppRec]
    BY DEF SeenRec, RemovalInv, RemovalDisk
  <2>3. /\ app' \in [Apps -> AppRec] /\ app'[i.app].running = FALSE
        /\ \A a \in Apps : a # i.app => app'[a] = app[a]
    BY <2>1, <2>2 DEF AppRec
  <2>4. \A a \in Apps : ~app'[a].there => ~app'[a].running
    BY <2>3 DEF RemovalInv, RemovalDisk
  <2> QED
    BY <2>1, <2>3, <2>4 DEF RemovalInv, RemovalDisk
<1>2. CASE i.item # "bundle"
  <2>1. data' = [data EXCEPT ![i.item] = 0] /\ app' = app
    BY <1>2 DEF Removal!Gone
  <2>2. changes' \in 0 .. MaxChanges /\ app' \in [Apps -> AppRec] /\ \A a \in Apps : ~app'[a].there => ~app'[a].running
    BY <2>1 DEF RemovalInv, RemovalDisk
  <2>3. changes \in Nat /\ data \in [Kinds -> Nat] /\ \A k \in Kinds : data[k] <= 1 + changes
    BY DEF RemovalInv, RemovalDisk
  <2>4. data' \in [Kinds -> Nat] /\ \A k \in Kinds : data'[k] \in {0, data[k]}
    BY <2>1, <2>3
  <2>5. \A k \in Kinds : data'[k] <= 1 + changes'
    BY <2>3, <2>4
  <2> QED
    BY <2>2, <2>4, <2>5 DEF RemovalDisk
<1> QED
  BY <1>1, <1>2

LEMMA RemovalNative == ASSUME RemovalInv, Removal!Native PROVE RemovalInv'
<1> USE RemovalWorkTyped
<1> DEFINE i == work.found
<1>1. work.step = "native" /\ UNCHANGED <<inventory, inner, needs, lists, issued, changes>>
  BY DEF Removal!Native, Removal!Counts
<1>2. /\ i \in SeenRec /\ AsReviewed(i) /\ work.plan \in PlanRec /\ needs /\ late = {}
      /\ \A m \in moved : AsReviewed(m)
  BY <1>1 DEF RemovalInv, RemovalWork, RemovalMoves, RemovalLatch
<1>3. RemovalCounts'
  BY <1>1 DEF RemovalInv, RemovalCounts
<1>4. CASE late' = late
  <2>1. CASE Removal!Gone(i) /\ moved' = moved \cup {i}
    <3>1. PICK recorded \in BOOLEAN :
            work' = [work EXCEPT !.complete = recorded, !.left = @ \ {i.item}, !.done = @ \cup {i.item},
                       !.step = IF recorded /\ work.left # {i.item} THEN "items" ELSE "report"]
            \/ (late' = late \cup {i} /\ work' = [work EXCEPT !.complete = FALSE, !.step = "report"])
      BY DEF Removal!Native
    <3>2. late' # late \cup {i}
      BY <1>2, <1>4
    <3>3. i.item \in Movable
      BY <1>2 DEF SeenRec
    <3>4. work' \in WorkRec /\ work'.step \in {"items", "report"} /\ work'.plan = work.plan
      <4>1. PICK s \in {"items", "report"} :
              work' = [work EXCEPT !.complete = recorded, !.left = @ \ {i.item}, !.done = @ \cup {i.item}, !.step = s]
        BY <3>1, <3>2
      <4>2. work.left \ {i.item} \in SUBSET Movable /\ work.done \cup {i.item} \in SUBSET Movable
        BY <3>3 DEF WorkRec
      <4> QED
        BY <4>1, <4>2 DEF WorkRec, RemovalStages
    <3>5. RemovalDisk'
      BY <1>1, <1>2, <2>1, ItemGoes
    <3>6. RemovalWork'
      BY <1>1, <1>2, <3>4 DEF RemovalWork
    <3>7. RemovalMoves'
      <4>1. \A m : AsReviewed(m)' <=> AsReviewed(m)
        BY DEF AsReviewed
      <4> QED
        BY <1>2, <2>1, <3>4, <4>1 DEF RemovalMoves
    <3>8. RemovalLatch'
      BY <1>1, <1>2, <1>4, <3>4 DEF RemovalInv, RemovalLatch
    <3> QED
      BY <1>3, <3>5, <3>6, <3>7, <3>8 DEF RemovalInv
  <2>2. CASE ~(Removal!Gone(i) /\ moved' = moved \cup {i})
    <3>1. late' = late \cup {i}
      BY <2>2 DEF Removal!Native
    <3> QED
      BY <1>2, <1>4, <3>1
  <2> QED
    BY <2>1, <2>2
<1>5. CASE late' # late
  <2>1. /\ late' = late \cup {i} /\ work' = [work EXCEPT !.complete = FALSE, !.step = "report"]
        /\ UNCHANGED <<app, data, moved>>
    BY <1>5 DEF Removal!Native, Removal!Disk
  <2>2. work' \in WorkRec /\ work'.step = "report" /\ work'.plan = work.plan /\ work'.complete = FALSE
    BY <2>1 DEF WorkRec, RemovalStages
  <2>3. RemovalDisk'
    BY <1>1, <2>1 DEF RemovalInv, RemovalDisk
  <2>4. RemovalWork'
    BY <1>1, <1>2, <2>2 DEF RemovalWork
  <2>5. RemovalMoves'
    <3>1. \A m \in moved' : AsReviewed(m)'
      BY <1>2, <2>1 DEF AsReviewed
    <3> QED
      BY <2>2, <3>1 DEF RemovalMoves
  <2>6. RemovalLatch'
    <3>1. late' \subseteq SeenRec /\ \A x, y \in late' : x = y
      BY <1>2, <2>1
    <3> QED
      BY <1>1, <1>2, <2>2, <3>1 DEF RemovalLatch
  <2> QED
    BY <1>3, <2>3, <2>4, <2>5, <2>6 DEF RemovalInv
<1> QED
  BY <1>4, <1>5

\* What the list says of an application once an answer came.
LEMMA RecordTypedAs ==
  ASSUME RemovalInv, work.plan \in PlanRec
  PROVE  Removal!Recorded \in InnerRec /\ Removal!Recorded.id = inner.id /\ Removal!Recorded.pending = inner.pending
<1> USE RemovalWorkTyped, InnerTyped
<1> DEFINE a == work.plan.app
           e == Removal!Entry(a)
           g == IF ~work.complete THEN [e EXCEPT !.candidates = Removal!NoItems, !.protected = TRUE]
                ELSE [e EXCEPT !.removed = @ \/ "bundle" \in work.done,
                               !.candidates = [k \in Kinds |-> IF k \in work.done THEN 0 ELSE @[k]]]
<1>1. CASE Removal!Record(a, work.plan.list)
  <2>1. a \in DOMAIN inner.entries /\ e \in EntryRec
    BY <1>1 DEF Removal!Record, Removal!Entry
  <2>2. g \in EntryRec
    <3>1. Removal!NoItems \in Versions /\ e.candidates \in Versions
      BY <2>1 DEF Removal!NoItems, Versions, EntryRec
    <3>2. [k \in Kinds |-> IF k \in work.done THEN 0 ELSE e.candidates[k]] \in Versions
      BY <3>1 DEF Versions
    <3>3. [e EXCEPT !.candidates = Removal!NoItems, !.protected = TRUE] \in EntryRec
      BY <2>1, <3>1 DEF EntryRec
    <3>4. [e EXCEPT !.removed = @ \/ "bundle" \in work.done,
                    !.candidates = [k \in Kinds |-> IF k \in work.done THEN 0 ELSE @[k]]] \in EntryRec
      BY <2>1, <3>2 DEF EntryRec
    <3> QED
      BY <3>3, <3>4
  <2>3. Removal!Recorded = [inner EXCEPT !.entries[a] = g]
    BY <1>1 DEF Removal!Recorded
  <2> HIDE DEF g
  <2> QED
    BY <2>1, <2>2, <2>3, EntryChanges
<1>2. CASE ~Removal!Record(a, work.plan.list)
  BY <1>2 DEF Removal!Recorded
<1> QED
  BY <1>1, <1>2

LEMMA RemovalReports == ASSUME RemovalInv, Removal!Report PROVE RemovalInv'
<1> USE RemovalWorkTyped
<1>1. /\ work.step = "report" /\ UNCHANGED <<app, data, inventory, late, moved, lists, issued, changes>>
      /\ work' = Removal!Idle /\ inner' = Removal!Recorded /\ needs' = (IF work.complete THEN FALSE ELSE needs)
  BY DEF Removal!Report, Removal!End, Removal!Disk, Removal!Ghosts, Removal!Counts
<1>2. work.plan \in PlanRec /\ (work.complete => late = {}) /\ (late # {} => needs)
        /\ late \subseteq SeenRec /\ \A x, y \in late : x = y
  BY <1>1 DEF RemovalInv, RemovalWork, RemovalLatch
<1>3. inner' \in InnerRec /\ inner'.id = inner.id /\ inner'.pending = inner.pending
  BY <1>1, <1>2, RecordTypedAs
<1>4. RemovalDisk'
  BY <1>1 DEF RemovalInv, RemovalDisk
<1>5. RemovalCounts'
  BY <1>1, <1>3 DEF RemovalInv, RemovalCounts
<1>6. RemovalWork'
  BY <1>1, <1>3, IdleTyped DEF RemovalWork
<1>7. RemovalMoves'
  <2>1. \A m \in moved' : AsReviewed(m)'
    BY <1>1 DEF RemovalInv, RemovalMoves, AsReviewed
  <2> QED
    BY <1>1, <2>1, IdleTyped DEF RemovalMoves
<1>8. RemovalLatch'
  BY <1>1, <1>2, IdleTyped DEF RemovalLatch
<1> QED
  BY <1>4, <1>5, <1>6, <1>7, <1>8 DEF RemovalInv

LEMMA RemovalPanics == ASSUME RemovalInv, Removal!Panic PROVE RemovalInv'
<1> USE RemovalWorkTyped
<1>1. /\ UNCHANGED <<app, data, inventory, inner, needs, moved, lists, issued, changes>> /\ work' = Removal!Idle
      /\ late' = IF work.step = "native" THEN late \cup {work.found} ELSE late
  BY DEF Removal!Panic, Removal!End, Removal!Disk, Removal!Counts
<1>2. CASE work.step # "native"
  BY <1>1, <1>2, CommandEnds
<1>3. CASE work.step = "native"
  <2>1. late = {} /\ needs /\ late' = {work.found} /\ work.found \in SeenRec
    BY <1>1, <1>3 DEF RemovalInv, RemovalMoves, RemovalLatch
  <2>2. RemovalDisk' /\ RemovalCounts'
    BY <1>1 DEF RemovalInv, RemovalDisk, RemovalCounts
  <2>3. RemovalWork'
    BY <1>1, IdleTyped DEF RemovalWork
  <2>4. RemovalMoves'
    <3>1. \A m \in moved' : AsReviewed(m)'
      BY <1>1 DEF RemovalInv, RemovalMoves, AsReviewed
    <3> QED
      BY <1>1, <3>1, IdleTyped DEF RemovalMoves
  <2>5. RemovalLatch'
    BY <1>1, <2>1, IdleTyped DEF RemovalLatch
  <2> QED
    BY <2>2, <2>3, <2>4, <2>5 DEF RemovalInv
<1> QED
  BY <1>2, <1>3

LEMMA RemovalCancels ==
  ASSUME RemovalInv, Removal!Cancel \/ \E n \in 1 .. issued : Removal!Dismiss(n)
  PROVE  RemovalInv'
<1> USE RemovalWorkTyped
<1>1. CASE Removal!Cancel
  <2>1. /\ work' = [work EXCEPT !.cancelled = TRUE] /\ work.step \notin {"items", "native", "report"}
        /\ UNCHANGED <<app, data, inventory, inner, needs, late, moved, lists, issued, changes>>
    BY <1>1 DEF Removal!Cancel, Removal!Disk, Removal!Ghosts, Removal!Counts
  <2>2. /\ work' \in WorkRec /\ work'.step = work.step /\ work'.found = work.found
        /\ work'.plan = work.plan /\ work'.app = work.app
    BY <2>1 DEF WorkRec
  <2>3. /\ work.step \in {"keep", "store"} => work.found \in Versions /\ work.app \in DOMAIN inner.entries
        /\ work.step = "commit" => work.plan \in PlanRec
        /\ work.step \in {"take", "store", "claim", "commit"} => ~needs
    BY DEF RemovalInv, RemovalWork, RemovalLatch
  <2> QED
    BY <2>1, <2>2, <2>3, CommandGoesOn
<1>2. ASSUME NEW n \in 1 .. issued, Removal!Dismiss(n) PROVE RemovalInv'
  <2>1. /\ inner' = [inner EXCEPT !.pending = Removal!NoPlan]
        /\ UNCHANGED <<app, data, inventory, work, needs, late, moved, lists, issued, changes>>
    BY <1>2 DEF Removal!Dismiss, Removal!Disk, Removal!Ghosts, Removal!Counts
  <2>2. inner' \in InnerRec /\ inner'.id = inner.id /\ inner'.entries = inner.entries /\ inner'.pending = Removal!NoPlan
    BY <2>1, WaitingTyped
  <2>3. RemovalDisk'
    BY <2>1 DEF RemovalInv, RemovalDisk
  <2>4. RemovalCounts'
    BY <2>1, <2>2 DEF RemovalInv, RemovalCounts, Removal!NoPlan
  <2>5. RemovalWork'
    BY <2>1, <2>2 DEF RemovalInv, RemovalWork
  <2>6. RemovalMoves'
    BY <2>1 DEF RemovalInv, RemovalMoves, AsReviewed
  <2>7. RemovalLatch'
    BY <2>1 DEF RemovalInv, RemovalLatch
  <2> QED
    BY <2>3, <2>4, <2>5, <2>6, <2>7 DEF RemovalInv
<1> QED
  BY <1>1, <1>2

-----------------------------------------------------------------------------
(* Outside.                                                                  *)

\* RemovalStages of others leave the command and its list as they are.
LEMMA OthersStep ==
  ASSUME RemovalInv, RemovalDisk', late' \subseteq late,
         UNCHANGED <<inventory, inner, work, needs, moved, lists, issued>>
  PROVE  RemovalInv'
<1>1. RemovalCounts'
  BY DEF RemovalInv, RemovalCounts
<1>2. RemovalWork'
  BY DEF RemovalInv, RemovalWork
<1>3. RemovalMoves'
  BY DEF RemovalInv, RemovalMoves, AsReviewed
<1>4. RemovalLatch'
  BY DEF RemovalInv, RemovalLatch
<1> QED
  BY <1>1, <1>2, <1>3, <1>4 DEF RemovalInv

LEMMA RemovalOutside ==
  ASSUME Removal!RemovalAssumption, RemovalInv,
         \/ \E a \in Apps : Removal!ChangeApp(a)
         \/ \E k \in Kinds : Removal!ChangeData(k)
         \/ \E i \in late : Removal!Settle(i)
  PROVE  RemovalInv'
<1> USE RemovalWorkTyped
<1>0. MaxChanges \in Nat
  BY DEF Removal!RemovalAssumption
<1>1. ASSUME NEW a \in Apps, Removal!ChangeApp(a) PROVE RemovalInv'
  <2>1. /\ changes < MaxChanges /\ changes' = changes + 1
        /\ UNCHANGED <<data, inventory, inner, work, needs, late, moved, lists, issued>>
    BY <1>1 DEF Removal!ChangeApp, Removal!Ghosts
  <2>2. changes \in 0 .. MaxChanges /\ app \in [Apps -> AppRec] /\ data \in [Kinds -> Nat]
          /\ (\A k \in Kinds : data[k] <= 1 + changes) /\ \A x \in Apps : ~app[x].there => ~app[x].running
    BY DEF RemovalInv, RemovalDisk
  <2>3. changes' \in 0 .. MaxChanges /\ \A k \in Kinds : data'[k] <= 1 + changes'
    BY <1>0, <2>1, <2>2
  <2>4. app' \in [Apps -> AppRec] /\ \A x \in Apps : ~app'[x].there => ~app'[x].running
    <3>1. CASE app' = [app EXCEPT ![a].there = TRUE, ![a].version = @ + 1]
      <4>1. app[a] \in AppRec /\ app[a].version + 1 \in Nat
        BY <2>2 DEF AppRec
      <4>2. [app[a] EXCEPT !.there = TRUE, !.version = app[a].version + 1] \in AppRec
        BY <4>1 DEF AppRec
      <4>3. app' = [app EXCEPT ![a] = [app[a] EXCEPT !.there = TRUE, !.version = app[a].version + 1]]
        BY <3>1
      <4>4. app' \in [Apps -> AppRec]
        BY <2>2, <4>2, <4>3
      <4>5. app'[a].there = TRUE
        BY <2>2, <4>1, <4>3 DEF AppRec
      <4>6. \A x \in Apps : x # a => app'[x] = app[x]
        BY <2>2, <4>3
      <4> QED
        BY <2>2, <4>4, <4>5, <4>6
    <3>2. CASE app[a].there /\ app' = [app EXCEPT ![a].running = ~@]
      <4>1. app' \in [Apps -> AppRec] /\ app'[a].there = app[a].there
        BY <2>2, <3>2 DEF AppRec
      <4>2. \A x \in Apps : x # a => app'[x] = app[x]
        BY <2>2, <3>2
      <4> QED
        BY <2>2, <3>2, <4>1, <4>2
    <3> QED
      BY <1>1, <3>1, <3>2 DEF Removal!ChangeApp
  <2>5. RemovalDisk'
    BY <2>1, <2>2, <2>3, <2>4 DEF RemovalDisk
  <2> QED
    BY <2>1, <2>5, OthersStep
<1>2. ASSUME NEW k \in Kinds, Removal!ChangeData(k) PROVE RemovalInv'
  <2>1. /\ changes < MaxChanges /\ changes' = changes + 1 /\ data' = [data EXCEPT ![k] = @ + 1]
        /\ UNCHANGED <<app, inventory, inner, work, needs, late, moved, lists, issued>>
    BY <1>2 DEF Removal!ChangeData, Removal!Ghosts
  <2>2. changes \in 0 .. MaxChanges /\ data \in [Kinds -> Nat] /\ \A x \in Kinds : data[x] <= 1 + changes
    BY DEF RemovalInv, RemovalDisk
  <2>3. changes' \in 0 .. MaxChanges /\ data' \in [Kinds -> Nat] /\ \A x \in Kinds : data'[x] <= 1 + changes'
    BY <1>0, <2>1, <2>2
  <2>4. app' \in [Apps -> AppRec] /\ \A x \in Apps : ~app'[x].there => ~app'[x].running
    BY <2>1 DEF RemovalInv, RemovalDisk
  <2>5. RemovalDisk'
    BY <2>3, <2>4 DEF RemovalDisk
  <2> QED
    BY <2>1, <2>5, OthersStep
<1>3. ASSUME NEW i \in late, Removal!Settle(i) PROVE RemovalInv'
  <2>1. late' = late \ {i} /\ UNCHANGED <<inventory, inner, work, needs, moved, lists, issued, changes>>
    BY <1>3 DEF Removal!Settle, Removal!Counts
  <2>2. RemovalDisk'
    <3>1. CASE Removal!Gone(i)
      BY <2>1, <3>1, ItemGoes DEF RemovalInv, RemovalLatch
    <3>2. CASE UNCHANGED <<app, data>>
      BY <2>1, <3>2 DEF RemovalInv, RemovalDisk
    <3> QED
      BY <1>3, <3>1, <3>2 DEF Removal!Settle, Removal!Disk
  <2> QED
    BY <2>1, <2>2, OthersStep
<1> QED
  BY <1>1, <1>2, <1>3

LEMMA RemovalRestarts == ASSUME RemovalInv, Removal!Restart PROVE RemovalInv'
<1>1. /\ late = {} /\ inventory' = 0 /\ inner' = Removal!Empty /\ work' = Removal!Idle /\ needs' = FALSE
      /\ UNCHANGED <<app, data, late, moved, lists, issued, changes>>
  BY DEF Removal!Restart, Removal!Disk, Removal!Ghosts, Removal!Counts
<1>2. RemovalDisk'
  BY <1>1 DEF RemovalInv, RemovalDisk
<1>3. RemovalCounts' /\ RemovalWork'
  BY <1>1, EmptyTyped, IdleTyped DEF RemovalInv, RemovalCounts, RemovalWork
<1>4. RemovalMoves'
  <2>1. \A m \in moved' : AsReviewed(m)'
    BY <1>1 DEF RemovalInv, RemovalMoves, AsReviewed
  <2> QED
    BY <1>1, <2>1, IdleTyped DEF RemovalMoves
<1>5. RemovalLatch'
  BY <1>1, IdleTyped DEF RemovalLatch
<1> QED
  BY <1>2, <1>3, <1>4, <1>5 DEF RemovalInv

-----------------------------------------------------------------------------
(* Results.                                                                  *)

LEMMA RemovalSteps ==
  ASSUME Removal!RemovalAssumption, RemovalInv, [Removal!Next]_(Removal!vars)
  PROVE  RemovalInv'
<1>1. CASE Removal!Next
  <2>1. \/ Removal!Load \/ (\E a \in Apps : Removal!Inspect(a))
        \/ (\E a \in Apps, list \in 1 .. lists, kinds \in SUBSET Kinds : Removal!Prepare(a, list, kinds))
        \/ (\E n \in 1 .. issued, kinds \in {{}, Kinds} : Removal!Confirm(n, kinds))
        \/ (Removal!Clear \/ Removal!Publish \/ Removal!Cache) \/ (Removal!Collect \/ Removal!Keep) \/ (Removal!Take \/ Removal!Store)
        \/ Removal!Claim \/ Removal!Commit \/ (\E i \in Kinds \cup {"bundle"} : Removal!Check(i)) \/ Removal!Native \/ Removal!Report \/ Removal!Panic
        \/ (Removal!Cancel \/ \E n \in 1 .. issued : Removal!Dismiss(n))
        \/ ((\E a \in Apps : Removal!ChangeApp(a)) \/ (\E k \in Kinds : Removal!ChangeData(k)) \/ (\E i \in late : Removal!Settle(i)))
        \/ Removal!Restart
    BY <1>1 DEF Removal!Next
  <2> QED
    BY <2>1, RemovalStarts, RemovalLists, RemovalInspects, RemovalPlans, RemovalClaims,
       RemovalCommits,
       RemovalLooks, RemovalNative, RemovalReports, RemovalPanics, RemovalCancels, RemovalOutside,
       RemovalRestarts
<1>2. CASE UNCHANGED Removal!vars
  <2>1. UNCHANGED <<app, data, inventory, inner, work, needs, late, moved, lists, issued, changes>>
    BY <1>2 DEF Removal!vars
  <2>2. RemovalDisk'
    BY <2>1 DEF RemovalInv, RemovalDisk
  <2> QED
    BY <2>1, <2>2, OthersStep
<1> QED
  BY <1>1, <1>2

\* The types that follow from the invariant of the removal.
LEMMA RemovalTypes == ASSUME Removal!RemovalAssumption PROVE RemovalInv => Removal!TypeOK
<1>1. ASSUME RemovalInv PROVE DOMAIN inner.entries \subseteq Apps
  BY <1>1, RemovalWorkTyped, InnerTyped
<1>2. ASSUME RemovalInv PROVE data \in [Kinds -> 0 .. (1 + MaxChanges)]
  <2>1. /\ MaxChanges \in Nat /\ changes \in 0 .. MaxChanges /\ data \in [Kinds -> Nat]
        /\ \A k \in Kinds : data[k] <= 1 + changes
    BY <1>2 DEF RemovalInv, RemovalDisk, Removal!RemovalAssumption
  <2>2. \A k \in Kinds : data[k] \in 0 .. (1 + MaxChanges)
    BY <2>1
  <2> QED
    BY <2>1, <2>2
<1>3. ASSUME RemovalInv
      PROVE  inventory \in 0 .. lists /\ inner.id \in 0 .. lists /\ inner.pending.n \in 0 .. issued /\ needs \in BOOLEAN
  BY <1>3 DEF RemovalInv, RemovalCounts, RemovalLatch
<1> QED
  BY <1>1, <1>2, <1>3 DEF Removal!TypeOK

\* Type correctness of the removal (application_actions.rs:445-700, 1336-1372).
THEOREM RemovalTyped == ASSUME Removal!RemovalAssumption PROVE Removal!Spec => []Removal!TypeOK
<1>1. Removal!Init => RemovalInv
  BY RemovalBegins
<1>2. RemovalInv /\ [Removal!Next]_(Removal!vars) => RemovalInv'
  BY RemovalSteps
<1> QED
  BY <1>1, <1>2, RemovalTypes, PTL DEF Removal!Spec

\* What was moved is what was reviewed, by the invariant.
LEMMA RemovalAgrees ==
  ASSUME Removal!RemovalAssumption
  PROVE  RemovalInv => Removal!RemovalIsAsReviewed
<1>1. ASSUME RemovalInv PROVE Removal!Cardinality(late) <= 1
  <2>1. \A i, j \in late : i = j
    BY <1>1 DEF RemovalInv, RemovalLatch
  <2>2. CASE late = {}
    BY <2>2, RemovalCardinality, FS_EmptySet
  <2>3. CASE late # {}
    <3>1. PICK i : i \in late
      BY <2>3
    <3>2. late = {i}
      BY <2>1, <3>1
    <3>3. Cardinality({i}) = 1
      BY FS_Singleton
    <3> QED
      BY <3>2, <3>3, RemovalCardinality
  <2> QED
    BY <2>2, <2>3
<1>2. ASSUME RemovalInv PROVE (work.step = "native" => late = {}) /\ \A m \in moved : AsReviewed(m)
  BY <1>2 DEF RemovalInv, RemovalLatch, RemovalMoves
<1> QED
  BY <1>1, <1>2 DEF Removal!RemovalIsAsReviewed, AsReviewed

\* For any applications, data, lists, plans and changes by others: what is
\* moved is what was reviewed, of an application that does not run and shares
\* its data with no other, and no request follows one without an answer
\* (application_actions.rs:21-25, 445-510, 677-700, 1336-1372).
THEOREM RemovalSafety ==
  ASSUME Removal!RemovalAssumption
  PROVE  Removal!Spec => []Removal!RemovalIsAsReviewed
<1>1. Removal!Init => RemovalInv
  BY RemovalBegins
<1>2. RemovalInv /\ [Removal!Next]_(Removal!vars) => RemovalInv'
  BY RemovalSteps
<1> QED
  BY <1>1, <1>2, RemovalAgrees, PTL DEF Removal!Spec

-----------------------------------------------------------------------------
(* The last checks of a file before it goes to the trash (DuplicateTrash),   *)
(* for any paths and contents and any number of changes by others.           *)

CONSTANTS Paths, Contents, NoKeeper, MaxEdits
VARIABLES fs, edits, group, phase, keeper, todo, queue, step, held, snapshot, quiet, trashed

Trash == INSTANCE DuplicateTrash WITH
  MaxChanges <- MaxEdits, moved <- trashed, changes <- edits

FileRec == [id : Nat, content : Contents, stamp : {0, 1}]
Snapshots == UNION {[S -> FileRec] : S \in SUBSET Paths}

DiskInv == fs \in [Paths -> FileRec \cup {Trash!Gone}] /\ edits \in Nat
GroupInv ==
  /\ group \in Snapshots
  /\ \A p, q \in DOMAIN group : group[p].content = group[q].content

\* What a job knows of its files, and which of them it has still to check.
Among(p, s) == \E i \in DOMAIN s : s[i] = p
JobInv ==
  /\ phase \in {"idle", "prepare", "move", "over"} /\ step \in {"look", "read", "again"}
  /\ keeper \in DOMAIN group \cup {NoKeeper} /\ held \in FileRec \cup {Trash!Gone} /\ quiet \in BOOLEAN
  /\ snapshot \in Snapshots /\ DOMAIN snapshot \subseteq DOMAIN group
  /\ todo \in Seq(DOMAIN group) /\ queue \in Seq(DOMAIN group)
  /\ phase = "idle" => keeper = NoKeeper /\ DOMAIN snapshot = {} /\ queue = <<>> /\ step = "look"
  /\ phase \in {"idle", "prepare"} => trashed = {}
  /\ phase \in {"prepare", "move"} =>
       /\ todo # <<>> /\ ~Among(keeper, todo)
       /\ queue = <<>> => step = "look"
       /\ step # "look" => held \in FileRec
       /\ \A p \in Paths : Among(p, todo) \/ p = keeper =>
            p \in DOMAIN snapshot \/ (phase = "prepare" /\ Among(p, queue))

\* The files of a group are accepted only with the content of the report.
ContentInv ==
  keeper # NoKeeper =>
    /\ \A p \in DOMAIN snapshot : snapshot[p].content = group[p].content
    /\ phase = "prepare" /\ queue # <<>> /\ step = "again" => held.content = group[Head(queue)].content

\* How far the last checks are, and what they have shown unless somebody
\* changed a file since they began.
Looked(p) == Trash!Present(p) /\ fs[p].id = snapshot[p].id /\ fs[p].stamp = snapshot[p].stamp
Same(p) == fs[p] = snapshot[p]
Alone(p) == \A q \in Paths : fs[q].id = fs[p].id => q = p
MoveInv ==
  phase = "move" =>
    \/ queue = Trash!Recheck(Head(todo)) /\ step = "look"
    \/ queue = Trash!Recheck(Head(todo)) /\ step = "read" /\ (quiet => Looked(Head(todo)) /\ Alone(Head(todo)))
    \/ queue = Trash!Recheck(Head(todo)) /\ step = "again" /\ (quiet => Same(Head(todo)) /\ Alone(Head(todo)))
    \/ /\ keeper # NoKeeper /\ queue = <<keeper>> /\ (quiet => Same(Head(todo)) /\ Alone(Head(todo)))
       /\ step = "read" /\ quiet => Looked(keeper)
       /\ step = "again" /\ quiet => Same(keeper)
    \/ /\ queue = <<>> /\ step = "look"
       /\ quiet => Same(Head(todo)) /\ Alone(Head(todo)) /\ (keeper # NoKeeper => Same(keeper))

TrashInv == DiskInv /\ GroupInv /\ JobInv /\ ContentInv /\ MoveInv /\ Trash!MovedFileHasACopy

-----------------------------------------------------------------------------
(* Files.                                                                    *)

LEMMA GoneIsNoFile == ASSUME NEW r \in FileRec PROVE r # Trash!Gone
<1>1. r.id \in Nat /\ Trash!Gone.id = -1
  BY DEF FileRec, Trash!Gone
<1> QED
  BY <1>1

\* The cardinality of the model is that of the library.
LEMMA SameCardinality ==
  /\ \A S : Trash!IsFiniteSet(S) <=> IsFiniteSet(S)
  /\ \A S : Trash!Cardinality(S) = Cardinality(S)
<1>1. \A S : Trash!IsFiniteSet(S) <=> IsFiniteSet(S)
  BY Zenon DEF Trash!IsFiniteSet, IsFiniteSet
<1>2. \A S : Trash!Cardinality(S) = Cardinality(S)
  BY <1>1, Zenon DEF Trash!Cardinality, Cardinality
<1> QED
  BY <1>1, <1>2

\* A path that is the only one of its file.
LEMMA OneLink ==
  ASSUME Trash!TrashAssumption, NEW p \in Paths, Trash!Links(p) = 1 PROVE Alone(p)
<1> DEFINE S == {q \in Paths : fs[q].id = fs[p].id}
<1>0. IsFiniteSet(Paths) /\ S \in SUBSET Paths
  BY SameCardinality DEF Trash!TrashAssumption
<1>2. Cardinality(S) = 1
  BY SameCardinality DEF Trash!Links
<1>4. p \in S
  OBVIOUS
<1>5. \A q \in Paths : fs[q].id = fs[p].id => q \in S
  OBVIOUS
<1> HIDE DEF S
<1>1. IsFiniteSet(S)
  BY <1>0, FS_Subset
<1>3. PICK x : S = {x}
  BY <1>1, <1>2, FS_Singleton
<1> QED
  BY <1>3, <1>4, <1>5 DEF Alone

\* Two records of the same file, time and content are the same.
LEMMA SameFields ==
  ASSUME NEW r \in FileRec, NEW s \in FileRec, r.id = s.id, r.stamp = s.stamp, r.content = s.content
  PROVE  r = s
BY DEF FileRec

LEMMA SnapshotHas ==
  ASSUME NEW s \in Snapshots
  PROVE  \A p \in DOMAIN s : p \in Paths /\ s[p] \in FileRec
BY DEF Snapshots

\* The first of a sequence.
LEMMA FirstOf ==
  ASSUME NEW S, NEW q \in Seq(S), q # <<>>
  PROVE  /\ Head(q) \in S /\ Head(q) = q[1] /\ 1 \in DOMAIN q /\ Among(Head(q), q)
         /\ Tail(q) \in Seq(S) /\ \A i \in DOMAIN Tail(q) : i + 1 \in DOMAIN q /\ Tail(q)[i] = q[i + 1]
         /\ \A i \in DOMAIN q : i = 1 \/ (i - 1 \in DOMAIN Tail(q) /\ Tail(q)[i - 1] = q[i])
<1>1. Len(q) \in Nat /\ Len(q) >= 1 /\ DOMAIN q = 1 .. Len(q)
  OBVIOUS
<1>2. Head(q) = q[1] /\ q[1] \in S /\ 1 \in DOMAIN q
  BY <1>1
<1>3. Tail(q) \in Seq(S) /\ DOMAIN Tail(q) = 1 .. Len(q) - 1 /\ \A i \in 1 .. Len(q) - 1 : Tail(q)[i] = q[i + 1]
  BY <1>1
<1> QED
  BY <1>1, <1>2, <1>3 DEF Among

\* What is not the first of a sequence is behind it.
LEMMA Behind ==
  ASSUME NEW S, NEW q \in Seq(S), q # <<>>, NEW x
  PROVE  Among(x, q) <=> x = Head(q) \/ Among(x, Tail(q))
<1>1. /\ Head(q) = q[1] /\ 1 \in DOMAIN q
      /\ \A i \in DOMAIN Tail(q) : i + 1 \in DOMAIN q /\ Tail(q)[i] = q[i + 1]
      /\ \A i \in DOMAIN q : i = 1 \/ (i - 1 \in DOMAIN Tail(q) /\ Tail(q)[i - 1] = q[i])
  BY FirstOf
<1>2. ASSUME Among(x, q) PROVE x = Head(q) \/ Among(x, Tail(q))
  BY <1>1, <1>2 DEF Among
<1>3. ASSUME x = Head(q) PROVE Among(x, q)
  BY <1>1, <1>3 DEF Among
<1>4. ASSUME Among(x, Tail(q)) PROVE Among(x, q)
  BY <1>1, <1>4 DEF Among
<1> QED
  BY <1>2, <1>3, <1>4

\* One more before a sequence.
LEMMA InFront ==
  ASSUME NEW S, NEW q \in Seq(S), NEW x \in S
  PROVE  /\ <<x>> \o q \in Seq(S) /\ <<x>> \o q # <<>>
         /\ \A y : y = x \/ Among(y, q) => Among(y, <<x>> \o q)
<1> DEFINE r == <<x>> \o q
<1>1. r \in Seq(S) /\ Len(r) = Len(q) + 1 /\ Len(q) \in Nat
  OBVIOUS
<1>2. r[1] = x /\ \A i \in 1 .. Len(q) : r[i + 1] = q[i]
  OBVIOUS
<1>3. DOMAIN r = 1 .. Len(q) + 1 /\ DOMAIN q = 1 .. Len(q)
  BY <1>1
<1> HIDE DEF r
<1>4. r # <<>>
  BY <1>1
<1>5. Among(x, r)
  BY <1>1, <1>2, <1>3 DEF Among
<1>6. ASSUME NEW y, Among(y, q) PROVE Among(y, r)
  <2>1. PICK i \in 1 .. Len(q) : q[i] = y
    BY <1>3, <1>6 DEF Among
  <2>2. i + 1 \in DOMAIN r /\ r[i + 1] = y
    BY <1>1, <1>2, <1>3, <2>1
  <2> QED
    BY <2>2 DEF Among
<1>7. r \in Seq(S) /\ r # <<>> /\ \A y : y = x \/ Among(y, q) => Among(y, r)
  BY <1>1, <1>4, <1>5, <1>6
<1> QED
  BY <1>7 DEF r

\* The orders of a finite set that is not empty.
LEMMA OrderOf ==
  ASSUME NEW S, IsFiniteSet(S), S # {}, NEW T, S \subseteq T, NEW s \in Trash!Orders(S)
  PROVE  s \in Seq(T) /\ s # <<>> /\ \A x : Among(x, s) => x \in S
<1>1. Cardinality(S) \in Nat /\ Cardinality(S) # 0
  BY FS_CardinalityType, FS_EmptySet
<1>2. s \in [1 .. Cardinality(S) -> S]
  BY SameCardinality DEF Trash!Orders
<1>3. s \in Seq(T) /\ Len(s) = Cardinality(S)
  BY <1>1, <1>2
<1> QED
  BY <1>1, <1>2, <1>3 DEF Among

\* Two and one files to check again.
LEMMA RecheckHas ==
  ASSUME NEW S, NEW p \in S, keeper \in S \cup {NoKeeper}
  PROVE  /\ Trash!Recheck(p) \in Seq(S) /\ Trash!Recheck(p) # <<>> /\ Head(Trash!Recheck(p)) = p
         /\ Tail(Trash!Recheck(p)) = IF keeper = NoKeeper THEN <<>> ELSE <<keeper>>
BY DEF Trash!Recheck, Trash!Single

-----------------------------------------------------------------------------
(* Initial states.                                                           *)

LEMMA TrashBegins == ASSUME Trash!TrashAssumption, Trash!Init PROVE TrashInv
<1>1. PICK f \in [Paths -> Contents], i \in [Paths -> 1 .. Cardinality(Paths)] :
        /\ fs = [p \in Paths |-> [id |-> i[p], content |-> f[p], stamp |-> 0]]
        /\ \E c \in Contents : group = [p \in {q \in Paths : f[q] = c} |-> fs[p]]
  BY SameCardinality DEF Trash!Init
<1>2. Cardinality(Paths) \in Nat
  BY SameCardinality, FS_CardinalityType DEF Trash!TrashAssumption
<1>3. \A p \in Paths : fs[p] \in FileRec /\ fs[p].content = f[p]
  BY <1>1, <1>2 DEF FileRec
<1>4. PICK c \in Contents : group = [p \in {q \in Paths : f[q] = c} |-> fs[p]]
  BY <1>1
<1>5. fs \in [Paths -> FileRec \cup {Trash!Gone}]
  BY <1>1, <1>3
<1>6. DiskInv
  BY <1>5 DEF DiskInv, Trash!Init
<1>7. GroupInv
  <2> DEFINE S == {q \in Paths : f[q] = c}
  <2>1. S \in SUBSET Paths /\ group \in [S -> FileRec]
    BY <1>3, <1>4
  <2>2. group \in Snapshots
    BY <2>1 DEF Snapshots
  <2>3. \A p, q \in DOMAIN group : group[p].content = group[q].content
    BY <1>3, <1>4
  <2> QED
    BY <2>2, <2>3 DEF GroupInv
<1>8. DOMAIN snapshot = {} /\ snapshot \in Snapshots
  <2>1. snapshot = [p \in {} |-> Trash!Gone]
    BY DEF Trash!Init
  <2>2. snapshot \in [{} -> FileRec]
    BY <2>1
  <2> QED
    BY <2>1, <2>2 DEF Snapshots
<1>9. JobInv
  BY <1>8 DEF JobInv, Trash!Init
<1>10. ContentInv /\ MoveInv /\ Trash!MovedFileHasACopy
  BY DEF Trash!Init, ContentInv, MoveInv, Trash!MovedFileHasACopy
<1> QED
  BY <1>6, <1>7, <1>9, <1>10 DEF TrashInv

-----------------------------------------------------------------------------
(* Requests.                                                                 *)

LEMMA TrashTypes ==
  ASSUME Trash!TrashAssumption, TrashInv
  PROVE  /\ DOMAIN group \subseteq Paths /\ IsFiniteSet(DOMAIN group)
         /\ \A p \in DOMAIN group : group[p] \in FileRec
         /\ DOMAIN snapshot \subseteq DOMAIN group /\ \A p \in DOMAIN snapshot : snapshot[p] \in FileRec
         /\ keeper # NoKeeper => keeper \in DOMAIN group
         /\ NoKeeper \notin Paths
         /\ \A p \in Paths : Trash!Present(p) => fs[p] \in FileRec
<1>1. group \in Snapshots /\ snapshot \in Snapshots
  BY DEF TrashInv, GroupInv, JobInv
<1>2. DOMAIN group \in SUBSET Paths /\ (\A p \in DOMAIN group : group[p] \in FileRec)
        /\ \A p \in DOMAIN snapshot : snapshot[p] \in FileRec
  BY <1>1, SnapshotHas
<1>3. IsFiniteSet(Paths) /\ NoKeeper \notin Paths
  BY SameCardinality DEF Trash!TrashAssumption
<1>4. IsFiniteSet(DOMAIN group)
  BY <1>2, <1>3, FS_Subset
<1>5. DOMAIN snapshot \subseteq DOMAIN group /\ (keeper # NoKeeper => keeper \in DOMAIN group)
  BY DEF TrashInv, JobInv
<1>6. \A p \in Paths : Trash!Present(p) => fs[p] \in FileRec
  BY DEF TrashInv, DiskInv, Trash!Present
<1> QED
  BY <1>2, <1>3, <1>4, <1>5, <1>6

LEMMA TrashRequested ==
  ASSUME Trash!TrashAssumption, TrashInv, Trash!RequestGroup \/ Trash!RequestFile
  PROVE  TrashInv'
<1> USE TrashTypes
<1>1. phase = "idle" /\ phase' = "prepare"
  BY DEF Trash!RequestGroup, Trash!RequestFile
<1>2. UNCHANGED <<fs, edits, group, step, held, snapshot, quiet, trashed>>
  BY DEF Trash!RequestGroup, Trash!RequestFile, Trash!disk
<1>3. /\ keeper = NoKeeper /\ DOMAIN snapshot = {} /\ step = "look" /\ trashed = {}
      /\ held \in FileRec \cup {Trash!Gone} /\ quiet \in BOOLEAN /\ snapshot \in Snapshots
  BY <1>1 DEF TrashInv, JobInv
<1>4. /\ keeper' \in DOMAIN group \cup {NoKeeper}
      /\ todo' \in Seq(DOMAIN group) /\ todo' # <<>> /\ queue' \in Seq(DOMAIN group) /\ queue' # <<>>
      /\ ~Among(keeper', todo')
      /\ \A p \in Paths : Among(p, todo') \/ p = keeper' => Among(p, queue')
  <2>1. CASE Trash!RequestGroup
    <3>1. PICK S \in SUBSET DOMAIN group, k \in DOMAIN group :
            /\ S # {} /\ k \in Trash!Keepers(S) /\ keeper' = k
            /\ \E s \in Trash!Orders(S) : todo' = s /\ queue' = <<k>> \o s
      BY <2>1 DEF Trash!RequestGroup
    <3>2. PICK s \in Trash!Orders(S) : todo' = s /\ queue' = <<k>> \o s
      BY <3>1
    <3>3. IsFiniteSet(S)
      BY FS_Subset
    <3>4. s \in Seq(DOMAIN group) /\ s # <<>> /\ \A x : Among(x, s) => x \in S
      BY <3>1, <3>3, OrderOf
    <3>5. /\ <<k>> \o s \in Seq(DOMAIN group) /\ <<k>> \o s # <<>>
          /\ \A y : y = k \/ Among(y, s) => Among(y, <<k>> \o s)
      BY <3>4, InFront
    <3>6. k \notin S
      BY <3>1 DEF Trash!Keepers
    <3> QED
      BY <3>1, <3>2, <3>4, <3>5, <3>6
  <2>2. CASE Trash!RequestFile
    <3>1. PICK p \in DOMAIN group : todo' = <<p>> /\ queue' = <<p>>
      BY <2>2 DEF Trash!RequestFile
    <3>2. keeper' = NoKeeper
      BY <1>3, <2>2 DEF Trash!RequestFile
    <3>3. <<p>> \in Seq(DOMAIN group) /\ <<p>> # <<>> /\ DOMAIN <<p>> = {1} /\ <<p>>[1] = p
      OBVIOUS
    <3>4. ~Among(NoKeeper, <<p>>)
      BY <3>3 DEF Among
    <3>5. \A q \in Paths : q # NoKeeper
      OBVIOUS
    <3> QED
      BY <3>1, <3>2, <3>3, <3>4, <3>5
  <2> QED
    BY <2>1, <2>2
<1>5. JobInv'
  BY <1>1, <1>2, <1>3, <1>4 DEF JobInv, Among
<1>6. DiskInv' /\ GroupInv'
  BY <1>2 DEF TrashInv, DiskInv, GroupInv
<1>7. ContentInv'
  BY <1>2, <1>3 DEF ContentInv
<1>8. MoveInv' /\ Trash!MovedFileHasACopy'
  BY <1>1, <1>2, <1>3 DEF MoveInv, Trash!MovedFileHasACopy
<1> QED
  BY <1>5, <1>6, <1>7, <1>8 DEF TrashInv

-----------------------------------------------------------------------------
(* A job that ends.                                                          *)

\* What is said of the files that were moved does not change with the disk.
LEMMA MovedStays ==
  ASSUME Trash!MovedFileHasACopy, UNCHANGED <<group, keeper, snapshot, trashed>>
  PROVE  Trash!MovedFileHasACopy'
BY DEF Trash!MovedFileHasACopy

LEMMA TrashStops ==
  ASSUME Trash!TrashAssumption, TrashInv, phase \in {"prepare", "move"},
         phase' = "over", UNCHANGED <<fs, edits, group, keeper, todo, step, held, snapshot, trashed>>,
         queue' \in Seq(DOMAIN group), quiet' \in BOOLEAN
  PROVE  TrashInv'
<1>1. JobInv'
  BY DEF TrashInv, JobInv
<1>2. DiskInv' /\ GroupInv'
  BY DEF TrashInv, DiskInv, GroupInv
<1>3. ContentInv' /\ MoveInv'
  BY DEF TrashInv, ContentInv, MoveInv
<1>4. Trash!MovedFileHasACopy'
  BY MovedStays DEF TrashInv
<1> QED
  BY <1>1, <1>2, <1>3, <1>4 DEF TrashInv

-----------------------------------------------------------------------------
(* The checks of a file.                                                     *)

\* What the checks have to know of the file they look at.
LEMMA TrashChecks ==
  ASSUME Trash!TrashAssumption, TrashInv, Trash!Checking
  PROVE  /\ phase \in {"prepare", "move"} /\ queue # <<>> /\ queue \in Seq(DOMAIN group)
         /\ Trash!File \in DOMAIN group /\ Trash!File \in Paths /\ Tail(queue) \in Seq(DOMAIN group)
         /\ todo # <<>> /\ Head(todo) \in DOMAIN group
         /\ \A x : Among(x, queue) <=> x = Trash!File \/ Among(x, Tail(queue))
         /\ phase = "move" => Trash!File \in DOMAIN snapshot /\ Trash!Expected(Trash!File) = snapshot[Trash!File]
<1> USE TrashTypes
<1>1. phase \in {"prepare", "move"} /\ queue # <<>>
  BY DEF Trash!Checking
<1>2. queue \in Seq(DOMAIN group) /\ todo \in Seq(DOMAIN group) /\ todo # <<>>
  BY <1>1 DEF TrashInv, JobInv
<1>3. Head(queue) \in DOMAIN group /\ Tail(queue) \in Seq(DOMAIN group) /\ Head(todo) \in DOMAIN group
  BY <1>1, <1>2, FirstOf
<1>4. \A x : Among(x, queue) <=> x = Head(queue) \/ Among(x, Tail(queue))
  BY <1>1, <1>2, Behind
<1>5. ASSUME phase = "move" PROVE Head(queue) \in DOMAIN snapshot
  <2>1. \A p \in Paths : Among(p, todo) \/ p = keeper => p \in DOMAIN snapshot
    BY <1>5 DEF TrashInv, JobInv
  <2>2. Among(Head(todo), todo)
    BY <1>2, FirstOf
  <2>3. keeper \in DOMAIN group \cup {NoKeeper}
    BY DEF TrashInv, JobInv
  <2>4. Head(Trash!Recheck(Head(todo))) = Head(todo)
    BY <1>3, <2>3, RecheckHas
  <2>5. queue = Trash!Recheck(Head(todo)) \/ (keeper # NoKeeper /\ queue = <<keeper>>)
    BY <1>1, <1>5 DEF TrashInv, MoveInv
  <2>6. Head(queue) = Head(todo) \/ (keeper # NoKeeper /\ Head(queue) = keeper)
    BY <2>4, <2>5
  <2> QED
    BY <1>3, <2>1, <2>2, <2>6
<1>6. phase = "move" => Trash!Expected(Head(queue)) = snapshot[Head(queue)]
  BY DEF Trash!Expected
<1> QED
  BY <1>1, <1>2, <1>3, <1>4, <1>5, <1>6 DEF Trash!File

LEMMA TrashLooks == ASSUME Trash!TrashAssumption, TrashInv, Trash!Look PROVE TrashInv'
<1> USE TrashTypes, TrashChecks
<1>1. /\ Trash!Checking /\ step = "look" /\ UNCHANGED <<fs, edits, group, keeper, todo, trashed>>
      /\ quiet' = IF phase = "move" /\ Trash!File = Head(todo) THEN TRUE ELSE quiet
  BY DEF Trash!Look, Trash!disk
<1>2. quiet' \in BOOLEAN
  BY <1>1 DEF TrashInv, JobInv
<1>3. CASE Trash!Stop
  <2>1. queue' \in Seq(DOMAIN group) /\ UNCHANGED <<step, held, snapshot>> /\ phase' = "over"
    BY <1>3 DEF Trash!Stop
  <2> QED
    BY <1>1, <1>2, <2>1, TrashStops
<1>4. CASE ~Trash!Stop
  <2>1. /\ Trash!Present(Trash!File) /\ Trash!Links(Trash!File) = 1
        /\ fs[Trash!File].stamp = Trash!Expected(Trash!File).stamp /\ fs[Trash!File].id = Trash!Expected(Trash!File).id
        /\ held' = fs[Trash!File] /\ step' = "read" /\ UNCHANGED <<phase, queue, snapshot>>
    BY <1>4 DEF Trash!Look
  <2>2. held' \in FileRec
    BY <1>1, <2>1
  <2>3. JobInv'
    BY <1>1, <1>2, <2>1, <2>2 DEF TrashInv, JobInv, Among
  <2>4. DiskInv' /\ GroupInv'
    BY <1>1 DEF TrashInv, DiskInv, GroupInv
  <2>5. ContentInv'
    BY <1>1, <2>1 DEF TrashInv, ContentInv
  <2>6. Trash!MovedFileHasACopy'
    BY <1>1, <2>1, MovedStays DEF TrashInv
  <2>7. ASSUME phase = "move" PROVE MoveInv'
    <3>1. Looked(Trash!File) /\ Alone(Trash!File)
      BY <1>1, <2>1, <2>7, OneLink DEF Looked
    <3>2. CASE queue = Trash!Recheck(Head(todo))
      <4>1. Trash!File = Head(todo)
        BY <1>1, <3>2, RecheckHas DEF Trash!File, TrashInv, JobInv
      <4>2. queue' = Trash!Recheck(Head(todo))' /\ step' = "read"
        BY <1>1, <2>1, <3>2 DEF Trash!Recheck, Trash!Single
      <4>3. (Looked(Head(todo)) /\ Alone(Head(todo)))'
        BY <1>1, <2>1, <3>1, <4>1 DEF Looked, Trash!Present, Alone
      <4> QED
        BY <4>2, <4>3 DEF MoveInv
    <3>3. CASE queue # Trash!Recheck(Head(todo))
      <4>1. /\ keeper # NoKeeper /\ queue = <<keeper>>
            /\ quiet => Same(Head(todo)) /\ Alone(Head(todo))
        BY <1>1, <2>7, <3>3 DEF TrashInv, MoveInv
      <4>2. Trash!File = keeper
        BY <4>1 DEF Trash!File
      <4>3. Among(Head(todo), todo)
        BY <1>1, FirstOf DEF TrashInv, JobInv
      <4>4. Trash!File # Head(todo)
        BY <1>1, <4>2, <4>3 DEF TrashInv, JobInv
      <4>5. quiet' = quiet
        BY <1>1, <4>4
      <4>6. Looked(keeper)'
        BY <1>1, <2>1, <3>1, <4>2 DEF Looked, Trash!Present
      <4>7. quiet' => (Same(Head(todo)) /\ Alone(Head(todo)))'
        BY <1>1, <2>1, <4>1, <4>5 DEF Same, Alone
      <4> QED
        BY <1>1, <2>1, <4>1, <4>6, <4>7 DEF MoveInv
    <3> QED
      BY <3>2, <3>3
  <2>8. ASSUME phase # "move" PROVE MoveInv'
    BY <2>1, <2>8 DEF MoveInv
  <2> QED
    BY <2>3, <2>4, <2>5, <2>6, <2>7, <2>8 DEF TrashInv
<1> QED
  BY <1>3, <1>4

LEMMA TrashReads == ASSUME Trash!TrashAssumption, TrashInv, Trash!Read PROVE TrashInv'
<1> USE TrashTypes, TrashChecks
<1>1. Trash!Checking /\ step = "read" /\ UNCHANGED <<fs, edits, group, keeper, todo, trashed, quiet>>
  BY DEF Trash!Read, Trash!disk
<1>2. quiet' \in BOOLEAN /\ held \in FileRec
  BY <1>1 DEF TrashInv, JobInv
<1>3. CASE Trash!Stop
  <2>1. queue' \in Seq(DOMAIN group) /\ UNCHANGED <<step, held, snapshot>> /\ phase' = "over"
    BY <1>3 DEF Trash!Stop
  <2> QED
    BY <1>1, <1>2, <2>1, TrashStops
<1>4. CASE ~Trash!Stop
  <2>1. /\ Trash!Present(Trash!File) /\ (phase = "move" \/ ~Trash!Single => fs[Trash!File].content = Trash!Expected(Trash!File).content)
        /\ held' = [held EXCEPT !.content = fs[Trash!File].content] /\ step' = "again"
        /\ UNCHANGED <<phase, queue, snapshot>>
    BY <1>4 DEF Trash!Read
  <2>2. fs[Trash!File] \in FileRec
    BY <1>1, <2>1
  <2>3. held' \in FileRec /\ held'.content = fs[Trash!File].content
    BY <1>2, <2>1, <2>2 DEF FileRec
  <2>4. JobInv'
    BY <1>1, <1>2, <2>1, <2>3 DEF TrashInv, JobInv, Among
  <2>5. DiskInv' /\ GroupInv'
    BY <1>1 DEF TrashInv, DiskInv, GroupInv
  <2>6. ContentInv'
    <3>1. ASSUME keeper # NoKeeper, phase = "prepare"
          PROVE  Trash!Expected(Trash!File).content = group[Trash!File].content
      <4>1. Trash!Expected(Trash!File) = [group[Trash!File] EXCEPT !.id = fs[Trash!File].id]
        BY <3>1 DEF Trash!Expected, Trash!Single
      <4>2. group[Trash!File] \in FileRec
        BY <1>1
      <4> QED
        BY <4>1, <4>2 DEF FileRec
    <3>2. keeper # NoKeeper /\ phase = "prepare" => held'.content = group[Trash!File].content
      BY <2>1, <2>3, <3>1 DEF Trash!Single
    <3> QED
      BY <1>1, <2>1, <3>2 DEF TrashInv, ContentInv, Trash!File
  <2>7. Trash!MovedFileHasACopy'
    BY <1>1, <2>1, MovedStays DEF TrashInv
  <2>8. ASSUME phase = "move" PROVE MoveInv'
    <3>1. Looked(Trash!File) => Same(Trash!File)
      <4>1. snapshot[Trash!File] \in FileRec /\ Trash!Expected(Trash!File) = snapshot[Trash!File]
        BY <1>1, <2>8
      <4> QED
        BY <2>1, <2>2, <2>8, <4>1, SameFields DEF Looked, Same
    <3>2. CASE queue = Trash!Recheck(Head(todo))
      <4>1. Trash!File = Head(todo)
        BY <1>1, <3>2, RecheckHas DEF Trash!File, TrashInv, JobInv
      <4>2. queue' = Trash!Recheck(Head(todo))' /\ step' = "again"
        BY <1>1, <2>1, <3>2 DEF Trash!Recheck, Trash!Single
      <4>3. queue # <<keeper>> \/ keeper = NoKeeper
        BY <3>2 DEF Trash!Recheck, Trash!Single
      <4>4. quiet => Looked(Head(todo)) /\ Alone(Head(todo))
        BY <1>1, <2>8, <4>3 DEF TrashInv, MoveInv
      <4>5. quiet' => (Same(Head(todo)) /\ Alone(Head(todo)))'
        BY <1>1, <2>1, <3>1, <4>1, <4>4 DEF Same, Alone
      <4> QED
        BY <4>2, <4>5 DEF MoveInv
    <3>3. CASE queue # Trash!Recheck(Head(todo))
      <4>1. /\ keeper # NoKeeper /\ queue = <<keeper>>
            /\ quiet => Same(Head(todo)) /\ Alone(Head(todo)) /\ Looked(keeper)
        BY <1>1, <2>8, <3>3 DEF TrashInv, MoveInv
      <4>2. Trash!File = keeper
        BY <4>1 DEF Trash!File
      <4>3. quiet' => (Same(Head(todo)) /\ Alone(Head(todo)) /\ Same(keeper))'
        BY <1>1, <2>1, <3>1, <4>1, <4>2 DEF Same, Alone
      <4> QED
        BY <1>1, <2>1, <4>1, <4>3 DEF MoveInv
    <3> QED
      BY <3>2, <3>3
  <2>9. ASSUME phase # "move" PROVE MoveInv'
    BY <2>1, <2>9 DEF MoveInv
  <2> QED
    BY <2>4, <2>5, <2>6, <2>7, <2>8, <2>9 DEF TrashInv
<1> QED
  BY <1>3, <1>4

LEMMA TrashLooksAgain == ASSUME Trash!TrashAssumption, TrashInv, Trash!Again PROVE TrashInv'
<1> USE TrashTypes, TrashChecks
<1>1. Trash!Checking /\ step = "again" /\ UNCHANGED <<fs, edits, group, keeper, todo, trashed, quiet>>
  BY DEF Trash!Again, Trash!disk
<1>2. quiet' \in BOOLEAN /\ held \in FileRec
  BY <1>1 DEF TrashInv, JobInv
<1>3. CASE Trash!Stop
  <2>1. queue' \in Seq(DOMAIN group) /\ UNCHANGED <<step, held, snapshot>> /\ phase' = "over"
    BY <1>3 DEF Trash!Stop
  <2> QED
    BY <1>1, <1>2, <2>1, TrashStops
<1>4. CASE ~Trash!Stop
  <2>1. /\ queue' = Tail(queue) /\ step' = "look" /\ held' = Trash!Gone /\ phase' = phase
        /\ snapshot' = IF phase = "prepare"
                       THEN [p \in DOMAIN snapshot \cup {Trash!File} |-> IF p = Trash!File THEN held ELSE snapshot[p]]
                       ELSE snapshot
    BY <1>4 DEF Trash!Again
  <2>2. /\ DOMAIN snapshot \subseteq DOMAIN snapshot' /\ DOMAIN snapshot' \subseteq DOMAIN group
        /\ phase = "prepare" => Trash!File \in DOMAIN snapshot'
    BY <1>1, <2>1
  <2>3. snapshot' \in Snapshots
    <3>1. CASE phase = "prepare"
      <4>1. snapshot' \in [DOMAIN snapshot \cup {Trash!File} -> FileRec]
        BY <1>1, <1>2, <2>1, <3>1
      <4>2. DOMAIN snapshot \cup {Trash!File} \in SUBSET Paths
        BY <1>1
      <4> QED
        BY <4>1, <4>2 DEF Snapshots
    <3>2. CASE phase # "prepare"
      BY <2>1, <3>2 DEF TrashInv, JobInv
    <3> QED
      BY <3>1, <3>2
  <2>4. \A x : Among(x, queue) => x = Trash!File \/ Among(x, queue')
    BY <1>1, <2>1
  <2>5. ASSUME NEW p \in Paths, Among(p, todo) \/ p = keeper
        PROVE  p \in DOMAIN snapshot' \/ (phase = "prepare" /\ Among(p, queue'))
    <3>1. p \in DOMAIN snapshot \/ (phase = "prepare" /\ Among(p, queue))
      BY <1>1, <2>5 DEF TrashInv, JobInv
    <3> QED
      BY <2>2, <2>4, <3>1
  <2>6. queue' \in Seq(DOMAIN group)
    BY <1>1, <2>1
  <2>7. JobInv'
    <3>1. \A p \in Paths : (Among(p, todo) \/ p = keeper)' =>
            p \in DOMAIN snapshot' \/ (phase' = "prepare" /\ Among(p, queue)')
      BY <1>1, <2>1, <2>5 DEF Among
    <3>2. todo' # <<>> /\ ~Among(keeper, todo)'
      BY <1>1 DEF TrashInv, JobInv, Among
    <3> QED
      BY <1>1, <1>2, <2>1, <2>2, <2>3, <2>6, <3>1, <3>2 DEF TrashInv, JobInv
  <2>8. DiskInv' /\ GroupInv'
    BY <1>1 DEF TrashInv, DiskInv, GroupInv
  <2>9. ContentInv'
    <3>1. ASSUME keeper # NoKeeper, phase = "prepare" PROVE held.content = group[Trash!File].content
      BY <1>1, <3>1 DEF TrashInv, ContentInv, Trash!File
    <3>2. ASSUME keeper # NoKeeper
          PROVE  \A p \in DOMAIN snapshot : snapshot[p].content = group[p].content
      BY <3>2 DEF TrashInv, ContentInv
    <3>3. keeper' # NoKeeper => \A p \in DOMAIN snapshot' : snapshot'[p].content = group'[p].content
      BY <1>1, <2>1, <3>1, <3>2
    <3> QED
      BY <2>1, <3>3 DEF ContentInv
  <2>10. Trash!MovedFileHasACopy'
    <3>1. CASE phase = "prepare"
      <4>1. trashed' = {}
        BY <1>1, <3>1 DEF TrashInv, JobInv
      <4> QED
        BY <4>1 DEF Trash!MovedFileHasACopy
    <3>2. CASE phase = "move"
      BY <1>1, <2>1, <3>2, MovedStays DEF TrashInv
    <3> QED
      BY <1>1, <3>1, <3>2
  <2>11. ASSUME phase = "move" PROVE MoveInv'
    <3>1. snapshot' = snapshot
      BY <2>1, <2>11
    <3>2. CASE queue = Trash!Recheck(Head(todo))
      <4>1. queue # <<keeper>> \/ keeper = NoKeeper
        BY <3>2 DEF Trash!Recheck, Trash!Single
      <4>2. quiet => Same(Head(todo)) /\ Alone(Head(todo))
        BY <1>1, <2>11, <4>1 DEF TrashInv, MoveInv
      <4>3. queue' = IF keeper = NoKeeper THEN <<>> ELSE <<keeper>>
        BY <1>1, <2>1, <3>2, RecheckHas
      <4>4. quiet' => (Same(Head(todo)) /\ Alone(Head(todo)))'
        BY <1>1, <3>1, <4>2 DEF Same, Alone
      <4> QED
        BY <1>1, <2>1, <4>3, <4>4 DEF MoveInv
    <3>3. CASE queue # Trash!Recheck(Head(todo))
      <4>1. /\ keeper # NoKeeper /\ queue = <<keeper>>
            /\ quiet => Same(Head(todo)) /\ Alone(Head(todo)) /\ Same(keeper)
        BY <1>1, <2>11, <3>3 DEF TrashInv, MoveInv
      <4>2. queue' = <<>>
        BY <2>1, <4>1
      <4>3. quiet' => (Same(Head(todo)) /\ Alone(Head(todo)) /\ Same(keeper))'
        BY <1>1, <3>1, <4>1 DEF Same, Alone
      <4> QED
        BY <2>1, <4>2, <4>3 DEF MoveInv
    <3> QED
      BY <3>2, <3>3
  <2>12. ASSUME phase # "move" PROVE MoveInv'
    BY <2>1, <2>12 DEF MoveInv
  <2> QED
    BY <2>7, <2>8, <2>9, <2>10, <2>11, <2>12 DEF TrashInv
<1> QED
  BY <1>3, <1>4

LEMMA TrashCancelled == ASSUME Trash!TrashAssumption, TrashInv, Trash!Cancel PROVE TrashInv'
<1>1. /\ Trash!Checking /\ UNCHANGED <<fs, edits, group, keeper, todo, trashed, quiet, step, held, snapshot>>
      /\ phase' = "over" /\ queue' = <<>>
  BY DEF Trash!Cancel, Trash!Stop, Trash!disk
<1>2. phase \in {"prepare", "move"} /\ quiet' \in BOOLEAN /\ queue' \in Seq(DOMAIN group)
  BY <1>1 DEF Trash!Checking, TrashInv, JobInv
<1> QED
  BY <1>1, <1>2, TrashStops

-----------------------------------------------------------------------------
(* The move.                                                                 *)

LEMMA TrashPrepared == ASSUME Trash!TrashAssumption, TrashInv, Trash!Prepared PROVE TrashInv'
<1> USE TrashTypes
<1>1. /\ phase = "prepare" /\ queue = <<>> /\ phase' = "move" /\ queue' = Trash!Recheck(Head(todo))
      /\ UNCHANGED <<fs, edits, group, keeper, todo, step, held, snapshot, quiet, trashed>>
  BY DEF Trash!Prepared, Trash!disk
<1>2. todo \in Seq(DOMAIN group) /\ todo # <<>> /\ keeper \in DOMAIN group \cup {NoKeeper} /\ step = "look"
  BY <1>1 DEF TrashInv, JobInv
<1>3. Head(todo) \in DOMAIN group
  BY <1>2, FirstOf
<1>4. queue' \in Seq(DOMAIN group) /\ queue' # <<>>
  BY <1>1, <1>2, <1>3, RecheckHas
<1>5. \A p : ~Among(p, queue)
  BY <1>1 DEF Among
<1>6. JobInv'
  <2>1. \A p \in Paths : Among(p, todo) \/ p = keeper => p \in DOMAIN snapshot
    BY <1>1, <1>5 DEF TrashInv, JobInv
  <2> QED
    BY <1>1, <1>4, <2>1 DEF TrashInv, JobInv, Among
<1>7. DiskInv' /\ GroupInv' /\ ContentInv'
  BY <1>1 DEF TrashInv, DiskInv, GroupInv, ContentInv
<1>8. MoveInv'
  BY <1>1, <1>2 DEF MoveInv, Trash!Recheck, Trash!Single
<1>9. Trash!MovedFileHasACopy'
  BY <1>1, MovedStays DEF TrashInv
<1> QED
  BY <1>6, <1>7, <1>8, <1>9 DEF TrashInv

LEMMA TrashMoves == ASSUME Trash!TrashAssumption, TrashInv, Trash!Move PROVE TrashInv'
<1> USE TrashTypes
<1> DEFINE p == Head(todo)
<1>1. phase = "move" /\ queue = <<>> /\ UNCHANGED <<edits, group, keeper, step, held, snapshot, quiet>>
  BY DEF Trash!Move
<1>2. /\ todo \in Seq(DOMAIN group) /\ todo # <<>> /\ keeper \in DOMAIN group \cup {NoKeeper}
      /\ step = "look" /\ ~Among(keeper, todo)
      /\ \A x \in Paths : Among(x, todo) \/ x = keeper => x \in DOMAIN snapshot
  BY <1>1 DEF TrashInv, JobInv
<1>3. p \in DOMAIN group /\ p \in Paths /\ Among(p, todo) /\ Tail(todo) \in Seq(DOMAIN group)
  BY <1>2, FirstOf
<1>4. \A x : Among(x, Tail(todo)) => Among(x, todo)
  BY <1>2, Behind
<1>5. p \in DOMAIN snapshot /\ p # keeper
  BY <1>2, <1>3
<1>6. CASE ~Trash!Present(p)
  <2>1. phase' = "over" /\ UNCHANGED <<fs, todo, queue, trashed>>
    BY <1>6 DEF Trash!Move
  <2>2. queue' \in Seq(DOMAIN group) /\ quiet' \in BOOLEAN
    BY <1>1, <2>1 DEF TrashInv, JobInv
  <2> QED
    BY <1>1, <2>1, <2>2, TrashStops
<1>7. CASE Trash!Present(p)
  <2> DEFINE m == [path |-> p, file |-> fs[p], copies |-> Trash!Copies(p), quiet |-> quiet]
  <2>1. /\ fs' = [fs EXCEPT ![p] = Trash!Gone] /\ trashed' = trashed \cup {m} /\ todo' = Tail(todo)
        /\ IF Tail(todo) = <<>> THEN phase' = "over" /\ queue' = queue
                                ELSE queue' = Trash!Recheck(todo[2]) /\ phase' = phase
    BY <1>7 DEF Trash!Move
  <2>2. DiskInv' /\ GroupInv'
    BY <1>1, <1>3, <2>1 DEF TrashInv, DiskInv, GroupInv
  <2>3. ASSUME quiet
        PROVE  fs[p] = snapshot[p] /\ (keeper # NoKeeper => fs[p].content = group[p].content /\ Trash!Copies(p) # {})
    <3>1. Same(p) /\ Alone(p) /\ (keeper # NoKeeper => Same(keeper))
      <4>1. Trash!Recheck(p) # <<>>
        BY <1>2, <1>3, RecheckHas
      <4> QED
        BY <1>1, <2>3, <4>1 DEF TrashInv, MoveInv
    <3>2. ASSUME keeper # NoKeeper
          PROVE  fs[p].content = group[p].content /\ keeper \in Trash!Copies(p)
      <4>1. keeper \in DOMAIN snapshot /\ keeper \in DOMAIN group /\ keeper \in Paths
        BY <1>2, <3>2
      <4>2. snapshot[p].content = group[p].content /\ snapshot[keeper].content = group[keeper].content
        BY <1>5, <3>2, <4>1 DEF TrashInv, ContentInv
      <4>3. group[p].content = group[keeper].content
        BY <1>3, <4>1 DEF TrashInv, GroupInv
      <4>4. Trash!Present(keeper)
        BY <3>1, <3>2, <4>1, GoneIsNoFile DEF Trash!Present, Same
      <4>5. fs[keeper].id # fs[p].id
        BY <1>5, <3>1, <4>1 DEF Alone
      <4> QED
        BY <1>5, <3>1, <3>2, <4>1, <4>2, <4>3, <4>4, <4>5 DEF Same, Trash!Copies
    <3> QED
      BY <3>1, <3>2 DEF Same
  <2>4. Trash!MovedFileHasACopy'
    <3>1. m.quiet => m.file = snapshot[m.path] /\ (keeper # NoKeeper => m.file.content = group[m.path].content /\ m.copies # {})
      BY <2>3
    <3>2. Trash!MovedFileHasACopy
      BY DEF TrashInv
    <3> HIDE DEF m
    <3> QED
      BY <1>1, <2>1, <3>1, <3>2 DEF Trash!MovedFileHasACopy
  <2>5. ContentInv'
    <3>1. phase' # "prepare"
      BY <1>1, <2>1
    <3> QED
      BY <1>1, <3>1 DEF TrashInv, ContentInv
  <2>6. CASE Tail(todo) = <<>>
    <3>1. phase' = "over" /\ queue' = <<>> /\ todo' = <<>>
      BY <1>1, <2>1, <2>6
    <3>2. todo' \in Seq(DOMAIN group) /\ queue' \in Seq(DOMAIN group)
      BY <3>1
    <3>3. JobInv'
      BY <1>1, <3>1, <3>2 DEF TrashInv, JobInv
    <3>4. MoveInv'
      BY <3>1 DEF MoveInv
    <3> QED
      BY <2>2, <2>4, <2>5, <3>3, <3>4 DEF TrashInv
  <2>7. CASE Tail(todo) # <<>>
    <3>1. phase' = "move" /\ queue' = Trash!Recheck(todo[2]) /\ todo' = Tail(todo)
      BY <1>1, <2>1, <2>7
    <3>2. todo[2] = Head(Tail(todo)) /\ todo[2] \in DOMAIN group
      BY <1>2, <1>3, <2>7
    <3>3. queue' \in Seq(DOMAIN group) /\ queue' # <<>>
      BY <1>2, <3>1, <3>2, RecheckHas
    <3>4. JobInv'
      <4>1. ~Among(keeper, todo)' /\ \A x \in Paths : (Among(x, todo) \/ x = keeper)' => x \in DOMAIN snapshot'
        BY <1>1, <1>2, <1>4, <3>1 DEF Among
      <4>2. todo' \in Seq(DOMAIN group) /\ todo' # <<>>
        BY <1>3, <2>7, <3>1
      <4> QED
        BY <1>1, <1>2, <3>1, <3>3, <4>1, <4>2 DEF TrashInv, JobInv
    <3>5. MoveInv'
      BY <1>1, <1>2, <3>1, <3>2 DEF MoveInv, Trash!Recheck, Trash!Single
    <3> QED
      BY <2>2, <2>4, <2>5, <3>4, <3>5 DEF TrashInv
  <2> QED
    BY <2>6, <2>7
<1> QED
  BY <1>6, <1>7

-----------------------------------------------------------------------------
(* Other programs.                                                           *)

LEMMA TrashChanged == ASSUME Trash!TrashAssumption, TrashInv, Trash!Change PROVE TrashInv'
<1> USE TrashTypes
<1>1. UNCHANGED <<group, phase, keeper, todo, queue, step, held, snapshot, trashed>> /\ quiet' = FALSE
        /\ edits' = edits + 1
  BY DEF Trash!Change, Trash!job
<1>2. fs \in [Paths -> FileRec \cup {Trash!Gone}] /\ edits' \in Nat
  BY <1>1 DEF TrashInv, DiskInv
<1>3. fs' \in [Paths -> FileRec \cup {Trash!Gone}]
  <2>1. PICK p \in Paths :
          \/ \E c \in Contents, s \in {0, 1} :
               /\ Trash!Present(p)
               /\ fs' = [q \in Paths |-> IF fs[q].id = fs[p].id
                                         THEN [fs[q] EXCEPT !.content = c, !.stamp = s] ELSE fs[q]]
          \/ \E c \in Contents :
               fs' = [fs EXCEPT ![p] = [id |-> Cardinality(Paths) + edits', content |-> c, stamp |-> 0]]
          \/ \E q \in Paths : Trash!Present(q) /\ fs' = [fs EXCEPT ![p] = fs[q]]
          \/ fs' = [fs EXCEPT ![p] = Trash!Gone]
    BY SameCardinality DEF Trash!Change
  <2>2. ASSUME NEW c \in Contents, NEW s \in {0, 1}, Trash!Present(p),
               fs' = [q \in Paths |-> IF fs[q].id = fs[p].id
                                      THEN [fs[q] EXCEPT !.content = c, !.stamp = s] ELSE fs[q]]
        PROVE  fs' \in [Paths -> FileRec \cup {Trash!Gone}]
    <3>1. fs[p].id \in Nat
      BY <2>2 DEF FileRec
    <3>2. \A q \in Paths : fs[q].id = fs[p].id => fs[q] \in FileRec
      BY <1>2, <3>1 DEF Trash!Gone
    <3>3. \A q \in Paths : fs[q] \in FileRec => [fs[q] EXCEPT !.content = c, !.stamp = s] \in FileRec
      BY DEF FileRec
    <3> QED
      BY <1>2, <2>2, <3>2, <3>3
  <2>3. ASSUME NEW c \in Contents,
               fs' = [fs EXCEPT ![p] = [id |-> Cardinality(Paths) + edits', content |-> c, stamp |-> 0]]
        PROVE  fs' \in [Paths -> FileRec \cup {Trash!Gone}]
    <3>1. Cardinality(Paths) \in Nat
      BY SameCardinality, FS_CardinalityType DEF Trash!TrashAssumption
    <3>2. [id |-> Cardinality(Paths) + edits', content |-> c, stamp |-> 0] \in FileRec
      BY <1>2, <3>1 DEF FileRec
    <3> QED
      BY <1>2, <2>3, <3>2
  <2> QED
    BY <1>2, <2>1, <2>2, <2>3
<1>4. DiskInv'
  BY <1>2, <1>3 DEF DiskInv
<1>5. GroupInv' /\ ContentInv'
  BY <1>1 DEF TrashInv, GroupInv, ContentInv
<1>6. JobInv'
  BY <1>1 DEF TrashInv, JobInv, Among
<1>7. MoveInv'
  BY <1>1 DEF TrashInv, MoveInv, Trash!Recheck, Trash!Single
<1>8. Trash!MovedFileHasACopy'
  BY <1>1, MovedStays DEF TrashInv
<1> QED
  BY <1>4, <1>5, <1>6, <1>7, <1>8 DEF TrashInv

-----------------------------------------------------------------------------
(* Results.                                                                  *)

LEMMA TrashSteps ==
  ASSUME Trash!TrashAssumption, TrashInv, [Trash!Next]_(Trash!vars)
  PROVE  TrashInv'
<1>1. CASE Trash!RequestGroup \/ Trash!RequestFile
  BY <1>1, TrashRequested
<1>2. CASE Trash!Look
  BY <1>2, TrashLooks
<1>3. CASE Trash!Read
  BY <1>3, TrashReads
<1>4. CASE Trash!Again
  BY <1>4, TrashLooksAgain
<1>5. CASE Trash!Prepared
  BY <1>5, TrashPrepared
<1>6. CASE Trash!Move
  BY <1>6, TrashMoves
<1>7. CASE Trash!Cancel
  BY <1>7, TrashCancelled
<1>8. CASE Trash!Change
  BY <1>8, TrashChanged
<1>9. CASE UNCHANGED Trash!vars
  <2>1. UNCHANGED <<fs, edits, group, phase, keeper, todo, queue, step, held, snapshot, quiet, trashed>>
    BY <1>9 DEF Trash!vars, Trash!disk, Trash!job
  <2> QED
    BY <2>1 DEF TrashInv, DiskInv, GroupInv, JobInv, Among, ContentInv, MoveInv, Trash!Recheck,
       Trash!Single,
                Looked, Trash!Present, Same, Alone, Trash!MovedFileHasACopy
<1> QED
  BY <1>1, <1>2, <1>3, <1>4, <1>5, <1>6, <1>7, <1>8, <1>9 DEF Trash!Next

\* The types that follow from the invariant of the checks.
LEMMA TrashJobTypes == ASSUME Trash!TrashAssumption PROVE TrashInv => Trash!TypeOK
<1>1. ASSUME TrashInv
      PROVE  \A p \in Paths : Trash!Present(p) => fs[p].content \in Contents /\ fs[p].stamp \in {0, 1}
  BY <1>1, TrashTypes DEF FileRec
<1> QED
  BY <1>1 DEF TrashInv, JobInv, Trash!TypeOK

\* Type correctness of the last checks and moves
\* (bloomsweepy-core/src/actions.rs:129-245, 936-1021).
THEOREM TrashTyped == ASSUME Trash!TrashAssumption PROVE Trash!Spec => []Trash!TypeOK
<1>1. Trash!Init => TrashInv
  BY TrashBegins
<1>2. TrashInv /\ [Trash!Next]_(Trash!vars) => TrashInv'
  BY TrashSteps
<1> QED
  BY <1>1, <1>2, TrashJobTypes, PTL DEF Trash!Spec

\* For any files, contents, changes by others and any selection: what went to
\* the trash while nobody changed a file during its last checks held the bytes
\* that were reviewed, and another file with the same bytes stayed
\* (bloomsweepy-core/src/actions.rs:129-201, 230-245, 936-1021).
THEOREM CopyStays == ASSUME Trash!TrashAssumption PROVE Trash!Spec => []Trash!MovedFileHasACopy
<1>1. Trash!Init => TrashInv
  BY TrashBegins
<1>2. TrashInv /\ [Trash!Next]_(Trash!vars) => TrashInv'
  BY TrashSteps
<1>3. TrashInv => Trash!MovedFileHasACopy
  BY DEF TrashInv
<1> QED
  BY <1>1, <1>2, <1>3, PTL DEF Trash!Spec

-----------------------------------------------------------------------------
(* The review of a folder before its move (FolderSnapshot), for any tree,    *)
(* any protected entries and any changes by others.                          *)

CONSTANTS Entries, Dirs, Top, Parent, Protected, ReviewKinds, MaxEntries, MaxMeddling
VARIABLES stamps, meddled, reviewed, reported, walking, stack, got, shown, undisturbed, gone

Snap == INSTANCE FolderSnapshot WITH
  Kinds <- ReviewKinds, MaxChanges <- MaxMeddling, fs <- stamps, changes <- meddled, kind <- reviewed,
  report <- reported, phase <- walking, snapshot <- shown, quiet <- undisturbed, moved <- gone

Fingerprint == [entry : Entries \cup {Top}, stamp : Int]
WalkFrame == [dir : Dirs \cup {Top}, stamp : Nat, opened : SUBSET Entries, read : SUBSET Entries]
WalkPhases == {"idle", "capture", "audit", "planned", "recapture", "move", "over"}

\* The types, the limit on the entries, and that times only grow.
WalkTyped ==
  /\ meddled \in Nat /\ stamps \in [Entries \cup {Top} -> Nat] /\ reviewed \in ReviewKinds
  /\ walking \in WalkPhases /\ undisturbed \in BOOLEAN
  /\ stack \in Seq(WalkFrame) /\ got \subseteq Fingerprint /\ shown \subseteq Fingerprint
  /\ IsFiniteSet(got) /\ Cardinality(got) <= MaxEntries
  /\ \A x \in Entries \cup {Top} : stamps[x] <= meddled + 1
  /\ \A f \in got \cup shown : f.stamp <= meddled + 1

\* What is there is in a folder that is there; the folder itself goes with the move.
Rooted ==
  /\ \A e \in Entries : stamps[e] # 0 => stamps[Parent[e]] # 0
  /\ walking # "over" => stamps[Top] # 0 /\ gone = Snap!Nothing

\* What the walk has read, and the entries that are as they were shown.
Seen == {f.entry : f \in got}
Unchanged == {e \in Entries : stamps[e] # 0 /\ [entry |-> e, stamp |-> stamps[e]] \in shown}

\* The entries of M that lie in what was read were read or are still to come.
Reached(M) ==
  \A e \in M : Parent[e] \in (M \cap Seen) \cup {Top} =>
    e \in Seen \/ \E n \in DOMAIN stack : stack[n].dir = Parent[e] /\ e \in stack[n].opened

Frames == \A n \in DOMAIN stack : stack[n].read \subseteq Seen

\* The walk for protected entries has passed none, and misses nothing that stays as
\* it was shown.
Auditing == walking = "audit" => Reached(Unchanged) /\ Seen \cap Protected = {}

\* Neither does the last walk while nothing changes; what it has read is there.
Rewalking ==
  walking = "recapture" /\ undisturbed =>
    /\ Reached(Snap!There)
    /\ got \subseteq Snap!Prints(Snap!There \cup {Top}) /\ Snap!Prints({Top}) \subseteq got

\* Whatever is as it was shown, with all folders above it, is not protected.
Together(S) == S \subseteq Unchanged /\ \A e \in S : Parent[e] \in S \cup {Top}
Cleared ==
  reviewed = "tree" /\ walking \in {"planned", "recapture", "move"} =>
    \A S \in SUBSET Entries : Together(S) => S \cap Protected = {}

\* What is about to be moved is what was shown.
Agreed(S) == S = shown /\ (reviewed = "tree" => \A f \in S : f.entry \notin Protected)
Ready ==
  /\ walking = "move" /\ undisturbed => Agreed(Snap!Prints(Snap!There \cup {Top}))
  /\ gone # Snap!Nothing /\ undisturbed => Agreed(gone)

WalkInv == WalkTyped /\ Rooted /\ Frames /\ Auditing /\ Rewalking /\ Cleared /\ Ready

\* The cardinality of the model is that of the library.
LEMMA SnapFinite ==
  (\A S : Snap!Cardinality(S) = Cardinality(S)) /\ (\A S : Snap!IsFiniteSet(S) <=> IsFiniteSet(S))
<1>1. \A S : Snap!IsFiniteSet(S) <=> IsFiniteSet(S)
  BY Zenon DEF Snap!IsFiniteSet, IsFiniteSet
<1>2. \A S : Snap!Cardinality(S) = Cardinality(S)
  BY <1>1, Zenon DEF Snap!Cardinality, Cardinality
<1> QED
  BY <1>1, <1>2

\* No entry is above itself: what is read with every folder is read as a whole.
LEMMA ReadWhole ==
  ASSUME Snap!FolderAssumption, NEW S \in SUBSET Entries, NEW R,
         \A e \in S : Parent[e] \in (S \cap R) \cup {Top} => e \in R,
         \A e \in S : Parent[e] \in S \cup {Top}
  PROVE  S \subseteq R
<1> SUFFICES ASSUME S \ R # {} PROVE FALSE
  OBVIOUS
<1>1. PICK e \in S \ R : Parent[e] \notin S \ R
  BY DEF Snap!FolderAssumption
<1> QED
  BY <1>1

LEMMA WalkBegins == ASSUME Snap!FolderAssumption, Snap!Init PROVE WalkInv
<1>1. /\ stamps \in [Entries \cup {Top} -> 0..1] /\ stamps[Top] = 1 /\ meddled = 0 /\ reviewed \in ReviewKinds
      /\ walking = "idle" /\ stack = <<>> /\ got = {} /\ shown = Snap!Nothing /\ undisturbed = TRUE /\ gone = Snap!Nothing
  BY DEF Snap!Init
<1>2. \A e \in Entries : stamps[e] # 0 => stamps[Parent[e]] # 0
  BY DEF Snap!Init, Snap!There
<1>3. Snap!Nothing \subseteq Fingerprint /\ \A f \in Snap!Nothing : f.stamp = -1
  BY DEF Snap!Nothing, Fingerprint
<1>4. IsFiniteSet({}) /\ Cardinality({}) = 0 /\ MaxEntries \in Nat
  BY FS_EmptySet DEF Snap!FolderAssumption
<1>5. WalkTyped
  BY <1>1, <1>3, <1>4 DEF WalkTyped, WalkPhases
<1> QED
  BY <1>1, <1>2, <1>5 DEF WalkInv, Rooted, Frames, Auditing, Rewalking, Cleared, Ready

\* The end of a walk without a result.
LEMMA WalkRefused ==
  ASSUME WalkInv, walking # "over", Snap!Refuse, UNCHANGED <<stamps, meddled, reviewed, reported, undisturbed, gone>>
  PROVE  WalkInv'
<1>1. walking' = "over" /\ stack' = <<>> /\ got' = got /\ shown' = shown
  BY DEF Snap!Refuse
<1>2. WalkTyped'
  BY <1>1 DEF WalkInv, WalkTyped, WalkPhases
<1>3. Rooted' /\ gone' = Snap!Nothing /\ Snap!Nothing' = Snap!Nothing
  BY <1>1 DEF WalkInv, Rooted, Snap!Nothing
<1> QED
  BY <1>1, <1>2, <1>3 DEF WalkInv, Frames, Auditing, Rewalking, Cleared, Ready, Snap!Nothing

\* The first step of a walk.
LEMMA WalkStarted ==
  ASSUME Snap!FolderAssumption, WalkInv, walking # "over", Snap!Start,
         UNCHANGED <<stamps, meddled, reviewed, gone>>
  PROVE  /\ stack' \in Seq(WalkFrame) /\ got' \subseteq Fingerprint /\ IsFiniteSet(got') /\ Cardinality(got') <= MaxEntries
         /\ \A f \in got' : f.stamp <= meddled + 1
         /\ got' = Snap!Prints({Top}) /\ Seen' = {Top} /\ Frames'
         /\ \A M \in SUBSET Snap!There : \A e \in M : Parent[e] \in (M \cap Seen') \cup {Top} =>
              \E n \in DOMAIN stack' : stack'[n].dir = Parent[e] /\ e \in stack'[n].opened
<1> DEFINE p == [entry |-> Top, stamp |-> stamps[Top]]
           f == [dir |-> Top, stamp |-> stamps[Top], opened |-> Snap!In(Top), read |-> {}]
<1>1. stack' = <<f>> /\ got' = {p} /\ Snap!Prints({Top}) = {p}
  BY DEF Snap!Start, Snap!Frame, Snap!Prints
<1>2. p \in Fingerprint /\ p.entry = Top /\ p.stamp <= meddled + 1
  BY DEF WalkInv, WalkTyped, Fingerprint
<1>3. f \in WalkFrame /\ f.dir = Top /\ f.opened = Snap!In(Top) /\ f.read = {}
  BY DEF WalkInv, WalkTyped, WalkFrame, Snap!In
<1> HIDE DEF p, f
<1>4. IsFiniteSet({p}) /\ Cardinality({p}) = 1 /\ MaxEntries \in Nat \ {0}
  BY FS_Singleton DEF Snap!FolderAssumption
<1>5. stack' \in Seq(WalkFrame) /\ DOMAIN stack' = {1} /\ stack'[1] = f
  BY <1>1, <1>3
<1>6. Seen' = {Top}
  BY <1>1, <1>2 DEF Seen
<1>7. Frames'
  BY <1>3, <1>5 DEF Frames
<1>8. ASSUME NEW M \in SUBSET Snap!There, NEW e \in M, Parent[e] \in (M \cap Seen') \cup {Top}
      PROVE  stack'[1].dir = Parent[e] /\ e \in stack'[1].opened
  <2>1. Parent[e] = Top
    BY <1>6, <1>8
  <2>2. e \in Snap!In(Top)
    BY <2>1 DEF Snap!In, Snap!There
  <2> QED
    BY <1>3, <1>5, <2>1, <2>2
<1>9. /\ got' \subseteq Fingerprint /\ IsFiniteSet(got') /\ Cardinality(got') <= MaxEntries
      /\ \A x \in got' : x.stamp <= meddled + 1
  BY <1>1, <1>2, <1>4
<1>10. 1 \in DOMAIN stack'
  BY <1>5
<1> QED
  BY <1>1, <1>5, <1>6, <1>7, <1>8, <1>9, <1>10, Zenon

LEMMA WalkPrepare == ASSUME Snap!FolderAssumption, WalkInv, Snap!Prepare PROVE WalkInv'
<1>1. /\ walking = "idle" /\ walking' = "capture" /\ Snap!Start
      /\ UNCHANGED <<stamps, meddled, reviewed, reported, shown, undisturbed, gone>>
  BY DEF Snap!Prepare, Snap!Order, Snap!disk
<1>2. WalkTyped'
  BY <1>1, WalkStarted DEF WalkInv, WalkTyped, WalkPhases
<1>3. Rooted' /\ Snap!Nothing' = Snap!Nothing /\ gone' = Snap!Nothing
  BY <1>1 DEF WalkInv, Rooted, Snap!Nothing
<1>4. Frames'
  BY <1>1, WalkStarted
<1> QED
  BY <1>1, <1>2, <1>3, <1>4 DEF WalkInv, Auditing, Rewalking, Cleared, Ready, Snap!Nothing

\* The walk looks at an entry.
LEMMA WalkReads ==
  ASSUME Snap!FolderAssumption, WalkInv, NEW e \in Entries, Snap!Next1(e) PROVE WalkInv'
<1>1. /\ walking \in {"capture", "audit", "recapture"} /\ stack # <<>> /\ walking # "over"
      /\ UNCHANGED <<stamps, meddled, reviewed, reported, undisturbed, gone>>
  BY DEF Snap!Next1, Snap!Walking, Snap!disk
<1>2. CASE Snap!Refuse
  BY <1>1, <1>2, WalkRefused
<1>3. ASSUME ~Snap!Refuse PROVE WalkInv'
  <2> DEFINE p == [entry |-> e, stamp |-> stamps[e]]
             last == stack[Len(stack)]
             more == [last EXCEPT !.read = @ \cup {e}]
             put == [stack EXCEPT ![Len(stack)] = more]
             f == [dir |-> e, stamp |-> stamps[e], opened |-> Snap!In(e), read |-> {}]
  <2>1. /\ stamps[e] # 0 /\ ~(Cardinality(got) >= MaxEntries) /\ Snap!Allowed(e)
        /\ walking' = walking /\ shown' = shown /\ got' = got \cup {p}
        /\ stack' = IF e \in Dirs THEN Append(put, f) ELSE put
    BY <1>3, SnapFinite DEF Snap!Next1, Snap!Prints, Snap!Put, Snap!Deepest, Snap!Last, Snap!Frame
  <2>2. Len(stack) \in DOMAIN stack /\ last \in WalkFrame /\ stack \in Seq(WalkFrame)
    BY <1>1 DEF WalkInv, WalkTyped
  <2>3. p \in Fingerprint /\ p.entry = e /\ p.stamp = stamps[e] /\ p.stamp <= meddled + 1
    BY DEF WalkInv, WalkTyped, Fingerprint
  <2>4. more \in WalkFrame /\ more.dir = last.dir /\ more.opened = last.opened /\ more.read = last.read \cup {e}
    BY <2>2 DEF WalkFrame
  <2>5. e \in Dirs => f \in WalkFrame /\ f.dir = e /\ f.opened = Snap!In(e) /\ f.read = {}
    BY DEF WalkFrame, Snap!In, WalkInv, WalkTyped
  <2> HIDE DEF p, more, f
  <2>6. /\ put \in Seq(WalkFrame) /\ Len(put) = Len(stack) /\ DOMAIN put = DOMAIN stack
        /\ \A n \in DOMAIN stack : put[n] = IF n = Len(stack) THEN more ELSE stack[n]
    BY <2>2, <2>4
  <2> HIDE DEF last, put
  <2>7. /\ stack' \in Seq(WalkFrame) /\ DOMAIN stack \subseteq DOMAIN stack'
        /\ \A n \in DOMAIN stack : stack'[n] = put[n]
        /\ \A n \in DOMAIN stack' : n \in DOMAIN stack \/ (e \in Dirs /\ stack'[n] = f)
        /\ e \in Dirs => \E n \in DOMAIN stack' : stack'[n] = f
    <3>1. CASE e \notin Dirs
      BY <2>1, <2>6, <3>1
    <3>2. CASE e \in Dirs
      <4>1. stack' = Append(put, f) /\ f \in WalkFrame
        BY <2>1, <2>5, <3>2
      <4>2. /\ stack' \in Seq(WalkFrame) /\ Len(stack') = Len(put) + 1 /\ stack'[Len(put) + 1] = f
            /\ \A n \in 1..Len(put) : stack'[n] = put[n]
        BY <2>6, <4>1
      <4>3. DOMAIN stack' = 1..(Len(put) + 1) /\ DOMAIN stack = 1..Len(put) /\ Len(put) \in Nat
        BY <2>2, <2>6, <4>2
      <4> QED
        BY <3>2, <4>2, <4>3
    <3> QED
      BY <3>1, <3>2
  <2>8. Seen' = Seen \cup {e}
    BY <2>1, <2>3 DEF Seen
  <2>9. \A n \in DOMAIN stack : stack'[n].dir = stack[n].dir /\ stack'[n].opened = stack[n].opened
    BY <2>4, <2>6, <2>7 DEF last
  <2>10. Frames'
    <3>1. \A n \in DOMAIN stack : stack'[n].read \subseteq stack[n].read \cup {e}
      BY <2>4, <2>6, <2>7 DEF last
    <3>2. \A n \in DOMAIN stack' : stack'[n].read \subseteq Seen \cup {e}
      BY <2>5, <2>7, <3>1 DEF WalkInv, Frames
    <3> QED
      BY <2>8, <3>2 DEF Frames
  <2>11. WalkTyped'
    <3>1. IsFiniteSet(got') /\ Cardinality(got') <= MaxEntries
      <4>1. IsFiniteSet(got) /\ Cardinality(got) \in Nat /\ MaxEntries \in Nat
        BY FS_CardinalityType DEF WalkInv, WalkTyped, Snap!FolderAssumption
      <4>2. IsFiniteSet(got') /\ Cardinality(got') = IF p \in got THEN Cardinality(got) ELSE Cardinality(got) + 1
        BY <2>1, <4>1, FS_AddElement
      <4> QED
        BY <2>1, <4>1, <4>2
    <3>2. got' \subseteq Fingerprint /\ \A x \in got' : x.stamp <= meddled + 1
      BY <2>1, <2>3 DEF WalkInv, WalkTyped
    <3> QED
      BY <1>1, <2>1, <2>7, <3>1, <3>2 DEF WalkInv, WalkTyped, Fingerprint
  <2>12. ASSUME NEW M \in SUBSET Snap!There, Reached(M), NEW x \in M, Parent[x] \in (M \cap Seen') \cup {Top}
         PROVE  x \in Seen' \/ \E n \in DOMAIN stack' : stack'[n].dir = Parent[x] /\ x \in stack'[n].opened
    <3>1. CASE Parent[x] \in (M \cap Seen) \cup {Top}
      BY <2>7, <2>8, <2>9, <2>12, <3>1 DEF Reached
    <3>2. CASE Parent[x] = e
      <4>1. e \in Dirs /\ x \in Snap!In(e)
        BY <3>2 DEF Snap!FolderAssumption, Snap!There, Snap!In
      <4> QED
        BY <2>5, <2>7, <3>2, <4>1
    <3> QED
      BY <2>8, <2>12, <3>1, <3>2
  <2>13. Unchanged' = Unchanged /\ Snap!There' = Snap!There /\ Unchanged \subseteq Snap!There
    BY <1>1, <2>1 DEF Unchanged, Snap!There
  <2>14. Auditing'
    <3>1. walking = "audit" => e \notin Protected
      BY <2>1 DEF Snap!Allowed
    <3>2. walking = "audit" => Reached(Unchanged)'
      BY <2>12, <2>13 DEF WalkInv, Auditing, Reached
    <3> QED
      BY <2>1, <2>8, <3>1, <3>2 DEF WalkInv, Auditing
  <2>15. Rewalking'
    <3>1. walking = "recapture" /\ undisturbed => Reached(Snap!There)'
      BY <2>12, <2>13 DEF WalkInv, Rewalking, Reached
    <3>2. Snap!Prints(Snap!There \cup {Top})' = Snap!Prints(Snap!There \cup {Top}) /\ Snap!Prints({Top})' = Snap!Prints({Top})
      BY <1>1 DEF Snap!Prints, Snap!There
    <3>3. p \in Snap!Prints(Snap!There \cup {Top})
      BY <2>1 DEF p, Snap!Prints, Snap!There
    <3>4. walking' = walking /\ undisturbed' = undisturbed
      BY <1>1, <2>1
    <3> HIDE DEF Seen
    <3> QED
      BY <2>1, <3>1, <3>2, <3>3, <3>4 DEF WalkInv, Rewalking
  <2>16. Rooted' /\ Cleared' /\ Ready'
    <3>1. Rooted' /\ gone' = Snap!Nothing /\ Snap!Nothing' = Snap!Nothing
      BY <1>1, <2>1 DEF WalkInv, Rooted, Snap!Nothing
    <3>2. Cleared'
      BY <1>1, <2>1, <2>13 DEF WalkInv, Cleared, Together
    <3>3. Ready'
      BY <1>1, <2>1, <3>1 DEF Ready
    <3> QED
      BY <3>1, <3>2, <3>3
  <2> QED
    BY <2>10, <2>11, <2>14, <2>15, <2>16 DEF WalkInv
<1> QED
  BY <1>2, <1>3

\* A folder is through.
LEMMA WalkCloses == ASSUME Snap!FolderAssumption, WalkInv, Snap!Close PROVE WalkInv'
<1>1. /\ walking \in {"capture", "audit", "recapture"} /\ stack # <<>> /\ walking # "over"
      /\ UNCHANGED <<stamps, meddled, reviewed, reported, undisturbed, gone>>
  BY DEF Snap!Close, Snap!Walking, Snap!disk
<1>2. CASE Snap!Refuse
  BY <1>1, <1>2, WalkRefused
<1>3. ASSUME ~Snap!Refuse PROVE WalkInv'
  <2> DEFINE last == stack[Len(stack)]
  <2>1. /\ last.opened \cap Snap!In(last.dir) \subseteq last.read
        /\ walking' = walking /\ got' = got /\ shown' = shown /\ stack' = SubSeq(stack, 1, Len(stack) - 1)
    BY <1>3 DEF Snap!Close, Snap!Deepest, Snap!Last, Snap!Front
  <2>2. stack \in Seq(WalkFrame) /\ Len(stack) \in Nat \ {0}
    BY <1>1 DEF WalkInv, WalkTyped
  <2>3. /\ stack' \in Seq(WalkFrame) /\ DOMAIN stack' = 1..(Len(stack) - 1) /\ DOMAIN stack = 1..Len(stack)
        /\ \A n \in DOMAIN stack' : stack'[n] = stack[n]
    BY <2>1, <2>2
  <2>4. last.read \subseteq Seen
    BY <2>2 DEF WalkInv, Frames
  <2> HIDE DEF last
  <2>5. Seen' = Seen
    BY <2>1 DEF Seen
  <2>6. ASSUME NEW M \in SUBSET Snap!There, Reached(M), NEW x \in M, Parent[x] \in (M \cap Seen') \cup {Top}, x \notin Seen'
        PROVE  \E n \in DOMAIN stack' : stack'[n].dir = Parent[x] /\ x \in stack'[n].opened
    <3>1. PICK n \in DOMAIN stack : stack[n].dir = Parent[x] /\ x \in stack[n].opened
      BY <2>5, <2>6 DEF Reached
    <3>2. n # Len(stack)
      <4> SUFFICES ASSUME n = Len(stack) PROVE FALSE
        OBVIOUS
      <4>1. x \in last.opened /\ x \in Snap!In(last.dir)
        BY <3>1 DEF last, Snap!In, Snap!There
      <4> QED
        BY <2>1, <2>4, <2>5, <2>6, <4>1
    <3> QED
      BY <2>2, <2>3, <3>1, <3>2
  <2>7. Unchanged' = Unchanged /\ Snap!There' = Snap!There /\ Unchanged \subseteq Snap!There
    BY <1>1, <2>1 DEF Unchanged, Snap!There
  <2>8. WalkTyped'
    BY <1>1, <2>1, <2>3 DEF WalkInv, WalkTyped
  <2>9. Frames'
    BY <2>3, <2>5 DEF WalkInv, Frames
  <2>10. walking = "audit" => Reached(Unchanged)'
    BY <2>6, <2>7 DEF WalkInv, Auditing, Reached
  <2>11. walking = "recapture" /\ undisturbed => Reached(Snap!There)'
    BY <2>6, <2>7 DEF WalkInv, Rewalking, Reached
  <2>12. Snap!Prints(Snap!There \cup {Top})' = Snap!Prints(Snap!There \cup {Top}) /\ Snap!Prints({Top})' = Snap!Prints({Top})
    BY <1>1 DEF Snap!Prints, Snap!There
  <2>13. Auditing' /\ Rewalking'
    BY <1>1, <2>1, <2>5, <2>10, <2>11, <2>12 DEF WalkInv, Auditing, Rewalking
  <2>14. Rooted' /\ gone' = Snap!Nothing /\ Snap!Nothing' = Snap!Nothing
    BY <1>1, <2>1 DEF WalkInv, Rooted, Snap!Nothing
  <2>15. Cleared' /\ Ready'
    BY <1>1, <2>1, <2>7, <2>14 DEF WalkInv, Cleared, Together, Ready
  <2> QED
    BY <2>8, <2>9, <2>13, <2>14, <2>15 DEF WalkInv
<1> QED
  BY <1>2, <1>3

\* The walk is through, and the next phase begins.
LEMMA WalkCaptured == ASSUME Snap!FolderAssumption, WalkInv, Snap!Captured PROVE WalkInv'
<1>1. /\ walking = "capture" /\ stack = <<>> /\ walking # "over"
      /\ UNCHANGED <<stamps, meddled, reviewed, reported, undisturbed, gone>>
  BY DEF Snap!Captured, Snap!disk
<1>2. CASE Snap!Refuse
  BY <1>1, <1>2, WalkRefused
<1>3. ASSUME ~Snap!Refuse PROVE WalkInv'
  <2>1. /\ shown' = got
        /\ \/ reviewed = "tree" /\ walking' = "audit" /\ Snap!Start
           \/ reviewed # "tree" /\ walking' = "planned" /\ UNCHANGED <<stack, got>>
    BY <1>1, <1>3 DEF Snap!Captured, Snap!Order, Snap!walk
  <2>2. WalkTyped'
    BY <1>1, <2>1, WalkStarted DEF WalkInv, WalkTyped, WalkPhases
  <2>3. Rooted' /\ gone' = Snap!Nothing /\ Snap!Nothing' = Snap!Nothing
    BY <1>1, <2>1 DEF WalkInv, Rooted, Snap!Nothing
  <2>4. Frames'
    <3>1. CASE Snap!Start
      BY <1>1, <3>1, WalkStarted
    <3>2. CASE UNCHANGED <<stack, got>>
      BY <1>1, <3>2 DEF Frames
    <3> QED
      BY <2>1, <3>1, <3>2
  <2>5. Auditing'
    <3>1. SUFFICES ASSUME walking' = "audit" PROVE Reached(Unchanged)' /\ Seen' \cap Protected = {}
      BY DEF Auditing
    <3>2. Unchanged' \in SUBSET Snap!There /\ Seen' = {Top}
      BY <1>1, <2>1, <3>1, WalkStarted DEF Unchanged, Snap!There
    <3>3. Reached(Unchanged)'
      BY <1>1, <2>1, <3>1, <3>2, WalkStarted DEF Reached
    <3> QED
      BY <3>2, <3>3 DEF Snap!FolderAssumption
  <2> QED
    BY <1>1, <2>1, <2>2, <2>3, <2>4, <2>5 DEF WalkInv, Rewalking, Cleared, Ready
<1> QED
  BY <1>2, <1>3

LEMMA WalkAudited == ASSUME Snap!FolderAssumption, WalkInv, Snap!Audited PROVE WalkInv'
<1>1. /\ walking = "audit" /\ stack = <<>> /\ walking' = "planned"
      /\ UNCHANGED <<stamps, meddled, reviewed, reported, stack, got, shown, undisturbed, gone>>
  BY DEF Snap!Audited, Snap!disk, Snap!walk, Snap!Order
<1>2. WalkTyped'
  BY <1>1 DEF WalkInv, WalkTyped, WalkPhases
<1>3. Rooted' /\ gone' = Snap!Nothing /\ Snap!Nothing' = Snap!Nothing
  BY <1>1 DEF WalkInv, Rooted, Snap!Nothing
<1>4. ASSUME NEW S \in SUBSET Entries, Together(S) PROVE S \cap Protected = {}
  <2>1. \A e \in S : Parent[e] \in S \cup {Top}
    BY <1>4 DEF Together
  <2>2. \A e \in S : Parent[e] \in (S \cap Seen) \cup {Top} => e \in Seen
    BY <1>1, <1>4 DEF WalkInv, Auditing, Reached, Together
  <2>3. S \subseteq Seen
    BY <2>1, <2>2, ReadWhole
  <2> QED
    BY <1>1, <2>3 DEF WalkInv, Auditing
<1>5. Cleared'
  BY <1>1, <1>4 DEF Cleared, Together, Unchanged
<1>6. Frames'
  BY <1>1 DEF Frames
<1> QED
  BY <1>1, <1>2, <1>3, <1>5, <1>6 DEF WalkInv, Auditing, Rewalking, Ready

LEMMA WalkRevalidates == ASSUME Snap!FolderAssumption, WalkInv, Snap!Revalidate PROVE WalkInv'
<1>1. /\ walking = "planned" /\ walking' = "recapture" /\ Snap!Start /\ undisturbed' = TRUE /\ walking # "over"
      /\ UNCHANGED <<stamps, meddled, reviewed, reported, shown, gone>>
  BY DEF Snap!Revalidate, Snap!disk
<1>2. WalkTyped'
  BY <1>1, WalkStarted DEF WalkInv, WalkTyped, WalkPhases
<1>3. Rooted' /\ gone' = Snap!Nothing /\ Snap!Nothing' = Snap!Nothing
  BY <1>1 DEF WalkInv, Rooted, Snap!Nothing
<1>4. Rewalking'
  <2>1. Snap!There' = Snap!There /\ got' = Snap!Prints({Top})
    BY <1>1, WalkStarted DEF Snap!There
  <2>2. Reached(Snap!There)'
    BY <1>1, <2>1, WalkStarted DEF Reached
  <2>3. /\ Snap!Prints({Top})' = Snap!Prints({Top})
        /\ Snap!Prints(Snap!There \cup {Top})' = Snap!Prints(Snap!There \cup {Top})
        /\ Snap!Prints({Top}) \subseteq Snap!Prints(Snap!There \cup {Top})
    BY <1>1 DEF Snap!Prints, Snap!There
  <2> QED
    BY <2>1, <2>2, <2>3 DEF Rewalking
<1>5. Frames' /\ Unchanged' = Unchanged
  BY <1>1, WalkStarted DEF Unchanged
<1>6. Cleared'
  BY <1>1, <1>5 DEF WalkInv, Cleared, Together
<1> QED
  BY <1>1, <1>2, <1>3, <1>4, <1>5, <1>6 DEF WalkInv, Auditing, Ready

\* What was read just now is what was shown, and nothing else is there.
LEMMA WalkRechecks == ASSUME Snap!FolderAssumption, WalkInv, Snap!Recheck PROVE WalkInv'
<1>1. /\ walking = "recapture" /\ stack = <<>> /\ walking # "over"
      /\ UNCHANGED <<stamps, meddled, reviewed, reported, undisturbed, gone>>
  BY DEF Snap!Recheck, Snap!disk
<1>2. CASE Snap!Refuse
  BY <1>1, <1>2, WalkRefused
<1>3. ASSUME ~Snap!Refuse PROVE WalkInv'
  <2> DEFINE T == Snap!There
             P == Snap!Prints(Snap!There \cup {Top})
  <2>1. got = shown /\ walking' = "move" /\ UNCHANGED <<stack, got, shown>>
    BY <1>3 DEF Snap!Recheck, Snap!Same, Snap!walk
  <2>2. WalkTyped'
    BY <1>1, <2>1 DEF WalkInv, WalkTyped, WalkPhases
  <2>3. Rooted' /\ gone' = Snap!Nothing /\ Snap!Nothing' = Snap!Nothing
    BY <1>1, <2>1 DEF WalkInv, Rooted, Snap!Nothing
  <2>4. Frames'
    BY <2>1 DEF WalkInv, Frames, Seen
  <2>5. Unchanged' = Unchanged /\ P' = P
    BY <1>1, <2>1 DEF Unchanged, Snap!Prints, Snap!There
  <2>6. Cleared'
    BY <1>1, <2>1, <2>5 DEF WalkInv, Cleared, Together
  <2>7. ASSUME undisturbed PROVE Agreed(P)
    <3>1. T \in SUBSET Entries /\ \A e \in T : Parent[e] \in T \cup {Top}
      BY DEF WalkInv, Rooted, Snap!There, Snap!FolderAssumption
    <3>2. \A e \in T : Parent[e] \in (T \cap Seen) \cup {Top} => e \in Seen
      BY <1>1, <2>7 DEF WalkInv, Rewalking, Reached
    <3>3. T \subseteq Seen
      <4> HIDE DEF T
      <4> QED
        BY <3>1, <3>2, ReadWhole
    <3>4. got \subseteq P /\ Snap!Prints({Top}) \subseteq got
      BY <1>1, <2>7 DEF WalkInv, Rewalking
    <3>5. P \subseteq got
      <4>1. ASSUME NEW x \in T \cup {Top} PROVE [entry |-> x, stamp |-> stamps[x]] \in got
        <5>1. CASE x = Top
          BY <3>4, <5>1 DEF Snap!Prints
        <5>2. CASE x \in T
          <6>1. PICK f \in got : f.entry = x
            BY <3>3, <5>2 DEF Seen
          <6>2. PICK y \in T \cup {Top} : f = [entry |-> y, stamp |-> stamps[y]]
            BY <3>4 DEF Snap!Prints
          <6> QED
            BY <6>1, <6>2
        <5> QED
          BY <4>1, <5>1, <5>2
      <4> QED
        BY <4>1 DEF Snap!Prints
    <3>6. P = shown
      BY <2>1, <3>4, <3>5
    <3>7. ASSUME reviewed = "tree", NEW f \in P PROVE f.entry \notin Protected
      <4>1. T \subseteq Unchanged
        BY <3>6 DEF Unchanged, Snap!Prints, Snap!There
      <4>2. Together(T)
        BY <3>1, <4>1 DEF Together
      <4>3. T \cap Protected = {}
        BY <1>1, <3>1, <3>7, <4>2 DEF WalkInv, Cleared
      <4>4. f.entry \in T \cup {Top}
        BY <3>7 DEF Snap!Prints
      <4> QED
        BY <4>3, <4>4 DEF Snap!FolderAssumption
    <3> QED
      BY <3>6, <3>7 DEF Agreed
  <2>8. Ready'
    BY <1>1, <2>1, <2>3, <2>5, <2>7 DEF Ready, Agreed
  <2> QED
    BY <2>1, <2>2, <2>3, <2>4, <2>6, <2>8 DEF WalkInv, Auditing, Rewalking
<1> QED
  BY <1>2, <1>3

LEMMA WalkMoves == ASSUME Snap!FolderAssumption, WalkInv, Snap!Move PROVE WalkInv'
<1>1. /\ walking = "move" /\ walking' = "over" /\ gone' = Snap!Prints(Snap!There \cup {Top})
      /\ UNCHANGED <<meddled, reviewed, reported, stack, got, shown, undisturbed>>
      /\ stamps' = [x \in Entries \cup {Top} |-> 0]
  BY DEF Snap!Move, Snap!walk, WalkInv, WalkTyped
<1>2. stamps' \in [Entries \cup {Top} -> Nat] /\ \A x \in Entries \cup {Top} : stamps'[x] = 0
  BY <1>1
<1>3. WalkTyped'
  BY <1>1, <1>2 DEF WalkInv, WalkTyped, WalkPhases
<1>4. Rooted' /\ Frames'
  BY <1>1, <1>2 DEF WalkInv, Rooted, Frames, Seen
<1>5. Ready'
  BY <1>1 DEF WalkInv, Ready, Agreed
<1> QED
  BY <1>1, <1>3, <1>4, <1>5 DEF WalkInv, Auditing, Rewalking, Cleared

\* Others change the folder: a time is never seen again.
LEMMA WalkChanged == ASSUME Snap!FolderAssumption, WalkInv, Snap!Change PROVE WalkInv'
<1>1. /\ meddled' = meddled + 1 /\ undisturbed' = FALSE /\ stamps[Top] # 0
      /\ UNCHANGED <<reviewed, reported, walking, stack, got, shown, gone>>
  BY DEF Snap!Change, Snap!walk
<1>2. PICK e \in Entries :
        \/ stamps[e] # 0 /\ stamps' = Snap!Stamped({e})
        \/ stamps[Parent[e]] # 0 /\ stamps' = Snap!Stamped({e, Parent[e]})
        \/ /\ stamps[e] # 0
           /\ stamps' = [x \in DOMAIN stamps |-> IF x \in Snap!Under(e) THEN 0 ELSE Snap!Stamped({Parent[e]})[x]]
  BY DEF Snap!Change
<1>3. DOMAIN stamps = Entries \cup {Top} /\ meddled \in Nat /\ \A x \in Entries \cup {Top} : stamps[x] \in Nat
  BY DEF WalkInv, WalkTyped
<1>4. \A x \in Entries : Parent[x] \in Entries \cup {Top}
  BY DEF Snap!FolderAssumption
<1>5. /\ stamps' \in [Entries \cup {Top} -> Nat]
      /\ \A x \in Entries \cup {Top} : stamps'[x] \in {0, stamps[x], meddled + 2}
      /\ \A x \in Entries : stamps'[x] # 0 => stamps'[Parent[x]] # 0
      /\ stamps'[Top] # 0
  <2>1. \A x \in Entries : stamps[x] # 0 => stamps[Parent[x]] # 0
    BY DEF WalkInv, Rooted
  <2>2. CASE stamps[e] # 0 /\ stamps' = Snap!Stamped({e})
    BY <1>1, <1>3, <1>4, <2>1, <2>2 DEF Snap!Stamped
  <2>3. CASE stamps[Parent[e]] # 0 /\ stamps' = Snap!Stamped({e, Parent[e]})
    BY <1>1, <1>3, <1>4, <2>1, <2>3 DEF Snap!Stamped
  <2>4. CASE /\ stamps[e] # 0
             /\ stamps' = [x \in DOMAIN stamps |-> IF x \in Snap!Under(e) THEN 0 ELSE Snap!Stamped({Parent[e]})[x]]
    <3>1. \A x \in Entries : x \notin Snap!Under(e) => Parent[x] \notin Snap!Under(e)
      BY DEF Snap!Under
    <3>2. Top \notin Snap!Under(e)
      BY DEF Snap!Under, Snap!FolderAssumption
    <3>3. \A x \in Entries \cup {Top} :
            stamps'[x] = IF x \in Snap!Under(e) THEN 0 ELSE IF x = Parent[e] THEN meddled + 2 ELSE stamps[x]
      BY <1>3, <2>4 DEF Snap!Stamped
    <3>4. stamps' \in [Entries \cup {Top} -> Nat]
      <4>1. DOMAIN stamps' = Entries \cup {Top} /\ stamps' = [x \in DOMAIN stamps' |-> stamps'[x]]
        BY <1>3, <2>4
      <4>2. \A x \in Entries \cup {Top} : stamps'[x] \in Nat
        BY <1>3, <3>3
      <4> QED
        BY <4>1, <4>2
    <3>5. \A x \in Entries \cup {Top} : stamps'[x] \in {0, stamps[x], meddled + 2}
      BY <3>3
    <3>6. ASSUME NEW x \in Entries, stamps'[x] # 0 PROVE stamps'[Parent[x]] # 0
      <4>1. x \notin Snap!Under(e) /\ Parent[x] \notin Snap!Under(e)
        BY <3>1, <3>3, <3>6
      <4>2. stamps[x] # 0
        BY <2>1, <2>4, <3>3, <3>6, <4>1
      <4> QED
        BY <1>3, <1>4, <2>1, <3>3, <4>1, <4>2
    <3>7. stamps'[Top] # 0
      BY <1>1, <1>3, <3>2, <3>3
    <3> QED
      BY <3>4, <3>5, <3>6, <3>7
  <2> QED
    BY <1>2, <2>2, <2>3, <2>4
<1>6. WalkTyped'
  <2>1. \A x \in Entries \cup {Top} : stamps'[x] <= meddled' + 1
    <3>1. \A x \in Entries \cup {Top} : stamps[x] <= meddled + 1
      BY DEF WalkInv, WalkTyped
    <3> QED
      BY <1>1, <1>3, <1>5, <3>1
  <2>2. \A f \in got' \cup shown' : f.stamp <= meddled' + 1
    <3>1. \A f \in got \cup shown : f.stamp <= meddled + 1 /\ f.stamp \in Int
      BY DEF WalkInv, WalkTyped, Fingerprint
    <3> QED
      BY <1>1, <1>3, <3>1
  <2>3. meddled' \in Nat
    BY <1>1, <1>3
  <2> QED
    BY <1>1, <1>5, <2>1, <2>2, <2>3 DEF WalkInv, WalkTyped, Fingerprint
<1>7. Unchanged' \subseteq Unchanged
  <2> SUFFICES ASSUME NEW x \in Entries, stamps'[x] # 0, [entry |-> x, stamp |-> stamps'[x]] \in shown PROVE x \in Unchanged
    BY <1>1 DEF Unchanged
  <2>1. stamps'[x] <= meddled + 1
    BY <1>1 DEF WalkInv, WalkTyped
  <2>2. stamps'[x] = stamps[x]
    BY <1>3, <1>5, <2>1
  <2> QED
    BY <2>2 DEF Unchanged
<1>8. Seen' = Seen
  BY <1>1 DEF Seen
<1>9. Auditing'
  <2>1. Reached(Unchanged) => Reached(Unchanged)'
    BY <1>1, <1>7, <1>8 DEF Reached
  <2> QED
    BY <1>1, <1>8, <2>1 DEF WalkInv, Auditing
<1>10. Cleared'
  BY <1>1, <1>7 DEF WalkInv, Cleared, Together
<1>11. Rooted' /\ Frames'
  BY <1>1, <1>5, <1>8 DEF WalkInv, Rooted, Frames, Snap!Nothing
<1> QED
  BY <1>1, <1>6, <1>9, <1>10, <1>11 DEF WalkInv, Rewalking, Ready

LEMMA WalkSteps == ASSUME Snap!FolderAssumption, WalkInv, [Snap!Next]_(Snap!vars) PROVE WalkInv'
<1>1. CASE UNCHANGED Snap!vars
  <2>1. UNCHANGED <<stamps, meddled, reviewed, walking, stack, got, shown, undisturbed, gone>>
    BY <1>1 DEF Snap!vars, Snap!disk, Snap!walk
  <2>2. Seen' = Seen /\ Unchanged' = Unchanged /\ Snap!There' = Snap!There /\ Snap!Nothing' = Snap!Nothing
    BY <2>1 DEF Seen, Unchanged, Snap!There, Snap!Nothing
  <2>3. \A M : Snap!Prints(M)' = Snap!Prints(M)
    BY <2>1 DEF Snap!Prints
  <2>4. WalkTyped' /\ Rooted' /\ Frames'
    BY <2>1, <2>2 DEF WalkInv, WalkTyped, Rooted, Frames
  <2>5. Auditing' /\ Cleared'
    BY <2>1, <2>2 DEF WalkInv, Auditing, Reached, Cleared, Together
  <2>6. Rewalking'
    BY <2>1, <2>2 DEF WalkInv, Rewalking, Reached, Snap!Prints, Snap!There
  <2>7. Ready'
    BY <2>1, <2>2 DEF WalkInv, Ready, Agreed, Snap!Prints, Snap!There
  <2> QED
    BY <2>4, <2>5, <2>6, <2>7 DEF WalkInv
<1>2. CASE Snap!Cancel
  BY <1>2, WalkRefused DEF Snap!Cancel, Snap!Walking, Snap!disk
<1> QED
  BY <1>1, <1>2, WalkReads, WalkCloses, WalkPrepare, WalkCaptured, WalkAudited, WalkRevalidates,
     WalkRechecks,
     WalkMoves, WalkChanged DEF Snap!Next

\* What the invariant means for the properties of the model.
LEMMA WalkTypes == ASSUME Snap!FolderAssumption PROVE WalkInv => Snap!TypeOK
<1> SUFFICES ASSUME WalkInv PROVE Snap!TypeOK
  OBVIOUS
<1>1. \A n \in DOMAIN stack : stack[n] \in WalkFrame
  BY DEF WalkInv, WalkTyped
<1>2. reviewed \in Snap!AllKinds
  BY DEF WalkInv, WalkTyped, Snap!FolderAssumption
<1> QED
  BY <1>1, <1>2, SnapFinite DEF WalkInv, WalkTyped, WalkFrame, Snap!TypeOK, Snap!Folders

LEMMA FoldersAgree == ASSUME Snap!FolderAssumption PROVE WalkInv => Snap!ReviewedFolderMoves
BY DEF WalkInv, Ready, Agreed, Snap!ReviewedFolderMoves

\* What goes to the trash with a folder is what the plan showed, and nothing
\* protected, for any tree and any changes before the last walk
\* (bloomsweepy-core/src/actions.rs:230-273, 560-656, 696-859).
THEOREM FolderSafety ==
  ASSUME Snap!FolderAssumption
  PROVE  Snap!Spec => [](Snap!TypeOK /\ Snap!ReviewedFolderMoves)
<1>1. Snap!Init => WalkInv
  BY WalkBegins
<1>2. WalkInv /\ [Snap!Next]_(Snap!vars) => WalkInv'
  BY WalkSteps
<1>3. WalkInv => Snap!TypeOK /\ Snap!ReviewedFolderMoves
  BY WalkTypes, FoldersAgree
<1> QED
  BY <1>1, <1>2, <1>3, PTL DEF Snap!Spec

-----------------------------------------------------------------------------
(* The files of a conversation in the application (NativeFiles), for any     *)
(* commands and tool calls, selections and changes of the mode.              *)

CONSTANTS Jobs, Selections, NItems, MaxJobs, MaxModes
VARIABLES mode, epoch, turning, tokens, access, ws, chatSlot, doing, ids, begun

Chat == INSTANCE NativeFiles WITH
  MaxChanges <- MaxModes, change <- turning, slot <- chatSlot, job <- doing, started <- begun

ChatStages ==
  {"begin", "slot", "register", "admit", "work", "store", "name", "copy", "verify", "plan", "choose", "publish",
   "end", "claim", "next", "item", "moved"}
ChatKinds ==
  {"list", "open", "scan", "named", "select", "prepare", "scanEmpty", "selectEmpty", "confirm", "confirmEmpty"}
ChatPlans == {0} \cup (Nat \X (Selections \cup {"none"} \cup BOOLEAN))
ChatJob ==
  [at : ChatStages, kind : ChatKinds, bind : Chat!Bindings, stop : BOOLEAN, root : Chat!Scopes,
   plan : ChatPlans, left : Int]
Opened == [kind : {"volumes"}, bind : Chat!Bindings, root : Chat!Scopes]
NoList == Chat!None

\* A binding is of this mode or of an earlier one.
InForce(b) == b \in Chat!Bindings /\ b.epoch <= epoch /\ (b.epoch = epoch => b.mode = mode)

ChatTyped ==
  /\ mode \in Chat!Modes /\ epoch \in 0..MaxModes /\ turning \in {"flag", "access", "files", "done"}
  /\ tokens \subseteq Jobs /\ chatSlot \in Jobs \cup {Chat!Free}
  /\ access = NoList \/ (access \in Opened /\ InForce(access.bind))
  /\ ws \in [Chat!Families -> Chat!Lists \cup {NoList}]
  /\ \A f \in Chat!Families : ws[f] # NoList /\ ws[f].bound # NoList => InForce(ws[f].bound)
  /\ doing \in [Jobs -> ChatJob \cup {Chat!Idle}]
  /\ \A j \in Jobs : doing[j] # Chat!Idle => InForce(doing[j].bind)
  /\ ids \in Nat /\ begun \in 0..MaxJobs

\* A confirmation before its claim, and a job that works on a list of its family.
Confirming(r) == r.at \in {"slot", "register", "claim"} /\ r.kind \in {"confirm", "confirmEmpty"}
Listing(r) ==
  /\ r.at \in {"name", "copy", "verify", "plan", "publish"}
  /\ r.kind \in {"scan", "named", "select", "scanEmpty", "selectEmpty"}

\* Only confirmations are at a claim, neither they nor reviews publish a list.
OfItsKind(r) ==
  /\ r.at = "claim" => r.kind \in {"confirm", "confirmEmpty"}
  /\ r.at \in {"admit", "work", "store", "name", "choose", "publish"} => r.kind \notin {"prepare", "confirm", "confirmEmpty"}

\* What a confirmation names was there when it began.
Named ==
  \A j \in Jobs :
    /\ OfItsKind(doing[j])
    /\ Confirming(doing[j]) =>
         doing[j].plan[1] \in 1..ids /\ (doing[j].plan[2] = TRUE => doing[j].bind.mode = "full_access")

\* The plan it names is not bound again to a later permission: what is bound now was
\* listed by a job that began no later than the confirmation.
Names(j, w) == w # NoList /\ w.plan.id = doing[j].plan[1]
BoundBefore ==
  \A j, k \in Jobs :
    /\ Confirming(doing[j]) /\ Listing(doing[k])
    /\ Chat!FamilyOf(doing[j].kind) = Chat!FamilyOf(doing[k].kind)
    /\ Names(j, ws[Chat!FamilyOf(doing[j].kind)])
    => doing[k].bind.epoch <= doing[j].bind.epoch
NamesCurrent ==
  \A j \in Jobs :
    LET w == ws[Chat!FamilyOf(doing[j].kind)] IN
      Confirming(doing[j]) /\ Names(j, w) /\ w.bound # NoList /\ w.bound.epoch = epoch => doing[j].bind.epoch = epoch

\* A confirmation is registered before its claim, so a change of the mode reaches it;
\* what it did not reach moves under the present permission.
Registered == \A j \in Jobs : doing[j].at \in {"claim", "next", "item"} => j \in tokens \/ doing[j].stop
UnderPermission ==
  \A j \in Jobs :
    doing[j].at \in {"next", "item"} /\ ~doing[j].stop /\ turning # "flag" => doing[j].bind.epoch = epoch

\* What is bound is forgotten with the mode it was bound under.
Forgotten ==
  /\ turning = "done" => \A f \in Chat!Families : ws[f] # NoList /\ ws[f].bound # NoList => ws[f].bound.epoch = epoch
  /\ turning \in {"files", "done"} /\ access # NoList => access.bind.epoch = epoch

ChatInv ==
  ChatTyped /\ Named /\ BoundBefore /\ NamesCurrent /\ Registered /\ UnderPermission /\ Forgotten

\* What is nothing, and what is not.
LEMMA ChatNothing ==
  /\ Chat!Idle.at = "idle" /\ \A r \in ChatJob : r # Chat!Idle /\ r.at # "idle"
  /\ \A b \in Chat!Bindings : b # NoList /\ b.epoch \in Nat
  /\ \A w \in Chat!Lists : w # NoList /\ w.bound \in Chat!Bindings \cup {NoList} /\ w.plan \in Chat!Plans
  /\ \A p \in Chat!Plans : p.id \in Nat /\ (p = Chat!NoPlan <=> p.id = 0)
  /\ Chat!NoPlan \in Chat!Plans /\ Chat!NoPlan.id = 0
<1>1. Chat!Idle.at = "idle" /\ \A r \in ChatJob : r # Chat!Idle /\ r.at # "idle"
  BY DEF Chat!Idle, ChatJob, ChatStages
<1>2. \A b \in Chat!Bindings : b # NoList /\ b.epoch \in Nat
  BY DEF Chat!Bindings, NoList, Chat!None
<1>3. \A w \in Chat!Lists : w # NoList /\ w.bound \in Chat!Bindings \cup {NoList} /\ w.plan \in Chat!Plans
  BY DEF Chat!Lists, NoList, Chat!None
<1>4. Chat!NoPlan \in Chat!Plans /\ Chat!NoPlan.id = 0
  BY DEF Chat!NoPlan, Chat!Plans
<1>5. \A p \in Chat!Plans : p.id \in Nat /\ (p = Chat!NoPlan <=> p.id = 0)
  BY DEF Chat!NoPlan, Chat!Plans
<1> QED
  BY <1>1, <1>2, <1>3, <1>4, <1>5

LEMMA ChatBegins == ASSUME Chat!NativeAssumption, Chat!Init PROVE ChatInv
<1>1. /\ mode \in Chat!Modes /\ epoch = 0 /\ turning = "done" /\ tokens = {} /\ access = NoList
      /\ ws = [f \in Chat!Families |-> NoList] /\ chatSlot = Chat!Free /\ doing = [j \in Jobs |-> Chat!Idle]
      /\ ids = 0 /\ begun = 0
  BY DEF Chat!Init, NoList
<1>2. \A j \in Jobs : doing[j] = Chat!Idle /\ doing[j].at = "idle"
  BY <1>1, ChatNothing
<1>3. 0 \in 0..MaxModes /\ 0 \in 0..MaxJobs
  BY DEF Chat!NativeAssumption
<1>4. ChatTyped
  BY <1>1, <1>2, <1>3 DEF ChatTyped
<1> QED
  BY <1>1, <1>2, <1>4 DEF ChatInv, Named, BoundBefore, NamesCurrent, Registered, UnderPermission,
     Forgotten, Confirming, OfItsKind

-----------------------------------------------------------------------------
\* What may become of the lists, of the volume and of a job in one step.

ListFollows(f) ==
  \/ ws'[f] = NoList
  \/ ws'[f] # NoList /\ ws'[f].plan = Chat!NoPlan /\ ws'[f].bound \in {NoList, Chat!Bind}
  \/ /\ ws[f] # NoList /\ ws'[f] # NoList /\ ws'[f].bound = ws[f].bound
     /\ ws'[f].plan.id \in {ws[f].plan.id, 0, ids + 1}
Bound(f, j) ==
  /\ ws[f] # NoList /\ ws'[f] # NoList /\ ws'[f].plan = ws[f].plan /\ ws'[f].bound = Chat!Bind
  /\ Listing(doing[j]) /\ Chat!FamilyOf(doing[j].kind) = f /\ doing[j].bind = Chat!Bind

ListsTyped == ws' \in [Chat!Families -> Chat!Lists' \cup {NoList}] /\ ids' \in {ids, ids + 1}

AccessFollows == access' = NoList \/ access' = access \/ (access' \in Opened /\ access'.bind = Chat!Bind)

JobFollows(j, r) ==
  /\ r \in ChatJob /\ InForce(r.bind) /\ OfItsKind(r)
  /\ Confirming(r) =>
       \/ Confirming(doing[j]) /\ r.plan = doing[j].plan /\ r.bind = doing[j].bind /\ r.kind = doing[j].kind
       \/ r.bind = Chat!Bind /\ r.plan[1] \in 1..ids /\ (r.plan[2] = TRUE => mode = "full_access")
  /\ Listing(r) =>
       \/ Listing(doing[j]) /\ r.bind = doing[j].bind /\ r.kind = doing[j].kind
       \/ ws'[Chat!FamilyOf(r.kind)] = NoList \/ ws'[Chat!FamilyOf(r.kind)].plan = Chat!NoPlan
  /\ r.at \in {"claim", "next", "item"} => j \in tokens' \/ r.stop
  /\ r.at \in {"next", "item"} /\ ~r.stop /\ turning # "flag" => r.bind.epoch = epoch

\* A step of a job, within these limits.
LEMMA ChatMove ==
  ASSUME Chat!NativeAssumption, ChatInv, NEW j \in Jobs, NEW r, doing' = [doing EXCEPT ![j] = r],
         r = Chat!Idle \/ JobFollows(j, r), UNCHANGED <<mode, epoch, turning>>,
         tokens' \in {tokens, tokens \cup {j}, tokens \ {j}}, chatSlot' \in Jobs \cup {Chat!Free},
         begun' \in 0..MaxJobs, AccessFollows, ListsTyped,
         \A f \in Chat!Families : ListFollows(f) \/ Bound(f, j)
  PROVE  ChatInv'
<1>1. /\ mode \in Chat!Modes /\ epoch \in Nat /\ MaxModes \in Nat /\ Chat!Bind \in Chat!Bindings /\ InForce(Chat!Bind)
      /\ Chat!Bind.epoch = epoch /\ Chat!Bind.mode = mode /\ Chat!Bind # NoList
  BY ChatNothing DEF ChatInv, ChatTyped, InForce, Chat!Bind, Chat!Bindings, Chat!NativeAssumption
<1>2. \A b : InForce(b)' <=> InForce(b)
  BY DEF InForce, Chat!Bindings, Chat!Modes
<1>3. \A k \in Jobs : doing'[k] = IF k = j THEN r ELSE doing[k]
  BY DEF ChatInv, ChatTyped
<1>4. r \in ChatJob \cup {Chat!Idle} /\ (r # Chat!Idle => InForce(r.bind)) /\ doing' \in [Jobs -> ChatJob \cup {Chat!Idle}]
  BY DEF ChatInv, ChatTyped, JobFollows
<1>5. \A f \in Chat!Families : ws'[f] # NoList /\ ws'[f].bound # NoList =>
        InForce(ws'[f].bound) /\ (ws'[f].bound.epoch = epoch \/ (ws[f] # NoList /\ ws'[f].bound = ws[f].bound))
  BY <1>1 DEF ListFollows, Bound, ChatInv, ChatTyped
<1>6. access' = NoList \/ (access' \in Opened /\ InForce(access'.bind) /\ (access'.bind.epoch = epoch \/ access' = access))
  BY <1>1 DEF AccessFollows, ChatInv, ChatTyped
<1>7. ids' \in Nat /\ ids \in Nat /\ ids <= ids'
  BY DEF ListsTyped, ChatInv, ChatTyped
<1>8. ChatTyped'
  <2>1. mode' \in Chat!Modes /\ epoch' \in 0..MaxModes /\ turning' \in {"flag", "access", "files", "done"}
    BY DEF ChatInv, ChatTyped
  <2>2. tokens' \subseteq Jobs
    BY DEF ChatInv, ChatTyped
  <2>3. (access = NoList \/ (access \in Opened /\ InForce(access.bind)))'
    BY <1>6 DEF InForce, NoList, Opened, Chat!None, Chat!Bindings, Chat!Scopes
  <2>4. (\A f \in Chat!Families : ws[f] # NoList /\ ws[f].bound # NoList => InForce(ws[f].bound))'
    BY <1>5 DEF InForce, NoList, Chat!None, Chat!Bindings
  <2>5. (\A k \in Jobs : doing[k] # Chat!Idle => InForce(doing[k].bind))'
    <3>1. \A k \in Jobs : doing'[k] # Chat!Idle => InForce(doing'[k].bind)
      BY <1>3, <1>4 DEF ChatInv, ChatTyped
    <3> QED
      BY <3>1 DEF InForce, Chat!Idle, Chat!Bindings
  <2>6. ws' \in [Chat!Families -> (Chat!Lists \cup {NoList})']
    BY DEF ListsTyped, NoList, Chat!None, Chat!Families
  <2>7. doing' \in [Jobs -> (ChatJob \cup {Chat!Idle})']
    BY <1>4 DEF ChatJob, Chat!Idle
  <2> QED
    BY <1>7, <2>1, <2>2, <2>3, <2>4, <2>5, <2>6, <2>7 DEF ChatTyped, NoList, Chat!None,
       Chat!Families
<1>9. \A k \in Jobs : Confirming(doing'[k]) => (k = j /\ JobFollows(j, r)) \/ (k # j /\ Confirming(doing[k]))
  <2>1. ~Confirming(Chat!Idle)
    BY ChatNothing DEF Confirming
  <2> QED
    BY <1>3, <2>1
<1>10. Named'
  <2>1. \A k \in Jobs : OfItsKind(doing'[k])
    <3>1. OfItsKind(Chat!Idle)
      BY ChatNothing DEF OfItsKind
    <3> QED
      BY <1>3, <3>1 DEF JobFollows, ChatInv, Named
  <2>2. ASSUME NEW k \in Jobs, Confirming(doing'[k])
        PROVE  doing'[k].plan[1] \in 1..ids /\ (doing'[k].plan[2] = TRUE => doing'[k].bind.mode = "full_access")
    BY <1>1, <1>3, <1>9, <2>2 DEF JobFollows, ChatInv, Named
  <2>3. 1..ids \subseteq 1..ids'
    BY <1>7
  <2> QED
    BY <2>1, <2>2, <2>3 DEF Named, Confirming, OfItsKind
<1>11. \A f \in Chat!Families : ws'[f] # NoList =>
         ws'[f].plan.id \in {0, ids + 1} \/ (ws[f] # NoList /\ ws'[f].plan.id = ws[f].plan.id)
  BY ChatNothing DEF ListFollows, Bound
\* Only a plan that was there can be the one that is named.
<1>12. ASSUME NEW k \in Jobs, Confirming(doing'[k]), Names(k, ws[Chat!FamilyOf(doing[k].kind)])'
       PROVE  LET f == Chat!FamilyOf(doing'[k].kind) IN
                ws'[f] # NoList /\ ws[f] # NoList /\ ws[f].plan.id = doing'[k].plan[1] /\ ws'[f].plan.id # 0
  <2> DEFINE f == Chat!FamilyOf(doing'[k].kind)
  <2>1. doing'[k].plan[1] \in 1..ids /\ f \in Chat!Families
    BY <1>1, <1>3, <1>9, <1>12 DEF JobFollows, ChatInv, Named, Chat!FamilyOf, Chat!Families
  <2>2. ws'[f] # NoList /\ ws'[f].plan.id = doing'[k].plan[1]
    BY <1>12 DEF Names, Chat!FamilyOf
  <2> HIDE DEF f
  <2> QED
    BY <1>7, <1>11, <2>1, <2>2 DEF f
<1>14. \A k \in Jobs : Confirming(doing'[k]) =>
         \/ /\ Confirming(doing[k]) /\ doing'[k].plan = doing[k].plan
            /\ doing'[k].bind = doing[k].bind /\ doing'[k].kind = doing[k].kind
         \/ doing'[k].bind.epoch = epoch
  BY <1>1, <1>3, <1>9 DEF JobFollows
<1>15. \A k \in Jobs : Listing(doing'[k]) =>
         \/ Listing(doing[k]) /\ doing'[k].bind = doing[k].bind /\ doing'[k].kind = doing[k].kind
         \/ ws'[Chat!FamilyOf(doing'[k].kind)] = NoList \/ ws'[Chat!FamilyOf(doing'[k].kind)].plan = Chat!NoPlan
  BY <1>3, ChatNothing DEF JobFollows, Listing
<1>16. \A k \in Jobs : doing'[k] # Chat!Idle => doing'[k].bind.epoch <= epoch
  BY <1>3, <1>4 DEF ChatInv, ChatTyped, InForce
<1>17. BoundBefore'
  <2> SUFFICES ASSUME NEW i \in Jobs, NEW k \in Jobs, Confirming(doing'[i]), Listing(doing'[k]),
                      Chat!FamilyOf(doing'[i].kind) = Chat!FamilyOf(doing'[k].kind),
                      Names(i, ws[Chat!FamilyOf(doing[i].kind)])'
               PROVE  doing'[k].bind.epoch <= doing'[i].bind.epoch
    BY DEF BoundBefore, Confirming, Listing, Chat!FamilyOf, Names
  <2> DEFINE f == Chat!FamilyOf(doing'[i].kind)
  <2>1. ws'[f] # NoList /\ ws[f] # NoList /\ ws[f].plan.id = doing'[i].plan[1] /\ ws'[f].plan.id # 0
    BY <1>12
  <2>2. doing'[k] # Chat!Idle
    BY ChatNothing DEF Listing
  <2>3. CASE doing'[i].bind.epoch = epoch
    BY <1>16, <2>2, <2>3
  <2>4. CASE /\ Confirming(doing[i]) /\ doing'[i].plan = doing[i].plan
             /\ doing'[i].bind = doing[i].bind /\ doing'[i].kind = doing[i].kind
    <3>1. Listing(doing[k]) /\ doing'[k].bind = doing[k].bind /\ doing'[k].kind = doing[k].kind
      BY <1>15, <2>1, ChatNothing
    <3>2. Names(i, ws[f])
      BY <2>1, <2>4 DEF Names
    <3> QED
      BY <2>4, <3>1, <3>2 DEF ChatInv, BoundBefore
  <2> QED
    BY <1>14, <2>3, <2>4
<1>18. NamesCurrent'
  <2> SUFFICES ASSUME NEW i \in Jobs, Confirming(doing'[i]), Names(i, ws[Chat!FamilyOf(doing[i].kind)])',
                      ws'[Chat!FamilyOf(doing'[i].kind)].bound # NoList,
                      ws'[Chat!FamilyOf(doing'[i].kind)].bound.epoch = epoch
               PROVE  doing'[i].bind.epoch = epoch
    BY DEF NamesCurrent, Confirming, Chat!FamilyOf, Names
  <2> DEFINE f == Chat!FamilyOf(doing'[i].kind)
  <2>1. ws'[f] # NoList /\ ws[f] # NoList /\ ws[f].plan.id = doing'[i].plan[1] /\ ws'[f].plan.id # 0 /\ f \in Chat!Families
    BY <1>12 DEF Chat!FamilyOf, Chat!Families
  <2>2. CASE doing'[i].bind.epoch = epoch
    BY <2>2
  <2>3. CASE /\ Confirming(doing[i]) /\ doing'[i].plan = doing[i].plan
             /\ doing'[i].bind = doing[i].bind /\ doing'[i].kind = doing[i].kind
    <3>1. Names(i, ws[f]) /\ f = Chat!FamilyOf(doing[i].kind)
      BY <2>1, <2>3 DEF Names
    <3>2. CASE ws'[f].bound = ws[f].bound
      BY <2>3, <3>1, <3>2 DEF ChatInv, NamesCurrent
    <3>3. CASE Bound(f, j)
      <4>1. doing[j].bind.epoch <= doing[i].bind.epoch
        BY <2>3, <3>1, <3>3 DEF Bound, ChatInv, BoundBefore
      <4>2. doing[j].bind.epoch = epoch
        BY <1>1, <3>3 DEF Bound
      <4>3. doing[i] # Chat!Idle /\ doing[i].bind.epoch <= epoch /\ doing[i].bind.epoch \in Nat
        BY <2>3, ChatNothing DEF Confirming, ChatInv, ChatTyped, InForce
      <4> QED
        BY <1>1, <2>3, <4>1, <4>2, <4>3
    <3> QED
      BY <2>1, <3>2, <3>3, ChatNothing DEF ListFollows
  <2> QED
    BY <1>14, <2>2, <2>3
<1>19. Registered'
  <2>1. \A k \in Jobs : k # j => (k \in tokens' <=> k \in tokens)
    OBVIOUS
  <2> QED
    BY <1>3, <2>1, ChatNothing DEF JobFollows, ChatInv, Registered
<1>20. UnderPermission'
  BY <1>3, ChatNothing DEF JobFollows, ChatInv, UnderPermission
<1>21. Forgotten'
  BY <1>5, <1>6 DEF ChatInv, Forgotten
<1> QED
  BY <1>8, <1>10, <1>17, <1>18, <1>19, <1>20, <1>21 DEF ChatInv

\* The records of the jobs and of the lists, when one thing in them changes.
LEMMA ChatKnown ==
  ASSUME ChatInv, NEW j \in Jobs, doing[j].at # "idle"
  PROVE  /\ doing[j] \in ChatJob /\ InForce(doing[j].bind) /\ OfItsKind(doing[j])
         /\ \A s \in ChatStages :
              LET r == [doing[j] EXCEPT !.at = s] IN
                r \in ChatJob /\ r.at = s /\ r.kind = doing[j].kind /\ r.bind = doing[j].bind /\ r.stop = doing[j].stop
                  /\ r.plan = doing[j].plan
<1>1. doing[j] \in ChatJob
  BY ChatNothing DEF ChatInv, ChatTyped
<1>2. InForce(doing[j].bind) /\ OfItsKind(doing[j])
  BY <1>1, ChatNothing DEF ChatInv, ChatTyped, Named
<1> QED
  BY <1>1, <1>2 DEF ChatJob

LEMMA ChatLists ==
  ASSUME ChatInv, ids' \in {ids, ids + 1}
  PROVE  /\ Chat!Lists \subseteq Chat!Lists' /\ ids \in Nat /\ NoList' = NoList
         /\ \A g \in Chat!Families, w \in Chat!Lists' \cup {NoList} :
              ws' = [ws EXCEPT ![g] = w] =>
                ListsTyped /\ ws'[g] = w /\ \A f \in Chat!Families \ {g} : ListFollows(f)
         /\ ws' = ws => ListsTyped /\ \A f \in Chat!Families : ListFollows(f)
         /\ ws' = [f \in Chat!Families |-> NoList] => ListsTyped /\ \A f \in Chat!Families : ListFollows(f)
<1>1. ids \in Nat /\ 1..ids \subseteq 1..ids' /\ ws \in [Chat!Families -> Chat!Lists \cup {NoList}]
  BY DEF ChatInv, ChatTyped
<1>2. Chat!Plans \subseteq Chat!Plans'
  BY <1>1 DEF Chat!Plans, Chat!NoPlan
<1>3. Chat!Lists \subseteq Chat!Lists'
  BY <1>1, <1>2 DEF Chat!Lists, Chat!Bindings, Chat!None, Chat!Scopes
<1>4. \A f \in Chat!Families : ws'[f] = ws[f] => ListFollows(f)
  BY DEF ListFollows
<1>5. ws' = ws => ListsTyped /\ \A f \in Chat!Families : ListFollows(f)
  BY <1>1, <1>3, <1>4 DEF ListsTyped
<1>6. ASSUME NEW g \in Chat!Families, NEW w \in Chat!Lists' \cup {NoList}, ws' = [ws EXCEPT ![g] = w]
      PROVE  ListsTyped /\ ws'[g] = w /\ \A f \in Chat!Families \ {g} : ListFollows(f)
  BY <1>1, <1>3, <1>4, <1>6 DEF ListsTyped
<1>7. ws' = [f \in Chat!Families |-> NoList] => ListsTyped /\ \A f \in Chat!Families : ListFollows(f)
  BY DEF ListsTyped, ListFollows
<1> QED
  BY <1>1, <1>3, <1>5, <1>6, <1>7 DEF NoList, Chat!None

\* A list that is forgotten, or keeps its binding while its selection or plan changes.
LEMMA ChatForgets ==
  ASSUME ChatInv, ids' = ids, NEW g \in Chat!Families, ws' = [ws EXCEPT ![g] = NoList]
  PROVE  ListsTyped /\ ws'[g] = NoList /\ \A f \in Chat!Families : ListFollows(f)
<1>1. ListsTyped /\ ws'[g] = NoList /\ \A f \in Chat!Families \ {g} : ListFollows(f)
  BY ChatLists
<1> QED
  BY <1>1 DEF ListFollows

LEMMA ChatChanges ==
  ASSUME ChatInv, ids' \in {ids, ids + 1}, NEW g \in Chat!Families, NEW w \in Chat!Lists', ws[g] # NoList,
         w.bound = ws[g].bound, w.plan.id \in {ws[g].plan.id, 0, ids + 1}, ws' = [ws EXCEPT ![g] = w]
  PROVE  ListsTyped /\ ws'[g] = w /\ \A f \in Chat!Families : ListFollows(f)
<1>1. ListsTyped /\ ws'[g] = w /\ \A f \in Chat!Families \ {g} : ListFollows(f)
  BY ChatLists
<1>2. w # NoList
  BY DEF Chat!Lists, NoList, Chat!None
<1> QED
  BY <1>1, <1>2 DEF ListFollows

\* A job that goes on, and one that ends.
LEMMA ChatGo ==
  ASSUME Chat!NativeAssumption, ChatInv, NEW j \in Jobs, NEW s \in ChatStages, doing[j].at # "idle",
         doing' = [doing EXCEPT ![j].at = s], UNCHANGED <<mode, epoch, turning, begun>>,
         tokens' \in {tokens, tokens \cup {j}}, chatSlot' \in Jobs \cup {Chat!Free}, AccessFollows, ListsTyped,
         \A f \in Chat!Families : ListFollows(f),
         s = "claim" => doing[j].at = "register" /\ doing[j].kind \in {"confirm", "confirmEmpty"} /\ j \in tokens',
         s \in {"slot", "register"} => doing[j].at = "slot" \/ doing[j].kind \notin {"confirm", "confirmEmpty"},
         s \in {"next", "item"} => doing[j].at \in {"next", "item"},
         s \in {"admit", "work", "store", "name", "choose", "publish"} =>
           doing[j].kind \notin {"prepare", "confirm", "confirmEmpty"},
         s \in {"name", "copy", "verify", "plan", "publish"} =>
           \/ doing[j].at \in {"name", "copy", "verify", "plan", "publish"}
           \/ doing[j].kind \notin {"scan", "named", "select", "scanEmpty", "selectEmpty"}
           \/ ws'[Chat!FamilyOf(doing[j].kind)] = NoList \/ ws'[Chat!FamilyOf(doing[j].kind)].plan = Chat!NoPlan
  PROVE  ChatInv'
<1> DEFINE r == [doing[j] EXCEPT !.at = s]
<1>1. doing[j] \in ChatJob /\ InForce(doing[j].bind) /\ OfItsKind(doing[j])
  BY ChatKnown
<1>2. /\ r \in ChatJob /\ r.at = s /\ r.kind = doing[j].kind /\ r.bind = doing[j].bind /\ r.stop = doing[j].stop
      /\ r.plan = doing[j].plan
  BY ChatKnown
<1>3. doing' = [doing EXCEPT ![j] = r] /\ begun' \in 0..MaxJobs
  BY DEF ChatInv, ChatTyped
<1> HIDE DEF r
<1>4. OfItsKind(r)
  BY <1>2 DEF OfItsKind
<1>5. Confirming(r) => Confirming(doing[j])
  BY <1>2 DEF Confirming
<1>6. Listing(r) => Listing(doing[j]) \/ ws'[Chat!FamilyOf(r.kind)] = NoList \/ ws'[Chat!FamilyOf(r.kind)].plan = Chat!NoPlan
  BY <1>2 DEF Listing
<1>7. r.at \in {"claim", "next", "item"} => j \in tokens' \/ r.stop
  BY <1>2 DEF ChatInv, Registered
<1>8. r.at \in {"next", "item"} /\ ~r.stop /\ turning # "flag" => r.bind.epoch = epoch
  BY <1>2 DEF ChatInv, UnderPermission
<1>9. JobFollows(j, r)
  BY <1>1, <1>2, <1>4, <1>5, <1>6, <1>7, <1>8 DEF JobFollows
<1> QED
  BY <1>3, <1>9, ChatMove

LEMMA ChatLeaves ==
  ASSUME Chat!NativeAssumption, ChatInv, NEW j \in Jobs,
         doing' = [doing EXCEPT ![j] = Chat!Idle], UNCHANGED <<mode, epoch, turning, begun>>,
         tokens' = tokens \ {j}, chatSlot' \in Jobs \cup {Chat!Free}, AccessFollows, ListsTyped,
         \A f \in Chat!Families : ListFollows(f) \/ Bound(f, j)
  PROVE  ChatInv'
<1>1. begun' \in 0..MaxJobs
  BY DEF ChatInv, ChatTyped
<1> QED
  BY <1>1, ChatMove

-----------------------------------------------------------------------------
\* The steps of a job.

LEMMA ChatDispatches ==
  ASSUME Chat!NativeAssumption, ChatInv, NEW j \in Jobs,
         Chat!DispatchFiles(j) \/ Chat!DispatchEmpty(j) \/ Chat!BeginList(j)
  PROVE  ChatInv'
<1>1. /\ ids' = ids /\ AccessFollows /\ chatSlot' \in Jobs \cup {Chat!Free} /\ UNCHANGED <<mode, epoch, turning, begun>>
      /\ {"slot", "choose"} \subseteq ChatStages
  BY DEF Chat!DispatchFiles, Chat!DispatchEmpty, Chat!BeginList, Chat!perm, AccessFollows,
     ChatStages, ChatInv, ChatTyped
<1>2. CASE Chat!DispatchFiles(j)
  <2>1. ws' = [ws EXCEPT !["empty"] = NoList] /\ doing' = [doing EXCEPT ![j].at = "slot"] /\ tokens' = tokens
    BY <1>2 DEF Chat!DispatchFiles, Chat!Go, NoList
  <2>2. doing[j].at = "begin" /\ doing[j].kind \notin {"prepare", "confirm", "confirmEmpty"}
    BY <1>2 DEF Chat!DispatchFiles
  <2>3. ListsTyped /\ \A f \in Chat!Families : ListFollows(f)
    BY <1>1, <2>1, ChatForgets DEF Chat!Families
  <2> QED
    BY <1>1, <2>1, <2>2, <2>3, ChatGo
<1>3. CASE Chat!BeginList(j)
  <2>1. ws' = ws /\ doing' = [doing EXCEPT ![j].at = "slot"] /\ tokens' = tokens
    BY <1>3 DEF Chat!BeginList, Chat!Go
  <2>2. doing[j].at = "begin" /\ doing[j].kind \notin {"prepare", "confirm", "confirmEmpty"}
    BY <1>3 DEF Chat!BeginList
  <2>3. ListsTyped /\ \A f \in Chat!Families : ListFollows(f)
    BY <1>1, <2>1, ChatLists
  <2> QED
    BY <1>1, <2>1, <2>2, <2>3, ChatGo
<1>4. CASE Chat!DispatchEmpty(j)
  <2>1. doing[j].at = "begin" /\ doing[j].kind \in {"scanEmpty", "selectEmpty"}
    BY <1>4 DEF Chat!DispatchEmpty
  <2>2. CASE /\ ws' = [ws EXCEPT !["files"] = NoList] /\ tokens' = tokens
             /\ doing' = [doing EXCEPT ![j].at = IF doing[j].kind = "scanEmpty" THEN "slot" ELSE "choose"]
    <3>1. ListsTyped /\ \A f \in Chat!Families : ListFollows(f)
      BY <1>1, <2>2, ChatForgets DEF Chat!Families
    <3>2. CASE doing[j].kind = "scanEmpty"
      BY <1>1, <2>1, <2>2, <3>1, <3>2, ChatGo
    <3>3. CASE doing[j].kind # "scanEmpty"
      BY <1>1, <2>1, <2>2, <3>1, <3>3, ChatGo
    <3> QED
      BY <3>2, <3>3
  <2>3. CASE /\ ws' = [ws EXCEPT !["files"] = NoList] \/ ws' = [f \in Chat!Families |-> NoList]
             /\ doing' = [doing EXCEPT ![j] = Chat!Idle] /\ tokens' = tokens \ {j}
    <3>1. ListsTyped /\ \A f \in Chat!Families : ListFollows(f)
      BY <1>1, <2>3, ChatForgets, ChatLists DEF Chat!Families
    <3> QED
      BY <1>1, <2>3, <3>1, ChatLeaves
  <2>4. \/ /\ ws' = [ws EXCEPT !["files"] = NoList] /\ tokens' = tokens
           /\ doing' = [doing EXCEPT ![j].at = IF doing[j].kind = "scanEmpty" THEN "slot" ELSE "choose"]
        \/ /\ ws' = [ws EXCEPT !["files"] = NoList] \/ ws' = [f \in Chat!Families |-> NoList]
           /\ doing' = [doing EXCEPT ![j] = Chat!Idle] /\ tokens' = tokens \ {j}
    BY <1>4 DEF Chat!DispatchEmpty, Chat!Go, Chat!End, NoList
  <2> QED
    BY <2>2, <2>3, <2>4
<1> QED
  BY <1>2, <1>3, <1>4

\* A job whose root or binding is set as it comes to the slot.
LEMMA ChatComes ==
  ASSUME Chat!NativeAssumption, ChatInv, NEW j \in Jobs, Chat!OpenVolume(j) \/ Chat!BeginPrepare(j)
  PROVE  ChatInv'
<1>1. /\ ids' = ids /\ chatSlot' \in Jobs \cup {Chat!Free} /\ UNCHANGED <<mode, epoch, turning, begun>>
      /\ begun' \in 0..MaxJobs
  BY DEF Chat!OpenVolume, Chat!BeginPrepare, Chat!perm, ChatInv, ChatTyped
<1>2. doing[j].at = "begin" /\ doing[j].kind \in {"open", "prepare"}
  BY DEF Chat!OpenVolume, Chat!BeginPrepare
<1>3. doing[j] \in ChatJob /\ InForce(doing[j].bind)
  BY <1>2, ChatKnown
<1>4. ASSUME NEW r, r \in ChatJob, r.at = "slot", r.kind = doing[j].kind, InForce(r.bind)
      PROVE  JobFollows(j, r)
  BY <1>2, <1>4 DEF JobFollows, Confirming, Listing, OfItsKind
<1>5. /\ access' \in {access, [access EXCEPT !.root = "volume"]} /\ (access' # access => access # NoList /\ access.bind = Chat!Bind)
      /\ ws' = ws \/ ws' = [f \in Chat!Families |-> NoList]
  BY DEF Chat!OpenVolume, Chat!BeginPrepare, Chat!Authority, NoList
<1>6. AccessFollows
  <2>1. CASE access' = access
    BY <2>1 DEF AccessFollows
  <2>2. CASE access' # access
    <3>1. access \in Opened /\ access.bind = Chat!Bind /\ access' = [access EXCEPT !.root = "volume"]
      BY <1>5, <2>2 DEF ChatInv, ChatTyped
    <3> QED
      BY <3>1 DEF AccessFollows, Opened, Chat!Scopes
  <2> QED
    BY <2>1, <2>2
<1>7. ListsTyped /\ \A f \in Chat!Families : ListFollows(f)
  BY <1>1, <1>5, ChatLists
<1>8. CASE doing' = [doing EXCEPT ![j] = Chat!Idle] /\ tokens' = tokens \ {j}
  BY <1>1, <1>6, <1>7, <1>8, ChatLeaves
<1>9. CASE doing' = [doing EXCEPT ![j].at = "slot", ![j].root = "volume"] /\ tokens' = tokens
  <2> DEFINE r == [doing[j] EXCEPT !.at = "slot", !.root = "volume"]
  <2>1. doing' = [doing EXCEPT ![j] = r] /\ r \in ChatJob /\ r.at = "slot" /\ r.kind = doing[j].kind /\ r.bind = doing[j].bind
    BY <1>3, <1>9 DEF ChatJob, ChatStages, Chat!Scopes, ChatInv, ChatTyped
  <2> HIDE DEF r
  <2> QED
    BY <1>1, <1>3, <1>4, <1>6, <1>7, <1>9, <2>1, ChatMove
<1>10. CASE /\ doing' = [doing EXCEPT ![j].at = "slot", ![j].bind = ws["files"].bound] /\ tokens' = tokens
            /\ ws["files"] # NoList /\ ws["files"].bound # NoList
  <2> DEFINE r == [doing[j] EXCEPT !.at = "slot", !.bind = ws["files"].bound]
  <2>1. InForce(ws["files"].bound)
    BY <1>10 DEF ChatInv, ChatTyped, Chat!Families
  <2>2. doing' = [doing EXCEPT ![j] = r] /\ r \in ChatJob /\ r.at = "slot" /\ r.kind = doing[j].kind /\ r.bind = ws["files"].bound
    BY <1>3, <1>10, <2>1 DEF ChatJob, ChatStages, InForce, ChatInv, ChatTyped
  <2> HIDE DEF r
  <2> QED
    BY <1>1, <1>4, <1>6, <1>7, <1>10, <2>1, <2>2, ChatMove
<1> QED
  BY <1>8, <1>9, <1>10 DEF Chat!OpenVolume, Chat!BeginPrepare, Chat!End, NoList

LEMMA ChatEnters ==
  ASSUME Chat!NativeAssumption, ChatInv, NEW j \in Jobs, Chat!TakeSlot(j) \/ Chat!RegisterJob(j)
  PROVE  ChatInv'
<1>1. /\ ids' = ids /\ AccessFollows /\ chatSlot' \in Jobs \cup {Chat!Free} /\ UNCHANGED <<mode, epoch, turning, begun>>
      /\ {"register", "admit", "copy", "claim", "work"} \subseteq ChatStages
  BY DEF Chat!TakeSlot, Chat!RegisterJob, Chat!perm, AccessFollows, ChatStages, ChatInv, ChatTyped
<1>2. CASE Chat!TakeSlot(j)
  <2>1. ws' = ws /\ doing[j].at = "slot"
    BY <1>2 DEF Chat!TakeSlot
  <2>2. ListsTyped /\ \A f \in Chat!Families : ListFollows(f)
    BY <1>1, <2>1, ChatLists
  <2>3. CASE doing' = [doing EXCEPT ![j].at = "register"] /\ tokens' = tokens
    BY <1>1, <2>1, <2>2, <2>3, ChatGo
  <2>4. CASE doing' = [doing EXCEPT ![j] = Chat!Idle] /\ tokens' = tokens \ {j}
    BY <1>1, <2>2, <2>4, ChatLeaves
  <2> QED
    BY <1>2, <2>3, <2>4 DEF Chat!TakeSlot, Chat!Go, Chat!End
<1>3. CASE Chat!RegisterJob(j)
  <2>1. doing[j].at = "register" /\ tokens' = tokens \cup {j} /\ doing[j].kind \in ChatKinds
    BY <1>3, ChatKnown DEF Chat!RegisterJob, ChatJob
  <2>2. ws' = ws \/ ws' = [ws EXCEPT !["empty"] = NoList]
    BY <1>3 DEF Chat!RegisterJob, NoList
  <2>3. ListsTyped /\ \A f \in Chat!Families : ListFollows(f)
    BY <1>1, <2>2, ChatLists, ChatForgets DEF Chat!Families
  <2> DEFINE s == CASE doing[j].kind \in {"scan", "named", "select"} -> "admit"
                    [] doing[j].kind = "prepare" -> "copy"
                    [] doing[j].kind \in {"confirm", "confirmEmpty"} -> "claim"
                    [] OTHER -> "work"
  <2>4. doing' = [doing EXCEPT ![j].at = s]
    BY <1>3 DEF Chat!RegisterJob, Chat!Go
  <2>5. /\ s \in {"admit", "copy", "claim", "work"} /\ (s = "copy" => doing[j].kind = "prepare")
        /\ s = "claim" => doing[j].kind \in {"confirm", "confirmEmpty"}
        /\ s \in {"admit", "work"} => doing[j].kind \notin {"prepare", "confirm", "confirmEmpty"}
    BY <2>1 DEF ChatKinds
  <2> HIDE DEF s
  <2>6. j \in tokens' /\ tokens' \in {tokens, tokens \cup {j}}
    BY <2>1
  <2> QED
    BY <1>1, <2>1, <2>3, <2>4, <2>5, <2>6, ChatGo
<1> QED
  BY <1>2, <1>3

LEMMA ChatWorks ==
  ASSUME Chat!NativeAssumption, ChatInv, NEW j \in Jobs,
         Chat!Work(j) \/ Chat!Verify(j) \/ Chat!WorkEnds(j) \/ Chat!EndJob(j) \/ Chat!NextItem(j)
  PROVE  ChatInv'
<1>1. /\ ids' = ids /\ AccessFollows /\ UNCHANGED <<mode, epoch, turning, begun>> /\ ws' = ws
      /\ chatSlot' \in Jobs \cup {Chat!Free} /\ {"publish", "store", "plan", "moved", "item"} \subseteq ChatStages
  BY DEF Chat!Work, Chat!Verify, Chat!WorkEnds, Chat!EndJob, Chat!NextItem, Chat!Leave, Chat!perm,
     AccessFollows,
         ChatStages, ChatInv, ChatTyped
<1>2. ListsTyped /\ \A f \in Chat!Families : ListFollows(f)
  BY <1>1, ChatLists
<1>3. CASE doing' = [doing EXCEPT ![j] = Chat!Idle] /\ tokens' = tokens \ {j}
  BY <1>1, <1>2, <1>3, ChatLeaves
<1>4. CASE Chat!Work(j)
  <2>1. /\ doing[j].at = "work" /\ tokens' = tokens /\ doing[j].kind \notin {"prepare", "confirm", "confirmEmpty"}
    BY <1>4, ChatKnown DEF Chat!Work, OfItsKind
  <2>2. CASE doing[j].kind \in {"list", "open"} /\ doing' = [doing EXCEPT ![j].at = "publish"]
    BY <1>1, <1>2, <2>1, <2>2, ChatGo
  <2>3. CASE doing' = [doing EXCEPT ![j].at = "store"]
    BY <1>1, <1>2, <2>1, <2>3, ChatGo
  <2> QED
    BY <1>4, <2>2, <2>3 DEF Chat!Work, Chat!Go
<1>5. CASE Chat!Verify(j)
  <2>1. doing[j].at = "verify" /\ tokens' = tokens /\ doing' = [doing EXCEPT ![j].at = "plan"]
    BY <1>5 DEF Chat!Verify, Chat!Go
  <2> QED
    BY <1>1, <1>2, <2>1, ChatGo
<1>6. CASE Chat!NextItem(j)
  <2>1. doing[j].at = "next" /\ tokens' = tokens
    BY <1>6 DEF Chat!NextItem
  <2>2. CASE doing' = [doing EXCEPT ![j].at = "moved"]
    BY <1>1, <1>2, <2>1, <2>2, ChatGo
  <2>3. CASE doing' = [doing EXCEPT ![j].at = "item"]
    BY <1>1, <1>2, <2>1, <2>3, ChatGo
  <2> QED
    BY <1>6, <2>2, <2>3 DEF Chat!NextItem, Chat!Go
<1> QED
  BY <1>3, <1>4, <1>5, <1>6 DEF Chat!WorkEnds, Chat!EndJob, Chat!Leave, Chat!End

LEMMA ChatAdmits ==
  ASSUME Chat!NativeAssumption, ChatInv, NEW j \in Jobs, Chat!Admit(j) PROVE ChatInv'
<1>1. /\ ids' = ids /\ AccessFollows /\ UNCHANGED <<mode, epoch, turning, begun>> /\ doing[j].at = "admit"
      /\ chatSlot' \in Jobs \cup {Chat!Free} /\ {"choose", "work"} \subseteq ChatStages
  BY DEF Chat!Admit, Chat!Leave, Chat!perm, AccessFollows, ChatStages, ChatInv, ChatTyped
<1>2. ws' = ws \/ ws' = [ws EXCEPT !["files"] = NoList]
  BY DEF Chat!Admit, NoList
<1>3. ListsTyped /\ \A f \in Chat!Families : ListFollows(f)
  BY <1>1, <1>2, ChatLists, ChatForgets DEF Chat!Families
<1>4. doing[j].kind \notin {"prepare", "confirm", "confirmEmpty"}
  BY <1>1, ChatKnown DEF OfItsKind
<1>5. CASE doing' = [doing EXCEPT ![j] = Chat!Idle] /\ tokens' = tokens \ {j}
  BY <1>1, <1>3, <1>5, ChatLeaves
<1>6. CASE doing' = [doing EXCEPT ![j].at = "choose"] /\ tokens' = tokens
  BY <1>1, <1>3, <1>4, <1>6, ChatGo
<1>7. CASE doing' = [doing EXCEPT ![j].at = "work"] /\ tokens' = tokens
  BY <1>1, <1>3, <1>4, <1>7, ChatGo
<1> QED
  BY <1>5, <1>6, <1>7 DEF Chat!Admit, Chat!Go, Chat!Leave, Chat!End

\* A record of a list with another selection, plan or binding is one.
LEMMA ChatRecords ==
  ASSUME ChatInv, ids' \in {ids, ids + 1}, NEW w \in Chat!Lists
  PROVE  /\ \A s \in Selections \cup {"none"} :
              LET v == [w EXCEPT !.sel = s] IN v \in Chat!Lists' /\ v.bound = w.bound /\ v.plan = w.plan
         /\ \A s \in Selections \cup {"none"} :
              LET v == [w EXCEPT !.sel = s, !.plan = Chat!NoPlan]
              IN v \in Chat!Lists' /\ v.bound = w.bound /\ v.plan = Chat!NoPlan
         /\ LET v == [w EXCEPT !.plan = Chat!NoPlan]
            IN v \in Chat!Lists' /\ v.bound = w.bound /\ v.plan = Chat!NoPlan
         /\ ids' = ids + 1 =>
              LET v == [w EXCEPT !.plan = [id |-> ids + 1, sel |-> w.sel]]
              IN v \in Chat!Lists' /\ v.bound = w.bound /\ v.plan.id = ids + 1
         /\ \A b \in Chat!Bindings, e \in BOOLEAN :
              LET v == [w EXCEPT !.bound = b, !.eligible = e]
              IN v \in Chat!Lists' /\ v.bound = b /\ v.plan = w.plan
<1>1. w \in Chat!Lists' /\ ids \in Nat
  BY ChatLists
<1>2. Chat!NoPlan \in Chat!Plans'
  BY DEF Chat!Plans, Chat!NoPlan
<1>3. \A s \in Selections \cup {"none"} :
        LET v == [w EXCEPT !.sel = s] IN v \in Chat!Lists' /\ v.bound = w.bound /\ v.plan = w.plan
  BY <1>1 DEF Chat!Lists
<1>4. \A s \in Selections \cup {"none"} :
        LET v == [w EXCEPT !.sel = s, !.plan = Chat!NoPlan]
        IN v \in Chat!Lists' /\ v.bound = w.bound /\ v.plan = Chat!NoPlan
  BY <1>1, <1>2 DEF Chat!Lists
<1>5. LET v == [w EXCEPT !.plan = Chat!NoPlan] IN v \in Chat!Lists' /\ v.bound = w.bound /\ v.plan = Chat!NoPlan
  BY <1>1, <1>2 DEF Chat!Lists
<1>6. ASSUME ids' = ids + 1
      PROVE  LET v == [w EXCEPT !.plan = [id |-> ids + 1, sel |-> w.sel]]
             IN v \in Chat!Lists' /\ v.bound = w.bound /\ v.plan.id = ids + 1
  <2>1. w.sel \in Selections \cup {"none"}
    BY DEF Chat!Lists
  <2>2. [id |-> ids + 1, sel |-> w.sel] \in Chat!Plans'
    BY <1>1, <1>6, <2>1 DEF Chat!Plans
  <2> QED
    BY <1>1, <2>2 DEF Chat!Lists
<1>7. \A b \in Chat!Bindings, e \in BOOLEAN :
        LET v == [w EXCEPT !.bound = b, !.eligible = e] IN v \in Chat!Lists' /\ v.bound = b /\ v.plan = w.plan
  BY <1>1 DEF Chat!Lists, Chat!Bindings
<1> QED
  BY <1>3, <1>4, <1>5, <1>6, <1>7

LEMMA ChatListed ==
  ASSUME ChatInv, NEW j \in Jobs, doing[j].at # "idle", ids' = ids + 1
  PROVE  /\ Chat!Listed(j) \in Chat!Lists' /\ Chat!Listed(j).plan = Chat!NoPlan /\ Chat!Listed(j).bound = NoList
         /\ \A b \in Chat!Bindings, e \in BOOLEAN :
              LET v == [Chat!Listed(j) EXCEPT !.bound = b, !.eligible = e]
              IN v \in Chat!Lists' /\ v.plan = Chat!NoPlan /\ v.bound = b
<1>1. doing[j].root \in Chat!Scopes /\ ids \in Nat
  BY ChatKnown DEF ChatJob, ChatInv, ChatTyped
<1>2. Chat!NoPlan \in Chat!Plans'
  BY DEF Chat!Plans, Chat!NoPlan
<1>3. Chat!Listed(j) \in Chat!Lists' /\ Chat!Listed(j).plan = Chat!NoPlan /\ Chat!Listed(j).bound = NoList
  BY <1>1, <1>2 DEF Chat!Listed, Chat!Lists, NoList, Chat!None, Chat!Scopes
<1>4. \A b \in Chat!Bindings, e \in BOOLEAN :
        LET v == [Chat!Listed(j) EXCEPT !.bound = b, !.eligible = e]
        IN v \in Chat!Lists' /\ v.plan = Chat!NoPlan /\ v.bound = b
  <2>1. \A w \in Chat!Lists', b \in Chat!Bindings, e \in BOOLEAN :
          LET v == [w EXCEPT !.bound = b, !.eligible = e] IN v \in Chat!Lists' /\ v.plan = w.plan /\ v.bound = b
    BY DEF Chat!Lists, Chat!Bindings
  <2> QED
    BY <1>3, <2>1
<1> QED
  BY <1>3, <1>4

LEMMA ChatOf == \A k : Chat!FamilyOf(k) \in Chat!Families
BY DEF Chat!FamilyOf, Chat!Families

LEMMA ChatStores ==
  ASSUME Chat!NativeAssumption, ChatInv, NEW j \in Jobs, Chat!Store(j) PROVE ChatInv'
<1>1. /\ ids' = ids + 1 /\ AccessFollows /\ UNCHANGED <<mode, epoch, turning, begun>> /\ doing[j].at = "store"
      /\ chatSlot' \in Jobs \cup {Chat!Free} /\ {"name", "publish"} \subseteq ChatStages /\ tokens' = tokens
  BY DEF Chat!Store, Chat!perm, AccessFollows, ChatStages, ChatInv, ChatTyped
<1> DEFINE g == Chat!FamilyOf(doing[j].kind)
           w == Chat!Listed(j)
<1>2. ws' = [ws EXCEPT ![g] = w] /\ g \in Chat!Families
  BY ChatOf DEF Chat!Store
<1>3. w \in Chat!Lists' /\ w.plan = Chat!NoPlan /\ w.bound = NoList
  BY <1>1, ChatListed
<1> HIDE DEF g, w
<1>4. ListsTyped /\ ws'[g] = w /\ \A f \in Chat!Families \ {g} : ListFollows(f)
  BY <1>1, <1>2, <1>3, ChatLists
<1>5. w # NoList
  BY <1>3 DEF Chat!Lists, NoList, Chat!None
<1>6. ListFollows(g)
  BY <1>3, <1>4, <1>5 DEF ListFollows
<1>7. doing[j].kind \notin {"prepare", "confirm", "confirmEmpty"}
  BY <1>1, ChatKnown DEF OfItsKind
<1>8. \A f \in Chat!Families : ListFollows(f)
  BY <1>4, <1>6
<1>9. ws'[Chat!FamilyOf(doing[j].kind)].plan = Chat!NoPlan
  BY <1>3, <1>4 DEF g
<1>10. CASE doing' = [doing EXCEPT ![j].at = "name"]
  BY <1>1, <1>4, <1>7, <1>8, <1>9, <1>10, ChatGo
<1>11. CASE doing' = [doing EXCEPT ![j].at = "publish"]
  BY <1>1, <1>4, <1>7, <1>8, <1>9, <1>11, ChatGo
<1> QED
  BY <1>10, <1>11 DEF Chat!Store, Chat!Go

LEMMA ChatSelects ==
  ASSUME Chat!NativeAssumption, ChatInv, NEW j \in Jobs, Chat!SelectNamed(j) PROVE ChatInv'
<1>1. /\ ids' = ids /\ AccessFollows /\ UNCHANGED <<mode, epoch, turning, begun>> /\ doing[j].at = "name"
      /\ chatSlot' \in Jobs \cup {Chat!Free} /\ {"copy", "publish"} \subseteq ChatStages /\ "files" \in Chat!Families
  BY DEF Chat!SelectNamed, Chat!Leave, Chat!perm, AccessFollows, ChatStages, ChatInv, ChatTyped,
     Chat!Families
<1>2. doing[j].kind \notin {"prepare", "confirm", "confirmEmpty"}
  BY <1>1, ChatKnown DEF OfItsKind
<1>3. CASE /\ ws["files"] # NoList /\ \E s \in Selections : ws' = [ws EXCEPT !["files"].sel = s]
           /\ doing' = [doing EXCEPT ![j].at = "copy"] /\ tokens' = tokens
  <2>1. PICK s \in Selections : ws' = [ws EXCEPT !["files"].sel = s]
    BY <1>3
  <2> DEFINE w == [ws["files"] EXCEPT !.sel = s]
  <2>2. ws' = [ws EXCEPT !["files"] = w] /\ ws["files"] \in Chat!Lists
    BY <1>1, <1>3, <2>1 DEF ChatInv, ChatTyped
  <2>3. w \in Chat!Lists' /\ w.bound = ws["files"].bound /\ w.plan = ws["files"].plan
    BY <1>1, <2>2, ChatRecords
  <2> HIDE DEF w
  <2>4. ListsTyped /\ \A f \in Chat!Families : ListFollows(f)
    BY <1>1, <1>3, <2>2, <2>3, ChatChanges
  <2> QED
    BY <1>1, <1>2, <1>3, <2>4, ChatGo
<1>4. CASE ws' = ws /\ doing' = [doing EXCEPT ![j].at = "publish"] /\ tokens' = tokens
  <2>1. ListsTyped /\ \A f \in Chat!Families : ListFollows(f)
    BY <1>1, <1>4, ChatLists
  <2> QED
    BY <1>1, <1>2, <1>4, <2>1, ChatGo
<1>5. CASE ws' = ws /\ doing' = [doing EXCEPT ![j] = Chat!Idle] /\ tokens' = tokens \ {j}
  <2>1. ListsTyped /\ \A f \in Chat!Families : ListFollows(f)
    BY <1>1, <1>5, ChatLists
  <2> QED
    BY <1>1, <1>5, <2>1, ChatLeaves
<1> QED
  BY <1>3, <1>4, <1>5 DEF Chat!SelectNamed, Chat!Go, Chat!Leave, Chat!End, NoList

LEMMA ChatCopies ==
  ASSUME Chat!NativeAssumption, ChatInv, NEW j \in Jobs, Chat!CopySelection(j) PROVE ChatInv'
<1>1. /\ ids' = ids /\ AccessFollows /\ UNCHANGED <<mode, epoch, turning, begun>> /\ doing[j].at = "copy"
      /\ chatSlot' \in Jobs \cup {Chat!Free} /\ "files" \in Chat!Families /\ begun' \in 0..MaxJobs
  BY DEF Chat!CopySelection, Chat!Leave, Chat!perm, AccessFollows, ChatInv, ChatTyped, Chat!Families
<1>2. CASE /\ ws["files"] # NoList /\ ws' = [ws EXCEPT !["files"].plan = Chat!NoPlan] /\ tokens' = tokens
           /\ doing' = [doing EXCEPT ![j] = [@ EXCEPT !.at = "verify", !.plan = <<ws["files"].rev, ws["files"].sel>>]]
  <2> DEFINE w == [ws["files"] EXCEPT !.plan = Chat!NoPlan]
             p == <<ws["files"].rev, ws["files"].sel>>
             r == [doing[j] EXCEPT !.at = "verify", !.plan = p]
  <2>1. ws' = [ws EXCEPT !["files"] = w] /\ ws["files"] \in Chat!Lists
    BY <1>1, <1>2 DEF ChatInv, ChatTyped
  <2>2. w \in Chat!Lists' /\ w.bound = ws["files"].bound /\ w.plan.id = 0
    BY <1>1, <2>1, ChatRecords, ChatNothing
  <2>3. p \in ChatPlans
    BY <2>1 DEF ChatPlans, Chat!Lists, ChatInv, ChatTyped
  <2>4. doing[j] \in ChatJob /\ InForce(doing[j].bind)
    BY <1>1, ChatKnown
  <2> HIDE DEF w, p
  <2>5. /\ doing' = [doing EXCEPT ![j] = r] /\ r \in ChatJob /\ r.at = "verify" /\ r.kind = doing[j].kind
        /\ r.bind = doing[j].bind
    BY <1>2, <2>3, <2>4 DEF ChatJob, ChatStages, ChatInv, ChatTyped, p
  <2> HIDE DEF r
  <2>6. ListsTyped /\ \A f \in Chat!Families : ListFollows(f)
    BY <1>1, <1>2, <2>1, <2>2, ChatChanges
  <2>7. JobFollows(j, r)
    BY <1>1, <2>4, <2>5 DEF JobFollows, Confirming, Listing, OfItsKind
  <2> QED
    BY <1>1, <1>2, <2>5, <2>6, <2>7, ChatMove
<1>3. CASE ws' = ws /\ doing' = [doing EXCEPT ![j] = Chat!Idle] /\ tokens' = tokens \ {j}
  <2>1. ListsTyped /\ \A f \in Chat!Families : ListFollows(f)
    BY <1>1, <1>3, ChatLists
  <2> QED
    BY <1>1, <1>3, <2>1, ChatLeaves
<1> QED
  BY <1>2, <1>3 DEF Chat!CopySelection, Chat!Leave, Chat!End, NoList

LEMMA ChatPlansIt ==
  ASSUME Chat!NativeAssumption, ChatInv, NEW j \in Jobs, Chat!StorePlan(j) PROVE ChatInv'
<1>1. /\ ids' \in {ids, ids + 1} /\ AccessFollows /\ UNCHANGED <<mode, epoch, turning, begun>> /\ doing[j].at = "plan"
      /\ chatSlot' \in Jobs \cup {Chat!Free} /\ "files" \in Chat!Families /\ {"publish", "end"} \subseteq ChatStages
  BY DEF Chat!StorePlan, Chat!Leave, Chat!perm, AccessFollows, ChatInv, ChatTyped, Chat!Families,
     ChatStages
<1>2. CASE /\ ws["files"] # NoList /\ ids' = ids + 1 /\ tokens' = tokens
           /\ ws' = [ws EXCEPT !["files"].plan = [id |-> ids + 1, sel |-> ws["files"].sel]]
           /\ doing' = [doing EXCEPT ![j].at = IF doing[j].kind = "named" THEN "publish" ELSE "end"]
  <2> DEFINE w == [ws["files"] EXCEPT !.plan = [id |-> ids + 1, sel |-> ws["files"].sel]]
  <2>1. ws' = [ws EXCEPT !["files"] = w] /\ ws["files"] \in Chat!Lists
    BY <1>1, <1>2 DEF ChatInv, ChatTyped
  <2>2. w \in Chat!Lists' /\ w.bound = ws["files"].bound /\ w.plan.id = ids + 1
    BY <1>1, <1>2, <2>1, ChatRecords
  <2> HIDE DEF w
  <2>3. ListsTyped /\ \A f \in Chat!Families : ListFollows(f)
    BY <1>1, <1>2, <2>1, <2>2, ChatChanges
  <2>4. CASE doing[j].kind = "named"
    BY <1>1, <1>2, <2>3, <2>4, ChatGo
  <2>5. CASE doing[j].kind # "named"
    BY <1>1, <1>2, <2>3, <2>5, ChatGo
  <2> QED
    BY <2>4, <2>5
<1>3. CASE ws' = ws /\ ids' = ids /\ doing' = [doing EXCEPT ![j] = Chat!Idle] /\ tokens' = tokens \ {j}
  <2>1. ListsTyped /\ \A f \in Chat!Families : ListFollows(f)
    BY <1>1, <1>3, ChatLists
  <2> QED
    BY <1>1, <1>3, <2>1, ChatLeaves
<1> QED
  BY <1>2, <1>3 DEF Chat!StorePlan, Chat!Go, Chat!Leave, Chat!End, NoList

LEMMA ChatChooses ==
  ASSUME Chat!NativeAssumption, ChatInv, NEW j \in Jobs, Chat!Choose(j) PROVE ChatInv'
<1>1. /\ ids' = ids /\ AccessFollows /\ UNCHANGED <<mode, epoch, turning, begun>> /\ doing[j].at = "choose"
      /\ chatSlot' \in Jobs \cup {Chat!Free} /\ "publish" \in ChatStages
  BY DEF Chat!Choose, Chat!Leave, Chat!perm, AccessFollows, ChatInv, ChatTyped, ChatStages
<1> DEFINE g == Chat!FamilyOf(doing[j].kind)
<1>2. g \in Chat!Families
  BY ChatOf
<1>3. doing[j].kind \notin {"prepare", "confirm", "confirmEmpty"}
  BY <1>1, ChatKnown DEF OfItsKind
<1>4. CASE /\ ws[g] # NoList /\ \E s \in Selections : ws' = [ws EXCEPT ![g] = [@ EXCEPT !.sel = s, !.plan = Chat!NoPlan]]
           /\ doing' = [doing EXCEPT ![j].at = "publish"] /\ tokens' = tokens
  <2>1. PICK s \in Selections : ws' = [ws EXCEPT ![g] = [@ EXCEPT !.sel = s, !.plan = Chat!NoPlan]]
    BY <1>4
  <2> DEFINE w == [ws[g] EXCEPT !.sel = s, !.plan = Chat!NoPlan]
  <2> HIDE DEF g
  <2>2. ws' = [ws EXCEPT ![g] = w] /\ ws[g] \in Chat!Lists
    BY <1>2, <1>4, <2>1 DEF ChatInv, ChatTyped
  <2>3. w \in Chat!Lists' /\ w.bound = ws[g].bound /\ w.plan = Chat!NoPlan /\ w.plan.id = 0
    <3>1. ids' \in {ids, ids + 1} /\ s \in Selections \cup {"none"}
      BY <1>1
    <3>2. w \in Chat!Lists' /\ w.bound = ws[g].bound /\ w.plan = Chat!NoPlan
      BY <2>2, <3>1, ChatRecords
    <3> QED
      BY <3>2, ChatNothing
  <2> HIDE DEF w
  <2>4. ListsTyped /\ ws'[g] = w /\ \A f \in Chat!Families : ListFollows(f)
    BY <1>1, <1>2, <1>4, <2>2, <2>3, ChatChanges
  <2>5. ws'[Chat!FamilyOf(doing[j].kind)].plan = Chat!NoPlan
    BY <2>3, <2>4 DEF g
  <2> QED
    BY <1>1, <1>3, <1>4, <2>4, <2>5, ChatGo
<1>5. CASE ws' = ws /\ doing' = [doing EXCEPT ![j] = Chat!Idle] /\ tokens' = tokens \ {j}
  <2>1. ListsTyped /\ \A f \in Chat!Families : ListFollows(f)
    BY <1>1, <1>5, ChatLists
  <2> QED
    BY <1>1, <1>5, <2>1, ChatLeaves
<1> QED
  BY <1>4, <1>5 DEF Chat!Choose, Chat!Go, Chat!Leave, Chat!End, NoList

LEMMA ChatPublishes ==
  ASSUME Chat!NativeAssumption, ChatInv, NEW j \in Jobs, Chat!Publish(j) PROVE ChatInv'
<1>1. /\ ids' = ids /\ AccessFollows /\ UNCHANGED <<mode, epoch, turning, begun>> /\ doing[j].at = "publish"
      /\ chatSlot' \in Jobs \cup {Chat!Free} /\ doing' = [doing EXCEPT ![j] = Chat!Idle] /\ tokens' = tokens \ {j}
  BY DEF Chat!Publish, Chat!Leave, Chat!End, Chat!perm, AccessFollows, ChatInv, ChatTyped
<1>2. /\ doing[j].kind \in {"scan", "named", "select", "scanEmpty", "selectEmpty"}
      /\ doing[j].bind \in Chat!Bindings
  BY <1>1, ChatKnown DEF OfItsKind, ChatJob, ChatKinds, InForce, Chat!Publish
<1> DEFINE g == Chat!FamilyOf(doing[j].kind)
<1>3. g \in Chat!Families
  BY ChatOf
<1>4. PICK complete \in BOOLEAN :
        ws' = [ws EXCEPT ![g] = IF Chat!Authority(doing[j].bind, FALSE) /\ @ # NoList
                                THEN [@ EXCEPT !.bound = doing[j].bind, !.eligible = complete] ELSE NoList]
  BY DEF Chat!Publish, NoList
<1> DEFINE w == [ws[g] EXCEPT !.bound = doing[j].bind, !.eligible = complete]
<1>5. CASE doing[j].bind = Chat!Bind /\ ws[g] # NoList
  <2>1. ws' = [ws EXCEPT ![g] = w] /\ ws[g] \in Chat!Lists
    BY <1>3, <1>4, <1>5 DEF Chat!Authority, ChatInv, ChatTyped
  <2>2. w \in Chat!Lists' /\ w.bound = Chat!Bind /\ w.plan = ws[g].plan /\ w # NoList
    <3>1. w \in Chat!Lists' /\ w.bound = doing[j].bind /\ w.plan = ws[g].plan
      <4>1. ws[g] \in Chat!Lists /\ ids' \in {ids, ids + 1}
        BY <1>1, <2>1
      <4>2. \A b \in Chat!Bindings, e \in BOOLEAN :
              LET v == [ws[g] EXCEPT !.bound = b, !.eligible = e]
              IN v \in Chat!Lists' /\ v.bound = b /\ v.plan = ws[g].plan
        BY <4>1, ChatRecords
      <4> QED
        BY <1>2, <4>2
    <3> QED
      BY <1>5, <3>1 DEF Chat!Lists, NoList, Chat!None
  <2> HIDE DEF w
  <2>3. ListsTyped /\ ws'[g] = w /\ \A f \in Chat!Families \ {g} : ListFollows(f)
    BY <1>1, <1>3, <2>1, <2>2, ChatLists
  <2>4. Bound(g, j)
    BY <1>1, <1>2, <1>5, <2>2, <2>3 DEF Bound, Listing
  <2>5. \A f \in Chat!Families : ListFollows(f) \/ Bound(f, j)
    BY <2>3, <2>4
  <2> QED
    BY <1>1, <2>3, <2>5, ChatLeaves
<1>6. CASE ~(doing[j].bind = Chat!Bind /\ ws[g] # NoList)
  <2>1. ws' = [ws EXCEPT ![g] = NoList]
    BY <1>4, <1>6 DEF Chat!Authority
  <2> HIDE DEF g
  <2>2. ListsTyped /\ \A f \in Chat!Families : ListFollows(f)
    BY <1>1, <1>3, <2>1, ChatForgets
  <2> QED
    BY <1>1, <2>2, ChatLeaves
<1> QED
  BY <1>5, <1>6

LEMMA ChatVolumes ==
  ASSUME Chat!NativeAssumption, ChatInv, NEW j \in Jobs, Chat!PublishVolumes(j) PROVE ChatInv'
<1>1. /\ ids' = ids /\ UNCHANGED <<mode, epoch, turning, begun>> /\ ws' = ws /\ doing[j].at = "publish"
      /\ chatSlot' \in Jobs \cup {Chat!Free} /\ doing' = [doing EXCEPT ![j] = Chat!Idle] /\ tokens' = tokens \ {j}
  BY DEF Chat!PublishVolumes, Chat!Leave, Chat!End, Chat!perm, ChatInv, ChatTyped
<1>2. doing[j].bind \in Chat!Bindings /\ Chat!EffectiveRoot(doing[j].bind) \in Chat!Scopes
  BY <1>1, ChatKnown DEF InForce, Chat!EffectiveRoot, Chat!Scopes, ChatInv, ChatTyped, Opened,
     NoList
<1>3. AccessFollows
  BY <1>2 DEF AccessFollows, Opened, Chat!PublishVolumes, Chat!Authority
<1>4. ListsTyped /\ \A f \in Chat!Families : ListFollows(f)
  BY <1>1, ChatLists
<1> QED
  BY <1>1, <1>3, <1>4, ChatLeaves

LEMMA ChatVolume ==
  ASSUME Chat!NativeAssumption, ChatInv, NEW j \in Jobs, Chat!PublishVolume(j) PROVE ChatInv'
<1>1. /\ AccessFollows /\ UNCHANGED <<mode, epoch, turning, begun>> /\ doing[j].at = "publish"
      /\ chatSlot' \in Jobs \cup {Chat!Free} /\ doing' = [doing EXCEPT ![j] = Chat!Idle] /\ tokens' = tokens \ {j}
      /\ "files" \in Chat!Families
  BY DEF Chat!PublishVolume, Chat!Leave, Chat!End, Chat!perm, AccessFollows, ChatInv, ChatTyped,
     Chat!Families
<1>2. CASE ws' = ws /\ ids' = ids
  <2>1. ListsTyped /\ \A f \in Chat!Families : ListFollows(f)
    BY <1>2, ChatLists
  <2> QED
    BY <1>1, <2>1, ChatLeaves
<1>3. CASE /\ doing[j].bind = Chat!Bind /\ ids' = ids + 1
           /\ \E complete \in BOOLEAN :
                ws' = [ws EXCEPT !["files"] = [Chat!Listed(j) EXCEPT !.bound = doing[j].bind, !.eligible = complete]]
  <2>1. PICK complete \in BOOLEAN :
          ws' = [ws EXCEPT !["files"] = [Chat!Listed(j) EXCEPT !.bound = doing[j].bind, !.eligible = complete]]
    BY <1>3
  <2> DEFINE w == [Chat!Listed(j) EXCEPT !.bound = doing[j].bind, !.eligible = complete]
  <2>2. doing[j].bind \in Chat!Bindings
    BY <1>1, ChatKnown DEF InForce
  <2>3. w \in Chat!Lists' /\ w.plan = Chat!NoPlan /\ w.bound = doing[j].bind
    BY <1>1, <1>3, <2>2, ChatListed
  <2> HIDE DEF w
  <2>4. ListsTyped /\ ws'["files"] = w /\ \A f \in Chat!Families \ {"files"} : ListFollows(f)
    BY <1>1, <1>3, <2>1, <2>3, ChatLists DEF w
  <2>5. w # NoList
    BY <2>3 DEF Chat!Lists, NoList, Chat!None
  <2>6. ListFollows("files")
    BY <1>3, <2>3, <2>4, <2>5 DEF ListFollows
  <2>7. \A f \in Chat!Families : ListFollows(f)
    BY <2>4, <2>6
  <2> QED
    BY <1>1, <2>4, <2>7, ChatLeaves
<1> QED
  BY <1>2, <1>3 DEF Chat!PublishVolume, Chat!Authority

LEMMA ChatClaims ==
  ASSUME Chat!NativeAssumption, ChatInv, NEW j \in Jobs, Chat!Claim(j) PROVE ChatInv'
<1>1. /\ ids' = ids /\ AccessFollows /\ UNCHANGED <<mode, epoch, turning, begun>> /\ doing[j].at = "claim"
      /\ chatSlot' \in Jobs \cup {Chat!Free} /\ begun' \in 0..MaxJobs
  BY DEF Chat!Claim, Chat!Leave, Chat!perm, AccessFollows, ChatInv, ChatTyped
<1> DEFINE g == Chat!FamilyOf(doing[j].kind)
<1>2. g \in Chat!Families
  BY ChatOf
<1>3. CASE /\ ws[g] # NoList /\ ws[g].bound # NoList /\ ws[g].bound = Chat!Bind /\ tokens' = tokens
           /\ doing' = [doing EXCEPT ![j] = [@ EXCEPT !.at = "next", !.bind = ws[g].bound, !.left = NItems]]
           /\ ws' = [ws EXCEPT ![g] = IF g = "empty" THEN NoList ELSE [@ EXCEPT !.plan = Chat!NoPlan, !.sel = "none"]]
  <2> DEFINE w == [ws[g] EXCEPT !.sel = "none", !.plan = Chat!NoPlan]
             r == [doing[j] EXCEPT !.at = "next", !.bind = ws[g].bound, !.left = NItems]
  <2>1. ws[g] \in Chat!Lists /\ InForce(ws[g].bound)
    BY <1>2, <1>3 DEF ChatInv, ChatTyped
  <2>2. w \in Chat!Lists' /\ w.bound = ws[g].bound /\ w.plan = Chat!NoPlan
    <3>1. ids' \in {ids, ids + 1} /\ "none" \in Selections \cup {"none"}
      BY <1>1
    <3> QED
      BY <2>1, <3>1, ChatRecords
  <2>3. w.plan.id = 0
    BY <2>2, ChatNothing
  <2>4. doing[j] \in ChatJob
    BY <1>1, ChatKnown
  <2>5. doing' = [doing EXCEPT ![j] = r]
    BY <1>3 DEF ChatInv, ChatTyped
  <2>6. r \in ChatJob /\ r.at = "next" /\ r.bind = ws[g].bound /\ r.stop = doing[j].stop
    <3>1. ws[g].bound \in Chat!Bindings /\ NItems \in Int /\ "next" \in ChatStages
      BY <2>1 DEF InForce, Chat!NativeAssumption, ChatStages
    <3> HIDE DEF g, w
    <3> QED
      BY <2>4, <3>1 DEF ChatJob
  <2>7. ListsTyped /\ \A f \in Chat!Families : ListFollows(f)
    <3>1. CASE g = "empty"
      <4>1. ws' = [ws EXCEPT ![g] = NoList]
        BY <1>3, <3>1
      <4> HIDE DEF g
      <4> QED
        BY <1>1, <1>2, <4>1, ChatForgets
    <3>2. CASE g # "empty"
      <4>1. ws' = [ws EXCEPT ![g] = w]
        BY <1>3, <3>2 DEF ChatInv, ChatTyped
      <4> HIDE DEF g, w
      <4> QED
        BY <1>1, <1>2, <1>3, <2>2, <2>3, <4>1, ChatChanges
    <3> QED
      BY <3>1, <3>2
  <2>8. r.bind.epoch = epoch
    BY <1>3, <2>6 DEF Chat!Bind
  <2>9. j \in tokens' \/ r.stop
    BY <1>1, <1>3, <2>6 DEF ChatInv, Registered
  <2> HIDE DEF r, g, w
  <2>10. JobFollows(j, r)
    BY <2>1, <2>6, <2>8, <2>9 DEF JobFollows, Confirming, Listing, OfItsKind
  <2> QED
    BY <1>1, <1>3, <2>5, <2>7, <2>10, ChatMove
<1>4. CASE ws' = ws /\ doing' = [doing EXCEPT ![j] = Chat!Idle] /\ tokens' = tokens \ {j}
  <2>1. ListsTyped /\ \A f \in Chat!Families : ListFollows(f)
    BY <1>1, <1>4, ChatLists
  <2> QED
    BY <1>1, <1>4, <2>1, ChatLeaves
<1> QED
  BY <1>3, <1>4 DEF Chat!Claim, Chat!Leave, Chat!End, Chat!Authority, NoList

LEMMA ChatMoves ==
  ASSUME Chat!NativeAssumption, ChatInv, NEW j \in Jobs, Chat!MoveItem(j) \/ Chat!EndMove(j) PROVE ChatInv'
<1>1. /\ ids' = ids /\ AccessFollows /\ UNCHANGED <<mode, epoch, turning, begun>> /\ doing[j].at \in {"item", "moved"}
      /\ chatSlot' \in Jobs \cup {Chat!Free} /\ begun' \in 0..MaxJobs /\ ws' \in {ws, [f \in Chat!Families |-> NoList]}
  BY DEF Chat!MoveItem, Chat!EndMove, Chat!Leave, Chat!perm, AccessFollows, ChatInv, ChatTyped,
     NoList
<1>2. ListsTyped /\ \A f \in Chat!Families : ListFollows(f)
  BY <1>1, ChatLists
<1>3. CASE Chat!MoveItem(j)
  <2> DEFINE r == [doing[j] EXCEPT !.at = "next", !.left = doing[j].left - 1]
  <2>1. doing[j] \in ChatJob /\ InForce(doing[j].bind)
    BY <1>1, ChatKnown
  <2>2. doing' = [doing EXCEPT ![j] = r] /\ tokens' = tokens /\ doing[j].at = "item"
    BY <1>3 DEF Chat!MoveItem, ChatInv, ChatTyped
  <2>3. r \in ChatJob /\ r.at = "next" /\ r.bind = doing[j].bind /\ r.stop = doing[j].stop
    <3>1. doing[j].left - 1 \in Int /\ "next" \in ChatStages
      BY <2>1 DEF ChatJob, ChatStages
    <3>2. \A n \in Int : LET v == [doing[j] EXCEPT !.at = "next", !.left = n]
                         IN v \in ChatJob /\ v.at = "next" /\ v.bind = doing[j].bind /\ v.stop = doing[j].stop
      BY <2>1, <3>1 DEF ChatJob
    <3> QED
      BY <3>1, <3>2
  <2> HIDE DEF r
  <2>4. j \in tokens' \/ r.stop
    BY <2>2, <2>3 DEF ChatInv, Registered
  <2>5. ~r.stop /\ turning # "flag" => r.bind.epoch = epoch
    BY <2>2, <2>3 DEF ChatInv, UnderPermission
  <2>6. JobFollows(j, r)
    BY <2>1, <2>3, <2>4, <2>5 DEF JobFollows, Confirming, Listing, OfItsKind
  <2> QED
    BY <1>1, <1>2, <2>2, <2>6, ChatMove
<1>4. CASE Chat!EndMove(j)
  <2>1. doing' = [doing EXCEPT ![j] = Chat!Idle] /\ tokens' = tokens \ {j}
    BY <1>4 DEF Chat!EndMove, Chat!Leave, Chat!End
  <2> QED
    BY <1>1, <1>2, <2>1, ChatLeaves
<1> QED
  BY <1>3, <1>4

-----------------------------------------------------------------------------
\* A job begins.

LEMMA ChatNew ==
  ASSUME Chat!NativeAssumption, ChatInv, NEW k \in ChatKinds
  PROVE  LET r == Chat!NewJob(k, Chat!Bind) IN
           r \in ChatJob /\ r.at = "begin" /\ r.kind = k /\ r.bind = Chat!Bind /\ InForce(r.bind)
<1>1. mode \in Chat!Modes /\ epoch \in 0..MaxModes
  BY DEF ChatInv, ChatTyped
<1>2. Chat!Bind \in Chat!Bindings /\ InForce(Chat!Bind)
  BY <1>1 DEF InForce, Chat!Bind, Chat!Bindings, Chat!NativeAssumption
<1>3. Chat!EffectiveRoot(Chat!Bind) \in Chat!Scopes
  BY DEF Chat!EffectiveRoot, Chat!Scopes, ChatInv, ChatTyped, Opened, NoList
<1> QED
  BY <1>2, <1>3 DEF Chat!NewJob, ChatJob, ChatStages, ChatPlans

LEMMA ChatStarts ==
  ASSUME Chat!NativeAssumption, ChatInv, NEW j \in Jobs, NEW k \in Chat!JobKinds, Chat!Start(j, k) PROVE ChatInv'
<1> DEFINE r == Chat!NewJob(k, Chat!Bind)
<1>1. /\ ids' = ids /\ AccessFollows /\ UNCHANGED <<mode, epoch, turning, tokens>> /\ ws' = ws
      /\ chatSlot' \in Jobs \cup {Chat!Free} /\ doing' = [doing EXCEPT ![j] = r]
  BY DEF Chat!Start, Chat!perm, AccessFollows, ChatInv, ChatTyped
<1>2. begun' \in 0..MaxJobs
  BY DEF Chat!Start, ChatInv, ChatTyped, Chat!NativeAssumption
<1>3. ListsTyped /\ \A f \in Chat!Families : ListFollows(f)
  BY <1>1, ChatLists
<1>4. r \in ChatJob /\ r.at = "begin" /\ InForce(r.bind)
  BY ChatNew DEF Chat!JobKinds, ChatKinds
<1> HIDE DEF r
<1>5. JobFollows(j, r)
  BY <1>4 DEF JobFollows, Confirming, Listing, OfItsKind
<1> QED
  BY <1>1, <1>2, <1>3, <1>5, ChatMove

LEMMA ChatConfirms ==
  ASSUME Chat!NativeAssumption, ChatInv, NEW j \in Jobs, NEW g \in Chat!Families, NEW a \in BOOLEAN,
         Chat!StartConfirm(j, g, a)
  PROVE  ChatInv'
<1> DEFINE k == IF g = "files" THEN "confirm" ELSE "confirmEmpty"
           n == Chat!NewJob(k, Chat!Bind)
           r == [n EXCEPT !.at = "slot", !.plan = <<ws[g].plan.id, a>>]
<1>1. /\ ids' = ids /\ AccessFollows /\ UNCHANGED <<mode, epoch, turning, tokens>> /\ ws' = ws
      /\ chatSlot' \in Jobs \cup {Chat!Free} /\ doing' = [doing EXCEPT ![j] = r]
  BY DEF Chat!StartConfirm, Chat!perm, AccessFollows, ChatInv, ChatTyped
<1>2. begun' \in 0..MaxJobs
  BY DEF Chat!StartConfirm, ChatInv, ChatTyped, Chat!NativeAssumption
<1>3. ListsTyped /\ \A f \in Chat!Families : ListFollows(f)
  BY <1>1, ChatLists
<1>4. k \in ChatKinds
  BY DEF ChatKinds
<1>5. n \in ChatJob /\ n.bind = Chat!Bind /\ InForce(n.bind)
  BY <1>4, ChatNew
<1>6. ws[g] \in Chat!Lists /\ ws[g].plan # Chat!NoPlan
  BY DEF Chat!StartConfirm, ChatInv, ChatTyped, NoList
<1>7. ws[g].plan.id \in 1..ids
  BY <1>6 DEF Chat!Lists, Chat!Plans
<1>8. <<ws[g].plan.id, a>> \in ChatPlans
  BY <1>7 DEF ChatPlans, ChatInv, ChatTyped
<1>9. a = TRUE => mode = "full_access"
  BY DEF Chat!StartConfirm
<1> HIDE DEF n, k
<1>10. r \in ChatJob /\ r.at = "slot" /\ r.bind = Chat!Bind /\ r.plan = <<ws[g].plan.id, a>> /\ InForce(r.bind)
  BY <1>5, <1>8 DEF ChatJob, ChatStages
<1> HIDE DEF r
<1>11. JobFollows(j, r)
  BY <1>7, <1>9, <1>10 DEF JobFollows, Confirming, Listing, OfItsKind
<1> QED
  BY <1>1, <1>2, <1>3, <1>11, ChatMove

-----------------------------------------------------------------------------
\* Commands of the window change a list, and no job.

LEMMA WindowMove ==
  ASSUME Chat!NativeAssumption, ChatInv, doing' = doing, UNCHANGED <<mode, epoch, turning, tokens, access, chatSlot, begun>>,
         ListsTyped, \A f \in Chat!Families : ListFollows(f)
  PROVE  ChatInv'
<1>1. PICK j \in Jobs : TRUE
  BY DEF Chat!NativeAssumption
<1> DEFINE r == doing[j]
<1>2. doing' = [doing EXCEPT ![j] = r] /\ begun' \in 0..MaxJobs /\ chatSlot' \in Jobs \cup {Chat!Free} /\ AccessFollows
  BY DEF ChatInv, ChatTyped, AccessFollows
<1>3. r = Chat!Idle \/ JobFollows(j, r)
  <2>1. r # Chat!Idle => r \in ChatJob /\ InForce(r.bind) /\ OfItsKind(r)
    BY DEF ChatInv, ChatTyped, Named
  <2>2. /\ r.at \in {"claim", "next", "item"} => j \in tokens' \/ r.stop
        /\ r.at \in {"next", "item"} /\ ~r.stop /\ turning # "flag" => r.bind.epoch = epoch
    BY DEF ChatInv, Registered, UnderPermission
  <2> QED
    BY <2>1, <2>2 DEF JobFollows
<1> HIDE DEF r
<1> QED
  BY <1>2, <1>3, ChatMove

LEMMA ChatWindow ==
  ASSUME Chat!NativeAssumption, ChatInv,
         Chat!WindowSelects \/ Chat!WindowPlansEmpty \/ \E f \in Chat!Families : Chat!WindowReads(f)
  PROVE  ChatInv'
<1>1. /\ doing' = doing /\ UNCHANGED <<mode, epoch, turning, tokens, access, chatSlot, begun>>
      /\ {"files", "empty"} = Chat!Families
  BY DEF Chat!WindowSelects, Chat!WindowPlansEmpty, Chat!WindowReads, Chat!perm, Chat!Families
<1>2. CASE Chat!WindowSelects
  <2>1. PICK s \in Selections : ws' = [ws EXCEPT !["files"] = [@ EXCEPT !.sel = s, !.plan = Chat!NoPlan]]
    BY <1>2 DEF Chat!WindowSelects
  <2> DEFINE w == [ws["files"] EXCEPT !.sel = s, !.plan = Chat!NoPlan]
  <2>2. ws["files"] # NoList /\ ids' = ids
    BY <1>2 DEF Chat!WindowSelects, NoList
  <2>3. ws' = [ws EXCEPT !["files"] = w] /\ ws["files"] \in Chat!Lists
    BY <1>1, <2>1, <2>2 DEF ChatInv, ChatTyped
  <2>4. w \in Chat!Lists' /\ w.bound = ws["files"].bound /\ w.plan = Chat!NoPlan
    <3>1. ids' \in {ids, ids + 1} /\ s \in Selections \cup {"none"}
      BY <2>2
    <3>2. \A t \in Selections \cup {"none"} :
            LET v == [ws["files"] EXCEPT !.sel = t, !.plan = Chat!NoPlan]
            IN v \in Chat!Lists' /\ v.bound = ws["files"].bound /\ v.plan = Chat!NoPlan
      BY <2>3, <3>1, ChatRecords
    <3> QED
      BY <3>1, <3>2
  <2> HIDE DEF w
  <2>5. w.plan.id = 0
    BY <2>4, ChatNothing
  <2>6. ListsTyped /\ \A f \in Chat!Families : ListFollows(f)
    BY <1>1, <2>2, <2>3, <2>4, <2>5, ChatChanges
  <2> QED
    BY <1>1, <2>6, WindowMove
<1>3. CASE Chat!WindowPlansEmpty
  <2> DEFINE w == [ws["empty"] EXCEPT !.plan = [id |-> ids + 1, sel |-> ws["empty"].sel]]
  <2>1. ws["empty"] # NoList /\ ids' = ids + 1
    BY <1>3 DEF Chat!WindowPlansEmpty, NoList
  <2>2. ws' = [ws EXCEPT !["empty"] = w] /\ ws["empty"] \in Chat!Lists
    BY <1>1, <1>3, <2>1 DEF Chat!WindowPlansEmpty, ChatInv, ChatTyped
  <2>3. w \in Chat!Lists' /\ w.bound = ws["empty"].bound /\ w.plan.id = ids + 1
    BY <2>1, <2>2, ChatRecords
  <2> HIDE DEF w
  <2>4. ListsTyped /\ \A f \in Chat!Families : ListFollows(f)
    BY <1>1, <2>1, <2>2, <2>3, ChatChanges
  <2> QED
    BY <1>1, <2>4, WindowMove
<1>4. CASE \E f \in Chat!Families : Chat!WindowReads(f)
  <2>1. PICK f \in Chat!Families : ws' = [ws EXCEPT ![f] = NoList] /\ ids' = ids
    BY <1>4 DEF Chat!WindowReads, NoList
  <2>2. ListsTyped /\ \A g \in Chat!Families : ListFollows(g)
    BY <2>1, ChatForgets
  <2> QED
    BY <1>1, <2>2, WindowMove
<1> QED
  BY <1>2, <1>3, <1>4

-----------------------------------------------------------------------------
\* The change of the mode.

LEMMA ChatTurns == ASSUME Chat!NativeAssumption, ChatInv, Chat!ChangeMode PROVE ChatInv'
<1>1. /\ epoch' = epoch + 1 /\ epoch' \in 0..MaxModes /\ epoch \in Nat /\ mode' \in Chat!Modes /\ turning' = "flag"
      /\ UNCHANGED <<tokens, access, ws, chatSlot, doing, ids, begun>>
  BY DEF Chat!ChangeMode, ChatInv, ChatTyped, Chat!NativeAssumption
<1>2. \A b : InForce(b) => InForce(b)' /\ b.epoch # epoch'
  <2>1. \A b \in Chat!Bindings : b.epoch \in Nat
    BY ChatNothing
  <2> QED
    BY <1>1, <2>1 DEF InForce, Chat!Bindings, Chat!Modes
<1>3. Chat!Lists' = Chat!Lists /\ NoList' = NoList /\ ChatJob' = ChatJob /\ Opened' = Opened
  BY <1>1 DEF Chat!Lists, Chat!Plans, NoList, Chat!None, ChatJob, Opened, Chat!Bindings,
     Chat!Modes, Chat!Scopes
<1>4. ChatTyped'
  <2>1. (access = NoList \/ (access \in Opened /\ InForce(access.bind)))'
    BY <1>1, <1>2, <1>3 DEF ChatInv, ChatTyped
  <2>2. (\A f \in Chat!Families : ws[f] # NoList /\ ws[f].bound # NoList => InForce(ws[f].bound))'
    BY <1>1, <1>2, <1>3 DEF ChatInv, ChatTyped, Chat!Families
  <2>3. (\A j \in Jobs : doing[j] # Chat!Idle => InForce(doing[j].bind))'
    BY <1>1, <1>2 DEF ChatInv, ChatTyped, Chat!Idle
  <2>4. doing' \in [Jobs -> ChatJob' \cup {Chat!Idle'}] /\ ws' \in [Chat!Families' -> Chat!Lists' \cup {NoList'}]
    BY <1>1, <1>3 DEF ChatInv, ChatTyped, Chat!Idle, Chat!Families
  <2> QED
    BY <1>1, <2>1, <2>2, <2>3, <2>4 DEF ChatInv, ChatTyped, Chat!Modes, Chat!Free
<1>5. Named' /\ BoundBefore' /\ Registered'
  BY <1>1 DEF ChatInv, Named, OfItsKind, Confirming, BoundBefore, Listing, Names, Registered,
     Chat!FamilyOf, NoList,
     Chat!None
<1>6. NamesCurrent'
  <2>1. ASSUME NEW f \in Chat!Families, ws[f] # NoList, ws[f].bound # NoList
        PROVE  ws[f].bound.epoch # epoch'
    BY <1>2, <2>1 DEF ChatInv, ChatTyped
  <2>2. SUFFICES ASSUME NEW j \in Jobs, NEW f, f = Chat!FamilyOf(doing[j].kind),
                        ws[f] # NoList, ws[f].bound # NoList, ws[f].bound.epoch = epoch'
                 PROVE  FALSE
    BY <1>1, <1>3 DEF NamesCurrent, Names, Chat!FamilyOf
  <2>3. f \in Chat!Families
    BY <2>2, ChatOf
  <2> QED
    BY <2>1, <2>2, <2>3
<1> QED
  BY <1>1, <1>4, <1>5, <1>6 DEF ChatInv, UnderPermission, Forgotten

\* A change that leaves the jobs alone.
LEMMA ChatForgotten == ASSUME ChatInv, Chat!ForgetAccess \/ Chat!ForgetWorkspaces PROVE ChatInv'
<1>1. /\ UNCHANGED <<mode, epoch, tokens, chatSlot, doing, ids, begun>> /\ access' \in {access, NoList}
      /\ ws' \in {ws, [f \in Chat!Families |-> NoList]} /\ turning \in {"access", "files"} /\ turning' \in {"files", "done"}
  BY DEF Chat!ForgetAccess, Chat!ForgetWorkspaces, NoList
<1>2. \A f \in Chat!Families : ws'[f] = ws[f] \/ ws'[f] = NoList
  BY <1>1
<1>3. \A b : InForce(b)' <=> InForce(b)
  BY <1>1 DEF InForce, Chat!Bindings, Chat!Modes
<1>4. /\ Chat!Lists' = Chat!Lists /\ NoList' = NoList /\ ChatJob' = ChatJob /\ Opened' = Opened
      /\ Chat!Families' = Chat!Families /\ Chat!Idle' = Chat!Idle
  BY <1>1 DEF Chat!Lists, Chat!Plans, NoList, Chat!None, ChatJob, Opened, Chat!Bindings,
     Chat!Modes, Chat!Scopes,
     Chat!Families, Chat!Idle
<1>5. ChatTyped'
  <2>1. (access = NoList \/ (access \in Opened /\ InForce(access.bind)))'
    BY <1>1, <1>3, <1>4 DEF ChatInv, ChatTyped
  <2>2. (\A f \in Chat!Families : ws[f] # NoList /\ ws[f].bound # NoList => InForce(ws[f].bound))'
    BY <1>2, <1>3, <1>4 DEF ChatInv, ChatTyped
  <2>3. (\A j \in Jobs : doing[j] # Chat!Idle => InForce(doing[j].bind))'
    BY <1>1, <1>3, <1>4 DEF ChatInv, ChatTyped
  <2>4. ws' \in [Chat!Families -> Chat!Lists \cup {NoList}]
    BY <1>1 DEF ChatInv, ChatTyped
  <2> QED
    BY <1>1, <1>4, <2>1, <2>2, <2>3, <2>4 DEF ChatInv, ChatTyped, Chat!Modes, Chat!Free
<1>6. Named' /\ Registered' /\ UnderPermission'
  BY <1>1 DEF ChatInv, Named, OfItsKind, Confirming, Registered, UnderPermission
<1>7. \A k : Chat!FamilyOf(k)' = Chat!FamilyOf(k)
  BY DEF Chat!FamilyOf
<1>8. BoundBefore'
  <2>1. SUFFICES ASSUME NEW j \in Jobs, NEW k \in Jobs, NEW f, f = Chat!FamilyOf(doing[j].kind),
                        f = Chat!FamilyOf(doing[k].kind), Confirming(doing[j]), Listing(doing[k]),
                        ws'[f] # NoList, ws'[f].plan.id = doing[j].plan[1]
                 PROVE  doing[k].bind.epoch <= doing[j].bind.epoch
    BY <1>1, <1>4, <1>7 DEF BoundBefore, Confirming, Listing, Names
  <2>2. ws'[f] = ws[f]
    BY <1>2, <2>1, ChatOf
  <2> QED
    BY <2>1, <2>2 DEF ChatInv, BoundBefore, Names
<1>9. NamesCurrent'
  <2>1. SUFFICES ASSUME NEW j \in Jobs, NEW f, f = Chat!FamilyOf(doing[j].kind), Confirming(doing[j]),
                        ws'[f] # NoList, ws'[f].plan.id = doing[j].plan[1], ws'[f].bound # NoList,
                        ws'[f].bound.epoch = epoch
                 PROVE  doing[j].bind.epoch = epoch
    BY <1>1, <1>4, <1>7 DEF NamesCurrent, Confirming, Names
  <2>2. ws'[f] = ws[f]
    BY <1>2, <2>1, ChatOf
  <2> QED
    BY <2>1, <2>2 DEF ChatInv, NamesCurrent, Names
<1>10. Forgotten'
  <2>1. turning' = "done" => \A f \in Chat!Families : ws'[f] = NoList
    BY DEF Chat!ForgetAccess, Chat!ForgetWorkspaces, NoList
  <2>2. access' # NoList => turning = "files" /\ access' = access
    BY <1>1 DEF Chat!ForgetAccess, Chat!ForgetWorkspaces, NoList
  <2> QED
    BY <1>1, <1>4, <2>1, <2>2 DEF ChatInv, Forgotten
<1> QED
  BY <1>5, <1>6, <1>8, <1>9, <1>10 DEF ChatInv

\* The registered jobs are stopped: what is not stopped has no claim.
LEMMA ChatFlags == ASSUME ChatInv, Chat!FlagJobs PROVE ChatInv'
<1>1. /\ UNCHANGED <<mode, epoch, access, ws, chatSlot, ids, begun>> /\ tokens' = {} /\ turning' = "access"
      /\ doing' = [j \in Jobs |-> IF j \in tokens THEN [doing[j] EXCEPT !.stop = TRUE] ELSE doing[j]]
      /\ turning = "flag"
  BY DEF Chat!FlagJobs
<1>2. [Chat!Idle EXCEPT !.stop = TRUE] = Chat!Idle
  BY DEF Chat!Idle
<1>3. ASSUME NEW j \in Jobs
      PROVE  /\ doing'[j] \in ChatJob \cup {Chat!Idle} /\ (doing'[j] = Chat!Idle <=> doing[j] = Chat!Idle)
             /\ doing'[j].at = doing[j].at
             /\ doing[j] # Chat!Idle =>
                  /\ doing'[j].kind = doing[j].kind /\ doing'[j].bind = doing[j].bind /\ doing'[j].plan = doing[j].plan
                  /\ doing'[j].stop = TRUE \/ (j \notin tokens /\ doing'[j].stop = doing[j].stop)
  <2>1. CASE doing[j] = Chat!Idle
    <3>1. doing'[j] = Chat!Idle
      BY <1>1, <1>2, <2>1
    <3> QED
      BY <2>1, <3>1
  <2>2. CASE doing[j] # Chat!Idle
    <3>1. doing[j] \in ChatJob
      BY <2>2 DEF ChatInv, ChatTyped
    <3> DEFINE r == [doing[j] EXCEPT !.stop = TRUE]
    <3>2. /\ r \in ChatJob /\ r.at = doing[j].at /\ r.kind = doing[j].kind /\ r.bind = doing[j].bind
          /\ r.plan = doing[j].plan /\ r.stop = TRUE
      BY <3>1 DEF ChatJob
    <3> HIDE DEF r
    <3>3. doing'[j] = IF j \in tokens THEN r ELSE doing[j]
      BY <1>1 DEF r
    <3>4. r # Chat!Idle
      BY <3>2, ChatNothing
    <3> QED
      BY <2>2, <3>1, <3>2, <3>3, <3>4
  <2> QED
    BY <2>1, <2>2
<1>4. \A b : InForce(b)' <=> InForce(b)
  BY <1>1 DEF InForce, Chat!Bindings, Chat!Modes
<1>5. /\ Chat!Lists' = Chat!Lists /\ NoList' = NoList /\ ChatJob' = ChatJob /\ Opened' = Opened
      /\ Chat!Families' = Chat!Families /\ Chat!Idle' = Chat!Idle
  BY <1>1 DEF Chat!Lists, Chat!Plans, NoList, Chat!None, ChatJob, Opened, Chat!Bindings,
     Chat!Modes, Chat!Scopes,
     Chat!Families, Chat!Idle
<1>6. ChatTyped'
  <2>1. doing' \in [Jobs -> ChatJob \cup {Chat!Idle}]
    BY <1>1, <1>3
  <2>2. (\A j \in Jobs : doing[j] # Chat!Idle => InForce(doing[j].bind))'
    BY <1>3, <1>4, <1>5 DEF ChatInv, ChatTyped
  <2>3. (access = NoList \/ (access \in Opened /\ InForce(access.bind)))'
    BY <1>1, <1>4, <1>5 DEF ChatInv, ChatTyped
  <2>4. (\A f \in Chat!Families : ws[f] # NoList /\ ws[f].bound # NoList => InForce(ws[f].bound))'
    BY <1>1, <1>4, <1>5 DEF ChatInv, ChatTyped
  <2> QED
    BY <1>1, <1>5, <2>1, <2>2, <2>3, <2>4 DEF ChatInv, ChatTyped, Chat!Modes, Chat!Free
<1>7. ASSUME NEW j \in Jobs
      PROVE  /\ Confirming(doing'[j]) <=> Confirming(doing[j])
             /\ Listing(doing'[j]) <=> Listing(doing[j])
             /\ OfItsKind(doing'[j])
             /\ Confirming(doing[j]) \/ Listing(doing[j]) => doing[j] # Chat!Idle
  <2>1. CASE doing[j] = Chat!Idle
    BY <1>3, <2>1, ChatNothing DEF Confirming, Listing, OfItsKind
  <2>2. CASE doing[j] # Chat!Idle
    BY <1>3, <2>2 DEF Confirming, Listing, OfItsKind, ChatInv, Named
  <2> QED
    BY <2>1, <2>2
<1>8. Named'
  <2>1. SUFFICES ASSUME NEW j \in Jobs, Confirming(doing[j])
                 PROVE  doing'[j].plan[1] \in 1..ids /\ (doing'[j].plan[2] = TRUE => doing'[j].bind.mode = "full_access")
    BY <1>1, <1>7 DEF Named, OfItsKind, Confirming
  <2> QED
    BY <1>3, <1>7, <2>1 DEF ChatInv, Named
<1>9. \A k : Chat!FamilyOf(k)' = Chat!FamilyOf(k)
  BY DEF Chat!FamilyOf
<1>10. BoundBefore'
  <2>1. SUFFICES ASSUME NEW j \in Jobs, NEW k \in Jobs, Confirming(doing'[j]), Listing(doing'[k]),
                        Chat!FamilyOf(doing'[j].kind) = Chat!FamilyOf(doing'[k].kind), NEW f,
                        f = Chat!FamilyOf(doing'[j].kind), ws[f] # NoList, ws[f].plan.id = doing'[j].plan[1]
                 PROVE  doing'[k].bind.epoch <= doing'[j].bind.epoch
    BY <1>1, <1>5, <1>9 DEF BoundBefore, Confirming, Listing, Names
  <2>2. doing[j] # Chat!Idle /\ doing[k] # Chat!Idle /\ Confirming(doing[j]) /\ Listing(doing[k])
    BY <1>7, <2>1
  <2> QED
    BY <1>3, <2>1, <2>2 DEF ChatInv, BoundBefore, Names
<1>11. NamesCurrent'
  <2>1. SUFFICES ASSUME NEW j \in Jobs, Confirming(doing'[j]), NEW f, f = Chat!FamilyOf(doing'[j].kind),
                        ws[f] # NoList, ws[f].plan.id = doing'[j].plan[1], ws[f].bound # NoList,
                        ws[f].bound.epoch = epoch
                 PROVE  doing'[j].bind.epoch = epoch
    BY <1>1, <1>5, <1>9 DEF NamesCurrent, Confirming, Names
  <2>2. doing[j] # Chat!Idle /\ Confirming(doing[j])
    BY <1>7, <2>1
  <2> QED
    BY <1>3, <2>1, <2>2 DEF ChatInv, NamesCurrent, Names
<1>12. \A j \in Jobs : doing'[j].at \in {"claim", "next", "item"} => doing'[j].stop
  <2>1. SUFFICES ASSUME NEW j \in Jobs, doing[j].at \in {"claim", "next", "item"}
                 PROVE  doing'[j].stop
    BY <1>3
  <2>2. doing[j] # Chat!Idle
    BY <2>1, ChatNothing
  <2> QED
    BY <1>3, <2>1, <2>2 DEF ChatInv, Registered
<1>13. Registered' /\ UnderPermission' /\ Forgotten'
  BY <1>1, <1>12 DEF Registered, UnderPermission, Forgotten
<1> QED
  BY <1>6, <1>8, <1>10, <1>11, <1>13 DEF ChatInv

LEMMA ChatSteps == ASSUME Chat!NativeAssumption, ChatInv, [Chat!Next]_(Chat!vars) PROVE ChatInv'
<1>1. CASE UNCHANGED Chat!vars
  <2>1. /\ UNCHANGED <<mode, epoch, turning, tokens, access, chatSlot, begun>> /\ doing' = doing /\ ws' = ws /\ ids' = ids
    BY <1>1 DEF Chat!vars
  <2>2. ListsTyped /\ \A f \in Chat!Families : ListFollows(f)
    BY <2>1, ChatLists
  <2> QED
    BY <2>1, <2>2, WindowMove
<1>2. ASSUME NEW j \in Jobs, Chat!Steps(j) PROVE ChatInv'
  BY <1>2, ChatDispatches, ChatComes, ChatEnters, ChatAdmits, ChatWorks, ChatStores, ChatSelects,
     ChatCopies,
     ChatPlansIt, ChatChooses, ChatPublishes, ChatVolumes, ChatVolume, ChatClaims, ChatMoves DEF
     Chat!Steps
<1>3. CASE Chat!ChangeMode \/ Chat!FlagJobs \/ Chat!ForgetAccess \/ Chat!ForgetWorkspaces
  BY <1>3, ChatTurns, ChatFlags, ChatForgotten
<1>4. CASE Chat!WindowSelects \/ Chat!WindowPlansEmpty \/ \E f \in Chat!Families : Chat!WindowReads(f)
  BY <1>4, ChatWindow
<1>5. ASSUME NEW j \in Jobs, NEW k \in Chat!JobKinds, Chat!Start(j, k) PROVE ChatInv'
  BY <1>5, ChatStarts
<1>6. ASSUME NEW j \in Jobs, NEW f \in Chat!Families, NEW a \in BOOLEAN, Chat!StartConfirm(j, f, a)
      PROVE  ChatInv'
  BY <1>6, ChatConfirms
<1> QED
  BY <1>1, <1>2, <1>3, <1>4, <1>5, <1>6 DEF Chat!Next

-----------------------------------------------------------------------------
\* What the invariant means for the properties of the model.

LEMMA ChatTypes == ASSUME Chat!NativeAssumption PROVE ChatInv => Chat!TypeOK
<1> SUFFICES ASSUME ChatInv PROVE Chat!TypeOK
  OBVIOUS
<1>1. \A j \in Jobs : doing[j].at # "idle" => doing[j].bind \in Chat!Bindings /\ doing[j].root \in Chat!Scopes
  BY ChatKnown DEF InForce, ChatJob
<1>2. access = Chat!None \/ access \in [kind : {"volumes"}, bind : Chat!Bindings, root : Chat!Scopes]
  BY DEF ChatInv, ChatTyped, NoList, Opened
<1>3. \A f \in Chat!Families : ws[f] = Chat!None \/ ws[f] \in Chat!Lists
  BY DEF ChatInv, ChatTyped, NoList
<1> QED
  BY <1>1, <1>2, <1>3 DEF ChatInv, ChatTyped, Chat!TypeOK

LEMMA BoundIsCurrent == ChatInv => Chat!BoundListIsCurrent
BY DEF ChatInv, Forgotten, NoList, Chat!BoundListIsCurrent, Chat!EpochCurrent

\* A step changes one job, and only these two end where a move goes on.
LEMMA OneChatJob ==
  ASSUME ChatInv, NEW j \in Jobs, NEW k \in Jobs,
         \/ Chat!Steps(k)
         \/ \E x \in Chat!JobKinds : Chat!Start(k, x)
         \/ \E f \in Chat!Families, a \in BOOLEAN : Chat!StartConfirm(k, f, a)
  PROVE  doing'[j] = doing[j] \/ (j = k /\ (doing[j].at = "claim" => Chat!Claim(j)) /\ (doing[j].at = "next" => Chat!NextItem(j)))
<1>1. CASE j # k
  BY <1>1 DEF Chat!Steps, Chat!Start, Chat!StartConfirm, Chat!DispatchFiles, Chat!DispatchEmpty,
     Chat!BeginList,
     Chat!OpenVolume, Chat!BeginPrepare, Chat!TakeSlot, Chat!RegisterJob, Chat!Admit, Chat!Work,
     Chat!WorkEnds,
     Chat!Store, Chat!SelectNamed, Chat!CopySelection, Chat!Verify, Chat!StorePlan, Chat!EndJob,
     Chat!Choose,
     Chat!Publish, Chat!PublishVolumes, Chat!PublishVolume, Chat!Claim, Chat!NextItem,
     Chat!MoveItem, Chat!EndMove,
     Chat!Go, Chat!Leave, Chat!End, ChatInv, ChatTyped
<1>2. CASE j = k
  <2>1. CASE \/ \E x \in Chat!JobKinds : Chat!Start(k, x)
             \/ \E f \in Chat!Families, a \in BOOLEAN : Chat!StartConfirm(k, f, a)
    BY <1>2, <2>1 DEF Chat!Start, Chat!StartConfirm
  <2>2. CASE \/ Chat!DispatchFiles(k) \/ Chat!DispatchEmpty(k) \/ Chat!BeginList(k) \/ Chat!OpenVolume(k)
             \/ Chat!BeginPrepare(k) \/ Chat!TakeSlot(k) \/ Chat!RegisterJob(k) \/ Chat!Admit(k)
    BY <1>2, <2>2 DEF Chat!DispatchFiles, Chat!DispatchEmpty, Chat!BeginList, Chat!OpenVolume,
       Chat!BeginPrepare,
       Chat!TakeSlot, Chat!RegisterJob, Chat!Admit
  <2>3. CASE \/ Chat!Work(k) \/ Chat!WorkEnds(k) \/ Chat!Store(k) \/ Chat!SelectNamed(k) \/ Chat!CopySelection(k)
             \/ Chat!Verify(k) \/ Chat!StorePlan(k) \/ Chat!EndJob(k) \/ Chat!Choose(k)
    BY <1>2, <2>3 DEF Chat!Work, Chat!WorkEnds, Chat!Store, Chat!SelectNamed,
       Chat!CopySelection, Chat!Verify,
       Chat!StorePlan, Chat!EndJob, Chat!Choose
  <2>4. CASE \/ Chat!Publish(k) \/ Chat!PublishVolumes(k) \/ Chat!PublishVolume(k) \/ Chat!MoveItem(k)
             \/ Chat!EndMove(k)
    BY <1>2, <2>4 DEF Chat!Publish, Chat!PublishVolumes, Chat!PublishVolume, Chat!MoveItem,
       Chat!EndMove
  <2>5. CASE Chat!Claim(k)
    BY <1>2, <2>5 DEF Chat!Claim
  <2>6. CASE Chat!NextItem(k)
    BY <1>2, <2>6 DEF Chat!NextItem
  <2> QED
    BY <2>1, <2>2, <2>3, <2>4, <2>5, <2>6 DEF Chat!Steps
<1> QED
  BY <1>1, <1>2

\* A step of something else leaves every job where it is.
LEMMA OtherChatSteps ==
  ASSUME ChatInv, NEW j \in Jobs,
         \/ Chat!ChangeMode \/ Chat!FlagJobs \/ Chat!ForgetAccess \/ Chat!ForgetWorkspaces \/ Chat!WindowSelects
         \/ Chat!WindowPlansEmpty \/ UNCHANGED Chat!vars \/ \E f \in Chat!Families : Chat!WindowReads(f)
  PROVE  doing'[j].at = doing[j].at
<1>1. CASE Chat!FlagJobs
  <2>1. doing'[j] = IF j \in tokens THEN [doing[j] EXCEPT !.stop = TRUE] ELSE doing[j]
    BY <1>1 DEF Chat!FlagJobs
  <2>2. doing[j] \in ChatJob \cup {Chat!Idle}
    BY DEF ChatInv, ChatTyped
  <2>3. [Chat!Idle EXCEPT !.stop = TRUE] = Chat!Idle
    BY DEF Chat!Idle
  <2> QED
    BY <2>1, <2>2, <2>3 DEF ChatJob
<1>2. CASE ~Chat!FlagJobs
  BY <1>2 DEF Chat!ChangeMode, Chat!ForgetAccess, Chat!ForgetWorkspaces, Chat!WindowSelects,
     Chat!WindowPlansEmpty,
     Chat!WindowReads, Chat!vars
<1> QED
  BY <1>1, <1>2

LEMMA ItemIsPermitted == ASSUME ChatInv, [Chat!Next]_(Chat!vars) PROVE Chat!ItemUnderPermission
<1>1. SUFFICES ASSUME NEW j \in Jobs, doing[j].at = "next", doing'[j].at = "item"
               PROVE  doing[j].bind.epoch = epoch \/ turning = "flag"
  BY DEF Chat!ItemUnderPermission, Chat!EpochCurrent
<1>2. Chat!NextItem(j)
  BY <1>1, OneChatJob, OtherChatSteps DEF Chat!Next
<1>3. ~doing[j].stop
  <2>1. doing[j].stop => doing'[j].at = "moved"
    BY <1>2 DEF Chat!NextItem, Chat!Go, ChatInv, ChatTyped, ChatJob, Chat!Idle
  <2> QED
    BY <1>1, <2>1
<1> QED
  BY <1>1, <1>3 DEF ChatInv, UnderPermission

LEMMA ClaimIsPermitted ==
  ASSUME Chat!NativeAssumption, ChatInv, [Chat!Next]_(Chat!vars)
  PROVE  Chat!ClaimUnderFullAccess
<1>1. SUFFICES ASSUME NEW j \in Jobs, doing[j].at = "claim", doing'[j].at = "next", doing[j].plan[2]
               PROVE  mode = "full_access"
  BY DEF Chat!ClaimUnderFullAccess
<1>2. Chat!Claim(j)
  BY <1>1, OneChatJob, OtherChatSteps DEF Chat!Next
<1> DEFINE f == Chat!FamilyOf(doing[j].kind)
<1>3. doing' # [doing EXCEPT ![j] = Chat!Idle]
  BY <1>1 DEF Chat!Idle, ChatInv, ChatTyped
<1>4. /\ ws[f] # NoList /\ ws[f].bound # NoList /\ ws[f].bound = Chat!Bind /\ ws[f].plan.id = doing[j].plan[1]
  BY <1>2, <1>3 DEF Chat!Claim, Chat!Leave, Chat!End, Chat!Authority, NoList
<1>5. doing[j] # Chat!Idle /\ Confirming(doing[j])
  BY <1>1, ChatNothing DEF ChatInv, Named, OfItsKind, Confirming
<1>6. doing[j].bind.epoch = epoch
  BY <1>4, <1>5 DEF ChatInv, NamesCurrent, Names, Chat!Bind
<1>7. InForce(doing[j].bind)
  BY <1>5 DEF ChatInv, ChatTyped
<1> QED
  BY <1>1, <1>5, <1>6, <1>7 DEF ChatInv, Named, InForce

\* For any commands, selections and changes of the mode: what is bound after a
\* change is through is of the present mode, no confirmation claimed under an
\* earlier mode starts another item once the jobs were flagged, and a move that
\* the model starts on its own is claimed under full access (assistant_files.rs,
\* assistant_access.rs, control_server.rs:545-608).
THEOREM ChatSafety ==
  ASSUME Chat!NativeAssumption
  PROVE  Chat!Spec =>
           /\ [](Chat!TypeOK /\ Chat!BoundListIsCurrent)
           /\ Chat!RevokedChatMovesNothing /\ Chat!AutomaticNeedsFullAccess
<1>1. Chat!Init => ChatInv
  BY ChatBegins
<1>2. ChatInv /\ [Chat!Next]_(Chat!vars) => ChatInv'
  BY ChatSteps
<1>3. ChatInv => Chat!TypeOK /\ Chat!BoundListIsCurrent
  BY ChatTypes, BoundIsCurrent
<1>4. ChatInv /\ [Chat!Next]_(Chat!vars) => [Chat!ItemUnderPermission]_(Chat!vars) /\ [Chat!ClaimUnderFullAccess]_(Chat!vars)
  BY ItemIsPermitted, ClaimIsPermitted
<1> QED
  BY <1>1, <1>2, <1>3, <1>4, PTL DEF Chat!Spec, Chat!RevokedChatMovesNothing,
     Chat!AutomaticNeedsFullAccess
=============================================================================
