---------------------------- MODULE MCJobsProofs ----------------------------
(***************************************************************************)
(* What the runs check of the parts of MCParts that do something, the jobs *)
(* and their moves and the programs that are called, as consequences of    *)
(* what is proved of the components. Each instance of a component is shown *)
(* to be the one that the proofs are about, its part to keep the invariant *)
(* of the proofs, and the property of the run to follow from it. The       *)
(* proofs hold for every value of the constants of a component, so nothing *)
(* here depends on how small the instances are. A module of proofs is      *)
(* about several components: what an instance of it does not use is 0.     *)
(***************************************************************************)
EXTENDS MCParts, TLAPS

-----------------------------------------------------------------------------
\* A behaviour is about one part.
LEMMA PartStays == [Next]_vars => part' = part
BY DEF Next, vars

-----------------------------------------------------------------------------
(* The jobs of the control server.                                           *)

\* What is proved of the jobs, of the emptying, of the moves and of the files of a conversation.
J == INSTANCE ControlOperationsProofs WITH
  Ops <- {x1, x2}, Window <- Window, NoWork <- NoWork, Requests <- {q}, NoRequest <-
  NoRequest, Callers <- {c}, MaxCompleted <- 1, holder <- s1, committing <- s2, stopped <-
  s3, shut <- s4, active <- s5, marked <- s6, history <- s7, authorities <- s8, requests <-
  s9, stage <- s10, owner <- s11, kind <- s12, request <- s13, outcome <- s14, pc <- s15,
  ref <- s16, answer <- s17, resent <- s18, evicted <- s19, Calls <- {x1, x2}, NoCall <-
  none, MaxRequests <- 3, trashSlot <- s1, trashFlag <- s2, trashPlans <- s3, pending <- s4,
  unconfirmed <- s5, call <- s6, worker <- s7, atWork <- s8, Apps <- {"a", "b"}, Kinds <-
  {"cache"}, MaxLists <- 1, MaxPlans <- 2, MaxChanges <- 2, app <- s1, data <- s2, inventory
  <- s3, inner <- s4, work <- s5, needs <- s6, late <- s7, moved <- s8, lists <- s9, issued
  <- s10, changes <- s11, Paths <- {x1, x2, x3}, Contents <- {y1, y2}, NoKeeper <- none,
  MaxEdits <- 1, fs <- s1, edits <- s2, group <- s3, phase <- s4, keeper <- s5, todo <- s6,
  queue <- s7, step <- s8, held <- s9, snapshot <- s10, quiet <- s11, trashed <- s12,
  Entries <- {"a", "b", "c", "d"}, Dirs <- {"d"}, Top <- "top", Parent <- InFolder,
  Protected <- {"b"}, ReviewKinds <- {"folder", "tree", "cleanup", "empty"}, MaxEntries <-
  4, MaxMeddling <- 2, stamps <- s1, meddled <- s2, reviewed <- s3, reported <- s4, walking
  <- s5, stack <- s6, got <- s7, shown <- s8, undisturbed <- s9, gone <- s10, Jobs <- {x1,
  x2}, Selections <- {"a", "b"}, NItems <- 1, MaxJobs <- 2, MaxModes <- 2, mode <- s1, epoch
  <- s2, turning <- s3, tokens <- s4, access <- s5, ws <- s6, chatSlot <- s7, doing <- s8,
  ids <- s9, begun <- s10

\* Operations here is what the proofs are about.
LEMMA OperationsIsThat ==
  /\ J!OperationAssumption
  /\ Operations!Init => J!Init
  /\ [Operations!Next]_(Operations!vars) => [J!Next]_(J!vars)
  /\ J!TypeOK => Operations!TypeOK
  /\ J!LookupNeverMisses => Operations!LookupNeverMisses
  /\ J!VisibleHasOwner => Operations!VisibleHasOwner
  /\ J!ActiveHoldsSlot => Operations!ActiveHoldsSlot
  /\ J!MarkedScanNeverCompletes => Operations!MarkedScanNeverCompletes
<1>1. /\ J!OperationAssumption
      /\ (Operations!Init => J!Init)
      /\ (UNCHANGED Operations!vars => UNCHANGED J!vars)
      /\ (J!TypeOK => Operations!TypeOK)
      /\ (J!LookupNeverMisses => Operations!LookupNeverMisses)
      /\ (J!VisibleHasOwner => Operations!VisibleHasOwner)
      /\ (J!ActiveHoldsSlot => Operations!ActiveHoldsSlot)
      /\ (J!MarkedScanNeverCompletes => Operations!MarkedScanNeverCompletes)
  BY Assumptions DEF Operations!OperationAssumption, J!OperationAssumption, Operations!slot,
     J!slot, Operations!store, J!store, Operations!jobs, J!jobs, Operations!calls, J!calls,
     Operations!vars, J!vars, Operations!Stages, J!Stages, Operations!Outcomes, J!Outcomes,
     Operations!Places, J!Places, Operations!TypeOK, J!TypeOK, Operations!Init, J!Init,
     Operations!Commits, J!Commits, Operations!LookupNeverMisses, J!LookupNeverMisses,
     Operations!VisibleHasOwner, J!VisibleHasOwner, Operations!ActiveHoldsSlot, J!ActiveHoldsSlot,
     Operations!MarkedScanNeverCompletes, J!MarkedScanNeverCompletes, Operations!Range, J!Range,
     Operations!Slot!TypeOK, J!Slot!TypeOK, Operations!Slot!Init, J!Slot!Init
<1>2. Operations!Next => J!Next
  BY DEF Operations!slot, J!slot, Operations!store, J!store, Operations!jobs, J!jobs,
     Operations!calls, J!calls, Operations!MaxAuthorities, J!MaxAuthorities, Operations!Push,
     J!Push, Operations!Retain, J!Retain, Operations!Commits, J!Commits, Operations!To, J!To,
     Operations!AskStart, J!AskStart, Operations!ReserveSlot, J!ReserveSlot,
     Operations!RefuseStart, J!RefuseStart, Operations!StartOperation, J!StartOperation,
     Operations!SpawnWorker, J!SpawnWorker, Operations!Flagged, J!Flagged, Operations!EndWork,
     J!EndWork, Operations!CommitScan, J!CommitScan, Operations!StoreScan, J!StoreScan,
     Operations!HaltWork, J!HaltWork, Operations!EndIndex, J!EndIndex, Operations!FinishOperation,
     J!FinishOperation, Operations!ReleaseSlot, J!ReleaseSlot, Operations!Goto, J!Goto,
     Operations!Answer, J!Answer, Operations!Ask, J!Ask, Operations!Resend, J!Resend,
     Operations!Authorize, J!Authorize, Operations!CancelSlot, J!CancelSlot,
     Operations!MarkCancelled, J!MarkCancelled, Operations!LookupOrder, J!LookupOrder,
     Operations!Found, J!Found, Operations!Tell, J!Tell, Operations!Look, J!Look,
     Operations!CheckOwner, J!CheckOwner, Operations!WindowTakes, J!WindowTakes,
     Operations!WindowReleases, J!WindowReleases, Operations!WindowStops, J!WindowStops,
     Operations!Close, J!Close, Operations!Run, J!Run, Operations!Next, J!Next, Operations!Range,
     J!Range, Operations!Slot!Take, J!Slot!Take, Operations!Slot!Stop, J!Slot!Stop,
     Operations!Slot!Commit, J!Slot!Commit, Operations!Slot!Release, J!Slot!Release,
     Operations!Slot!Shut, J!Slot!Shut
<1> QED
  BY <1>1, <1>2

OperationsInv == part = "operations" => J!IInv /\ J!RecordInv

\* The part begins and goes on with its invariant.
LEMMA OperationsBegins == Init => OperationsInv
BY OperationsIsThat, J!InitInv, J!RecordInit DEF Init, OperationsInv

LEMMA OperationsMoves == part = "operations" /\ [Next]_vars => [Operations!Next]_(Operations!vars)
BY DEF Next, vars, Operations!vars, Operations!slot, Operations!store, Operations!jobs,
   Operations!calls

LEMMA OperationsGoes == OperationsInv /\ [Next]_vars => OperationsInv'
BY PartStays, OperationsIsThat, OperationsMoves, J!StepInv, J!RecordStep DEF OperationsInv

\* What the invariant says of the part.
LEMMA OperationsHolds ==
  OperationsInv /\ part = "operations" => Operations!TypeOK /\ Operations!LookupNeverMisses /\
    Operations!VisibleHasOwner /\ Operations!ActiveHoldsSlot /\
    Operations!MarkedScanNeverCompletes
BY OperationsIsThat, J!OperationTypes, J!OwnersAreKept, J!ActiveHasTheSlot, J!MarksAreKept DEF
   OperationsInv, J!RecordInv

-----------------------------------------------------------------------------
(* Emptying the trash of the system.                                         *)

\* Empty here is what the proofs are about.
LEMMA EmptyIsThat ==
  /\ J!Empty!EmptyAssumption
  /\ Empty!Init => J!Empty!Init
  /\ [Empty!Next]_(Empty!vars) => [J!Empty!Next]_(J!Empty!vars)
  /\ J!Empty!TypeOK => Empty!TypeOK
  /\ J!Empty!OneRequestAtWork => Empty!OneRequestAtWork
<1>1. /\ J!Empty!EmptyAssumption
      /\ (Empty!Init => J!Empty!Init)
      /\ (UNCHANGED Empty!vars => UNCHANGED J!Empty!vars)
      /\ (J!Empty!TypeOK => Empty!TypeOK)
      /\ (J!Empty!OneRequestAtWork => Empty!OneRequestAtWork)
  BY Assumptions DEF Empty!EmptyAssumption, J!Empty!EmptyAssumption, Empty!vars, J!Empty!vars,
     Empty!NoPlan, J!Empty!NoPlan, Empty!Outcomes, J!Empty!Outcomes, Empty!Idle, J!Empty!Idle,
     Empty!Init, J!Empty!Init, Empty!TypeOK, J!Empty!TypeOK, Empty!OneRequestAtWork,
     J!Empty!OneRequestAtWork, Empty!Cardinality, J!Empty!Cardinality
<1>2. Empty!Next => J!Empty!Next
  BY DEF Empty!NoPlan, J!Empty!NoPlan, Empty!Outcomes, J!Empty!Outcomes, Empty!Idle, J!Empty!Idle,
     Empty!Prepare, J!Empty!Prepare, Empty!Dismiss, J!Empty!Dismiss, Empty!Expire, J!Empty!Expire,
     Empty!FreeWith, J!Empty!FreeWith, Empty!Begin, J!Empty!Begin, Empty!Leave, J!Empty!Leave,
     Empty!TakePlan, J!Empty!TakePlan, Empty!Claim, J!Empty!Claim, Empty!Commit, J!Empty!Commit,
     Empty!Ask, J!Empty!Ask, Empty!Answer, J!Empty!Answer, Empty!SystemEnds, J!Empty!SystemEnds,
     Empty!Record, J!Empty!Record, Empty!End, J!Empty!End, Empty!WorkerEnds, J!Empty!WorkerEnds,
     Empty!WorkerFails, J!Empty!WorkerFails, Empty!Return, J!Empty!Return, Empty!Drop,
     J!Empty!Drop, Empty!Cancel, J!Empty!Cancel, Empty!Next, J!Empty!Next
<1> QED
  BY <1>1, <1>2

EmptyInv == part = "empty" => J!EmptyInv

\* The part begins and goes on with its invariant.
LEMMA EmptyBegins == Init => EmptyInv
BY EmptyIsThat, J!EmptyInit DEF Init, EmptyInv

LEMMA EmptyMoves == part = "empty" /\ [Next]_vars => [Empty!Next]_(Empty!vars)
BY DEF Next, vars, Empty!vars

LEMMA EmptyGoes == EmptyInv /\ [Next]_vars => EmptyInv'
BY PartStays, EmptyIsThat, EmptyMoves, J!EmptyStep DEF EmptyInv

\* What the invariant says of the part.
LEMMA EmptyHolds == EmptyInv /\ part = "empty" => Empty!TypeOK /\ Empty!OneRequestAtWork
BY EmptyIsThat, J!AloneIsOne DEF EmptyInv, J!EmptyInv

\* Of any requests to empty the trash of the system one is at work.
THEOREM OneRequestSafety == Spec => []OneRequestAtWork
<1>1. EmptyInv => OneRequestAtWork
  BY EmptyHolds DEF OneRequestAtWork, EmptyInv
<1> QED
  BY <1>1, EmptyBegins, EmptyGoes, PTL DEF Spec

-----------------------------------------------------------------------------
(* The removal of applications.                                              *)

\* Removal here is what the proofs are about.
LEMMA RemovalIsThat ==
  /\ J!Removal!RemovalAssumption
  /\ Removal!Init => J!Removal!Init
  /\ [Removal!Next]_(Removal!vars) => [J!Removal!Next]_(J!Removal!vars)
  /\ J!Removal!TypeOK => Removal!TypeOK
  /\ J!Removal!RemovalIsAsReviewed => Removal!RemovalIsAsReviewed
<1>1. /\ J!Removal!RemovalAssumption
      /\ (Removal!Init => J!Removal!Init)
      /\ (UNCHANGED Removal!vars => UNCHANGED J!Removal!vars)
      /\ (J!Removal!TypeOK => Removal!TypeOK)
      /\ (J!Removal!RemovalIsAsReviewed => Removal!RemovalIsAsReviewed)
  BY Assumptions DEF Removal!RemovalAssumption, J!Removal!RemovalAssumption, Removal!vars,
     J!Removal!vars, Removal!NoPlan, J!Removal!NoPlan, Removal!NoItems, J!Removal!NoItems,
     Removal!NoEntries, J!Removal!NoEntries, Removal!Empty, J!Removal!Empty, Removal!Idle,
     J!Removal!Idle, Removal!Init, J!Removal!Init, Removal!TypeOK, J!Removal!TypeOK,
     Removal!RemovalIsAsReviewed, J!Removal!RemovalIsAsReviewed, Removal!Cardinality,
     J!Removal!Cardinality
<1>2. Removal!Next => J!Removal!Next
  BY DEF Removal!NoPlan, J!Removal!NoPlan, Removal!NoItems, J!Removal!NoItems, Removal!NoEntries,
     J!Removal!NoEntries, Removal!Empty, J!Removal!Empty, Removal!Idle, J!Removal!Idle,
     Removal!Disk, J!Removal!Disk, Removal!Ghosts, J!Removal!Ghosts, Removal!Counts,
     J!Removal!Counts, Removal!Free, J!Removal!Free, Removal!End, J!Removal!End, Removal!Go,
     J!Removal!Go, Removal!Record, J!Removal!Record, Removal!Entry, J!Removal!Entry,
     Removal!Owners, J!Removal!Owners, Removal!Load, J!Removal!Load, Removal!Clear,
     J!Removal!Clear, Removal!Published, J!Removal!Published, Removal!Publish, J!Removal!Publish,
     Removal!Cache, J!Removal!Cache, Removal!Current, J!Removal!Current, Removal!UniqueOwner,
     J!Removal!UniqueOwner, Removal!Candidates, J!Removal!Candidates, Removal!Inspect,
     J!Removal!Inspect, Removal!Collect, J!Removal!Collect, Removal!Keep, J!Removal!Keep,
     Removal!Prepare, J!Removal!Prepare, Removal!DataCurrent, J!Removal!DataCurrent, Removal!Take,
     J!Removal!Take, Removal!Store, J!Removal!Store, Removal!Confirm, J!Removal!Confirm,
     Removal!Claim, J!Removal!Claim, Removal!Items, J!Removal!Items, Removal!Arm, J!Removal!Arm,
     Removal!Commit, J!Removal!Commit, Removal!Revalidated, J!Removal!Revalidated, Removal!Seen,
     J!Removal!Seen, Removal!Check, J!Removal!Check, Removal!Gone, J!Removal!Gone, Removal!Native,
     J!Removal!Native, Removal!Recorded, J!Removal!Recorded, Removal!Report, J!Removal!Report,
     Removal!Panic, J!Removal!Panic, Removal!Cancel, J!Removal!Cancel, Removal!Dismiss,
     J!Removal!Dismiss, Removal!ChangeApp, J!Removal!ChangeApp, Removal!ChangeData,
     J!Removal!ChangeData, Removal!Settle, J!Removal!Settle, Removal!Restart, J!Removal!Restart,
     Removal!Next, J!Removal!Next, Removal!Cardinality, J!Removal!Cardinality
<1> QED
  BY <1>1, <1>2

RemovalInv == part = "removal" => J!RemovalInv

\* The part begins and goes on with its invariant.
LEMMA RemovalBegins == Init => RemovalInv
BY RemovalIsThat, J!RemovalBegins DEF Init, RemovalInv

LEMMA RemovalMoves == part = "removal" /\ [Next]_vars => [Removal!Next]_(Removal!vars)
BY DEF Next, vars, Removal!vars

LEMMA RemovalGoes == RemovalInv /\ [Next]_vars => RemovalInv'
BY PartStays, RemovalIsThat, RemovalMoves, J!RemovalSteps DEF RemovalInv

\* What the invariant says of the part.
LEMMA RemovalHolds ==
  RemovalInv /\ part = "removal" => Removal!TypeOK /\ Removal!RemovalIsAsReviewed
BY RemovalIsThat, J!RemovalTypes, J!RemovalAgrees DEF RemovalInv

-----------------------------------------------------------------------------
(* The move of duplicates.                                                   *)

\* Copies here is what the proofs are about.
LEMMA CopiesIsThat ==
  /\ J!Trash!TrashAssumption
  /\ Copies!Init => J!Trash!Init
  /\ [Copies!Next]_(Copies!vars) => [J!Trash!Next]_(J!Trash!vars)
  /\ J!Trash!TypeOK => Copies!TypeOK
  /\ J!Trash!MovedFileHasACopy => Copies!MovedFileHasACopy
<1>1. /\ J!Trash!TrashAssumption
      /\ (Copies!Init => J!Trash!Init)
      /\ (UNCHANGED Copies!vars => UNCHANGED J!Trash!vars)
      /\ (J!Trash!TypeOK => Copies!TypeOK)
      /\ (J!Trash!MovedFileHasACopy => Copies!MovedFileHasACopy)
  BY Assumptions DEF Copies!TrashAssumption, J!Trash!TrashAssumption, Copies!disk, J!Trash!disk,
     Copies!job, J!Trash!job, Copies!vars, J!Trash!vars, Copies!Gone, J!Trash!Gone,
     Copies!Present, J!Trash!Present, Copies!Init, J!Trash!Init, Copies!TypeOK, J!Trash!TypeOK,
     Copies!MovedFileHasACopy, J!Trash!MovedFileHasACopy, Copies!Cardinality, J!Trash!Cardinality,
     Copies!IsFiniteSet, J!Trash!IsFiniteSet
<1>2. Copies!Next => J!Trash!Next
  BY DEF Copies!disk, J!Trash!disk, Copies!job, J!Trash!job, Copies!Gone, J!Trash!Gone,
     Copies!Present, J!Trash!Present, Copies!Links, J!Trash!Links, Copies!Orders, J!Trash!Orders,
     Copies!Keepers, J!Trash!Keepers, Copies!RequestGroup, J!Trash!RequestGroup,
     Copies!RequestFile, J!Trash!RequestFile, Copies!Stop, J!Trash!Stop, Copies!File,
     J!Trash!File, Copies!Checking, J!Trash!Checking, Copies!Single, J!Trash!Single,
     Copies!Expected, J!Trash!Expected, Copies!Look, J!Trash!Look, Copies!Read, J!Trash!Read,
     Copies!Again, J!Trash!Again, Copies!Recheck, J!Trash!Recheck, Copies!Prepared,
     J!Trash!Prepared, Copies!Copies, J!Trash!Copies, Copies!Move, J!Trash!Move, Copies!Cancel,
     J!Trash!Cancel, Copies!Change, J!Trash!Change, Copies!Next, J!Trash!Next, Copies!Cardinality,
     J!Trash!Cardinality
<1> QED
  BY <1>1, <1>2

CopiesInv == part = "copies" => J!TrashInv

\* The part begins and goes on with its invariant.
LEMMA CopiesBegins == Init => CopiesInv
BY CopiesIsThat, J!TrashBegins DEF Init, CopiesInv

LEMMA CopiesMoves == part = "copies" /\ [Next]_vars => [Copies!Next]_(Copies!vars)
BY DEF Next, vars, Copies!vars, Copies!disk, Copies!job

LEMMA CopiesGoes == CopiesInv /\ [Next]_vars => CopiesInv'
BY PartStays, CopiesIsThat, CopiesMoves, J!TrashSteps DEF CopiesInv

\* What the invariant says of the part.
LEMMA CopiesHolds == CopiesInv /\ part = "copies" => Copies!TypeOK /\ Copies!MovedFileHasACopy
BY CopiesIsThat, J!TrashJobTypes DEF CopiesInv, J!TrashInv

-----------------------------------------------------------------------------
(* The move of a folder.                                                     *)

\* Folder here is what the proofs are about.
LEMMA FolderIsThat ==
  /\ J!Snap!FolderAssumption
  /\ Folder!Init => J!Snap!Init
  /\ [Folder!Next]_(Folder!vars) => [J!Snap!Next]_(J!Snap!vars)
  /\ J!Snap!TypeOK => Folder!TypeOK
  /\ J!Snap!ReviewedFolderMoves => Folder!ReviewedFolderMoves
<1>1. /\ J!Snap!FolderAssumption
      /\ (Folder!Init => J!Snap!Init)
      /\ (UNCHANGED Folder!vars => UNCHANGED J!Snap!vars)
      /\ (J!Snap!TypeOK => Folder!TypeOK)
      /\ (J!Snap!ReviewedFolderMoves => Folder!ReviewedFolderMoves)
  BY Assumptions DEF Folder!AllKinds, J!Snap!AllKinds, Folder!FolderAssumption,
     J!Snap!FolderAssumption, Folder!disk, J!Snap!disk, Folder!walk, J!Snap!walk, Folder!vars,
     J!Snap!vars, Folder!Folders, J!Snap!Folders, Folder!There, J!Snap!There, Folder!Prints,
     J!Snap!Prints, Folder!Nothing, J!Snap!Nothing, Folder!NodeOf, J!Snap!NodeOf, Folder!Init,
     J!Snap!Init, Folder!TypeOK, J!Snap!TypeOK, Folder!ReviewedFolderMoves,
     J!Snap!ReviewedFolderMoves, Folder!Cardinality, J!Snap!Cardinality, Folder!IsFiniteSet,
     J!Snap!IsFiniteSet
<1>2. Folder!Next => J!Snap!Next
  BY DEF Folder!disk, J!Snap!disk, Folder!walk, J!Snap!walk, Folder!In, J!Snap!In, Folder!There,
     J!Snap!There, Folder!Under, J!Snap!Under, Folder!Prints, J!Snap!Prints, Folder!NodeOf,
     J!Snap!NodeOf, Folder!Walking, J!Snap!Walking, Folder!Frame, J!Snap!Frame, Folder!Start,
     J!Snap!Start, Folder!Refuse, J!Snap!Refuse, Folder!Deepest, J!Snap!Deepest, Folder!Put,
     J!Snap!Put, Folder!Allowed, J!Snap!Allowed, Folder!Next1, J!Snap!Next1, Folder!SameFrame,
     J!Snap!SameFrame, Folder!Close, J!Snap!Close, Folder!Order, J!Snap!Order, Folder!Prepare,
     J!Snap!Prepare, Folder!Matches, J!Snap!Matches, Folder!Captured, J!Snap!Captured,
     Folder!Audited, J!Snap!Audited, Folder!Revalidate, J!Snap!Revalidate, Folder!Same,
     J!Snap!Same, Folder!Recheck, J!Snap!Recheck, Folder!Move, J!Snap!Move, Folder!Cancel,
     J!Snap!Cancel, Folder!Stamped, J!Snap!Stamped, Folder!Change, J!Snap!Change, Folder!Next,
     J!Snap!Next, Folder!Cardinality, J!Snap!Cardinality, Folder!Last, J!Snap!Last, Folder!Front,
     J!Snap!Front
<1> QED
  BY <1>1, <1>2

FolderInv == part = "folder" => J!WalkInv

\* The part begins and goes on with its invariant.
LEMMA FolderBegins == Init => FolderInv
BY FolderIsThat, J!WalkBegins DEF Init, FolderInv

LEMMA FolderMoves == part = "folder" /\ [Next]_vars => [Folder!Next]_(Folder!vars)
BY DEF Next, vars, Folder!vars, Folder!disk, Folder!walk

LEMMA FolderGoes == FolderInv /\ [Next]_vars => FolderInv'
BY PartStays, FolderIsThat, FolderMoves, J!WalkSteps DEF FolderInv

\* What the invariant says of the part.
LEMMA FolderHolds == FolderInv /\ part = "folder" => Folder!TypeOK /\ Folder!ReviewedFolderMoves
BY FolderIsThat, J!WalkTypes, J!FoldersAgree DEF FolderInv

\* What is moved is as it was reviewed, and a copy of a duplicate stays.
THEOREM MovesSafety == Spec => []MovesAreAsReviewed
<1>1. FolderInv /\ RemovalInv /\ CopiesInv => MovesAreAsReviewed
  BY FolderHolds, RemovalHolds, CopiesHolds DEF MovesAreAsReviewed, FolderInv, RemovalInv,
     CopiesInv
<1> QED
  BY <1>1, FolderBegins, FolderGoes, RemovalBegins, RemovalGoes, CopiesBegins, CopiesGoes, PTL DEF
     Spec

-----------------------------------------------------------------------------
(* The files of a conversation.                                              *)

\* Chat here is what the proofs are about.
LEMMA ChatIsThat ==
  /\ J!Chat!NativeAssumption
  /\ Chat!Init => J!Chat!Init
  /\ [Chat!Next]_(Chat!vars) => [J!Chat!Next]_(J!Chat!vars)
  /\ J!Chat!TypeOK => Chat!TypeOK
  /\ J!Chat!BoundListIsCurrent => Chat!BoundListIsCurrent
  /\ J!Chat!ItemUnderPermission => Chat!ItemUnderPermission
  /\ J!Chat!ClaimUnderFullAccess => Chat!ClaimUnderFullAccess
<1>1. /\ J!Chat!NativeAssumption
      /\ (Chat!Init => J!Chat!Init)
      /\ (UNCHANGED Chat!vars => UNCHANGED J!Chat!vars)
      /\ (J!Chat!TypeOK => Chat!TypeOK)
      /\ (J!Chat!BoundListIsCurrent => Chat!BoundListIsCurrent)
      /\ (J!Chat!ItemUnderPermission => Chat!ItemUnderPermission)
      /\ (J!Chat!ClaimUnderFullAccess => Chat!ClaimUnderFullAccess)
  BY Assumptions DEF Chat!NativeAssumption, J!Chat!NativeAssumption, Chat!Modes, J!Chat!Modes,
     Chat!Families, J!Chat!Families, Chat!vars, J!Chat!vars, Chat!None, J!Chat!None, Chat!NoPlan,
     J!Chat!NoPlan, Chat!Free, J!Chat!Free, Chat!Idle, J!Chat!Idle, Chat!EpochCurrent,
     J!Chat!EpochCurrent, Chat!Init, J!Chat!Init, Chat!Bindings, J!Chat!Bindings, Chat!Plans,
     J!Chat!Plans, Chat!Scopes, J!Chat!Scopes, Chat!Lists, J!Chat!Lists, Chat!TypeOK,
     J!Chat!TypeOK, Chat!ItemUnderPermission, J!Chat!ItemUnderPermission,
     Chat!ClaimUnderFullAccess, J!Chat!ClaimUnderFullAccess, Chat!BoundListIsCurrent,
     J!Chat!BoundListIsCurrent
<1>2. Chat!Next => J!Chat!Next
  BY DEF Chat!Modes, J!Chat!Modes, Chat!Families, J!Chat!Families, Chat!AllowsReview,
     J!Chat!AllowsReview, Chat!None, J!Chat!None, Chat!NoPlan, J!Chat!NoPlan, Chat!Free,
     J!Chat!Free, Chat!Idle, J!Chat!Idle, Chat!Bind, J!Chat!Bind, Chat!EpochCurrent,
     J!Chat!EpochCurrent, Chat!Authority, J!Chat!Authority, Chat!ChangeMode, J!Chat!ChangeMode,
     Chat!FlagJobs, J!Chat!FlagJobs, Chat!ForgetAccess, J!Chat!ForgetAccess,
     Chat!ForgetWorkspaces, J!Chat!ForgetWorkspaces, Chat!perm, J!Chat!perm, Chat!Go, J!Chat!Go,
     Chat!End, J!Chat!End, Chat!Holds, J!Chat!Holds, Chat!Leave, J!Chat!Leave, Chat!Stopped,
     J!Chat!Stopped, Chat!Listed, J!Chat!Listed, Chat!EffectiveRoot, J!Chat!EffectiveRoot,
     Chat!FamilyOf, J!Chat!FamilyOf, Chat!NewJob, J!Chat!NewJob, Chat!Start, J!Chat!Start,
     Chat!DispatchFiles, J!Chat!DispatchFiles, Chat!DispatchEmpty, J!Chat!DispatchEmpty,
     Chat!BeginList, J!Chat!BeginList, Chat!OpenVolume, J!Chat!OpenVolume, Chat!BeginPrepare,
     J!Chat!BeginPrepare, Chat!TakeSlot, J!Chat!TakeSlot, Chat!RegisterJob, J!Chat!RegisterJob,
     Chat!Admit, J!Chat!Admit, Chat!StopNow, J!Chat!StopNow, Chat!Work, J!Chat!Work,
     Chat!WorkEnds, J!Chat!WorkEnds, Chat!Store, J!Chat!Store, Chat!SelectNamed,
     J!Chat!SelectNamed, Chat!CopySelection, J!Chat!CopySelection, Chat!Verify, J!Chat!Verify,
     Chat!StorePlan, J!Chat!StorePlan, Chat!EndJob, J!Chat!EndJob, Chat!Choose, J!Chat!Choose,
     Chat!Publish, J!Chat!Publish, Chat!PublishVolumes, J!Chat!PublishVolumes, Chat!PublishVolume,
     J!Chat!PublishVolume, Chat!WindowSelects, J!Chat!WindowSelects, Chat!WindowPlansEmpty,
     J!Chat!WindowPlansEmpty, Chat!WindowReads, J!Chat!WindowReads, Chat!StartConfirm,
     J!Chat!StartConfirm, Chat!Claim, J!Chat!Claim, Chat!NextItem, J!Chat!NextItem, Chat!MoveItem,
     J!Chat!MoveItem, Chat!EndMove, J!Chat!EndMove, Chat!JobKinds, J!Chat!JobKinds, Chat!Steps,
     J!Chat!Steps, Chat!Next, J!Chat!Next
<1> QED
  BY <1>1, <1>2

ChatInv == part = "chat" => J!ChatInv

\* The part begins and goes on with its invariant.
LEMMA ChatBegins == Init => ChatInv
BY ChatIsThat, J!ChatBegins DEF Init, ChatInv

LEMMA ChatMoves == part = "chat" /\ [Next]_vars => [Chat!Next]_(Chat!vars)
BY DEF Next, vars, Chat!vars

LEMMA ChatGoes == ChatInv /\ [Next]_vars => ChatInv'
BY PartStays, ChatIsThat, ChatMoves, J!ChatSteps DEF ChatInv

\* What the invariant says of the part.
LEMMA ChatHolds == ChatInv /\ part = "chat" => Chat!TypeOK /\ Chat!BoundListIsCurrent
BY ChatIsThat, J!ChatTypes, J!BoundIsCurrent DEF ChatInv

\* What a step of the part may not do.
LEMMA ChatDoes ==
  ChatInv /\ part = "chat" /\ [Next]_vars => Chat!ItemUnderPermission /\ Chat!ClaimUnderFullAccess
BY ChatIsThat, ChatMoves, J!ItemIsPermitted, J!ClaimIsPermitted DEF ChatInv

\* A conversation moves what its permission allows.
THEOREM ChatSafety == Spec => ChatMovesUnderPermission
<1>1. ChatInv /\ part = "chat" => Chat!TypeOK /\ Chat!BoundListIsCurrent
  BY ChatHolds
<1>2. ChatInv /\ [Next]_vars =>
  [part = "chat" => Chat!ItemUnderPermission /\ Chat!ClaimUnderFullAccess]_vars
  BY ChatDoes
<1> QED
  BY <1>1, <1>2, ChatBegins, ChatGoes, PTL DEF Spec, ChatMovesUnderPermission

-----------------------------------------------------------------------------
(* The questions to a provider.                                              *)

\* What is proved of a turn and of the programs that the application runs.
T == INSTANCE AssistantTurnProofs WITH
  Turns <- {x1, x2}, Actions <- {"a", "b"}, FileActions <- {"b"}, MaxActions <- 2,
  Candidates <- 2, MaxChanges <- 1, running <- s1, flag <- s2, registered <- s3, epoch <-
  s4, change <- s5, hand <- s6, turn <- s7, child <- s8, Docs <- {"d", "e"}, Structured <-
  {"e"}, MaxDocs <- 1, MaxWrites <- 3, MaxBuilds <- 2, disk <- s1, writes <- s2, rows <- s3,
  meta <- s4, build <- s5, helper <- s6, builds <- s7, MaxOutput <- 2, MaxErrors <- 2,
  Providers <- {"own", "stream"}, provider <- s1, at <- s2, cancellation <- s3, response <-
  s4, errors <- s5, process <- s6, success <- s7, program <- s8, text <- s9, answer <- s10,
  Runs <- {x1, x2}, NSteps <- 2, MaxPreviews <- 1, MaxSettings <- 1, enabled <- s1, saves <-
  s2, dockerRunning <- s3, dockerFlag <- s4, closed <- s5, exit <- s6, preview <- s7, ids <-
  s8, plan <- s9, shown <- s10, dockerEpoch <- s11, dockerChange <- s12, dockerRegistered <-
  s13, setter <- s14, maker <- s15, run <- s16, owner <- s17, dockerChild <- s18, Jobs <-
  {x1, x2}, NItems <- 1, MaxTrees <- 2, MaxSelects <- 1, MaxScans <- 1, tree <- s1, made <-
  s2, report <- s3, cleared <- s4, treeSlot <- s5, treeFlag <- s6, treeRegistered <- s7,
  treeEpoch <- s8, treeChange <- s9, job <- s10, Calls <- {x1, x2}, Ids <- {y1, y2},
  Answerers <- {"p"}, MaxSessions <- 1, MaxMessages <- 1, MaxWorkspaces <- 1, MaxCrashes <-
  1, None <- none, exists <- s1, version <- s2, sessions <- s3, messages <- s4, writer <-
  s5, call <- s6, used <- s7, told <- s8, workspaces <- s9, crashes <- s10

\* Turn here is what the proofs are about.
LEMMA TurnIsThat ==
  /\ T!TurnAssumption
  /\ Turn!Init => T!Init
  /\ [Turn!Next]_(Turn!vars) => [T!Next]_(T!vars)
  /\ T!TypeOK => Turn!TypeOK
  /\ T!StoppedTurnSaysNothing => Turn!StoppedTurnSaysNothing
  /\ T!ActionsFollowCompletedOnes => Turn!ActionsFollowCompletedOnes
  /\ T!NoProcessIsLeft => Turn!NoProcessIsLeft
<1>1. /\ T!TurnAssumption
      /\ (Turn!Init => T!Init)
      /\ (UNCHANGED Turn!vars => UNCHANGED T!vars)
      /\ (T!TypeOK => Turn!TypeOK)
      /\ (T!StoppedTurnSaysNothing => Turn!StoppedTurnSaysNothing)
      /\ (T!ActionsFollowCompletedOnes => Turn!ActionsFollowCompletedOnes)
      /\ (T!NoProcessIsLeft => Turn!NoProcessIsLeft)
  BY Assumptions DEF Turn!TurnAssumption, T!TurnAssumption, Turn!vars, T!vars, Turn!New, T!New,
     Turn!Init, T!Init, Turn!At, T!At, Turn!TypeOK, T!TypeOK, Turn!StoppedTurnSaysNothing,
     T!StoppedTurnSaysNothing, Turn!ActionsFollowCompletedOnes, T!ActionsFollowCompletedOnes,
     Turn!NoProcessIsLeft, T!NoProcessIsLeft
<1>2. Turn!Next => T!Next
  BY DEF Turn!New, T!New, Turn!At, T!At, Turn!Go, T!Go, Turn!Active, T!Active, Turn!Over, T!Over,
     Turn!Err, T!Err, Turn!others, T!others, Turn!Capture, T!Capture, Turn!Claim, T!Claim,
     Turn!Reset, T!Reset, Turn!Register, T!Register, Turn!Probe, T!Probe, Turn!ProbeEnds,
     T!ProbeEnds, Turn!Expire, T!Expire, Turn!Round, T!Round, Turn!ChildExits, T!ChildExits,
     Turn!KeepOrFail, T!KeepOrFail, Turn!ReadAnswer, T!ReadAnswer, Turn!GiveUp, T!GiveUp,
     Turn!Garbage, T!Garbage, Turn!Interpret, T!Interpret, Turn!Dispatch, T!Dispatch,
     Turn!NextRound, T!NextRound, Turn!Record, T!Record, Turn!Return, T!Return, Turn!Publish,
     T!Publish, Turn!Leave, T!Leave, Turn!Working, T!Working, Turn!Tell, T!Tell, Turn!CancelLooks,
     T!CancelLooks, Turn!CancelStores, T!CancelStores, Turn!ChangeMode, T!ChangeMode,
     Turn!FlagJobs, T!FlagJobs, Turn!Poll, T!Poll, Turn!Step, T!Step, Turn!Steps, T!Steps,
     Turn!Next, T!Next, Turn!Cardinality, T!Cardinality
<1> QED
  BY <1>1, <1>2

TurnInv == part = "turn" => T!IInv

\* The part begins and goes on with its invariant.
LEMMA TurnBegins == Init => TurnInv
BY TurnIsThat, T!InitInv DEF Init, TurnInv

LEMMA TurnMoves == part = "turn" /\ [Next]_vars => [Turn!Next]_(Turn!vars)
BY DEF Next, vars, Turn!vars

LEMMA TurnGoes == TurnInv /\ [Next]_vars => TurnInv'
BY PartStays, TurnIsThat, TurnMoves, T!StepInv DEF TurnInv

\* What the invariant says of the part.
LEMMA TurnHolds ==
  TurnInv /\ part = "turn" => Turn!TypeOK /\ Turn!StoppedTurnSaysNothing /\
    Turn!ActionsFollowCompletedOnes /\ Turn!NoProcessIsLeft
BY TurnIsThat, T!TurnTypes, T!StopsAreKept, T!FollowersAreKept, T!ProcessesEnd DEF TurnInv

\* A question that was stopped says nothing and leaves nothing behind.
THEOREM QuestionSafety == Spec => []TurnIsClosed
<1>1. TurnInv => TurnIsClosed
  BY TurnHolds DEF TurnIsClosed, TurnInv
<1> QED
  BY <1>1, TurnBegins, TurnGoes, PTL DEF Spec

-----------------------------------------------------------------------------
(* The index of documents.                                                   *)

\* Documents here is what the proofs are about.
LEMMA DocumentsIsThat ==
  /\ T!Index!IndexAssumption
  /\ Documents!Init => T!Index!Init
  /\ [Documents!Next]_(Documents!vars) => [T!Index!Next]_(T!Index!vars)
  /\ T!Index!TypeOK => Documents!TypeOK
  /\ T!Index!StampVouches => Documents!StampVouches
<1>1. /\ T!Index!IndexAssumption
      /\ (Documents!Init => T!Index!Init)
      /\ (UNCHANGED Documents!vars => UNCHANGED T!Index!vars)
      /\ (T!Index!TypeOK => Documents!TypeOK)
      /\ (T!Index!StampVouches => Documents!StampVouches)
  BY Assumptions DEF Documents!IndexAssumption, T!Index!IndexAssumption, Documents!vars,
     T!Index!vars, Documents!NoRows, T!Index!NoRows, Documents!NoMeta, T!Index!NoMeta,
     Documents!None, T!Index!None, Documents!NoChild, T!Index!NoChild, Documents!Init,
     T!Index!Init, Documents!TypeOK, T!Index!TypeOK, Documents!StampVouches, T!Index!StampVouches
<1>2. Documents!Next => T!Index!Next
  BY DEF Documents!NoRows, T!Index!NoRows, Documents!NoMeta, T!Index!NoMeta, Documents!None,
     T!Index!None, Documents!NoChild, T!Index!NoChild, Documents!Write, T!Index!Write,
     Documents!Begin, T!Index!Begin, Documents!Row, T!Index!Row, Documents!RowOf, T!Index!RowOf,
     Documents!Walking, T!Index!Walking, Documents!Skip, T!Index!Skip, Documents!With,
     T!Index!With, Documents!Store, T!Index!Store, Documents!Reusable, T!Index!Reusable,
     Documents!Visit, T!Index!Visit, Documents!ReadText, T!Index!ReadText, Documents!SpawnHelper,
     T!Index!SpawnHelper, Documents!HelperExits, T!Index!HelperExits, Documents!Result,
     T!Index!Result, Documents!GiveUp, T!Index!GiveUp, Documents!SeesExit, T!Index!SeesExit,
     Documents!Poll, T!Index!Poll, Documents!DropChild, T!Index!DropChild, Documents!Kill,
     T!Index!Kill, Documents!Join, T!Index!Join, Documents!Commit, T!Index!Commit, Documents!Stop,
     T!Index!Stop, Documents!BuildStep, T!Index!BuildStep, Documents!Next, T!Index!Next
<1> QED
  BY <1>1, <1>2

DocumentsInv == part = "documents" => T!IndexInv

\* The part begins and goes on with its invariant.
LEMMA DocumentsBegins == Init => DocumentsInv
BY DocumentsIsThat, T!IndexInit DEF Init, DocumentsInv

LEMMA DocumentsMoves == part = "documents" /\ [Next]_vars => [Documents!Next]_(Documents!vars)
BY DEF Next, vars, Documents!vars

LEMMA DocumentsGoes == DocumentsInv /\ [Next]_vars => DocumentsInv'
BY PartStays, DocumentsIsThat, DocumentsMoves, T!IndexStep DEF DocumentsInv

\* What the invariant says of the part.
LEMMA DocumentsHolds ==
  DocumentsInv /\ part = "documents" => Documents!TypeOK /\ Documents!StampVouches
BY DocumentsIsThat, T!IndexTypes, T!StampsAreKept DEF DocumentsInv

\* The text of a document is that of its stamp.
THEOREM StampSafety == Spec => []StampVouches
<1>1. DocumentsInv => StampVouches
  BY DocumentsHolds DEF StampVouches, DocumentsInv
<1> QED
  BY <1>1, DocumentsBegins, DocumentsGoes, PTL DEF Spec

-----------------------------------------------------------------------------
(* The call of a program.                                                    *)

\* Provider here is what the proofs are about.
LEMMA ProviderIsThat ==
  /\ T!Call!CallAssumption
  /\ Provider!Init => T!Call!Init
  /\ [Provider!Next]_(Provider!vars) => [T!Call!Next]_(T!Call!vars)
  /\ T!Call!TypeOK => Provider!TypeOK
  /\ T!Call!CallIsClosed => Provider!CallIsClosed
<1>1. /\ T!Call!CallAssumption
      /\ (Provider!Init => T!Call!Init)
      /\ (UNCHANGED Provider!vars => UNCHANGED T!Call!vars)
      /\ (T!Call!TypeOK => Provider!TypeOK)
      /\ (T!Call!CallIsClosed => Provider!CallIsClosed)
  BY Assumptions DEF Provider!CallAssumption, T!Call!CallAssumption, Provider!vars, T!Call!vars,
     Provider!Gone, T!Call!Gone, Provider!Unread, T!Call!Unread, Provider!Init, T!Call!Init,
     Provider!TypeOK, T!Call!TypeOK, Provider!CallIsClosed, T!Call!CallIsClosed
<1>2. Provider!Next => T!Call!Next
  BY DEF Provider!Gone, T!Call!Gone, Provider!Unread, T!Call!Unread, Provider!Fail, T!Call!Fail,
     Provider!Refuse, T!Call!Refuse, Provider!CreateLog, T!Call!CreateLog, Provider!Configure,
     T!Call!Configure, Provider!NotStarted, T!Call!NotStarted, Provider!Spawn, T!Call!Spawn,
     Provider!Write, T!Call!Write, Provider!ProgramEnds, T!Call!ProgramEnds, Provider!Exits,
     T!Call!Exits, Provider!Cancel, T!Call!Cancel, Provider!Removed, T!Call!Removed,
     Provider!GiveUp, T!Call!GiveUp, Provider!Check, T!Call!Check, Provider!TryWait,
     T!Call!TryWait, Provider!Fits, T!Call!Fits, Provider!Read, T!Call!Read, Provider!Result,
     T!Call!Result, Provider!Next, T!Call!Next
<1> QED
  BY <1>1, <1>2

ProviderInv == part = "provider" => T!CallInv

\* The part begins and goes on with its invariant.
LEMMA ProviderBegins == Init => ProviderInv
BY ProviderIsThat, T!CallInit DEF Init, ProviderInv

LEMMA ProviderMoves == part = "provider" /\ [Next]_vars => [Provider!Next]_(Provider!vars)
BY DEF Next, vars, Provider!vars

LEMMA ProviderGoes == ProviderInv /\ [Next]_vars => ProviderInv'
BY PartStays, ProviderIsThat, ProviderMoves, T!CallStep DEF ProviderInv

\* What the invariant says of the part.
LEMMA ProviderHolds ==
  ProviderInv /\ part = "provider" => Provider!TypeOK /\ Provider!CallIsClosed
BY ProviderIsThat, T!CallResult DEF ProviderInv

-----------------------------------------------------------------------------
(* The stored conversations.                                                 *)

\* Sessions here is what the proofs are about.
LEMMA SessionsIsThat ==
  /\ T!Talks!SessionsAssumption
  /\ Sessions!Init => T!Talks!Init
  /\ [Sessions!Next]_(Sessions!vars) => [T!Talks!Next]_(T!Talks!vars)
  /\ T!Talks!TypeOK => Sessions!TypeOK
  /\ T!Talks!SessionsStayWhole => Sessions!SessionsStayWhole
<1>1. /\ T!Talks!SessionsAssumption
      /\ (Sessions!Init => T!Talks!Init)
      /\ (UNCHANGED Sessions!vars => UNCHANGED T!Talks!vars)
      /\ (T!Talks!TypeOK => Sessions!TypeOK)
      /\ (T!Talks!SessionsStayWhole => Sessions!SessionsStayWhole)
  BY Assumptions DEF Sessions!SessionsAssumption, T!Talks!SessionsAssumption, Sessions!vars,
     T!Talks!vars, Sessions!Idle, T!Talks!Idle, Sessions!Init, T!Talks!Init, Sessions!Numbered,
     T!Talks!Numbered, Sessions!TypeOK, T!Talks!TypeOK, Sessions!SessionsStayWhole,
     T!Talks!SessionsStayWhole, Sessions!Cardinality, T!Talks!Cardinality
<1>2. Sessions!Next => T!Talks!Next
  BY DEF Sessions!Idle, T!Talks!Idle, Sessions!Database, T!Talks!Database, Sessions!At,
     T!Talks!At, Sessions!Go, T!Talks!Go, Sessions!Done, T!Talks!Done, Sessions!Numbered,
     T!Talks!Numbered, Sessions!Start, T!Talks!Start, Sessions!Open, T!Talks!Open,
     Sessions!Immediate, T!Talks!Immediate, Sessions!CanLock, T!Talks!CanLock, Sessions!Upgrade,
     T!Talks!Upgrade, Sessions!Fail, T!Talks!Fail, Sessions!Begin, T!Talks!Begin, Sessions!Create,
     T!Talks!Create, Sessions!Append, T!Talks!Append, Sessions!Reload, T!Talks!Reload,
     Sessions!Rows, T!Talks!Rows, Sessions!Delete, T!Talks!Delete, Sessions!Forget,
     T!Talks!Forget, Sessions!Get, T!Talks!Get, Sessions!Search, T!Talks!Search,
     Sessions!UpdateFolderSummary, T!Talks!UpdateFolderSummary, Sessions!InsertReport,
     T!Talks!InsertReport, Sessions!Crash, T!Talks!Crash, Sessions!Ops, T!Talks!Ops,
     Sessions!Next, T!Talks!Next, Sessions!Cardinality, T!Talks!Cardinality
<1> QED
  BY <1>1, <1>2

SessionsInv == part = "sessions" => T!TalksInv

\* The part begins and goes on with its invariant.
LEMMA SessionsBegins == Init => SessionsInv
BY SessionsIsThat, T!TalksBegin DEF Init, SessionsInv

LEMMA SessionsMoves == part = "sessions" /\ [Next]_vars => [Sessions!Next]_(Sessions!vars)
BY DEF Next, vars, Sessions!vars

LEMMA SessionsGoes == SessionsInv /\ [Next]_vars => SessionsInv'
BY PartStays, SessionsIsThat, SessionsMoves, T!TalksSteps DEF SessionsInv

\* What the invariant says of the part.
LEMMA SessionsHolds ==
  SessionsInv /\ part = "sessions" => Sessions!TypeOK /\ Sessions!SessionsStayWhole
BY SessionsIsThat, T!TalksTypes, T!TalksAreWhole DEF SessionsInv

\* The conversations stay whole, and an answer is a whole one.
THEOREM ConversationsSafety == Spec => []ConversationsStayWhole
<1>1. SessionsInv /\ ProviderInv => ConversationsStayWhole
  BY SessionsHolds, ProviderHolds DEF ConversationsStayWhole, SessionsInv, ProviderInv
<1> QED
  BY <1>1, SessionsBegins, SessionsGoes, ProviderBegins, ProviderGoes, PTL DEF Spec

-----------------------------------------------------------------------------
(* The Docker cleanup.                                                       *)

\* Docker here is what the proofs are about.
LEMMA DockerIsThat ==
  /\ T!Docker!DockerAssumption
  /\ Docker!Init => T!Docker!Init
  /\ [Docker!Next]_(Docker!vars) => [T!Docker!Next]_(T!Docker!vars)
  /\ T!Docker!TypeOK => Docker!TypeOK
  /\ T!Docker!NothingRunsAfterExit => Docker!NothingRunsAfterExit
  /\ T!Docker!PreviewIsSpentOnce => Docker!PreviewIsSpentOnce
  /\ T!Docker!StartInItsMode => Docker!StartInItsMode
<1>1. /\ T!Docker!DockerAssumption
      /\ (Docker!Init => T!Docker!Init)
      /\ (UNCHANGED Docker!vars => UNCHANGED T!Docker!vars)
      /\ (T!Docker!TypeOK => Docker!TypeOK)
      /\ (T!Docker!NothingRunsAfterExit => Docker!NothingRunsAfterExit)
      /\ (T!Docker!PreviewIsSpentOnce => Docker!PreviewIsSpentOnce)
      /\ (T!Docker!StartInItsMode => Docker!StartInItsMode)
  BY Assumptions DEF Docker!DockerAssumption, T!Docker!DockerAssumption, Docker!setting,
     T!Docker!setting, Docker!mode, T!Docker!mode, Docker!previews, T!Docker!previews,
     Docker!process, T!Docker!process, Docker!vars, T!Docker!vars, Docker!NoPreview,
     T!Docker!NoPreview, Docker!NoPlan, T!Docker!NoPlan, Docker!IdleMaker, T!Docker!IdleMaker,
     Docker!ByView, T!Docker!ByView, Docker!NotTaken, T!Docker!NotTaken, Docker!New, T!Docker!New,
     Docker!Init, T!Docker!Init, Docker!TypeOK, T!Docker!TypeOK, Docker!NothingRunsAfterExit,
     T!Docker!NothingRunsAfterExit, Docker!PreviewIsSpentOnce, T!Docker!PreviewIsSpentOnce,
     Docker!StartInItsMode, T!Docker!StartInItsMode
<1>2. Docker!Next => T!Docker!Next
  BY DEF Docker!setting, T!Docker!setting, Docker!mode, T!Docker!mode, Docker!previews,
     T!Docker!previews, Docker!process, T!Docker!process, Docker!NoPreview, T!Docker!NoPreview,
     Docker!IdleMaker, T!Docker!IdleMaker, Docker!ByView, T!Docker!ByView, Docker!NotTaken,
     T!Docker!NotTaken, Docker!New, T!Docker!New, Docker!SetLooks, T!Docker!SetLooks,
     Docker!SetSaves, T!Docker!SetSaves, Docker!SetForgets, T!Docker!SetForgets, Docker!SetClears,
     T!Docker!SetClears, Docker!MakeBegins, T!Docker!MakeBegins, Docker!MakeStores,
     T!Docker!MakeStores, Docker!RecordPlan, T!Docker!RecordPlan, Docker!MakeShows,
     T!Docker!MakeShows, Docker!At, T!Docker!At, Docker!Go, T!Docker!Go, Docker!Fail,
     T!Docker!Fail, Docker!PlanCurrent, T!Docker!PlanCurrent, Docker!Ask, T!Docker!Ask,
     Docker!Claim, T!Docker!Claim, Docker!Reset, T!Docker!Reset, Docker!Matching,
     T!Docker!Matching, Docker!TakePreview, T!Docker!TakePreview, Docker!Take, T!Docker!Take,
     Docker!Register, T!Docker!Register, Docker!ReadSetting, T!Docker!ReadSetting,
     Docker!StartTask, T!Docker!StartTask, Docker!Outcome, T!Docker!Outcome, Docker!EndsWith,
     T!Docker!EndsWith, Docker!StepTop, T!Docker!StepTop, Docker!Refused, T!Docker!Refused,
     Docker!Spawn, T!Docker!Spawn, Docker!ChildExits, T!Docker!ChildExits, Docker!Reaped,
     T!Docker!Reaped, Docker!PollCancelled, T!Docker!PollCancelled, Docker!PollFails,
     T!Docker!PollFails, Docker!PollDone, T!Docker!PollDone, Docker!Poll, T!Docker!Poll,
     Docker!RecordHistory, T!Docker!RecordHistory, Docker!LeaseClears, T!Docker!LeaseClears,
     Docker!LeaseFrees, T!Docker!LeaseFrees, Docker!Cancel, T!Docker!Cancel, Docker!Close,
     T!Docker!Close, Docker!CloseFlags, T!Docker!CloseFlags, Docker!CloseStops,
     T!Docker!CloseStops, Docker!ChangeMode, T!Docker!ChangeMode, Docker!FlagJobs,
     T!Docker!FlagJobs, Docker!RunStep, T!Docker!RunStep, Docker!CloseStep, T!Docker!CloseStep,
     Docker!Next, T!Docker!Next
<1> QED
  BY <1>1, <1>2

DockerInv == part = "docker" => T!DockerInv /\ T!DockerTyped

\* The part begins and goes on with its invariant.
LEMMA DockerBegins == Init => DockerInv
BY DockerIsThat, T!DockerInit, T!DockerTypedInit DEF Init, DockerInv

LEMMA DockerMoves == part = "docker" /\ [Next]_vars => [Docker!Next]_(Docker!vars)
BY DEF Next, vars, Docker!vars, Docker!setting, Docker!mode, Docker!previews, Docker!process

LEMMA DockerGoes == DockerInv /\ [Next]_vars => DockerInv'
BY PartStays, DockerIsThat, DockerMoves, T!DockerStep, T!DockerTypedStep DEF DockerInv

\* What the invariant says of the part.
LEMMA DockerHolds ==
  DockerInv /\ part = "docker" => Docker!TypeOK /\ Docker!NothingRunsAfterExit /\
    Docker!PreviewIsSpentOnce
BY DockerIsThat, T!DockerTypes, T!ExitIsLast DEF DockerInv, T!DockerInv

\* What a step of the part may not do.
LEMMA DockerDoes == DockerInv /\ part = "docker" /\ [Next]_vars => Docker!StartInItsMode
BY DockerIsThat, DockerMoves, T!StartsInMode DEF DockerInv

\* A Docker cleanup runs what one preview showed, and under its mode.
THEOREM DockerSafety == Spec => DockerRunsWhatWasShown
<1>1. DockerInv /\ part = "docker" =>
  Docker!TypeOK /\ Docker!NothingRunsAfterExit /\ Docker!PreviewIsSpentOnce
  BY DockerHolds
<1>2. DockerInv /\ [Next]_vars => [part = "docker" => Docker!StartInItsMode]_vars
  BY DockerDoes
<1> QED
  BY <1>1, <1>2, DockerBegins, DockerGoes, PTL DEF Spec, DockerRunsWhatWasShown

-----------------------------------------------------------------------------
(* The cleanup tree.                                                         *)

\* Tree here is what the proofs are about.
LEMMA TreeIsThat ==
  /\ T!Life!LifeAssumption
  /\ Tree!Init => T!Life!Init
  /\ [Tree!Next]_(Tree!vars) => [T!Life!Next]_(T!Life!vars)
  /\ T!Life!TypeOK => Tree!TypeOK
  /\ T!Life!PlanIsOfSelection => Tree!PlanIsOfSelection
  /\ T!Life!TreeIsOfLiveReport => Tree!TreeIsOfLiveReport
  /\ T!Life!EntryUnderPermission => Tree!EntryUnderPermission
<1>1. /\ T!Life!LifeAssumption
      /\ (Tree!Init => T!Life!Init)
      /\ (UNCHANGED Tree!vars => UNCHANGED T!Life!vars)
      /\ (T!Life!TypeOK => Tree!TypeOK)
      /\ (T!Life!PlanIsOfSelection => Tree!PlanIsOfSelection)
      /\ (T!Life!TreeIsOfLiveReport => Tree!TreeIsOfLiveReport)
      /\ (T!Life!EntryUnderPermission => Tree!EntryUnderPermission)
  BY Assumptions DEF Tree!LifeAssumption, T!Life!LifeAssumption, Tree!reports, T!Life!reports,
     Tree!work, T!Life!work, Tree!mode, T!Life!mode, Tree!vars, T!Life!vars, Tree!NoPlan,
     T!Life!NoPlan, Tree!NoTree, T!Life!NoTree, Tree!New, T!Life!New, Tree!Init, T!Life!Init,
     Tree!TypeOK, T!Life!TypeOK, Tree!PlanIsOfSelection, T!Life!PlanIsOfSelection,
     Tree!EntryUnderPermission, T!Life!EntryUnderPermission, Tree!TreeIsOfLiveReport,
     T!Life!TreeIsOfLiveReport
<1>2. Tree!Next => T!Life!Next
  BY DEF Tree!reports, T!Life!reports, Tree!work, T!Life!work, Tree!mode, T!Life!mode,
     Tree!NoPlan, T!Life!NoPlan, Tree!NoTree, T!Life!NoTree, Tree!New, T!Life!New, Tree!At,
     T!Life!At, Tree!Go, T!Life!Go, Tree!Current, T!Life!Current, Tree!Allowed, T!Life!Allowed,
     Tree!Live, T!Life!Live, Tree!Cancelled, T!Life!Cancelled, Tree!Open, T!Life!Open, Tree!Copy,
     T!Life!Copy, Tree!Refuse, T!Life!Refuse, Tree!Select, T!Life!Select, Tree!Dismiss,
     T!Life!Dismiss, Tree!Prepare, T!Life!Prepare, Tree!ConfirmAllowed, T!Life!ConfirmAllowed,
     Tree!Begin, T!Life!Begin, Tree!Register, T!Life!Register, Tree!Release, T!Life!Release,
     Tree!Fail, T!Life!Fail, Tree!StoreTree, T!Life!StoreTree, Tree!StorePlan, T!Life!StorePlan,
     Tree!Claim, T!Life!Claim, Tree!Move, T!Life!Move, Tree!Moved, T!Life!Moved, Tree!Clear,
     T!Life!Clear, Tree!Scan, T!Life!Scan, Tree!Expire, T!Life!Expire, Tree!Cancel, T!Life!Cancel,
     Tree!ChangeMode, T!Life!ChangeMode, Tree!FlagJobs, T!Life!FlagJobs, Tree!Work, T!Life!Work,
     Tree!Next, T!Life!Next
<1> QED
  BY <1>1, <1>2

TreeInv == part = "tree" => T!LifeInv

\* The part begins and goes on with its invariant.
LEMMA TreeBegins == Init => TreeInv
BY TreeIsThat, T!LifeBegins DEF Init, TreeInv

LEMMA TreeMoves == part = "tree" /\ [Next]_vars => [Tree!Next]_(Tree!vars)
BY DEF Next, vars, Tree!vars, Tree!reports, Tree!work, Tree!mode

LEMMA TreeGoes == TreeInv /\ [Next]_vars => TreeInv'
BY PartStays, TreeIsThat, TreeMoves, T!LifeSteps DEF TreeInv

\* What the invariant says of the part.
LEMMA TreeHolds ==
  TreeInv /\ part = "tree" => Tree!TypeOK /\ Tree!PlanIsOfSelection /\ Tree!TreeIsOfLiveReport
BY TreeIsThat, T!TreeTypes DEF TreeInv

\* What a step of the part may not do.
LEMMA TreeDoes == TreeInv /\ part = "tree" /\ [Next]_vars => Tree!EntryUnderPermission
BY TreeIsThat, TreeMoves, T!EntryMoves DEF TreeInv

\* A cleanup tree moves what is selected in it, while that is permitted.
THEOREM TreeSafety == Spec => TreeMovesItsSelection
<1>1. TreeInv /\ part = "tree" => Tree!TypeOK /\ Tree!PlanIsOfSelection /\ Tree!TreeIsOfLiveReport
  BY TreeHolds
<1>2. TreeInv /\ [Next]_vars => [part = "tree" => Tree!EntryUnderPermission]_vars
  BY TreeDoes
<1> QED
  BY <1>1, <1>2, TreeBegins, TreeGoes, PTL DEF Spec, TreeMovesItsSelection

=============================================================================
