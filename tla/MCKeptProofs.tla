---------------------------- MODULE MCKeptProofs ----------------------------
(***************************************************************************)
(* What the runs check of the parts of MCParts that keep something for     *)
(* others, the review of a folder, the server and the folder of the        *)
(* clients, the settings, the entry and the permissions, as consequences   *)
(* of what is proved of the components. Each instance of a component is    *)
(* shown to be the one that the proofs are about, its part to keep the     *)
(* invariant of the proofs, and the property of the run to follow from it. *)
(* The proofs hold for every value of the constants of a component, so     *)
(* nothing here depends on how small the instances are. A module of proofs *)
(* is about several components: what an instance of it does not use is 0.  *)
(***************************************************************************)
EXTENDS MCParts, TLAPS

-----------------------------------------------------------------------------
\* A behaviour is about one part.
LEMMA PartStays == [Next]_vars => part' = part
BY DEF Next, vars

-----------------------------------------------------------------------------
(* The review of a folder.                                                   *)

\* What is proved of a review, for the first of the three here.
R == INSTANCE FileChangeReviewProofs WITH
  Roots <- {r1}, NoRoot <- noFolder, Intervals <- {5}, Files <- {"f"}, RootOf <- OneFolder,
  PathOrder <- OnePath, NoSnapshot <- NoSnapshot, Windows <- {x1, x2}, NoArg <- NoArg,
  MaxEntries <- 1, MaxStamp <- 0, MaxRevision <- 3, MaxRestarts <- 1, config <- s1, revision
  <- s2, nextId <- s3, baseline <- s4, history <- s5, truncated <- s6, deadline <- s7,
  active <- s8, closed <- s9, stored <- s10, slot <- s11, cancelled <- s12, at <- s13, task
  <- s14, wake <- s15, connected <- s16, pc <- s17, arg <- s18, stamp <- s19, restarts <-
  s20, origin <- s21, offKept <- s22

\* Review here is what the proofs are about.
LEMMA ReviewIsThat ==
  /\ R!FolderAssumption
  /\ R!ReviewBounds
  /\ Review!Init => R!Init
  /\ [Review!Next]_(Review!vars) => [R!Next]_(R!vars)
  /\ R!TypeOK => Review!TypeOK
  /\ R!OffStaysOff => Review!OffStaysOff
<1>1. /\ R!FolderAssumption
      /\ R!ReviewBounds
      /\ (Review!Init => R!Init)
      /\ (UNCHANGED Review!vars => UNCHANGED R!vars)
      /\ (R!TypeOK => Review!TypeOK)
      /\ (R!OffStaysOff => Review!OffStaysOff)
  BY Assumptions DEF Review!FolderAssumption, R!FolderAssumption, Review!ReviewBounds,
     R!ReviewBounds, Review!review, R!review, Review!worker, R!worker, Review!channel, R!channel,
     Review!calls, R!calls, Review!runtime, R!runtime, Review!rest, R!rest, Review!vars, R!vars,
     Review!Configs, R!Configs, Review!DefaultConfig, R!DefaultConfig, Review!AllConfigs,
     R!AllConfigs, Review!Entries, R!Entries, Review!FilesOf, R!FilesOf, Review!IsSnapshot,
     R!IsSnapshot, Review!NoTask, R!NoTask, Review!Writing, R!Writing, Review!TypeOK, R!TypeOK,
     Review!Init, R!Init, Review!OffStaysOff, R!OffStaysOff, Review!Cardinality, R!Cardinality,
     Review!IsFiniteSet, R!IsFiniteSet
<1>2. Review!Next => R!Next
  BY DEF Review!review, R!review, Review!worker, R!worker, Review!channel, R!channel,
     Review!calls, R!calls, Review!runtime, R!runtime, Review!rest, R!rest, Review!Configs,
     R!Configs, Review!DefaultConfig, R!DefaultConfig, Review!AllConfigs, R!AllConfigs,
     Review!FilesOf, R!FilesOf, Review!NoTask, R!NoTask, Review!Writing, R!Writing,
     Review!Invalidate, R!Invalidate, Review!ChangeConfig, R!ChangeConfig, Review!Before,
     R!Before, Review!Kept, R!Kept, Review!NewEntries, R!NewEntries, Review!FirstOf, R!FirstOf,
     Review!RetainChanges, R!RetainChanges, Review!LoopTop, R!LoopTop, Review!Receive, R!Receive,
     Review!Disconnected, R!Disconnected, Review!TimedOut, R!TimedOut, Review!SkipCheck,
     R!SkipCheck, Review!BeginCheck, R!BeginCheck, Review!RefuseCheck, R!RefuseCheck,
     Review!Capture, R!Capture, Review!CanCommit, R!CanCommit, Review!EndCheck, R!EndCheck,
     Review!StoreSnapshot, R!StoreSnapshot, Review!StoreFailure, R!StoreFailure,
     Review!DropResult, R!DropResult, Review!ReleaseCheck, R!ReleaseCheck, Review!ConfigWriteFree,
     R!ConfigWriteFree, Review!Goto, R!Goto, Review!Return, R!Return, Review!BeginUpdate,
     R!BeginUpdate, Review!EndUpdate, R!EndUpdate, Review!ApplyOff, R!ApplyOff, Review!SaveOff,
     R!SaveOff, Review!CheckOn, R!CheckOn, Review!SaveOn, R!SaveOn, Review!ApplyOn, R!ApplyOn,
     Review!WakeWorker, R!WakeWorker, Review!RequestCheck, R!RequestCheck, Review!ShowEntry,
     R!ShowEntry, Review!HasIdOf, R!HasIdOf, Review!SetDisposition, R!SetDisposition,
     Review!Shutdown, R!Shutdown, Review!DropSender, R!DropSender, Review!Restart, R!Restart,
     Review!ChangeFile, R!ChangeFile, Review!OtherJob, R!OtherJob, Review!CancelSlot,
     R!CancelSlot, Review!RunWorker, R!RunWorker, Review!Next, R!Next, Review!Cardinality,
     R!Cardinality
<1> QED
  BY <1>1, <1>2

ReviewInv == part = "review" => R!OffInv /\ R!FolderInv /\ R!Types

\* The part begins and goes on with its invariant.
LEMMA ReviewBegins == Init => ReviewInv
BY ReviewIsThat, R!OffInit, R!FolderInit, R!TypesInit DEF Init, ReviewInv

LEMMA ReviewMoves == part = "review" /\ [Next]_vars => [Review!Next]_(Review!vars)
BY DEF Next, vars, Review!vars, Review!review, Review!worker, Review!channel, Review!calls,
   Review!runtime, Review!rest

LEMMA ReviewGoes == ReviewInv /\ [Next]_vars => ReviewInv'
BY PartStays, ReviewIsThat, ReviewMoves, R!OffStep, R!FolderStep, R!TypesStep DEF ReviewInv

\* What the invariant says of the part.
LEMMA ReviewHolds == ReviewInv /\ part = "review" => Review!TypeOK /\ Review!OffStaysOff
BY ReviewIsThat, R!ReviewTypes, R!OffIsKept DEF ReviewInv

\* A review that was switched off stays off.
THEOREM ReviewOffSafety == Spec => []OffStaysOff
<1>1. ReviewInv => OffStaysOff
  BY ReviewHolds DEF OffStaysOff, ReviewInv
<1> QED
  BY <1>1, ReviewBegins, ReviewGoes, PTL DEF Spec

\* The same of another.
E == INSTANCE FileChangeReviewProofs WITH
  Roots <- {r1, r2}, NoRoot <- noFolder, Intervals <- {5}, Files <- {"f", "g"}, RootOf <-
  ReviewedIn, PathOrder <- PathOrder, NoSnapshot <- NoSnapshot, Windows <- {w1}, NoArg <-
  NoArg, MaxEntries <- 1, MaxStamp <- 2, MaxRevision <- 2, MaxRestarts <- 0, config <- s1,
  revision <- s2, nextId <- s3, baseline <- s4, history <- s5, truncated <- s6, deadline <-
  s7, active <- s8, closed <- s9, stored <- s10, slot <- s11, cancelled <- s12, at <- s13,
  task <- s14, wake <- s15, connected <- s16, pc <- s17, arg <- s18, stamp <- s19, restarts
  <- s20, origin <- s21, offKept <- s22

\* Edited here is what the proofs are about.
LEMMA EditedIsThat ==
  /\ E!FolderAssumption
  /\ E!ReviewBounds
  /\ Edited!Init => E!Init
  /\ [Edited!Next]_(Edited!vars) => [E!Next]_(E!vars)
  /\ E!TypeOK => Edited!TypeOK
  /\ E!HistoryOfThisFolder => Edited!HistoryOfThisFolder
  /\ E!HistoryExplainsBaseline => Edited!HistoryExplainsBaseline
  /\ E!DecisionIsAboutWhatWasShown => Edited!DecisionIsAboutWhatWasShown
<1>1. /\ E!FolderAssumption
      /\ E!ReviewBounds
      /\ (Edited!Init => E!Init)
      /\ (UNCHANGED Edited!vars => UNCHANGED E!vars)
      /\ (E!TypeOK => Edited!TypeOK)
      /\ (E!HistoryOfThisFolder => Edited!HistoryOfThisFolder)
      /\ (E!HistoryExplainsBaseline => Edited!HistoryExplainsBaseline)
      /\ (E!DecisionIsAboutWhatWasShown => Edited!DecisionIsAboutWhatWasShown)
  BY Assumptions DEF Edited!FolderAssumption, E!FolderAssumption, Edited!ReviewBounds,
     E!ReviewBounds, Edited!review, E!review, Edited!worker, E!worker, Edited!channel, E!channel,
     Edited!calls, E!calls, Edited!runtime, E!runtime, Edited!rest, E!rest, Edited!vars, E!vars,
     Edited!Configs, E!Configs, Edited!DefaultConfig, E!DefaultConfig, Edited!AllConfigs,
     E!AllConfigs, Edited!Entries, E!Entries, Edited!FilesOf, E!FilesOf, Edited!IsSnapshot,
     E!IsSnapshot, Edited!NoTask, E!NoTask, Edited!Writing, E!Writing, Edited!TypeOK, E!TypeOK,
     Edited!Init, E!Init, Edited!HistoryOfThisFolder, E!HistoryOfThisFolder,
     Edited!HistoryExplainsBaseline, E!HistoryExplainsBaseline,
     Edited!DecisionIsAboutWhatWasShown, E!DecisionIsAboutWhatWasShown, Edited!Cardinality,
     E!Cardinality, Edited!IsFiniteSet, E!IsFiniteSet
<1>2. Edited!Next => E!Next
  BY DEF Edited!review, E!review, Edited!worker, E!worker, Edited!channel, E!channel,
     Edited!calls, E!calls, Edited!runtime, E!runtime, Edited!rest, E!rest, Edited!Configs,
     E!Configs, Edited!DefaultConfig, E!DefaultConfig, Edited!AllConfigs, E!AllConfigs,
     Edited!FilesOf, E!FilesOf, Edited!NoTask, E!NoTask, Edited!Writing, E!Writing,
     Edited!Invalidate, E!Invalidate, Edited!ChangeConfig, E!ChangeConfig, Edited!Before,
     E!Before, Edited!Kept, E!Kept, Edited!NewEntries, E!NewEntries, Edited!FirstOf, E!FirstOf,
     Edited!RetainChanges, E!RetainChanges, Edited!LoopTop, E!LoopTop, Edited!Receive, E!Receive,
     Edited!Disconnected, E!Disconnected, Edited!TimedOut, E!TimedOut, Edited!SkipCheck,
     E!SkipCheck, Edited!BeginCheck, E!BeginCheck, Edited!RefuseCheck, E!RefuseCheck,
     Edited!Capture, E!Capture, Edited!CanCommit, E!CanCommit, Edited!EndCheck, E!EndCheck,
     Edited!StoreSnapshot, E!StoreSnapshot, Edited!StoreFailure, E!StoreFailure,
     Edited!DropResult, E!DropResult, Edited!ReleaseCheck, E!ReleaseCheck, Edited!ConfigWriteFree,
     E!ConfigWriteFree, Edited!Goto, E!Goto, Edited!Return, E!Return, Edited!BeginUpdate,
     E!BeginUpdate, Edited!EndUpdate, E!EndUpdate, Edited!ApplyOff, E!ApplyOff, Edited!SaveOff,
     E!SaveOff, Edited!CheckOn, E!CheckOn, Edited!SaveOn, E!SaveOn, Edited!ApplyOn, E!ApplyOn,
     Edited!WakeWorker, E!WakeWorker, Edited!RequestCheck, E!RequestCheck, Edited!ShowEntry,
     E!ShowEntry, Edited!HasIdOf, E!HasIdOf, Edited!SetDisposition, E!SetDisposition,
     Edited!Shutdown, E!Shutdown, Edited!DropSender, E!DropSender, Edited!Restart, E!Restart,
     Edited!ChangeFile, E!ChangeFile, Edited!OtherJob, E!OtherJob, Edited!CancelSlot,
     E!CancelSlot, Edited!RunWorker, E!RunWorker, Edited!Next, E!Next, Edited!Cardinality,
     E!Cardinality
<1> QED
  BY <1>1, <1>2

EditedInv == part = "edited" => E!OffInv /\ E!FolderInv /\ E!Types /\ E!DecisionInv /\ E!HistoryInv

\* The part begins and goes on with its invariant.
LEMMA EditedBegins == Init => EditedInv
BY EditedIsThat, E!OffInit, E!FolderInit, E!TypesInit, E!DecisionInit, E!HistoryInit DEF Init,
   EditedInv

LEMMA EditedMoves == part = "edited" /\ [Next]_vars => [Edited!Next]_(Edited!vars)
BY DEF Next, vars, Edited!vars, Edited!review, Edited!worker, Edited!channel, Edited!calls,
   Edited!runtime, Edited!rest

LEMMA EditedGoes == EditedInv /\ [Next]_vars => EditedInv'
BY PartStays, EditedIsThat, EditedMoves, E!OffStep, E!FolderStep, E!TypesStep, E!DecisionStep,
   E!HistoryStep DEF EditedInv

\* What the invariant says of the part.
LEMMA EditedHolds ==
  EditedInv /\ part = "edited" => Edited!TypeOK /\ Edited!HistoryOfThisFolder /\
    Edited!HistoryExplainsBaseline /\ Edited!DecisionIsAboutWhatWasShown
BY EditedIsThat, E!ReviewTypes, E!HistoryIsOwn DEF EditedInv, E!DecisionInv, E!HistoryInv

\* The same of another.
W == INSTANCE FileChangeReviewProofs WITH
  Roots <- {r1, r2}, NoRoot <- noFolder, Intervals <- {5}, Files <- {"f", "g"}, RootOf <-
  ReviewedIn, PathOrder <- PathOrder, NoSnapshot <- NoSnapshot, Windows <- {w1}, NoArg <-
  NoArg, MaxEntries <- 1, MaxStamp <- 1, MaxRevision <- 3, MaxRestarts <- 0, config <- s1,
  revision <- s2, nextId <- s3, baseline <- s4, history <- s5, truncated <- s6, deadline <-
  s7, active <- s8, closed <- s9, stored <- s10, slot <- s11, cancelled <- s12, at <- s13,
  task <- s14, wake <- s15, connected <- s16, pc <- s17, arg <- s18, stamp <- s19, restarts
  <- s20, origin <- s21, offKept <- s22

\* Switched here is what the proofs are about.
LEMMA SwitchedIsThat ==
  /\ W!FolderAssumption
  /\ W!ReviewBounds
  /\ Switched!Init => W!Init
  /\ [Switched!Next]_(Switched!vars) => [W!Next]_(W!vars)
  /\ W!TypeOK => Switched!TypeOK
  /\ W!HistoryOfThisFolder => Switched!HistoryOfThisFolder
  /\ W!HistoryExplainsBaseline => Switched!HistoryExplainsBaseline
  /\ W!DecisionIsAboutWhatWasShown => Switched!DecisionIsAboutWhatWasShown
<1>1. /\ W!FolderAssumption
      /\ W!ReviewBounds
      /\ (Switched!Init => W!Init)
      /\ (UNCHANGED Switched!vars => UNCHANGED W!vars)
      /\ (W!TypeOK => Switched!TypeOK)
      /\ (W!HistoryOfThisFolder => Switched!HistoryOfThisFolder)
      /\ (W!HistoryExplainsBaseline => Switched!HistoryExplainsBaseline)
      /\ (W!DecisionIsAboutWhatWasShown => Switched!DecisionIsAboutWhatWasShown)
  BY Assumptions DEF Switched!FolderAssumption, W!FolderAssumption, Switched!ReviewBounds,
     W!ReviewBounds, Switched!review, W!review, Switched!worker, W!worker, Switched!channel,
     W!channel, Switched!calls, W!calls, Switched!runtime, W!runtime, Switched!rest, W!rest,
     Switched!vars, W!vars, Switched!Configs, W!Configs, Switched!DefaultConfig, W!DefaultConfig,
     Switched!AllConfigs, W!AllConfigs, Switched!Entries, W!Entries, Switched!FilesOf, W!FilesOf,
     Switched!IsSnapshot, W!IsSnapshot, Switched!NoTask, W!NoTask, Switched!Writing, W!Writing,
     Switched!TypeOK, W!TypeOK, Switched!Init, W!Init, Switched!HistoryOfThisFolder,
     W!HistoryOfThisFolder, Switched!HistoryExplainsBaseline, W!HistoryExplainsBaseline,
     Switched!DecisionIsAboutWhatWasShown, W!DecisionIsAboutWhatWasShown, Switched!Cardinality,
     W!Cardinality, Switched!IsFiniteSet, W!IsFiniteSet
<1>2. Switched!Next => W!Next
  BY DEF Switched!review, W!review, Switched!worker, W!worker, Switched!channel, W!channel,
     Switched!calls, W!calls, Switched!runtime, W!runtime, Switched!rest, W!rest,
     Switched!Configs, W!Configs, Switched!DefaultConfig, W!DefaultConfig, Switched!AllConfigs,
     W!AllConfigs, Switched!FilesOf, W!FilesOf, Switched!NoTask, W!NoTask, Switched!Writing,
     W!Writing, Switched!Invalidate, W!Invalidate, Switched!ChangeConfig, W!ChangeConfig,
     Switched!Before, W!Before, Switched!Kept, W!Kept, Switched!NewEntries, W!NewEntries,
     Switched!FirstOf, W!FirstOf, Switched!RetainChanges, W!RetainChanges, Switched!LoopTop,
     W!LoopTop, Switched!Receive, W!Receive, Switched!Disconnected, W!Disconnected,
     Switched!TimedOut, W!TimedOut, Switched!SkipCheck, W!SkipCheck, Switched!BeginCheck,
     W!BeginCheck, Switched!RefuseCheck, W!RefuseCheck, Switched!Capture, W!Capture,
     Switched!CanCommit, W!CanCommit, Switched!EndCheck, W!EndCheck, Switched!StoreSnapshot,
     W!StoreSnapshot, Switched!StoreFailure, W!StoreFailure, Switched!DropResult, W!DropResult,
     Switched!ReleaseCheck, W!ReleaseCheck, Switched!ConfigWriteFree, W!ConfigWriteFree,
     Switched!Goto, W!Goto, Switched!Return, W!Return, Switched!BeginUpdate, W!BeginUpdate,
     Switched!EndUpdate, W!EndUpdate, Switched!ApplyOff, W!ApplyOff, Switched!SaveOff, W!SaveOff,
     Switched!CheckOn, W!CheckOn, Switched!SaveOn, W!SaveOn, Switched!ApplyOn, W!ApplyOn,
     Switched!WakeWorker, W!WakeWorker, Switched!RequestCheck, W!RequestCheck, Switched!ShowEntry,
     W!ShowEntry, Switched!HasIdOf, W!HasIdOf, Switched!SetDisposition, W!SetDisposition,
     Switched!Shutdown, W!Shutdown, Switched!DropSender, W!DropSender, Switched!Restart,
     W!Restart, Switched!ChangeFile, W!ChangeFile, Switched!OtherJob, W!OtherJob,
     Switched!CancelSlot, W!CancelSlot, Switched!RunWorker, W!RunWorker, Switched!Next, W!Next,
     Switched!Cardinality, W!Cardinality
<1> QED
  BY <1>1, <1>2

SwitchedInv == part = "switched" => W!OffInv /\ W!FolderInv /\ W!Types /\ W!DecisionInv /\ W!HistoryInv

\* The part begins and goes on with its invariant.
LEMMA SwitchedBegins == Init => SwitchedInv
BY SwitchedIsThat, W!OffInit, W!FolderInit, W!TypesInit, W!DecisionInit, W!HistoryInit DEF Init,
   SwitchedInv

LEMMA SwitchedMoves == part = "switched" /\ [Next]_vars => [Switched!Next]_(Switched!vars)
BY DEF Next, vars, Switched!vars, Switched!review, Switched!worker, Switched!channel,
   Switched!calls, Switched!runtime, Switched!rest

LEMMA SwitchedGoes == SwitchedInv /\ [Next]_vars => SwitchedInv'
BY PartStays, SwitchedIsThat, SwitchedMoves, W!OffStep, W!FolderStep, W!TypesStep, W!DecisionStep,
   W!HistoryStep DEF SwitchedInv

\* What the invariant says of the part.
LEMMA SwitchedHolds ==
  SwitchedInv /\ part = "switched" => Switched!TypeOK /\ Switched!HistoryOfThisFolder /\
    Switched!HistoryExplainsBaseline /\ Switched!DecisionIsAboutWhatWasShown
BY SwitchedIsThat, W!ReviewTypes, W!HistoryIsOwn DEF SwitchedInv, W!DecisionInv, W!HistoryInv

\* The history is of the present folder and explains every change.
THEOREM ReviewHistorySafety == Spec => []HistoryExplainsBaseline
<1>1. EditedInv /\ SwitchedInv => HistoryExplainsBaseline
  BY EditedHolds, SwitchedHolds DEF HistoryExplainsBaseline, EditedInv, SwitchedInv
<1> QED
  BY <1>1, EditedBegins, EditedGoes, SwitchedBegins, SwitchedGoes, PTL DEF Spec

-----------------------------------------------------------------------------
(* The connections of the control server.                                    *)

\* What is proved of the control server and of the files of its clients.
S == INSTANCE ScanRuntimeProofs WITH
  Work <- {}, NoWork <- 0, KindOf <- [w \in {} |-> "reader"], MaxGeneration <- [r \in
  {"scan", "cleanup", "directory"} |-> 0], active <- 0, phase <- 0, closing <- 0, cancelled
  <- 0, pc <- 0, leases <- 0, marker <- 0, dropping <- 0, reports <- 0, nextGeneration <- 0,
  held <- 0, accepted <- 0, spent <- 0, Processes <- {"p1", "p2"}, Conns <- {x1, x2},
  MaxConnections <- 1, proc <- s1, lock <- s2, file <- s3, acceptor <- s4, served <- s5,
  streams <- s6, handles <- s7, conn <- s8, Calls <- {x1, x2}, Roots <- {r1}, NItems <- 2,
  Dirs <- {2}, Inside <- {}, PageSize <- 1, MaxChanges <- 3, grant <- s1, cleanup <- s2,
  scopeEpoch <- s3, cleanupEpoch <- s4, binding <- s5, operation <- s6, workspace <- s7,
  filesSlot <- s8, call <- s9, task <- s10, confirm <- s11, ids <- s12, claims <- s13,
  dismissed <- s14

\* There are no scans in that instance.
LEMMA NoScans == S!WorkAssumption /\ S!BoundAssumption
BY DEF S!WorkAssumption, S!BoundAssumption, S!Kinds, S!Reports

\* Server here is what the proofs are about.
LEMMA ServerIsThat ==
  /\ S!Server!ServerAssumption
  /\ Server!Init => S!Server!Init
  /\ [Server!Next]_(Server!vars) => [S!Server!Next]_(S!Server!vars)
  /\ S!Server!TypeOK => Server!TypeOK
  /\ S!Server!DescriptorNamesServer => Server!DescriptorNamesServer
  /\ S!Server!ServingWithinLimit => Server!ServingWithinLimit
  /\ S!Server!NobodyServedAfterJoin => Server!NobodyServedAfterJoin
<1>1. /\ S!Server!ServerAssumption
      /\ (Server!Init => S!Server!Init)
      /\ (UNCHANGED Server!vars => UNCHANGED S!Server!vars)
      /\ (S!Server!TypeOK => Server!TypeOK)
      /\ (S!Server!DescriptorNamesServer => Server!DescriptorNamesServer)
      /\ (S!Server!ServingWithinLimit => Server!ServingWithinLimit)
      /\ (S!Server!NobodyServedAfterJoin => Server!NobodyServedAfterJoin)
  BY Assumptions DEF Server!ServerAssumption, S!Server!ServerAssumption, Server!vars,
     S!Server!vars, Server!NoConn, S!Server!NoConn, Server!Gone, S!Server!Gone, Server!Init,
     S!Server!Init, Server!Alive, S!Server!Alive, Server!Of, S!Server!Of, Server!TypeOK,
     S!Server!TypeOK, Server!DescriptorNamesServer, S!Server!DescriptorNamesServer,
     Server!ServingWithinLimit, S!Server!ServingWithinLimit, Server!NobodyServedAfterJoin,
     S!Server!NobodyServedAfterJoin, Server!Cardinality, S!Server!Cardinality
<1>2. Server!Next => S!Server!Next
  BY DEF Server!Waiting, S!Server!Waiting, Server!Gone, S!Server!Gone, Server!threads,
     S!Server!threads, Server!shared, S!Server!shared, Server!Step, S!Server!Step,
     Server!Stopping, S!Server!Stopping, Server!Of, S!Server!Of, Server!Lock, S!Server!Lock,
     Server!ClearFile, S!Server!ClearFile, Server!Publish, S!Server!Publish, Server!StartAccept,
     S!Server!StartAccept, Server!StartFails, S!Server!StartFails, Server!Crash, S!Server!Crash,
     Server!Connect, S!Server!Connect, Server!Send, S!Server!Send, Server!HangUp, S!Server!HangUp,
     Server!SetAcceptor, S!Server!SetAcceptor, Server!Drained, S!Server!Drained, Server!LoopTop,
     S!Server!LoopTop, Server!NothingQueued, S!Server!NothingQueued, Server!AcceptFails,
     S!Server!AcceptFails, Server!Accept, S!Server!Accept, Server!KeepStream, S!Server!KeepStream,
     Server!Register, S!Server!Register, Server!CountOne, S!Server!CountOne, Server!Count,
     S!Server!Count, Server!Spawn, S!Server!Spawn, Server!SpawnFails, S!Server!SpawnFails,
     Server!KeepHandle, S!Server!KeepHandle, Server!Goto, S!Server!Goto, Server!Return,
     S!Server!Return, Server!Check, S!Server!Check, Server!Read, S!Server!Read,
     Server!SocketClosed, S!Server!SocketClosed, Server!TimesOut, S!Server!TimesOut,
     Server!CheckAgain, S!Server!CheckAgain, Server!Ran, S!Server!Ran, Server!Written,
     S!Server!Written, Server!Shutdown, S!Server!Shutdown, Server!CloseStreams,
     S!Server!CloseStreams, Server!AcceptorEnded, S!Server!AcceptorEnded, Server!WorkersEnded,
     S!Server!WorkersEnded, Server!JoinFirst, S!Server!JoinFirst, Server!JoinAccept,
     S!Server!JoinAccept, Server!JoinWorkers, S!Server!JoinWorkers, Server!FreeLock,
     S!Server!FreeLock, Server!HoldLock, S!Server!HoldLock, Server!ReadFile, S!Server!ReadFile,
     Server!RemoveFile, S!Server!RemoveFile, Server!Unlock, S!Server!Unlock, Server!AcceptStep,
     S!Server!AcceptStep, Server!ConnStep, S!Server!ConnStep, Server!ShutdownStep,
     S!Server!ShutdownStep, Server!Next, S!Server!Next
<1> QED
  BY <1>1, <1>2

ServerInv == part = "server" => S!FileInv /\ S!ThreadInv /\ S!CountInv

\* The part begins and goes on with its invariant.
LEMMA ServerBegins == Init => ServerInv
BY NoScans, ServerIsThat, S!FileInit, S!ThreadInit, S!CountInit DEF Init, ServerInv

LEMMA ServerMoves == part = "server" /\ [Next]_vars => [Server!Next]_(Server!vars)
BY DEF Next, vars, Server!vars

LEMMA ServerGoes == ServerInv /\ [Next]_vars => ServerInv'
BY PartStays, NoScans, ServerIsThat, ServerMoves, S!FileStep, S!ThreadStep, S!CountStep DEF
   ServerInv

\* What the invariant says of the part.
LEMMA ServerHolds ==
  ServerInv /\ part = "server" => Server!TypeOK /\ Server!DescriptorNamesServer /\
    Server!ServingWithinLimit /\ Server!NobodyServedAfterJoin
BY NoScans, ServerIsThat, S!ServerTypes, S!DescriptorIsOwn, S!LimitIsKept, S!NobodyAfterJoin DEF
   ServerInv

\* The server is the one of its descriptor and keeps to its limit.
THEOREM ServerSafety == Spec => []ServedWithinLimits
<1>1. ServerInv => ServedWithinLimits
  BY ServerHolds DEF ServedWithinLimits, ServerInv
<1> QED
  BY <1>1, ServerBegins, ServerGoes, PTL DEF Spec

-----------------------------------------------------------------------------
(* The folder of the chat clients.                                           *)

\* Workspace here is what the proofs are about.
LEMMA WorkspaceIsThat ==
  /\ S!Files!ItemsAssumption
  /\ Workspace!Init => S!Files!Init
  /\ [Workspace!Next]_(Workspace!vars) => [S!Files!Next]_(S!Files!vars)
  /\ S!Files!TypeOK => Workspace!TypeOK
  /\ S!Files!PlanIsCurrent => Workspace!PlanIsCurrent
  /\ S!Files!PlanEndsOnce => Workspace!PlanEndsOnce
<1>1. /\ S!Files!ItemsAssumption
      /\ (Workspace!Init => S!Files!Init)
      /\ (UNCHANGED Workspace!vars => UNCHANGED S!Files!vars)
      /\ (S!Files!TypeOK => Workspace!TypeOK)
      /\ (S!Files!PlanIsCurrent => Workspace!PlanIsCurrent)
      /\ (S!Files!PlanEndsOnce => Workspace!PlanEndsOnce)
  BY Assumptions DEF Workspace!Items, S!Files!Items, Workspace!NoRoot, S!Files!NoRoot,
     Workspace!ItemsAssumption, S!Files!ItemsAssumption, Workspace!perms, S!Files!perms,
     Workspace!files, S!Files!files, Workspace!vars, S!Files!vars, Workspace!None, S!Files!None,
     Workspace!NoPlan, S!Files!NoPlan, Workspace!Free, S!Files!Free, Workspace!Busy, S!Files!Busy,
     Workspace!Idle, S!Files!Idle, Workspace!SameScope, S!Files!SameScope, Workspace!SameReview,
     S!Files!SameReview, Workspace!Init, S!Files!Init, Workspace!Epochs, S!Files!Epochs,
     Workspace!Bindings, S!Files!Bindings, Workspace!Plans, S!Files!Plans, Workspace!Lists,
     S!Files!Lists, Workspace!TypeOK, S!Files!TypeOK, Workspace!PlanIsCurrent,
     S!Files!PlanIsCurrent, Workspace!PlanEndsOnce, S!Files!PlanEndsOnce
<1>2. Workspace!Next => S!Files!Next
  BY DEF Workspace!Items, S!Files!Items, Workspace!NoRoot, S!Files!NoRoot, Workspace!perms,
     S!Files!perms, Workspace!files, S!Files!files, Workspace!None, S!Files!None,
     Workspace!NoPlan, S!Files!NoPlan, Workspace!Free, S!Files!Free, Workspace!Busy, S!Files!Busy,
     Workspace!Idle, S!Files!Idle, Workspace!Binding, S!Files!Binding, Workspace!SameScope,
     S!Files!SameScope, Workspace!SameReview, S!Files!SameReview, Workspace!BindingCurrent,
     S!Files!BindingCurrent, Workspace!EpochsCurrent, S!Files!EpochsCurrent, Workspace!Requests,
     S!Files!Requests, Workspace!NeedsReview, S!Files!NeedsReview, Workspace!Heavy, S!Files!Heavy,
     Workspace!Changes, S!Files!Changes, Workspace!SetScope, S!Files!SetScope,
     Workspace!SetCleanup, S!Files!SetCleanup, Workspace!Forget, S!Files!Forget,
     Workspace!Invalidate, S!Files!Invalidate, Workspace!Fresh, S!Files!Fresh, Workspace!At,
     S!Files!At, Workspace!OnPage, S!Files!OnPage, Workspace!Chosen, S!Files!Chosen,
     Workspace!Nested, S!Files!Nested, Workspace!ReadBinding, S!Files!ReadBinding,
     Workspace!BindExternal, S!Files!BindExternal, Workspace!Answer, S!Files!Answer, Workspace!Go,
     S!Files!Go, Workspace!ReadView, S!Files!ReadView, Workspace!Deliver, S!Files!Deliver,
     Workspace!AnswerRunning, S!Files!AnswerRunning, Workspace!PassRunning, S!Files!PassRunning,
     Workspace!Reserve, S!Files!Reserve, Workspace!Spawn, S!Files!Spawn, Workspace!BeginLight,
     S!Files!BeginLight, Workspace!LightChange, S!Files!LightChange, Workspace!LightAllowed,
     S!Files!LightAllowed, Workspace!ApplyLight, S!Files!ApplyLight, Workspace!CheckLight,
     S!Files!CheckLight, Workspace!ClearOperation, S!Files!ClearOperation, Workspace!Stopped,
     S!Files!Stopped, Workspace!TaskGoes, S!Files!TaskGoes, Workspace!TaskFails,
     S!Files!TaskFails, Workspace!Keep, S!Files!Keep, Workspace!StartScan, S!Files!StartScan,
     Workspace!Scan, S!Files!Scan, Workspace!ScanFails, S!Files!ScanFails, Workspace!Store,
     S!Files!Store, Workspace!SelectNamed, S!Files!SelectNamed, Workspace!SelectReviewed,
     S!Files!SelectReviewed, Workspace!BeginPrepare, S!Files!BeginPrepare, Workspace!Verify,
     S!Files!Verify, Workspace!VerifyFails, S!Files!VerifyFails, Workspace!StorePlan,
     S!Files!StorePlan, Workspace!Judge, S!Files!Judge, Workspace!Record, S!Files!Record,
     Workspace!Finish, S!Files!Finish, Workspace!StopTask, S!Files!StopTask,
     Workspace!ConfirmRead, S!Files!ConfirmRead, Workspace!ConfirmCheck, S!Files!ConfirmCheck,
     Workspace!Consumed, S!Files!Consumed, Workspace!Claimable, S!Files!Claimable,
     Workspace!ConfirmClaim, S!Files!ConfirmClaim, Workspace!ConfirmMove, S!Files!ConfirmMove,
     Workspace!ConfirmOutcome, S!Files!ConfirmOutcome, Workspace!Dismiss, S!Files!Dismiss,
     Workspace!CallSteps, S!Files!CallSteps, Workspace!TaskSteps, S!Files!TaskSteps,
     Workspace!ConfirmSteps, S!Files!ConfirmSteps, Workspace!Next, S!Files!Next
<1> QED
  BY <1>1, <1>2

WorkspaceInv == part = "workspace" => S!FilesInv

\* The part begins and goes on with its invariant.
LEMMA WorkspaceBegins == Init => WorkspaceInv
BY NoScans, WorkspaceIsThat, S!FilesBegin DEF Init, WorkspaceInv

LEMMA WorkspaceMoves == part = "workspace" /\ [Next]_vars => [Workspace!Next]_(Workspace!vars)
BY DEF Next, vars, Workspace!vars, Workspace!perms, Workspace!files

LEMMA WorkspaceGoes == WorkspaceInv /\ [Next]_vars => WorkspaceInv'
BY PartStays, NoScans, WorkspaceIsThat, WorkspaceMoves, S!FilesStep DEF WorkspaceInv

\* What the invariant says of the part.
LEMMA WorkspaceHolds ==
  WorkspaceInv /\ part = "workspace" => Workspace!TypeOK /\ Workspace!PlanIsCurrent /\
    Workspace!PlanEndsOnce
BY NoScans, WorkspaceIsThat, S!FilesTypes, S!PlansAreCurrent, S!PlansEnd DEF WorkspaceInv

\* The plan that can be confirmed is of the present folder and permission.
THEOREM WorkspaceSafety == Spec => []WorkspacePlanIsCurrent
<1>1. WorkspaceInv => WorkspacePlanIsCurrent
  BY WorkspaceHolds DEF WorkspacePlanIsCurrent, WorkspaceInv
<1> QED
  BY <1>1, WorkspaceBegins, WorkspaceGoes, PTL DEF Spec

-----------------------------------------------------------------------------
(* The settings of the Mac.                                                  *)

\* What is proved of the settings, of the entry and of the permissions.
P == INSTANCE CleanupPlanProofs WITH
  Plans <- {}, NoPlan <- 0, Clients <- {}, Windows <- {}, MaxGeneration <- 0, enabled <- 0,
  pending <- 0, state <- 0, source <- 0, late <- 0, mirror <- 0, stored <- 0, generation <-
  0, scanning <- 0, pc <- 0, plan <- 0, wanted <- 0, outcome <- 0, movedFor <- 0, Roots <-
  {"scan"}, Switches <- {"confirm", "full", "inspect"}, MaxChanges <- 4, MaxStarts <- 3, up
  <- s1, held <- s2, record <- s3, change <- s4, warned <- s5, blind <- s6, present <- s7,
  changes <- s8, starts <- s9, MaxHistory <- 3, MaxEdits <- 1, value <- s1, rows <- s2,
  macJob <- s3, edits <- s4, Installs <- Installs, MaxForeign <- 2, MaxRestarts <- 2, entry
  <- s1, main <- s2, backup <- s3, install <- s4, mcpJob <- s5, foreign <- s6, restarts <-
  s7

\* Settings here is what the proofs are about.
LEMMA SettingsIsThat ==
  /\ P!Mac!MacAssumption
  /\ Settings!Init => P!Mac!Init
  /\ [Settings!Next]_(Settings!vars) => [P!Mac!Next]_(P!Mac!vars)
  /\ P!Mac!TypeOK => Settings!TypeOK
  /\ P!Mac!NeverStranded => Settings!NeverStranded
  /\ P!Mac!OriginalComesBack => Settings!OriginalComesBack
<1>1. /\ P!Mac!MacAssumption
      /\ (Settings!Init => P!Mac!Init)
      /\ (UNCHANGED Settings!vars => UNCHANGED P!Mac!vars)
      /\ (P!Mac!TypeOK => Settings!TypeOK)
      /\ (P!Mac!NeverStranded => Settings!NeverStranded)
      /\ (P!Mac!OriginalComesBack => Settings!OriginalComesBack)
  BY Assumptions DEF Settings!MacAssumption, P!Mac!MacAssumption, Settings!vars, P!Mac!vars,
     Settings!Values, P!Mac!Values, Settings!Open, P!Mac!Open, Settings!Statuses, P!Mac!Statuses,
     Settings!Idle, P!Mac!Idle, Settings!Init, P!Mac!Init, Settings!Unrestored, P!Mac!Unrestored,
     Settings!Latest, P!Mac!Latest, Settings!WriteBack, P!Mac!WriteBack, Settings!OriginalPresent,
     P!Mac!OriginalPresent, Settings!TypeOK, P!Mac!TypeOK, Settings!NeverStranded,
     P!Mac!NeverStranded, Settings!OriginalComesBack, P!Mac!OriginalComesBack, Settings!Max,
     P!Mac!Max
<1>2. Settings!Next => P!Mac!Next
  BY DEF Settings!Values, P!Mac!Values, Settings!Open, P!Mac!Open, Settings!Idle, P!Mac!Idle,
     Settings!Go, P!Mac!Go, Settings!Keep, P!Mac!Keep, Settings!Mark, P!Mac!Mark,
     Settings!Unrestored, P!Mac!Unrestored, Settings!Latest, P!Mac!Latest, Settings!Apply,
     P!Mac!Apply, Settings!Insert, P!Mac!Insert, Settings!WriteBack, P!Mac!WriteBack,
     Settings!OriginalPresent, P!Mac!OriginalPresent, Settings!Restore, P!Mac!Restore,
     Settings!Finish, P!Mac!Finish, Settings!Prepare, P!Mac!Prepare, Settings!Recheck,
     P!Mac!Recheck, Settings!Write, P!Mac!Write, Settings!ReadBack, P!Mac!ReadBack, Settings!Done,
     P!Mac!Done, Settings!Failed, P!Mac!Failed, Settings!Return, P!Mac!Return, Settings!Edit,
     P!Mac!Edit, Settings!Crash, P!Mac!Crash, Settings!Steps, P!Mac!Steps, Settings!Next,
     P!Mac!Next, Settings!Max, P!Mac!Max
<1> QED
  BY <1>1, <1>2

SettingsInv == part = "settings" => P!MacInv

\* The part begins and goes on with its invariant.
LEMMA SettingsBegins == Init => SettingsInv
BY SettingsIsThat, P!MacBegins DEF Init, SettingsInv

LEMMA SettingsMoves == part = "settings" /\ [Next]_vars => [Settings!Next]_(Settings!vars)
BY DEF Next, vars, Settings!vars

LEMMA SettingsGoes == SettingsInv /\ [Next]_vars => SettingsInv'
BY PartStays, SettingsIsThat, SettingsMoves, P!MacSteps DEF SettingsInv

\* What the invariant says of the part.
LEMMA SettingsHolds ==
  SettingsInv /\ part = "settings" => Settings!TypeOK /\ Settings!NeverStranded /\
    Settings!OriginalComesBack
BY SettingsIsThat, P!MacTypes, P!NothingIsStranded DEF SettingsInv

-----------------------------------------------------------------------------
(* The entry in the configuration of another program.                        *)

\* Registration here is what the proofs are about.
LEMMA RegistrationIsThat ==
  /\ P!Mcp!McpAssumption
  /\ Registration!Init => P!Mcp!Init
  /\ [Registration!Next]_(Registration!vars) => [P!Mcp!Next]_(P!Mcp!vars)
  /\ P!Mcp!TypeOK => Registration!TypeOK
  /\ P!Mcp!AnswerIsTrue => Registration!AnswerIsTrue
  /\ P!Mcp!RecordOfJob => Registration!RecordOfJob
  /\ P!Mcp!OtherEntryKept => Registration!OtherEntryKept
<1>1. /\ P!Mcp!McpAssumption
      /\ (Registration!Init => P!Mcp!Init)
      /\ (UNCHANGED Registration!vars => UNCHANGED P!Mcp!vars)
      /\ (P!Mcp!TypeOK => Registration!TypeOK)
      /\ (P!Mcp!AnswerIsTrue => Registration!AnswerIsTrue)
      /\ (P!Mcp!RecordOfJob => Registration!RecordOfJob)
      /\ (P!Mcp!OtherEntryKept => Registration!OtherEntryKept)
  BY Assumptions DEF Registration!McpAssumption, P!Mcp!McpAssumption, Registration!vars,
     P!Mcp!vars, Registration!NoReceipt, P!Mcp!NoReceipt, Registration!Receipts, P!Mcp!Receipts,
     Registration!Entries, P!Mcp!Entries, Registration!Loaded, P!Mcp!Loaded, Registration!Matches,
     P!Mcp!Matches, Registration!Idle, P!Mcp!Idle, Registration!Init, P!Mcp!Init, Registration!At,
     P!Mcp!At, Registration!Go, P!Mcp!Go, Registration!End, P!Mcp!End, Registration!Files,
     P!Mcp!Files, Registration!Outside, P!Mcp!Outside, Registration!Query, P!Mcp!Query,
     Registration!Command, P!Mcp!Command, Registration!Decide, P!Mcp!Decide, Registration!Look,
     P!Mcp!Look, Registration!Remove, P!Mcp!Remove, Registration!Absent, P!Mcp!Absent,
     Registration!Add, P!Mcp!Add, Registration!Check, P!Mcp!Check, Registration!WriteTemp,
     P!Mcp!WriteTemp, Registration!DropBackup, P!Mcp!DropBackup, Registration!SetAside,
     P!Mcp!SetAside, Registration!Place, P!Mcp!Place, Registration!PutBack, P!Mcp!PutBack,
     Registration!Tidy, P!Mcp!Tidy, Registration!UndoLook, P!Mcp!UndoLook,
     Registration!UndoRemove, P!Mcp!UndoRemove, Registration!UndoAbsent, P!Mcp!UndoAbsent,
     Registration!UndoAdd, P!Mcp!UndoAdd, Registration!UndoCheck, P!Mcp!UndoCheck,
     Registration!Undo, P!Mcp!Undo, Registration!Forget, P!Mcp!Forget, Registration!Steps,
     P!Mcp!Steps, Registration!TypeOK, P!Mcp!TypeOK, Registration!AnswerIsTrue,
     P!Mcp!AnswerIsTrue, Registration!RecordOfJob, P!Mcp!RecordOfJob, Registration!OtherEntryKept,
     P!Mcp!OtherEntryKept
<1>2. Registration!Next => P!Mcp!Next
  BY DEF Registration!NoReceipt, P!Mcp!NoReceipt, Registration!Entries, P!Mcp!Entries,
     Registration!Loaded, P!Mcp!Loaded, Registration!Matches, P!Mcp!Matches, Registration!Idle,
     P!Mcp!Idle, Registration!At, P!Mcp!At, Registration!Go, P!Mcp!Go, Registration!End,
     P!Mcp!End, Registration!Files, P!Mcp!Files, Registration!Outside, P!Mcp!Outside,
     Registration!Begin, P!Mcp!Begin, Registration!Query, P!Mcp!Query, Registration!Command,
     P!Mcp!Command, Registration!Decide, P!Mcp!Decide, Registration!Look, P!Mcp!Look,
     Registration!Remove, P!Mcp!Remove, Registration!Absent, P!Mcp!Absent, Registration!Add,
     P!Mcp!Add, Registration!Check, P!Mcp!Check, Registration!WriteTemp, P!Mcp!WriteTemp,
     Registration!DropBackup, P!Mcp!DropBackup, Registration!SetAside, P!Mcp!SetAside,
     Registration!Place, P!Mcp!Place, Registration!PutBack, P!Mcp!PutBack, Registration!Tidy,
     P!Mcp!Tidy, Registration!UndoLook, P!Mcp!UndoLook, Registration!UndoRemove, P!Mcp!UndoRemove,
     Registration!UndoAbsent, P!Mcp!UndoAbsent, Registration!UndoAdd, P!Mcp!UndoAdd,
     Registration!UndoCheck, P!Mcp!UndoCheck, Registration!Undo, P!Mcp!Undo, Registration!Forget,
     P!Mcp!Forget, Registration!Return, P!Mcp!Return, Registration!Steps, P!Mcp!Steps,
     Registration!Change, P!Mcp!Change, Registration!Restart, P!Mcp!Restart, Registration!Next,
     P!Mcp!Next
<1> QED
  BY <1>1, <1>2

RegistrationInv == part = "registration" => P!McpInv

\* The part begins and goes on with its invariant.
LEMMA RegistrationBegins == Init => RegistrationInv
BY RegistrationIsThat, P!McpBegins DEF Init, RegistrationInv

LEMMA RegistrationMoves ==
  part = "registration" /\ [Next]_vars => [Registration!Next]_(Registration!vars)
BY DEF Next, vars, Registration!vars

LEMMA RegistrationGoes == RegistrationInv /\ [Next]_vars => RegistrationInv'
BY PartStays, RegistrationIsThat, RegistrationMoves, P!McpSteps DEF RegistrationInv

\* What the invariant says of the part.
LEMMA RegistrationHolds ==
  RegistrationInv /\ part = "registration" => Registration!TypeOK /\ Registration!AnswerIsTrue
BY RegistrationIsThat, P!McpTypes DEF RegistrationInv

\* What a step of the part may not do.
LEMMA RegistrationDoes ==
  RegistrationInv /\ part = "registration" /\ [Next]_vars => Registration!RecordOfJob /\
    Registration!OtherEntryKept
BY RegistrationIsThat, RegistrationMoves, P!RecordGoesForward, P!OthersEntryIsLeft DEF
   RegistrationInv

-----------------------------------------------------------------------------
(* The remembered permissions.                                               *)

\* Permissions here is what the proofs are about.
LEMMA PermissionsIsThat ==
  /\ P!Store!PermissionAssumption
  /\ Permissions!Init => P!Store!Init
  /\ [Permissions!Next]_(Permissions!vars) => [P!Store!Next]_(P!Store!vars)
  /\ P!Store!TypeOK => Permissions!TypeOK
  /\ P!Store!WithdrawnStaysWithdrawn => Permissions!WithdrawnStaysWithdrawn
<1>1. /\ P!Store!PermissionAssumption
      /\ (Permissions!Init => P!Store!Init)
      /\ (UNCHANGED Permissions!vars => UNCHANGED P!Store!vars)
      /\ (P!Store!TypeOK => Permissions!TypeOK)
      /\ (P!Store!WithdrawnStaysWithdrawn => Permissions!WithdrawnStaysWithdrawn)
  BY Assumptions DEF Permissions!PermissionAssumption, P!Store!PermissionAssumption,
     Permissions!vars, P!Store!vars, Permissions!Grants, P!Store!Grants, Permissions!Lifetimes,
     P!Store!Lifetimes, Permissions!Preferences, P!Store!Preferences, Permissions!Default,
     P!Store!Default, Permissions!NoFile, P!Store!NoFile, Permissions!NoJob, P!Store!NoJob,
     Permissions!Init, P!Store!Init, Permissions!TypeOK, P!Store!TypeOK,
     Permissions!WithdrawnStaysWithdrawn, P!Store!WithdrawnStaysWithdrawn
<1>2. Permissions!Next => P!Store!Next
  BY DEF Permissions!Grants, P!Store!Grants, Permissions!Lifetimes, P!Store!Lifetimes,
     Permissions!Default, P!Store!Default, Permissions!NoFile, P!Store!NoFile,
     Permissions!Unreadable, P!Store!Unreadable, Permissions!Stored, P!Store!Stored,
     Permissions!NoJob, P!Store!NoJob, Permissions!Bounds, P!Store!Bounds, Permissions!Persisted,
     P!Store!Persisted, Permissions!With, P!Store!With, Permissions!Without, P!Store!Without,
     Permissions!OnlyRestricts, P!Store!OnlyRestricts, Permissions!NothingToWrite,
     P!Store!NothingToWrite, Permissions!Commit, P!Store!Commit, Permissions!Change,
     P!Store!Change, Permissions!Save, P!Store!Save, Permissions!SaveFails, P!Store!SaveFails,
     Permissions!Install, P!Store!Install, Permissions!Forget, P!Store!Forget, Permissions!Apply,
     P!Store!Apply, Permissions!Valid, P!Store!Valid, Permissions!Start, P!Store!Start,
     Permissions!Exit, P!Store!Exit, Permissions!MoveFolder, P!Store!MoveFolder, Permissions!Next,
     P!Store!Next
<1> QED
  BY <1>1, <1>2

PermissionsInv == part = "permissions" => P!RecordInv

\* The part begins and goes on with its invariant.
LEMMA PermissionsBegins == Init => PermissionsInv
BY PermissionsIsThat, P!RecordInit DEF Init, PermissionsInv

LEMMA PermissionsMoves ==
  part = "permissions" /\ [Next]_vars => [Permissions!Next]_(Permissions!vars)
BY DEF Next, vars, Permissions!vars

LEMMA PermissionsGoes == PermissionsInv /\ [Next]_vars => PermissionsInv'
BY PartStays, PermissionsIsThat, PermissionsMoves, P!RecordStep DEF PermissionsInv

\* What the invariant says of the part.
LEMMA PermissionsHolds ==
  PermissionsInv /\ part = "permissions" => Permissions!TypeOK /\
    Permissions!WithdrawnStaysWithdrawn
BY PermissionsIsThat, P!RecordTypes, P!WithdrawnIsKept DEF PermissionsInv

\* What the application changes can be undone, and what is withdrawn stays so.
THEOREM UndoSafety == Spec => SettingsCanBeUndone
<1>1. SettingsInv /\ part = "settings" =>
  Settings!TypeOK /\ Settings!NeverStranded /\ Settings!OriginalComesBack
  BY SettingsHolds
<1>2. RegistrationInv /\ part = "registration" => Registration!TypeOK /\ Registration!AnswerIsTrue
  BY RegistrationHolds
<1>3. PermissionsInv /\ part = "permissions" =>
  Permissions!TypeOK /\ Permissions!WithdrawnStaysWithdrawn
  BY PermissionsHolds
<1>4. RegistrationInv /\ [Next]_vars =>
  [part = "registration" => Registration!RecordOfJob /\ Registration!OtherEntryKept]_vars
  BY RegistrationDoes
<1> QED
  BY <1>1, <1>2, <1>3, <1>4, SettingsBegins, SettingsGoes, RegistrationBegins, RegistrationGoes,
     PermissionsBegins, PermissionsGoes, PTL DEF Spec, SettingsCanBeUndone

=============================================================================
