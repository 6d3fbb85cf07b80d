------------------------------- MODULE MCEnds --------------------------------
(* What is begun comes to its end: the liveness of the components, under the  *)
(* fairness each of them states.  The parts never run together: `part` says  *)
(* which one a behaviour is about, and the variables of the others stay as   *)
(* they begin, with nothing begun.                                           *)
EXTENDS Integers, Sequences, FiniteSets, TLC

CONSTANTS
  control, directory, reader, NoWork,  \* commands that take the slot
  o1, o2, Window, NoRequest,           \* jobs
  x1, x2,                              \* connections, calls, cleanups, documents
  r1, noFolder, w1, NoArg, NoSnapshot    \* a folder, a command of the window

KindOf == control :> "controlScan" @@ directory :> "directoryScan" @@ reader :> "reader"
Once == [r \in {"scan", "cleanup", "directory"} |-> 1]
OneFolder == [f \in {"f"} |-> r1]
OnePath == [f \in {"f"} |-> 1]

VARIABLES
  part,
  rtActive, rtPhase, rtClosing, rtCancelled, rtPc, rtLeases, rtMarker,
  rtDropping, rtReports, rtNextGeneration, rtHeld, rtAccepted, rtSpent,
  opHolder, opCommitting, opStopped, opShut, opActive, opMarked, opHistory,
  opAuthorities, opRequests, opStage, opOwner, opKind, opRequest, opOutcome,
  opPc, opRef, opAnswer, opResent, opEvicted,
  svProc, svLock, svFile, svAcceptor, svActive, svStreams, svHandles, svConn,
  wsGrant, wsCleanup, wsScopeEpoch, wsCleanupEpoch, wsBinding, wsOperation,
  wsWorkspace, wsSlot, wsCall, wsTask, wsConfirm, wsIds, wsClaims, wsDismissed,
  tnRunning, tnFlag, tnRegistered, tnEpoch, tnChange, tnHand, tnTurn, tnChild,
  dxDisk, dxWrites, dxRows, dxMeta, dxBuild, dxChild, dxBuilds,
  dkEnabled, dkSaves, dkRunning, dkFlag, dkClosed, dkExit, dkPreview, dkIds,
  dkPlan, dkShown, dkEpoch, dkChange, dkRegistered, dkSetter, dkMaker, dkRun,
  dkOwner, dkChild,
  inPc, inLaunch, inMutexOf, inEventOf, inSignaled, inRequested, inStopped,
  inListener, inReady, inVisible, inHides, inWanted,
  fcConfig, fcRevision, fcNextId, fcBaseline, fcHistory, fcTruncated,
  fcDeadline, fcActive, fcClosed, fcStored, fcSlot, fcCancelled, fcAt, fcTask,
  fcWake, fcConnected, fcPc, fcArg, fcStamp, fcRestarts, fcOrigin, fcOffKept

runtimeVars == <<
    rtActive, rtPhase, rtClosing, rtCancelled, rtPc, rtLeases, rtMarker,
    rtDropping, rtReports, rtNextGeneration, rtHeld, rtAccepted, rtSpent>>
operationsVars == <<
    opHolder, opCommitting, opStopped, opShut, opActive, opMarked, opHistory,
    opAuthorities, opRequests, opStage, opOwner, opKind, opRequest, opOutcome,
    opPc, opRef, opAnswer, opResent, opEvicted>>
serverVars == <<
    svProc, svLock, svFile, svAcceptor, svActive, svStreams, svHandles, svConn>>
workspaceVars == <<
    wsGrant, wsCleanup, wsScopeEpoch, wsCleanupEpoch, wsBinding, wsOperation,
    wsWorkspace, wsSlot, wsCall, wsTask, wsConfirm, wsIds, wsClaims,
    wsDismissed>>
turnVars == <<
    tnRunning, tnFlag, tnRegistered, tnEpoch, tnChange, tnHand, tnTurn,
    tnChild>>
documentsVars == <<
    dxDisk, dxWrites, dxRows, dxMeta, dxBuild, dxChild, dxBuilds>>
dockerVars == <<
    dkEnabled, dkSaves, dkRunning, dkFlag, dkClosed, dkExit, dkPreview, dkIds,
    dkPlan, dkShown, dkEpoch, dkChange, dkRegistered, dkSetter, dkMaker,
    dkRun, dkOwner, dkChild>>
instanceVars == <<
    inPc, inLaunch, inMutexOf, inEventOf, inSignaled, inRequested, inStopped,
    inListener, inReady, inVisible, inHides, inWanted>>
reviewVars == <<
    fcConfig, fcRevision, fcNextId, fcBaseline, fcHistory, fcTruncated,
    fcDeadline, fcActive, fcClosed, fcStored, fcSlot, fcCancelled, fcAt,
    fcTask, fcWake, fcConnected, fcPc, fcArg, fcStamp, fcRestarts, fcOrigin,
    fcOffKept>>
vars == <<part, runtimeVars, operationsVars, serverVars, workspaceVars, turnVars, documentsVars, dockerVars, instanceVars, reviewVars>>

\* A chat job, a window scan and a reader of reports.
Runtime == INSTANCE ScanRuntime WITH
  Work <- {control, directory, reader}, NoWork <- NoWork, KindOf <- KindOf,
  MaxGeneration <- Once, active <- rtActive, phase <- rtPhase,
  closing <- rtClosing, cancelled <- rtCancelled, pc <- rtPc,
  leases <- rtLeases, marker <- rtMarker, dropping <- rtDropping,
  reports <- rtReports, nextGeneration <- rtNextGeneration, held <- rtHeld,
  accepted <- rtAccepted, spent <- rtSpent

\* Two jobs with a history of one.
Operations == INSTANCE ControlOperations WITH
  Ops <- {o1, o2}, Window <- Window, NoWork <- NoWork, Requests <- {},
  NoRequest <- NoRequest, Callers <- {}, MaxCompleted <- 1,
  holder <- opHolder, committing <- opCommitting, stopped <- opStopped,
  shut <- opShut, active <- opActive, marked <- opMarked,
  history <- opHistory, authorities <- opAuthorities, requests <- opRequests,
  stage <- opStage, owner <- opOwner, kind <- opKind, request <- opRequest,
  outcome <- opOutcome, pc <- opPc, ref <- opRef, answer <- opAnswer,
  resent <- opResent, evicted <- opEvicted

\* Two connections of which one is too many, when the server shuts down.
Server == INSTANCE ControlServer WITH
  Processes <- {"p1"}, Conns <- {x1, x2}, MaxConnections <- 1, proc <- svProc,
  lock <- svLock, file <- svFile, acceptor <- svAcceptor, active <- svActive,
  streams <- svStreams, handles <- svHandles, conn <- svConn

\* A call of a client while the window changes the permissions.
Workspace == INSTANCE ExternalFiles WITH
  Calls <- {x1}, Roots <- {r1}, NItems <- 1, Dirs <- {1}, Inside <- {},
  PageSize <- 1, MaxChanges <- 3, grant <- wsGrant, cleanup <- wsCleanup,
  scopeEpoch <- wsScopeEpoch, cleanupEpoch <- wsCleanupEpoch,
  binding <- wsBinding, operation <- wsOperation, workspace <- wsWorkspace,
  slot <- wsSlot, call <- wsCall, task <- wsTask, confirm <- wsConfirm,
  ids <- wsIds, claims <- wsClaims, dismissed <- wsDismissed

\* One question, two actions.
Turn == INSTANCE AssistantTurn WITH
  Turns <- {x1}, Actions <- {"a", "b"}, FileActions <- {"b"}, MaxActions <- 2,
  Candidates <- 2, MaxChanges <- 1, running <- tnRunning, flag <- tnFlag,
  registered <- tnRegistered, epoch <- tnEpoch, change <- tnChange,
  hand <- tnHand, turn <- tnTurn, child <- tnChild

\* Two documents, one read by the helper.
Documents == INSTANCE DocumentIndex WITH
  Docs <- {x1, x2}, Structured <- {x2}, MaxDocs <- 1, MaxWrites <- 2,
  MaxBuilds <- 1, disk <- dxDisk, writes <- dxWrites, rows <- dxRows,
  meta <- dxMeta, build <- dxBuild, child <- dxChild, builds <- dxBuilds

\* Two calls with one preview, and the end of the application.
Docker == INSTANCE DockerCleanup WITH
  Runs <- {x1, x2}, NSteps <- 2, MaxPreviews <- 1, MaxChanges <- 0,
  MaxSettings <- 0, enabled <- dkEnabled, saves <- dkSaves,
  running <- dkRunning, flag <- dkFlag, closed <- dkClosed, exit <- dkExit,
  preview <- dkPreview, ids <- dkIds, plan <- dkPlan, shown <- dkShown,
  epoch <- dkEpoch, change <- dkChange, registered <- dkRegistered,
  setter <- dkSetter, maker <- dkMaker, run <- dkRun, owner <- dkOwner,
  child <- dkChild

\* Two launches.
Instance == INSTANCE SingleInstance WITH
  Processes <- {"p1", "p2"}, MaxHides <- 1, pc <- inPc, launch <- inLaunch,
  mutexOf <- inMutexOf, eventOf <- inEventOf, signaled <- inSignaled,
  requested <- inRequested, stopped <- inStopped, listener <- inListener,
  ready <- inReady, visible <- inVisible, hides <- inHides, wanted <- inWanted

\* A command that changes the preferences of the review.
Review == INSTANCE FileChangeReview WITH
  Roots <- {r1}, NoRoot <- noFolder, Intervals <- {5}, Files <- {"f"},
  RootOf <- OneFolder, PathOrder <- OnePath, NoSnapshot <- NoSnapshot,
  Windows <- {w1}, NoArg <- NoArg, MaxEntries <- 1, MaxStamp <- 0,
  MaxRevision <- 2, MaxRestarts <- 0, config <- fcConfig,
  revision <- fcRevision, nextId <- fcNextId, baseline <- fcBaseline,
  history <- fcHistory, truncated <- fcTruncated, deadline <- fcDeadline,
  active <- fcActive, closed <- fcClosed, stored <- fcStored, slot <- fcSlot,
  cancelled <- fcCancelled, at <- fcAt, task <- fcTask, wake <- fcWake,
  connected <- fcConnected, pc <- fcPc, arg <- fcArg, stamp <- fcStamp,
  restarts <- fcRestarts, origin <- fcOrigin, offKept <- fcOffKept

Init ==
  /\ part \in {"runtime", "operations", "server", "workspace", "turn", "documents", "docker", "instance", "review"}
  /\ Runtime!Init /\ Operations!Init /\ Server!Init /\ Workspace!Init /\ Turn!Init /\ Documents!Init /\ Docker!Init /\ Instance!Init /\ Review!Init
  /\ (part # "documents" => dxDisk = [p \in {x1, x2} |-> 0])
  /\ (part # "docker" => ~dkEnabled)

Next ==
  \/ part = "runtime" /\ Runtime!Next /\ UNCHANGED <<part, operationsVars, serverVars, workspaceVars, turnVars, documentsVars, dockerVars, instanceVars, reviewVars>>
  \/ part = "operations" /\ Operations!Next /\ UNCHANGED <<part, runtimeVars, serverVars, workspaceVars, turnVars, documentsVars, dockerVars, instanceVars, reviewVars>>
  \/ part = "server" /\ Server!Next /\ UNCHANGED <<part, runtimeVars, operationsVars, workspaceVars, turnVars, documentsVars, dockerVars, instanceVars, reviewVars>>
  \/ part = "workspace" /\ Workspace!Next /\ UNCHANGED <<part, runtimeVars, operationsVars, serverVars, turnVars, documentsVars, dockerVars, instanceVars, reviewVars>>
  \/ part = "turn" /\ Turn!Next /\ UNCHANGED <<part, runtimeVars, operationsVars, serverVars, workspaceVars, documentsVars, dockerVars, instanceVars, reviewVars>>
  \/ part = "documents" /\ Documents!Next /\ UNCHANGED <<part, runtimeVars, operationsVars, serverVars, workspaceVars, turnVars, dockerVars, instanceVars, reviewVars>>
  \/ part = "docker" /\ Docker!Next /\ UNCHANGED <<part, runtimeVars, operationsVars, serverVars, workspaceVars, turnVars, documentsVars, instanceVars, reviewVars>>
  \/ part = "instance" /\ Instance!Next /\ UNCHANGED <<part, runtimeVars, operationsVars, serverVars, workspaceVars, turnVars, documentsVars, dockerVars, reviewVars>>
  \/ part = "review" /\ Review!Next /\ UNCHANGED <<part, runtimeVars, operationsVars, serverVars, workspaceVars, turnVars, documentsVars, dockerVars, instanceVars>>

Spec ==
  /\ Init /\ [][Next]_vars
  /\ \A w \in {control, directory, reader} : WF_runtimeVars(part = "runtime" /\ Runtime!Progress(w))
  /\ WF_runtimeVars(part = "runtime" /\ Runtime!CancelAtClose)
  /\ \A o \in {o1, o2} : WF_operationsVars(part = "operations" /\ Operations!Run(o))
  /\ WF_serverVars(part = "server" /\ Server!AcceptStep("p1"))
  /\ WF_serverVars(part = "server" /\ Server!ShutdownStep("p1"))
  /\ \A k \in {x1, x2} : WF_serverVars(part = "server" /\ Server!ConnStep(k))
  /\ WF_workspaceVars(part = "workspace" /\ Workspace!TaskSteps)
  /\ WF_workspaceVars(part = "workspace" /\ Workspace!ConfirmSteps)
  /\ WF_workspaceVars(part = "workspace" /\ Workspace!Spawn(x1))
  /\ WF_turnVars(part = "turn" /\ Turn!Step(x1))
  /\ WF_documentsVars(part = "documents" /\ Documents!BuildStep)
  /\ \A k \in {x1, x2} : WF_dockerVars(part = "docker" /\ Docker!RunStep(k))
  /\ WF_instanceVars(part = "instance" /\ Instance!Threads)
  /\ WF_instanceVars(part = "instance" /\ Instance!ReadyThread)
  /\ WF_reviewVars(part = "review" /\ Review!RunWorker)
  /\ WF_reviewVars(part = "review" /\ Review!DropSender)
  /\ WF_reviewVars(part = "review" /\ Review!WakeWorker(w1))

ASSUME Assumptions ==
  /\ Operations!OperationAssumption /\ Server!ServerAssumption
  /\ Workspace!ItemsAssumption /\ Turn!TurnAssumption /\ Documents!IndexAssumption
  /\ Docker!DockerAssumption /\ Instance!InstanceAssumption
  /\ Review!FolderAssumption /\ Review!ReviewBounds

-----------------------------------------------------------------------------
(* The properties of the parts.                                              *)

\* Every command that took the slot gives it back (ScanRuntime).
SlotIsGivenBack == Runtime!SlotIsGivenBack

\* After shutdown begins the slot becomes free for good (ScanRuntime).
ShutdownDrains == Runtime!ShutdownDrains

\* What a chat began ends: a job is recorded with its result, the server shuts
\* down, and no call of the workspace leaves it "running" (ControlOperations,
\* ControlServer, ExternalFiles).
ChatWorkEnds == Operations!OperationEnds /\ Server!ShutdownEnds /\ Workspace!RunningEnds

\* The slot of the programs that answer comes back, a build ends although its
\* helper hangs, a cleanup ends, a review that is due is checked, and its
\* thread ends with the application (AssistantTurn, DocumentIndex,
\* DockerCleanup, FileChangeReview).
WorkersEnd ==
  /\ Turn!SlotComesBack /\ Documents!BuildEnds /\ Docker!CleanupEnds
  /\ Review!DueIsChecked /\ Review!ShutdownJoins

\* A launch ends in a window that stays (SingleInstance).
LaunchIsAnswered == Instance!LaunchIsAnswered
==============================================================================
