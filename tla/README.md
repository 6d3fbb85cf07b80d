# A verification project for BloomSweepy

BloomSweepy is a desktop application (Tauri: a Rust backend, a web window) that
scans disks, moves files to the operating system's trash, keeps indexes of files
and documents, changes a few system settings, and answers questions through
external AI programs.  Chat clients drive it over a local control socket
(`bloomsweepy-mcp` is the bridge), and a background worker watches one folder.
What can go wrong is mostly in what its parts share: one work slot, a few stored
reports, permissions that change while work is under way, plans that one party
makes and another approves, journals and records that have to explain what a
crash interrupted, and reports about disks that others keep changing.

All paths below are under `src/apps/desktop/src-tauri/src/` unless they say
otherwise; `core/` stands for `src/crates/bloomsweepy-core/src/`.

## 1. The system

| component | state | hard because | module |
|---|---|---|---|
| work slot and reports (`lib.rs`, `trash_actions.rs`) | active work, phase, flag, closed flag, leases of the completion guard, reports with their generation | every command races with every other, with the stop button and with shutdown | `ScanRuntime`, promise `WorkSlot` |
| trash journal and recovery (`trash_actions.rs`, `action_recovery.rs`) | two JSONL files, the trash | crash, failed or cut writes at every step | `TrashJournal` |
| cleanup plan review (`control_server.rs`, `lib.rs`) | pending plan, ended plans, permission, mirror in the status | client and window act on one plan, each call is several critical sections | `CleanupPlan` |
| chat operations (`control_server.rs`, `app_tools_search.rs`) | active job, finished jobs, owners, start requests, all bounded | reads take two locks one after the other | `ControlOperations` |
| window event stream (`apps/desktop/src/App.tsx`, `control_server.rs`) | revision, job shown, result shown | status, progress, end and answers overtake each other | `StatusFeed` |
| control server connections (`control_server.rs`, `crates/bloomsweepy-control`) | instance lock, descriptor, threads, count | joins threads that may wait for clients; crash and a second start | `ControlServer` |
| file change review (`file_change_review.rs`, `core/file_change_review.rs`) | preferences (memory and disk), baseline, history, schedule, channel | a check runs for minutes without the lock | `FileChangeReview` |
| permissions (`control_server.rs`, `permission_settings.rs`) | permissions, epochs, the record on disk | withdrawn while the record cannot be written | `PermissionStore` |
| file workspaces and access (`assistant_files.rs`, `assistant_access.rs`, `assistant_tools.rs`) | bindings, selections, plans, running operation | permission, folder and mode change during a call | `ExternalFiles`, `NativeFiles`, `NameSearch` |
| stored conversations (`assistant_sessions.rs`) | an SQLite file | migrations, limits and deletions of several commands interleave; crash | `AssistantSessions` |
| provider processes (`assistant_provider.rs`) | one slot, one flag shared by all questions, a child process | stop against end and next question, hanging programs | `AssistantTurn`, `ProviderCall` |
| docker tools (`docker_tools.rs`) | setting, preview, running, flag, child | exit against the start of a child | `DockerCleanup` |
| empty-trash plan (`empty_trash.rs`) | one plan, a latch | expiry, repeated confirmation, unknown outcome | `EmptyTrash` |
| cleanup tree (`cleanup_tree.rs`) | tree, selection rules, plan | copied under one lock, reviewed without it, stored under another | `CleanupTree`, `CleanupTreeSelection` |
| folder actions (`folder_actions.rs`) and preflight (`core/actions.rs`) | snapshots | files change between scan, review and move | `FolderSnapshot`, `DuplicateTrash` |
| application removal (`application_actions.rs`) | list, plan, latch | bundles change, the native move may not settle | `ApplicationRemoval` |
| scanners (`core/lib.rs`, `cleanup.rs`, `directory.rs`, `drive.rs`, `streaming_walk.rs`, `local_search.rs`) | one walk | limits, errors and changes at any entry | `DuplicateScan`, `DirectoryScan`, `CleanupScan`, `DriveScan`, `NameSearch` |
| file catalog and document index (`core/file_catalog.rs`, `windows_ntfs.rs`, `document_search.rs`, `document_worker.rs`) | SQLite indexes, a checkpoint of the change journal, a helper process | the disk changes during a build | `FileCatalog`, `DocumentIndex` |
| macOS settings (`mac_settings.rs`) | a journal of changes | write and journal are apart, others change the value | `MacSettings` |
| registration in other programs (`mcp_registration.rs`) | a record with a backup | two programs' writes, crash between them | `McpRegistration` |
| single instance and tray (`windows_single_instance.rs`, `lib.rs`) | mutex, event, two threads | a second launch meets an ending or starting first | `SingleInstance` |
| app tools, system monitors, stdio bridge | none, or a cache | | not modelled, see section 6 |

How they interact: every command that scans, moves files or builds an index
takes the slot first, so of the slot the other modules use only its promise
(`WorkSlot`, or a variable `slot` that names a holder).  A chat job takes the slot,
is made active, works, stores its report, is recorded as finished and gives the
slot back; each of these changes is sent to the window.  A plan names what it was
made from (a report's generation, a binding of folder and epochs, a tree, a
list) and is compared with it again when it is confirmed.  A change of
permission advances an epoch and then cancels, step by step, what runs under the
old one.  Shutdown closes the slot, ends the review worker, the running child
processes and the server.

`PROJECT.json` lists the components, the hazards of this code at their lines with
the properties that would notice them, and the lines each definition models.

## 2. The modules

A definition has the name of the function it stands for where there is one.  A
function that lets go of a lock, awaits or spawns is several actions, one for each
critical section; what a function does under one lock is one action.  A definition
that precedes another and says what a mistake would look like
(`BeginCommitUnchecked`, `HistoryFirst`, `ActsOnAnything`, ...) is a mutant: nothing
uses it, it is there to see that a property notices that mistake.  `PROJECT.json`
lists at least one for each property of each run; the others were tried in the same way.
Variables marked `history` record the past for the properties and guard nothing.

### The slot, the journal, the plan

**WorkSlot** is what the slot promises: one holder, no commit after an accepted
stop, nothing admitted after shutdown.

**ScanRuntime.**  `Work` is a set of commands, each issued again and again, `KindOf`
gives what it does with the slot.  `active` and `phase` are the mutex of the
runtime, `cancelled` the flags, `leases` the clones of the guard (the one of the
command and the one of its worker), `marker` what a lease captured, `dropping` a
last lease between its ownership test and the release.  A report is its
generation.  `begin_inner` tests the closed flag twice, so `EnterBegin` and
`ReserveSlot` are two steps; `close_and_cancel` sets the flag and cancels in two.
A permission that refuses a commit is a step that changes nothing.  A drive scan
stores no report the trash uses and behaves as a `reader`.

**TrashJournal.**  A file is a sequence of lines, a line an event, an operation and
items.  `faults` counts crashes and failed writes; a failed write leaves nothing, the
whole line, the whole line without its newline, or a torn one, to which the next
append is joined.  A trash entry is tagged with its operation: the code matches
path, size and a window of 15 seconds.  The history variables `cut` (a
checkpoint that ended early), `excused` (rotated away when over or when no audit
ran in between), `joined` (a terminal record that became part of a torn line)
and `audited` name exactly where the code promises less.  An audit that itself
rotates the journal leaves its operations unaudited.  Another program may
recreate a file, or the user empty the trash, between two jobs.

**CleanupPlan.**  Clients propose, windows decide.  The scan report and the cleanup
report are one `stored` generation.  Each call goes through the stages at which the
code has let go of `cleanup_review`; `mirror` is `status.pending_review`, written
after.  `late` becomes true once the time to live is over.

### Jobs, calls and child processes

**ControlOperations.**  The job's `stage` follows the start function, the worker and
the finish.  A call about a job goes through `authorizing`, `stopping`, `marking`,
`first` and `second` look.  Of the slot only `WorkSlot` is used, instantiated with
all jobs and one `Window` that stands for whatever the main window runs, so that
what is found holds for every runtime that implements `WorkSlot`.  Scans ask to
commit, index jobs do not (the code lets their result stand).

**StatusFeed.**  Every change of the status raises `status.revision` under a lock; the
send is a step of its own, so events may overtake one another in `channel`, and
answers to the window's commands are in `answers`, not ordered with the events.
`window` is the revision, the job shown and the handled end.  `overtaken` names the
one case in which the end is missed: the answer to a command, with a status in
which another job is already the last one, overtakes every event of the end.  The
window then shows the scan until the next status.  `unheard` are the jobs whose end was
sent before the window listened; a status that passes over one of them makes it
`overtaken` too.  The properties except exactly these scans.

**ControlServer.**  Two processes, one instance lock, one descriptor.  Accept thread,
shutdown and connection threads take their steps separately; a client may never
send and a process may be killed at any step.  An error of `accept` other than an
empty queue ends the accept thread for good (`AcceptFails`, 2085-2091): the process
goes on and the connections that were queued are refused.  What is said on a
connection is abstract.

**ExternalFiles** and **NativeFiles.**  A call reads the binding (folder and epochs) once
and works with it over several lock sections, while the window or the mode
changes.  In the first a selection and a plan belong to chat clients outside the
application; in the second to the conversation inside, with `change` the steps of
a change of mode (epoch, flags, lists).  Entries are numbers, identities and sizes
are not kept, a verification succeeds or fails.

**AssistantTurn** is one question: claim of the one provider slot, probing, rounds,
actions; `flag` is the one flag all questions share and `hand` a stop between its
look at `running` and its store.  `told` are the turns a stop reached: a stop that was
stored just before the next turn clears the flag (`assistant_provider.rs:556`) reached
nobody, and nothing is promised of it.  `child` is the process that the application
started; what that process starts in turn is in the next module.  **ProviderCall** is one
call of a program that writes to two files for as long as it lives.  `child` is the
process that is started, polled, killed and waited for; when that is a command
interpreter which runs a script (`external_program.rs:25-29`), `program` is what the
script runs: the interpreter waits for it, and killing the interpreter does not end
it, so it may go on writing after a call that gave up.  Both files are removed at the
end, an error of which the code drops: each may stay.  What is promised is about the
answer: it is the whole one, within its limit, of a program that has ended.  The
program, its exit and its output are the environment.

**AssistantSessions.**  Each command opens the file, migrates it and takes SQLite's
write lock (`writer`).  Crash and rollback are actions.

**DocumentIndex.**  A document is a number that grows with every write; a build reads
its stamp and then its text, and a helper process reads structured formats and may
hang.

**DockerCleanup.**  Setting, preview, run with its child processes, cancellation, exit
and change of mode; every flag write of the code is a step.

**FileChangeReview.**  `at` is the worker: deciding, waiting with or without a deadline,
checking.  `task` is what a check took along when it let go of the lock.  `wake` is
the channel of one message, `connected` its sender.  A command that changes
preferences holds `config_write` from its first to its last step.  Snapshots are
one stamp per file, taken at once; which changes a comparison lists is
`retain_changes`' input: those whose stamp differs, in the order of their
paths and possibly cut.

### What is moved, and what is reported

**EmptyTrash.**  A plan that can be confirmed once, a worker that asks the system, and
the latch `unconfirmed`; `atWork` (history) are the requests the system may still
carry out.  **CleanupTree** is the life of a tree and its plan; **CleanupTreeSelection** is
what its rules mean: `chosen` paints every entry when the user chooses, the rules
must agree with it after every later folder that is read.  **FolderSnapshot** and
**DuplicateTrash** are the checks before a move, entry by entry, while others change
the disk; a folder may have any shape and depth (`Under`).  **ApplicationRemoval** is list, plan and native move with its latch.

**DuplicateScan**, **DirectoryScan**, **CleanupScan**, **DriveScan** and **NameSearch** are the walks,
one entry per step; their limits are constants small enough to be met.  The reports
are compared with what the walk could see (`DuplicatesAreExact`, `MapIsExact`,
`CandidatesAreIdle`, `DriveAddsUp`, `CompleteIsWhole` have a reference definition over
the disk of the model).  The list of duplicates is sorted by the bytes they take and
cut at `max_duplicate_groups` (`core/lib.rs:606-612`), and nothing in the report says so:
`LargestAreFound` therefore promises every set of copies only while the report has
fewer groups than its limit, and otherwise the largest.  The instance `crowded` has two
sets and room for one.  A root of the cleanup scan that is missing or no local folder is an
issue of the report and does not count as unreadable (`core/cleanup.rs:175-197`).  A drive
whose root is another one after the walk gives no results (`core/local_search.rs:212-230`);
a drive may get a second root in its instance, at any step.
**FileCatalog** lists or applies the change journal to the rows of
one transaction.  **MacSettings**, **McpRegistration** and **PermissionStore** are records that
are written before or after what they describe, with a crash or a failed write
between any two steps and changes by others.  **SingleInstance** is the mutex and the
event of Windows with the two threads of the primary.

### Instances

`MCScanRuntime`, `MCTrashJournal` and `MCCleanupPlan` are small instances of one module.
`MCParts` and `MCEnds` hold several components that have nothing in common: the variable
`part` is chosen in the initial state and says which one a behaviour is about.  In
`MCParts` the parts take turns at the same variables (`s1`, `s2`, ...), and its constant
`Parts` is the set of those a run is about: `Reports.cfg`, `Moves.cfg` and `Calls.cfg` differ in
it and in the properties.  In `MCEnds`, which needs the fairness of each part, every part
has its own variables.  A property of such a run is the conjunction of the parts' own
properties, each under `part = ...`, and the comment above it names them and their
modules.  This keeps one run for each question; it does not compose the parts.  The
compositions are `ControlOperations` with `WorkSlot`, and `ScanRuntime`, which
implements `WorkSlot`.

## 3. The runs

| run | instance | shows |
|---|---|---|
| `ScanRuntimeSafety` | a chat scan, a cleanup scan, a trash job and a removal, two generations of the scan report | the slot names its command; an accepted cancellation stores nothing; a stored report stays until its command ends; no move from a spent report; nothing admitted after closing; implements `WorkSlot` |
| `ScanRuntimeLeak` | a removal and a reader | **violated**, see below |
| `TrashJournalSafety` | two operations, two items, one fault | a `completed` record vouches for the moves; "not started" is said only of untouched items |
| `TrashJournalRecovery` | three operations, one item, one fault | settled operations stay settled, attempts stay on record |
| `TrashJournalRotation` | the same | **violated** |
| `CleanupPlanLife` | two plans, one client, two window calls, two generations | one open plan, executed by one call; a declined plan moved nothing; ended plans stay; an executing plan ends |
| `CleanupPlanStale` | one plan, two window calls | **violated** |
| `Reports` | file catalog (two), duplicate scan (two), folder map, cleanup candidates, drive, names, conversations, provider call, registration, settings, permissions | `CatalogVouches`, `DuplicatesAreExact`, `ReportsAddUp`, `ConversationsStayWhole`, `SettingsCanBeUndone`: what is reported or recorded is what is there, or the report says that it is partial; a list of duplicates as long as its limit has the largest |
| `Moves` | conversation, tree, selection, duplicates, folder, empty trash, removal | `ChatMovesUnderPermission`, `TreeMovesItsSelection`, `RulesMeanLastChoice`, `MovesAreAsReviewed`, `OneRequestAtWork`: what is moved is what was agreed to |
| `Calls` | jobs, window (three), server, workspace, question, documents, docker, review (three) | `JobsAreAccountedFor`, `ServedWithinLimits`, `WorkspacePlanIsCurrent`, `TurnIsClosed`, `StampVouches`, `DockerRunsWhatWasShown`, `OffStaysOff`, `HistoryExplainsBaseline`: what was begun, and what becomes of it while the others go on |
| `Ends` | runtime, jobs, server, workspace, question, documents, docker, launches, review | liveness: `SlotIsGivenBack`, `ShutdownDrains`, `ChatWorkEnds`, `WorkersEnd`, `LaunchIsAnswered` |
| `SingleInstanceHandOver` | two launches and a third | **violated** |

Each conjunction contains the type invariant of its part.

Why the bounds are enough.  Two commands per race plus the stop button and
shutdown, which are not bounded, give every pair of critical sections; the runtime
run has four commands so that two bystanders can take the slot between two steps
of a third.  Three operations and `RotateAt = 3` lines give a journal that
rotates twice, the least for a record to be lost.  A history of one entry makes the
limits of the history and of the owners bite with the second job; a file that
changes twice is what an entry that is replaced needs.  Two calls, or a call and
the window, with two changes of permission (away and back) are the least for a
comparison of epochs to matter.  Every limit of a walk or a store is so small that
it is met, and left unmet, within the run (`MaxEntries`, `MaxVisited`,
`MaxIdentities`, `MaxGroups`, `MaxTargets`, `MaxSessions`, ...).  The files of `FileCatalog` need two
builds with a change between or during them; two files and one name, so that one
takes the path of the other.  `MaxCrashes`, `MaxChanges`, `MaxWrites`, `MaxRestarts` and the
like only cap counters.

Fairness.  Nobody has to issue, cancel or approve anything, and no client, program
or other process has to answer; what is fair is what a thread of the application
does without waiting for them.  `ScanRuntime`: an admitted command runs on
(`Progress(w)`), and `close_and_cancel` goes on once begun.  `CleanupPlan`: a window call
that began to execute.  `ControlOperations`: the worker thread of a job.
`ControlServer`: the accept thread (not that `accept` fails), the connection threads as far as their socket lets
them (a closed socket ends a read), and shutdown.  `ExternalFiles`: the spawned task and the
confirmation.  `AssistantTurn`: the turn, whose waits poll a deadline; the program itself
may hang for ever.  `DocumentIndex`: the build, whose helper has a deadline.
`DockerCleanup`: a run; its child may hang.  `SingleInstance`: the threads of the primary.
`FileChangeReview`: its worker runs and its waits have a limit or a sender, a command
that has to wake it does, and shutdown drops the sender.  All weak.  Removal
(`planTrash`) is not in `Ends`, because of the finding.

`CHECK_DEADLOCK FALSE` is in every configuration: the application may be closed,
ids and bounded counters run out.

### What the code does differently

* `ScanRuntimeLeak`: `application_actions.rs:457`.  The removal takes the slot
  and then registers a cancellation with `?`, before the guard exists.  If that
  fails the slot is never released: `docs/architecture/scan-runtime-safety.md:12`
  promises a guard on every path.  `control_server.rs:1618` has the same order,
  but there only a poisoned lock can fail.
* `TrashJournalRotation`: `action_recovery.rs:291`.  A checkpoint cut after its
  first record makes the operation count as seen in the current journal; no
  further one is written, the next rotation drops the record of the move.
  `docs/architecture/safe-trash-actions.md:60` promises that it stays.
* `CleanupPlanStale`: `control_server.rs:1723`.  The window's look at the pending
  plan ends it as stale when its details are gone, also while another call is
  moving its files.  `docs/architecture/mcp-cleanup-v3.md:46` says that a stale
  plan moved nothing.
* `SingleInstanceHandOver`: `windows_single_instance.rs:129`.  A second process keeps
  its handle of the mutex while it looks for the window; when the primary ends
  meanwhile, the next launch finds the mutex and leaves, although no primary is
  left.  Line 113 says that the mutex means a primary's lifetime.

## 4. The proofs

TLC decides a property for a small instance, the theorems for every value of the
constants.  A proof module states an inductive invariant (initial states, every step)
and derives the properties from it; where the properties follow step by step, a
theorem about `[Next]_vars` is used instead.  Small components share a proof module: it
extends the module of one component and takes the others as named instances
(`Server`, `Files`, `Mac`, `Mcp`, `Store`, `Empty`, `Removal`, `Trash`, `Snap`, `Chat`, `Index`, `Call`,
`Docker`, `Life`, `Talks`).

Assumptions.  `ScanRuntime` and `CleanupPlan` state theirs with `ASSUME`; all other
modules state them as a definition, which the theorems carry as a hypothesis
and the `MC` modules assert for their instances.  They say that markers such as `NoOp` are
no members, that limits are natural numbers (positive where the code has a positive
constant), and for `TrashJournal` and `DuplicateTrash` that the sets of operations, items and
paths are finite.  `FolderSnapshot` needs a finite folder whose entries all lie below its
top (`FolderAssumption`: no set of entries contains the folders of all its members).
Bounds on counters are assumed to be numbers, never small.

| proof module | of | theorems |
|---|---|---|
| `ScanRuntimeProofs` | `ScanRuntime` | every property of `ScanRuntimeSafety`, and that it implements `WorkSlot` |
| | `ControlServer`, `ExternalFiles` | what `ServedWithinLimits` and `WorkspacePlanIsCurrent` say |
| `TrashJournalProofs` | `TrashJournal` | every invariant of `TrashJournalSafety` and `TrashJournalRecovery` |
| `CleanupPlanProofs` | `CleanupPlan` | every safety property of `CleanupPlanLife` |
| | `PermissionStore`, `MacSettings`, `McpRegistration` | what `SettingsCanBeUndone` says |
| `ControlOperationsProofs` | `ControlOperations` | what `JobsAreAccountedFor` says of jobs |
| | `EmptyTrash`, `ApplicationRemoval`, `DuplicateTrash`, `FolderSnapshot`, `NativeFiles` | what `OneRequestAtWork`, `MovesAreAsReviewed` and `ChatMovesUnderPermission` say |
| `AssistantTurnProofs` | `AssistantTurn` | what `TurnIsClosed` says |
| | `DocumentIndex`, `ProviderCall`, `AssistantSessions`, `DockerCleanup`, `CleanupTree` | what `StampVouches`, `ConversationsStayWhole`, `DockerRunsWhatWasShown` and `TreeMovesItsSelection` say |
| `FileChangeReviewProofs` | `FileChangeReview` | what `OffStaysOff` and `HistoryExplainsBaseline` say |
| `MCKeptProofs` | `MCParts` | `OffStaysOff`, `HistoryExplainsBaseline`, `ServedWithinLimits`, `WorkspacePlanIsCurrent`, `SettingsCanBeUndone` |
| `MCJobsProofs` | `MCParts` | `OneRequestAtWork`, `MovesAreAsReviewed`, `ChatMovesUnderPermission`, `TurnIsClosed`, `StampVouches`, `ConversationsStayWhole`, `DockerRunsWhatWasShown`, `TreeMovesItsSelection` |

The last two derive the very formulas that the runs check.  For each part they show
that the instance of `MCParts` is the one the proofs are about (its initial states and
steps are theirs), carry the invariant of the proofs under `part = ...`, and conclude
the conjunct.  The theorems of the components hold for every value of their constants,
so nothing in these two depends on how small the instances are.

What follows is the argument of each proof: the facts that no single function says.

`ScanRuntimeProofs`.  How many leases are alive at each stage
(`LeaseCount`: a release needs the last one), that a lease's marker is its own
command's (`MarkerOwn`), at which stage and phase a report may be held (`HeldWhen`),
that a spent report is stored only while the job that spent it has not cleared it
(`SpentWhen`), that generations only grow (`GenerationBound`), and that accepted
stops raised the flag (`StopsAreFlags`).
Of the server: the lock is the process's from its start to its end (`OwnsLock`) and the
descriptor from its publication to the re-read before its removal (`OwnsFile`). A thread
that runs has a stored handle or was started by an accept thread that is about to store
it (`ThreadIsKnown`), and that thread is gone once shutdown joined it (`AcceptorGone`).
The count is exactly the number of connections alive or just counted, and only the
accept thread that found it below the limit raises it (`CountIsExact`).
Of the workspaces (`FilesInv`): permissions read earlier are ones that were in force
(`Past`), the holder of the slot is known, a plan that was stored is not looked at
before its task compared the permissions again, and from then on whoever still has the
permissions in force has the plan's (`Judging`, `VouchInv`).

`TrashJournalProofs`.  Any operations, items, rotation limit and number of crashes and
failed writes.  The two files are reduced to the sets of their lines; order matters only
for the last line, which may be torn, so the invariant speaks of the lines no later
write can take away (`Solid`).  Nothing is moved before its start is on record and
no unfinished operation has a `completed` line (`WriteAhead`); the terminal record of a
settled operation outlives its other records (`TerminalLasts`: the rotation copies what
is open and drops the rest together); a file that holds records of an operation holds
one of every move it attempted, in each file and while a checkpoint is written
(`WholePrev`, `WholeCur`, `WholeCopy`); what the audit still has to append is about
operations no file calls ended (`QueueShape`), and whatever it claims was untouched
(`Audited`).  The exceptions are the history variables `cut`, `excused` and `joined`, which is
where the code promises less.  The reading of a whole file is a fold; the one fact
needed about it is shown with a least counterexample on the length.

`CleanupPlanProofs`. Of the plan review: a window that works on a plan may find it ended
as stale by another one, and by nothing else (`EngagedExecutes`), and no two windows are
engaged in one plan (`EngagedAlone`).
Of the record of permissions (`RecordInv`): at rest nothing on record goes beyond what
is permitted in memory (`Kept`), a change that waits for its record may fall back to
that or is a restriction, and the record does not go beyond what is about to be
installed; except when the user was warned that old permissions may return, or when the
record could not be read.
Of the settings of the Mac (`MacInv`): at most the last row is unfinished (`MacRows`),
and a command is about that row or one to come (`MacCommand`); a status is written to a
row of the journal by its id, whatever was added since (`Mark`,
`mac_settings.rs:524-535`). As long as nobody else changes the value it fits the last
row that is left, what each row replaced fits the one before it, and the first is the
original's (`Settled`, `Linked`, `Rooted`): so undoing leads back step by step. Of the
entry in another program (`McpInv`): the record that is read is the one the command
began with until the command itself replaces it, whichever of the two files it is found
in (`McpFiles`); what would be put back was the application's own (`McpPrevious`); and a
command that nobody disturbs knows the entry (`McpEntry`).

`ControlOperationsProofs`. A job holds the slot exactly from its reservation to its
release (`HolderIsReserved`) and is active exactly from its start to its record
(`ActiveIsVisible`); a completed scan is the committing one as long as it has the slot
(`StoredCommits`), and a call that is about to mark a job has stopped it
(`MarkingIsStopped`), which together exclude that a mark and a completion meet. The
owners on record are exactly those of the active job and of the finished ones, in the
same order (`OwnersFollow`), although the two queues have bounds of their own that
differ by one; from it follow that a visible job has an owner and, with the set of the
jobs that were ever pushed out, that the look-up under two locks misses none.
Of emptying the trash: the property speaks of requests whose callers may long be gone;
the invariant says who answers for each (`WorkIsKnown`: it is waited for, about to be
recorded as not confirmed, or the latch is set), that whoever is on the way holds the
slot (`HolderHasSlot`), how far a worker is at each stage of its call (`WorkerOfCall`),
and that nothing is on its way once the latch is set (`LatchStops`).
Of the removal (`RemovalInv`): the latch is set from the commit until the answer, and as
long as a request is not settled (`RemovalLatch`); what is handed to the system was
compared with what was reviewed, the owners of its data included, in the step before
(`RemovalMoves`).
Of the duplicates (`TrashInv`): how far the last checks of a file are, and that what
they showed still holds unless somebody changed a file since they began (`MoveInv`); the
kept file supplies the copy, and it is another file than the moved one because a file
that passed the checks has no second link (`OneLink`, `Alone`).
Of a folder (`WalkInv`): an entry that stays as it was shown, in folders that do, is
read by the walk or still to come (`Reached`), because an open iterator returns what was
there when it was opened; therefore the walk for protected entries misses none of them
(`Auditing`, `Cleared`) and the last walk, while nothing changes, reads all there is
(`Rewalking`). That a whole tree is read follows from the assumption on folders and
needs no induction over the tree (`ReadWhole`).
Of a conversation (`ChatInv`): a confirmation names a plan that was listed by a job
which began no later than the confirmation (`BoundBefore`), so a name that is bound to
the permission in force was given under it (`NamesCurrent`); a job is registered before
its claim and a change of the mode reaches it (`Registered`), what it did not reach
works under the present one (`UnderPermission`), and lists bound earlier are forgotten
before the change is done (`Forgotten`).

`AssistantTurnProofs`. Only one turn is between its claim and its end (`OneTurn`); a
turn that was told to stop begins at most the one action that had been admitted
(`Stopped`); actions follow completed ones (`Followed`); a process belongs to a turn
that waits for it (`Attended`). Of the index: a row whose stamp is the document's has
its text, in the stored rows and in those of an open build (`Vouched`), and the text a
helper returns is of the stamp read before it started, or that stamp is past
(`HelperInv`).
Of the call (`CallInv`): the process exists only while it is polled or waited for; a
program without it is left only by a call that failed before the process had ended; from
its end on nobody writes to the file of the answer, so that what was read is what it
holds, whether or not it could be removed. Of the conversations (`TalksInv`): who writes
has the lock and counted what is there (`Counting`), the number of a conversation to
come is nobody else's (`Fresh`), messages belong to conversations that are there and
those a caller was told of stay (`Stored`), and each conversation is numbered without a
gap and names a provider that answered in it (`Whole`).
Of Docker: the preview is the last one made or there is none (`Identifiers`), a run
names one that was shown (`Asked`), a taken one is not there any more (`Spent`), and one
of the conversation is recorded before it is shown (`Recorded`). After the exit the test
of `closed` under the child's mutex holds by itself, because others clear the flag
(`Closing`). A cleanup runs no more commands than were selected (`DockerTyped`).
Of the tree (`LifeInv`): a command has the slot from the start of its work (`LifeSlot`);
while entries are moved, and until the reports of them are cleared, there is no tree
(`NoTreeMeanwhile`), so none is built on a report that is gone; what works on a
conversation's tree is registered, so a change of the mode reaches its flag
(`StopsReach`), and what it did not reach works under the present epoch
(`MovesUnderPermission`).

`FileChangeReviewProofs`.  `OffStaysOff` rests on the lock `config_write` (`OneWriter`), on what a
command that writes carries (`WriterCarries`) and on no command with ON being under
way while a saved OFF is the last choice (`OffEverywhere`); no assumption is needed.
`HistoryOfThisFolder`: the check under way has taken along the folder of its revision
(`CheckIsOwn`), and a new folder is a new revision.  A number is given once, so entries
with the same number are about the same change even after one was replaced
(`NumbersVouch`), and new entries are numbered in the order of their paths (`Ranks`), which
is why a decision stands at the change that was shown.  The check under way compares with
the baseline in force (`ComparesWithBaseline`), so no difference is lost by a check
that was cancelled, failed or came too late.

Only model-checked:
* everything about liveness (`Ends`, `ExecutingPlanEnds`): fairness and `ENABLED` are beyond
  the prover;
* `ReportsAddUp` and `DuplicatesAreExact`, the walks `DuplicateScan`, `DirectoryScan`, `CleanupScan`,
  `DriveScan` and `NameSearch`: they compare with a definition that adds up or descends a
  tree, which needs induction over data;
* `CatalogVouches` (`FileCatalog`), `RulesMeanLastChoice` (`CleanupTreeSelection`), what
  `JobsAreAccountedFor` says of the window (`StatusFeed`), and `SingleInstance`: no proof was
  written.

No module declares a RECURSIVE operator.

## 5. Hazards without a property, or with part of one

* `control_server.rs:780`: the mirror of the pending plan is written after the lock of the
  review is released and may disagree with it.  `CleanupPlan` contains it; it is a hint,
  the window asks for the plan itself.
* `control_server.rs:2392`: the same start request sent twice at the same time.  The slot makes
  the second fail; the documents promise one job only for a retry after the answer.
* `assistant_files.rs:1296`: a light call clears the mark of a heavy one that began meanwhile.
  `ExternalFiles` contains the step; the slot still refuses a second heavy call.
* `control_server.rs:633`: a plan may be stored although the cleanup permission went off
  between the test of it and the lock of the review.  `CleanupPlan` contains it
  (`EnsureAccess`, `CreatePlan`).  The window shows such a plan like any other and approving
  it does not ask for the permission again; `DeclinedPlanMovedNothing` speaks of
  plans that were declined, not of this one.
* `core/lib.rs:612`: groups of duplicates beyond the limit are dropped and the report does not
  say so.  `LargestAreFound` promises that the largest are kept, nothing promises the rest.
* `assistant_provider.rs:1302-1347`: a call that gives up on a script ends the interpreter
  and not the program, which may write its files again; and a private file that cannot be
  removed stays.  `ProviderCall` contains both, `CallIsClosed` does not forbid them.
* `assistant_provider.rs:556`: a stop that is stored after the last look at `running` and
  before the next question clears the flag reaches nobody.  `AssistantTurn` contains it,
  `TurnIsClosed` speaks of the stops that reached a question.
* `docker_tools.rs:335` is covered by `DockerRunsWhatWasShown` as far as a cleanup and its
  preview go.  That the setting does change during a cleanup, which line 336 refuses
  when it looks in time, is in the model and no property forbids it.

## 6. Not modelled

App tools (dispatch and conversion), system monitors (queries of the operating system
with a cache), the stdio bridge (one request at a time; its connection is in
`ControlServer`), the text protocols of the AI programs and their list of models, the
extraction of text from documents, the queries of the indexes, which only read, the
comparison of two snapshots with renames, the command around the folder review (it
follows the pattern of `CleanupTree`), the progress texts, and the rest of the window,
which draws what a command answered.  Lock order, poisoned locks and panics outside a
guard are not modelled.

What would come next: theorems about `StatusFeed`, `FileCatalog` and `SingleInstance`; the
comparison of snapshots with renames against a reference definition over bounded
trees; a composition of `ControlOperations` with `StatusFeed`, which today share only the
order of the events.
