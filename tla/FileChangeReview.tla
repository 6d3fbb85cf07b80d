---------------------------- MODULE FileChangeReview ----------------------------
(***************************************************************************)
(* The optional review of changed files (file_change_review.rs): one worker *)
(* thread compares a folder with its last complete snapshot every few       *)
(* minutes, the main window changes the preferences and decides about       *)
(* entries, and only the preferences survive a restart.  The worker uses    *)
(* the work slot of the application, which other commands take and which     *)
(* the stop button may cancel.                                              *)
(***************************************************************************)
EXTENDS Naturals, FiniteSets

CONSTANTS
    Roots, NoRoot,  \* folders that can be reviewed, and no choice yet
    Intervals,      \* minutes between two checks
    Files,          \* paths of files
    RootOf,         \* the folder of each file
    PathOrder,      \* the position of each path in a sorted list
    NoSnapshot,     \* no baseline, no result
    Windows,        \* commands of the main window in flight
    NoArg,
    MaxEntries,     \* MAX_HISTORY_ENTRIES
    MaxStamp,       \* bound on the changes of files
    MaxRevision,    \* bound on changes of the preferences
    MaxRestarts     \* bound on restarts

FolderAssumption ==
    /\ NoRoot \notin Roots
    /\ RootOf \in [Files -> Roots] /\ PathOrder \in [Files -> Nat]
    /\ \A f, g \in Files : PathOrder[f] = PathOrder[g] => f = g
    /\ IsFiniteSet(Files)
    /\ \A S \in SUBSET Files : NoSnapshot \notin [S -> Nat]
ReviewBounds ==
    {MaxEntries, MaxStamp, MaxRevision, MaxRestarts} \subseteq Nat

VARIABLES
    config,     \* the preferences in force
    revision,   \* counts the changes of them
    nextId,     \* the last number given to an entry
    baseline,   \* the last complete snapshot, the stamp of every file
    history,    \* entries; their numbers give their order
    truncated,  \* history_truncated
    deadline,   \* next_deadline: none, now, or after the interval
    active,     \* in_progress, and `active` holds the flag of the running check
    closed,
    stored,     \* the preferences on disk
    slot,       \* who holds the work slot
    cancelled,  \* the flag of the running check
    at,         \* where the worker stands
    task,       \* what its check took along, and its result
    wake,       \* a message in the channel
    connected,  \* the sender of the channel is alive
    pc, arg,    \* where each window command stands, and what it carries
    stamp,      \* metadata of every file
    restarts,
    origin,     \* history: the snapshot that began the present comparisons
    offKept     \* history: the last choice was OFF and it was saved

review == <<config, revision, nextId, baseline, history, truncated, deadline, active, closed, origin>>
worker == <<at, task>>
channel == <<wake, connected>>
calls == <<pc, arg>>
runtime == <<slot, cancelled>>
rest == <<stamp, restarts>>
vars == <<review, stored, runtime, worker, channel, calls, rest, offKept>>

Configs == [enabled : BOOLEAN, root : Roots, interval : Intervals]
DefaultConfig == [enabled |-> FALSE, root |-> NoRoot, interval |-> CHOOSE n \in Intervals : TRUE]
AllConfigs == Configs \cup {DefaultConfig}
Entries ==
    [revision : Nat, id : Nat, file : Files, stamp : Nat, decision : {"rule", "manual"}, about : Nat]
FilesOf(root) == {f \in Files : RootOf[f] = root}
IsSnapshot(s) == s = NoSnapshot \/ \E root \in Roots \cup {NoRoot} : s \in [FilesOf(root) -> Nat]
NoTask == [root |-> NoRoot, revision |-> 0, previous |-> NoSnapshot, result |-> NoSnapshot]
Writing == {"write", "saveOff", "saveOn", "applyOn", "wakeLocked"}

TypeOK ==
    /\ config \in AllConfigs /\ stored \in AllConfigs
    /\ revision \in Nat /\ nextId \in Nat
    /\ IsSnapshot(baseline) /\ IsSnapshot(origin)
    /\ history \subseteq Entries /\ Cardinality(history) <= MaxEntries
    /\ truncated \in BOOLEAN
    /\ deadline \in {"none", "due", "later"}
    /\ active \in BOOLEAN /\ closed \in BOOLEAN
    /\ slot \in {"free", "other", "review"} /\ cancelled \in BOOLEAN
    /\ at \in {"top", "timed", "blocked", "check", "capture", "captured", "release", "ended"}
    /\ DOMAIN task = DOMAIN NoTask
    /\ task.root \in Roots \cup {NoRoot} /\ task.revision \in Nat
    /\ IsSnapshot(task.previous) /\ IsSnapshot(task.result)
    /\ wake \in BOOLEAN /\ connected \in BOOLEAN
    /\ pc \in [Windows -> Writing \cup {"idle", "wake", "decide"}]
    /\ arg \in [Windows -> AllConfigs \cup Entries \cup {NoArg}]
    /\ stamp \in [Files -> Nat] /\ restarts \in Nat
    /\ offKept \in BOOLEAN

Init ==
    /\ config = DefaultConfig /\ stored = DefaultConfig
    /\ revision = 1 /\ nextId = 0
    /\ baseline = NoSnapshot /\ origin = NoSnapshot
    /\ history = {} /\ truncated = FALSE
    /\ deadline = "none" /\ active = FALSE /\ closed = FALSE
    /\ slot = "free" /\ cancelled = FALSE
    /\ at = "top" /\ task = NoTask
    /\ wake = FALSE /\ connected = TRUE
    /\ pc = [w \in Windows |-> "idle"] /\ arg = [w \in Windows |-> NoArg]
    /\ stamp = [f \in Files |-> 0] /\ restarts = 0
    /\ offKept = FALSE

-------------------------------------------------------------------------------
(* ReviewInner. *)

\* invalidate: the running check is cancelled and disowned.
Invalidate ==
    /\ cancelled' = (cancelled \/ active)
    /\ active' = FALSE
    /\ revision' = revision + 1
    /\ baseline' = NoSnapshot /\ origin' = NoSnapshot

\* change_config.
ChangeConfig(c) ==
    /\ revision < MaxRevision
    /\ Invalidate
    /\ config' = c
    /\ history' = IF c.root # config.root THEN {} ELSE history
    /\ truncated' = IF c.root # config.root THEN FALSE ELSE truncated
    /\ deadline' = IF c.enabled THEN "due" ELSE "none"
    /\ UNCHANGED <<nextId, closed>>

Before(e, d) == e.id < d.id

\* A history without limits.
Unbounded(entries) == {entries}

\* The oldest entries give way to the limits on their number and on their size.
Kept(entries) ==
    {K \in SUBSET entries :
        /\ Cardinality(K) <= MaxEntries
        /\ \A e \in K, d \in entries \ K : Before(d, e)}

\* retain_changes: an entry replaces the one of the same path and, with it, the
\* decision about it.  The report, in the order of the paths, may have been cut.
NewEntries(listed, seen) ==
    {[revision |-> revision, file |-> f, stamp |-> seen[f], decision |-> "rule", about |-> 0,
      id |-> nextId + Cardinality({g \in listed : PathOrder[g] <= PathOrder[f]})] : f \in listed}

FirstOf(changed) ==
    {L \in SUBSET changed : \A f \in L, g \in changed \ L : PathOrder[f] < PathOrder[g]}

RetainChanges(changed, seen) ==
    \E listed \in FirstOf(changed) :
        LET entries == {e \in history : e.file \notin listed} \cup NewEntries(listed, seen)
        IN  /\ history' \in Kept(entries)
            /\ truncated' = (truncated \/ listed # changed \/ history' # entries)
            /\ nextId' = nextId + Cardinality(listed)

-------------------------------------------------------------------------------
(* scheduler_loop. *)

LoopTop ==
    /\ at = "top"
    /\ at' = IF closed THEN "ended"
             ELSE IF ~config.enabled \/ deadline = "none" THEN "blocked"
             ELSE IF deadline = "due" THEN "check" ELSE "timed"
    /\ UNCHANGED <<review, stored, runtime, task, channel, calls, rest, offKept>>

Receive ==
    /\ at \in {"blocked", "timed"}
    /\ wake
    /\ wake' = FALSE
    /\ at' = "top"
    /\ UNCHANGED <<review, stored, runtime, task, connected, calls, rest, offKept>>

Disconnected ==
    /\ at \in {"blocked", "timed"}
    /\ ~wake /\ ~connected
    /\ at' = "ended"
    /\ UNCHANGED <<review, stored, runtime, task, channel, calls, rest, offKept>>

\* The interval is over.
TimedOut ==
    /\ at = "timed"
    /\ at' = "top"
    /\ deadline' = IF deadline = "later" THEN "due" ELSE deadline
    /\ UNCHANGED <<config, revision, nextId, baseline, history, truncated, active, closed, origin,
                   stored, runtime, task, channel, calls, rest, offKept>>

-------------------------------------------------------------------------------
(* run_check. *)

SkipCheck ==
    /\ at = "check"
    /\ closed \/ ~config.enabled
    /\ at' = "top"
    /\ UNCHANGED <<review, stored, runtime, task, channel, calls, rest, offKept>>

BeginCheck ==
    /\ at = "check"
    /\ ~closed /\ config.enabled
    /\ slot = "free"
    /\ slot' = "review" /\ cancelled' = FALSE
    /\ active' = TRUE /\ deadline' = "none"
    /\ task' = [root |-> config.root, revision |-> revision, previous |-> baseline,
                result |-> NoSnapshot]
    /\ at' = "capture"
    /\ UNCHANGED <<config, revision, nextId, baseline, history, truncated, closed, origin,
                   stored, channel, calls, rest, offKept>>

\* Another job holds the slot, or there is too little free memory.
RefuseCheck ==
    /\ at = "check"
    /\ ~closed /\ config.enabled
    /\ deadline' = "later"
    /\ at' = "top"
    /\ UNCHANGED <<config, revision, nextId, baseline, history, truncated, active, closed, origin,
                   stored, runtime, task, channel, calls, rest, offKept>>

\* capture_file_change_snapshot, a complete snapshot or an error.
Capture ==
    /\ at = "capture"
    /\ \/ task' = [task EXCEPT !.result = [f \in FilesOf(task.root) |-> stamp[f]]]
       \/ UNCHANGED task
    /\ at' = "captured"
    /\ UNCHANGED <<review, stored, runtime, channel, calls, rest, offKept>>

\* A check that stores its result whenever the review is on.
CanCommitEnabled == ~closed /\ config.enabled
CanCommit ==
    /\ ~closed /\ config.enabled
    /\ revision = task.revision
    /\ ~cancelled /\ active

EndCheck == active' = FALSE /\ deadline' = "later" /\ at' = "release"

StoreSnapshot ==
    /\ at = "captured" /\ task.result # NoSnapshot
    /\ CanCommit
    /\ baseline' = task.result
    /\ IF task.previous = NoSnapshot
       THEN origin' = task.result /\ UNCHANGED <<history, truncated, nextId>>
       ELSE /\ RetainChanges({f \in FilesOf(task.root) : task.result[f] # task.previous[f]}, task.result)
            /\ UNCHANGED origin
    /\ EndCheck
    /\ UNCHANGED <<config, revision, closed, stored, runtime, task, channel, calls, rest, offKept>>

StoreFailure ==
    /\ at = "captured" /\ task.result = NoSnapshot
    /\ CanCommit
    /\ EndCheck
    /\ UNCHANGED <<config, revision, nextId, baseline, history, truncated, closed, origin,
                   stored, runtime, task, channel, calls, rest, offKept>>

\* A cancelled check that keeps its snapshot for the next comparison.
DropResultKeepsSnapshot ==
    /\ at = "captured"
    /\ ~CanCommit
    /\ IF revision = task.revision
       THEN /\ EndCheck
            /\ baseline' = IF task.result = NoSnapshot THEN baseline ELSE task.result
            /\ origin' = IF origin = NoSnapshot THEN baseline' ELSE origin
       ELSE at' = "release" /\ UNCHANGED <<active, deadline, baseline, origin>>
    /\ UNCHANGED <<config, revision, nextId, history, truncated, closed,
                   stored, runtime, task, channel, calls, rest, offKept>>

\* A result that came too late; a newer configuration has its own schedule.
DropResult ==
    /\ at = "captured"
    /\ ~CanCommit
    /\ IF revision = task.revision THEN EndCheck
       ELSE at' = "release" /\ UNCHANGED <<active, deadline>>
    /\ UNCHANGED <<config, revision, nextId, baseline, history, truncated, closed, origin,
                   stored, runtime, task, channel, calls, rest, offKept>>

\* The completion guard goes after the lock.
ReleaseCheck ==
    /\ at = "release"
    /\ slot' = "free" /\ cancelled' = FALSE
    /\ task' = NoTask
    /\ at' = "top"
    /\ UNCHANGED <<review, stored, channel, calls, rest, offKept>>

-------------------------------------------------------------------------------
(* update_config.  The lock config_write is held from the first step to the   *)
(* last.                                                                      *)

\* Preferences that are written without the lock.
ConfigWriteUnlocked == TRUE
ConfigWriteFree == \A w \in Windows : pc[w] \notin Writing

Goto(w, stage) == pc' = [pc EXCEPT ![w] = stage] /\ UNCHANGED arg
Return(w) == pc' = [pc EXCEPT ![w] = "idle"] /\ arg' = [arg EXCEPT ![w] = NoArg]

BeginUpdate(w, c) ==
    /\ pc[w] = "idle"
    /\ ConfigWriteFree
    /\ pc' = [pc EXCEPT ![w] = "write"]
    /\ arg' = [arg EXCEPT ![w] = c]
    /\ offKept' = (offKept /\ ~c.enabled)
    /\ UNCHANGED <<review, stored, runtime, worker, channel, rest>>

\* The application is closing, or the folder to switch on is not accepted or is
\* the one in force.
EndUpdate(w) ==
    /\ \/ pc[w] \in {"write", "applyOn"} /\ closed
       \/ pc[w] = "write" /\ arg[w].enabled
    /\ Return(w)
    /\ UNCHANGED <<review, stored, runtime, worker, channel, rest, offKept>>

\* OFF takes effect before it is saved, ON after.
ApplyOff(w) ==
    /\ pc[w] = "write" /\ ~arg[w].enabled /\ ~closed
    /\ ChangeConfig(arg[w])
    /\ Goto(w, "saveOff")
    /\ UNCHANGED <<stored, slot, worker, channel, rest, offKept>>

SaveOff(w) ==
    /\ pc[w] = "saveOff"
    /\ \/ stored' = arg[w] /\ offKept' = TRUE
       \/ stored' \in {stored, arg[w]} /\ UNCHANGED offKept
    /\ Goto(w, "wakeLocked")
    /\ UNCHANGED <<review, runtime, worker, channel, rest>>

CheckOn(w) ==
    /\ pc[w] = "write" /\ arg[w].enabled /\ ~closed
    /\ config # arg[w]
    /\ Goto(w, "saveOn")
    /\ UNCHANGED <<review, stored, runtime, worker, channel, rest, offKept>>

\* The check of the storage after the write may still fail.
SaveOn(w) ==
    /\ pc[w] = "saveOn"
    /\ \/ stored' = arg[w] /\ Goto(w, "applyOn")
       \/ stored' \in {stored, arg[w]} /\ Return(w)
    /\ UNCHANGED <<review, runtime, worker, channel, rest, offKept>>

\* Preferences that a waiting worker does not hear of.
ApplyOnSilently(w) ==
    /\ pc[w] = "applyOn" /\ ~closed
    /\ ChangeConfig(arg[w])
    /\ Return(w)
    /\ UNCHANGED <<stored, slot, worker, channel, rest, offKept>>

ApplyOn(w) ==
    /\ pc[w] = "applyOn" /\ ~closed
    /\ ChangeConfig(arg[w])
    /\ Goto(w, "wakeLocked")
    /\ UNCHANGED <<stored, slot, worker, channel, rest, offKept>>

\* wake_worker: the channel holds one message.
WakeWorker(w) ==
    /\ pc[w] \in {"wakeLocked", "wake"}
    /\ wake' = (wake \/ connected)
    /\ Return(w)
    /\ UNCHANGED <<review, stored, runtime, worker, connected, rest, offKept>>

-------------------------------------------------------------------------------
(* request_file_change_review_check and set_file_change_review_disposition. *)

RequestCheck(w) ==
    /\ pc[w] = "idle"
    /\ ~closed /\ config.enabled
    /\ deadline' = IF active THEN deadline ELSE "due"
    /\ Goto(w, "wake")
    /\ UNCHANGED <<config, revision, nextId, baseline, history, truncated, active, closed, origin,
                   stored, runtime, worker, channel, rest, offKept>>

\* The window shows an entry; the user will decide about what is shown.
ShowEntry(w, e) ==
    /\ pc[w] = "idle"
    /\ pc' = [pc EXCEPT ![w] = "decide"]
    /\ arg' = [arg EXCEPT ![w] = e]
    /\ UNCHANGED <<review, stored, runtime, worker, channel, rest, offKept>>

\* An entry that is looked up by its path.
HasPathOf(e, shown) == e.file = shown.file
HasIdOf(e, shown) == e.revision = shown.revision /\ e.id = shown.id

SetDisposition(w) ==
    /\ pc[w] = "decide"
    /\ history' = IF closed THEN history
                  ELSE {IF HasIdOf(e, arg[w])
                        THEN [e EXCEPT !.decision = "manual", !.about = arg[w].stamp]
                        ELSE e : e \in history}
    /\ Return(w)
    /\ UNCHANGED <<config, revision, nextId, baseline, truncated, deadline, active, closed, origin,
                   stored, runtime, worker, channel, rest, offKept>>

-------------------------------------------------------------------------------
(* Shutdown, restart and the rest of the computer. *)

Shutdown ==
    /\ ~closed
    /\ closed' = TRUE
    /\ Invalidate
    /\ deadline' = "none"
    /\ UNCHANGED <<config, nextId, history, truncated,
                   stored, slot, worker, channel, calls, rest, offKept>>

\* A shutdown that wakes only a worker with something to do.
DropSenderWhenEnabled ==
    /\ closed /\ connected
    /\ config.enabled
    /\ connected' = FALSE
    /\ UNCHANGED <<review, stored, runtime, worker, wake, calls, rest, offKept>>

DropSender ==
    /\ closed /\ connected
    /\ connected' = FALSE
    /\ UNCHANGED <<review, stored, runtime, worker, wake, calls, rest, offKept>>

\* The application ends or is killed, and setup_inner reads the preferences; a
\* folder that is gone turns the review off, unreadable ones leave the default.
Restart ==
    /\ restarts < MaxRestarts
    /\ restarts' = restarts + 1
    /\ \/ config' \in {stored, [stored EXCEPT !.enabled = FALSE]} /\ revision' = 1
       \/ config' = DefaultConfig /\ revision' = 0
    /\ nextId' = 0
    /\ baseline' = NoSnapshot /\ origin' = NoSnapshot
    /\ history' = {} /\ truncated' = FALSE
    /\ deadline' = IF config'.enabled THEN "due" ELSE "none"
    /\ active' = FALSE /\ closed' = FALSE
    /\ slot' = "free" /\ cancelled' = FALSE
    /\ at' = "top" /\ task' = NoTask
    /\ wake' = FALSE /\ connected' = TRUE
    /\ pc' = [w \in Windows |-> "idle"] /\ arg' = [w \in Windows |-> NoArg]
    /\ UNCHANGED <<stored, stamp, offKept>>

\* Every change of a file gives it a new stamp.
ChangeFile(f) ==
    /\ \E n \in 1..MaxStamp :
        /\ \A g \in Files : stamp[g] < n
        /\ n > 1 => n - 1 \in {stamp[g] : g \in Files}
        /\ stamp' = [stamp EXCEPT ![f] = n]
    /\ UNCHANGED <<review, stored, runtime, worker, channel, calls, restarts, offKept>>

OtherJob ==
    /\ slot' \in {"free", "other"} \ {slot} /\ slot # "review"
    /\ UNCHANGED <<review, stored, cancelled, worker, channel, calls, rest, offKept>>

\* The stop button.
CancelSlot ==
    /\ slot = "review" /\ ~cancelled
    /\ cancelled' = TRUE
    /\ UNCHANGED <<review, stored, slot, worker, channel, calls, rest, offKept>>

-------------------------------------------------------------------------------
RunWorker ==
    \/ LoopTop \/ Receive \/ Disconnected \/ TimedOut
    \/ SkipCheck \/ BeginCheck \/ RefuseCheck
    \/ Capture \/ StoreSnapshot \/ StoreFailure \/ DropResult \/ ReleaseCheck

Next ==
    \/ RunWorker
    \/ \E w \in Windows :
        \/ \E c \in AllConfigs : BeginUpdate(w, c)
        \/ EndUpdate(w) \/ ApplyOff(w) \/ SaveOff(w)
        \/ CheckOn(w) \/ SaveOn(w) \/ ApplyOn(w)
        \/ WakeWorker(w)
        \/ RequestCheck(w)
        \/ \E e \in history : ShowEntry(w, e)
        \/ SetDisposition(w)
    \/ Shutdown \/ DropSender
    \/ Restart
    \/ \E f \in Files : ChangeFile(f)
    \/ OtherJob \/ CancelSlot

Spec == Init /\ [][Next]_vars

\* The thread of the worker runs, its snapshot has a time limit, and a command
\* that has to wake it does.
FairSpec ==
    /\ Spec
    /\ WF_vars(RunWorker) /\ WF_vars(DropSender)
    /\ \A w \in Windows : WF_vars(WakeWorker(w))

-------------------------------------------------------------------------------
(* Properties. *)

\* What is shown belongs to the folder in force: no check that began for another
\* folder leaves a snapshot or an entry behind, however late it ends
\* (change_config, can_commit).
HistoryOfThisFolder ==
    /\ baseline # NoSnapshot => DOMAIN baseline = FilesOf(config.root)
    /\ \A e \in history : RootOf[e.file] = config.root

\* No change is skipped by a check that was cancelled, failed or came too late:
\* a file that differs from the snapshot the comparisons began with has an entry
\* for its latest state, or the list says that it is incomplete (run_check,
\* retain_changes).
HistoryExplainsBaseline ==
    baseline # NoSnapshot =>
        \A f \in DOMAIN baseline : baseline[f] # origin[f] =>
            truncated \/ \E e \in history : e.file = f /\ e.stamp = baseline[f]

\* A decision of the user stands at the very change that the window showed, even
\* if a check replaced it in the meantime (set_file_change_review_disposition,
\* the ids of retain_changes).
DecisionIsAboutWhatWasShown ==
    \A e \in history : e.decision = "manual" => e.about = e.stamp

\* OFF that was saved stays OFF until the user asks for ON again, whatever
\* other command is in flight and across restarts (config_write, the order of
\* the two steps of update_config).
OffStaysOff == offKept => ~config.enabled /\ ~stored.enabled

\* A check that is due is started or put off, never forgotten (scheduler_loop,
\* wake_worker).
DueIsChecked == config.enabled /\ deadline = "due" ~> ~config.enabled \/ deadline # "due"

\* The worker ends after shutdown, so that the join returns.
ShutdownJoins == closed ~> at = "ended" \/ ~closed
===============================================================================
