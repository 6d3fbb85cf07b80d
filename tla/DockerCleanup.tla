---------------------------- MODULE DockerCleanup ----------------------------
(* The Docker cleanup (docker_tools.rs): a stored setting, one preview that   *)
(* may be used once, a cleanup that runs up to three fixed commands in child  *)
(* processes, its cancellation, and the exit of the application.  A preview   *)
(* made by the conversation is bound to the permission epoch it was made in   *)
(* (assistant_access.rs, record_plan).                                        *)
EXTENDS Integers, Sequences

CONSTANTS
  Runs,        \* calls of execute_docker_cleanup
  NSteps,      \* kinds of cleanup a request selects
  MaxPreviews, \* bound: previews made
  MaxChanges,  \* bound: changes of the permission mode
  MaxSettings  \* bound: changes of the setting

DockerAssumption == NSteps \in Nat \ {0}

VARIABLES
  enabled, saves,      \* the stored setting, and how often it was saved
  running, flag,       \* DockerManagerState.running and .cancellation
  closed, exit,        \* .closed, and the progress of shutdown
  preview, ids,        \* .preview and the previews made so far
  plan, shown,         \* AssistantAccessState.plans for this family; ids shown to the user
  epoch, change, registered,
  setter, maker,       \* set_docker_management_enabled, create_docker_cleanup_preview
  run, owner, child    \* the runs; .active_cleanup_child

setting == <<enabled, saves, setter>>
mode == <<epoch, change, registered>>
previews == <<preview, ids, plan, shown, maker>>
process == <<owner, child>>
vars == <<setting, running, flag, closed, exit, previews, mode, run, process>>

NoPreview == [id |-> 0, made |-> 0]
NoPlan == [id |-> 0, epoch |-> 0]
IdleMaker == [at |-> "idle"]
ByView == -1
NotTaken == -2
New == [at |-> "idle", id |-> 0, made |-> NotTaken, done |-> 0, out |-> "none"]

Init ==
  /\ enabled \in BOOLEAN /\ saves = 0 /\ setter = "idle"
  /\ running = FALSE /\ flag = FALSE /\ closed = FALSE /\ exit = "up"
  /\ preview = NoPreview /\ ids = 0 /\ plan = NoPlan /\ shown = {} /\ maker = IdleMaker
  /\ epoch = 0 /\ change = "done" /\ registered = FALSE
  /\ run = [r \in Runs |-> New] /\ owner = "none" /\ child = "none"

-----------------------------------------------------------------------------
(* set_docker_management_enabled.                                             *)

SetLooks ==
  /\ setter = "idle" /\ saves < MaxSettings /\ ~running /\ setter' = "save"
  /\ UNCHANGED <<enabled, saves, running, flag, closed, exit, previews, mode, run, process>>

SetSaves ==
  /\ setter = "save" /\ setter' = "forget" /\ saves' = saves + 1 /\ enabled' \in BOOLEAN
  /\ UNCHANGED <<running, flag, closed, exit, previews, mode, run, process>>

SetForgets ==
  /\ setter = "forget" /\ setter' = "clear" /\ preview' = NoPreview
  /\ UNCHANGED <<enabled, saves, running, flag, closed, exit, ids, plan, shown, maker,
                 mode, run, process>>

SetClears ==
  /\ setter = "clear" /\ setter' = "idle" /\ flag' = FALSE
  /\ UNCHANGED <<enabled, saves, running, closed, exit, previews, mode, run, process>>

-----------------------------------------------------------------------------
(* create_docker_cleanup_preview, by the view or by the conversation, which   *)
(* captures the epoch first and records the plan before it returns.           *)

MakeBegins(made) ==
  /\ maker = IdleMaker /\ ids < MaxPreviews /\ ~running /\ enabled
  /\ maker' = [at |-> "probed", made |-> made]
  /\ UNCHANGED <<setting, running, flag, closed, exit, preview, ids, plan, shown, mode, run, process>>

MakeStores ==
  /\ maker.at = "probed"
  /\ IF running THEN maker' = IdleMaker /\ UNCHANGED <<preview, ids>>
     ELSE /\ ids' = ids + 1 /\ preview' = [id |-> ids', made |-> maker.made]
          /\ maker' = [at |-> "record", made |-> maker.made]
  /\ UNCHANGED <<setting, running, flag, closed, exit, plan, shown, mode, run, process>>

\* bind_result: the plan of the conversation replaces the one before it.
RecordNothing == UNCHANGED plan
RecordPlan == plan' = IF maker.made = ByView THEN plan ELSE [id |-> ids, epoch |-> maker.made]

MakeShows ==
  /\ maker.at = "record" /\ maker' = IdleMaker /\ shown' = shown \cup {ids} /\ RecordPlan
  /\ UNCHANGED <<setting, running, flag, closed, exit, preview, ids, mode, run, process>>

-----------------------------------------------------------------------------
(* execute_docker_cleanup.                                                    *)

At(r, a) == run[r].at = a
Go(r, a) == run' = [run EXCEPT ![r].at = a]
Fail(r, at) == run' = [run EXCEPT ![r] = [New EXCEPT !.at = at, !.out = "refused"]]
\* with_plan_authority: a recorded plan holds in its own epoch only.
PlanCurrent(id) == plan.id = id => plan.epoch = epoch

Ask(r, id) ==
  /\ At(r, "idle")
  /\ IF PlanCurrent(id) /\ ~closed
     THEN run' = [run EXCEPT ![r].at = "claim", ![r].id = id]
     ELSE Fail(r, "ended")
  /\ UNCHANGED <<setting, running, flag, closed, exit, previews, mode, process>>

Claim(r) ==
  /\ At(r, "claim")
  /\ IF running THEN Fail(r, "ended") /\ UNCHANGED running ELSE Go(r, "reset") /\ running' = TRUE
  /\ UNCHANGED <<setting, flag, closed, exit, previews, mode, process>>

Reset(r) ==
  /\ At(r, "reset") /\ Go(r, "take") /\ flag' = FALSE
  /\ UNCHANGED <<setting, running, closed, exit, previews, mode, process>>

Matching(r) == preview.id = run[r].id /\ PlanCurrent(run[r].id)

\* take_matching_preview, which may find the preview expired.
TakeKeeping(r) ==
  /\ IF Matching(r) THEN run' = [run EXCEPT ![r].at = "register", ![r].made = preview.made]
                    ELSE Fail(r, "clear")
  /\ UNCHANGED preview
TakePreview(r) ==
  \/ ~Matching(r) /\ Fail(r, "clear") /\ UNCHANGED preview
  \/ /\ Matching(r) /\ preview' = NoPreview
     /\ \/ run' = [run EXCEPT ![r].at = "register", ![r].made = preview.made]
        \/ Fail(r, "clear")

Take(r) ==
  /\ At(r, "take") /\ TakePreview(r)
  /\ UNCHANGED <<setting, running, flag, closed, exit, ids, plan, shown, maker, mode, process>>

\* register_plan_cancellation, then the setting is read.
Register(r) ==
  /\ At(r, "register")
  /\ IF PlanCurrent(run[r].id)
     THEN Go(r, "enabled") /\ registered' = (registered \/ plan.id = run[r].id)
     ELSE Fail(r, "clear") /\ UNCHANGED registered
  /\ UNCHANGED <<setting, running, flag, closed, exit, previews, epoch, change, process>>

ReadSetting(r) ==
  /\ At(r, "enabled") /\ IF enabled THEN Go(r, "start") ELSE Fail(r, "clear")
  /\ UNCHANGED <<setting, running, flag, closed, exit, previews, mode, process>>

StartTask(r) ==
  /\ At(r, "start") /\ IF PlanCurrent(run[r].id) THEN Go(r, "step") ELSE Fail(r, "clear")
  /\ UNCHANGED <<setting, running, flag, closed, exit, previews, mode, process>>

-----------------------------------------------------------------------------
(* run_cleanup_operation and run_docker_command: the child is started, looked *)
(* at and stopped under one mutex, with the exit of the application.          *)

\* cleanup_outcome.
Outcome(done, cancelled) ==
  CASE done = NSteps /\ ~cancelled -> "completed"
    [] done > 0 /\ (done < NSteps \/ cancelled) -> "partial"
    [] done = 0 /\ cancelled -> "cancelled"
    [] OTHER -> "failed"
EndsWith(r, cancelled) ==
  run' = [run EXCEPT ![r].at = "record",
                     ![r].out = Outcome(run[r].done, cancelled)]

StepTop(r) ==
  /\ At(r, "step")
  /\ IF run[r].done = NSteps THEN EndsWith(r, FALSE)
     ELSE IF flag THEN EndsWith(r, TRUE) ELSE Go(r, "spawn")
  /\ UNCHANGED <<setting, running, flag, closed, exit, previews, mode, process>>

\* The test under the mutex, with the flag alone.
RefusedByFlag == flag
Refused == closed \/ flag

Spawn(r) ==
  /\ At(r, "spawn")
  /\ IF Refused THEN EndsWith(r, TRUE) /\ UNCHANGED process
     ELSE IF child # "none" THEN EndsWith(r, FALSE) /\ UNCHANGED process
     ELSE Go(r, "poll") /\ child' = "alive" /\ owner' = r
  /\ UNCHANGED <<setting, running, flag, closed, exit, previews, mode>>

ChildExits ==
  /\ child = "alive" /\ child' = "exited"
  /\ UNCHANGED <<setting, running, flag, closed, exit, previews, mode, run, owner>>

Reaped == child' = "none" /\ owner' = "none"

\* Cancelled, or the child is gone because the exit took it.
PollCancelled(r) ==
  At(r, "poll") /\ (flag \/ child = "none") /\ EndsWith(r, TRUE) /\ Reaped
\* The time limit or the output limit kills it, or it failed.
PollFailedOnly(r) == At(r, "poll") /\ child = "exited" /\ EndsWith(r, FALSE) /\ Reaped
PollFails(r) == At(r, "poll") /\ child # "none" /\ EndsWith(r, FALSE) /\ Reaped
PollDone(r) ==
  /\ At(r, "poll") /\ child = "exited" /\ Reaped
  /\ run' = [run EXCEPT ![r].at = "step", ![r].done = @ + 1]
Poll(r) ==
  /\ PollCancelled(r) \/ PollFails(r) \/ PollDone(r)
  /\ UNCHANGED <<setting, running, flag, closed, exit, previews, mode>>

\* record_cleanup_history_at; DockerOperationLease::drop in its two stores.
RecordHistory(r) ==
  /\ At(r, "record") /\ Go(r, "clear")
  /\ UNCHANGED <<setting, running, flag, closed, exit, previews, mode, process>>

LeaseClears(r) ==
  /\ At(r, "clear") /\ Go(r, "free") /\ flag' = FALSE
  /\ UNCHANGED <<setting, running, closed, exit, previews, mode, process>>

LeaseFrees(r) ==
  /\ At(r, "free") /\ running' = FALSE
  /\ run' = [run EXCEPT ![r] = [New EXCEPT !.at = "ended", !.id = run[r].id, !.made = run[r].made]]
  /\ UNCHANGED <<setting, flag, closed, exit, previews, mode, process>>

-----------------------------------------------------------------------------
(* cancel_docker_cleanup, shutdown, and a change of the permission mode.      *)

Cancel ==
  /\ running /\ flag' = TRUE
  /\ UNCHANGED <<setting, running, closed, exit, previews, mode, run, process>>

Close ==
  /\ exit = "up" /\ exit' = "closed" /\ closed' = TRUE
  /\ UNCHANGED <<setting, running, flag, previews, mode, run, process>>
CloseFlags ==
  /\ exit = "closed" /\ exit' = "flagged" /\ flag' = TRUE
  /\ UNCHANGED <<setting, running, closed, previews, mode, run, process>>
\* stop_tracked_child.
CloseStops ==
  /\ exit = "flagged" /\ exit' = "down" /\ Reaped
  /\ UNCHANGED <<setting, running, flag, closed, previews, mode, run>>

ChangeMode ==
  /\ change = "done" /\ epoch < MaxChanges /\ epoch' = epoch + 1 /\ change' = "flag"
  /\ UNCHANGED <<setting, running, flag, closed, exit, previews, registered, run, process>>
FlagJobs ==
  /\ change = "flag" /\ change' = "done" /\ flag' = (flag \/ registered) /\ registered' = FALSE
  /\ UNCHANGED <<setting, running, closed, exit, previews, epoch, run, process>>

RunStep(r) ==
  \/ Claim(r) \/ Reset(r) \/ Take(r) \/ Register(r) \/ ReadSetting(r) \/ StartTask(r)
  \/ StepTop(r) \/ Spawn(r) \/ Poll(r) \/ RecordHistory(r) \/ LeaseClears(r) \/ LeaseFrees(r)
CloseStep == Close \/ CloseFlags \/ CloseStops

Next ==
  \/ SetLooks \/ SetSaves \/ SetForgets \/ SetClears
  \/ \E made \in {ByView, epoch} : MakeBegins(made)
  \/ MakeStores \/ MakeShows
  \/ \E r \in Runs : RunStep(r)
  \/ \E r \in Runs, id \in shown : Ask(r, id)
  \/ ChildExits \/ Cancel \/ CloseStep \/ ChangeMode \/ FlagJobs

\* The run polls and its clock runs; a child need never exit by itself.
Spec == Init /\ [][Next]_vars /\ \A r \in Runs : WF_vars(RunStep(r))

-----------------------------------------------------------------------------
TypeOK ==
  /\ {enabled, running, flag, closed, registered} \subseteq BOOLEAN
  /\ preview.id \in 0 .. ids /\ shown \subseteq 1 .. ids
  /\ child \in {"none", "alive", "exited"} /\ owner \in Runs \cup {"none"}
  /\ \A r \in Runs : run[r].done \in 0 .. NSteps

\* "The tracked child is ended and reaped at the exit": once shutdown returned
\* no command runs and none is started, although the reset of a run, the end of
\* a lease and the setting clear the cancellation flag that shutdown set.
NothingRunsAfterExit == exit = "down" => child # "alive"

\* A preview starts one cleanup at most, whoever repeats the request.
PreviewIsSpentOnce ==
  \A r, s \in Runs :
    r # s /\ NotTaken \notin {run[r].made, run[s].made} => run[r].id # run[s].id

StartInItsMode ==
  \A r \in Runs : run[r].at = "take" /\ run'[r].at = "register" =>
    preview.made \in {ByView, epoch}

\* A preview of the conversation starts nothing once the mode it was made in
\* has changed; it is shown only after it is recorded with its epoch.
EarlierModeStartsNothing == [][StartInItsMode]_vars

\* A cleanup ends although a child hangs, and the next one is not refused.
CleanupEnds == running ~> ~running
=============================================================================
