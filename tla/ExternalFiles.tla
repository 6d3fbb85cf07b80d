---------------------------- MODULE ExternalFiles ----------------------------
(* The file workspace that chat clients outside the application share         *)
(* (assistant_files.rs), with the permissions it is bound to                  *)
(* (control_server.rs).  A call reads a binding - the granted folder and two  *)
(* epochs - and works with it across several lock sections while the main     *)
(* window changes the permissions, confirms a plan or dismisses it.  Heavy    *)
(* calls reserve the scan slot and leave the work to a task of their own;     *)
(* light ones hold the slot themselves.                                       *)
(*                                                                            *)
(* Abstracted: the entries of a folder are the numbers Items, identities and  *)
(* sizes are not kept (verification succeeds or fails), folders have one      *)
(* level below the granted one.                                               *)
EXTENDS Integers, Sequences

CONSTANTS
  Calls,       \* tool calls, each made once
  Roots,       \* folders the window can grant
  NItems,      \* entries a scan lists
  Dirs,        \* those of them that are directories
  Inside,      \* pairs <<a, b>>: entry a lies inside directory b
  PageSize,    \* entries of a page
  MaxChanges   \* bound: changes of permission

Items == 1..NItems
NoRoot == "none"

ItemsAssumption ==
  /\ NItems \in Nat \ {0} /\ PageSize \in Nat \ {0}
  /\ Dirs \subseteq Items /\ Inside \subseteq Items \X Dirs
  /\ NoRoot \notin Roots /\ MaxChanges \in Nat
  /\ Calls \cap {"free", "task", "confirm"} = {}

VARIABLES
  grant, cleanup,              \* PermissionPreferences: scan root, cleanup approval
  scopeEpoch, cleanupEpoch,    \* the epochs of ControlStatusStore
  binding, operation,          \* ExternalWorkspaceState
  workspace,                   \* the workspace under EXTERNAL_WORKSPACE_KEY
  slot,                        \* holder of the scan slot
  call,                        \* one record per tool call
  task,                        \* the task of the heavy call that has the slot
  confirm,                     \* the confirmation of the main window
  ids,                         \* identifiers handed out so far
  claims, dismissed            \* history: plans claimed, plans dismissed

perms == <<grant, cleanup, scopeEpoch, cleanupEpoch>>
files == <<binding, operation, workspace>>
vars == <<perms, files, slot, call, task, confirm, ids, claims, dismissed>>

None == [kind |-> "none"]
NoPlan == [id |-> 0]
Free == "free"
Busy == {"running", "executing"}
Idle == [at |-> "idle"]

\* workspace_binding_from_permissions: the authority a call works with.
Binding == [root |-> grant, scope |-> scopeEpoch, review |-> cleanupEpoch,
            allowed |-> cleanup]
SameScope(a, b) == a.root = b.root /\ a.scope = b.scope
SameReview(a, b) == SameScope(a, b) /\ a.review = b.review /\ b.allowed

\* file_workspace_binding_current: compares with a binding read now.
BindingCurrent(b, review) ==
  /\ grant # NoRoot
  /\ IF review THEN SameReview(b, Binding) ELSE SameScope(b, Binding)

\* file_workspace_epochs_current, the cheap test of a worker: epochs only.
EpochsCurrent(b, review) ==
  scopeEpoch = b.scope /\ (review => cleanupEpoch = b.review)

(* Requests.  A revision is any identifier handed out so far, so a call may   *)
(* name a list that has been replaced.                                        *)
Requests ==
  {[kind |-> k] : k \in {"status", "scan", "named"}}
  \cup [kind : {"browse"}, rev : 1..ids, item : Items]
  \cup [kind : {"parent"}, rev : 1..ids]
  \cup [kind : {"page"}, rev : 1..ids, offset : {0, PageSize}]
  \cup [kind : {"select"}, rev : 1..ids, with : SUBSET Items, without : SUBSET Items]
  \cup [kind : {"review"}, rev : 1..ids, items : SUBSET Items]

NeedsReview(kind) == kind \in {"select", "review", "named"}
Heavy(kind) == kind \in {"scan", "named", "browse", "parent", "review"}

Init ==
  /\ grant = NoRoot /\ cleanup = FALSE /\ scopeEpoch = 0 /\ cleanupEpoch = 0
  /\ binding = None /\ operation = "none" /\ workspace = None
  /\ slot = Free /\ call = [c \in Calls |-> Idle] /\ task = Idle /\ confirm = Idle
  /\ ids = 0 /\ claims = <<>> /\ dismissed = {}

-----------------------------------------------------------------------------
(* Permissions: change_permissions holds one mutex while the epochs advance.  *)

Changes == scopeEpoch + cleanupEpoch
SetScope(root) ==
  /\ Changes < MaxChanges /\ root # grant
  /\ grant' = root /\ scopeEpoch' = scopeEpoch + 1
  /\ UNCHANGED <<cleanup, cleanupEpoch, files, slot, call, task, confirm, ids, claims, dismissed>>

SetCleanup ==
  /\ Changes < MaxChanges
  /\ cleanup' = ~cleanup /\ cleanupEpoch' = cleanupEpoch + 1
  /\ UNCHANGED <<grant, scopeEpoch, files, slot, call, task, confirm, ids, claims, dismissed>>

-----------------------------------------------------------------------------
(* What is done to the workspace under its lock.                              *)

Forget == workspace' = None
Invalidate == workspace' = None /\ binding' = None /\ operation' = "none"

\* A new list: fresh revision, first page, nothing selected, no plan.
Fresh(root, below) ==
  [kind |-> "files", rev |-> ids + 1, root |-> root, below |-> below,
   n |-> NItems, offset |-> 0, sel |-> {}, plan |-> NoPlan]

At(rev) == workspace # None /\ workspace.rev = rev
OnPage(items) ==
  \A i \in items : /\ i <= workspace.n
                    /\ i > workspace.offset /\ i <= workspace.offset + PageSize

\* A select that forgets to drop the plan.
ChosenKeepingPlan(items) == [workspace EXCEPT !.sel = items]

\* select: the new selection drops the plan.
Chosen(items) == [workspace EXCEPT !.sel = items, !.plan = NoPlan]

\* The refusal of prepare: an entry and the folder it lies in.
Nested(items) == \E p \in Inside : p[1] \in items /\ p[2] \in items

-----------------------------------------------------------------------------
(* execute_tool, one call of a client.                                        *)

\* The request is accepted and the binding read; without a granted folder the
\* shared state is dropped and the call ends.
ReadBinding(c) ==
  /\ call[c].at = "idle"
  /\ \E r \in Requests :
       IF grant = NoRoot
       THEN /\ call' = [call EXCEPT ![c] = [at |-> "done"]]
            /\ Invalidate
       ELSE /\ call' = [call EXCEPT ![c] = [at |-> "bind", req |-> r, bind |-> Binding]]
            /\ UNCHANGED files
  /\ UNCHANGED <<perms, slot, task, confirm, ids, claims, dismissed>>

\* bind_external: another scope drops the workspace, another approval of the
\* review drops only selection and plan.
BindExternal(c) ==
  /\ call[c].at = "bind"
  /\ LET b == call[c].bind
         known == binding # None
     IN /\ IF ~known \/ ~SameScope(binding, b)
           THEN workspace' = None /\ operation' = "none"
           ELSE /\ workspace' = IF binding.review # b.review /\ workspace # None
                                THEN Chosen({}) ELSE workspace
                /\ UNCHANGED operation
        /\ binding' = b
        /\ LET refused == NeedsReview(call[c].req.kind) /\ ~b.allowed
           IN call' = [call EXCEPT ![c] =
                         IF refused THEN [at |-> "done"]
                         ELSE [@ EXCEPT !.at = "bound"]]
  /\ UNCHANGED <<perms, slot, task, confirm, ids, claims, dismissed>>

Answer(c) == call' = [call EXCEPT ![c] = [at |-> "done"]]
Go(c, at) == call' = [call EXCEPT ![c].at = at]

\* tool_result reads the workspace, then the running operation, which hides the
\* plan; a status is then delivered only if its binding is still current.
ReadView(c) ==
  /\ \/ call[c].at = "bound" /\ call[c].req.kind = "status"
     \/ call[c].at = "cleared"
  /\ call' = [call EXCEPT ![c] = [at |-> "view", status |-> @.at = "bound",
                                  bind |-> @.bind, view |-> workspace]]
  /\ UNCHANGED <<perms, files, slot, task, confirm, ids, claims, dismissed>>

Deliver(c) ==
  /\ call[c].at = "view"
  /\ LET v == call[c].view
         review == v # None /\ v.plan # NoPlan /\ operation \notin Busy \cup {"failed"}
     IN IF call[c].status => BindingCurrent(call[c].bind, review)
        THEN Answer(c) /\ UNCHANGED files
        ELSE Answer(c) /\ Invalidate
  /\ UNCHANGED <<perms, slot, task, confirm, ids, claims, dismissed>>

\* Anything but a status answers "running" while an operation is under way.
AnswerRunning(c) ==
  /\ call[c].at = "bound" /\ call[c].req.kind # "status"
  /\ operation \in Busy
  /\ Answer(c)
  /\ UNCHANGED <<perms, files, slot, task, confirm, ids, claims, dismissed>>

PassRunning(c) ==
  /\ call[c].at = "bound" /\ call[c].req.kind # "status"
  /\ operation \notin Busy
  /\ Go(c, IF Heavy(call[c].req.kind) THEN "reserve" ELSE "light")
  /\ UNCHANGED <<perms, files, slot, task, confirm, ids, claims, dismissed>>

\* reserve_file_workspace_operation: the binding must be current and the slot
\* free.
Reserve(c) ==
  /\ call[c].at = "reserve"
  /\ IF slot = Free /\ BindingCurrent(call[c].bind, NeedsReview(call[c].req.kind))
     THEN slot' = "task" /\ Go(c, "reserved")
     ELSE Answer(c) /\ UNCHANGED slot
  /\ UNCHANGED <<perms, files, task, confirm, ids, claims, dismissed>>

\* The operation is shown as running before the task is spawned.
Spawn(c) ==
  /\ call[c].at = "reserved"
  /\ operation' = "running"
  /\ task' = [at |-> "start", req |-> call[c].req, bind |-> call[c].bind,
              stop |-> FALSE, failed |-> FALSE]
  /\ Answer(c)
  /\ UNCHANGED <<perms, binding, workspace, slot, confirm, ids, claims, dismissed>>

\* A light call takes the slot itself, changes the list and gives it back.
BeginLight(c) ==
  /\ call[c].at = "light"
  /\ IF slot = Free THEN slot' = c /\ Go(c, "apply") ELSE Answer(c) /\ UNCHANGED slot
  /\ UNCHANGED <<perms, files, task, confirm, ids, claims, dismissed>>

LightChange(r) ==
  IF r.kind = "page" THEN [workspace EXCEPT !.offset = r.offset]
  ELSE Chosen((workspace.sel \ r.without) \cup r.with)
LightAllowed(r) ==
  /\ At(r.rev)
  /\ IF r.kind = "page" THEN r.offset = 0 \/ r.offset < workspace.n
     ELSE OnPage(r.with \cup r.without) /\ r.with \cap r.without = {}

ApplyLight(c) ==
  /\ call[c].at = "apply" /\ slot' = Free
  /\ IF /\ EpochsCurrent(call[c].bind, NeedsReview(call[c].req.kind))
        /\ LightAllowed(call[c].req)
     THEN workspace' = LightChange(call[c].req) /\ Go(c, "applied")
     ELSE Answer(c) /\ UNCHANGED workspace
  /\ UNCHANGED <<perms, binding, operation, task, confirm, ids, claims, dismissed>>

\* Its result is given only under the binding it started with.
CheckLight(c) ==
  /\ call[c].at = "applied"
  /\ IF BindingCurrent(call[c].bind, NeedsReview(call[c].req.kind))
     THEN Go(c, "clear") /\ UNCHANGED files
     ELSE Answer(c) /\ Invalidate
  /\ UNCHANGED <<perms, slot, task, confirm, ids, claims, dismissed>>

ClearOperation(c) ==
  /\ call[c].at = "clear" /\ operation' = "none" /\ Go(c, "cleared")
  /\ UNCHANGED <<perms, binding, workspace, slot, task, confirm, ids, claims, dismissed>>

-----------------------------------------------------------------------------
(* The task of a heavy call (dispatch_root and the closure around it).        *)

Stopped == task.stop \/ ~EpochsCurrent(task.bind, NeedsReview(task.req.kind))
TaskGoes(at) == task' = [task EXCEPT !.at = at]
TaskFails == task' = [task EXCEPT !.at = "judge", !.failed = TRUE]
Keep == UNCHANGED <<perms, call, confirm, claims, dismissed>>

\* Scan and search forget the list before they make a new one, in the folder
\* last shown.
StartScan ==
  /\ task.at = "start" /\ task.req.kind \in {"scan", "named", "browse", "parent"}
  /\ LET r == task.req
         below == workspace # None /\ workspace.below
         allowed == CASE r.kind = "browse" -> At(r.rev) /\ OnPage({r.item}) /\ r.item \in Dirs
                      [] r.kind = "parent" -> At(r.rev) /\ below
                      [] OTHER -> TRUE
         target == CASE r.kind = "browse" -> TRUE [] r.kind = "parent" -> FALSE [] OTHER -> below
     IN IF Stopped \/ ~allowed
        THEN TaskFails /\ UNCHANGED workspace
        ELSE /\ Forget
             /\ task' = [at |-> "scan", req |-> r, bind |-> task.bind, stop |-> task.stop,
                         failed |-> FALSE, below |-> target]
  /\ UNCHANGED <<binding, operation, slot, ids>> /\ Keep

\* The walk looks at the stop flag and the epochs as it goes, not afterwards.
Scan ==
  /\ task.at = "scan"
  /\ IF Stopped THEN TaskFails ELSE TaskGoes("store")
  /\ UNCHANGED <<files, slot, ids>> /\ Keep

ScanFails == task.at = "scan" /\ TaskFails /\ UNCHANGED <<files, slot, ids>> /\ Keep

Store ==
  /\ task.at = "store"
  /\ workspace' = Fresh(task.bind.root, task.below) /\ ids' = ids + 1
  /\ task' = [at |-> IF task.req.kind = "named" THEN "name" ELSE "judge", req |-> task.req,
              bind |-> task.bind, stop |-> task.stop, failed |-> FALSE, rev |-> ids + 1]
  /\ UNCHANGED <<binding, operation, slot>> /\ Keep

\* prepare_unique_name: one entry has the name, or the list is left for the
\* client to choose from.
SelectNamed ==
  /\ task.at = "name"
  /\ \/ /\ At(task.rev)
        /\ \E i \in Items :
             workspace' = [Chosen({i}) EXCEPT !.offset = ((i - 1) \div PageSize) * PageSize]
        /\ TaskGoes("prepare")
     \/ At(task.rev) /\ TaskGoes("judge") /\ UNCHANGED workspace
     \/ ~At(task.rev) /\ TaskFails /\ UNCHANGED workspace
  /\ UNCHANGED <<binding, operation, slot, ids>> /\ Keep

SelectReviewed ==
  /\ task.at = "start" /\ task.req.kind = "review"
  /\ IF ~Stopped /\ At(task.req.rev) /\ OnPage(task.req.items)
     THEN /\ workspace' = Chosen(task.req.items)
          /\ task' = [at |-> "prepare", req |-> task.req, bind |-> task.bind, stop |-> task.stop,
                      failed |-> FALSE, rev |-> task.req.rev]
     ELSE TaskFails /\ UNCHANGED workspace
  /\ UNCHANGED <<binding, operation, slot, ids>> /\ Keep

\* prepare: the earlier plan is dropped first, the selection is copied, each
\* entry verified, and the plan stored if the selection is still the same.
BeginPrepare ==
  /\ task.at = "prepare"
  /\ IF At(task.rev)
     THEN /\ workspace' = [workspace EXCEPT !.plan = NoPlan]
          /\ IF workspace.sel = {} \/ Nested(workspace.sel) THEN TaskFails
             ELSE task' = [at |-> "verify", req |-> task.req, bind |-> task.bind,
                           stop |-> task.stop, failed |-> FALSE, rev |-> task.rev,
                           items |-> workspace.sel]
     ELSE TaskFails /\ UNCHANGED workspace
  /\ UNCHANGED <<binding, operation, slot, ids>> /\ Keep

Verify ==
  /\ task.at = "verify"
  /\ IF Stopped THEN TaskFails ELSE TaskGoes("plan")
  /\ UNCHANGED <<files, slot, ids>> /\ Keep

VerifyFails == task.at = "verify" /\ TaskFails /\ UNCHANGED <<files, slot, ids>> /\ Keep

StorePlan ==
  /\ task.at = "plan"
  /\ IF At(task.rev) /\ workspace.sel = task.items
     THEN /\ workspace' = [workspace EXCEPT
                             !.plan = [id |-> ids + 1, items |-> task.items, by |-> task.bind]]
          /\ ids' = ids + 1 /\ TaskGoes("judge")
     ELSE TaskFails /\ UNCHANGED <<workspace, ids>>
  /\ UNCHANGED <<binding, operation, slot>> /\ Keep

\* An end that drops the list but leaves the operation as it is.
JudgeForgetsList ==
  /\ task.at = "judge"
  /\ IF BindingCurrent(task.bind, NeedsReview(task.req.kind))
     THEN /\ workspace' = IF task.failed THEN None ELSE workspace
          /\ TaskGoes("record") /\ UNCHANGED <<binding, operation>>
     ELSE Forget /\ TaskGoes("finish") /\ UNCHANGED <<binding, operation>>
  /\ UNCHANGED <<slot, ids>> /\ Keep

\* The end: under a changed permission nothing is kept; a stopped or failed
\* task forgets its list.
Judge ==
  /\ task.at = "judge"
  /\ IF BindingCurrent(task.bind, NeedsReview(task.req.kind))
     THEN /\ workspace' = IF task.failed THEN None ELSE workspace
          /\ TaskGoes("record") /\ UNCHANGED <<binding, operation>>
     ELSE Invalidate /\ TaskGoes("finish")
  /\ UNCHANGED <<slot, ids>> /\ Keep

Record ==
  /\ task.at = "record"
  /\ operation' = IF ~task.failed THEN "completed" ELSE IF task.stop THEN "cancelled" ELSE "failed"
  /\ TaskGoes("finish")
  /\ UNCHANGED <<binding, workspace, slot, ids>> /\ Keep

Finish ==
  /\ task.at = "finish" /\ task' = Idle /\ slot' = Free
  /\ UNCHANGED <<files, ids>> /\ Keep

\* The client cancels the operation (cancel_operation sets the flag).
StopTask ==
  /\ task.at # "idle" /\ ~task.stop /\ task' = [task EXCEPT !.stop = TRUE]
  /\ UNCHANGED <<files, slot, ids>> /\ Keep

-----------------------------------------------------------------------------
(* The main window: confirm_external_file_plan and cancel_external_file_plan. *)

ConfirmRead ==
  /\ confirm.at = "idle" /\ binding # None
  /\ \E plan \in 1..ids, rev \in 1..ids : rev < plan /\
       confirm' = [at |-> "check", bind |-> binding, rev |-> rev, plan |-> plan]
  /\ UNCHANGED <<perms, files, slot, call, task, ids, claims, dismissed>>

ConfirmCheck ==
  /\ confirm.at = "check"
  /\ IF BindingCurrent(confirm.bind, TRUE)
     THEN /\ IF slot = Free THEN slot' = "confirm" /\ confirm' = [confirm EXCEPT !.at = "claim"]
                            ELSE confirm' = Idle /\ UNCHANGED slot
          /\ UNCHANGED files
     ELSE Invalidate /\ confirm' = Idle /\ UNCHANGED slot
  /\ UNCHANGED <<perms, call, task, ids, claims, dismissed>>

\* claim, under the permission mutex: the plan is consumed before anything is
\* moved.
Consumed == [workspace EXCEPT !.plan = NoPlan, !.n = 0, !.sel = {}]
Claimable == At(confirm.rev) /\ workspace.plan # NoPlan /\ workspace.plan.id = confirm.plan
ConfirmClaim ==
  /\ confirm.at = "claim"
  /\ IF grant # NoRoot /\ SameReview(confirm.bind, Binding) /\ Claimable
     THEN /\ claims' = Append(claims, [plan |-> confirm.plan, by |-> workspace.plan.by,
                                       now |-> Binding])
          /\ workspace' = Consumed /\ operation' = "executing"
          /\ confirm' = [confirm EXCEPT !.at = "move"] /\ UNCHANGED slot
     ELSE confirm' = Idle /\ slot' = Free /\ UNCHANGED <<workspace, operation, claims>>
  /\ UNCHANGED <<perms, binding, call, task, ids, dismissed>>

ConfirmMove ==
  /\ confirm.at = "move" /\ Forget /\ confirm' = [confirm EXCEPT !.at = "outcome"]
  /\ UNCHANGED <<perms, binding, operation, slot, call, task, ids, claims, dismissed>>

ConfirmOutcome ==
  /\ confirm.at = "outcome" /\ confirm' = Idle /\ slot' = Free
  /\ IF BindingCurrent(confirm.bind, FALSE)
     THEN /\ \E o \in {"completed", "failed"} : operation' = o
          /\ UNCHANGED <<binding, workspace>>
     ELSE Invalidate
  /\ UNCHANGED <<perms, call, task, ids, claims, dismissed>>

\* A dismissal that only records the outcome.
DismissMarksOnly ==
  /\ workspace # None /\ workspace.plan # NoPlan /\ operation # "executing"
  /\ operation' = "cancelled" /\ dismissed' = dismissed \cup {workspace.plan.id}
  /\ UNCHANGED <<perms, binding, workspace, slot, call, task, confirm, ids, claims>>

\* A dismissal of a plan that is gone is accepted and changes nothing.
Dismiss ==
  /\ workspace # None /\ workspace.plan # NoPlan /\ operation # "executing"
  /\ workspace' = Chosen({}) /\ operation' = "cancelled"
  /\ dismissed' = dismissed \cup {workspace.plan.id}
  /\ UNCHANGED <<perms, binding, slot, call, task, confirm, ids, claims>>

-----------------------------------------------------------------------------
CallSteps(c) ==
  \/ ReadBinding(c) \/ BindExternal(c) \/ ReadView(c) \/ Deliver(c)
  \/ AnswerRunning(c) \/ PassRunning(c) \/ Reserve(c) \/ Spawn(c)
  \/ BeginLight(c) \/ ApplyLight(c) \/ CheckLight(c) \/ ClearOperation(c)
TaskSteps ==
  \/ StartScan \/ Scan \/ ScanFails \/ Store \/ SelectNamed \/ SelectReviewed
  \/ BeginPrepare \/ Verify \/ VerifyFails \/ StorePlan \/ Judge \/ Record \/ Finish
ConfirmSteps == ConfirmCheck \/ ConfirmClaim \/ ConfirmMove \/ ConfirmOutcome
Next ==
  \/ \E root \in Roots \cup {NoRoot} : SetScope(root)
  \/ SetCleanup
  \/ \E c \in Calls : CallSteps(c)
  \/ TaskSteps \/ StopTask
  \/ ConfirmRead \/ ConfirmSteps \/ Dismiss

Spec == Init /\ [][Next]_vars /\ WF_vars(TaskSteps) /\ WF_vars(ConfirmSteps)
        /\ \A c \in Calls : WF_vars(Spawn(c))

-----------------------------------------------------------------------------
(* Properties.                                                                *)

\* The variables keep their types: bindings are of granted folders and of epochs
\* there have been, lists and plans carry identifiers handed out, and the slot
\* is with a light call, the task or the confirmation.
Epochs == 0..MaxChanges
Bindings == [root : Roots, scope : Epochs, review : Epochs, allowed : BOOLEAN]
Plans == {NoPlan} \cup [id : 1..ids, items : SUBSET Items, by : Bindings]
Lists == [kind : {"files"}, rev : 1..ids, root : Roots, below : BOOLEAN,
          n : {0, NItems}, offset : 0..NItems, sel : SUBSET Items, plan : Plans]
TypeOK ==
  /\ grant \in Roots \cup {NoRoot} /\ cleanup \in BOOLEAN
  /\ scopeEpoch \in Epochs /\ cleanupEpoch \in Epochs
  /\ binding = None \/ binding \in Bindings
  /\ operation \in Busy \cup {"none", "completed", "cancelled", "failed"}
  /\ workspace = None \/ workspace \in Lists
  /\ slot \in {Free, "task", "confirm"} \cup Calls
  /\ \A c \in Calls : call[c].at \in {"idle", "bind", "bound", "view", "reserve", "reserved",
                                     "light", "apply", "applied", "clear", "cleared", "done"}
  /\ task.at \in {"idle", "start", "scan", "store", "name", "prepare", "verify", "plan",
                 "judge", "record", "finish"}
  /\ confirm.at \in {"idle", "check", "claim", "move", "outcome"}
  /\ ids \in Nat /\ dismissed \subseteq 1..ids
  /\ \A i \in DOMAIN claims : claims[i].by \in Bindings /\ claims[i].now \in Bindings

\* What the window can confirm is what is selected, and a plan it claims was
\* made under the folder, the epochs and the approval in force at the claim: the
\* check of the binding, the check of revision and plan and the dropping of the
\* plan by every later selection have to work together for it.
PlanIsCurrent ==
  /\ workspace # None /\ workspace.plan # NoPlan => workspace.plan.items = workspace.sel
  /\ \A i \in DOMAIN claims : SameReview(claims[i].by, claims[i].now)

\* A plan is moved at most once, and never after the window dismissed it.
PlanEndsOnce ==
  \A i \in DOMAIN claims : /\ claims[i].plan \notin dismissed
                           /\ \A j \in DOMAIN claims : claims[i].plan = claims[j].plan => i = j

\* While an operation is shown as running every other call is answered
\* "running": the mark must not survive its operation, whatever the permissions
\* do meanwhile.
RunningEnds == operation \in Busy ~> operation \notin Busy
=============================================================================
