------------------------------- MODULE CleanupPlan -------------------------------
(***************************************************************************)
(* The life of a cleanup plan: an external client proposes it, the main     *)
(* window shows, approves or rejects it, and an approved plan moves files   *)
(* (control_server.rs).  Every operation is one critical section of the     *)
(* review lock followed, outside it, by an update of the status event that  *)
(* mirrors the pending plan.  Several connections and window commands run   *)
(* at once.                                                                *)
(***************************************************************************)
EXTENDS Naturals

CONSTANTS
    Plans,          \* plan ids, each used once (random_operation_id)
    NoPlan,
    Clients,        \* connections of external clients
    Windows,        \* commands of the main window in flight
    MaxGeneration   \* bound on the reports stored

ASSUME PlanAssumption == NoPlan \notin Plans /\ Clients \cap Windows = {} /\ MaxGeneration \in Nat

VARIABLES
    enabled,    \* cleanup_access.enabled
    pending,    \* cleanup_review.pending, the id or NoPlan
    state,      \* CleanupPlanState of every plan, "none" before it is made
    source,     \* source_generation of every plan
    late,       \* CLEANUP_PLAN_TTL has elapsed for the pending plan
    mirror,     \* status.pending_review, the id or NoPlan
    stored,     \* generation of the stored report, 0 when there is none
    generation, \* the last generation given out
    scanning,   \* a scan holds the work slot
    pc,         \* where each call stands
    plan,       \* the plan a call works on
    wanted,     \* the generation a client proposes a plan for
    outcome,    \* the state a call is about to finish its plan with
    movedFor    \* history: plans for which files were moved

review == <<pending, state, source, late>>
reports == <<stored, generation, scanning>>
calls == <<pc, plan, wanted, outcome>>
vars == <<enabled, review, mirror, reports, calls, movedFor>>

Calls == Clients \cup Windows
Ended == {"rejected", "expired", "stale", "cancelled", "completed", "failed"}
States == {"none", "awaiting", "executing"} \cup Ended
Stages == {"idle", "selected", "allowed", "mirroring", "clearing", "viewing",
           "begun", "approved", "ready", "moving", "moved", "finishing"}

TypeOK ==
    /\ enabled \in BOOLEAN
    /\ pending \in Plans \cup {NoPlan} /\ mirror \in Plans \cup {NoPlan}
    /\ state \in [Plans -> States]
    /\ source \in [Plans -> Nat]
    /\ late \in BOOLEAN
    /\ stored \in 0..generation /\ generation \in Nat /\ scanning \in BOOLEAN
    /\ pc \in [Calls -> Stages]
    /\ plan \in [Calls -> Plans \cup {NoPlan}]
    /\ wanted \in [Calls -> Nat]
    /\ outcome \in [Calls -> Ended]
    /\ movedFor \subseteq Plans

Init ==
    /\ enabled = FALSE
    /\ pending = NoPlan /\ mirror = NoPlan
    /\ state = [p \in Plans |-> "none"]
    /\ source = [p \in Plans |-> 0]
    /\ late = FALSE
    /\ stored = 0 /\ generation = 0 /\ scanning = FALSE
    /\ pc = [c \in Calls |-> "idle"]
    /\ plan = [c \in Calls |-> NoPlan]
    /\ wanted = [c \in Calls |-> 0]
    /\ outcome = [c \in Calls |-> "stale"]
    /\ movedFor = {}

Goto(c, stage) == pc' = [pc EXCEPT ![c] = stage]
WorksOn(c, p) == plan' = [plan EXCEPT ![c] = p]

\* A call returns and forgets what it worked on.
Return(c) ==
    /\ Goto(c, "idle")
    /\ WorksOn(c, NoPlan)
    /\ wanted' = [wanted EXCEPT ![c] = 0]
    /\ outcome' = [outcome EXCEPT ![c] = "stale"]

-------------------------------------------------------------------------------
(* expire_pending_cleanup_plan, run first in every critical section.  A call  *)
(* reads the clock before it waits for the lock, so a plan that has just       *)
(* become late may still pass for fresh.                                       *)

End(p, s) ==
    /\ pending' = NoPlan /\ late' = FALSE
    /\ state' = [state EXCEPT ![p] = s]
    /\ UNCHANGED source

CanExpire == pending # NoPlan /\ late /\ state[pending] = "awaiting"
Awaiting(p) == p # NoPlan /\ pending = p /\ state[p] = "awaiting"

-------------------------------------------------------------------------------
(* Clients. *)

\* cleanup_plan_selection: the candidates are those of the stored report.
SelectCandidates(c) ==
    /\ pc[c] = "idle"
    /\ enabled
    /\ stored # 0
    /\ wanted' = [wanted EXCEPT ![c] = stored]
    /\ Goto(c, "selected")
    /\ UNCHANGED <<enabled, review, mirror, reports, plan, outcome, movedFor>>

\* ensure_cleanup_access takes and leaves the status lock, not the review lock.
EnsureAccess(c) ==
    /\ pc[c] = "selected"
    /\ IF enabled THEN Goto(c, "allowed") /\ UNCHANGED <<plan, wanted, outcome>> ELSE Return(c)
    /\ UNCHANGED <<enabled, review, mirror, reports, movedFor>>

CreatePlan(c, p) ==
    /\ pc[c] = "allowed"
    /\ pending = NoPlan \/ CanExpire
    /\ state[p] = "none"
    /\ pending' = p /\ late' = FALSE
    /\ state' = [q \in Plans |-> IF q = p THEN "awaiting"
                                 ELSE IF q = pending THEN "expired" ELSE state[q]]
    /\ source' = [source EXCEPT ![p] = wanted[c]]
    /\ WorksOn(c, p)
    /\ Goto(c, "mirroring")
    /\ UNCHANGED <<enabled, mirror, reports, wanted, outcome, movedFor>>

\* The same selection again gets the plan that waits, another one is refused.
AnswerWithPending(c) ==
    /\ pc[c] = "allowed"
    /\ pending # NoPlan
    /\ Return(c)
    /\ UNCHANGED <<enabled, review, mirror, reports, movedFor>>

MirrorPlan(c) ==
    /\ pc[c] = "mirroring"
    /\ mirror' = plan[c]
    /\ Return(c)
    /\ UNCHANGED <<enabled, review, reports, movedFor>>

-------------------------------------------------------------------------------
(* cleanup_plan_status and get_pending_cleanup_plan. *)

ExpireOnRead(c) ==
    /\ pc[c] = "idle"
    /\ CanExpire
    /\ End(pending, "expired")
    /\ Goto(c, "clearing")
    /\ UNCHANGED <<enabled, mirror, reports, plan, wanted, outcome, movedFor>>

ClearMirror(c) ==
    /\ pc[c] = "clearing"
    /\ mirror' = NoPlan
    /\ Return(c)
    /\ UNCHANGED <<enabled, review, reports, movedFor>>

ViewPending(w) ==
    /\ pc[w] = "idle"
    /\ Awaiting(pending)
    /\ WorksOn(w, pending)
    /\ Goto(w, "viewing")
    /\ UNCHANGED <<enabled, review, mirror, reports, wanted, outcome, movedFor>>

\* The detail is made from the stored report, without the review lock; when it
\* cannot be made the plan is finished as stale.
ViewDetail(w) ==
    /\ pc[w] = "viewing"
    /\ IF stored = source[plan[w]]
       THEN Return(w)
       ELSE /\ Goto(w, "finishing")
            /\ outcome' = [outcome EXCEPT ![w] = "stale"]
            /\ UNCHANGED <<plan, wanted>>
    /\ UNCHANGED <<enabled, review, mirror, reports, movedFor>>

-------------------------------------------------------------------------------
(* reject_cleanup_plan and approve_cleanup_plan. *)

RejectPlan(w) ==
    /\ pc[w] = "idle"
    /\ Awaiting(pending)
    /\ End(pending, "rejected")
    /\ Goto(w, "clearing")
    /\ UNCHANGED <<enabled, mirror, reports, plan, wanted, outcome, movedFor>>

\* Rejecting or approving a plan that is late ends it; the mirror is left alone.
ExpireOnDecision(w) ==
    /\ pc[w] = "idle"
    /\ CanExpire
    /\ End(pending, "expired")
    /\ UNCHANGED <<enabled, mirror, reports, calls, movedFor>>

\* An approval that asks only whether some plan is pending.
BeginPlanAnyState(w) ==
    /\ pc[w] = "idle"
    /\ pending # NoPlan
    /\ state' = [state EXCEPT ![pending] = "executing"]
    /\ WorksOn(w, pending)
    /\ Goto(w, "begun")
    /\ UNCHANGED <<enabled, pending, source, late, mirror, reports, wanted, outcome, movedFor>>

\* begin_cleanup_plan.
BeginPlan(w) ==
    /\ pc[w] = "idle"
    /\ Awaiting(pending)
    /\ state' = [state EXCEPT ![pending] = "executing"]
    /\ WorksOn(w, pending)
    /\ Goto(w, "begun")
    /\ UNCHANGED <<enabled, pending, source, late, mirror, reports, wanted, outcome, movedFor>>

ClearMirrorOfBegun(w) ==
    /\ pc[w] = "begun"
    /\ mirror' = NoPlan
    /\ Goto(w, "approved")
    /\ UNCHANGED <<enabled, review, reports, plan, wanted, outcome, movedFor>>

\* cleanup_plan_action looks the candidates up in the report of the plan.
ResolveAction(w) ==
    /\ pc[w] = "approved"
    /\ IF stored = source[plan[w]]
       THEN Goto(w, "ready") /\ UNCHANGED outcome
       ELSE Goto(w, "finishing") /\ outcome' = [outcome EXCEPT ![w] = "stale"]
    /\ UNCHANGED <<enabled, review, mirror, reports, plan, wanted, movedFor>>

\* An item in need of review was approved without the extra confirmation.
ResolveActionFails(w) ==
    /\ pc[w] = "approved"
    /\ Goto(w, "finishing")
    /\ outcome' = [outcome EXCEPT ![w] = "stale"]
    /\ UNCHANGED <<enabled, review, mirror, reports, plan, wanted, movedFor>>

SlotFree == ~scanning /\ \A w \in Windows : pc[w] \notin {"moving", "moved"}

BeginTrash(w) ==
    /\ pc[w] = "ready"
    /\ IF SlotFree /\ stored # 0
       THEN Goto(w, "moving") /\ UNCHANGED outcome
       ELSE Goto(w, "finishing") /\ outcome' = [outcome EXCEPT ![w] = "failed"]
    /\ UNCHANGED <<enabled, review, mirror, reports, plan, wanted, movedFor>>

MoveFiles(w) ==
    /\ pc[w] = "moving"
    /\ movedFor' = movedFor \cup {plan[w]}
    /\ Goto(w, "moved")
    /\ UNCHANGED <<enabled, review, mirror, reports, plan, wanted, outcome>>

\* An error of the trash command that leaves the approval before its plan is
\* finished.
EndTrashLeaves(w) ==
    /\ pc[w] \in {"moving", "moved"}
    /\ stored' = 0
    /\ Return(w)
    /\ UNCHANGED <<enabled, review, mirror, generation, scanning, movedFor>>

\* clear_all, then the result: an error is returned only when nothing was moved.
EndTrash(w) ==
    /\ pc[w] \in {"moving", "moved"}
    /\ stored' = 0
    /\ \E s \in {"completed", "cancelled", "failed"} :
          /\ s = "failed" => pc[w] = "moving"
          /\ outcome' = [outcome EXCEPT ![w] = s]
    /\ Goto(w, "finishing")
    /\ UNCHANGED <<enabled, review, mirror, generation, scanning, plan, wanted, movedFor>>

\* A finish that does not compare the id of the pending plan with its own.
FinishPlanUnchecked(w) ==
    /\ pc[w] = "finishing"
    /\ End(plan[w], outcome[w])
    /\ Goto(w, "clearing")
    /\ UNCHANGED <<enabled, mirror, reports, plan, wanted, outcome, movedFor>>

\* finish_cleanup_plan looks at the id of the pending plan, not at its state.
FinishPlan(w) ==
    /\ pc[w] = "finishing"
    /\ IF pending = plan[w]
       THEN /\ End(pending, outcome[w])
            /\ Goto(w, "clearing")
            /\ UNCHANGED <<plan, wanted, outcome>>
       ELSE Return(w) /\ UNCHANGED review
    /\ UNCHANGED <<enabled, mirror, reports, movedFor>>

-------------------------------------------------------------------------------
(* configure_cleanup_access, the clock and the scans. *)

EnableAccess ==
    /\ ~enabled
    /\ enabled' = TRUE
    /\ UNCHANGED <<review, mirror, reports, calls, movedFor>>

\* Access that is switched off under a plan that executes.
DisableAccessAlways ==
    /\ enabled
    /\ enabled' = FALSE
    /\ mirror' = NoPlan
    /\ IF pending = NoPlan THEN UNCHANGED review ELSE End(pending, "rejected")
    /\ UNCHANGED <<reports, calls, movedFor>>

DisableAccess ==
    /\ enabled
    /\ pending # NoPlan => state[pending] # "executing"
    /\ enabled' = FALSE
    /\ mirror' = NoPlan
    /\ IF pending = NoPlan THEN UNCHANGED review ELSE End(pending, "rejected")
    /\ UNCHANGED <<reports, calls, movedFor>>

PlanBecomesLate ==
    /\ pending # NoPlan
    /\ ~late
    /\ late' = TRUE
    /\ UNCHANGED <<enabled, pending, state, source, mirror, reports, calls, movedFor>>

BeginScan ==
    /\ SlotFree
    /\ generation < MaxGeneration
    /\ scanning' = TRUE
    /\ stored' = 0
    /\ UNCHANGED <<enabled, review, mirror, generation, calls, movedFor>>

\* A generation that is stored but not counted.
EndScanUncounted ==
    /\ scanning
    /\ scanning' = FALSE
    /\ stored' = generation + 1
    /\ UNCHANGED <<enabled, review, mirror, generation, calls, movedFor>>

EndScan ==
    /\ scanning
    /\ scanning' = FALSE
    /\ \/ generation' = generation + 1 /\ stored' = generation + 1
       \/ UNCHANGED <<generation, stored>>
    /\ UNCHANGED <<enabled, review, mirror, calls, movedFor>>

-------------------------------------------------------------------------------
\* What an approved plan does by itself.
Execute(w) ==
    \/ ClearMirrorOfBegun(w)
    \/ ResolveAction(w) \/ ResolveActionFails(w)
    \/ BeginTrash(w) \/ MoveFiles(w) \/ EndTrash(w)
    \/ FinishPlan(w)

Next ==
    \/ \E c \in Clients :
        \/ SelectCandidates(c) \/ EnsureAccess(c)
        \/ \E p \in Plans : CreatePlan(c, p)
        \/ AnswerWithPending(c) \/ MirrorPlan(c)
    \/ \E c \in Calls : ExpireOnRead(c) \/ ClearMirror(c)
    \/ \E w \in Windows :
        \/ ViewPending(w) \/ ViewDetail(w)
        \/ RejectPlan(w) \/ ExpireOnDecision(w)
        \/ BeginPlan(w)
        \/ Execute(w)
    \/ EnableAccess \/ DisableAccess
    \/ PlanBecomesLate
    \/ BeginScan \/ EndScan

Spec == Init /\ [][Next]_vars

\* A command of the window that has begun runs to its end.
FairSpec == Spec /\ \A w \in Windows : WF_vars(Execute(w))

-------------------------------------------------------------------------------
(* Properties. *)

\* The pending plan is the only plan that is not over, and a window that
\* executes works on it alone: two approvals of one plan never both run.
Executes(w) == pc[w] \in {"begun", "approved", "ready", "moving", "moved"}

OneOpenPlan ==
    /\ \A p \in Plans : state[p] \in {"awaiting", "executing"} <=> pending = p
    /\ \A w, v \in Windows : Executes(w) /\ Executes(v) /\ plan[w] = plan[v] => w = v

\* A plan that was rejected, that expired or that a client only proposed moved
\* no file, whatever raced with the approval.
DeclinedPlanMovedNothing ==
    \A p \in movedFor : state[p] \notin {"none", "awaiting", "rejected", "expired"}

\* A plan that is over keeps the state it ended with.
EndedPlanStays ==
    [][\A p \in Plans : state[p] \in Ended => state'[p] = state[p]]_vars

\* A plan that begins to execute ends.
ExecutingPlanEnds == \A p \in Plans : state[p] = "executing" ~> state[p] \in Ended

\* docs/architecture/mcp-cleanup-v3.md:46: a plan that ends as stale moved no file.
StalePlanMovedNothing == \A p \in movedFor : state[p] # "stale"
===============================================================================
