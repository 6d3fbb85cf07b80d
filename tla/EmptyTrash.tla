----------------------------- MODULE EmptyTrash -----------------------------
(***************************************************************************)
(* Emptying the system's trash, which cannot be undone (empty_trash.rs): a *)
(* plan that can be confirmed once and for two minutes, a worker that asks *)
(* Finder or the shell, and a latch that keeps the app from asking again   *)
(* when the answer is not known.  (The worker also clears the stored       *)
(* reports, which are part of ScanRuntime.)                                *)
(***************************************************************************)
EXTENDS Integers, FiniteSets

CONSTANTS
  Calls,      \* calls of confirm_empty_system_trash
  NoCall,
  MaxPlans    \* bound: plans

EmptyAssumption == NoCall \notin Calls /\ MaxPlans \in Nat

VARIABLES
  slot, flag,           \* the work slot of ScanRuntime, and its cancellation
  plans, pending,       \* plans made so far, and PlanState.pending
  unconfirmed,          \* PlanState.unconfirmed
  call, worker,         \* the calls, and their workers
  atWork                \* calls whose request the system may still carry out

vars == <<slot, flag, plans, pending, unconfirmed, call, worker, atWork>>

NoPlan == [id |-> 0, fresh |-> FALSE]
Outcomes == {"requested", "cancelled", "permissionDenied", "launchFailed", "unconfirmed"}
Idle == [at |-> "idle", plan |-> 0, acknowledged |-> FALSE]

Init ==
  /\ slot = NoCall /\ flag = FALSE /\ plans = 0 /\ pending = NoPlan /\ unconfirmed = FALSE
  /\ call = [c \in Calls |-> Idle] /\ worker = [c \in Calls |-> "none"] /\ atWork = {}

(***************************************************************************)
(* The plan.                                                               *)
(***************************************************************************)
Prepare ==
  /\ plans < MaxPlans /\ ~unconfirmed
  /\ plans' = plans + 1 /\ pending' = [id |-> plans', fresh |-> TRUE]
  /\ UNCHANGED <<slot, flag, unconfirmed, call, worker, atWork>>

Dismiss ==
  /\ pending # NoPlan /\ pending' = NoPlan
  /\ UNCHANGED <<slot, flag, plans, unconfirmed, call, worker, atWork>>

\* PLAN_TTL passes
Expire ==
  /\ pending.fresh /\ pending' = [pending EXCEPT !.fresh = FALSE]
  /\ UNCHANGED <<slot, flag, plans, unconfirmed, call, worker, atWork>>

(***************************************************************************)
(* confirm_empty_system_trash.                                             *)
(***************************************************************************)
\* the completion guard is shared: the slot is free when neither half is left
FreeWith(c, w, caller) == slot' = IF caller \/ w \notin {"none", "gone"} THEN slot ELSE NoCall

Begin(c) ==
  /\ call[c].at = "idle" /\ slot = NoCall /\ slot' = c /\ flag' = FALSE
  /\ \E id \in 1..plans, ack \in BOOLEAN :
       call' = [call EXCEPT ![c] = [at |-> "claim", plan |-> id, acknowledged |-> ack]]
  /\ UNCHANGED <<plans, pending, unconfirmed, worker, atWork>>

Leave(c) == call' = [call EXCEPT ![c] = Idle] /\ FreeWith(c, worker[c], FALSE)

TakePlan(c) == pending' = NoPlan

Claim(c) ==
  /\ call[c].at = "claim"
  /\ LET known == ~unconfirmed /\ pending # NoPlan /\ pending.id = call[c].plan IN
       IF known /\ pending.fresh /\ call[c].acknowledged
       THEN TakePlan(c) /\ call' = [call EXCEPT ![c].at = "commit"] /\ UNCHANGED slot
       ELSE Leave(c) /\ pending' = IF known /\ ~pending.fresh THEN NoPlan ELSE pending
  /\ UNCHANGED <<flag, plans, unconfirmed, worker, atWork>>

\* begin_commit: a job that was cancelled does not begin, and its plan is used up
Commit(c) ==
  /\ call[c].at = "commit"
  /\ IF flag THEN Leave(c) /\ UNCHANGED worker
     ELSE /\ call' = [call EXCEPT ![c].at = "await"] /\ worker' = [worker EXCEPT ![c] = "ready"]
          /\ UNCHANGED slot
  /\ UNCHANGED <<flag, plans, pending, unconfirmed, atWork>>

\* native_empty_trash
Ask(c) ==
  /\ worker[c] = "ready"
  /\ \/ worker' = [worker EXCEPT ![c] = "asking"] /\ atWork' = atWork \cup {c}
     \/ worker' = [worker EXCEPT ![c] = "launchFailed"] /\ UNCHANGED atWork
  /\ UNCHANGED <<slot, flag, plans, pending, unconfirmed, call>>

\* killing our helper cannot cancel an event already sent
Answer(c) ==
  /\ worker[c] = "asking"
  /\ \E o \in Outcomes \ {"launchFailed"} :
       /\ worker' = [worker EXCEPT ![c] = o]
       /\ atWork' = IF o = "unconfirmed" THEN atWork ELSE atWork \ {c}
  /\ UNCHANGED <<slot, flag, plans, pending, unconfirmed, call>>

SystemEnds(c) ==
  /\ c \in atWork /\ worker[c] # "asking" /\ atWork' = atWork \ {c}
  /\ UNCHANGED <<slot, flag, plans, pending, unconfirmed, call, worker>>

Record(o) ==
  /\ unconfirmed' = (unconfirmed \/ o = "unconfirmed")
  /\ pending' = IF o = "unconfirmed" THEN NoPlan ELSE pending

\* a worker whose answer only its caller remembers
EndQuietly(c) == UNCHANGED <<unconfirmed, pending>>
End(c) == Record(worker[c])

WorkerEnds(c) ==
  /\ worker[c] \in Outcomes /\ End(c)
  /\ worker' = [worker EXCEPT ![c] = "gone"]
  /\ call' = IF call[c].at = "await" THEN [call EXCEPT ![c].at = worker[c]] ELSE call
  /\ FreeWith(c, "gone", call[c].at = "await")
  /\ UNCHANGED <<flag, plans, atWork>>

\* the task fails while its caller waits: the outcome is Unconfirmed
WorkerFails(c) ==
  /\ worker[c] \in {"ready", "asking"} /\ call[c].at = "await"
  /\ worker' = [worker EXCEPT ![c] = "gone"] /\ call' = [call EXCEPT ![c].at = "unconfirmed"]
  /\ UNCHANGED <<slot, flag, plans, pending, unconfirmed, atWork>>

Return(c) ==
  /\ call[c].at \in Outcomes /\ Record(call[c].at) /\ Leave(c)
  /\ worker' = [worker EXCEPT ![c] = "none"]
  /\ UNCHANGED <<flag, plans, atWork>>

\* the window closes: nobody waits for the worker any more
Drop(c) ==
  /\ call[c].at = "await" /\ call' = [call EXCEPT ![c].at = "dropped"]
  /\ FreeWith(c, worker[c], FALSE)
  /\ UNCHANGED <<flag, plans, pending, unconfirmed, worker, atWork>>

Cancel ==
  /\ slot # NoCall /\ call[slot].at \in {"claim", "commit"} /\ flag' = TRUE
  /\ UNCHANGED <<slot, plans, pending, unconfirmed, call, worker, atWork>>

Next ==
  \/ Prepare \/ Dismiss \/ Expire \/ Cancel
  \/ \E c \in Calls :
       \/ Begin(c) \/ Claim(c) \/ Commit(c) \/ Ask(c) \/ Answer(c) \/ SystemEnds(c)
       \/ WorkerEnds(c) \/ WorkerFails(c) \/ Return(c) \/ Drop(c)

Spec == Init /\ [][Next]_vars

TypeOK ==
  /\ slot \in Calls \cup {NoCall} /\ flag \in BOOLEAN /\ plans \in 0..MaxPlans
  /\ pending \in [id : 0..MaxPlans, fresh : BOOLEAN] /\ unconfirmed \in BOOLEAN
  /\ call \in [Calls -> [at : Outcomes \cup {"idle", "claim", "commit", "await", "dropped"},
                          plan : 0..MaxPlans, acknowledged : BOOLEAN]]
  /\ worker \in [Calls -> Outcomes \cup {"none", "ready", "asking", "gone"}]
  /\ atWork \subseteq Calls

(***************************************************************************)
(* The app never asks while an earlier request of it may still be at work, *)
(* whether its caller left, its plan was replaced, or the answer was lost  *)
(* (empty_trash.rs:19 "Never automatically retry", 149-181).               *)
(***************************************************************************)
OneRequestAtWork == Cardinality(atWork) <= 1
=============================================================================
