--------------------------- MODULE CleanupPlanProofs ---------------------------
(***************************************************************************)
(* Proofs about what is reviewed and what is remembered: CleanupPlan, the  *)
(* plan between clients and windows, for any number of plans, clients and  *)
(* window commands; PermissionStore, the remembered permissions,           *)
(* MacSettings, the changed settings and their undoing, and                *)
(* McpRegistration, the entry in the configuration of another program, for *)
(* any values and any number of changes by others.                         *)
(***************************************************************************)
EXTENDS CleanupPlan, Integers, Sequences, FiniteSetTheorems, SequenceTheorems,
        WellFoundedInduction, TLAPS

\* A window command that began a plan and has not been told that it is stale.
Engaged(w) == Executes(w) \/ (pc[w] = "finishing" /\ outcome[w] # "stale")

\* Only a plan that is not over is pending.
PendingIsOpen == \A p \in Plans : state[p] \in {"awaiting", "executing"} <=> pending = p

\* A finish never claims that the window had rejected the plan or let it expire.
Outcomes == {"stale", "cancelled", "completed", "failed"}
OutcomeOfAction == \A w \in Calls : outcome[w] \in Outcomes

\* A window that works on a plan has one.
WindowHasPlan ==
    \A w \in Windows : Engaged(w) \/ pc[w] \in {"viewing", "finishing"} => plan[w] \in Plans

\* The plan of an engaged window executes, unless a viewer declared it stale.
EngagedExecutes == \A w \in Windows : Engaged(w) => state[plan[w]] \in {"executing", "stale"}

\* No two windows are engaged in one plan.
EngagedAlone ==
    \A w, v \in Windows : Engaged(w) /\ Engaged(v) /\ plan[w] = plan[v] => w = v

IInv ==
    /\ TypeOK
    /\ PendingIsOpen
    /\ OutcomeOfAction
    /\ WindowHasPlan
    /\ EngagedExecutes
    /\ EngagedAlone
    /\ DeclinedPlanMovedNothing

-------------------------------------------------------------------------------
(* Type correctness. *)

\* The initial state has the types.
LEMMA InitType == Init => TypeOK
<1> SUFFICES ASSUME Init PROVE TypeOK
  OBVIOUS
<1> USE DEF Init
<1>1. stored \in 0..generation /\ generation \in Nat
  OBVIOUS
<1>2. state \in [Plans -> States] /\ source \in [Plans -> Nat]
  BY DEF States
<1>3. pc \in [Calls -> Stages] /\ outcome \in [Calls -> Ended] /\ wanted \in [Calls -> Nat]
  BY DEF Stages, Ended
<1>4. plan \in [Calls -> Plans \cup {NoPlan}]
  OBVIOUS
<1> QED
  BY <1>1, <1>2, <1>3, <1>4 DEF TypeOK

\* Every step keeps the types.
LEMMA StepType == TypeOK /\ WindowHasPlan /\ [Next]_vars => TypeOK'
<1> SUFFICES ASSUME TypeOK, WindowHasPlan, [Next]_vars PROVE TypeOK'
  OBVIOUS
<1> USE PlanAssumption DEF TypeOK, Stages, Ended, States, Goto, WorksOn, Return, End, Calls,
      review, reports, calls
<1>1. ASSUME NEW c \in Clients, SelectCandidates(c) PROVE TypeOK'
  BY <1>1 DEF SelectCandidates
<1>2. ASSUME NEW c \in Clients, EnsureAccess(c) PROVE TypeOK'
  BY <1>2 DEF EnsureAccess
<1>3. ASSUME NEW c \in Clients, NEW p \in Plans, CreatePlan(c, p) PROVE TypeOK'
  BY <1>3 DEF CreatePlan
<1>4. ASSUME NEW c \in Clients, AnswerWithPending(c) PROVE TypeOK'
  BY <1>4 DEF AnswerWithPending
<1>5. ASSUME NEW c \in Clients, MirrorPlan(c) PROVE TypeOK'
  BY <1>5 DEF MirrorPlan
<1>6. ASSUME NEW c \in Calls, ExpireOnRead(c) \/ ClearMirror(c) PROVE TypeOK'
  <2>1. CASE ExpireOnRead(c)
    BY <2>1 DEF ExpireOnRead, CanExpire
  <2>2. CASE ClearMirror(c)
    BY <2>2 DEF ClearMirror
  <2> QED
    BY <1>6, <2>1, <2>2
<1>7. ASSUME NEW w \in Windows, ViewPending(w) PROVE TypeOK'
  BY <1>7 DEF ViewPending, Awaiting
<1>8. ASSUME NEW w \in Windows, ViewDetail(w) PROVE TypeOK'
  BY <1>8 DEF ViewDetail
<1>9. ASSUME NEW w \in Windows, RejectPlan(w) \/ ExpireOnDecision(w) PROVE TypeOK'
  BY <1>9 DEF RejectPlan, ExpireOnDecision
<1>10. ASSUME NEW w \in Windows, BeginPlan(w) \/ ClearMirrorOfBegun(w) PROVE TypeOK'
  BY <1>10 DEF BeginPlan, ClearMirrorOfBegun, Awaiting
<1>11. ASSUME NEW w \in Windows, ResolveAction(w) \/ ResolveActionFails(w) PROVE TypeOK'
  BY <1>11 DEF ResolveAction, ResolveActionFails
<1>12. ASSUME NEW w \in Windows, BeginTrash(w) PROVE TypeOK'
  BY <1>12 DEF BeginTrash
<1>13. ASSUME NEW w \in Windows, MoveFiles(w) PROVE TypeOK'
  <2>1. plan[w] \in Plans
    BY <1>13 DEF MoveFiles, WindowHasPlan, Engaged, Executes
  <2> QED
    BY <1>13, <2>1 DEF MoveFiles
<1>14. ASSUME NEW w \in Windows, EndTrash(w) PROVE TypeOK'
  BY <1>14 DEF EndTrash
<1>15. ASSUME NEW w \in Windows, FinishPlan(w) PROVE TypeOK'
  <2>1. CASE pending = plan[w]
    <3>1. outcome[w] \in States
      OBVIOUS
    <3> QED
      BY <1>15, <2>1, <3>1 DEF FinishPlan
  <2>2. CASE pending # plan[w]
    BY <1>15, <2>2 DEF FinishPlan
  <2> QED
    BY <2>1, <2>2
<1>16. CASE EnableAccess \/ DisableAccess \/ PlanBecomesLate
  BY <1>16 DEF EnableAccess, DisableAccess, PlanBecomesLate
<1>17. CASE BeginScan
  BY <1>17 DEF BeginScan
<1>18. CASE EndScan
  <2>1. stored' \in 0..generation' /\ generation' \in Nat
    BY <1>18 DEF EndScan
  <2> QED
    BY <1>18, <2>1 DEF EndScan
<1>19. CASE UNCHANGED vars
  BY <1>19 DEF vars
<1> QED
  BY <1>1, <1>2, <1>3, <1>4, <1>5, <1>6, <1>7, <1>8, <1>9, <1>10, <1>11, <1>12, <1>13,
     <1>14, <1>15, <1>16, <1>17, <1>18, <1>19 DEF Next, Execute
-------------------------------------------------------------------------------
(* The inductive invariant. *)

USE PlanAssumption DEF Engaged, Executes, Outcomes, Goto, WorksOn

\* Initially no plan exists and no window is at work.
LEMMA InitInvariant == Init => IInv
<1> SUFFICES ASSUME Init PROVE IInv
  OBVIOUS
<1>1. PendingIsOpen /\ OutcomeOfAction /\ DeclinedPlanMovedNothing
  BY DEF Init, PendingIsOpen, OutcomeOfAction, DeclinedPlanMovedNothing
<1>2. \A w \in Windows : ~Engaged(w) /\ pc[w] \notin {"viewing", "finishing"}
  BY DEF Init, Calls
<1> QED
  BY <1>1, <1>2, InitType DEF IInv, WindowHasPlan, EngagedExecutes, EngagedAlone

\* The invariant without the types.
Plain ==
    /\ PendingIsOpen
    /\ OutcomeOfAction
    /\ WindowHasPlan
    /\ EngagedExecutes
    /\ EngagedAlone
    /\ DeclinedPlanMovedNothing

\* Every step keeps the relations between plans, windows and moved files.
LEMMA StepPlain == IInv /\ [Next]_vars => Plain'
<1> SUFFICES ASSUME IInv, [Next]_vars PROVE Plain'
  OBVIOUS
<1> USE DEF IInv, TypeOK, Stages, Ended, States, Calls, Plain, PendingIsOpen, OutcomeOfAction,
      WindowHasPlan, EngagedExecutes, EngagedAlone, DeclinedPlanMovedNothing, Return, End,
      review, reports, calls
<1>1. ASSUME NEW c \in Clients, SelectCandidates(c) PROVE Plain'
  BY <1>1 DEF SelectCandidates
<1>2. ASSUME NEW c \in Clients, EnsureAccess(c) PROVE Plain'
  BY <1>2 DEF EnsureAccess
<1>3. ASSUME NEW c \in Clients, NEW p \in Plans, CreatePlan(c, p) PROVE Plain'
  BY <1>3 DEF CreatePlan, CanExpire
<1>4. ASSUME NEW c \in Clients, AnswerWithPending(c) PROVE Plain'
  BY <1>4 DEF AnswerWithPending
<1>5. ASSUME NEW c \in Clients, MirrorPlan(c) PROVE Plain'
  BY <1>5 DEF MirrorPlan
<1>6. ASSUME NEW c \in Calls, ExpireOnRead(c) \/ ClearMirror(c) PROVE Plain'
  BY <1>6 DEF ExpireOnRead, ClearMirror, CanExpire
<1>7. ASSUME NEW w \in Windows, ViewPending(w) PROVE Plain'
  BY <1>7 DEF ViewPending, Awaiting
<1>8. ASSUME NEW w \in Windows, ViewDetail(w) PROVE Plain'
  BY <1>8 DEF ViewDetail
<1>9. ASSUME NEW w \in Windows, RejectPlan(w) \/ ExpireOnDecision(w) PROVE Plain'
  BY <1>9 DEF RejectPlan, ExpireOnDecision, CanExpire, Awaiting
<1>10. ASSUME NEW w \in Windows, BeginPlan(w) \/ ClearMirrorOfBegun(w) PROVE Plain'
  BY <1>10 DEF BeginPlan, ClearMirrorOfBegun, Awaiting
<1>11. ASSUME NEW w \in Windows, ResolveAction(w) \/ ResolveActionFails(w) PROVE Plain'
  BY <1>11 DEF ResolveAction, ResolveActionFails
<1>12. ASSUME NEW w \in Windows, BeginTrash(w) PROVE Plain'
  BY <1>12 DEF BeginTrash
<1>13. ASSUME NEW w \in Windows, MoveFiles(w) PROVE Plain'
  BY <1>13 DEF MoveFiles
<1>14. ASSUME NEW w \in Windows, EndTrash(w) PROVE Plain'
  BY <1>14 DEF EndTrash
<1>15. ASSUME NEW w \in Windows, FinishPlan(w) PROVE Plain'
  BY <1>15 DEF FinishPlan
<1>16. CASE EnableAccess \/ DisableAccess \/ PlanBecomesLate
  BY <1>16 DEF EnableAccess, DisableAccess, PlanBecomesLate
<1>17. CASE BeginScan \/ EndScan
  BY <1>17 DEF BeginScan, EndScan
<1>18. CASE UNCHANGED vars
  BY <1>18 DEF vars
<1> QED
  BY <1>1, <1>2, <1>3, <1>4, <1>5, <1>6, <1>7, <1>8, <1>9, <1>10, <1>11, <1>12, <1>13,
     <1>14, <1>15, <1>16, <1>17, <1>18 DEF Next, Execute

\* The invariant is inductive.
LEMMA StepInvariant == IInv /\ [Next]_vars => IInv'
  BY StepType, StepPlain DEF IInv, Plain

\* The inductive invariant holds in every reachable state.
THEOREM InductiveInvariant == Spec => []IInv
<1>1. Init => IInv
  BY InitInvariant
<1>2. IInv /\ [Next]_vars => IInv'
  BY StepInvariant
<1> QED
  BY <1>1, <1>2, PTL DEF Spec

\* The types of CleanupPlan's state (ControlStatusStore, CleanupReviewState).
THEOREM TypeCorrect == Spec => []TypeOK
<1>1. IInv => TypeOK
  BY DEF IInv
<1> QED
  BY InductiveInvariant, <1>1, PTL

\* The pending plan is the only plan that is not over, and no two windows
\* execute one plan (begin_cleanup_plan, create_cleanup_plan, finish_cleanup_plan).
THEOREM PlanSafety == Spec => []OneOpenPlan
<1>1. IInv => OneOpenPlan
  BY DEF IInv, OneOpenPlan, PendingIsOpen, EngagedAlone
<1> QED
  BY InductiveInvariant, <1>1, PTL

\* A plan that was rejected, that expired or that still waits has moved no file
\* (configure_cleanup_access, reject_cleanup_plan, expire_pending_cleanup_plan).
THEOREM DeclineSafety == Spec => []DeclinedPlanMovedNothing
<1>1. IInv => DeclinedPlanMovedNothing
  BY DEF IInv
<1> QED
  BY InductiveInvariant, <1>1, PTL

\* The invariant lets no step change a plan that is over.
LEMMA StepKeepsEnded ==
    ASSUME IInv, [Next]_vars, NEW p \in Plans, state[p] \in Ended PROVE state'[p] = state[p]
<1> USE DEF IInv, TypeOK, Ended, States, Calls, PendingIsOpen, WindowHasPlan, Return, End,
      review, reports, calls
<1>1. ASSUME NEW c \in Clients, NEW q \in Plans, CreatePlan(c, q) PROVE state'[p] = state[p]
  BY <1>1 DEF CreatePlan, CanExpire
<1>2. ASSUME NEW c \in Calls, ExpireOnRead(c) PROVE state'[p] = state[p]
  BY <1>2 DEF ExpireOnRead, CanExpire
<1>3. ASSUME NEW w \in Windows, RejectPlan(w) \/ ExpireOnDecision(w) \/ BeginPlan(w)
      PROVE state'[p] = state[p]
  BY <1>3 DEF RejectPlan, ExpireOnDecision, BeginPlan, CanExpire, Awaiting
<1>4. ASSUME NEW w \in Windows, FinishPlan(w) PROVE state'[p] = state[p]
  BY <1>4 DEF FinishPlan
<1>5. ASSUME DisableAccess PROVE state'[p] = state[p]
  BY <1>5 DEF DisableAccess
<1>6. ASSUME NEW c \in Clients,
             SelectCandidates(c) \/ EnsureAccess(c) \/ AnswerWithPending(c) \/ MirrorPlan(c)
      PROVE state'[p] = state[p]
  BY <1>6 DEF SelectCandidates, EnsureAccess, AnswerWithPending, MirrorPlan
<1>7. ASSUME NEW c \in Calls, ClearMirror(c) PROVE state'[p] = state[p]
  BY <1>7 DEF ClearMirror
<1>8. ASSUME NEW w \in Windows, ViewPending(w) \/ ViewDetail(w) \/ ClearMirrorOfBegun(w)
      PROVE state'[p] = state[p]
  BY <1>8 DEF ViewPending, ViewDetail, ClearMirrorOfBegun
<1>9. ASSUME NEW w \in Windows, ResolveAction(w) \/ ResolveActionFails(w) \/ BeginTrash(w)
      PROVE state'[p] = state[p]
  BY <1>9 DEF ResolveAction, ResolveActionFails, BeginTrash
<1>10. ASSUME NEW w \in Windows, MoveFiles(w) \/ EndTrash(w) PROVE state'[p] = state[p]
  BY <1>10 DEF MoveFiles, EndTrash
<1>11. CASE EnableAccess \/ PlanBecomesLate \/ BeginScan \/ EndScan
  BY <1>11 DEF EnableAccess, PlanBecomesLate, BeginScan, EndScan
<1>12. CASE UNCHANGED vars
  BY <1>12 DEF vars
<1> QED
  BY <1>1, <1>2, <1>3, <1>4, <1>5, <1>6, <1>7, <1>8, <1>9, <1>10, <1>11, <1>12
     DEF Next, Execute

\* A plan that is over keeps the state it ended with (finish_cleanup_plan refuses
\* a plan that is not the pending one).
THEOREM EndedSafety == Spec => EndedPlanStays
<1>1. IInv /\ [Next]_vars
        => [\A p \in Plans : state[p] \in Ended => state'[p] = state[p]]_vars
  BY StepKeepsEnded
<1> QED
  BY InductiveInvariant, <1>1, PTL DEF Spec, EndedPlanStays

-----------------------------------------------------------------------------
(* The remembered permissions (PermissionStore), for any folders, switches   *)
(* and number of changes and starts.                                         *)

CONSTANTS Roots, Switches, MaxChanges, MaxStarts
VARIABLES up, held, record, change, warned, blind, present, changes, starts

Store == INSTANCE PermissionStore WITH file <- record, job <- change

\* What is on record was kept to be remembered, and nothing else is.
OnRecord ==
  /\ record.kind \in {"none", "empty", "record"} /\ record.record \in Store!Preferences
  /\ record.record.lifetime = "session" \/ record.kind # "record" => record.record = Store!Default

Jobs == [step : {"none", "save", "forget", "install"}, prev : Store!Preferences, next : Store!Preferences]

\* Nothing on record goes beyond what p permits.
Kept(p) ==
  /\ record.record.grants \subseteq p.grants \cup Store!Default.grants
  /\ p.lifetime = "session" => record.record.grants \subseteq Store!Default.grants

\* At rest the record is kept to what is permitted; a change that waits for its
\* record may fall back to what is permitted now, or is a restriction; a change
\* that has its record goes on to what is recorded.
RecordInv ==
  /\ OnRecord /\ up \in BOOLEAN /\ warned \in BOOLEAN /\ blind \in BOOLEAN /\ present \subseteq Roots
  /\ held \in Store!Preferences
  /\ change \in Jobs
  /\ change.step = "none" => change = Store!NoJob
  /\ warned => held.lifetime = "remember"
  /\ up /\ ~blind /\ ~warned /\ (change = Store!NoJob
                                 \/ (change.step = "save" /\ ~Store!OnlyRestricts(change.next, change.prev)))
       => Kept(held)
  /\ ~blind /\ change.step = "install" => Kept(change.next)

LEMMA DefaultIsPreference ==
  ASSUME Store!PermissionAssumption
  PROVE  /\ Store!Default \in Store!Preferences /\ Store!Default.lifetime = "session"
         /\ Store!Default.grants = {"confirm"} /\ Store!NoJob.step = "none"
         /\ Store!NoJob \in Jobs
BY DEF Jobs, Store!PermissionAssumption, Store!Default, Store!Preferences, Store!Grants,
   Store!Lifetimes,
       Store!NoJob

\* A change is begun.
LEMMA CommitStep ==
  ASSUME Store!PermissionAssumption, NEW prev \in Store!Preferences, NEW next \in Store!Preferences,
         Store!Commit(prev, next)
  PROVE  /\ change' \in Jobs
         /\ change'.prev = prev /\ change'.next = next
         /\ \/ change'.step = "save"
            \/ change'.step = "install" /\ prev.lifetime = "session" /\ next.lifetime = "session"
BY DEF Jobs, Store!Commit, Store!NothingToWrite

LEMMA ChangeStep ==
  ASSUME Store!PermissionAssumption, RecordInv, Store!Change PROVE RecordInv'
<1>1. up /\ change = Store!NoJob /\ UNCHANGED <<up, held, record, warned, blind, present>>
  BY DEF Store!Change
<1>2. PICK next \in Store!Preferences : Store!Commit(held, next)
  <2>1. held \in Store!Preferences /\ held.grants \subseteq Store!Grants
    BY DEF RecordInv, Store!Preferences
  <2>2. ASSUME NEW l \in Store!Lifetimes PROVE [held EXCEPT !.lifetime = l] \in Store!Preferences
    BY <2>1 DEF Store!Preferences
  <2>3. ASSUME NEW g \in present \cup Switches
        PROVE  [held EXCEPT !.grants = Store!With(g)] \in Store!Preferences
    <3>1. Store!With(g) \subseteq Store!Grants
      BY <2>1 DEF Store!With, Store!Grants, RecordInv, Store!PermissionAssumption
    <3> QED
      BY <2>1, <3>1 DEF Store!Preferences
  <2>4. ASSUME NEW g \in Store!Grants
        PROVE  [held EXCEPT !.grants = Store!Without(g)] \in Store!Preferences
    <3>1. Store!Without(g) \subseteq Store!Grants
      BY <2>1 DEF Store!Without
    <3> QED
      BY <2>1, <3>1 DEF Store!Preferences
  <2> QED
    BY <2>2, <2>3, <2>4 DEF Store!Change
<1>3. held \in Store!Preferences
  BY DEF RecordInv
<1>4. /\ change' \in Jobs
      /\ change'.prev = held /\ change'.next = next
      /\ \/ change'.step = "save"
         \/ change'.step = "install" /\ held.lifetime = "session" /\ next.lifetime = "session"
  BY <1>2, <1>3, CommitStep
<1>5. change'.step # "none" /\ change' # Store!NoJob
  BY <1>4, DefaultIsPreference
<1>6. ~blind /\ ~warned => Kept(held)
  BY <1>1 DEF RecordInv
<1>7. ~blind /\ change'.step = "install" => Kept(next)'
  BY <1>1, <1>4, <1>6 DEF RecordInv, Kept
<1>8. Kept(held) => Kept(held)'
  BY <1>1 DEF Kept
<1> QED
  BY <1>1, <1>4, <1>5, <1>6, <1>7, <1>8 DEF RecordInv, OnRecord


LEMMA WriteStep ==
  ASSUME Store!PermissionAssumption, RecordInv, Store!Save \/ Store!SaveFails \/ Store!Forget \/ Store!Apply
  PROVE  RecordInv'
<1>1. UNCHANGED <<up, blind, present>>
  BY DEF Store!Save, Store!SaveFails, Store!Forget, Store!Apply, Store!Bounds
<1>2. /\ change.prev \in Store!Preferences /\ change.next \in Store!Preferences /\ held \in Store!Preferences
      /\ [change EXCEPT !.step = "install"] \in Jobs
      /\ [change EXCEPT !.step = "forget"] \in Jobs
  BY DEF RecordInv, Jobs
<1>7. /\ change \in Jobs
      /\ \A step : /\ [change EXCEPT !.step = step].next = change.next
                  /\ [change EXCEPT !.step = step].prev = change.prev
                  /\ [change EXCEPT !.step = step].step = step
  BY DEF RecordInv, Jobs
<1>3. CASE Store!Save
  <2>1. PICK c \in Jobs : c = [change EXCEPT !.step = "install"] /\ c.step = "install" /\ c.next = change.next
    BY <1>2, <1>7
  <2>2. change' = c /\ record' = Store!Stored(Store!Persisted(change.next)) /\ UNCHANGED <<held, warned>>
    BY <1>3, <2>1 DEF Store!Save
  <2>3. record'.record = Store!Persisted(change.next) /\ record'.kind = "record"
    BY <2>2 DEF Store!Stored
  <2>4. OnRecord' /\ Kept(c.next)'
    BY <1>2, <2>1, <2>3, DefaultIsPreference
    DEF OnRecord, Kept, Store!Persisted, Store!Preferences, Store!Lifetimes
  <2>5. c # Store!NoJob
    BY <2>1, DefaultIsPreference
  <2> QED
    BY <1>1, <1>2, <2>1, <2>2, <2>4, <2>5 DEF RecordInv
<1>4. CASE Store!SaveFails
  <2>1. OnRecord' /\ (Kept(held) => Kept(held)') /\ UNCHANGED <<held, warned>>
    <3>1. record' = record \/ (record = Store!NoFile /\ record' = Store!Unreadable)
      BY <1>4 DEF Store!SaveFails
    <3>2. record = Store!NoFile => record.record = Store!Default
      BY DEF Store!NoFile
    <3>3. /\ Store!Unreadable.record = Store!Default /\ Store!Unreadable.kind = "empty"
      BY DEF Store!Unreadable
    <3> QED
      BY <1>4, <3>1, <3>2, <3>3, DefaultIsPreference DEF OnRecord, Kept, RecordInv, Store!SaveFails
  <2>2. CASE Store!OnlyRestricts(change.next, change.prev) /\ change' = [change EXCEPT !.step = "forget"]
    <3>1. PICK c \in Jobs : /\ c = [change EXCEPT !.step = "forget"] /\ c.step = "forget"
                            /\ c.next = change.next /\ c.prev = change.prev
      BY <1>2, <1>7
    <3>2. c # Store!NoJob
      BY <3>1, DefaultIsPreference
    <3> QED
      BY <1>1, <1>2, <2>1, <2>2, <3>1, <3>2 DEF RecordInv
  <2>3. CASE ~Store!OnlyRestricts(change.next, change.prev) /\ change' = Store!NoJob
    BY <1>1, <1>4, <2>1, <2>3, DefaultIsPreference DEF RecordInv, Store!SaveFails
  <2> QED
    BY <1>4, <2>2, <2>3 DEF Store!SaveFails
<1>5. CASE Store!Forget
  <2>1. change' = Store!NoJob
    BY <1>5 DEF Store!Forget, Store!Install
  <2>2. CASE record' = Store!NoFile /\ held' = [change.next EXCEPT !.lifetime = "session"] /\ warned' = FALSE
    <3>1. record'.record = Store!Default /\ record'.kind = "none" /\ held' \in Store!Preferences
      BY <1>2, <2>2 DEF Store!NoFile, Store!Preferences, Store!Lifetimes
    <3>2. OnRecord' /\ Kept(held)'
      BY <3>1, DefaultIsPreference DEF OnRecord, Kept
    <3> QED
      BY <1>1, <2>1, <2>2, <3>1, <3>2, DefaultIsPreference DEF RecordInv
  <2>3. CASE UNCHANGED record /\ held' = [change.next EXCEPT !.lifetime = "remember"] /\ warned' = TRUE
    <3>1. held' \in Store!Preferences /\ held'.lifetime = "remember"
      BY <1>2, <2>3 DEF Store!Preferences, Store!Lifetimes
    <3> QED
      BY <1>1, <2>1, <2>3, <3>1, DefaultIsPreference DEF RecordInv, OnRecord
  <2> QED
    BY <1>5, <2>2, <2>3 DEF Store!Forget, Store!Install
<1>6. CASE Store!Apply
  <2>1. /\ change.step = "install" /\ change' = Store!NoJob /\ held' = change.next /\ warned' = FALSE
        /\ UNCHANGED record
    BY <1>6 DEF Store!Apply, Store!Install
  <2>2. ~blind => Kept(held)'
    BY <2>1 DEF RecordInv, Kept
  <2> QED
    BY <1>1, <1>2, <2>1, <2>2, DefaultIsPreference DEF RecordInv, OnRecord
<1> QED
  BY <1>3, <1>4, <1>5, <1>6

\* The program starts: the folders that are gone are taken out of the record.
LEMMA StartStep ==
  ASSUME Store!PermissionAssumption, RecordInv, Store!Start PROVE RecordInv'
<1>0. PICK p, v : p = record.record /\ v = Store!Valid(record.record)
  OBVIOUS
<1>1. /\ up' = TRUE /\ warned' = FALSE /\ held' = Store!Default /\ UNCHANGED <<record, present>>
      /\ blind' \in BOOLEAN
  BY DEF Store!Start
<1>2. OnRecord' /\ OnRecord /\ p \in Store!Preferences
  BY <1>0, <1>1 DEF RecordInv, OnRecord
<1>3. /\ v \in Store!Preferences /\ v.lifetime = p.lifetime /\ v.grants \subseteq p.grants
      /\ Store!OnlyRestricts(v, p)
  BY <1>0, <1>2 DEF Store!Valid, Store!Preferences, Store!OnlyRestricts
<1>4. p.lifetime = "session" => v = p /\ Kept(p)'
  <2>1. ASSUME p.lifetime = "session" PROVE p = Store!Default
    BY <1>0, <1>2, <2>1, DefaultIsPreference DEF OnRecord, Store!Preferences, Store!Lifetimes
  <2>2. "confirm" \notin Roots
    BY DEF Store!PermissionAssumption
  <2>3. ASSUME p = Store!Default PROVE v.grants = p.grants /\ Kept(p)'
    BY <1>0, <1>1, <1>2, <2>2, <2>3, DefaultIsPreference DEF Store!Valid, Store!Preferences, Kept
  <2> QED
    BY <1>2, <1>3, <2>1, <2>3 DEF Store!Preferences
<1>5. p.lifetime # "session" => Kept(p)'
  BY <1>0, <1>1 DEF Kept
<1>6. CASE change' = Store!NoJob /\ blind'
  BY <1>1, <1>2, <1>6, DefaultIsPreference DEF RecordInv
<1>7. CASE change' = [step |-> "install", prev |-> p, next |-> p]
  <2>1. /\ change' \in Jobs
        /\ change'.step = "install" /\ change'.next = p
    BY <1>2, <1>7 DEF Jobs
  <2>2. change' # Store!NoJob
    BY <2>1, DefaultIsPreference
  <2> QED
    BY <1>1, <1>2, <1>4, <1>5, <2>1, <2>2, DefaultIsPreference DEF RecordInv
<1>8. CASE v # p /\ Store!Commit(p, v)
  <2>1. /\ change' \in Jobs
        /\ change'.step = "save" /\ change'.prev = p /\ change'.next = v
    BY <1>2, <1>3, <1>4, <1>8, CommitStep
  <2>2. change' # Store!NoJob
    BY <2>1, DefaultIsPreference
  <2>3. Store!OnlyRestricts(change'.next, change'.prev)
    BY <1>3, <2>1
  <2> QED
    BY <1>1, <1>2, <2>1, <2>2, <2>3, DefaultIsPreference DEF RecordInv
<1> QED
  BY <1>0, <1>6, <1>7, <1>8 DEF Store!Start

\* The initial state satisfies the invariant, and every step keeps it.
LEMMA RecordInit == ASSUME Store!PermissionAssumption PROVE Store!Init => RecordInv
<1> SUFFICES ASSUME Store!Init PROVE RecordInv
  OBVIOUS
<1>1. record.kind = "none" /\ record.record = Store!Default
  BY DEF Store!Init, Store!NoFile
<1> QED
  BY <1>1, DefaultIsPreference DEF Store!Init, RecordInv, OnRecord

LEMMA RecordStep ==
  ASSUME Store!PermissionAssumption
  PROVE  RecordInv /\ [Store!Next]_(Store!vars) => RecordInv'
<1> SUFFICES ASSUME RecordInv, [Store!Next]_(Store!vars) PROVE RecordInv'
  OBVIOUS
<1>1. CASE Store!Exit
  BY <1>1, DefaultIsPreference DEF Store!Exit, Store!Bounds, RecordInv, OnRecord
<1>2. ASSUME NEW r \in Roots, Store!MoveFolder(r) PROVE RecordInv'
  <2>1. UNCHANGED <<up, held, record, change, warned, blind>> /\ present' \subseteq Roots
    BY <1>2 DEF Store!MoveFolder, RecordInv
  <2> QED
    BY <2>1 DEF RecordInv, OnRecord, Kept
<1>3. CASE UNCHANGED Store!vars
  BY <1>3 DEF Store!vars, RecordInv, OnRecord, Kept
<1> QED
  BY <1>1, <1>2, <1>3, ChangeStep, WriteStep, StartStep DEF Store!Next

\* The types that follow from the invariant of the record.
LEMMA RecordTypes == ASSUME Store!PermissionAssumption PROVE RecordInv => Store!TypeOK
BY DEF RecordInv, OnRecord, Jobs, Store!TypeOK

\* The types of what is permitted and remembered (permission_settings.rs).
THEOREM RecordTyped == ASSUME Store!PermissionAssumption PROVE Store!Spec => []Store!TypeOK
BY RecordTypes, RecordInit, RecordStep, PTL DEF Store!Spec

\* What the invariant says of withdrawn permissions.
LEMMA WithdrawnIsKept ==
  ASSUME Store!PermissionAssumption
  PROVE  RecordInv => Store!WithdrawnStaysWithdrawn
BY DEF RecordInv, Kept, Store!WithdrawnStaysWithdrawn

\* A permission that the user withdrew does not return at a later start, at
\* whatever step a save or the removal of the record failed, for any folders and
\* any number of changes and starts.
THEOREM WithdrawnForGood ==
  ASSUME Store!PermissionAssumption
  PROVE  Store!Spec => []Store!WithdrawnStaysWithdrawn
BY WithdrawnIsKept, RecordInit, RecordStep, PTL DEF Store!Spec

-----------------------------------------------------------------------------
(* The changes of a setting of the Mac (MacSettings), for any number of rows *)
(* of the journal and of changes by other means.                             *)

CONSTANTS MaxHistory, MaxEdits
VARIABLES value, rows, macJob, edits

Mac == INSTANCE MacSettings WITH job <- macJob

MacRow == [previous : Mac!Values, applied : Mac!Values, status : Mac!Statuses]
MacPcs == {"idle", "insert", "recheck", "write", "readBack", "done", "failed", "mark", "finish", "end"}
MacJobs == [pc : MacPcs, row : Nat, expected : Mac!Values, target : Mac!Values, restoring : BOOLEAN]
MacTyped == value \in Mac!Values /\ rows \in Seq(MacRow) /\ macJob \in MacJobs /\ edits \in Nat

\* A row that is not taken back, and the last of them.
Left(i) == i \in 1 .. Len(rows) /\ rows[i].status # "restored"
Last(i) == Left(i) /\ \A k \in 1 .. Len(rows) : Left(k) => k <= i

\* A value that restore accepts for a row: the applied one, or the original one of a
\* row that was never confirmed.
Fits(row, v) == v = row.applied \/ (row.status # "applied" /\ v = row.previous)

\* The journal keeps its limit, and only the last row that is left may be unfinished.
MacRows ==
  /\ Len(rows) <= MaxHistory /\ macJob.row \in 0 .. Len(rows)
  /\ \A i \in 1 .. Len(rows) : rows[i].status \in Mac!Open => Last(i)

\* A command is about the last row that is left, or about a row to come.
MacWriting == {"recheck", "write", "readBack", "done", "failed"}
MacCommand ==
  /\ macJob.pc = "insert" =>
       /\ macJob.row = 0 /\ ~macJob.restoring /\ Len(rows) < MaxHistory
       /\ \A i \in 1 .. Len(rows) : rows[i].status \notin Mac!Open
       /\ edits = 0 => value = macJob.expected
  /\ macJob.pc \in MacWriting =>
       /\ Last(macJob.row)
       /\ macJob.restoring => /\ rows[macJob.row].status = "restorePrepared"
                              /\ macJob.expected = rows[macJob.row].applied
                              /\ macJob.target = rows[macJob.row].previous
       /\ ~macJob.restoring => /\ rows[macJob.row].status = "prepared"
                               /\ macJob.expected = rows[macJob.row].previous
                               /\ macJob.target = rows[macJob.row].applied
  /\ macJob.pc = "done" /\ edits = 0 => value = macJob.target
  /\ macJob.pc \in {"mark", "finish"} =>
       /\ Last(macJob.row) /\ macJob.restoring
       /\ macJob.expected = rows[macJob.row].applied /\ macJob.target = rows[macJob.row].previous
  /\ macJob.pc = "mark" /\ edits = 0 => value = macJob.expected

\* As long as nobody else changes the value it fits the last row that is left, and
\* what each row replaced fits the row that was the last one then: the rows lead
\* back to the value from before the first one.
Settled ==
  /\ \A i \in 1 .. Len(rows) : Last(i) => Fits(rows[i], value)
  /\ (\A k \in 1 .. Len(rows) : ~Left(k)) /\ Len(rows) # 0 => value = rows[1].previous
Linked ==
  \A i, j \in 1 .. Len(rows) :
    /\ Left(i) /\ Left(j) /\ j < i
    /\ \A k \in 1 .. Len(rows) : Left(k) => k <= j \/ i <= k
    => Fits(rows[j], rows[i].previous)
Rooted ==
  \A i \in 1 .. Len(rows) :
    Left(i) /\ (\A k \in 1 .. Len(rows) : Left(k) => i <= k) => rows[i].previous = rows[1].previous

MacInv == MacTyped /\ MacRows /\ MacCommand /\ (edits = 0 => Settled /\ Linked /\ Rooted)

-----------------------------------------------------------------------------
\* A nonempty set of numbers up to n has a greatest one.
LEMMA GreatestNumber ==
  ASSUME NEW n \in Nat, NEW T \in SUBSET (1 .. n), T # {}
  PROVE  \E m \in T : \A k \in T : k <= m
<1> DEFINE R == {ss \in Nat \X Nat : ss[1] < ss[2]}
           D == {n - k : k \in T}
<1>1. R = OpToRel(<, Nat)
  BY Zenon DEF OpToRel
<1>2. IsWellFoundedOn(R, Nat)
  BY <1>1, NatLessThanWellFounded, Zenon
<1>3. D \in SUBSET Nat /\ D # {}
  <2>1. \A k \in T : k \in 1 .. n /\ n - k \in Nat
    OBVIOUS
  <2> QED
    BY <2>1
<1>4. PICK d \in D : \A e \in D : <<e, d>> \notin R
  <2> HIDE DEF R, D
  <2> QED
    BY <1>2, <1>3, WFMin
<1>5. PICK m \in T : d = n - m
  OBVIOUS
<1>6. ASSUME NEW k \in T PROVE k <= m
  <2>1. n - k \in D /\ <<n - k, d>> \in Nat \X Nat
    BY <1>3
  <2>2. ~ (<<n - k, d>>[1] < <<n - k, d>>[2])
    BY <1>4, <2>1
  <2> QED
    BY <1>5, <2>2
<1> QED
  BY <1>6

\* latest: the last row that is left, 0 when none is.
LEMMA LatestIsLast ==
  ASSUME MacTyped
  PROVE  /\ Mac!Latest # 0 => Last(Mac!Latest)
         /\ Mac!Latest = 0 => \A i \in 1 .. Len(rows) : ~Left(i)
         /\ \A i : Last(i) => Mac!Latest = i
<1>1. DOMAIN rows = 1 .. Len(rows) /\ Len(rows) \in Nat
  BY DEF MacTyped
<1>2. Mac!Unrestored = {i \in 1 .. Len(rows) : Left(i)}
  BY <1>1 DEF Mac!Unrestored, Left
<1>3. CASE Mac!Unrestored = {}
  BY <1>2, <1>3 DEF Mac!Latest, Last, Left
<1>4. CASE Mac!Unrestored # {}
  <2>1. PICK m \in Mac!Unrestored : \A k \in Mac!Unrestored : k <= m
    BY <1>1, <1>2, <1>4, GreatestNumber
  <2> DEFINE l == CHOOSE x \in Mac!Unrestored : \A y \in Mac!Unrestored : x >= y
  <2>2. l \in Mac!Unrestored /\ \A y \in Mac!Unrestored : l >= y
    <3>1. \A y \in Mac!Unrestored : m >= y
      BY <1>2, <2>1
    <3> QED
      BY <2>1, <3>1
  <2>3. Mac!Latest = l
    BY <1>4 DEF Mac!Latest, Mac!Max
  <2> HIDE DEF l
  <2>4. Last(l) /\ l # 0
    BY <1>1, <1>2, <2>2 DEF Last, Left
  <2>5. ASSUME NEW i, Last(i) PROVE i = l
    BY <1>1, <1>2, <2>2, <2>4, <2>5 DEF Last, Left
  <2> QED
    BY <2>3, <2>4, <2>5
<1> QED
  BY <1>3, <1>4

\* The initial state satisfies the invariant.
LEMMA MacBegins == ASSUME Mac!MacAssumption, Mac!Init PROVE MacInv
<1>1. rows \in Seq(MacRow) /\ Len(rows) = 0
  BY DEF Mac!Init
<1>2. Mac!Idle \in MacJobs /\ Mac!Idle.pc = "idle" /\ Mac!Idle.row = 0
  BY DEF Mac!Idle, MacJobs, MacPcs, Mac!Values
<1> QED
  BY <1>1, <1>2
  DEF Mac!Init, Mac!MacAssumption, MacInv, MacTyped, MacRows, MacCommand, MacWriting, Settled,
  Linked,
      Rooted, Left, Last

-----------------------------------------------------------------------------
\* A row gets another status.
LEMMA RowMarked ==
  ASSUME MacTyped, NEW t \in 1 .. Len(rows), NEW s \in Mac!Statuses,
         rows' = [rows EXCEPT ![t].status = s]
  PROVE  /\ rows' \in Seq(MacRow) /\ Len(rows') = Len(rows)
         /\ \A k \in 1 .. Len(rows) : k # t => rows'[k] = rows[k]
         /\ rows'[t].previous = rows[t].previous /\ rows'[t].applied = rows[t].applied
         /\ rows'[t].status = s
<1>1. rows[t] \in MacRow /\ DOMAIN rows = 1 .. Len(rows)
  BY DEF MacTyped
<1>2. rows' = [rows EXCEPT ![t] = [rows[t] EXCEPT !.status = s]]
  OBVIOUS
<1>3. PICK r : r = [rows[t] EXCEPT !.status = s]
  OBVIOUS
<1>4. r \in MacRow /\ r.status = s /\ r.previous = rows[t].previous /\ r.applied = rows[t].applied
  BY <1>1, <1>3 DEF MacRow
<1>5. rows' = [rows EXCEPT ![t] = r]
  BY <1>2, <1>3
<1> QED
  BY <1>1, <1>4, <1>5 DEF MacTyped

\* What the rows say of the value stays true when the last one that is left is
\* marked: as applied when its value was found, as taken back when its original
\* was.
LEMMA MarkSettles ==
  ASSUME MacTyped, MacRows, NEW t, Last(t), NEW s \in Mac!Statuses,
         rows' = [rows EXCEPT ![t].status = s], value' = value, macJob'.row \in 0 .. Len(rows),
         edits = 0 => Settled /\ Linked /\ Rooted,
         edits = 0 /\ s = "applied" => value = rows[t].applied,
         edits = 0 /\ s = "restored" => value = rows[t].previous
  PROVE  rows' \in Seq(MacRow) /\ MacRows' /\ (edits = 0 => Settled' /\ Linked' /\ Rooted')
<1>0. t \in 1 .. Len(rows) /\ Len(rows) \in Nat /\ rows[t].status # "restored"
  BY DEF Last, Left, MacTyped
<1>1. /\ rows' \in Seq(MacRow) /\ Len(rows') = Len(rows)
      /\ \A k \in 1 .. Len(rows) : k # t => rows'[k] = rows[k]
      /\ rows'[t].previous = rows[t].previous /\ rows'[t].applied = rows[t].applied
      /\ rows'[t].status = s
  BY <1>0, RowMarked
<1>2. \A k : Left(k)' <=> Left(k) /\ (k = t => s # "restored")
  BY <1>0, <1>1 DEF Left
<1>3. \A k \in 1 .. Len(rows) : Left(k) => k <= t
  BY DEF Last
<1>4. \A k \in 1 .. Len(rows) :
        rows'[k].previous = rows[k].previous /\ rows'[k].applied = rows[k].applied
  BY <1>1
<1>5. MacRows'
  <2>1. ASSUME NEW i \in 1 .. Len(rows), rows'[i].status \in Mac!Open PROVE Last(i)'
    <3>1. CASE i = t
      BY <1>0, <1>1, <1>2, <1>3, <2>1, <3>1 DEF Last, Mac!Open
    <3>2. CASE i # t
      <4>1. Last(i)
        BY <1>1, <2>1, <3>2 DEF MacRows
      <4> QED
        BY <1>0, <1>3, <3>2, <4>1 DEF Last, Left
    <3> QED
      BY <3>1, <3>2
  <2> QED
    BY <1>1, <2>1 DEF MacRows
<1>6. ASSUME edits = 0 PROVE Settled'
  <2>1. Fits(rows[t], value)
    BY <1>0, <1>6 DEF Settled
  <2>2. ASSUME NEW i \in 1 .. Len(rows), Last(i)' PROVE Fits(rows'[i], value)
    <3>1. CASE s # "restored"
      <4>1. i = t
        <5>1. Left(t)'
          BY <1>0, <1>2, <3>1 DEF Left
        <5> QED
          BY <1>0, <1>1, <1>2, <1>3, <2>2, <5>1 DEF Last
      <4> QED
        BY <1>1, <1>6, <2>1, <4>1 DEF Fits
    <3>2. CASE s = "restored"
      <4>1. Left(i) /\ i < t /\ \A k \in 1 .. Len(rows) : Left(k) => k <= i \/ t <= k
        BY <1>0, <1>1, <1>2, <1>3, <2>2, <3>2 DEF Last
      <4>2. Fits(rows[i], rows[t].previous)
        BY <1>0, <1>6, <4>1 DEF Linked, Last
      <4> QED
        BY <1>1, <1>6, <3>2, <4>1, <4>2
    <3> QED
      BY <3>1, <3>2
  <2>3. ASSUME \A k \in 1 .. Len(rows) : ~Left(k)' PROVE value = rows'[1].previous
    <3>1. s = "restored"
      BY <1>0, <1>2, <2>3 DEF Last
    <3>2. \A k \in 1 .. Len(rows) : Left(k) => t <= k
      BY <1>0, <1>2, <2>3
    <3>3. rows[t].previous = rows[1].previous
      BY <1>0, <1>6, <3>2 DEF Rooted, Last
    <3> QED
      BY <1>0, <1>4, <1>6, <3>1, <3>3
  <2> QED
    BY <1>1, <2>2, <2>3 DEF Settled
<1>7. ASSUME edits = 0 PROVE Linked'
  <2> SUFFICES ASSUME NEW i \in 1 .. Len(rows), NEW j \in 1 .. Len(rows), Left(i)', Left(j)', j < i,
                      \A k \in 1 .. Len(rows) : Left(k)' => k <= j \/ i <= k
               PROVE  Fits(rows'[j], rows'[i].previous)
    BY <1>1 DEF Linked
  <2>1. Left(i) /\ Left(j) /\ i <= t /\ j # t
    BY <1>0, <1>2, <1>3
  <2>2. \A k \in 1 .. Len(rows) : Left(k) => k <= j \/ i <= k
    BY <1>0, <1>2, <2>1
  <2>3. Fits(rows[j], rows[i].previous)
    BY <1>7, <2>1, <2>2 DEF Linked
  <2> QED
    BY <1>1, <1>4, <2>1, <2>3
<1>8. ASSUME edits = 0 PROVE Rooted'
  <2> SUFFICES ASSUME NEW i \in 1 .. Len(rows), Left(i)', \A k \in 1 .. Len(rows) : Left(k)' => i <= k
               PROVE  rows'[i].previous = rows'[1].previous
    BY <1>1 DEF Rooted
  <2>1. Left(i) /\ i <= t
    BY <1>0, <1>2, <1>3
  <2>2. \A k \in 1 .. Len(rows) : Left(k) => i <= k
    BY <1>0, <1>2, <2>1
  <2>3. rows[i].previous = rows[1].previous
    BY <1>8, <2>1, <2>2 DEF Rooted
  <2> QED
    BY <1>0, <1>4, <2>3
<1> QED
  BY <1>1, <1>5, <1>6, <1>7, <1>8

\* The journal and the value stay as they are, and the command goes on.
LEMMA RowsStay ==
  ASSUME MacInv, UNCHANGED <<rows, value, edits>>, macJob' \in MacJobs, macJob'.row \in 0 .. Len(rows),
         MacCommand'
  PROVE  MacInv'
<1>1. Len(rows)' = Len(rows) /\ \A i : (Left(i)' <=> Left(i)) /\ (Last(i)' <=> Last(i))
  BY DEF Left, Last
<1> QED
  BY <1>1 DEF MacInv, MacTyped, MacRows, Settled, Linked, Rooted

\* Nothing is under way.
LEMMA MacEnds ==
  ASSUME MacInv, UNCHANGED <<rows, value, edits>>, macJob' = Mac!Idle PROVE MacInv'
<1>1. macJob' \in MacJobs /\ macJob'.pc = "idle" /\ macJob'.row = 0
  BY DEF Mac!Idle, MacJobs, MacPcs, Mac!Values
<1>2. 0 \in 0 .. Len(rows)
  BY DEF MacInv, MacTyped
<1> QED
  BY <1>1, <1>2, RowsStay DEF MacCommand, MacWriting

\* A command goes on to its next step.
LEMMA MacGoes ==
  ASSUME macJob \in MacJobs, NEW goal \in MacPcs, Mac!Go(goal)
  PROVE  /\ macJob' \in MacJobs /\ macJob'.pc = goal /\ macJob'.row = macJob.row
         /\ macJob'.expected = macJob.expected /\ macJob'.target = macJob.target
         /\ macJob'.restoring = macJob.restoring
BY DEF Mac!Go, MacJobs

\* A row is marked and the command goes on or is over, or the commit fails.
LEMMA MacMarks ==
  ASSUME MacInv, NEW s \in Mac!Statuses, NEW goal \in {"end", "recheck"}, Mac!Mark(s, goal), Last(macJob.row),
         edits = 0 /\ s = "applied" => value = rows[macJob.row].applied,
         edits = 0 /\ s = "restored" => value = rows[macJob.row].previous,
         goal = "recheck" => macJob.pc = "mark" /\ s = "restorePrepared"
  PROVE  MacInv'
<1>1. CASE rows' = rows /\ macJob' = Mac!Idle
  BY <1>1, MacEnds DEF Mac!Mark
<1>2. CASE rows' = [rows EXCEPT ![macJob.row].status = s] /\ Mac!Go(goal)
  <2>0. PICK t : t = macJob.row
    OBVIOUS
  <2>1. value' = value /\ edits' = edits /\ t \in 1 .. Len(rows) /\ Len(rows) \in Nat /\ Last(t)
    BY <2>0 DEF Mac!Mark, Last, Left, MacInv, MacTyped
  <2>2. /\ macJob' \in MacJobs /\ macJob'.pc = goal /\ macJob'.row = t
        /\ macJob'.expected = macJob.expected /\ macJob'.target = macJob.target
        /\ macJob'.restoring = macJob.restoring
    BY <1>2, <2>0, MacGoes DEF MacInv, MacTyped, MacPcs
  <2>3. rows' \in Seq(MacRow) /\ MacRows' /\ (edits = 0 => Settled' /\ Linked' /\ Rooted')
    <3>1. /\ edits = 0 /\ s = "applied" => value = rows[t].applied
          /\ edits = 0 /\ s = "restored" => value = rows[t].previous
          /\ rows' = [rows EXCEPT ![t].status = s] /\ macJob'.row \in 0 .. Len(rows)
      BY <1>2, <2>0, <2>1, <2>2
    <3>2. MacTyped /\ MacRows /\ (edits = 0 => Settled /\ Linked /\ Rooted)
      BY DEF MacInv
    <3> QED
      BY <2>1, <3>1, <3>2, MarkSettles
  <2>4. /\ Len(rows') = Len(rows) /\ rows'[t].status = s
        /\ \A k \in 1 .. Len(rows) : k # t => rows'[k] = rows[k]
        /\ rows'[t].previous = rows[t].previous /\ rows'[t].applied = rows[t].applied
    BY <1>2, <2>0, <2>1, RowMarked DEF MacInv
  <2>5. MacCommand'
    <3>1. CASE goal = "end"
      BY <2>2, <3>1 DEF MacCommand, MacWriting
    <3>2. CASE goal = "recheck"
      <4>1. Last(t)'
        BY <2>1, <2>4, <3>2 DEF Last, Left
      <4>2. /\ macJob.restoring /\ macJob.expected = rows[t].applied /\ macJob.target = rows[t].previous
            /\ s = "restorePrepared"
        BY <2>0, <3>2 DEF MacInv, MacCommand
      <4> QED
        BY <2>2, <2>4, <3>2, <4>1, <4>2 DEF MacCommand, MacWriting
    <3> QED
      BY <3>1, <3>2
  <2> QED
    BY <2>1, <2>2, <2>3, <2>5 DEF MacInv, MacTyped
<1> QED
  BY <1>1, <1>2 DEF Mac!Mark

\* A new row is the last one that is left.
LEMMA MacInserts == ASSUME Mac!MacAssumption, MacInv, Mac!Insert PROVE MacInv'
<1>1. CASE rows' = rows /\ macJob' = Mac!Idle
  BY <1>1, MacEnds DEF Mac!Insert
<1>2. CASE /\ rows' = Append(rows, [previous |-> macJob.expected, applied |-> macJob.target, status |-> "prepared"])
           /\ macJob' = [macJob EXCEPT !.pc = "recheck", !.row = Len(rows) + 1]
  <2>0. PICK n : n = Len(rows) + 1
    OBVIOUS
  <2> DEFINE r == [previous |-> macJob.expected, applied |-> macJob.target, status |-> "prepared"]
  <2>1. macJob \in MacJobs /\ rows \in Seq(MacRow) /\ Len(rows) \in Nat /\ n \in Nat /\ n = Len(rows) + 1
    BY <2>0 DEF MacInv, MacTyped
  <2>2. r \in MacRow /\ r.previous = macJob.expected /\ r.applied = macJob.target /\ r.status = "prepared"
    BY <2>1 DEF MacRow, MacJobs, Mac!Statuses, Mac!Open
  <2> HIDE DEF r
  <2>3. /\ rows' \in Seq(MacRow) /\ Len(rows') = n /\ rows'[n] = r
        /\ \A k \in 1 .. Len(rows) : rows'[k] = rows[k]
    BY <1>2, <2>1, <2>2, AppendProperties DEF r
  <2>4. /\ macJob' \in MacJobs /\ macJob'.pc = "recheck" /\ macJob'.row = n
        /\ macJob'.expected = macJob.expected /\ macJob'.target = macJob.target
        /\ macJob'.restoring = macJob.restoring
    BY <1>2, <2>1 DEF MacJobs, MacPcs
  <2>5. value' = value /\ edits' = edits
    BY DEF Mac!Insert
  <2>6. /\ ~macJob.restoring /\ Len(rows) < MaxHistory
        /\ \A i \in 1 .. Len(rows) : rows[i].status \notin Mac!Open
        /\ edits = 0 => value = macJob.expected
    BY DEF MacInv, MacCommand, Mac!Insert
  <2>7. (\A k \in 1 .. Len(rows) : Left(k)' <=> Left(k)) /\ Left(n)'
    <3>1. 1 .. Len(rows) \subseteq 1 .. n /\ n \in 1 .. n
      BY <2>1
    <3>2. \A k \in 1 .. Len(rows) : Left(k)' <=> Left(k)
      BY <2>3, <3>1 DEF Left
    <3> QED
      BY <2>2, <2>3, <3>1, <3>2 DEF Left
  <2>8. Last(n)' /\ \A i \in 1 .. n : Last(i)' => i = n
    BY <2>1, <2>3, <2>7 DEF Last
  <2>9. MacRows'
    <3>1. ASSUME NEW i \in 1 .. n, rows'[i].status \in Mac!Open PROVE i = n
      BY <2>1, <2>3, <2>6, <3>1
    <3> QED
      BY <2>1, <2>3, <2>4, <2>6, <2>8, <3>1 DEF MacRows, Mac!MacAssumption
  <2>10. MacCommand'
    BY <2>2, <2>3, <2>4, <2>6, <2>8 DEF MacCommand, MacWriting
  <2>11. ASSUME edits = 0 PROVE Settled'
    <3>1. Fits(r, value)
      BY <2>2, <2>6, <2>11 DEF Fits
    <3> QED
      BY <2>1, <2>3, <2>5, <2>7, <2>8, <3>1 DEF Settled
  <2>12. ASSUME edits = 0 PROVE Linked'
    <3> SUFFICES ASSUME NEW i \in 1 .. n, NEW j \in 1 .. n, Left(i)', Left(j)', j < i,
                        \A k \in 1 .. n : Left(k)' => k <= j \/ i <= k
                 PROVE  Fits(rows'[j], rows'[i].previous)
      BY <2>3 DEF Linked
    <3>1. j \in 1 .. Len(rows) /\ Left(j)
      BY <2>1, <2>7
    <3>2. CASE i = n
      <4>1. Last(j)
        BY <2>1, <2>7, <3>1, <3>2 DEF Last
      <4>2. Fits(rows[j], value)
        BY <2>12, <3>1, <4>1 DEF MacInv, Settled
      <4> QED
        BY <2>2, <2>3, <2>6, <2>12, <3>1, <3>2, <4>2
    <3>3. CASE i # n
      <4>1. i \in 1 .. Len(rows) /\ Left(i) /\ \A k \in 1 .. Len(rows) : Left(k) => k <= j \/ i <= k
        BY <2>1, <2>7, <3>3
      <4> QED
        BY <2>3, <2>12, <3>1, <4>1 DEF MacInv, Linked
    <3> QED
      BY <3>2, <3>3
  <2>13. ASSUME edits = 0 PROVE Rooted'
    <3> SUFFICES ASSUME NEW i \in 1 .. n, Left(i)', \A k \in 1 .. n : Left(k)' => i <= k
                 PROVE  rows'[i].previous = rows'[1].previous
      BY <2>3 DEF Rooted
    <3>1. CASE i = n /\ Len(rows) # 0
      <4>1. \A k \in 1 .. Len(rows) : ~Left(k)
        BY <2>1, <2>7, <3>1
      <4>2. value = rows[1].previous
        BY <2>13, <3>1, <4>1 DEF MacInv, Settled
      <4>3. rows'[1] = rows[1]
        BY <2>1, <2>3, <3>1
      <4> QED
        BY <2>2, <2>3, <2>6, <2>13, <3>1, <4>2, <4>3
    <3>2. CASE i = n /\ Len(rows) = 0
      BY <2>1, <3>2
    <3>3. CASE i # n
      <4>1. i \in 1 .. Len(rows) /\ Left(i) /\ \A k \in 1 .. Len(rows) : Left(k) => i <= k
        BY <2>1, <2>7, <3>3
      <4>2. rows'[i] = rows[i] /\ rows'[1] = rows[1]
        BY <2>1, <2>3, <4>1
      <4> QED
        BY <2>13, <4>1, <4>2 DEF MacInv, Rooted
    <3> QED
      BY <3>1, <3>2, <3>3
  <2> QED
    BY <2>3, <2>4, <2>5, <2>9, <2>10, <2>11, <2>12, <2>13 DEF MacInv, MacTyped
<1> QED
  BY <1>1, <1>2 DEF Mac!Insert

\* A command begins with what it read.
LEMMA MacStarts ==
  ASSUME MacInv, Mac!Restore \/ \E target \in {"on", "off"} : Mac!Apply(target) PROVE MacInv'
<1>0. rows \in Seq(MacRow) /\ DOMAIN rows = 1 .. Len(rows) /\ value \in Mac!Values /\ macJob \in MacJobs
  BY DEF MacInv, MacTyped
<1>1. ASSUME NEW target \in {"on", "off"}, Mac!Apply(target) PROVE MacInv'
  <2>1. /\ macJob' \in MacJobs /\ macJob'.pc = "insert" /\ macJob'.row = 0 /\ ~macJob'.restoring
        /\ macJob'.expected = value
    BY <1>0, <1>1 DEF Mac!Apply, Mac!Idle, MacJobs, MacPcs, Mac!Values
  <2>2. UNCHANGED <<rows, value, edits>> /\ 0 \in 0 .. Len(rows)
    BY <1>0, <1>1 DEF Mac!Apply, Mac!Keep
  <2>3. MacCommand'
    BY <1>0, <1>1, <2>1, <2>2 DEF MacCommand, MacWriting, Mac!Apply
  <2> QED
    BY <2>1, <2>2, <2>3, RowsStay
<1>2. CASE Mac!Restore
  <2>0. PICK t : t = Mac!Latest
    OBVIOUS
  <2>1. Last(t) /\ t \in 1 .. Len(rows) /\ rows[t] \in MacRow
    BY <1>0, <1>2, <2>0, LatestIsLast DEF MacInv, Mac!Restore, Last, Left
  <2> DEFINE row == rows[t]
  <2>2. /\ UNCHANGED <<rows, value, edits>>
        /\ macJob' = [pc |-> IF Mac!OriginalPresent(row) THEN "finish" ELSE "mark", row |-> t,
                      expected |-> row.applied, target |-> row.previous, restoring |-> TRUE]
        /\ Mac!WriteBack(row) \/ Mac!OriginalPresent(row)
    BY <1>2, <2>0 DEF Mac!Restore, Mac!Keep
  <2>3. row.applied \in Mac!Values /\ row.previous \in Mac!Values
    BY <2>1 DEF MacRow
  <2>4. /\ macJob' \in MacJobs /\ macJob'.pc \in {"finish", "mark"} /\ macJob'.row = t /\ macJob'.restoring
        /\ macJob'.expected = row.applied /\ macJob'.target = row.previous
        /\ macJob'.pc = "mark" => value = row.applied
    BY <1>0, <2>1, <2>2, <2>3 DEF MacJobs, MacPcs, Mac!WriteBack
  <2>5. Last(t)'
    BY <2>1, <2>2 DEF Last, Left
  <2>6. MacCommand'
    BY <2>2, <2>4, <2>5 DEF MacCommand, MacWriting
  <2> QED
    BY <1>0, <2>1, <2>2, <2>4, <2>6, RowsStay
<1> QED
  BY <1>1, <1>2

\* Every step keeps the invariant.
LEMMA MacSteps == ASSUME Mac!MacAssumption, MacInv, [Mac!Next]_(Mac!vars) PROVE MacInv'
<1>0. /\ rows \in Seq(MacRow) /\ value \in Mac!Values /\ macJob \in MacJobs /\ edits \in Nat
      /\ macJob.row \in 0 .. Len(rows)
  BY DEF MacInv, MacTyped, MacRows
<1>1. ASSUME Mac!Restore \/ \E target \in {"on", "off"} : Mac!Apply(target) PROVE MacInv'
  BY <1>1, MacStarts
<1>2. ASSUME Mac!Insert PROVE MacInv'
  BY <1>2, MacInserts
<1>3. ASSUME Mac!Finish PROVE MacInv'
  <2>1. macJob.pc = "finish" /\ Last(macJob.row) /\ macJob.target = rows[macJob.row].previous
    BY <1>3 DEF Mac!Finish, MacInv, MacCommand
  <2>2. CASE value = macJob.target
    BY <1>3, <2>1, <2>2, MacMarks DEF Mac!Finish, Mac!Statuses, Mac!Open
  <2>3. CASE value # macJob.target
    BY <1>3, <2>3, MacEnds DEF Mac!Finish, Mac!Keep
  <2> QED
    BY <2>2, <2>3
<1>4. ASSUME Mac!Prepare PROVE MacInv'
  <2>1. macJob.pc = "mark" /\ Last(macJob.row) /\ Mac!Mark("restorePrepared", "recheck")
    BY <1>4 DEF Mac!Prepare, MacInv, MacCommand
  <2> QED
    BY <2>1, MacMarks DEF Mac!Statuses, Mac!Open
<1>5. ASSUME Mac!Recheck \/ Mac!ReadBack PROVE MacInv'
  <2>1. PICK goal \in {"write", "done", "failed"} : Mac!Go(goal) /\ (goal = "done" => value = macJob.target)
    BY <1>5 DEF Mac!Recheck, Mac!ReadBack
  <2>2. macJob.pc \in MacWriting /\ UNCHANGED <<rows, value, edits>>
    BY <1>5 DEF Mac!Recheck, Mac!ReadBack, Mac!Keep, MacWriting
  <2>3. /\ macJob' \in MacJobs /\ macJob'.pc = goal /\ macJob'.row = macJob.row
        /\ macJob'.expected = macJob.expected /\ macJob'.target = macJob.target
        /\ macJob'.restoring = macJob.restoring
    BY <1>0, <2>1, MacGoes DEF MacPcs
  <2>4. Last(macJob.row)' <=> Last(macJob.row)
    BY <2>2, <2>3 DEF Last, Left
  <2>5. MacCommand'
    BY <2>1, <2>2, <2>3, <2>4 DEF MacInv, MacCommand, MacWriting
  <2> QED
    BY <1>0, <2>2, <2>3, <2>5, RowsStay
<1>6. ASSUME Mac!Write PROVE MacInv'
  <2>1. PICK goal \in {"readBack", "failed"} : Mac!Go(goal)
    BY <1>6 DEF Mac!Write
  <2>2. /\ macJob.pc = "write" /\ UNCHANGED <<rows, edits>> /\ value' \in {value, macJob.target}
        /\ value' \in Mac!Values
    BY <1>0, <1>6 DEF Mac!Write, MacJobs
  <2>3. /\ macJob' \in MacJobs /\ macJob'.pc = goal /\ macJob'.row = macJob.row
        /\ macJob'.expected = macJob.expected /\ macJob'.target = macJob.target
        /\ macJob'.restoring = macJob.restoring
    BY <1>0, <2>1, MacGoes DEF MacPcs
  <2>4. Len(rows)' = Len(rows) /\ \A i : (Left(i)' <=> Left(i)) /\ (Last(i)' <=> Last(i))
    BY <2>2 DEF Last, Left
  <2>5. PICK t : t = macJob.row /\ Last(t)
    BY <2>2 DEF MacInv, MacCommand, MacWriting
  <2>6. MacCommand'
    <3>1. Last(macJob.row)'
      BY <2>3, <2>4, <2>5
    <3> QED
      BY <2>1, <2>2, <2>3, <3>1 DEF MacInv, MacCommand, MacWriting
  <2>7. ASSUME edits = 0 PROVE Settled'
    <3>1. /\ rows[t].status \in Mac!Open /\ macJob.target \in {rows[t].applied, rows[t].previous}
          /\ t \in 1 .. Len(rows) /\ Left(t)
      BY <2>2, <2>5 DEF MacInv, MacCommand, MacWriting, Mac!Open, Last, Left
    <3>2. Fits(rows[t], value)
      BY <2>5, <2>7, <3>1 DEF MacInv, Settled
    <3>3. Fits(rows[t], value')
      BY <2>2, <3>1, <3>2 DEF Fits, Mac!Open
    <3>4. \A i \in 1 .. Len(rows) : Last(i) => i = t
      BY <1>0, <2>5, <3>1 DEF Last
    <3> QED
      BY <2>2, <2>4, <3>1, <3>3, <3>4 DEF Settled
  <2> QED
    BY <1>0, <2>2, <2>3, <2>4, <2>6, <2>7 DEF MacInv, MacTyped, MacRows, Linked, Rooted
<1>7. ASSUME Mac!Done \/ Mac!Failed PROVE MacInv'
  <2>1. PICK s \in {"restored", "applied", "restoreFailed", "failed"} :
          /\ Mac!Mark(s, "end") /\ (s \in {"restored", "applied"} => macJob.pc = "done")
          /\ s = "restored" => macJob.restoring
          /\ s = "applied" => ~macJob.restoring
    BY <1>7 DEF Mac!Done, Mac!Failed
  <2>2. macJob.pc \in {"done", "failed"}
    BY <1>7 DEF Mac!Done, Mac!Failed
  <2>3. /\ Last(macJob.row)
        /\ macJob.restoring => macJob.target = rows[macJob.row].previous
        /\ ~macJob.restoring => macJob.target = rows[macJob.row].applied
        /\ edits = 0 /\ macJob.pc = "done" => value = macJob.target
    BY <2>2 DEF MacInv, MacCommand, MacWriting
  <2>4. s \in Mac!Statuses
    BY DEF Mac!Statuses, Mac!Open
  <2> QED
    BY <2>1, <2>3, <2>4, MacMarks
<1>8. ASSUME Mac!Return \/ Mac!Crash PROVE MacInv'
  BY <1>8, MacEnds DEF Mac!Return, Mac!Crash, Mac!Keep
<1>9. ASSUME Mac!Edit PROVE MacInv'
  <2>1. UNCHANGED <<rows, macJob>> /\ edits' = edits + 1 /\ edits' # 0 /\ value' \in Mac!Values
    BY <1>0, <1>9 DEF Mac!Edit
  <2>2. Len(rows)' = Len(rows) /\ \A i : Last(i)' <=> Last(i)
    BY <2>1 DEF Last, Left
  <2>3. Last(macJob.row)' <=> Last(macJob.row)
    BY <2>1 DEF Last, Left
  <2>4. MacCommand'
    BY <2>1, <2>3 DEF MacInv, MacCommand
  <2>5. MacRows'
    BY <2>1, <2>2 DEF MacInv, MacRows
  <2> QED
    BY <1>0, <2>1, <2>4, <2>5 DEF MacInv, MacTyped
<1>10. CASE UNCHANGED Mac!vars
  <2>1. UNCHANGED <<rows, value, edits>> /\ macJob' = macJob
    BY <1>10 DEF Mac!vars
  <2>2. Last(macJob.row)' <=> Last(macJob.row)
    BY <2>1 DEF Last, Left
  <2>3. MacCommand'
    BY <2>1, <2>2 DEF MacInv, MacCommand
  <2> QED
    BY <1>0, <2>1, <2>3, RowsStay
<1> QED
  BY <1>1, <1>2, <1>3, <1>4, <1>5, <1>6, <1>7, <1>8, <1>9, <1>10 DEF Mac!Next, Mac!Steps

\* What the invariant says of the journal.
LEMMA MacTypes == MacInv => Mac!TypeOK
<1> SUFFICES ASSUME MacInv PROVE Mac!TypeOK
  OBVIOUS
<1>1. \A i \in DOMAIN rows : rows[i] \in MacRow
  BY DEF MacInv, MacTyped
<1> QED
  BY <1>1 DEF MacInv, MacTyped, MacRows, MacRow, Mac!TypeOK

\* The types, and the limit of the journal.
THEOREM MacTypesHold == ASSUME Mac!MacAssumption PROVE Mac!Spec => []Mac!TypeOK
BY MacTypes, MacBegins, MacSteps, PTL DEF Mac!Spec

\* The last row that is left can be taken back, and with the last one the
\* original value is back.
LEMMA NothingIsStranded == MacInv => Mac!NeverStranded /\ Mac!OriginalComesBack
<1> SUFFICES ASSUME MacInv PROVE Mac!NeverStranded /\ Mac!OriginalComesBack
  OBVIOUS
<1>0. rows \in Seq(MacRow) /\ DOMAIN rows = 1 .. Len(rows) /\ Len(rows) \in Nat
  BY DEF MacInv, MacTyped
<1>1. /\ Mac!Latest # 0 => Last(Mac!Latest) /\ Mac!Latest \in 1 .. Len(rows)
      /\ Mac!Latest = 0 => \A i \in 1 .. Len(rows) : ~Left(i)
      /\ \A i : Last(i) => Mac!Latest = i
  BY LatestIsLast DEF MacInv, Last, Left
<1>2. Mac!NeverStranded
  BY <1>1 DEF MacInv, Settled, Fits, Mac!NeverStranded, Mac!WriteBack, Mac!OriginalPresent
<1>3. edits = 0 /\ rows # <<>> /\ Mac!Latest = 0 => value = rows[1].previous
  <2>1. rows # <<>> => Len(rows) # 0
    BY <1>0
  <2> QED
    BY <1>1, <2>1 DEF MacInv, Settled
<1>4. \A i \in DOMAIN rows : rows[i].status \in Mac!Open => i = Mac!Latest
  BY <1>0, <1>1 DEF MacInv, MacRows
<1> QED
  BY <1>2, <1>3, <1>4 DEF Mac!OriginalComesBack

\* However the commands ended, a change can be taken back as long as nobody else
\* changed the value, and taking back all of them brings back the value from
\* before the first one (apply, restore, execute_write).
THEOREM UndoSafety ==
  ASSUME Mac!MacAssumption
  PROVE  Mac!Spec => [](Mac!NeverStranded /\ Mac!OriginalComesBack)
BY NothingIsStranded, MacBegins, MacSteps, PTL DEF Mac!Spec

-----------------------------------------------------------------------------
(* The entry in the configuration of another program (McpRegistration), for  *)
(* any installations and any number of changes by others and of restarts.    *)

CONSTANTS Installs, MaxForeign, MaxRestarts
VARIABLES entry, main, backup, install, mcpJob, foreign, restarts

Mcp == INSTANCE McpRegistration WITH MaxChanges <- MaxForeign, job <- mcpJob, changes <- foreign

McpRegister == {"add", "check", "temp", "dropBackup", "setAside", "place", "putBack", "tidy", "undoLook", "undoRemove", "undoAbsent"}
McpForget == {"forgetBackup", "forgetMain"}
McpPcs == {"idle", "look", "remove", "absent", "undoAdd", "undoCheck", "end"} \cup McpRegister \cup McpForget
McpAnswers == {"", "same", "refused", "failed", "registered", "restored", "not restored", "unregistered"}
McpJobs == [pc : McpPcs, op : {"", "register", "unregister"}, saw : Mcp!Entries, rec : Mcp!Receipts,
            prev : Mcp!Receipts, disturbed : BOOLEAN, answer : McpAnswers]
McpTyped ==
  /\ entry \in Mcp!Entries /\ main \in Mcp!Receipts /\ backup \in Mcp!Receipts
  /\ install \in Installs /\ mcpJob \in McpJobs
  /\ mcpJob.pc \in McpRegister => mcpJob.op = "register"
  /\ mcpJob.pc \in McpForget => mcpJob.op = "unregister"
  /\ mcpJob.pc # "idle" => mcpJob.op # ""

\* The record that is read is the one the command began with until the command
\* replaces or removes it, whatever lies beside it.
McpFiles ==
  /\ mcpJob.pc \in {"dropBackup", "setAside"} => main # Mcp!NoReceipt
  /\ mcpJob.pc \in {"place", "putBack"} => main = Mcp!NoReceipt
  /\ mcpJob.pc = "tidy" => main = install
  /\ mcpJob.pc = "forgetMain" => backup = Mcp!NoReceipt /\ main \in {Mcp!NoReceipt, mcpJob.rec}
  /\ mcpJob.pc \notin {"idle", "tidy", "forgetMain", "end"} => Mcp!Loaded = mcpJob.rec

\* The entry to put back is the one that was seen, and it was the app's own.
McpPrevious ==
  /\ mcpJob.pc = "look" => mcpJob.prev = Mcp!NoReceipt
  /\ mcpJob.pc \notin {"idle", "look", "end"} =>
       mcpJob.saw = mcpJob.prev.place /\ mcpJob.prev \in {Mcp!NoReceipt, mcpJob.rec}

\* The entry as a command that nobody disturbs knows it.
McpEntry ==
  ~mcpJob.disturbed =>
    /\ mcpJob.pc = "remove" => entry = mcpJob.prev.place /\ mcpJob.prev # Mcp!NoReceipt
    /\ mcpJob.pc \in {"add", "undoAdd", "forgetBackup", "forgetMain"} => entry = "none"
    /\ mcpJob.pc \in {"temp", "dropBackup", "setAside", "place", "tidy", "undoRemove"} => entry = install.place

McpInv == McpTyped /\ McpFiles /\ McpPrevious /\ McpEntry /\ Mcp!AnswerIsTrue
\* The record of nothing is not that of an installation.
LEMMA McpPlaces ==
  ASSUME Mcp!McpAssumption
  PROVE  /\ \A i \in Installs : i # Mcp!NoReceipt /\ i.place \notin {"none", "other"} /\ i.place \in Mcp!Entries
         /\ Mcp!NoReceipt.place = "none"
         /\ \A r \in Mcp!Receipts : r.place \in Mcp!Entries /\ r.place # "other" /\ (r.place = "none" => r = Mcp!NoReceipt)
<1>1. Mcp!NoReceipt.place = "none"
  BY DEF Mcp!NoReceipt
<1>2. \A i \in Installs : i.place \notin {"none", "other"}
  BY DEF Mcp!McpAssumption
<1> QED
  BY <1>1, <1>2 DEF Mcp!Entries, Mcp!Receipts

\* The initial state satisfies the invariant.
LEMMA McpBegins == ASSUME Mcp!McpAssumption, Mcp!Init PROVE McpInv
<1>1. mcpJob \in McpJobs /\ mcpJob.pc = "idle"
  BY DEF Mcp!Init, Mcp!Idle, McpJobs, McpPcs, McpAnswers, Mcp!Entries, Mcp!Receipts
<1> QED
  BY <1>1
  DEF Mcp!Init, McpInv, McpTyped, McpFiles, McpPrevious, McpEntry, McpRegister, McpForget,
  Mcp!AnswerIsTrue,
      Mcp!At, Mcp!Entries, Mcp!Receipts

-----------------------------------------------------------------------------
\* The command goes on, or ends.
LEMMA McpGoes ==
  ASSUME McpTyped, NEW goal \in McpPcs, Mcp!Go(goal)
  PROVE  /\ mcpJob' \in McpJobs /\ mcpJob'.pc = goal /\ mcpJob'.op = mcpJob.op /\ mcpJob'.saw = mcpJob.saw
         /\ mcpJob'.rec = mcpJob.rec /\ mcpJob'.prev = mcpJob.prev
         /\ mcpJob'.disturbed = mcpJob.disturbed /\ mcpJob'.answer = mcpJob.answer
BY DEF McpTyped, McpJobs, Mcp!Go

LEMMA McpEnds ==
  ASSUME McpTyped, NEW a \in McpAnswers, Mcp!End(a)
  PROVE  /\ mcpJob' \in McpJobs /\ mcpJob'.pc = "end" /\ mcpJob'.op = mcpJob.op /\ mcpJob'.saw = mcpJob.saw
         /\ mcpJob'.rec = mcpJob.rec /\ mcpJob'.prev = mcpJob.prev
         /\ mcpJob'.disturbed = mcpJob.disturbed /\ mcpJob'.answer = a
<1>1. "end" \in McpPcs
  BY DEF McpPcs
<1> QED
  BY <1>1 DEF McpTyped, McpJobs, Mcp!End

\* A command that ends without success: nothing is said of the entry.
LEMMA McpGivesUp ==
  ASSUME McpInv, NEW a \in {"same", "refused", "failed", "not restored"}, Mcp!End(a),
         mcpJob.pc # "idle", entry' \in Mcp!Entries, UNCHANGED <<main, backup, install>>
  PROVE  McpInv'
<1>1. a \in McpAnswers
  BY DEF McpAnswers
<1>2. /\ mcpJob' \in McpJobs /\ mcpJob'.pc = "end" /\ mcpJob'.op = mcpJob.op /\ mcpJob'.answer = a
  BY <1>1, McpEnds DEF McpInv
<1> QED
  BY <1>2
  DEF McpInv, McpTyped, McpFiles, McpPrevious, McpEntry, McpRegister, McpForget, Mcp!AnswerIsTrue,
  Mcp!At

\* The command goes on to a step before which nothing of the record has changed.
LEMMA McpGoesOn ==
  ASSUME McpInv, NEW goal \in McpPcs, Mcp!Go(goal), entry' \in Mcp!Entries, UNCHANGED <<main, backup, install>>,
         mcpJob.pc \notin {"idle", "look", "tidy", "forgetMain", "end"},
         goal \notin {"idle", "look", "dropBackup", "setAside", "place", "putBack", "tidy", "forgetMain", "end"},
         goal \in McpRegister => mcpJob.op = "register",
         goal \in McpForget => mcpJob.op = "unregister",
         ~mcpJob.disturbed /\ goal = "remove" => entry' = mcpJob.prev.place /\ mcpJob.prev # Mcp!NoReceipt,
         ~mcpJob.disturbed /\ goal \in {"add", "undoAdd", "forgetBackup"} => entry' = "none",
         ~mcpJob.disturbed /\ goal \in {"temp", "undoRemove"} => entry' = install.place
  PROVE  McpInv'
<1>1. /\ mcpJob' \in McpJobs /\ mcpJob'.pc = goal /\ mcpJob'.op = mcpJob.op /\ mcpJob'.saw = mcpJob.saw
      /\ mcpJob'.rec = mcpJob.rec /\ mcpJob'.prev = mcpJob.prev
      /\ mcpJob'.disturbed = mcpJob.disturbed
  BY McpGoes DEF McpInv
<1>2. McpTyped'
  BY <1>1 DEF McpInv, McpTyped, Mcp!Entries, Mcp!Receipts
<1>3. McpFiles'
  BY <1>1 DEF McpInv, McpFiles, Mcp!Loaded, Mcp!NoReceipt
<1>4. McpPrevious'
  BY <1>1 DEF McpInv, McpPrevious, Mcp!NoReceipt
<1>5. McpEntry'
  BY <1>1 DEF McpInv, McpEntry, Mcp!NoReceipt
<1>6. Mcp!AnswerIsTrue'
  BY <1>1 DEF Mcp!AnswerIsTrue, Mcp!At
<1> QED
  BY <1>2, <1>3, <1>4, <1>5, <1>6 DEF McpInv

-----------------------------------------------------------------------------
\* The decision of a command keeps the invariant.
LEMMA McpLooks ==
  ASSUME Mcp!McpAssumption, McpInv, Mcp!Look
  PROVE  McpInv'
<1>0. mcpJob.pc = "look" /\ UNCHANGED <<entry, main, backup, install>>
  BY DEF Mcp!Look, Mcp!At, Mcp!Query, Mcp!Files, Mcp!Outside
<1>1. Mcp!Decide(entry) \/ Mcp!End("failed")
  BY DEF Mcp!Look, Mcp!Query
<1>2. entry \in Mcp!Entries /\ mcpJob \in McpJobs
  BY DEF McpInv, McpTyped
<1>3. /\ mcpJob.rec \in Mcp!Receipts /\ mcpJob.prev = Mcp!NoReceipt /\ Mcp!NoReceipt.place = "none"
      /\ mcpJob.op \in {"", "register", "unregister"} /\ Mcp!Loaded = mcpJob.rec
  BY <1>0, <1>2 DEF McpJobs, McpInv, McpPrevious, McpFiles, Mcp!NoReceipt
<1>4. CASE Mcp!End("failed") \/ Mcp!End("refused")
  BY <1>0, <1>2, <1>4, McpGivesUp
<1>5. CASE /\ Mcp!Matches(mcpJob.rec, entry)
           /\ mcpJob' = [mcpJob EXCEPT !.pc = "end", !.saw = entry, !.answer = "same"]
  <2>1. mcpJob' \in McpJobs /\ mcpJob'.pc = "end" /\ mcpJob'.op = mcpJob.op /\ mcpJob'.answer = "same"
    BY <1>2, <1>5 DEF McpJobs, McpPcs, McpAnswers
  <2> QED
    BY <1>0, <2>1
    DEF McpInv, McpTyped, McpFiles, McpPrevious, McpEntry, McpRegister, McpForget, Mcp!AnswerIsTrue,
    Mcp!At,
        Mcp!Entries, Mcp!Receipts
<1>6. ASSUME NEW goal \in {"add", "forgetBackup"}, entry = "none", goal = "add" => mcpJob.op = "register",
             goal = "forgetBackup" => mcpJob.op = "unregister",
             mcpJob' = [mcpJob EXCEPT !.pc = goal, !.saw = entry]
      PROVE  McpInv'
  <2>1. /\ mcpJob' \in McpJobs /\ mcpJob'.pc = goal /\ mcpJob'.saw = "none" /\ mcpJob'.op = mcpJob.op
        /\ mcpJob'.rec = mcpJob.rec /\ mcpJob'.prev = mcpJob.prev
    <3>1. goal \in McpPcs
      BY DEF McpPcs, McpRegister, McpForget
    <3>2. mcpJob' = [[mcpJob EXCEPT !.pc = goal] EXCEPT !.saw = "none"]
      BY <1>6
    <3> QED
      BY <1>2, <1>6, <3>1, <3>2 DEF McpJobs
  <2>2. mcpJob'.pc \in {"add", "forgetBackup"}
    BY <2>1
  <2>3. McpTyped'
    BY <1>0, <1>6, <2>1 DEF McpInv, McpTyped, McpRegister, McpForget, Mcp!Entries, Mcp!Receipts
  <2>4. McpFiles'
    BY <1>0, <1>3, <2>1, <2>2 DEF McpFiles, Mcp!Loaded, Mcp!NoReceipt
  <2>5. McpPrevious' /\ McpEntry' /\ Mcp!AnswerIsTrue'
    BY <1>0, <1>3, <1>6, <2>1, <2>2 DEF McpPrevious, McpEntry, Mcp!AnswerIsTrue, Mcp!At,
       Mcp!NoReceipt
  <2> QED
    BY <2>3, <2>4, <2>5 DEF McpInv
<1>7. CASE /\ Mcp!Matches(mcpJob.rec, entry)
           /\ mcpJob' = [mcpJob EXCEPT !.pc = "remove", !.saw = entry, !.prev = mcpJob.rec]
  <2>1. /\ mcpJob' \in McpJobs /\ mcpJob'.pc = "remove" /\ mcpJob'.saw = entry /\ mcpJob'.op = mcpJob.op
        /\ mcpJob'.rec = mcpJob.rec /\ mcpJob'.prev = mcpJob.rec
    BY <1>2, <1>7 DEF McpJobs, McpPcs
  <2>2. mcpJob.rec # Mcp!NoReceipt /\ entry = mcpJob.rec.place
    BY <1>7 DEF Mcp!Matches
  <2> QED
    BY <1>0, <1>3, <2>1, <2>2
    DEF McpInv, McpTyped, McpFiles, McpPrevious, McpEntry, McpRegister, McpForget, Mcp!AnswerIsTrue,
    Mcp!At,
        Mcp!Entries, Mcp!Receipts, Mcp!Loaded, Mcp!NoReceipt
<1>8. CASE mcpJob.op = "register" /\ Mcp!Decide(entry)
  BY <1>4, <1>5, <1>6, <1>7, <1>8 DEF Mcp!Decide
<1>9. CASE mcpJob.op # "register" /\ Mcp!Decide(entry)
  <2>1. mcpJob.op = "unregister"
    BY <1>0, <1>3, <1>9 DEF McpInv, McpTyped
  <2> QED
    BY <2>1, <1>4, <1>5, <1>6, <1>7, <1>9 DEF Mcp!Decide
<1> QED
  BY <1>1, <1>4, <1>8, <1>9

\* What a query may answer, as a disjunction.
LEMMA McpQueries ==
  /\ Mcp!Absent => /\ mcpJob.pc = "absent" /\ UNCHANGED <<entry, main, backup, install>>
                   /\ \/ Mcp!End("failed")
                      \/ entry = "none" /\ mcpJob.op = "register" /\ Mcp!Go("add")
                      \/ entry = "none" /\ mcpJob.op # "register" /\ Mcp!Go("forgetBackup")
  /\ Mcp!Check => /\ mcpJob.pc = "check" /\ UNCHANGED <<entry, main, backup, install>>
                  /\ \/ entry = install.place /\ Mcp!Go("temp")
                     \/ Mcp!Go("undoLook")
  /\ Mcp!UndoLook => /\ mcpJob.pc = "undoLook" /\ UNCHANGED <<entry, main, backup, install>>
                     /\ \/ entry = install.place /\ Mcp!Go("undoRemove")
                        \/ entry = "none" /\ Mcp!Go("undoAdd")
                        \/ Mcp!End("not restored")
  /\ Mcp!UndoAbsent => /\ mcpJob.pc = "undoAbsent" /\ UNCHANGED <<entry, main, backup, install>>
                       /\ \/ entry = "none" /\ Mcp!Go("undoAdd")
                          \/ Mcp!End("not restored")
  /\ Mcp!UndoCheck => /\ \/ mcpJob.pc = "undoCheck"
                         \/ mcpJob.pc = "undoAdd" /\ mcpJob.prev = Mcp!NoReceipt
                      /\ UNCHANGED <<entry, main, backup, install>>
                      /\ \/ entry = mcpJob.prev.place /\ Mcp!End("restored")
                         \/ Mcp!End("not restored")
<1>1. Mcp!Absent => /\ mcpJob.pc = "absent" /\ UNCHANGED <<entry, main, backup, install>>
                    /\ \/ Mcp!End("failed")
                       \/ entry = "none" /\ mcpJob.op = "register" /\ Mcp!Go("add")
                       \/ entry = "none" /\ mcpJob.op # "register" /\ Mcp!Go("forgetBackup")
  BY DEF Mcp!Absent, Mcp!Query, Mcp!At, Mcp!Files, Mcp!Outside
<1>2. Mcp!Check => /\ mcpJob.pc = "check" /\ UNCHANGED <<entry, main, backup, install>>
                   /\ \/ entry = install.place /\ Mcp!Go("temp")
                      \/ Mcp!Go("undoLook")
  BY DEF Mcp!Check, Mcp!Query, Mcp!At, Mcp!Files, Mcp!Outside, Mcp!Matches
<1>3. Mcp!UndoLook => /\ mcpJob.pc = "undoLook" /\ UNCHANGED <<entry, main, backup, install>>
                      /\ \/ entry = install.place /\ Mcp!Go("undoRemove")
                         \/ entry = "none" /\ Mcp!Go("undoAdd")
                         \/ Mcp!End("not restored")
  BY DEF Mcp!UndoLook, Mcp!Query, Mcp!At, Mcp!Files, Mcp!Outside, Mcp!Matches
<1>4. Mcp!UndoAbsent => /\ mcpJob.pc = "undoAbsent" /\ UNCHANGED <<entry, main, backup, install>>
                        /\ \/ entry = "none" /\ Mcp!Go("undoAdd")
                           \/ Mcp!End("not restored")
  BY DEF Mcp!UndoAbsent, Mcp!Query, Mcp!At, Mcp!Files, Mcp!Outside
<1>5. Mcp!UndoCheck => /\ \/ mcpJob.pc = "undoCheck"
                          \/ mcpJob.pc = "undoAdd" /\ mcpJob.prev = Mcp!NoReceipt
                       /\ UNCHANGED <<entry, main, backup, install>>
                       /\ \/ entry = mcpJob.prev.place /\ Mcp!End("restored")
                          \/ Mcp!End("not restored")
  BY DEF Mcp!UndoCheck, Mcp!Query, Mcp!At, Mcp!Files, Mcp!Outside
<1> QED
  BY <1>1, <1>2, <1>3, <1>4, <1>5

\* A change of the configuration, with what is answered.
LEMMA McpCommands ==
  ASSUME Mcp!McpAssumption, McpInv
  PROVE  /\ Mcp!Remove => /\ mcpJob.pc = "remove" /\ entry' \in {entry, "none"} /\ entry' \in Mcp!Entries
                          /\ UNCHANGED <<main, backup, install>>
                          /\ Mcp!Go("absent") \/ Mcp!End("failed")
         /\ Mcp!Add => /\ mcpJob.pc = "add" /\ entry' \in {entry, install.place} /\ entry' \in Mcp!Entries
                       /\ UNCHANGED <<main, backup, install>>
                       /\ Mcp!Go("check") \/ Mcp!Go("undoLook")
         /\ Mcp!UndoRemove => /\ mcpJob.pc = "undoRemove" /\ entry' \in {entry, "none"} /\ entry' \in Mcp!Entries
                              /\ UNCHANGED <<main, backup, install>>
                              /\ Mcp!Go("undoAbsent") \/ Mcp!End("not restored")
         /\ Mcp!UndoAdd => /\ mcpJob.pc = "undoAdd" /\ mcpJob.prev # Mcp!NoReceipt
                           /\ entry' \in {entry, mcpJob.prev.place} /\ entry' \in Mcp!Entries
                           /\ UNCHANGED <<main, backup, install>>
                           /\ Mcp!Go("undoCheck") \/ Mcp!End("not restored")
<1>1. entry \in Mcp!Entries /\ install.place \in Mcp!Entries /\ "none" \in Mcp!Entries
  BY McpPlaces DEF McpInv, McpTyped, Mcp!Entries
<1>2. mcpJob.prev.place \in Mcp!Entries
  <2>1. mcpJob.prev \in Mcp!Receipts
    BY DEF McpInv, McpTyped, McpJobs
  <2> QED
    BY <2>1, McpPlaces
<1> QED
  BY <1>1, <1>2
  DEF Mcp!Remove, Mcp!Add, Mcp!UndoRemove, Mcp!UndoAdd, Mcp!Command, Mcp!At, Mcp!Files, Mcp!Outside

-----------------------------------------------------------------------------
\* Queries and changes of the configuration keep the invariant.
LEMMA McpAsks ==
  ASSUME Mcp!McpAssumption, McpInv,
         Mcp!Remove \/ Mcp!Absent \/ Mcp!Add \/ Mcp!Check \/ Mcp!UndoLook \/ Mcp!UndoRemove \/ Mcp!UndoAbsent
           \/ Mcp!UndoAdd \/ Mcp!UndoCheck
  PROVE  McpInv'
<1> DEFINE Quiet == entry' \in Mcp!Entries /\ UNCHANGED <<main, backup, install>>
<1>1. entry \in Mcp!Entries /\ mcpJob \in McpJobs /\ mcpJob.op \in {"", "register", "unregister"}
  BY DEF McpInv, McpTyped, McpJobs
<1>2. (mcpJob.pc \in McpRegister => mcpJob.op = "register") /\ (mcpJob.pc # "idle" => mcpJob.op # "")
  BY DEF McpInv, McpTyped
<1>3. ASSUME NEW a \in {"failed", "not restored"}, mcpJob.pc # "idle", Quiet, Mcp!End(a)
      PROVE  McpInv'
  BY <1>3, McpGivesUp
<1>4. ASSUME NEW goal \in {"absent", "check", "undoLook", "undoAbsent", "undoCheck"}, Quiet, Mcp!Go(goal),
             mcpJob.pc \in {"remove", "add", "check", "undoLook", "undoRemove", "undoAbsent", "undoAdd"},
             goal \in {"check", "undoLook", "undoAbsent"} => mcpJob.pc \in McpRegister
      PROVE  McpInv'
  BY <1>2, <1>4, McpGoesOn DEF McpPcs, McpRegister, McpForget
<1>5. ASSUME NEW goal \in {"add", "forgetBackup", "undoAdd"}, Quiet, Mcp!Go(goal), entry' = "none",
             mcpJob.pc \in {"absent", "undoLook", "undoAbsent"},
             goal = "add" => mcpJob.op = "register", goal = "forgetBackup" => mcpJob.op = "unregister"
      PROVE  McpInv'
  BY <1>5, McpGoesOn DEF McpPcs, McpRegister, McpForget
<1>6. ASSUME NEW goal \in {"temp", "undoRemove"}, Quiet, Mcp!Go(goal), entry' = install.place,
             mcpJob.pc \in {"check", "undoLook"}
      PROVE  McpInv'
  BY <1>2, <1>6, McpGoesOn DEF McpPcs, McpRegister, McpForget
<1>7. CASE Mcp!Remove
  <2>1. mcpJob.pc = "remove" /\ Quiet /\ (Mcp!Go("absent") \/ Mcp!End("failed"))
    BY <1>7, McpCommands
  <2> QED
    BY <1>3, <1>4, <2>1
<1>8. CASE Mcp!Add
  <2>1. mcpJob.pc = "add" /\ Quiet /\ (Mcp!Go("check") \/ Mcp!Go("undoLook"))
    BY <1>8, McpCommands
  <2> QED
    BY <1>4, <2>1 DEF McpRegister
<1>9. CASE Mcp!UndoRemove
  <2>1. mcpJob.pc = "undoRemove" /\ Quiet /\ (Mcp!Go("undoAbsent") \/ Mcp!End("not restored"))
    BY <1>9, McpCommands
  <2> QED
    BY <1>3, <1>4, <2>1 DEF McpRegister
<1>10. CASE Mcp!UndoAdd
  <2>1. mcpJob.pc = "undoAdd" /\ Quiet /\ (Mcp!Go("undoCheck") \/ Mcp!End("not restored"))
    BY <1>10, McpCommands
  <2> QED
    BY <1>3, <1>4, <2>1
<1>11. CASE Mcp!Absent
  <2>1. /\ mcpJob.pc = "absent" /\ Quiet
        /\ \/ Mcp!End("failed")
           \/ entry = "none" /\ entry' = "none" /\ mcpJob.op = "register" /\ Mcp!Go("add")
           \/ entry = "none" /\ entry' = "none" /\ mcpJob.op = "unregister" /\ Mcp!Go("forgetBackup")
    BY <1>1, <1>2, <1>11, McpQueries
  <2> QED
    BY <1>3, <1>5, <2>1
<1>12. CASE Mcp!Check
  <2>1. /\ mcpJob.pc = "check" /\ Quiet
        /\ (entry' = install.place /\ Mcp!Go("temp")) \/ Mcp!Go("undoLook")
    BY <1>1, <1>12, McpQueries
  <2> QED
    BY <1>4, <1>6, <2>1 DEF McpRegister
<1>13. CASE Mcp!UndoLook
  <2>1. /\ mcpJob.pc = "undoLook" /\ Quiet
        /\ \/ entry' = install.place /\ Mcp!Go("undoRemove")
           \/ entry' = "none" /\ Mcp!Go("undoAdd")
           \/ Mcp!End("not restored")
    BY <1>1, <1>13, McpQueries
  <2> QED
    BY <1>3, <1>5, <1>6, <2>1
<1>14. CASE Mcp!UndoAbsent
  <2>1. /\ mcpJob.pc = "undoAbsent" /\ Quiet
        /\ (entry' = "none" /\ Mcp!Go("undoAdd")) \/ Mcp!End("not restored")
    BY <1>1, <1>14, McpQueries
  <2> QED
    BY <1>3, <1>5, <2>1
<1>15. CASE Mcp!UndoCheck
  <2>1. /\ mcpJob.pc \in {"undoCheck", "undoAdd"} /\ Quiet
        /\ (entry = mcpJob.prev.place /\ entry' = entry /\ Mcp!End("restored")) \/ Mcp!End("not restored")
    BY <1>1, <1>15, McpQueries
  <2>2. CASE entry = mcpJob.prev.place /\ entry' = entry /\ Mcp!End("restored")
    <3>1. /\ mcpJob' \in McpJobs /\ mcpJob'.pc = "end" /\ mcpJob'.op = mcpJob.op /\ mcpJob'.saw = mcpJob.saw
          /\ mcpJob'.rec = mcpJob.rec /\ mcpJob'.answer = "restored"
      BY <2>2, McpEnds DEF McpInv, McpAnswers
    <3>2. entry' = mcpJob'.saw /\ Mcp!Loaded' = mcpJob'.rec
      BY <2>1, <2>2, <3>1 DEF McpInv, McpPrevious, McpFiles, Mcp!Loaded, Mcp!NoReceipt
    <3> QED
      BY <2>1, <3>1, <3>2
      DEF McpInv, McpTyped, McpFiles, McpPrevious, McpEntry, McpRegister, McpForget,
      Mcp!AnswerIsTrue, Mcp!At,
          Mcp!Entries, Mcp!Receipts
  <2> QED
    BY <1>3, <2>1, <2>2
<1> QED
  BY <1>7, <1>8, <1>9, <1>10, <1>11, <1>12, <1>13, <1>14, <1>15

-----------------------------------------------------------------------------
\* A step of save_receipt or remove_receipt that goes on.
LEMMA McpSaves ==
  ASSUME McpInv, NEW goal \in McpRegister, Mcp!Go(goal), UNCHANGED <<entry, install>>,
         mcpJob.pc \in {"temp", "dropBackup", "setAside", "place", "putBack"},
         main' \in Mcp!Receipts, backup' \in Mcp!Receipts,
         goal \in {"dropBackup", "setAside"} => main' # Mcp!NoReceipt,
         goal \in {"place", "putBack"} => main' = Mcp!NoReceipt,
         goal = "tidy" => main' = install,
         goal # "tidy" => Mcp!Loaded' = Mcp!Loaded,
         goal \in {"dropBackup", "setAside", "place", "putBack", "tidy", "undoLook"},
         goal \in {"dropBackup", "setAside", "place", "tidy"} => mcpJob.pc # "putBack"
  PROVE  McpInv'
<1>1. goal \in McpPcs
  BY DEF McpPcs
<1>2. /\ mcpJob' \in McpJobs /\ mcpJob'.pc = goal /\ mcpJob'.op = mcpJob.op /\ mcpJob'.saw = mcpJob.saw
      /\ mcpJob'.rec = mcpJob.rec /\ mcpJob'.prev = mcpJob.prev
      /\ mcpJob'.disturbed = mcpJob.disturbed
  BY <1>1, McpGoes DEF McpInv
<1>3. mcpJob.op = "register"
  BY DEF McpInv, McpTyped, McpRegister
<1>4. McpTyped'
  BY <1>2, <1>3 DEF McpInv, McpTyped, McpRegister, McpForget, Mcp!Entries, Mcp!Receipts
<1>5. Mcp!Loaded = mcpJob.rec
  BY DEF McpInv, McpFiles
<1>6. McpFiles'
  <2>1. goal \notin {"forgetMain", "idle", "end"}
    OBVIOUS
  <2> QED
    BY <1>2, <1>5, <2>1 DEF McpFiles, Mcp!NoReceipt
<1>7. McpPrevious'
  BY <1>2 DEF McpInv, McpPrevious, Mcp!NoReceipt
<1>8. McpEntry'
  BY <1>2 DEF McpInv, McpEntry
<1>9. Mcp!AnswerIsTrue'
  BY <1>2 DEF Mcp!AnswerIsTrue, Mcp!At
<1> QED
  BY <1>4, <1>6, <1>7, <1>8, <1>9 DEF McpInv

\* A rollback of a removal whose record is still there.
LEMMA McpUndoes ==
  ASSUME Mcp!McpAssumption, McpInv, mcpJob.pc \in McpForget, Mcp!Undo,
         UNCHANGED <<entry, main, backup, install>>, Mcp!Loaded = mcpJob.rec
  PROVE  McpInv'
<1>1. entry \in Mcp!Entries /\ mcpJob \in McpJobs /\ mcpJob.saw = mcpJob.prev.place
  BY DEF McpInv, McpTyped, McpPrevious, McpForget
<1>2. CASE mcpJob.prev = Mcp!NoReceipt
  <2>1. /\ mcpJob' \in McpJobs /\ mcpJob'.pc = "end" /\ mcpJob'.op = mcpJob.op /\ mcpJob'.saw = mcpJob.saw
        /\ mcpJob'.rec = mcpJob.rec /\ mcpJob'.answer = "restored"
        /\ mcpJob'.disturbed = mcpJob.disturbed
    BY <1>2, McpEnds DEF McpInv, McpAnswers, Mcp!Undo
  <2>2. ~mcpJob.disturbed => entry = "none"
    BY DEF McpInv, McpEntry, McpForget
  <2>3. mcpJob.saw = "none"
    BY <1>1, <1>2 DEF Mcp!NoReceipt
  <2>4. Mcp!Loaded' = mcpJob'.rec
    BY <2>1 DEF Mcp!Loaded, Mcp!NoReceipt
  <2>5. Mcp!AnswerIsTrue'
    BY <2>1, <2>2, <2>3, <2>4 DEF Mcp!AnswerIsTrue, Mcp!At
  <2> QED
    BY <2>1, <2>5
    DEF McpInv, McpTyped, McpFiles, McpPrevious, McpEntry, McpRegister, McpForget, Mcp!Entries,
    Mcp!Receipts
<1>3. CASE mcpJob.prev # Mcp!NoReceipt
  <2>1. /\ "undoAdd" \in McpPcs /\ Mcp!Go("undoAdd")
    BY <1>3 DEF Mcp!Undo, McpPcs
  <2>2. /\ mcpJob' \in McpJobs /\ mcpJob'.pc = "undoAdd" /\ mcpJob'.op = mcpJob.op /\ mcpJob'.saw = mcpJob.saw
        /\ mcpJob'.rec = mcpJob.rec /\ mcpJob'.prev = mcpJob.prev
        /\ mcpJob'.disturbed = mcpJob.disturbed
    BY <2>1, McpGoes DEF McpInv
  <2>3. McpTyped'
    BY <2>2 DEF McpInv, McpTyped, McpRegister, McpForget, Mcp!Entries, Mcp!Receipts
  <2>4. McpFiles'
    BY <2>2 DEF McpFiles, Mcp!Loaded, Mcp!NoReceipt
  <2>5. McpPrevious'
    BY <2>2 DEF McpInv, McpPrevious, McpForget, Mcp!NoReceipt
  <2>6. McpEntry'
    BY <2>2 DEF McpInv, McpEntry, McpForget
  <2>7. Mcp!AnswerIsTrue'
    BY <2>2 DEF Mcp!AnswerIsTrue, Mcp!At
  <2> QED
    BY <2>3, <2>4, <2>5, <2>6, <2>7 DEF McpInv
<1> QED
  BY <1>2, <1>3

\* The file operations keep the invariant.
LEMMA McpFileSteps ==
  ASSUME Mcp!McpAssumption, McpInv,
         Mcp!WriteTemp \/ Mcp!DropBackup \/ Mcp!SetAside \/ Mcp!Place \/ Mcp!PutBack \/ Mcp!Tidy \/ Mcp!Forget
  PROVE  McpInv'
<1>1. /\ main \in Mcp!Receipts /\ backup \in Mcp!Receipts /\ install \in Mcp!Receipts /\ install \in Installs
      /\ Mcp!NoReceipt \in Mcp!Receipts /\ install # Mcp!NoReceipt
      /\ mcpJob \in McpJobs
  BY McpPlaces DEF McpInv, McpTyped, Mcp!Receipts
<1>2. mcpJob.pc \in {"place", "putBack"} => main = Mcp!NoReceipt
  BY DEF McpInv, McpFiles
<1>3. mcpJob.pc \in {"dropBackup", "setAside"} => main # Mcp!NoReceipt
  BY DEF McpInv, McpFiles
<1>4. CASE Mcp!WriteTemp
  <2>1. mcpJob.pc = "temp" /\ UNCHANGED <<entry, main, backup, install>> /\ Mcp!Loaded' = Mcp!Loaded
    BY <1>4 DEF Mcp!WriteTemp, Mcp!At, Mcp!Files, Mcp!Outside, Mcp!Loaded, Mcp!NoReceipt
  <2>2. \/ main = Mcp!NoReceipt /\ Mcp!Go("place")
        \/ main # Mcp!NoReceipt /\ Mcp!Go("dropBackup")
        \/ Mcp!Go("undoLook")
    BY <1>4 DEF Mcp!WriteTemp
  <2>3. CASE main = Mcp!NoReceipt /\ Mcp!Go("place")
    BY <1>1, <2>1, <2>3, McpSaves DEF McpRegister
  <2>4. CASE main # Mcp!NoReceipt /\ Mcp!Go("dropBackup")
    BY <1>1, <2>1, <2>4, McpSaves DEF McpRegister
  <2>5. CASE Mcp!Go("undoLook")
    BY <1>1, <2>1, <2>5, McpSaves DEF McpRegister
  <2> QED
    BY <2>2, <2>3, <2>4, <2>5
<1>5. CASE Mcp!DropBackup
  <2>1. mcpJob.pc = "dropBackup" /\ UNCHANGED <<entry, main, install>> /\ backup' \in {Mcp!NoReceipt, backup}
    BY <1>5 DEF Mcp!DropBackup, Mcp!At, Mcp!Outside
  <2>2. Mcp!Loaded' = Mcp!Loaded
    BY <1>3, <2>1 DEF Mcp!Loaded, Mcp!NoReceipt
  <2>3. Mcp!Go("setAside") \/ Mcp!Go("undoLook")
    BY <1>5 DEF Mcp!DropBackup
  <2>4. CASE Mcp!Go("setAside")
    BY <1>1, <1>3, <2>1, <2>2, <2>4, McpSaves DEF McpRegister
  <2>5. CASE Mcp!Go("undoLook")
    BY <1>1, <2>1, <2>2, <2>5, McpSaves DEF McpRegister
  <2> QED
    BY <2>3, <2>4, <2>5
<1>6. CASE Mcp!SetAside
  <2>1. /\ mcpJob.pc = "setAside" /\ UNCHANGED <<entry, install>>
        /\ \/ Mcp!Go("place") /\ backup' = main /\ main' = Mcp!NoReceipt
           \/ Mcp!Go("undoLook") /\ UNCHANGED <<main, backup>>
    BY <1>6 DEF Mcp!SetAside, Mcp!At, Mcp!Files, Mcp!Outside
  <2>2. Mcp!Loaded' = Mcp!Loaded
    BY <1>3, <2>1 DEF Mcp!Loaded, Mcp!NoReceipt
  <2>3. CASE Mcp!Go("place") /\ backup' = main /\ main' = Mcp!NoReceipt
    BY <1>1, <2>1, <2>2, <2>3, McpSaves DEF McpRegister
  <2>4. CASE Mcp!Go("undoLook") /\ UNCHANGED <<main, backup>>
    BY <1>1, <2>1, <2>2, <2>4, McpSaves DEF McpRegister
  <2> QED
    BY <2>1, <2>3, <2>4
<1>7. CASE Mcp!Place
  <2>1. /\ mcpJob.pc = "place" /\ UNCHANGED <<entry, backup, install>>
        /\ \/ Mcp!Go("tidy") /\ main' = install
           \/ Mcp!Go("putBack") /\ UNCHANGED main
    BY <1>7 DEF Mcp!Place, Mcp!At, Mcp!Outside
  <2>2. CASE Mcp!Go("tidy") /\ main' = install
    BY <1>1, <2>1, <2>2, McpSaves DEF McpRegister
  <2>3. CASE Mcp!Go("putBack") /\ UNCHANGED main
    <3>1. Mcp!Loaded' = Mcp!Loaded
      BY <2>1, <2>3 DEF Mcp!Loaded, Mcp!NoReceipt
    <3> QED
      BY <1>1, <1>2, <2>1, <2>3, <3>1, McpSaves DEF McpRegister
  <2> QED
    BY <2>1, <2>2, <2>3
<1>8. CASE Mcp!PutBack
  <2>1. /\ mcpJob.pc = "putBack" /\ UNCHANGED <<entry, install>> /\ Mcp!Go("undoLook")
        /\ \/ main' = backup /\ backup' = Mcp!NoReceipt
           \/ UNCHANGED <<main, backup>>
    BY <1>8 DEF Mcp!PutBack, Mcp!At, Mcp!Files, Mcp!Outside
  <2>2. Mcp!Loaded' = Mcp!Loaded /\ main' \in Mcp!Receipts /\ backup' \in Mcp!Receipts
    BY <1>1, <1>2, <2>1 DEF Mcp!Loaded, Mcp!NoReceipt
  <2> QED
    BY <2>1, <2>2, McpSaves DEF McpRegister
<1>9. CASE Mcp!Tidy
  <2>1. /\ mcpJob.pc = "tidy" /\ UNCHANGED <<entry, main, install>> /\ Mcp!End("registered")
        /\ backup' \in Mcp!Receipts
    BY <1>1, <1>9 DEF Mcp!Tidy, Mcp!At, Mcp!Outside
  <2>2. /\ mcpJob' \in McpJobs /\ mcpJob'.pc = "end" /\ mcpJob'.op = mcpJob.op
        /\ mcpJob'.answer = "registered" /\ mcpJob'.disturbed = mcpJob.disturbed
    BY <2>1, McpEnds DEF McpInv, McpAnswers
  <2>3. main = install /\ (~mcpJob.disturbed => entry = install.place)
    BY <2>1 DEF McpInv, McpFiles, McpEntry
  <2>4. Mcp!Loaded' = install'
    BY <1>1, <2>1, <2>3 DEF Mcp!Loaded, Mcp!NoReceipt
  <2>5. Mcp!AnswerIsTrue'
    BY <2>1, <2>2, <2>3, <2>4 DEF Mcp!AnswerIsTrue, Mcp!At
  <2> QED
    BY <2>1, <2>2, <2>5
    DEF McpInv, McpTyped, McpFiles, McpPrevious, McpEntry, McpRegister, McpForget, Mcp!Entries,
    Mcp!Receipts
<1>10. CASE Mcp!Forget
  <2>0. UNCHANGED <<entry, install>>
    BY <1>10 DEF Mcp!Forget, Mcp!Outside
  <2>1. CASE mcpJob.pc = "forgetBackup"
    <3>1. /\ UNCHANGED main
          /\ \/ Mcp!Go("forgetMain") /\ backup' = Mcp!NoReceipt
             \/ Mcp!Undo /\ UNCHANGED backup
      BY <1>10, <2>1 DEF Mcp!Forget, Mcp!At
    <3>2. Mcp!Loaded = mcpJob.rec
      BY <2>1 DEF McpInv, McpFiles
    <3>3. CASE Mcp!Go("forgetMain") /\ backup' = Mcp!NoReceipt
      <4>1. /\ mcpJob' \in McpJobs /\ mcpJob'.pc = "forgetMain" /\ mcpJob'.op = mcpJob.op
            /\ mcpJob'.saw = mcpJob.saw /\ mcpJob'.rec = mcpJob.rec /\ mcpJob'.prev = mcpJob.prev
            /\ mcpJob'.disturbed = mcpJob.disturbed
        BY <3>3, McpGoes DEF McpInv, McpPcs, McpForget
      <4>2. main \in {Mcp!NoReceipt, mcpJob.rec}
        BY <3>2 DEF Mcp!Loaded
      <4>3. McpTyped'
        BY <1>1, <2>0, <2>1, <3>1, <3>3, <4>1 DEF McpInv, McpTyped, McpRegister, McpForget,
           Mcp!Entries, Mcp!Receipts
      <4>4. McpFiles'
        BY <3>1, <3>3, <4>1, <4>2 DEF McpFiles, Mcp!NoReceipt
      <4>5. McpPrevious' /\ McpEntry'
        BY <2>0, <2>1, <4>1 DEF McpInv, McpPrevious, McpEntry, Mcp!NoReceipt
      <4>6. Mcp!AnswerIsTrue'
        BY <4>1 DEF Mcp!AnswerIsTrue, Mcp!At
      <4> QED
        BY <4>3, <4>4, <4>5, <4>6 DEF McpInv
    <3>4. CASE Mcp!Undo /\ UNCHANGED backup
      BY <2>0, <2>1, <3>1, <3>2, <3>4, McpUndoes DEF McpForget
    <3> QED
      BY <3>1, <3>3, <3>4
  <2>2. CASE mcpJob.pc = "forgetMain"
    <3>1. /\ UNCHANGED backup
          /\ \/ Mcp!End("unregistered") /\ main' = Mcp!NoReceipt
             \/ main # Mcp!NoReceipt /\ Mcp!Undo /\ UNCHANGED main
      BY <1>10, <2>2 DEF Mcp!Forget, Mcp!At
    <3>2. backup = Mcp!NoReceipt /\ main \in {Mcp!NoReceipt, mcpJob.rec}
      BY <2>2 DEF McpInv, McpFiles
    <3>3. CASE Mcp!End("unregistered") /\ main' = Mcp!NoReceipt
      <4>1. /\ mcpJob' \in McpJobs /\ mcpJob'.pc = "end" /\ mcpJob'.op = mcpJob.op
            /\ mcpJob'.answer = "unregistered" /\ mcpJob'.disturbed = mcpJob.disturbed
        BY <3>3, McpEnds DEF McpInv, McpAnswers
      <4>2. ~mcpJob.disturbed => entry = "none"
        BY <2>2 DEF McpInv, McpEntry
      <4>3. Mcp!Loaded' = Mcp!NoReceipt'
        BY <3>1, <3>2, <3>3 DEF Mcp!Loaded, Mcp!NoReceipt
      <4>4. Mcp!AnswerIsTrue'
        BY <2>0, <4>1, <4>2, <4>3 DEF Mcp!AnswerIsTrue, Mcp!At
      <4> QED
        BY <1>1, <2>0, <2>2, <3>1, <3>3, <4>1, <4>4
        DEF McpInv, McpTyped, McpFiles, McpPrevious, McpEntry, McpRegister, McpForget, Mcp!Entries,
        Mcp!Receipts
    <3>4. CASE main # Mcp!NoReceipt /\ Mcp!Undo /\ UNCHANGED main
      <4>1. Mcp!Loaded = mcpJob.rec
        BY <3>2, <3>4 DEF Mcp!Loaded
      <4> QED
        BY <2>0, <2>2, <3>1, <3>4, <4>1, McpUndoes DEF McpForget
    <3> QED
      BY <3>1, <3>3, <3>4
  <2> QED
    BY <1>10, <2>1, <2>2 DEF Mcp!Forget, Mcp!At
<1> QED
  BY <1>4, <1>5, <1>6, <1>7, <1>8, <1>9, <1>10

-----------------------------------------------------------------------------
\* Every step keeps the invariant.
LEMMA McpSteps ==
  ASSUME Mcp!McpAssumption, McpInv, [Mcp!Next]_(Mcp!vars)
  PROVE  McpInv'
<1>1. /\ entry \in Mcp!Entries /\ main \in Mcp!Receipts /\ backup \in Mcp!Receipts /\ install \in Installs
      /\ mcpJob \in McpJobs
  BY DEF McpInv, McpTyped
<1>2. /\ Mcp!Idle \in McpJobs /\ Mcp!Idle.pc = "idle"
  BY DEF Mcp!Idle, McpJobs, McpPcs, McpAnswers, Mcp!Entries, Mcp!Receipts
<1>3. ASSUME mcpJob' = Mcp!Idle, install' \in Installs, UNCHANGED <<entry, main, backup>>
      PROVE  McpInv'
  <2>1. mcpJob' \in McpJobs /\ mcpJob'.pc = "idle"
    BY <1>2, <1>3
  <2> QED
    BY <1>1, <1>3, <2>1
    DEF McpInv, McpTyped, McpFiles, McpPrevious, McpEntry, McpRegister, McpForget, Mcp!AnswerIsTrue,
    Mcp!At,
        Mcp!Entries, Mcp!Receipts
<1>4. ASSUME NEW op \in {"register", "unregister"}, Mcp!Begin(op) PROVE McpInv'
  <2>1. /\ UNCHANGED <<entry, main, backup, install>>
        /\ mcpJob' = [Mcp!Idle EXCEPT !.pc = "look", !.op = op, !.rec = Mcp!Loaded]
    BY <1>4 DEF Mcp!Begin, Mcp!Files, Mcp!Outside
  <2>2. Mcp!Loaded \in Mcp!Receipts
    BY <1>1 DEF Mcp!Loaded
  <2>3. mcpJob' = [pc |-> "look", op |-> op, saw |-> "none", rec |-> Mcp!Loaded, prev |-> Mcp!NoReceipt,
                   disturbed |-> FALSE, answer |-> ""]
    BY <2>1 DEF Mcp!Idle
  <2>4. /\ mcpJob' \in McpJobs /\ mcpJob'.pc = "look" /\ mcpJob'.op = op /\ mcpJob'.rec = Mcp!Loaded
        /\ mcpJob'.prev = Mcp!NoReceipt
    BY <2>2, <2>3 DEF McpJobs, McpPcs, McpAnswers, Mcp!Entries, Mcp!Receipts
  <2>5. McpTyped'
    BY <1>1, <2>1, <2>4 DEF McpTyped, McpRegister, McpForget, Mcp!Entries, Mcp!Receipts
  <2>6. McpFiles'
    BY <2>1, <2>4 DEF McpFiles, Mcp!Loaded, Mcp!NoReceipt
  <2>7. McpPrevious' /\ McpEntry' /\ Mcp!AnswerIsTrue'
    BY <2>4 DEF McpPrevious, McpEntry, Mcp!AnswerIsTrue, Mcp!At, Mcp!NoReceipt
  <2> QED
    BY <2>5, <2>6, <2>7 DEF McpInv
<1>5. CASE Mcp!Steps
  BY <1>5, McpLooks, McpAsks, McpFileSteps DEF Mcp!Steps
<1>6. CASE Mcp!Return
  BY <1>1, <1>3, <1>6 DEF Mcp!Return, Mcp!Files, Mcp!Outside
<1>7. CASE Mcp!Change
  <2>1. /\ UNCHANGED <<main, backup, install>> /\ entry' \in Mcp!Entries
        /\ mcpJob' = [mcpJob EXCEPT !.disturbed = ~Mcp!At("idle")]
    BY <1>7 DEF Mcp!Change, Mcp!Files
  <2>2. Mcp!At("idle") \in BOOLEAN
    BY DEF Mcp!At
  <2>3. ASSUME NEW b \in BOOLEAN PROVE /\ [mcpJob EXCEPT !.disturbed = b] \in McpJobs
                                      /\ [mcpJob EXCEPT !.disturbed = b].disturbed = b
                                      /\ [mcpJob EXCEPT !.disturbed = b].pc = mcpJob.pc
                                      /\ [mcpJob EXCEPT !.disturbed = b].op = mcpJob.op
                                      /\ [mcpJob EXCEPT !.disturbed = b].saw = mcpJob.saw
                                      /\ [mcpJob EXCEPT !.disturbed = b].rec = mcpJob.rec
                                      /\ [mcpJob EXCEPT !.disturbed = b].prev = mcpJob.prev
    BY <1>1 DEF McpJobs
  <2>4. /\ mcpJob' \in McpJobs /\ mcpJob'.pc = mcpJob.pc /\ mcpJob'.op = mcpJob.op /\ mcpJob'.saw = mcpJob.saw
        /\ mcpJob'.rec = mcpJob.rec /\ mcpJob'.prev = mcpJob.prev
        /\ mcpJob'.disturbed = ~Mcp!At("idle")
    <3>1. (~Mcp!At("idle")) \in BOOLEAN
      BY <2>2
    <3> QED
      BY <2>1, <2>3, <3>1, Zenon
  <2>5. mcpJob'.pc = "idle" \/ mcpJob'.disturbed
    BY <2>4 DEF Mcp!At
  <2>6. McpTyped' /\ McpFiles' /\ McpPrevious'
    BY <2>1, <2>4
    DEF McpInv, McpTyped, McpFiles, McpPrevious, McpRegister, McpForget, Mcp!Loaded, Mcp!NoReceipt,
    Mcp!Entries,
        Mcp!Receipts
  <2>7. McpEntry' /\ Mcp!AnswerIsTrue'
    BY <2>5 DEF McpEntry, Mcp!AnswerIsTrue, Mcp!At
  <2> QED
    BY <2>6, <2>7 DEF McpInv
<1>8. CASE Mcp!Restart
  BY <1>3, <1>8 DEF Mcp!Restart, Mcp!Files
<1>9. CASE UNCHANGED Mcp!vars
  <2>1. UNCHANGED <<entry, main, backup, install, mcpJob>>
    BY <1>9 DEF Mcp!vars
  <2>2. McpTyped' /\ McpPrevious' /\ McpEntry'
    BY <2>1 DEF McpInv, McpTyped, McpPrevious, McpEntry, Mcp!Entries, Mcp!Receipts, Mcp!NoReceipt
  <2>4. Mcp!Loaded' = Mcp!Loaded
    BY <2>1 DEF Mcp!Loaded, Mcp!NoReceipt
  <2>5. McpFiles'
    BY <2>1, <2>4 DEF McpInv, McpFiles, Mcp!NoReceipt
  <2>3. Mcp!AnswerIsTrue'
    BY <2>1, <2>4 DEF McpInv, Mcp!AnswerIsTrue, Mcp!At, Mcp!NoReceipt
  <2> QED
    BY <2>2, <2>3, <2>5 DEF McpInv
<1> QED
  BY <1>4, <1>5, <1>6, <1>7, <1>8, <1>9 DEF Mcp!Next

\* The invariant gives the type invariant and the truth of the answers.
LEMMA McpTypes == ASSUME McpInv PROVE Mcp!TypeOK /\ Mcp!AnswerIsTrue
BY DEF McpInv, McpTyped, McpJobs, Mcp!TypeOK

(***************************************************************************)
(* Whatever happens to the files and to the app in the middle of a save or *)
(* of a removal, the record that is read next is the one from before or    *)
(* the one being written.                                                  *)
(***************************************************************************)
LEMMA RecordGoesForward ==
  ASSUME Mcp!McpAssumption, McpInv, [Mcp!Next]_(Mcp!vars)
  PROVE  Mcp!RecordOfJob
<1>1. CASE Mcp!Loaded' = Mcp!Loaded
  BY <1>1 DEF Mcp!RecordOfJob
<1>2. CASE UNCHANGED <<main, backup>>
  BY <1>1, <1>2 DEF Mcp!Loaded, Mcp!NoReceipt
<1>3. CASE Mcp!DropBackup
  BY <1>1, <1>3 DEF Mcp!DropBackup, Mcp!At, Mcp!Outside, Mcp!Loaded, Mcp!NoReceipt, McpInv, McpFiles
<1>4. CASE Mcp!SetAside
  <2>1. main # Mcp!NoReceipt /\ (\/ backup' = main /\ main' = Mcp!NoReceipt
                                 \/ UNCHANGED <<main, backup>>)
    BY <1>4 DEF Mcp!SetAside, Mcp!At, Mcp!Files, McpInv, McpFiles
  <2> QED
    BY <1>1, <2>1 DEF Mcp!Loaded, Mcp!NoReceipt
<1>5. CASE Mcp!Place
  <2>1. /\ mcpJob.op = "register" /\ UNCHANGED backup
        /\ main' = install \/ UNCHANGED main
    BY <1>5 DEF Mcp!Place, Mcp!At, Mcp!Outside, McpInv, McpTyped, McpRegister
  <2>2. CASE main' = install
    <3>1. install # Mcp!NoReceipt
      BY McpPlaces DEF McpInv, McpTyped
    <3>2. Mcp!Loaded' = install
      BY <2>2, <3>1 DEF Mcp!Loaded, Mcp!NoReceipt
    <3> QED
      BY <2>1, <3>2 DEF Mcp!RecordOfJob
  <2> QED
    BY <1>2, <2>1, <2>2
<1>6. CASE Mcp!PutBack
  <2>1. main = Mcp!NoReceipt /\ (\/ main' = backup /\ backup' = Mcp!NoReceipt
                                 \/ UNCHANGED <<main, backup>>)
    BY <1>6 DEF Mcp!PutBack, Mcp!At, Mcp!Files, McpInv, McpFiles
  <2>2. Mcp!Loaded' = Mcp!Loaded
    BY <2>1 DEF Mcp!Loaded, Mcp!NoReceipt
  <2> QED
    BY <1>1, <2>2
<1>7. CASE Mcp!Tidy
  <2>1. main = install /\ UNCHANGED main /\ install # Mcp!NoReceipt
    BY <1>7, McpPlaces DEF Mcp!Tidy, Mcp!At, McpInv, McpTyped, McpFiles
  <2>2. Mcp!Loaded' = Mcp!Loaded
    BY <2>1 DEF Mcp!Loaded, Mcp!NoReceipt
  <2> QED
    BY <1>1, <2>2
<1>8. CASE Mcp!Forget
  <2>1. mcpJob.op # "register"
    BY <1>8 DEF Mcp!Forget, Mcp!At, McpInv, McpTyped, McpForget
  <2>2. CASE mcpJob.pc = "forgetBackup"
    <3>1. UNCHANGED main /\ backup' \in {backup, Mcp!NoReceipt}
      BY <1>8, <2>2 DEF Mcp!Forget, Mcp!At
    <3>2. Mcp!Loaded' \in {Mcp!Loaded, Mcp!NoReceipt}
      BY <3>1 DEF Mcp!Loaded, Mcp!NoReceipt
    <3> QED
      BY <2>1, <3>2 DEF Mcp!RecordOfJob
  <2>3. CASE mcpJob.pc = "forgetMain"
    <3>1. UNCHANGED backup /\ main' \in {main, Mcp!NoReceipt} /\ backup = Mcp!NoReceipt
      BY <1>8, <2>3 DEF Mcp!Forget, Mcp!At, McpInv, McpFiles
    <3>2. Mcp!Loaded' \in {Mcp!Loaded, Mcp!NoReceipt}
      BY <3>1 DEF Mcp!Loaded, Mcp!NoReceipt
    <3> QED
      BY <2>1, <3>2 DEF Mcp!RecordOfJob
  <2> QED
    BY <1>8, <2>2, <2>3 DEF Mcp!Forget, Mcp!At
<1>9. CASE Mcp!Remove \/ Mcp!Absent \/ Mcp!Add \/ Mcp!Check \/ Mcp!UndoLook \/ Mcp!UndoRemove \/ Mcp!UndoAbsent
             \/ Mcp!UndoAdd \/ Mcp!UndoCheck
  BY <1>2, <1>9, McpCommands, McpQueries
<1>10. CASE Mcp!Look
  BY <1>2, <1>10 DEF Mcp!Look, Mcp!Query, Mcp!Files
<1>11. CASE Mcp!WriteTemp
  BY <1>2, <1>11 DEF Mcp!WriteTemp, Mcp!Files
<1>12. CASE \/ \E op \in {"register", "unregister"} : Mcp!Begin(op)
            \/ Mcp!Return \/ Mcp!Change \/ Mcp!Restart
  BY <1>2, <1>12 DEF Mcp!Begin, Mcp!Return, Mcp!Change, Mcp!Restart, Mcp!Files
<1>13. CASE UNCHANGED Mcp!vars
  BY <1>2, <1>13 DEF Mcp!vars
<1> QED
  BY <1>3, <1>4, <1>5, <1>6, <1>7, <1>8, <1>9, <1>10, <1>11, <1>12, <1>13 DEF Mcp!Next, Mcp!Steps

(***************************************************************************)
(* An entry of somebody else is removed or replaced only by a command that *)
(* somebody disturbed: where the app changes the entry of an undisturbed   *)
(* command it is its own, or there is none.                                *)
(***************************************************************************)
LEMMA OthersEntryIsLeft ==
  ASSUME Mcp!McpAssumption, McpInv, [Mcp!Next]_(Mcp!vars)
  PROVE  Mcp!OtherEntryKept
<1> SUFFICES ASSUME Mcp!Steps, entry = "other", ~mcpJob.disturbed PROVE entry' = "other"
  BY DEF Mcp!OtherEntryKept
<1>1. install.place # "other" /\ mcpJob.prev.place # "other"
  BY McpPlaces DEF McpInv, McpTyped, McpJobs
<1>2. mcpJob.pc \notin {"remove", "add", "undoAdd", "undoRemove"}
  BY <1>1 DEF McpInv, McpEntry
<1>3. ~(Mcp!Remove \/ Mcp!Add \/ Mcp!UndoRemove \/ Mcp!UndoAdd)
  BY <1>2 DEF Mcp!Remove, Mcp!Add, Mcp!UndoRemove, Mcp!UndoAdd, Mcp!At
<1>4. UNCHANGED entry
  BY <1>3, McpQueries
  DEF Mcp!Steps, Mcp!Look, Mcp!Query, Mcp!WriteTemp, Mcp!DropBackup, Mcp!SetAside, Mcp!Place,
  Mcp!PutBack,
      Mcp!Tidy, Mcp!Forget
<1> QED
  BY <1>4

-----------------------------------------------------------------------------
(***************************************************************************)
(* For any installations and any number of changes by others and of        *)
(* restarts, a command that nobody disturbs answers the truth, the record  *)
(* that is read never goes back, and an entry of somebody else stays       *)
(* (register_client_at, unregister_client_at, save_receipt,                *)
(* remove_receipt: mcp_registration.rs).                                   *)
(***************************************************************************)
THEOREM EntrySafety ==
  Mcp!McpAssumption /\ Mcp!Spec => []Mcp!AnswerIsTrue /\ Mcp!RecordNeverGoesBack /\ Mcp!OtherEntryStays
<1> SUFFICES ASSUME Mcp!McpAssumption PROVE Mcp!Spec => []Mcp!AnswerIsTrue /\ Mcp!RecordNeverGoesBack /\ Mcp!OtherEntryStays
  BY DEF Mcp!McpAssumption
<1>1. Mcp!Init => McpInv
  BY McpBegins
<1>2. McpInv /\ [Mcp!Next]_(Mcp!vars) => McpInv'
  BY McpSteps
<1>3. McpInv => Mcp!AnswerIsTrue
  BY McpTypes
<1>4. McpInv /\ [Mcp!Next]_(Mcp!vars) => Mcp!RecordOfJob /\ Mcp!OtherEntryKept
  BY RecordGoesForward, OthersEntryIsLeft
<1> QED
  BY <1>1, <1>2, <1>3, <1>4, PTL DEF Mcp!Spec, Mcp!RecordNeverGoesBack, Mcp!OtherEntryStays
=============================================================================
