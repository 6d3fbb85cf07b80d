--------------------------- MODULE ControlOperations ---------------------------
(***************************************************************************)
(* The jobs that chats start and ask about (control_server.rs): starting a  *)
(* job, its bounded records of finished jobs, of their owners and of start   *)
(* requests, and the calls that read or cancel a job by its id.  The jobs    *)
(* share the work slot with the commands of the main window; of the slot     *)
(* only what WorkSlot promises is used.                                      *)
(***************************************************************************)
EXTENDS Naturals, Sequences, FiniteSets, SequencesExt

CONSTANTS
    Ops,            \* operation ids, each used once (random_operation_id)
    Window,         \* whatever the main window runs in the slot
    NoWork,         \* the empty slot, and no operation
    Requests,       \* requestIds of start calls
    NoRequest,      \* a job started by a tool call has none
    Callers,        \* connections that ask about jobs
    MaxCompleted    \* MAX_COMPLETED_OPERATIONS

OperationAssumption ==
    /\ Window \notin Ops /\ NoWork \notin Ops \cup {Window}
    /\ NoRequest \notin Requests
    /\ MaxCompleted \in Nat \ {0}

VARIABLES
    holder, committing, stopped, shut,  \* the slot, see WorkSlot
    active,         \* status.active_operation
    marked,         \* operations with cancellation_requested set
    history,        \* completed_operations, newest first
    authorities,    \* operation_authorities, newest first
    requests,       \* start_requests, newest first
    stage,          \* where the job of each operation stands
    owner,          \* the actor of its authority
    kind,           \* whether its worker asks to commit before it stores
    request,        \* the requestId it was started with
    outcome,        \* how its work ended
    pc,             \* where each caller stands
    ref,            \* the operation it asks about
    answer,         \* what it was told last
    resent,         \* callers whose call is a start call sent again
    evicted         \* history: operations that fell out of completed_operations

slot == <<holder, committing, stopped, shut>>
store == <<active, marked, history, authorities, requests, evicted>>
jobs == <<stage, owner, kind, request, outcome>>
calls == <<pc, ref, answer, resent>>
vars == <<slot, store, jobs, calls>>

Slot == INSTANCE WorkSlot WITH Work <- Ops \cup {Window}

Stages == {"none", "asked", "reserved", "started", "running", "committed",
           "worked", "finished", "released"}
Outcomes == {"completed", "failed", "cancelled"}
Places == {"idle", "authorizing", "stopping", "marking", "first", "second", "checking"}
MaxAuthorities == MaxCompleted + 1

TypeOK ==
    /\ Slot!TypeOK
    /\ active \in Ops \cup {NoWork} /\ marked \subseteq Ops
    /\ history \in Seq(Ops) /\ Len(history) <= MaxCompleted
    /\ authorities \in Seq(Ops) /\ Len(authorities) <= MaxCompleted + 1
    /\ requests \in Seq(Requests \X Ops) /\ Len(requests) <= MaxCompleted
    /\ stage \in [Ops -> Stages]
    /\ owner \in [Ops -> {"external", "native"}]
    /\ kind \in [Ops -> {"scan", "index"}]
    /\ request \in [Ops -> Requests \cup {NoRequest}]
    /\ outcome \in [Ops -> Outcomes \cup {"none"}]
    /\ pc \in [Callers -> Places]
    /\ ref \in [Callers -> Ops \cup {NoWork}]
    /\ answer \in [Callers -> Outcomes \cup {"none", "running", "denied", "missing"}]
    /\ resent \subseteq Callers
    /\ evicted \subseteq Ops

Init ==
    /\ Slot!Init
    /\ active = NoWork /\ marked = {}
    /\ history = <<>> /\ authorities = <<>> /\ requests = <<>> /\ evicted = {}
    /\ stage = [o \in Ops |-> "none"]
    /\ owner = [o \in Ops |-> "external"]
    /\ kind = [o \in Ops |-> "scan"]
    /\ request = [o \in Ops |-> NoRequest]
    /\ outcome = [o \in Ops |-> "none"]
    /\ pc = [c \in Callers |-> "idle"]
    /\ ref = [c \in Callers |-> NoWork]
    /\ answer = [c \in Callers |-> "none"]
    /\ resent = {}

\* push_front alone.
PushOnly(queue, x, bound) == <<x>> \o queue

\* push_front and truncate.
Push(queue, x, bound) == SubSeq(<<x>> \o queue, 1, IF Len(queue) < bound THEN Len(queue) + 1 ELSE bound)

\* retain: what is in S stays, in its order.
Retain(queue, S) ==
    LET kept[n \in 0 .. Len(queue)] ==
            IF n = 0 THEN <<>>
            ELSE IF queue[n] \in S THEN Append(kept[n - 1], queue[n]) ELSE kept[n - 1]
    IN  kept[Len(queue)]

\* A scan asks to commit; an index is written by its worker.
Commits(o) == kind[o] = "scan"
To(o, next) == stage' = [stage EXCEPT ![o] = next]

-------------------------------------------------------------------------------
(* Starting a job: start_storage_scan and reserve_operation_authority. *)

AskStart(o, who, what, q) ==
    /\ stage[o] = "none"
    /\ q # NoRequest => /\ who = "external" /\ what = "scan"
                        /\ \A n \in DOMAIN requests : requests[n][1] # q
    /\ To(o, "asked")
    /\ owner' = [owner EXCEPT ![o] = who]
    /\ kind' = [kind EXCEPT ![o] = what]
    /\ request' = [request EXCEPT ![o] = q]
    /\ UNCHANGED <<slot, store, outcome, calls>>

ReserveSlot(o) ==
    /\ stage[o] = "asked"
    /\ Slot!Take(o)
    /\ To(o, "reserved")
    /\ UNCHANGED <<store, owner, kind, request, outcome, calls>>

\* Busy or closing: nothing has been recorded.
RefuseStart(o) ==
    /\ stage[o] = "asked"
    /\ holder # NoWork \/ shut
    /\ To(o, "released")
    /\ UNCHANGED <<slot, store, owner, kind, request, outcome, calls>>

\* start_operation; an operation that is still active makes it fail, and the
\* guard gives the slot back.
StartOperation(o) ==
    /\ stage[o] = "reserved"
    /\ IF active = NoWork
       THEN /\ active' = o
            /\ authorities' = Push(authorities, o, MaxAuthorities)
            /\ To(o, "started")
       ELSE /\ To(o, "finished")
            /\ UNCHANGED <<active, authorities>>
    /\ UNCHANGED <<slot, marked, history, requests, evicted, owner, kind, request, outcome, calls>>

\* remember_start_request, then the worker is spawned.
SpawnWorker(o) ==
    /\ stage[o] = "started"
    /\ requests' = IF request[o] = NoRequest THEN requests
                   ELSE Push(requests, <<request[o], o>>, MaxCompleted)
    /\ To(o, "running")
    /\ UNCHANGED <<slot, active, marked, history, authorities, evicted,
                   owner, kind, request, outcome, calls>>

-------------------------------------------------------------------------------
(* The worker and its finish. *)

Flagged == stopped \/ shut

EndWork(o, result) == To(o, "worked") /\ outcome' = [outcome EXCEPT ![o] = result]

\* begin_control_commit.
CommitScan(o) ==
    /\ stage[o] = "running"
    /\ Commits(o)
    /\ holder = o
    /\ Slot!Commit
    /\ To(o, "committed")
    /\ UNCHANGED <<store, owner, kind, request, outcome, calls>>

\* The report is stored, or its candidate key could not be made.
StoreScan(o) ==
    /\ stage[o] = "committed"
    /\ \E result \in {"completed", "failed"} : EndWork(o, result)
    /\ UNCHANGED <<slot, store, owner, kind, request, calls>>

\* A failed worker that returns before the finish of its operation.
HaltWorkLeaves(o) ==
    /\ stage[o] = "running"
    /\ To(o, "finished")
    /\ UNCHANGED <<slot, store, owner, kind, request, outcome, calls>>

\* A poll or the commit saw the flag; or the work failed, flagged or not.
HaltWork(o) ==
    /\ stage[o] = "running"
    /\ \/ Flagged /\ EndWork(o, "cancelled")
       \/ EndWork(o, "failed")
    /\ UNCHANGED <<slot, store, owner, kind, request, calls>>

\* The worker of an index does not ask to commit.
EndIndex(o) ==
    /\ stage[o] = "running"
    /\ ~Commits(o)
    /\ EndWork(o, "completed")
    /\ UNCHANGED <<slot, store, owner, kind, request, calls>>

\* A finish that keeps only the owners of what was already recorded.
FinishOperationEarlyRetain(o) ==
    /\ stage[o] = "worked"
    /\ active = o
    /\ active' = NoWork
    /\ history' = Push(history, o, MaxCompleted)
    /\ authorities' = Retain(authorities, Range(history))
    /\ evicted' = evicted \cup (Range(history) \ Range(history'))
    /\ To(o, "finished")
    /\ UNCHANGED <<slot, marked, requests, owner, kind, request, outcome, calls>>

\* finish_operation, with the status, history and authority locks held.
FinishOperation(o) ==
    /\ stage[o] = "worked"
    /\ active = o
    /\ active' = NoWork
    /\ history' = Push(history, o, MaxCompleted)
    /\ authorities' = Retain(authorities, Range(history'))
    /\ evicted' = evicted \cup (Range(history) \ Range(history'))
    /\ To(o, "finished")
    /\ UNCHANGED <<slot, marked, requests, owner, kind, request, outcome, calls>>

\* A lease that ends with the worker and not with the recorded result.
ReleaseWithWorker(o) ==
    /\ stage[o] \in {"worked", "finished"}
    /\ holder = o
    /\ Slot!Release
    /\ stage' = [stage EXCEPT ![o] = IF @ = "finished" THEN "released" ELSE @]
    /\ UNCHANGED <<store, owner, kind, request, outcome, calls>>

\* The last lease of the job is dropped after its result has been recorded.
ReleaseSlot(o) ==
    /\ stage[o] = "finished"
    /\ Slot!Release
    /\ To(o, "released")
    /\ UNCHANGED <<store, owner, kind, request, outcome, calls>>

-------------------------------------------------------------------------------
(* Calls about a job: operation_status, cancel_operation, and a start call    *)
(* that is sent again.                                                        *)

Goto(c, next) == pc' = [pc EXCEPT ![c] = next]
Answer(c, what) == Goto(c, "idle") /\ answer' = [answer EXCEPT ![c] = what]

\* The id was in the answer to the start call or in a status event.
Ask(c, o) ==
    /\ pc[c] = "idle"
    /\ stage[o] \notin {"none", "asked", "reserved"} /\ o \in evicted \cup Range(authorities)
    /\ ref' = [ref EXCEPT ![c] = o]
    /\ answer' = [answer EXCEPT ![c] = "none"]
    /\ resent' = resent \ {c}
    /\ Goto(c, "authorizing")
    /\ UNCHANGED <<slot, store, jobs>>

\* operation_for_start_request finds the id, then the operation.
Resend(c) ==
    /\ pc[c] = "idle"
    /\ \E n \in DOMAIN requests : ref' = [ref EXCEPT ![c] = requests[n][2]]
    /\ answer' = [answer EXCEPT ![c] = "none"]
    /\ resent' = resent \cup {c}
    /\ Goto(c, "first")
    /\ UNCHANGED <<slot, store, jobs>>

\* authorize_operation, for a status call or for a cancellation; the first also
\* needs the permission to be current.
Authorize(c) ==
    /\ pc[c] = "authorizing"
    /\ IF ref[c] \notin Range(authorities) THEN Answer(c, "missing")
       ELSE \/ owner[ref[c]] = "external" /\ pc' \in {[pc EXCEPT ![c] = p] : p \in {"first", "stopping"}}
               /\ UNCHANGED answer
            \/ Answer(c, "denied")
    /\ UNCHANGED <<slot, store, jobs, ref, resent>>

\* A cancellation recorded without asking the slot.
CancelSlotUnasked(c) ==
    /\ pc[c] = "stopping"
    /\ Goto(c, IF holder = ref[c] THEN "marking" ELSE "first")
    /\ UNCHANGED <<slot, store, jobs, ref, answer, resent>>

CancelSlot(c) ==
    /\ pc[c] = "stopping"
    /\ IF holder = ref[c] /\ ~committing
       THEN Slot!Stop /\ Goto(c, "marking")
       ELSE UNCHANGED slot /\ Goto(c, "first")
    /\ UNCHANGED <<store, jobs, ref, answer, resent>>

\* request_operation_cancellation; when the job has just finished its record
\* is read instead.
MarkCancelled(c) ==
    /\ pc[c] = "marking"
    /\ IF active = ref[c]
       THEN marked' = marked \cup {ref[c]} /\ Answer(c, "running")
       ELSE UNCHANGED <<marked, answer>> /\ Goto(c, "first")
    /\ UNCHANGED <<slot, active, history, authorities, requests, evicted, jobs, ref, resent>>

\* The records in the other order.
HistoryFirst == <<"history", "active">>

\* operation() looks at the active operation, then, under another lock, at the
\* finished ones.
LookupOrder == <<"active", "history">>

Found(o, where) == IF where = "active" THEN active = o ELSE o \in Range(history)

\* A start call sent again is checked against the owner after the lookup.
Tell(c, what) ==
    /\ answer' = [answer EXCEPT ![c] = what]
    /\ Goto(c, IF c \in resent /\ what # "missing" THEN "checking" ELSE "idle")

Look(c) ==
    /\ pc[c] \in {"first", "second"}
    /\ LET where == LookupOrder[IF pc[c] = "first" THEN 1 ELSE 2]
       IN  IF Found(ref[c], where)
           THEN Tell(c, IF where = "active" THEN "running" ELSE outcome[ref[c]])
           ELSE IF pc[c] = "first" THEN Goto(c, "second") /\ UNCHANGED answer
           ELSE Tell(c, "missing")
    /\ UNCHANGED <<slot, store, jobs, ref, resent>>

CheckOwner(c) ==
    /\ pc[c] = "checking"
    /\ IF ref[c] \notin Range(authorities) THEN Answer(c, "missing")
       ELSE Answer(c, "denied") \/ (Goto(c, "idle") /\ UNCHANGED answer)
    /\ UNCHANGED <<slot, store, jobs, ref, resent>>

-------------------------------------------------------------------------------
(* The main window and the end of the application. *)

WindowTakes == Slot!Take(Window) /\ UNCHANGED <<store, jobs, calls>>
WindowReleases == holder = Window /\ Slot!Release /\ UNCHANGED <<store, jobs, calls>>

\* The stop button, whatever is in the slot.
WindowStops == Slot!Stop /\ UNCHANGED <<store, jobs, calls>>
Close == ~shut /\ Slot!Shut /\ UNCHANGED <<store, jobs, calls>>

Run(o) ==
    \/ StartOperation(o) \/ SpawnWorker(o)
    \/ CommitScan(o) \/ StoreScan(o) \/ HaltWork(o) \/ EndIndex(o)
    \/ FinishOperation(o) \/ ReleaseSlot(o)

Next ==
    \/ \E o \in Ops :
        \/ \E who \in {"external", "native"}, what \in {"scan", "index"},
              q \in Requests \cup {NoRequest} : AskStart(o, who, what, q)
        \/ ReserveSlot(o) \/ RefuseStart(o)
        \/ Run(o)
    \/ \E c \in Callers :
        \/ \E o \in Ops : Ask(c, o)
        \/ Resend(c) \/ Authorize(c) \/ CancelSlot(c) \/ MarkCancelled(c)
        \/ Look(c) \/ CheckOwner(c)
    \/ WindowTakes \/ WindowReleases \/ WindowStops \/ Close

Spec == Init /\ [][Next]_vars

\* A job that holds the slot runs to its end.
FairSpec == Spec /\ \A o \in Ops : WF_vars(Run(o))

-------------------------------------------------------------------------------
(* Properties. *)

\* A call about a job that was visible when it was made is never told that the
\* job is unknown, unless MaxCompleted later jobs have pushed it out: the job
\* is in one of the two records at each of the two looks (operation,
\* finish_operation).
LookupNeverMisses == \A c \in Callers : answer[c] = "missing" => ref[c] \in evicted

\* Every job that is visible has its owner on record, so that no call about it
\* goes unchecked and its owner is never turned away (start_operation,
\* remember_operation_authority, the retain of finish_operation).
VisibleHasOwner == {active} \cup Range(history) \subseteq Range(authorities) \cup {NoWork}

\* The active job holds the slot, and a job that holds the slot and has been
\* started is the active one until its result is recorded: no job finds the
\* slot free and another job active (start_operation, finish_operation, the
\* leases of start_storage_scan).
ActiveHoldsSlot ==
    /\ active # NoWork => holder = active
    /\ \A o \in Ops : stage[o] \in {"started", "running", "committed", "worked"} => active = o

\* A storage scan whose status shows the cancellation request never completes
\* (cancel_control before request_operation_cancellation, begin_commit_inner).
MarkedScanNeverCompletes == \A o \in marked : Commits(o) => outcome[o] # "completed"

\* A job that became active is recorded with its result.
OperationEnds == \A o \in Ops : active = o ~> o \in Range(history) \cup evicted
===============================================================================
