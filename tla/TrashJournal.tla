------------------------------ MODULE TrashJournal ------------------------------
(***************************************************************************)
(* The write-ahead journal of the moves to the operating system's trash    *)
(* (trash_actions.rs) and the audit that explains interrupted moves after  *)
(* a restart (action_recovery.rs).  Both run under the single work slot,    *)
(* so one job at a time owns the journal; the application may be killed at  *)
(* any step, and any write may fail or be cut short.                       *)
(***************************************************************************)
EXTENDS Integers, Sequences, FiniteSets, SequencesExt

CONSTANTS
    Ops,        \* operation ids, each used once (operation_id)
    Items,      \* paths of files that may be moved
    NoOp,       \* no operation
    RotateAt,   \* lines at which the journal is rotated (MAX_ACTION_JOURNAL_BYTES)
    MaxInDoubt, \* operations one audit can analyse (MAX_RECOVERY_OPERATIONS)
    MaxFaults   \* bound on failed writes and crashes

JournalAssumption ==
    /\ NoOp \notin Ops
    /\ IsFiniteSet(Ops) /\ IsFiniteSet(Items)
    /\ RotateAt \in Nat \ {0} /\ MaxInDoubt \in Nat \ {0} /\ MaxFaults \in Nat

VARIABLES
    prev,       \* action-journal.previous.jsonl, a sequence of lines
    cur,        \* action-journal.jsonl
    openTail,   \* the last line of cur has no newline: the next record joins it
    faults,     \* failed writes and crashes so far
    atOrigin,   \* items present at their original path
    inTrash,    \* <<op, item>>: trash entries with the path and time of that move
    used,       \* operation ids handed out
    stage,      \* where the running job stands
    op,         \* the operation of a trash job, NoOp for an audit
    todo,       \* items a trash job has not reached
    item,       \* the items (one or none) it is moving now
    complete,   \* journal_complete
    queue,      \* records an audit still has to append
    attempts,   \* history: <<op, item>> the system was asked to move
    moved,      \* history: <<op, item>> the system answered Ok for
    settled,    \* history: operations whose terminal record was written without error
    joined,     \* history: those whose terminal record went into a torn line
    claims,     \* <<op, item>> reported as NotStarted by the audit that was the last job
    audited,    \* history: whether an audit began after the last rotation and left both files intact
    copying,    \* history: operations the running audit copies to cur
    cut,        \* history: operations whose checkpoint was cut short
    excused     \* history: operations rotated away when over, or with no audit in between

files == <<prev, cur, openTail>>
journal == <<files, faults>>
disk == <<atOrigin, inTrash>>
job == <<stage, op, todo, item, complete, queue>>
ghosts == <<attempts, moved, settled, joined, claims, audited, copying, cut, excused>>
vars == <<journal, disk, used, job, ghosts>>

Acts == {"moving", "moved", "failed"}
Terminals == {"completed", "reconciled"}
Events == Acts \cup Terminals \cup {"planned"}
Rec(event, o, S) == [event |-> event, op |-> o, items |-> S]
Garbled == Rec("garbled", NoOp, {})
Line == [event : Events, op : Ops, items : SUBSET Items] \cup {Garbled}
Stages == {"idle", "opening", "renaming", "ready", "item", "marked", "done", "failed", "closing"}

TypeOK ==
    /\ prev \in Seq(Line) /\ cur \in Seq(Line)
    /\ openTail \in BOOLEAN /\ faults \in 0..MaxFaults
    /\ atOrigin \subseteq Items /\ inTrash \subseteq Ops \X Items
    /\ used \subseteq Ops
    /\ stage \in Stages
    /\ op \in Ops \cup {NoOp}
    /\ todo \subseteq Items /\ item \subseteq Items
    /\ complete \in BOOLEAN
    /\ queue \in Seq(Line)
    /\ attempts \subseteq Ops \X Items /\ moved \subseteq Ops \X Items
    /\ settled \subseteq Ops /\ joined \subseteq Ops /\ claims \subseteq Ops \X Items
    /\ audited \in {"no", "running", "yes"}
    /\ copying \subseteq Ops /\ cut \subseteq Ops /\ excused \subseteq Ops

Init ==
    /\ prev = <<>> /\ cur = <<>> /\ openTail = FALSE /\ faults = 0
    /\ atOrigin = Items /\ inTrash = {}
    /\ used = {}
    /\ stage = "idle" /\ op = NoOp /\ todo = {} /\ item = {} /\ complete = TRUE /\ queue = <<>>
    /\ attempts = {} /\ moved = {} /\ settled = {} /\ joined = {} /\ claims = {}
    /\ audited = "no" /\ copying = {} /\ cut = {} /\ excused = {}

-------------------------------------------------------------------------------
(* Journal::record. *)

\* What the file becomes when r is written whole: a line without a newline
\* takes the record in and neither can be parsed any more.
With(file, torn, r) ==
    IF torn THEN [file EXCEPT ![Len(file)] = Garbled] ELSE Append(file, r)

Record(r) ==
    /\ cur' = With(cur, openTail, r)
    /\ openTail' = FALSE
    /\ UNCHANGED <<prev, faults>>

Fault == faults < MaxFaults /\ faults' = faults + 1

\* The write or the sync fails: nothing, a part of the line, the line without
\* its newline, or all of it may be on the disk.
RecordFails(r) ==
    /\ Fault
    /\ UNCHANGED prev
    /\ \/ UNCHANGED <<cur, openTail>>
       \/ cur' = With(cur, openTail, Garbled) /\ openTail' = TRUE
       \/ cur' = With(cur, openTail, r) /\ openTail' \in BOOLEAN

-------------------------------------------------------------------------------
(* What load_operations and apply_record read out of the two files. *)

Lines == prev \o cur
Of(o) == {n \in DOMAIN Lines : Lines[n].op = o}
Marks(o, i) == {n \in Of(o) : Lines[n].event \in Acts /\ i \in Lines[n].items}
Touched(o) == {i \in Items : Marks(o, i) # {}}
Known(o) == UNION {Lines[n].items : n \in Of(o)}
Event(o, i) == IF Marks(o, i) = {} THEN "none" ELSE Lines[Max(Marks(o, i))].event
\* A reader that looks for the terminal record in the current file only.
TerminalInCurrent(o) == \E n \in DOMAIN cur : cur[n].op = o /\ cur[n].event \in Terminals
Terminal(o) == \E n \in Of(o) : Lines[n].event \in Terminals
InDoubt == {o \in Ops : ~Terminal(o) /\ Touched(o) # {}}
\* A reader that marks the records of both files as current.
SeenInEither(o) == Of(o) # {}
SeenInCurrent(o) == \E n \in DOMAIN cur : cur[n].op = o
Intact == \A n \in DOMAIN Lines : Lines[n] # Garbled
\* The most recently written operations, up to the limit.
Selected ==
    {o \in InDoubt :
        Cardinality({p \in InDoubt : Max(Of(p)) > Max(Of(o))}) < MaxInDoubt}

\* reconcile_item: lookup says how the list of the system's trash was obtained.
Lookups == {"works", "fails", "unsupported"}
NeedsAttention(o, i, lookup) ==
    LET evidence == lookup = "works" /\ <<o, i>> \in inTrash
    IN  /\ Event(o, i) \in {"moving", "failed"}
        /\ IF i \in atOrigin THEN evidence \/ lookup = "fails" ELSE ~evidence
Resolved(o, lookup) == \A i \in Known(o) : ~NeedsAttention(o, i, lookup)

\* A checkpoint with a record for every item, touched or not.
CopyOfEvery(o, i) == <<Rec(Event(o, i), o, {i})>>

\* checkpoint_records, for one order of the items (a HashMap has any).
CopyOf(o, i) ==
    CASE Event(o, i) = "none" -> <<>>
      [] Event(o, i) = "failed" -> <<Rec("moving", o, {i}), Rec("failed", o, {i})>>
      [] OTHER -> <<Rec(Event(o, i), o, {i})>>
CheckpointRecords(o, order) ==
    <<Rec("planned", o, Known(o))>> \o FlattenSeq([n \in DOMAIN order |-> CopyOf(o, order[n])])

-------------------------------------------------------------------------------
(* Jobs begin and open the journal. *)

BeginTrash(o, S) ==
    /\ stage = "idle"
    /\ o \notin used
    /\ S # {}
    /\ used' = used \cup {o}
    /\ stage' = "opening" /\ op' = o /\ todo' = S /\ item' = {} /\ complete' = TRUE
    /\ claims' = {}
    /\ UNCHANGED <<journal, disk, queue,
                   attempts, moved, settled, joined, audited, copying, cut, excused>>

\* inspect_action_recovery up to the append; nothing is appended to files that
\* are damaged or hold more operations than one audit can analyse.
BeginAudit(lookup) ==
    LET resolved == {o \in Selected : Resolved(o, lookup)}
        copied == {o \in Selected : ~SeenInCurrent(o)} \ resolved
        sound == Intact /\ Cardinality(InDoubt) <= MaxInDoubt
    IN  /\ stage = "idle"
        /\ claims' = {p \in Selected \X Items : p[2] \in Known(p[1]) /\ Event(p[1], p[2]) = "none"}
        /\ IF sound /\ copied \cup resolved # {}
           THEN /\ stage' = "opening" /\ copying' = copied
                /\ \E opsOrder \in SetToSeqs(copied), endOrder \in SetToSeqs(resolved),
                      itemOrder \in [copied -> SetToSeqs(Items)] :
                        queue' = FlattenSeq([n \in DOMAIN opsOrder |->
                                     CheckpointRecords(opsOrder[n], itemOrder[opsOrder[n]])])
                                 \o [n \in DOMAIN endOrder |->
                                        Rec("reconciled", endOrder[n], {})]
           ELSE UNCHANGED <<stage, queue, copying>>
        /\ audited' = IF audited = "yes" \/ ~sound \/ openTail THEN audited
                      ELSE IF copied \cup resolved = {} THEN "yes"
                      ELSE "running"
        /\ UNCHANGED <<journal, disk, used, op, todo, item, complete,
                       attempts, moved, settled, joined, cut, excused>>

\* What ends a job before its time; a checkpoint that has begun stays cut.
EndJob == stage' = "idle" /\ op' = NoOp /\ todo' = {} /\ item' = {} /\ complete' = TRUE

Abandon ==
    /\ EndJob /\ queue' = <<>> /\ copying' = {}
    /\ cut' = cut \cup {o \in copying : SeenInCurrent(o)'}
    /\ audited' = IF audited = "running" THEN "no" ELSE audited
    /\ UNCHANGED <<disk, used,
                   attempts, moved, settled, joined, claims, excused>>

\* rotate_journal_if_needed, its two file operations and the ways they fail.
MustRotate == Len(cur) >= RotateAt

RemovePrevious ==
    /\ stage = "opening" /\ MustRotate /\ prev # <<>>
    /\ prev' = <<>>
    /\ stage' = "renaming"
    /\ excused' = excused \cup
          {o \in Ops : Terminal(o) \/ (audited # "yes" /\ \E n \in DOMAIN prev : prev[n].op = o)}
    /\ UNCHANGED <<cur, openTail, faults, disk, used, op, todo, item, complete, queue,
                   attempts, moved, settled, joined, claims, audited, copying, cut>>

RenameCurrent ==
    /\ stage = "renaming" \/ (stage = "opening" /\ MustRotate /\ prev = <<>>)
    /\ prev' = cur /\ cur' = <<>> /\ openTail' = FALSE
    /\ stage' = "ready"
    /\ audited' = "no"
    /\ UNCHANGED <<faults, disk, used, op, todo, item, complete, queue,
                   attempts, moved, settled, joined, claims, copying, cut, excused>>

OpenCurrent ==
    /\ stage = "opening" /\ ~MustRotate
    /\ stage' = "ready"
    /\ UNCHANGED <<journal, disk, used, op, todo, item, complete, queue, ghosts>>

OpenFails ==
    /\ stage \in {"opening", "renaming"}
    /\ Fault
    /\ UNCHANGED files
    /\ Abandon

-------------------------------------------------------------------------------
(* execute_with_journal. *)

KeepRest == UNCHANGED <<used, queue, settled, joined, claims, audited, copying, cut, excused>>
KeepJob == UNCHANGED op /\ KeepRest

RecordPlanned ==
    LET r == Rec("planned", op, todo)
    IN  /\ stage = "ready" /\ op # NoOp
        /\ \/ Record(r) /\ stage' = "item" /\ UNCHANGED <<op, todo, item, complete>>
           \/ RecordFails(r) /\ EndJob
        /\ UNCHANGED <<disk, attempts, moved>> /\ KeepRest

\* Cancelled, or the item no longer passes its safety check: the rest is skipped.
StopItems ==
    /\ stage = "item" /\ todo # {}
    /\ stage' = "closing"
    /\ UNCHANGED <<journal, disk, todo, item, complete, attempts, moved>> /\ KeepJob

\* A move that goes on although its start could not be recorded.
RecordMovingUnchecked(i) ==
    LET r == Rec("moving", op, {i})
    IN  /\ stage = "item" /\ i \in todo
        /\ i \in atOrigin
        /\ item' = {i} /\ todo' = todo \ {i}
        /\ Record(r) \/ RecordFails(r)
        /\ stage' = "marked" /\ complete' = complete
        /\ UNCHANGED <<disk, attempts, moved>> /\ KeepJob

RecordMoving(i) ==
    LET r == Rec("moving", op, {i})
    IN  /\ stage = "item" /\ i \in todo
        /\ i \in atOrigin
        /\ item' = {i} /\ todo' = todo \ {i}
        /\ \/ Record(r) /\ stage' = "marked" /\ complete' = complete
           \/ RecordFails(r) /\ stage' = "closing" /\ complete' = FALSE
        /\ UNCHANGED <<disk, attempts, moved>> /\ KeepJob

CancelMarked ==
    /\ stage = "marked"
    /\ stage' = "closing"
    /\ UNCHANGED <<journal, disk, todo, item, complete, attempts, moved>> /\ KeepJob

\* move_to_trash answers Ok, or an error after none, a part or all of the move.
MoveToTrash ==
    LET pairs == {<<op, i>> : i \in item}
    IN  /\ stage = "marked"
        /\ attempts' = attempts \cup pairs
        /\ \/ /\ stage' = "done" /\ moved' = moved \cup pairs
              /\ atOrigin' = atOrigin \ item /\ inTrash' = inTrash \cup pairs
           \/ /\ stage' = "failed" /\ moved' = moved
              /\ atOrigin' \in {atOrigin, atOrigin \ item}
              /\ inTrash' \in {inTrash, inTrash \cup pairs}
        /\ UNCHANGED <<journal, todo, item, complete>> /\ KeepJob

RecordMoved ==
    LET r == Rec("moved", op, item)
    IN  /\ stage = "done"
        /\ \/ Record(r) /\ stage' = "item" /\ complete' = complete
           \/ RecordFails(r) /\ stage' = "closing" /\ complete' = FALSE
        /\ UNCHANGED <<disk, todo, item, attempts, moved>> /\ KeepJob

\* An error of the system that leaves journal_complete set.
RecordFailedAsComplete ==
    LET r == Rec("failed", op, item)
    IN  /\ stage = "failed"
        /\ Record(r) \/ RecordFails(r)
        /\ stage' = "closing"
        /\ UNCHANGED <<disk, todo, item, complete, attempts, moved>> /\ KeepJob

\* The result of this write is ignored.
RecordFailed ==
    LET r == Rec("failed", op, item)
    IN  /\ stage = "failed"
        /\ Record(r) \/ RecordFails(r)
        /\ complete' = FALSE
        /\ stage' = "closing"
        /\ UNCHANGED <<disk, todo, item, attempts, moved>> /\ KeepJob

Settle(o) ==
    /\ settled' = settled \cup {o}
    /\ joined' = IF openTail THEN joined \cup {o} ELSE joined

RecordCompleted ==
    LET r == Rec("completed", op, {})
    IN  /\ stage = "closing" \/ (stage = "item" /\ todo = {})
        /\ IF complete
           THEN \/ Record(r) /\ Settle(op)
                \/ RecordFails(r) /\ UNCHANGED <<settled, joined>>
           ELSE UNCHANGED <<journal, settled, joined>>
        /\ EndJob
        /\ UNCHANGED <<disk, used, queue, attempts, moved, claims, audited, copying, cut, excused>>

-------------------------------------------------------------------------------
(* append_action_journal_records, the end of the audit. *)

AppendAudit ==
    LET r == Head(queue)
    IN  /\ stage = "ready" /\ op = NoOp
        /\ Record(r)
        /\ queue' = Tail(queue)
        /\ IF r.event = "reconciled" THEN Settle(r.op) ELSE UNCHANGED <<settled, joined>>
        /\ IF Len(queue) = 1
           THEN /\ stage' = "idle" /\ audited' = IF audited = "running" /\ Intact' THEN "yes" ELSE audited
                /\ copying' = {} /\ excused' = IF Intact' THEN excused \ copying ELSE excused
           ELSE UNCHANGED <<stage, audited, copying, excused>>
        /\ UNCHANGED <<disk, used, op, todo, item, complete, attempts, moved, claims, cut>>

AppendAuditFails ==
    /\ stage = "ready" /\ op = NoOp
    /\ RecordFails(Head(queue))
    /\ Abandon

\* The application dies; a write in flight is covered by the steps above.
Crash ==
    /\ stage # "idle"
    /\ Fault
    /\ UNCHANGED files
    /\ Abandon

-------------------------------------------------------------------------------
(* The rest of the computer.  Only the start of an audit and the safety check *)
(* of an item look at the disk, so these steps are taken between jobs.        *)

EmptyTrash ==
    /\ stage = "idle" /\ inTrash # {}
    /\ inTrash' = {}
    /\ UNCHANGED <<journal, atOrigin, used, job, ghosts>>

Recreate(i) ==
    /\ stage = "idle" /\ i \notin atOrigin
    /\ atOrigin' = atOrigin \cup {i}
    /\ UNCHANGED <<journal, inTrash, used, job, ghosts>>

Next ==
    \/ \E o \in Ops, S \in SUBSET Items : BeginTrash(o, S)
    \/ \E lookup \in Lookups : BeginAudit(lookup)
    \/ RemovePrevious \/ RenameCurrent \/ OpenCurrent \/ OpenFails
    \/ RecordPlanned
    \/ StopItems
    \/ \E i \in Items : RecordMoving(i) \/ Recreate(i)
    \/ CancelMarked
    \/ MoveToTrash
    \/ RecordMoved \/ RecordFailed \/ RecordCompleted
    \/ AppendAudit \/ AppendAuditFails
    \/ Crash
    \/ EmptyTrash

Spec == Init /\ [][Next]_vars

-------------------------------------------------------------------------------
(* Properties. *)

\* A `completed` record vouches for its operation: the system answered Ok for
\* every item it was asked to move (execute_with_journal clears
\* journal_complete on every path that leaves an item uncertain).
CompletedVouches ==
    \A n \in DOMAIN Lines : Lines[n].event = "completed" =>
        \A i \in Items : <<Lines[n].op, i>> \in attempts => <<Lines[n].op, i>> \in moved

\* An operation whose terminal record was written on a line of its own is never
\* taken up again by an audit, whatever is torn, rotated or copied afterwards.
SettledStaysSettled == (settled \ joined) \cap InDoubt = {}

\* Every item the system was asked to move is on record until its operation is
\* settled, except where an audit's checkpoint was cut short or nobody audited
\* between two rotations.
AttemptStaysOnRecord ==
    \A p \in attempts :
        Event(p[1], p[2]) # "none" \/ p[1] \in (settled \ joined) \cup cut \cup excused

\* The audit says "no move of this item was started" only of items that were
\* never handed to the system, unless a checkpoint of the operation was cut short.
NotStartedIsUntouched ==
    \A p \in claims \cap attempts : p[1] \in cut

\* docs/architecture/safe-trash-actions.md:60: an ambiguous operation left only
\* in the previous journal survives the next rotation as a checkpoint, provided
\* an audit ran.
CheckpointSurvivesRotation ==
    stage = "idle" =>
        \A p \in attempts : Event(p[1], p[2]) # "none" \/ p[1] \in settled \cup excused
===============================================================================
