---------------------------- MODULE MacSettings ----------------------------
(***************************************************************************)
(* One Finder setting the app may change and take back (mac_settings.rs).  *)
(* Every change is a row of a journal, committed before the value is       *)
(* written and marked after the value was read back.  The write is not     *)
(* atomic with the journal: the app may end, a write may fail with or      *)
(* without effect, a commit may fail, and the user may change the value in *)
(* between.  The commands run one at a time (MacSettingsState.gate).       *)
(***************************************************************************)
EXTENDS Integers, Sequences, FiniteSetsExt

CONSTANTS
  MaxHistory,   \* MAX_HISTORY: rows the journal keeps
  MaxEdits      \* bound: changes the user makes by other means

MacAssumption == MaxHistory \in Nat \ {0} /\ MaxEdits \in Nat

VARIABLES
  value,    \* the stored value of the setting
  rows,     \* mac_setting_changes, oldest first
  job,      \* apply or restore
  edits     \* changes by others

vars == <<value, rows, job, edits>>

Values == {"unset", "on", "off"}
Open == {"prepared", "restorePrepared"}
Statuses == Open \cup {"applied", "failed", "restored", "restoreFailed"}
Idle == [pc |-> "idle", row |-> 0, expected |-> "unset", target |-> "unset", restoring |-> FALSE]

Init ==
  /\ value \in Values /\ rows = <<>> /\ job = Idle /\ edits = 0

Go(pc) == job' = [job EXCEPT !.pc = pc]
Keep == UNCHANGED <<value, rows, edits>>

\* set_status, whose commit may fail
Mark(status, pc) ==
  /\ \/ rows' = [rows EXCEPT ![job.row].status = status] /\ Go(pc)
     \/ rows' = rows /\ job' = Idle
  /\ UNCHANGED <<value, edits>>

Unrestored == {i \in DOMAIN rows : rows[i].status # "restored"}
Oldest == IF Unrestored = {} THEN 0 ELSE Min(Unrestored)
Latest == IF Unrestored = {} THEN 0 ELSE Max(Unrestored)

(***************************************************************************)
(* apply: the value is the one the user saw, no row is unfinished, there   *)
(* is room, and the row is committed before anything is written.           *)
(***************************************************************************)
Apply(target) ==
  /\ job.pc = "idle" /\ value # target
  /\ \A i \in DOMAIN rows : rows[i].status \notin Open
  /\ Len(rows) < MaxHistory
  /\ job' = [Idle EXCEPT !.pc = "insert", !.expected = value, !.target = target]
  /\ Keep

Insert ==
  /\ job.pc = "insert"
  /\ \/ /\ rows' = Append(rows, [previous |-> job.expected, applied |-> job.target, status |-> "prepared"])
        /\ job' = [job EXCEPT !.pc = "recheck", !.row = Len(rows) + 1]
     \/ rows' = rows /\ job' = Idle
  /\ UNCHANGED <<value, edits>>

(***************************************************************************)
(* restore: only the latest row that is not restored.  A value that is the *)
(* applied one is written back; a row that never was confirmed may find    *)
(* the original in place, and then only the journal is completed.          *)
(***************************************************************************)
WriteBack(row) == value = row.applied
OriginalPresent(row) == row.status # "applied" /\ value = row.previous

Restore ==
  /\ job.pc = "idle" /\ Latest # 0
  /\ LET row == rows[Latest] IN
       /\ WriteBack(row) \/ OriginalPresent(row)
       /\ job' = [pc |-> IF OriginalPresent(row) THEN "finish" ELSE "mark", row |-> Latest,
                  expected |-> row.applied, target |-> row.previous, restoring |-> TRUE]
  /\ Keep

Finish ==
  /\ job.pc = "finish"
  /\ IF value = job.target THEN Mark("restored", "end") ELSE job' = Idle /\ Keep

Prepare == job.pc = "mark" /\ Mark("restorePrepared", "recheck")

(***************************************************************************)
(* execute_write: read once more, write, read back, mark.                  *)
(***************************************************************************)
Recheck ==
  /\ job.pc = "recheck" /\ Keep
  /\ \/ value = job.expected /\ Go("write")
     \/ Go("failed")

Write ==
  /\ job.pc = "write"
  /\ value' \in {value, job.target}
  /\ Go("readBack") \/ Go("failed")
  /\ UNCHANGED <<rows, edits>>

\* a written value that is not read back
TrustWrite == job.pc = "readBack" /\ Keep /\ Go("done")

ReadBack ==
  /\ job.pc = "readBack" /\ Keep
  /\ \/ value = job.target /\ Go("done")
     \/ Go("failed")

Done == job.pc = "done" /\ Mark(IF job.restoring THEN "restored" ELSE "applied", "end")
Failed == job.pc = "failed" /\ Mark(IF job.restoring THEN "restoreFailed" ELSE "failed", "end")
Return == job.pc = "end" /\ job' = Idle /\ Keep

\* the user, or another program, changes the value
Edit ==
  /\ edits < MaxEdits /\ edits' = edits + 1
  /\ value' \in Values \ {value}
  /\ UNCHANGED <<rows, job>>

\* the app ends within a command
Crash == job.pc # "idle" /\ job' = Idle /\ Keep

Steps == Insert \/ Finish \/ Prepare \/ Recheck \/ Write \/ ReadBack \/ Done \/ Failed

Next ==
  \/ \E target \in {"on", "off"} : Apply(target)
  \/ Restore
  \/ Steps
  \/ Return
  \/ Edit
  \/ Crash

Spec == Init /\ [][Next]_vars

TypeOK ==
  /\ value \in Values
  /\ \A i \in DOMAIN rows : rows[i].status \in Statuses /\ rows[i].previous \in Values
  /\ job.row \in 0..Len(rows)
  /\ Len(rows) <= MaxHistory

(***************************************************************************)
(* However the commands ended, the setting is never stranded: as long as   *)
(* nobody else changed the value, the latest change that is not taken back *)
(* can be taken back, and so one after the other every change              *)
(* (restore: mac_settings.rs:651-672, snapshot: 456-472).                  *)
(***************************************************************************)
NeverStranded ==
  edits = 0 /\ job.pc = "idle" /\ Latest # 0 =>
    WriteBack(rows[Latest]) \/ OriginalPresent(rows[Latest])

(***************************************************************************)
(* Taking back every change brings back the value the setting had before   *)
(* the first one, and an unfinished row is the latest that can be taken    *)
(* back (apply, restore: mac_settings.rs:597-603, 640-648).                *)
(***************************************************************************)
OriginalComesBack ==
  /\ edits = 0 /\ job.pc = "idle" /\ rows # <<>> /\ Latest = 0 => value = rows[1].previous
  /\ \A i \in DOMAIN rows : rows[i].status \in Open => i = Latest
=============================================================================
