--------------------------- MODULE PermissionStore ---------------------------
(***************************************************************************)
(* What the user permits and what of it is remembered                      *)
(* (permission_settings.rs and change_permissions, restore_permission_     *)
(* settings of control_server.rs): one record in a file of its own, written *)
(* before a change takes effect and read when the program starts.          *)
(***************************************************************************)
EXTENDS Integers

CONSTANTS
  Roots, Switches,   \* grants of a folder, and the others; "confirm" and "full" are the modes
  MaxChanges, MaxStarts

PermissionAssumption == {"confirm", "full"} \subseteq Switches /\ Roots \cap Switches = {}

VARIABLES
  up, held,      \* the program runs; what is permitted now
  file,          \* the remembered record
  job,           \* the change being made: it holds the mutex of the permissions
  warned,        \* the user was told that old grants may return
  blind,         \* the record could not be read when the program started
  present,       \* folders that are still what they were when they were granted
  changes, starts

vars == <<up, held, file, job, warned, blind, present, changes, starts>>

Grants == Roots \cup Switches
Lifetimes == {"session", "remember"}
Preferences == [lifetime : Lifetimes, grants : SUBSET Grants]
Default == [lifetime |-> "session", grants |-> {"confirm"}]
NoFile == [kind |-> "none", record |-> Default]
Unreadable == [kind |-> "empty", record |-> Default]  \* created, but without a table
Stored(p) == [kind |-> "record", record |-> p]
NoJob == [step |-> "none", prev |-> Default, next |-> Default]

Init ==
  /\ up = FALSE /\ held = Default /\ file = NoFile /\ job = NoJob /\ warned = FALSE
  /\ blind = FALSE /\ present = Roots /\ changes = 0 /\ starts = 0

Bounds == <<present, changes, starts>>

Persisted(p) == IF p.lifetime = "remember" THEN p ELSE Default

\* the modes are levels: readOnly, confirm, full
With(g) == held.grants \cup {g} \cup (IF g = "full" THEN {"confirm"} ELSE {})
Without(g) == held.grants \ ({g} \cup (IF g = "confirm" THEN {"full"} ELSE {}))

OnlyRestricts(next, prev) ==
  next.grants \subseteq prev.grants /\ ~(next.lifetime = "remember" /\ prev.lifetime = "session")

\* commit: nothing is written while a session stays a session
ForSession(prev, next) == next.lifetime = "session"
NothingToWrite(prev, next) == prev.lifetime = "session" /\ next.lifetime = "session"

Commit(prev, next) ==
  job' = [step |-> IF NothingToWrite(prev, next) THEN "install" ELSE "save", prev |-> prev, next |-> next]

Change ==
  /\ up /\ job = NoJob /\ changes < MaxChanges /\ changes' = changes + 1
  /\ \/ \E l \in Lifetimes : Commit(held, [held EXCEPT !.lifetime = l])
     \/ \E g \in present \cup Switches : Commit(held, [held EXCEPT !.grants = With(g)])
     \/ \E g \in Grants : Commit(held, [held EXCEPT !.grants = Without(g)])
  /\ UNCHANGED <<up, held, file, warned, blind, present, starts>>

Save ==
  /\ job.step = "save" /\ file' = Stored(Persisted(job.next))
  /\ job' = [job EXCEPT !.step = "install"]
  /\ UNCHANGED <<up, held, warned, blind, Bounds>>

\* a failed save may have created the file; only a restriction goes on without it
SaveFails ==
  /\ job.step = "save"
  /\ file' \in {file} \cup (IF file = NoFile THEN {Unreadable} ELSE {})
  /\ job' = IF OnlyRestricts(job.next, job.prev) THEN [job EXCEPT !.step = "forget"] ELSE NoJob
  /\ UNCHANGED <<up, held, warned, blind, Bounds>>

Install(p, w) == held' = p /\ warned' = w /\ job' = NoJob

Forget ==
  /\ job.step = "forget"
  /\ \/ file' = NoFile /\ Install([job.next EXCEPT !.lifetime = "session"], FALSE)
     \/ UNCHANGED file /\ Install([job.next EXCEPT !.lifetime = "remember"], TRUE)
  /\ UNCHANGED <<up, blind, Bounds>>

\* install_permissions
Apply ==
  /\ job.step = "install" /\ Install(job.next, FALSE)
  /\ UNCHANGED <<up, file, blind, Bounds>>

(***************************************************************************)
(* restore_permission_settings: a record that cannot be read restores      *)
(* nothing; folders that are no longer what they were are taken out of it. *)
(***************************************************************************)
Valid(p) == [p EXCEPT !.grants = @ \ (Roots \ present)]

Start ==
  /\ ~up /\ starts < MaxStarts /\ starts' = starts + 1 /\ up' = TRUE /\ warned' = FALSE /\ held' = Default
  /\ \/ /\ file.kind # "empty" /\ blind' = FALSE
        /\ IF Valid(file.record) = file.record
           THEN job' = [step |-> "install", prev |-> file.record, next |-> file.record]
           ELSE Commit(file.record, Valid(file.record))
     \/ file.kind # "none" /\ blind' = TRUE /\ job' = NoJob
  /\ UNCHANGED <<file, present, changes>>

\* the end of the program, anywhere
Exit ==
  /\ up /\ up' = FALSE /\ job' = NoJob /\ held' = Default /\ warned' = FALSE /\ blind' = FALSE
  /\ UNCHANGED <<file, Bounds>>

MoveFolder(r) ==
  /\ changes < MaxChanges /\ changes' = changes + 1
  /\ present' = IF r \in present THEN present \ {r} ELSE present \cup {r}
  /\ UNCHANGED <<up, held, file, job, warned, blind, starts>>

Next ==
  \/ Change \/ Save \/ SaveFails \/ Forget \/ Apply \/ Start \/ Exit
  \/ \E r \in Roots : MoveFolder(r)

Spec == Init /\ [][Next]_vars

TypeOK ==
  /\ held \in Preferences /\ file.record \in Preferences /\ file.kind \in {"none", "empty", "record"}
  /\ job.step \in {"none", "save", "forget", "install"} /\ warned \in BOOLEAN

(***************************************************************************)
(* A permission the user withdrew does not return at the next start: while *)
(* no change is under way the record holds nothing beyond what is          *)
(* permitted now or by default, whatever step of a save or of its          *)
(* replacement failed, unless the user was warned                          *)
(* (permission_settings.rs:228-322, control_server.rs:420-443).            *)
(***************************************************************************)
WithdrawnStaysWithdrawn ==
  up /\ job = NoJob /\ ~warned /\ ~blind => file.record.grants \subseteq held.grants \cup Default.grants
=============================================================================
