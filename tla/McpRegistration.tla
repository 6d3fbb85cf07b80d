-------------------------- MODULE McpRegistration --------------------------
(***************************************************************************)
(* The entry the app writes into the configuration of an AI program, and   *)
(* the app's own record of it (mcp_registration.rs).  The configuration    *)
(* belongs to the other program: it is read and changed by running that    *)
(* program, which may fail or be killed after it has taken effect, and     *)
(* anyone else may change it between two of the app's steps.  The record   *)
(* is a file with a backup, replaced by renames, so that a crash between   *)
(* any two of them leaves one that can be read.                            *)
(*                                                                         *)
(* One AI program is modelled; the commands of the app are one at a time   *)
(* (McpRegistrationRuntime.gate).                                          *)
(***************************************************************************)
EXTENDS Integers

CONSTANTS
  Installs,     \* what an installed app registers: [place, version] records
  MaxChanges,   \* bound: how often somebody else changes the configuration
  MaxRestarts   \* bound: how often the app ends and starts again

McpAssumption ==
  /\ \A i \in Installs : DOMAIN i = {"place", "version"} /\ i.place \notin {"none", "other"}
  /\ MaxChanges \in Nat
  /\ MaxRestarts \in Nat

VARIABLES
  entry,    \* the entry of that name: "none", "other" or the place it runs
  main,     \* the app's record of its entry, NoReceipt when there is no file
  backup,   \* the record set aside
  install,  \* the app that runs: RegistrationEnvironment
  job,      \* the command that holds the gate
  changes, restarts

vars == <<entry, main, backup, install, job, changes, restarts>>

NoReceipt == [place |-> "none", version |-> 0]
Receipts == Installs \cup {NoReceipt}
Entries == {"none", "other"} \cup {i.place : i \in Installs}

\* load_receipt: the record, or the backup when there is no record
Loaded == IF main # NoReceipt THEN main ELSE backup

\* any entry of the name counts as the one recorded
SameName(receipt, e) == receipt # NoReceipt /\ e # "none"

\* receipt_matches_active: the record does not name a version of the entry
Matches(receipt, e) == receipt # NoReceipt /\ e = receipt.place

Idle == [pc |-> "idle", op |-> "", saw |-> "none", rec |-> NoReceipt, prev |-> NoReceipt,
         disturbed |-> FALSE, answer |-> ""]

Init ==
  /\ entry = "none" /\ main = NoReceipt /\ backup = NoReceipt
  /\ install \in Installs
  /\ job = Idle /\ changes = 0 /\ restarts = 0

At(pc) == job.pc = pc
Go(pc) == job' = [job EXCEPT !.pc = pc]
End(answer) == job' = [job EXCEPT !.pc = "end", !.answer = answer]
Files == <<main, backup>>
Outside == <<install, changes, restarts>>

Begin(op) ==
  /\ At("idle")
  /\ op = "unregister" => Loaded # NoReceipt
  /\ job' = [Idle EXCEPT !.pc = "look", !.op = op, !.rec = Loaded]
  /\ UNCHANGED <<entry, Files, Outside>>

(***************************************************************************)
(* A run of the other program.  A query answers or fails; a change may     *)
(* take effect or not whatever it answers.                                 *)
(***************************************************************************)
Query(yes(_), no) == \/ yes(entry) /\ UNCHANGED <<entry, Files, Outside>>
                     \/ no /\ UNCHANGED <<entry, Files, Outside>>

Command(e, ok, failed) ==
  /\ entry' \in {entry, e}
  /\ ok \/ failed
  /\ UNCHANGED <<Files, Outside>>

\* only an entry that matches the app's record is replaced or removed
Decide(e) ==
  IF job.op = "register"
  THEN CASE e = "none" -> job' = [job EXCEPT !.pc = "add", !.saw = e]
         [] Matches(job.rec, e) /\ job.rec = install -> job' = [job EXCEPT !.pc = "end", !.saw = e, !.answer = "same"]
         [] Matches(job.rec, e) /\ job.rec # install -> job' = [job EXCEPT !.pc = "remove", !.saw = e, !.prev = job.rec]
         [] OTHER -> End("refused")
  ELSE CASE e = "none" -> job' = [job EXCEPT !.pc = "forgetBackup", !.saw = e]
         [] Matches(job.rec, e) -> job' = [job EXCEPT !.pc = "remove", !.saw = e, !.prev = job.rec]
         [] OTHER -> End("refused")
Look == At("look") /\ Query(Decide, End("failed"))

Remove == At("remove") /\ Command("none", Go("absent"), End("failed"))

Absent ==
  /\ At("absent")
  /\ LET On(e) == CASE e # "none" -> End("failed")
                    [] e = "none" /\ job.op = "register" -> Go("add")
                    [] OTHER -> Go("forgetBackup")
     IN Query(On, End("failed"))

Add == At("add") /\ Command(install.place, Go("check"), Go("undoLook"))

Check ==
  /\ At("check")
  /\ LET On(e) == IF Matches(install, e) THEN Go("temp") ELSE Go("undoLook")
     IN Query(On, Go("undoLook"))

(***************************************************************************)
(* save_receipt, a file operation at a time; each may fail.                *)
(***************************************************************************)
WriteTemp ==
  /\ At("temp")
  /\ \/ Go(IF main = NoReceipt THEN "place" ELSE "dropBackup")
     \/ Go("undoLook")
  /\ UNCHANGED <<entry, Files, Outside>>

DropBackup ==
  /\ At("dropBackup")
  /\ \/ Go("setAside") /\ backup' = NoReceipt
     \/ backup # NoReceipt /\ Go("undoLook") /\ UNCHANGED backup
  /\ UNCHANGED <<entry, main, Outside>>

SetAside ==
  /\ At("setAside")
  /\ \/ Go("place") /\ backup' = main /\ main' = NoReceipt
     \/ Go("undoLook") /\ UNCHANGED Files
  /\ UNCHANGED <<entry, Outside>>

\* had_main: the job's record was not only in the backup
Place ==
  /\ At("place")
  /\ \/ Go("tidy") /\ main' = install
     \/ Go("putBack") /\ UNCHANGED main
  /\ UNCHANGED <<entry, backup, Outside>>

PutBack ==
  /\ At("putBack") /\ Go("undoLook")
  /\ \/ main' = backup /\ backup' = NoReceipt
     \/ UNCHANGED Files
  /\ UNCHANGED <<entry, Outside>>

Tidy ==
  /\ At("tidy") /\ End("registered")
  /\ backup' \in {backup, NoReceipt}
  /\ UNCHANGED <<entry, main, Outside>>

(***************************************************************************)
(* restore_after_failed_add: take the attempted entry out, put the         *)
(* previous one back, and ask whether it is there.                         *)
(***************************************************************************)
UndoLook ==
  /\ At("undoLook")
  /\ LET On(e) == CASE Matches(install, e) -> Go("undoRemove")
                    [] e = "none" -> Go("undoAdd")
                    [] OTHER -> End("not restored")
     IN Query(On, End("not restored"))

UndoRemove == At("undoRemove") /\ Command("none", Go("undoAbsent"), End("not restored"))

UndoAbsent ==
  /\ At("undoAbsent")
  /\ LET On(e) == IF e = "none" THEN Go("undoAdd") ELSE End("not restored")
     IN Query(On, End("not restored"))

UndoAdd ==
  /\ At("undoAdd") /\ job.prev # NoReceipt
  /\ Command(job.prev.place, Go("undoCheck"), End("not restored"))

\* a rollback that trusts the answer of the command
UndoUnchecked ==
  /\ At("undoCheck") \/ (At("undoAdd") /\ job.prev = NoReceipt)
  /\ End("restored") /\ UNCHANGED <<entry, Files, Outside>>

UndoCheck ==
  /\ At("undoCheck") \/ (At("undoAdd") /\ job.prev = NoReceipt)
  /\ LET On(e) == IF e = job.prev.place THEN End("restored") ELSE End("not restored")
     IN Query(On, End("not restored"))

(***************************************************************************)
(* remove_receipt: the backup first, or a crash in between would make an   *)
(* older record the one that is read.                                      *)
(***************************************************************************)
Undo == IF job.prev = NoReceipt THEN End("restored") ELSE Go("undoAdd")

ForgetMainFirst ==
  \/ /\ At("forgetBackup")
     /\ \/ Go("forgetMain") /\ main' = NoReceipt
        \/ main # NoReceipt /\ Undo /\ UNCHANGED main
     /\ UNCHANGED <<entry, backup, Outside>>
  \/ /\ At("forgetMain")
     /\ \/ End("unregistered") /\ backup' = NoReceipt
        \/ backup # NoReceipt /\ Undo /\ UNCHANGED backup
     /\ UNCHANGED <<entry, main, Outside>>

Forget ==
  \/ /\ At("forgetBackup")
     /\ \/ Go("forgetMain") /\ backup' = NoReceipt
        \/ backup # NoReceipt /\ Undo /\ UNCHANGED backup
     /\ UNCHANGED <<entry, main, Outside>>
  \/ /\ At("forgetMain")
     /\ \/ End("unregistered") /\ main' = NoReceipt
        \/ main # NoReceipt /\ Undo /\ UNCHANGED main
     /\ UNCHANGED <<entry, backup, Outside>>

Return == At("end") /\ job' = Idle /\ UNCHANGED <<entry, Files, Outside>>

Steps ==
  \/ Look \/ Remove \/ Absent \/ Add \/ Check
  \/ WriteTemp \/ DropBackup \/ SetAside \/ Place \/ PutBack \/ Tidy
  \/ UndoLook \/ UndoRemove \/ UndoAbsent \/ UndoAdd \/ UndoCheck
  \/ Forget

\* somebody else edits the configuration of the AI program
Change ==
  /\ changes < MaxChanges
  /\ entry' \in Entries \ {entry}
  /\ changes' = changes + 1
  /\ job' = [job EXCEPT !.disturbed = ~At("idle")]
  /\ UNCHANGED <<Files, install, restarts>>

\* the app ends, in the middle of a command perhaps, and starts again, perhaps after an update
Restart ==
  /\ restarts < MaxRestarts
  /\ restarts' = restarts + 1
  /\ install' \in Installs
  /\ job' = Idle
  /\ UNCHANGED <<entry, Files, changes>>

Next ==
  \/ \E op \in {"register", "unregister"} : Begin(op)
  \/ Steps
  \/ Return
  \/ Change
  \/ Restart

Spec == Init /\ [][Next]_vars

TypeOK ==
  /\ entry \in Entries
  /\ {main, backup, job.rec, job.prev} \subseteq Receipts
  /\ install \in Installs
  /\ job.saw \in Entries

(***************************************************************************)
(* What a command says of its end is true, unless somebody else changed    *)
(* the configuration meanwhile: "restored" (the message that the change    *)
(* was undone) means the entry and the record are those it began with, and *)
(* success means the entry and the record are the new ones                 *)
(* (mcp_registration.rs:480-517, 557-580).                                 *)
(***************************************************************************)
AnswerIsTrue ==
  At("end") /\ ~job.disturbed =>
    /\ job.answer = "restored" => entry = job.saw /\ Loaded = job.rec
    /\ job.answer = "registered" => entry = install.place /\ Loaded = install
    /\ job.answer = "unregistered" => entry = "none" /\ Loaded = NoReceipt

RecordOfJob ==
  Loaded' \in {Loaded, job.rec} \cup IF job.op = "register" THEN {install} ELSE {NoReceipt}

(***************************************************************************)
(* Wherever a save or a removal of the record stops, by an error or with   *)
(* the app, the record that is read next is the one before or the one      *)
(* being written: a backup left over by an earlier save never comes back   *)
(* (save_receipt, remove_receipt: mcp_registration.rs:964-1033).           *)
(***************************************************************************)
RecordNeverGoesBack == [][RecordOfJob]_vars

OtherEntryKept ==
  Steps /\ entry = "other" => entry' = "other" \/ job.disturbed

(***************************************************************************)
(* An entry of that name which the app did not write is removed or         *)
(* replaced by the app only when it appeared while the command ran         *)
(* (register_client_at, unregister_client_at: mcp_registration.rs:449-461, *)
(* 549-563).                                                               *)
(***************************************************************************)
OtherEntryStays == [][OtherEntryKept]_vars
=============================================================================
