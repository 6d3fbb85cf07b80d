----------------------------- MODULE ProviderCall -----------------------------
(***************************************************************************)
(* One call of an external AI program (run_provider_budget of              *)
(* assistant_provider.rs): its answer and its error log go through two     *)
(* private files, which the call watches, reads and removes.  The process  *)
(* it starts may be the command processor of a script, which starts the    *)
(* program (external_program.rs:25-29): the process alone is killed and    *)
(* waited for, the program writes for as long as it lives.                 *)
(***************************************************************************)
EXTENDS Integers

CONSTANTS
  MaxOutput, MaxErrors,  \* MAX_PROVIDER_OUTPUT_BYTES and MAX_PROVIDER_ERROR_BYTES, in units
  Providers              \* which of "own" and "stream": who makes the file of the answer

CallAssumption ==
  MaxOutput \in Nat \ {0} /\ MaxErrors \in Nat /\ Providers \subseteq {"own", "stream"}

VARIABLES
  provider, at, cancellation,
  response, errors,  \* lengths of the two files, Gone when there is none
  child, success,    \* the process that was started, and its exit status
  program,           \* whether the program of a script runs
  text, answer       \* what was read, and what the call returns

vars == <<provider, at, cancellation, response, errors, child, success, program, text, answer>>

Gone == -1
Unread == -2  \* a file that cannot be read, is too long, not text or blank

Init ==
  /\ provider \in Providers /\ at = "new" /\ cancellation = FALSE
  /\ response = Gone /\ errors = Gone /\ child = "none" /\ success = FALSE
  /\ program = FALSE /\ text = Gone /\ answer = Gone

Fail == at' = "failed" /\ UNCHANGED <<text, answer>>

(***************************************************************************)
(* Up to the spawn.  An early return leaves the files made so far.         *)
(***************************************************************************)
\* the prompt is too long, or the model, the folder or the schema is refused
Refuse ==
  /\ at = "new" /\ Fail
  /\ UNCHANGED <<provider, cancellation, response, errors, child, success, program>>

CreateLog ==
  /\ at = "new" /\ at' = "logged" /\ errors' = 0
  /\ UNCHANGED <<provider, cancellation, response, child, success, program, text, answer>>

\* the program of "stream" gets the file as its standard output
Configure ==
  /\ at = "logged" /\ at' = "ready" /\ response' = IF provider = "stream" THEN 0 ELSE Gone
  /\ UNCHANGED <<provider, cancellation, errors, child, success, program, text, answer>>

\* the model is not installed, an option is not known, or the process does not start
NotStarted ==
  /\ at \in {"logged", "ready"} /\ Fail
  /\ UNCHANGED <<provider, cancellation, response, errors, child, success, program>>

Spawn ==
  /\ at = "ready" /\ at' = "poll" /\ child' = "alive" /\ program' \in BOOLEAN
  /\ UNCHANGED <<provider, cancellation, response, errors, success, text, answer>>

(***************************************************************************)
(* The program, and the process that waits for it when it is a script's.   *)
(***************************************************************************)
\* What is written to a file that was removed is nowhere, but a program that
\* makes the file of the answer makes it again; all that is too long is one.
Write ==
  /\ child = "alive" \/ program
  /\ \/ /\ response >= 0 \/ provider = "own"
        /\ response <= MaxOutput /\ response' = response + 1 /\ UNCHANGED errors
     \/ errors \in 0..MaxErrors /\ errors' = errors + 1 /\ UNCHANGED response
  /\ UNCHANGED <<provider, at, cancellation, child, success, program, text, answer>>

ProgramEnds ==
  /\ program /\ program' = FALSE
  /\ UNCHANGED <<provider, at, cancellation, response, errors, child, success, text, answer>>

Exits ==
  /\ child = "alive" /\ ~program /\ child' = "exited" /\ success' \in BOOLEAN
  /\ UNCHANGED <<provider, at, cancellation, response, errors, program, text, answer>>

Cancel ==
  /\ ~cancellation /\ cancellation' = TRUE
  /\ UNCHANGED <<provider, at, response, errors, child, success, program, text, answer>>

(***************************************************************************)
(* The polling loop: it is left by the exit of the program, or by a kill.  *)
(***************************************************************************)
\* remove_private_file: an error is dropped, and the file stays
Removed == response' \in {Gone, response} /\ errors' \in {Gone, errors}

\* cancelled, over a limit, out of time, or a status that cannot be had: the
\* process is killed and waited for, the program of a script lives on
GiveUp ==
  /\ at \in {"poll", "wait"} /\ Fail /\ child' = "none" /\ Removed
  /\ UNCHANGED <<provider, cancellation, success, program>>

\* no cancel and no limit passed: the process is asked next, and may write meanwhile
Check ==
  /\ at = "poll" /\ at' = "wait" /\ ~cancellation /\ response <= MaxOutput /\ errors <= MaxErrors
  /\ UNCHANGED <<provider, cancellation, response, errors, child, success, program, text, answer>>

TryWait ==
  /\ at = "wait"
  /\ \/ child = "alive" /\ at' = "poll" /\ UNCHANGED child
     \/ child = "exited" /\ at' = "exited" /\ child' = "none"
  /\ UNCHANGED <<provider, cancellation, response, errors, success, program, text, answer>>

(***************************************************************************)
(* read_bounded_text, the removal of both files, and the result.           *)
(***************************************************************************)
\* the limit of the loop is trusted
FitsAlready == response >= 0
Fits == response \in 0..MaxOutput

Read ==
  /\ at = "exited" /\ at' = "read" /\ text' \in (IF Fits THEN {response, Unread} ELSE {Unread})
  /\ UNCHANGED <<provider, cancellation, response, errors, child, success, program, answer>>

Result ==
  /\ at = "read" /\ Removed
  /\ IF success /\ text > 0 THEN at' = "answered" /\ answer' = text /\ UNCHANGED text ELSE Fail
  /\ UNCHANGED <<provider, cancellation, child, success, program>>

Next ==
  \/ Refuse \/ CreateLog \/ Configure \/ NotStarted \/ Spawn
  \/ Write \/ ProgramEnds \/ Exits \/ Cancel
  \/ GiveUp \/ Check \/ TryWait \/ Read \/ Result

Spec == Init /\ [][Next]_vars

TypeOK ==
  /\ at \in {"new", "logged", "ready", "poll", "wait", "exited", "read", "answered", "failed"}
  /\ response \in Gone..(MaxOutput + 1) /\ errors \in Gone..(MaxErrors + 1)
  /\ child \in {"none", "alive", "exited"} /\ program \in BOOLEAN /\ text \in Unread..(MaxOutput + 1)

(***************************************************************************)
(* A call that returns has reaped the process it started.  What it returns *)
(* is within the limit and the whole answer of a program that has ended    *)
(* and succeeded: a file of it that could not be removed holds that answer *)
(* and will not change.  A program is left only by a call that gave up on  *)
(* it, after which its files may be written and even made again            *)
(* (assistant_provider.rs:1298-1402).                                      *)
(***************************************************************************)
CallIsClosed ==
  /\ at \in {"answered", "failed"} => child = "none"
  /\ at = "answered" => success /\ ~program /\ answer \in 1..MaxOutput /\ response \in {Gone, answer}
  /\ program => at \in {"poll", "wait"} \/ (at = "failed" /\ ~success)
===============================================================================
