---------------------------- MODULE AssistantTurn ----------------------------
(* One question to an external AI command line program                        *)
(* (assistant_provider.rs): the turn claims the only provider slot, probes    *)
(* the installed program, and then asks it in rounds.  A round may return an  *)
(* action of the application, which is executed and whose result goes into    *)
(* the prompt of the next round.                                              *)
(*                                                                            *)
(* `flag` is the one cancellation flag of the state, shared by all turns: the *)
(* user, a change of the permission mode and the exit set it, and every turn  *)
(* clears it after its claim.                                                 *)
EXTENDS Integers, FiniteSets, Sequences

CONSTANTS
  Turns,       \* calls of ask_assistant
  Actions,     \* fingerprints of actions a program may ask for
  FileActions, \* those of the file workspace
  MaxActions,  \* MAX_INVESTIGATION_ACTIONS
  Candidates,  \* installations of the program that are probed at most
  MaxChanges   \* bound: changes of the permission mode

TurnAssumption ==
  /\ FileActions \subseteq Actions /\ MaxActions \in Nat \ {0} /\ Candidates \in Nat \ {0}
  /\ MaxChanges \in Nat
  /\ {"none", "final", "garbage"} \cap Actions = {}

VARIABLES
  running, flag,   \* AssistantProviderState.running and .cancellation
  registered,      \* the flag is in AssistantAccessState.cancellations
  epoch, change,   \* native_chat_epoch, progress of its invalidation
  hand,            \* a cancel_assistant call between its load and its store
  turn, child      \* the turns, and the process each has started

vars == <<running, flag, registered, epoch, change, hand, turn, child>>

New == [at |-> "idle", bind |-> 0, left |-> Candidates, round |-> 0,
        only |-> FALSE, fixed |-> FALSE, late |-> FALSE, action |-> "none",
        asked |-> {}, results |-> <<>>,
        out |-> "none", told |-> FALSE, since |-> 0]
\* `told` and `since` watch the turn: a stop reached it, actions begun since.

Init ==
  /\ running = FALSE /\ flag = FALSE /\ registered = FALSE
  /\ epoch = 0 /\ change = "done" /\ hand = "idle"
  /\ turn = [t \in Turns |-> New] /\ child = [t \in Turns |-> "none"]

At(t, a) == turn[t].at = a
Go(t, a) == turn' = [turn EXCEPT ![t].at = a]
\* ensure_chat_request_active.
Active(t) == turn[t].bind = epoch /\ ~flag
Over(t, out) ==
  turn' = [turn EXCEPT ![t] = [New EXCEPT !.at = "leave", !.out = out,
                                          !.told = turn[t].told, !.since = turn[t].since]]
Err(t) == Over(t, "error")
others == <<registered, epoch, change, hand>>

-----------------------------------------------------------------------------
(* ask_assistant_inner up to the first round.                                 *)

Capture(t) ==
  /\ At(t, "idle") /\ turn' = [turn EXCEPT ![t].at = "bound", ![t].bind = epoch]
  /\ UNCHANGED <<running, flag, child, others>>

\* A claim that does not look at the slot.
ClaimAnyway(t) ==
  /\ At(t, "bound") /\ running' = TRUE /\ Go(t, "claimed")
  /\ UNCHANGED <<flag, child, others>>

Claim(t) ==
  /\ At(t, "bound")
  /\ IF running THEN /\ turn' = [turn EXCEPT ![t] = [New EXCEPT !.at = "ended", !.out = "error"]]
                     /\ UNCHANGED running
                ELSE running' = TRUE /\ Go(t, "claimed")
  /\ UNCHANGED <<flag, child, others>>

Reset(t) ==
  /\ At(t, "claimed") /\ flag' = FALSE /\ Go(t, "reset")
  /\ UNCHANGED <<running, child, others>>

\* register_cancellation, under the permission mutex.
Register(t) ==
  /\ At(t, "reset")
  /\ IF turn[t].bind = epoch THEN registered' = TRUE /\ Go(t, "probe")
                             ELSE UNCHANGED registered /\ Err(t)
  /\ UNCHANGED <<running, flag, epoch, change, hand, child>>

\* inspect_candidate of one installation: what it asks of the program, each time
\* through status_probe_command, is one process here. It ends as healthy or broken.
Probe(t) ==
  /\ At(t, "probe")
  /\ \/ flag /\ Err(t) /\ UNCHANGED child
     \/ ~flag /\ Go(t, "probing") /\ child' = [child EXCEPT ![t] = "alive"]
  /\ UNCHANGED <<running, flag, others>>

\* resolve_candidates_cancellable: a healthy installation is taken, a broken
\* one is skipped, a timeout and an early stop kill the probe.
ProbeEnds(t) ==
  /\ At(t, "probing") /\ child' = [child EXCEPT ![t] = "none"]
  /\ \/ flag /\ Err(t)
     \/ ~flag /\ child[t] = "exited" /\ Go(t, "round")
     \/ ~flag /\ turn[t].left > 1
        /\ turn' = [turn EXCEPT ![t].at = "probe", ![t].left = @ - 1]
     \/ ~flag /\ turn[t].left = 1 /\ Err(t)
  /\ UNCHANGED <<running, flag, others>>

-----------------------------------------------------------------------------
(* One round: the program is asked under the deadline of the turn.            *)

Expire(t) ==
  /\ turn[t].at \in {"round", "asking", "answered", "admitted", "working"} /\ ~turn[t].late
  /\ turn' = [turn EXCEPT ![t].late = TRUE] /\ UNCHANGED <<running, flag, child, others>>

Round(t) ==
  /\ At(t, "round")
  /\ \/ ~Active(t) /\ Err(t) /\ UNCHANGED child
     \/ Active(t) /\ turn[t].late /\ Go(t, "publish") /\ UNCHANGED child
     \/ Active(t) /\ ~turn[t].late /\ Go(t, "asking") /\ child' = [child EXCEPT ![t] = "alive"]
  /\ UNCHANGED <<running, flag, others>>

\* A process ends by itself; status_probe_command and the reader of an answer see it.
ChildExits(t) ==
  /\ child[t] = "alive" /\ child' = [child EXCEPT ![t] = "exited"]
  /\ UNCHANGED <<running, flag, turn, others>>

\* Results that were obtained are kept when only the following call fails.
KeepOrFail(t) == IF flag \/ turn[t].results = <<>> THEN Err(t) ELSE Go(t, "publish")

\* The polling loop of run_provider_budget.
ReadAnswer(t) ==
  /\ At(t, "asking") /\ ~flag /\ child[t] = "exited" /\ Go(t, "answered")
  /\ child' = [child EXCEPT ![t] = "none"] /\ UNCHANGED <<running, flag, others>>

\* The flag, the response limit or the time limit: the process is killed; or
\* it exited with an error or an empty response.
GiveUpLeavingIt(t) ==
  /\ At(t, "asking") /\ KeepOrFail(t) /\ UNCHANGED <<running, flag, child, others>>
GiveUpWithoutLimit(t) ==
  /\ At(t, "asking") /\ (flag \/ child[t] = "exited") /\ KeepOrFail(t)
  /\ child' = [child EXCEPT ![t] = "none"] /\ UNCHANGED <<running, flag, others>>
GiveUp(t) ==
  /\ At(t, "asking") /\ KeepOrFail(t) /\ child' = [child EXCEPT ![t] = "none"]
  /\ UNCHANGED <<running, flag, others>>

\* FormatRecovery.schedule: one more round, for analysis only.
Garbage(t) ==
  IF ~turn[t].fixed /\ turn[t].round < MaxActions /\ ~turn[t].late
  THEN turn' = [turn EXCEPT ![t].at = "round", ![t].round = @ + 1,
                            ![t].fixed = TRUE, ![t].only = TRUE]
  ELSE IF turn[t].results = <<>> THEN Err(t) ELSE Go(t, "publish")

Interpret(t) ==
  /\ At(t, "answered")
  /\ \E reply \in Actions \cup {"garbage", "final"} :
       \/ ~Active(t) /\ Err(t)
       \/ Active(t) /\ reply = "garbage" /\ Garbage(t)
       \/ Active(t) /\ reply # "garbage" /\ (reply = "final" \/ turn[t].only \/ turn[t].late)
          /\ Go(t, "publish")
       \/ /\ Active(t) /\ reply \in Actions /\ ~turn[t].only /\ ~turn[t].late
          /\ \* Investigation.admit
             IF Cardinality(turn[t].asked) >= MaxActions \/ reply \in turn[t].asked
             THEN Go(t, "publish")
             ELSE turn' = [turn EXCEPT ![t].at = "admitted", ![t].action = reply,
                                       ![t].asked = @ \cup {reply}]
  /\ UNCHANGED <<running, flag, child, others>>

Dispatch(t) ==
  /\ At(t, "admitted")
  /\ turn' = [turn EXCEPT ![t].at = "working", ![t].since = IF turn[t].told THEN @ + 1 ELSE @]
  /\ UNCHANGED <<running, flag, child, others>>

\* The result of the action, with must_stop, the limit on recorded bytes and
\* the end of the loop over the rounds.
NextRound(t, status, only) ==
  \E full \in BOOLEAN :
    turn' = [turn EXCEPT ![t].at = IF full \/ turn[t].round = MaxActions THEN "publish" ELSE "round",
                         ![t].round = IF full THEN @ ELSE @ + 1,
                         ![t].results = Append(@, status), ![t].only = only,
                         ![t].action = "none"]
RecordAndGoOn(t, status) == NextRound(t, status, turn[t].only)
Record(t, status) == NextRound(t, status, turn[t].only \/ status # "completed")

Return(t) ==
  /\ At(t, "working")
  /\ \E status \in {"completed", "waiting", "failed"} :
       IF flag /\ (status = "failed" \/ turn[t].action \in FileActions)
       THEN Err(t) ELSE Record(t, status)
  /\ UNCHANGED <<running, flag, child, others>>

-----------------------------------------------------------------------------
(* The end: the response is made under the permission mutex, then the lease   *)
(* is dropped.                                                                *)

Publish(t) ==
  /\ At(t, "publish")
  /\ IF Active(t) THEN Over(t, "answer") ELSE Err(t)
  /\ UNCHANGED <<running, flag, child, others>>

Leave(t) ==
  /\ At(t, "leave") /\ running' = FALSE /\ Go(t, "ended")
  /\ UNCHANGED <<flag, child, others>>

-----------------------------------------------------------------------------
(* What stops a turn from outside.                                            *)

\* Turns past the reset of the flag and not yet at their end.
Working == {t \in Turns : turn[t].at \notin {"idle", "bound", "claimed", "leave", "ended"}}
Tell(S) == turn' = [t \in Turns |-> IF t \in S THEN [turn[t] EXCEPT !.told = TRUE] ELSE turn[t]]

CancelLooks ==
  /\ hand = "idle" /\ running /\ hand' = "seen"
  /\ UNCHANGED <<running, flag, registered, epoch, change, turn, child>>

CancelStores ==
  /\ hand = "seen" /\ hand' = "idle" /\ flag' = TRUE /\ Tell(Working)
  /\ UNCHANGED <<running, registered, epoch, change, child>>

\* configure_assistant_permission_mode, then assistant_access::invalidate.
ChangeMode ==
  /\ change = "done" /\ epoch < MaxChanges
  /\ epoch' = epoch + 1 /\ change' = "flag" /\ Tell(Working)
  /\ UNCHANGED <<running, flag, registered, hand, child>>

FlagJobs ==
  /\ change = "flag" /\ change' = "done" /\ flag' = (flag \/ registered) /\ registered' = FALSE
  /\ UNCHANGED <<running, epoch, hand, turn, child>>

Poll(t) == ReadAnswer(t) \/ GiveUp(t)
Step(t) ==
  \/ Claim(t) \/ Reset(t) \/ Register(t) \/ Probe(t) \/ ProbeEnds(t)
  \/ Round(t) \/ Poll(t) \/ Interpret(t) \/ Dispatch(t) \/ Return(t) \/ Publish(t) \/ Leave(t)
Steps == \E t \in Turns : Step(t)

Next ==
  \/ Steps
  \/ \E t \in Turns : Capture(t) \/ Expire(t) \/ ChildExits(t)
  \/ CancelLooks \/ CancelStores \/ ChangeMode \/ FlagJobs

\* The turn's own steps never wait without a limit: a process that hangs is
\* given up at its timeout, and an action of the application returns.
Spec == Init /\ [][Next]_vars /\ \A t \in Turns : WF_vars(Step(t))

-----------------------------------------------------------------------------
TypeOK ==
  /\ {running, flag, registered} \subseteq BOOLEAN
  /\ epoch \in 0..MaxChanges /\ change \in {"done", "flag"} /\ hand \in {"idle", "seen"}
  /\ child \in [Turns -> {"none", "alive", "exited"}]
  /\ \A t \in Turns : /\ turn[t].asked \subseteq Actions /\ turn[t].round \in 0..(MaxActions + 1)
                      /\ turn[t].out \in {"none", "error", "answer"}

\* A stop that reached a turn (the user's, or a change of mode) is final: the
\* turn says nothing, and begins at most the one action it had already
\* admitted.  It rests on one turn at a time, as each turn clears the flag.
StoppedTurnSaysNothing ==
  \A t \in Turns : turn[t].told => turn[t].out # "answer" /\ turn[t].since <= 1

\* "Never replay the app action" and "the model cannot turn a waiting/failure
\* result into another dispatch": an action follows completed ones only.
ActionsFollowCompletedOnes ==
  \A t \in Turns :
    LET r == turn[t].results
    IN  /\ \A i \in 1..(Len(r) - 1) : r[i] = "completed"
        /\ At(t, "working") => \A i \in DOMAIN r : r[i] = "completed"

\* No process of a turn is left when the turn is over, on any of its exits.
NoProcessIsLeft == \A t \in Turns : turn[t].at \in {"leave", "ended"} => child[t] = "none"

\* The provider slot is given back, whatever the program answers and whether
\* or not its process ever exits: otherwise every later question is refused.
SlotComesBack == running ~> ~running
=============================================================================
