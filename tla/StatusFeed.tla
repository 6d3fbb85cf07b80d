----------------------------- MODULE StatusFeed -----------------------------
(***************************************************************************)
(* How the window follows the jobs of chats (App.tsx and the senders in    *)
(* control_server.rs).  Every change of the status raises its revision     *)
(* under a lock and is sent after the lock is released, so two senders may *)
(* overtake one another; progress and the end of a job are sent once more, *)
(* as events with the revision of their status.  The answers to the        *)
(* window's own commands carry a status too and are not ordered with the   *)
(* events.  The window keeps the highest revision it has seen, the job it  *)
(* shows, and the job whose end it has handled.                            *)
(*                                                                         *)
(* The text and the figures of progress are left out.                      *)
(***************************************************************************)
EXTENDS Integers, Sequences

CONSTANTS
  Ops,          \* jobs that chats start
  Scans,        \* the storage scans among them, which the window shows
  NoOp,
  Commands,     \* commands of the window that answer with the status
  MaxProgress,  \* bound on the progress reports of a job
  MaxOwn        \* bound on the window's own scans

FeedAssumption ==
  Scans \subseteq Ops /\ NoOp \notin Ops /\ MaxProgress \in Nat /\ MaxOwn \in Nat

VARIABLES
  status,    \* the status: its revision, the active job and the last one
  job,       \* the jobs: what they do, how they ended
  command,   \* the commands of the window, the status they have taken
  stored,    \* generation of the stored scan report, 0 when there is none
  made,      \* generations given out
  channel,   \* events sent and not delivered
  answers,   \* answers to commands, sent and not delivered
  window,    \* what the window remembers and shows
  listening, \* 0..5, how far it is with its listeners and its first status
  loads,     \* its requests for a report, each with what it was answered
  own,       \* its own scan
  owns,      \* bound: own scans begun
  unheard,   \* history: jobs whose end was sent before anyone listened
  overtaken  \* history: jobs whose end no status tells the window any more

feedVars == <<status, job, command, stored, made>>
windowVars == <<window, listening, loads, unheard, overtaken>>
vars == <<feedVars, channel, answers, windowVars, own, owns>>

Outcomes == {"none", "completed", "failed", "cancelled"}
Stages == {"new", "starting", "active", "telling", "reporting", "finishing", "announcing", "ended"}
Statuses == [revision : Nat, active : Ops \cup {NoOp}, last : Ops \cup {NoOp}]
Events ==
  [type : {"status"}, status : Statuses]
    \cup [type : {"progress", "completed"}, revision : Nat, op : Ops]
Loads == [op : Ops, generation : Nat, answer : {"asked", "report", "error"}]

TypeOK ==
  /\ status \in Statuses
  /\ job \in [Ops -> [stage : Stages, taken : Statuses, told : 0 .. MaxProgress,
                      outcome : Outcomes, generation : Nat]]
  /\ command \in [Commands -> [stage : {"idle", "taken", "done"}, taken : Statuses]]
  /\ stored \in Nat /\ made \in Nat
  /\ channel \in Seq(Events) /\ answers \subseteq Statuses
  /\ window \in [revision : Nat, op : Ops \cup {NoOp}, handled : Ops \cup {NoOp}, loaded : Nat,
                 state : {"idle", "scanning", "success", "cancelled", "error"}]
  /\ listening \in 0 .. 5 /\ loads \subseteq Loads
  /\ own \in {"none", "asked", "running", "success", "failed"} /\ owns \in 0 .. MaxOwn
  /\ unheard \subseteq Ops /\ overtaken \subseteq Ops

Blank == [revision |-> 0, active |-> NoOp, last |-> NoOp]

Init ==
  /\ status = Blank
  /\ job = [o \in Ops |-> [stage |-> "new", taken |-> Blank, told |-> 0,
                           outcome |-> "none", generation |-> 0]]
  /\ command = [c \in Commands |-> [stage |-> "idle", taken |-> Blank]]
  /\ stored = 0 /\ made = 0 /\ channel = << >> /\ answers = {}
  /\ window = [revision |-> 0, op |-> NoOp, handled |-> NoOp, loaded |-> 0, state |-> "idle"]
  /\ listening = 0 /\ loads = {} /\ own = "none" /\ owns = 0
  /\ unheard = {} /\ overtaken = {}

StatusEvent(s) == [type |-> "status", status |-> s]
Event(type, o) == [type |-> type, revision |-> job[o].taken.revision, op |-> o]

-----------------------------------------------------------------------------
(* The jobs.  One has the work slot at a time (ScanRuntime) and keeps it     *)
(* until its end has been sent.                                              *)

SlotFree == own # "running" /\ \A o \in Ops : job[o].stage \in {"new", "ended"}

\* Every change of the status raises its revision and is copied under the lock.
Changed(active, last) ==
  [revision |-> status.revision + 1, active |-> active, last |-> last]

StartOperation(o) ==
  /\ job[o].stage = "new" /\ SlotFree
  /\ stored' = IF o \in Scans THEN 0 ELSE stored
  /\ status' = Changed(o, status.last)
  /\ job' = [job EXCEPT ![o].stage = "starting", ![o].taken = status']
  /\ UNCHANGED <<command, made, channel, answers, windowVars, own, owns>>

UpdateProgress(o) ==
  /\ job[o].stage = "active" /\ job[o].told < MaxProgress
  /\ status' = Changed(status.active, status.last)
  /\ job' = [job EXCEPT ![o].stage = "telling", ![o].taken = status', ![o].told = @ + 1]
  /\ UNCHANGED <<command, stored, made, channel, answers, windowVars, own, owns>>

\* A scan stores its report and then says that it has completed.
FinishOperation(o) ==
  /\ job[o].stage = "active"
  /\ \E outcome \in Outcomes \ {"none"} :
       LET stores == o \in Scans /\ outcome = "completed"
       IN /\ made' = IF stores THEN made + 1 ELSE made
          /\ stored' = IF stores THEN made' ELSE stored
          /\ status' = Changed(NoOp, o)
          /\ job' = [job EXCEPT ![o].stage = "finishing", ![o].taken = status',
                       ![o].outcome = outcome, ![o].generation = IF stores THEN made' ELSE 0]
  /\ UNCHANGED <<command, channel, answers, windowVars, own, owns>>

SendStatus(o) ==
  /\ job[o].stage \in {"starting", "telling", "finishing"}
  /\ channel' = Append(channel, StatusEvent(job[o].taken))
  /\ job' = [job EXCEPT ![o].stage =
               CASE @ = "starting" -> "active" [] @ = "telling" -> "reporting"
                 [] OTHER -> "announcing"]
  /\ UNCHANGED <<status, command, stored, made, answers, windowVars, own, owns>>

SendEvent(o) ==
  /\ job[o].stage \in {"reporting", "announcing"}
  /\ channel' = Append(channel,
       Event(IF job[o].stage = "reporting" THEN "progress" ELSE "completed", o))
  /\ job' = [job EXCEPT ![o].stage = IF @ = "reporting" THEN "active" ELSE "ended"]
  /\ UNCHANGED <<status, command, stored, made, answers, windowVars, own, owns>>

-----------------------------------------------------------------------------
(* A command that changes the permissions sends the status and answers with  *)
(* it.  A client that cancels a job has the status sent too, and is answered *)
(* itself.                                                                   *)

ChangePermissions(c) ==
  /\ command[c].stage = "idle" /\ listening = 5
  /\ status' = Changed(status.active, status.last)
  /\ command' = [command EXCEPT ![c] = [stage |-> "taken", taken |-> status']]
  /\ UNCHANGED <<job, stored, made, channel, answers, windowVars, own, owns>>

AnswerCommand(c) ==
  /\ command[c].stage = "taken"
  /\ channel' = Append(channel, StatusEvent(command[c].taken))
  /\ \/ answers' = answers \cup {command[c].taken}
     \/ command[c].taken.active # NoOp /\ UNCHANGED answers
  /\ command' = [command EXCEPT ![c].stage = "done"]
  /\ UNCHANGED <<status, job, stored, made, windowVars, own, owns>>

-----------------------------------------------------------------------------
(* What the window does with a status.                                       *)

\* The end of a job is handled once; a stored report is fetched.
HandleCompletion(w, o) ==
  IF w.handled = o THEN w
  ELSE IF job[o].outcome = "completed" THEN [w EXCEPT !.handled = o]
  ELSE [w EXCEPT !.handled = o, !.op = NoOp,
          !.state = IF job[o].outcome = "cancelled" THEN "cancelled" ELSE "error"]

\* The report that this asks for, unless it was loaded before.
Fetched(w, o) ==
  IF w.handled # o /\ job[o].outcome = "completed" /\ job[o].generation > w.loaded
    THEN {[op |-> o, generation |-> job[o].generation, answer |-> "asked"]}
    ELSE {}

\* An older status is dropped; one with an active scan shows it, and any other
\* one is asked for the end of the last job, when that was a scan.
ActsOnAnything(s) == TRUE
ActsOn(s) == s.revision >= window.revision
Shows(s) == s.active \in Scans
Ends(s) == ~Shows(s) /\ s.last \in Scans

Seen(w, s) == [w EXCEPT !.revision = s.revision]
Begun(w, o) ==
  IF w.op = o THEN w ELSE [w EXCEPT !.op = o, !.handled = NoOp, !.state = "scanning"]

\* History: a status that does not name a job whose end is still on its way,
\* or was sent before anyone listened.
Passes(s) ==
  {o \in Scans : /\ o # s.last /\ job[o].outcome # "none" /\ job[o].stage = "ended"
                 /\ \/ o \in unheard
                    \/ \E i \in DOMAIN channel :
                         channel[i].type = "completed" /\ channel[i].op = o}

ApplyControlStatus(s) ==
  IF ~ActsOn(s) THEN UNCHANGED <<window, loads, overtaken>>
  ELSE /\ overtaken' = overtaken \cup Passes(s)
       /\ \/ /\ Shows(s)
             /\ window' = Begun(Seen(window, s), s.active)
             /\ UNCHANGED loads
          \/ /\ Ends(s)
             /\ window' = HandleCompletion(Seen(window, s), s.last)
             /\ loads' = loads \cup Fetched(window, s.last)
          \/ /\ ~Shows(s) /\ ~Ends(s)
             /\ window' = Seen(window, s)
             /\ UNCHANGED loads

-----------------------------------------------------------------------------
(* The listeners.                                                            *)

\* connectControlBridge waits for one listener after the other and then asks
\* for the status.
Listen ==
  /\ listening < 3
  /\ listening' = listening + 1
  /\ UNCHANGED <<feedVars, channel, answers, window, loads, own, owns, unheard, overtaken>>

GetControlStatus ==
  /\ listening = 3
  /\ listening' = 4
  /\ answers' = answers \cup {status}
  /\ UNCHANGED <<feedVars, channel, window, loads, own, owns, unheard, overtaken>>

ReceiveAnswer(s) ==
  /\ s \in answers
  /\ answers' = answers \ {s}
  /\ listening' = IF listening = 4 THEN 5 ELSE listening
  /\ ApplyControlStatus(s)
  /\ UNCHANGED <<feedVars, channel, own, owns, unheard>>

Deliver ==
  /\ channel # << >>
  /\ channel' = Tail(channel)
  /\ LET e == Head(channel)
     IN CASE e.type = "status" /\ listening >= 1 ->
               ApplyControlStatus(e.status) /\ UNCHANGED unheard
          [] /\ e.type = "progress" /\ listening >= 2
             /\ e.revision >= window.revision /\ window.op = e.op ->
               /\ window' = [window EXCEPT !.revision = e.revision]
               /\ UNCHANGED <<loads, unheard, overtaken>>
          [] /\ e.type = "completed" /\ listening >= 3
             /\ e.revision >= window.revision /\ e.op \in Scans ->
               /\ window' = HandleCompletion([window EXCEPT !.revision = e.revision], e.op)
               /\ loads' = loads \cup Fetched(window, e.op)
               /\ UNCHANGED <<unheard, overtaken>>
          [] OTHER ->
               /\ unheard' = IF e.type = "completed" /\ listening < 3
                               THEN unheard \cup {e.op} ELSE unheard
               /\ UNCHANGED <<window, loads, overtaken>>
  /\ UNCHANGED <<feedVars, answers, listening, own, owns>>

\* The report is read when it is asked for, the window hears of it later.
ReadReport(l) ==
  /\ l \in loads /\ l.answer = "asked"
  /\ loads' = (loads \ {l}) \cup
       {[l EXCEPT !.answer = IF stored = l.generation THEN "report" ELSE "error"]}
  /\ UNCHANGED <<feedVars, channel, answers, window, listening, own, owns, unheard, overtaken>>

LoadScanResult(l) ==
  /\ l \in loads /\ l.answer # "asked"
  /\ loads' = loads \ {l}
  /\ window' =
       CASE l.answer = "report" /\ l.generation > window.loaded ->
              [window EXCEPT !.loaded = l.generation, !.op = NoOp, !.state = "success"]
         [] l.answer = "error" /\ window.handled = l.op ->
              [window EXCEPT !.op = NoOp, !.state = "error"]
         [] OTHER -> window
  /\ UNCHANGED <<feedVars, channel, answers, listening, own, owns, unheard, overtaken>>

-----------------------------------------------------------------------------
(* The window's own scan, which does without the status.                     *)

RunScan ==
  /\ own = "none" /\ owns < MaxOwn /\ window.state # "scanning"
  /\ own' = "asked" /\ owns' = owns + 1
  /\ window' = [window EXCEPT !.state = "scanning"]
  /\ UNCHANGED <<feedVars, channel, answers, listening, loads, unheard, overtaken>>

StartScan ==
  /\ own = "asked"
  /\ own' = IF SlotFree THEN "running" ELSE "failed"
  /\ stored' = IF SlotFree THEN 0 ELSE stored
  /\ UNCHANGED <<status, job, command, made, channel, answers, windowVars, owns>>

EndScan ==
  /\ own = "running"
  /\ own' \in {"success", "failed"}
  /\ made' = IF own' = "success" THEN made + 1 ELSE made
  /\ stored' = IF own' = "success" THEN made' ELSE stored
  /\ UNCHANGED <<status, job, command, channel, answers, windowVars, owns>>

ShowScan ==
  /\ own \in {"success", "failed"}
  /\ own' = "none"
  /\ window' = [window EXCEPT !.state = IF own = "success" THEN "success" ELSE "error"]
  /\ UNCHANGED <<feedVars, channel, answers, listening, loads, owns, unheard, overtaken>>

Next ==
  \/ \E o \in Ops : \/ StartOperation(o) \/ UpdateProgress(o) \/ FinishOperation(o)
                    \/ SendStatus(o) \/ SendEvent(o)
  \/ \E c \in Commands : ChangePermissions(c) \/ AnswerCommand(c)
  \/ Listen \/ GetControlStatus \/ Deliver
  \/ \E s \in answers : ReceiveAnswer(s)
  \/ \E l \in loads : ReadReport(l) \/ LoadScanResult(l)
  \/ RunScan \/ StartScan \/ EndScan \/ ShowScan

Spec == Init /\ [][Next]_vars

-----------------------------------------------------------------------------
(* Properties.                                                               *)

\* Nothing is under way to the window, or in a sender.
Quiet ==
  /\ listening = 5 /\ channel = << >> /\ answers = {} /\ loads = {} /\ own = "none"
  /\ \A o \in Ops : job[o].stage \in {"new", "active", "ended"}
  /\ \A c \in Commands : command[c].stage # "taken"

\* When all has arrived, the window shows a scan as running only if it runs:
\* no late or repeated status brings an ended one back.  Excepted is a scan
\* whose end the window can no longer learn: a status that names another job
\* as the last one came first, while the event of its end was still on its way
\* or when it had been sent before anyone listened (App.tsx drops the event
\* for its revision).
WindowSeesTheEnd ==
  Quiet /\ window.state = "scanning" =>
    window.op \in overtaken \/ (window.op \in Ops /\ job[window.op].stage = "active")

\* A report that is stored for a scan of a chat was shown to the user, with the
\* same exception.
ResultReachesTheWindow ==
  Quiet => \A o \in Scans \ overtaken :
             stored # 0 /\ job[o].generation = stored => window.loaded = stored
=============================================================================
