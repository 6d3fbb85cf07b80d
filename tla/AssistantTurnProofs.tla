------------------------- MODULE AssistantTurnProofs -------------------------
(***************************************************************************)
(* Proofs about the programs the application runs for itself and what it   *)
(* asks of them: AssistantTurn, for any turns, actions and installations,  *)
(* any limit on the actions and any number of changes of the mode;         *)
(* DocumentIndex, for any documents; ProviderCall, for any output;         *)
(* DockerCleanup, for any cleanups and previews; CleanupTree, for any      *)
(* jobs, scans and changes of the mode; AssistantSessions, for any         *)
(* commands, limits and crashes.                                           *)
(***************************************************************************)
EXTENDS AssistantTurn, FiniteSetTheorems, TLAPS

\* Stages with the provider slot, and those of them past the reset of the flag
\* and before the end.
Inside == {"reset", "probe", "probing", "round", "asking", "answered", "admitted", "working", "publish"}
Holding == Inside \cup {"claimed", "leave"}
Stages == Holding \cup {"idle", "bound", "ended"}
Statuses == {"completed", "waiting", "failed"}

\* A turn as it may be.
Turn == [at : Stages, bind : Nat, left : Nat, round : Nat, only : BOOLEAN, fixed : BOOLEAN,
         late : BOOLEAN, action : Actions \cup {"none"}, asked : SUBSET Actions,
         results : Seq(Statuses), out : {"none", "error", "answer"}, told : BOOLEAN, since : Nat]

\* A round is one of those allowed until the last one is over.
Counted(s) == s.round <= (IF s.at = "publish" THEN MaxActions + 1 ELSE MaxActions)

\* A stop that reached a turn is in force as long as the turn is at work: the
\* flag is set, or the mode is not the one the turn began in.  The turn begins no
\* action but one that it had admitted.
Stopped(s, cancelled, mode) ==
  /\ s.bind <= mode
  /\ s.at \notin {"leave", "ended"} => s.out = "none"
  /\ s.told => /\ s.at \in Inside \cup {"leave", "ended"} /\ s.out # "answer"
               /\ s.at \in Inside => cancelled \/ s.bind # mode
  /\ s.since <= 1
  /\ s.since # 0 => s.told /\ s.at \in {"working", "round", "publish", "leave", "ended"}

\* Only completed results are followed by another action.
Followed(s) ==
  /\ \A i \in 1 .. (Len(s.results) - 1) : s.results[i] = "completed"
  /\ ~s.only /\ s.at # "publish" => \A i \in 1 .. Len(s.results) : s.results[i] = "completed"
  /\ s.at \in {"admitted", "working"} => ~s.only

Sound(s, cancelled, mode) == s \in Turn /\ Counted(s) /\ Stopped(s, cancelled, mode) /\ Followed(s)

\* One turn at a time has the slot.
OneTurn ==
  \A t \in Turns : turn[t].at \in Holding =>
    running /\ \A q \in Turns : turn[q].at \in Holding => q = t

\* A process runs only while its turn waits for it.
Attended == \A t \in Turns : child[t] # "none" => turn[t].at \in {"probing", "asking"}

Flags ==
  /\ running \in BOOLEAN /\ flag \in BOOLEAN /\ registered \in BOOLEAN
  /\ epoch \in 0 .. MaxChanges /\ change \in {"done", "flag"} /\ hand \in {"idle", "seen"}
  /\ child \in [Turns -> {"none", "alive", "exited"}]

IInv ==
  /\ Flags /\ OneTurn /\ Attended
  /\ turn \in [Turns -> Turn] /\ \A t \in Turns : Sound(turn[t], flag, epoch)

-----------------------------------------------------------------------------
(* One record of a turn.                                                     *)

\* A new turn.
LEMMA NewSound ==
  ASSUME TurnAssumption, NEW cancelled, NEW mode \in Nat PROVE Sound(New, cancelled, mode)
<1>1. New \in Turn
  BY DEF TurnAssumption, New, Turn, Stages
<1>2. Len(New.results) = 0
  BY DEF New
<1> QED
  BY <1>1, <1>2 DEF TurnAssumption, New, Sound, Counted, Stopped, Followed

\* A turn at work goes on: one that was stopped after it began an action says
\* nothing any more, and only completed results are followed.
LEMMA GoesOn ==
  ASSUME NEW s, NEW cancelled, NEW mode, Sound(s, cancelled, mode), s.at \in Inside \ {"publish"},
         NEW at \in Inside \ {"publish"},
         s.since # 0 => at \in {"working", "round"}, at \in {"admitted", "working"} => ~s.only
  PROVE  Sound([s EXCEPT !.at = at], cancelled, mode)
BY DEF Sound, Turn, Counted, Stopped, Followed, Inside, Holding, Stages

\* A turn at work comes to its end with what it has.
LEMMA ComesToEnd ==
  ASSUME TurnAssumption, NEW s, NEW cancelled, NEW mode, Sound(s, cancelled, mode), s.at \in Inside
  PROVE  Sound([s EXCEPT !.at = "publish"], cancelled, mode)
BY DEF TurnAssumption, Sound, Turn, Counted, Stopped, Followed, Inside, Holding, Stages

\* A turn at work is over: with an answer only when it was not stopped.
LEMMA IsOver ==
  ASSUME TurnAssumption, NEW s, NEW cancelled, NEW mode \in Nat, Sound(s, cancelled, mode),
         s.at \in Inside, NEW out \in {"error", "answer"},
         out = "answer" => ~cancelled /\ s.bind = mode
  PROVE  Sound([New EXCEPT !.at = "leave", !.out = out, !.told = s.told, !.since = s.since],
               cancelled, mode)
<1>1. PICK n : n = New /\ n \in Turn /\ n.bind = 0 /\ n.round = 0 /\ n.results = <<>> /\ Len(n.results) = 0
  BY NewSound DEF Sound, New
<1>2. s.told \in BOOLEAN /\ s.since \in Nat /\ (s.told => out # "answer")
  BY DEF Sound, Turn, Stopped
<1>3. [n EXCEPT !.at = "leave", !.out = out, !.told = s.told, !.since = s.since] \in Turn
  BY <1>1, <1>2 DEF Turn, Stages, Holding
<1>4. PICK r : r = [n EXCEPT !.at = "leave", !.out = out, !.told = s.told, !.since = s.since]
  OBVIOUS
<1>5. /\ r \in Turn /\ r.at = "leave" /\ r.bind = 0 /\ r.round = 0 /\ r.results = n.results
      /\ r.out = out /\ r.told = s.told /\ r.since = s.since
  BY <1>1, <1>3, <1>4 DEF Turn
<1>6. Counted(r) /\ Followed(r)
  BY <1>1, <1>5 DEF TurnAssumption, Counted, Followed
<1>7. Stopped(r, cancelled, mode)
  BY <1>2, <1>5 DEF Sound, Stopped, Inside
<1> QED
  BY <1>1, <1>4, <1>5, <1>6, <1>7 DEF Sound

-----------------------------------------------------------------------------
\* A step of one turn, which keeps the slot or does without it.
LEMMA OneMoves ==
  ASSUME IInv, NEW t \in Turns, NEW s, Sound(s, flag, epoch), turn' = [turn EXCEPT ![t] = s],
         UNCHANGED <<running, flag, epoch, change, hand>>, registered' \in BOOLEAN,
         s.at \in Holding => turn[t].at \in Holding,
         NEW c \in {"none", "alive", "exited"}, child' = [child EXCEPT ![t] = c],
         c # "none" => s.at \in {"probing", "asking"}
  PROVE  IInv'
<1>1. s \in Turn /\ turn \in [Turns -> Turn] /\ child \in [Turns -> {"none", "alive", "exited"}]
  BY DEF IInv, Flags, Sound
<1>2. \A q \in Turns : turn'[q] = IF q = t THEN s ELSE turn[q]
  BY <1>1
<1>3. turn' \in [Turns -> Turn]
  BY <1>1
<1>4. \A q \in Turns : Sound(turn'[q], flag', epoch')
  BY <1>2 DEF IInv
<1>5. Flags'
  BY <1>1 DEF IInv, Flags
<1>6. OneTurn'
  BY <1>2 DEF IInv, OneTurn
<1>7. Attended'
  BY <1>1, <1>2 DEF IInv, Attended
<1> QED
  BY <1>3, <1>4, <1>5, <1>6, <1>7 DEF IInv

\* What the invariant says of one turn.
LEMMA Known ==
  ASSUME IInv, NEW t \in Turns
  PROVE  /\ Sound(turn[t], flag, epoch) /\ turn[t] \in Turn /\ turn \in [Turns -> Turn]
         /\ epoch \in Nat /\ child \in [Turns -> {"none", "alive", "exited"}]
         /\ running \in BOOLEAN /\ flag \in BOOLEAN /\ registered \in BOOLEAN
BY DEF IInv, Flags

\* A turn that does not wait for a process has none.
LEMMA NoChild ==
  ASSUME IInv, NEW t \in Turns, turn[t].at \notin {"probing", "asking"}
  PROVE  child = [child EXCEPT ![t] = "none"]
<1>1. child[t] = "none" /\ child \in [Turns -> {"none", "alive", "exited"}]
  BY DEF IInv, Attended, Flags
<1> QED
  BY <1>1

\* A turn at work that goes on, or is over, and leaves no process.
LEMMA WorkGoesOn ==
  ASSUME TurnAssumption, IInv, NEW t \in Turns, turn[t].at \in Inside \ {"publish"},
         NEW at \in Inside \ {"probing", "asking"}, Go(t, at),
         turn[t].since # 0 => at \in {"working", "round", "publish"},
         at \in {"admitted", "working"} => ~turn[t].only,
         UNCHANGED <<running, flag, epoch, change, hand>>, registered' \in BOOLEAN,
         child' = [child EXCEPT ![t] = "none"]
  PROVE  IInv'
<1> DEFINE s == [turn[t] EXCEPT !.at = at]
<1>1. Sound(turn[t], flag, epoch) /\ turn[t] \in Turn
  BY Known
<1>2. Sound(s, flag, epoch)
  <2>1. CASE at = "publish"
    BY <1>1, <2>1, ComesToEnd
  <2>2. CASE at # "publish"
    BY <1>1, <2>2, GoesOn
  <2> QED
    BY <2>1, <2>2
<1>3. turn' = [turn EXCEPT ![t] = s]
  BY DEF Go
<1>4. turn[t].at \in Holding
  BY DEF Holding
<1> HIDE DEF s
<1> QED
  BY <1>2, <1>3, <1>4, OneMoves

LEMMA WorkIsOver ==
  ASSUME TurnAssumption, IInv, NEW t \in Turns, turn[t].at \in Inside,
         NEW out \in {"error", "answer"}, out = "answer" => Active(t), Over(t, out),
         UNCHANGED <<running, flag, epoch, change, hand>>, registered' \in BOOLEAN,
         child' = [child EXCEPT ![t] = "none"]
  PROVE  IInv'
<1> DEFINE s == [New EXCEPT !.at = "leave", !.out = out, !.told = turn[t].told, !.since = turn[t].since]
<1>1. Sound(s, flag, epoch)
  BY Known, IsOver DEF Active
<1>2. turn' = [turn EXCEPT ![t] = s]
  BY DEF Over
<1>3. turn[t].at \in Holding
  BY DEF Holding
<1> HIDE DEF s
<1> QED
  BY <1>1, <1>2, <1>3, OneMoves

-----------------------------------------------------------------------------
\* A turn before its work or after it: no stop has reached it, or it is over.
LEMMA Aside ==
  ASSUME NEW s, NEW r \in Turn, NEW cancelled, NEW after, NEW mode, Sound(s, cancelled, mode),
         s.at # "publish", r.at \in {"bound", "claimed", "reset", "ended"}, r.bind <= mode,
         ~s.told \/ (s.at = "leave" /\ r.at = "ended" /\ r.out = s.out),
         r.at # "ended" => r.out = "none",
         r.round = s.round /\ r.results = s.results /\ r.only = s.only,
         r.told = s.told /\ r.since = s.since
  PROVE  Sound(r, after, mode)
<1>1. Counted(r) /\ Followed(r)
  BY DEF Sound, Counted, Followed
<1>2. Stopped(r, after, mode)
  BY DEF Sound, Stopped, Inside
<1> QED
  BY <1>1, <1>2 DEF Sound

\* The way to the slot.
LEMMA CaptureStep ==
  ASSUME TurnAssumption, IInv, NEW t \in Turns, Capture(t) PROVE IInv'
<1> DEFINE s == [turn[t] EXCEPT !.at = "bound", !.bind = epoch]
<1>1. turn' = [turn EXCEPT ![t] = s] /\ turn[t].at = "idle"
  BY Known DEF Capture, At
<1>2. Sound(s, flag, epoch) /\ s.at = "bound"
  <2>1. /\ s \in Turn /\ s.at = "bound" /\ s.bind = epoch /\ s.out = turn[t].out
        /\ s.round = turn[t].round /\ s.results = turn[t].results /\ s.only = turn[t].only
        /\ s.told = turn[t].told /\ s.since = turn[t].since
    BY Known DEF Turn, Stages
  <2>2. epoch <= epoch /\ ~turn[t].told /\ turn[t].out = "none"
    BY <1>1, Known DEF Sound, Stopped, Inside
  <2> HIDE DEF s
  <2> QED
    BY <1>1, <2>1, <2>2, Known, Aside
<1>3. child' = [child EXCEPT ![t] = "none"]
  BY <1>1, NoChild DEF Capture
<1>4. UNCHANGED <<running, flag, epoch, change, hand>> /\ registered' \in BOOLEAN
  BY Known DEF Capture, others
<1>5. s.at \notin Holding
  BY <1>2 DEF Holding, Inside
<1> HIDE DEF s
<1> QED
  BY <1>1, <1>2, <1>3, <1>4, <1>5, OneMoves

LEMMA ClaimStep ==
  ASSUME TurnAssumption, IInv, NEW t \in Turns, Claim(t) PROVE IInv'
<1>1. turn[t].at = "bound" /\ UNCHANGED <<flag, child, epoch, change, hand, registered>>
  BY DEF Claim, At, others
<1>2. child' = [child EXCEPT ![t] = "none"]
  BY <1>1, NoChild
<1>3. CASE running
  <2> DEFINE s == [New EXCEPT !.at = "ended", !.out = "error"]
  <2>1. turn' = [turn EXCEPT ![t] = s] /\ UNCHANGED running
    BY <1>3 DEF Claim
  <2>2. Sound(s, flag, epoch) /\ s.at = "ended"
    <3>1. PICK n : n = New /\ Sound(n, flag, epoch)
      BY NewSound, Known
    <3>2. n.told = FALSE /\ n.since = 0
      BY <3>1 DEF New
    <3>3. PICK r : r = [n EXCEPT !.at = "ended", !.out = "error"]
      OBVIOUS
    <3>4. /\ r \in Turn /\ r.at = "ended" /\ r.bind = n.bind /\ r.round = n.round
          /\ r.results = n.results /\ r.only = n.only /\ r.told = n.told /\ r.since = n.since
      BY <3>1, <3>3 DEF Sound, Turn, Stages
    <3>5. n.bind <= epoch /\ n.at # "publish"
      BY <3>1 DEF Sound, Stopped, New
    <3>6. Sound(r, flag, epoch)
      BY <3>1, <3>2, <3>4, <3>5, Aside
    <3> QED
      BY <3>1, <3>3, <3>4, <3>6
  <2>3. s.at \notin Holding
    BY <2>2 DEF Holding, Inside
  <2>4. registered' \in BOOLEAN
    BY <1>1, Known
  <2> HIDE DEF s
  <2> QED
    BY <1>1, <1>2, <2>1, <2>2, <2>3, <2>4, OneMoves
<1>4. CASE ~running
  <2> DEFINE s == [turn[t] EXCEPT !.at = "claimed"]
  <2>1. turn' = [turn EXCEPT ![t] = s] /\ running' = TRUE
    BY <1>4 DEF Claim, Go
  <2>2. Sound(s, flag, epoch) /\ s.at = "claimed"
    <3>1. /\ s \in Turn /\ s.at = "claimed" /\ s.bind = turn[t].bind /\ s.out = turn[t].out
          /\ s.round = turn[t].round /\ s.results = turn[t].results /\ s.only = turn[t].only
          /\ s.told = turn[t].told /\ s.since = turn[t].since
      BY Known DEF Turn, Stages, Holding, Inside
    <3>2. turn[t].bind <= epoch /\ ~turn[t].told /\ turn[t].out = "none"
      BY <1>1, Known DEF Sound, Stopped, Inside
    <3> HIDE DEF s
    <3> QED
      BY <1>1, <3>1, <3>2, Known, Aside
  <2> HIDE DEF s
  <2>3. \A q \in Turns : turn'[q] = IF q = t THEN s ELSE turn[q]
    BY <2>1, Known
  <2>4. turn' \in [Turns -> Turn] /\ \A q \in Turns : Sound(turn'[q], flag', epoch')
    BY <1>1, <2>1, <2>2, <2>3, Known DEF IInv, Sound
  <2>5. OneTurn'
    BY <1>4, <2>1, <2>3 DEF IInv, OneTurn
  <2>6. Attended'
    BY <1>1, <2>3 DEF IInv, Attended
  <2>7. Flags'
    BY <1>1, <2>1 DEF IInv, Flags
  <2> QED
    BY <2>4, <2>5, <2>6, <2>7 DEF IInv
<1> QED
  BY <1>3, <1>4, Known

\* The flag is cleared for one turn only: no other is past its claim.
LEMMA ResetStep ==
  ASSUME TurnAssumption, IInv, NEW t \in Turns, Reset(t) PROVE IInv'
<1> DEFINE s == [turn[t] EXCEPT !.at = "reset"]
<1>1. turn[t].at = "claimed" /\ flag' = FALSE /\ UNCHANGED <<running, child, epoch, change, hand, registered>>
  BY DEF Reset, At, others
<1>2. turn' = [turn EXCEPT ![t] = s]
  BY DEF Reset, Go
<1>3. Sound(s, FALSE, epoch) /\ s.at = "reset"
  <2>1. /\ s \in Turn /\ s.at = "reset" /\ s.bind = turn[t].bind /\ s.out = turn[t].out
        /\ s.round = turn[t].round /\ s.results = turn[t].results /\ s.only = turn[t].only
        /\ s.told = turn[t].told /\ s.since = turn[t].since
    BY Known DEF Turn, Stages, Holding, Inside
  <2>2. turn[t].bind <= epoch /\ ~turn[t].told /\ turn[t].out = "none"
    BY <1>1, Known DEF Sound, Stopped, Inside
  <2> HIDE DEF s
  <2> QED
    BY <1>1, <2>1, <2>2, Known, Aside
<1> HIDE DEF s
<1>4. \A q \in Turns : turn'[q] = IF q = t THEN s ELSE turn[q]
  BY <1>2, Known
<1>5. ASSUME NEW q \in Turns, q # t PROVE Sound(turn[q], FALSE, epoch)
  <2>1. turn[q].at \notin Inside
    BY <1>1, <1>5 DEF IInv, OneTurn, Holding
  <2> QED
    BY <2>1, Known DEF Sound, Stopped
<1>6. turn' \in [Turns -> Turn] /\ \A q \in Turns : Sound(turn'[q], flag', epoch')
  BY <1>1, <1>2, <1>3, <1>4, <1>5, Known DEF Sound
<1>7. OneTurn'
  BY <1>1, <1>3, <1>4 DEF IInv, OneTurn, Holding, Inside
<1>8. Attended'
  BY <1>1, <1>4 DEF IInv, Attended
<1>9. Flags'
  BY <1>1 DEF IInv, Flags
<1> QED
  BY <1>6, <1>7, <1>8, <1>9 DEF IInv

LEMMA LeaveStep ==
  ASSUME TurnAssumption, IInv, NEW t \in Turns, Leave(t) PROVE IInv'
<1> DEFINE s == [turn[t] EXCEPT !.at = "ended"]
<1>1. turn[t].at = "leave" /\ running' = FALSE /\ UNCHANGED <<flag, child, epoch, change, hand, registered>>
  BY DEF Leave, At, others
<1>2. turn' = [turn EXCEPT ![t] = s]
  BY DEF Leave, Go
<1>3. Sound(s, flag, epoch) /\ s.at = "ended"
  <2>1. /\ s \in Turn /\ s.at = "ended" /\ s.bind = turn[t].bind /\ s.out = turn[t].out
        /\ s.round = turn[t].round /\ s.results = turn[t].results /\ s.only = turn[t].only
        /\ s.told = turn[t].told /\ s.since = turn[t].since
    BY Known DEF Turn, Stages, Holding, Inside
  <2>2. turn[t].bind <= epoch
    BY <1>1, Known DEF Sound, Stopped, Inside
  <2> HIDE DEF s
  <2> QED
    BY <1>1, <2>1, <2>2, Known, Aside
<1> HIDE DEF s
<1>4. \A q \in Turns : turn'[q] = IF q = t THEN s ELSE turn[q]
  BY <1>2, Known
<1>5. turn' \in [Turns -> Turn] /\ \A q \in Turns : Sound(turn'[q], flag', epoch')
  BY <1>1, <1>2, <1>3, <1>4, Known DEF IInv, Sound
<1>6. OneTurn'
  BY <1>1, <1>3, <1>4 DEF IInv, OneTurn, Holding, Inside
<1>7. Attended'
  BY <1>1, <1>4 DEF IInv, Attended
<1>8. Flags'
  BY <1>1 DEF IInv, Flags
<1> QED
  BY <1>5, <1>6, <1>7, <1>8 DEF IInv

-----------------------------------------------------------------------------
\* The work.
LEMMA RegisterStep ==
  ASSUME TurnAssumption, IInv, NEW t \in Turns, Register(t) PROVE IInv'
<1>1. turn[t].at = "reset" /\ UNCHANGED <<running, flag, epoch, change, hand>> /\ registered' \in BOOLEAN
  BY Known DEF Register, At
<1>2. turn[t].at \in Inside \ {"publish"} /\ turn[t].since = 0
  BY <1>1, Known DEF Inside, Sound, Stopped
<1>3. child' = [child EXCEPT ![t] = "none"]
  BY <1>1, NoChild DEF Register
<1>4. CASE Go(t, "probe")
  BY <1>1, <1>2, <1>3, <1>4, WorkGoesOn DEF Inside
<1>5. CASE Err(t)
  BY <1>1, <1>2, <1>3, <1>5, WorkIsOver DEF Err
<1> QED
  BY <1>4, <1>5 DEF Register

LEMMA ProbeStep ==
  ASSUME TurnAssumption, IInv, NEW t \in Turns, Probe(t) \/ ProbeEnds(t) PROVE IInv'
<1>1. turn[t].at \in {"probe", "probing"} /\ UNCHANGED <<running, flag, epoch, change, hand, registered>>
  BY DEF Probe, ProbeEnds, At, others
<1>2. turn[t].at \in Inside \ {"publish"} /\ turn[t].since = 0 /\ registered' \in BOOLEAN
  BY <1>1, Known DEF Inside, Sound, Stopped
<1>3. CASE Err(t) /\ (UNCHANGED child \/ child' = [child EXCEPT ![t] = "none"])
  <2>1. child' = [child EXCEPT ![t] = "none"]
    BY <1>3, NoChild DEF Probe, ProbeEnds, At
  <2> QED
    BY <1>1, <1>2, <1>3, <2>1, WorkIsOver DEF Err
<1>4. CASE Go(t, "probing") /\ child' = [child EXCEPT ![t] = "alive"]
  <2> DEFINE s == [turn[t] EXCEPT !.at = "probing"]
  <2>1. Sound(s, flag, epoch) /\ s.at = "probing"
    <3>1. "probing" \in Inside \ {"publish"}
      BY DEF Inside
    <3>2. turn[t] \in Turn /\ Sound(turn[t], flag, epoch)
      BY Known
    <3> QED
      BY <1>2, <3>1, <3>2, GoesOn DEF Turn
  <2>2. turn' = [turn EXCEPT ![t] = s] /\ turn[t].at \in Holding
    BY <1>2, <1>4 DEF Go, Holding
  <2> HIDE DEF s
  <2> QED
    BY <1>1, <1>2, <1>4, <2>1, <2>2, OneMoves
<1>5. CASE Go(t, "round") /\ child' = [child EXCEPT ![t] = "none"]
  BY <1>1, <1>2, <1>5, WorkGoesOn DEF Inside
<1>6. CASE /\ turn' = [turn EXCEPT ![t].at = "probe", ![t].left = @ - 1] /\ turn[t].left > 1
           /\ child' = [child EXCEPT ![t] = "none"]
  <2>1. PICK n \in Nat : n = turn[t].left - 1
    BY <1>6, Known DEF Turn
  <2> DEFINE s == [turn[t] EXCEPT !.at = "probe", !.left = n]
  <2>2. turn' = [turn EXCEPT ![t] = s] /\ turn[t].at \in Holding
    BY <1>2, <1>6, <2>1, Known DEF Holding
  <2>3. /\ s \in Turn /\ s.at = "probe" /\ s.bind = turn[t].bind /\ s.out = turn[t].out
        /\ s.round = turn[t].round /\ s.results = turn[t].results /\ s.only = turn[t].only
        /\ s.told = turn[t].told /\ s.since = turn[t].since
    BY Known DEF Turn, Stages, Holding, Inside
  <2> HIDE DEF s
  <2>4. Sound(s, flag, epoch)
    BY <1>1, <1>2, <2>3, Known DEF Sound, Counted, Stopped, Followed, Inside
  <2> QED
    BY <1>1, <1>2, <1>6, <2>2, <2>3, <2>4, OneMoves
<1> QED
  BY <1>3, <1>4, <1>5, <1>6 DEF Probe, ProbeEnds

\* The deadline passes.
LEMMA ExpireStep ==
  ASSUME TurnAssumption, IInv, NEW t \in Turns, Expire(t) PROVE IInv'
<1> DEFINE s == [turn[t] EXCEPT !.late = TRUE]
<1>1. turn' = [turn EXCEPT ![t] = s] /\ UNCHANGED <<running, flag, child, epoch, change, hand, registered>>
  BY DEF Expire, others
<1>2. /\ s \in Turn /\ s.at = turn[t].at /\ s.bind = turn[t].bind /\ s.out = turn[t].out
      /\ s.round = turn[t].round /\ s.results = turn[t].results /\ s.only = turn[t].only
      /\ s.told = turn[t].told /\ s.since = turn[t].since
  BY Known DEF Turn
<1> HIDE DEF s
<1>3. Sound(s, flag, epoch)
  BY <1>2, Known DEF Sound, Counted, Stopped, Followed
<1>4. PICK c \in {"none", "alive", "exited"} : c = child[t] /\ child' = [child EXCEPT ![t] = c]
  BY <1>1, Known
<1>5. c # "none" => s.at \in {"probing", "asking"}
  BY <1>2, <1>4 DEF IInv, Attended
<1> QED
  BY <1>1, <1>2, <1>3, <1>4, <1>5, Known, OneMoves

\* A turn that is asked to go on while it is stopped does not.
LEMMA ActiveIsNotTold ==
  ASSUME IInv, NEW t \in Turns, turn[t].at \in Inside, Active(t) PROVE ~turn[t].told /\ turn[t].since = 0
BY Known DEF Active, Sound, Stopped, Turn

LEMMA RoundStep ==
  ASSUME TurnAssumption, IInv, NEW t \in Turns, Round(t) PROVE IInv'
<1>1. turn[t].at = "round" /\ UNCHANGED <<running, flag, epoch, change, hand, registered>>
  BY DEF Round, At, others
<1>2. turn[t].at \in Inside \ {"publish"} /\ registered' \in BOOLEAN
  BY <1>1, Known DEF Inside
<1>3. child = [child EXCEPT ![t] = "none"]
  BY <1>1, NoChild
<1>4. CASE Err(t) /\ UNCHANGED child
  BY <1>1, <1>2, <1>3, <1>4, WorkIsOver DEF Err
<1>5. CASE Go(t, "publish") /\ UNCHANGED child
  BY <1>1, <1>2, <1>3, <1>5, WorkGoesOn DEF Inside
<1>6. CASE Active(t) /\ Go(t, "asking") /\ child' = [child EXCEPT ![t] = "alive"]
  <2> DEFINE s == [turn[t] EXCEPT !.at = "asking"]
  <2>1. Sound(s, flag, epoch) /\ s.at = "asking"
    <3>1. "asking" \in Inside \ {"publish"} /\ turn[t].since = 0
      BY <1>2, <1>6, ActiveIsNotTold DEF Inside
    <3>2. turn[t] \in Turn /\ Sound(turn[t], flag, epoch)
      BY Known
    <3> QED
      BY <1>2, <3>1, <3>2, GoesOn DEF Turn
  <2>2. turn' = [turn EXCEPT ![t] = s] /\ turn[t].at \in Holding
    BY <1>2, <1>6 DEF Go, Holding
  <2> HIDE DEF s
  <2> QED
    BY <1>1, <1>2, <1>6, <2>1, <2>2, OneMoves
<1> QED
  BY <1>4, <1>5, <1>6 DEF Round

LEMMA PollStep ==
  ASSUME TurnAssumption, IInv, NEW t \in Turns, Poll(t) PROVE IInv'
<1>1. turn[t].at = "asking" /\ UNCHANGED <<running, flag, epoch, change, hand, registered>>
  BY DEF Poll, ReadAnswer, GiveUp, At, others
<1>2. turn[t].at \in Inside \ {"publish"} /\ turn[t].since = 0 /\ registered' \in BOOLEAN
  BY <1>1, Known DEF Inside, Sound, Stopped
<1>3. child' = [child EXCEPT ![t] = "none"]
  BY DEF Poll, ReadAnswer, GiveUp
<1>4. CASE Err(t)
  BY <1>1, <1>2, <1>3, <1>4, WorkIsOver DEF Err
<1>5. CASE Go(t, "publish") \/ Go(t, "answered")
  BY <1>1, <1>2, <1>3, <1>5, WorkGoesOn DEF Inside
<1> QED
  BY <1>4, <1>5 DEF Poll, ReadAnswer, GiveUp, KeepOrFail

\* The answer of the program: garbage, the last word, or an action.
LEMMA InterpretStep ==
  ASSUME TurnAssumption, IInv, NEW t \in Turns, Interpret(t) PROVE IInv'
<1>1. turn[t].at = "answered" /\ UNCHANGED <<running, flag, epoch, change, hand, registered>>
  BY DEF Interpret, At, others
<1>2. turn[t].at \in Inside \ {"publish"} /\ turn[t].since = 0 /\ registered' \in BOOLEAN
  BY <1>1, Known DEF Inside, Sound, Stopped
<1>3. child' = [child EXCEPT ![t] = "none"]
  BY <1>1, NoChild DEF Interpret
<1>4. CASE Err(t)
  BY <1>1, <1>2, <1>3, <1>4, WorkIsOver DEF Err
<1>5. CASE Go(t, "publish")
  BY <1>1, <1>2, <1>3, <1>5, WorkGoesOn DEF Inside
<1>6. CASE /\ turn' = [turn EXCEPT ![t].at = "round", ![t].round = @ + 1, ![t].fixed = TRUE, ![t].only = TRUE]
           /\ turn[t].round < MaxActions
  <2>1. PICK n \in Nat : n = turn[t].round + 1
    BY Known DEF Turn
  <2> DEFINE s == [turn[t] EXCEPT !.at = "round", !.round = n, !.fixed = TRUE, !.only = TRUE]
  <2>2. turn' = [turn EXCEPT ![t] = s] /\ turn[t].at \in Holding
    BY <1>2, <1>6, <2>1, Known DEF Holding
  <2>3. /\ s \in Turn /\ s.at = "round" /\ s.bind = turn[t].bind /\ s.out = turn[t].out
        /\ s.round = n /\ s.results = turn[t].results /\ s.only = TRUE
        /\ s.told = turn[t].told /\ s.since = turn[t].since
    BY Known DEF Turn, Stages, Holding, Inside
  <2>4. n <= MaxActions
    BY <1>6, <2>1, Known DEF Turn, TurnAssumption
  <2> HIDE DEF s
  <2>5. Sound(s, flag, epoch)
    BY <1>1, <1>2, <2>3, <2>4, Known DEF Sound, Counted, Stopped, Followed, Inside
  <2> QED
    BY <1>1, <1>2, <1>3, <2>2, <2>3, <2>5, OneMoves
<1>7. ASSUME NEW reply \in Actions, ~turn[t].only,
             turn' = [turn EXCEPT ![t].at = "admitted", ![t].action = reply, ![t].asked = @ \cup {reply}]
      PROVE  IInv'
  <2> DEFINE s == [turn[t] EXCEPT !.at = "admitted", !.action = reply, !.asked = turn[t].asked \cup {reply}]
  <2>1. turn' = [turn EXCEPT ![t] = s] /\ turn[t].at \in Holding
    BY <1>2, <1>7, Known DEF Holding
  <2>2. turn[t].asked \cup {reply} \in SUBSET Actions
    BY Known DEF Turn
  <2>3. /\ s \in Turn /\ s.at = "admitted" /\ s.bind = turn[t].bind /\ s.out = turn[t].out
        /\ s.round = turn[t].round /\ s.results = turn[t].results /\ s.only = turn[t].only
        /\ s.told = turn[t].told /\ s.since = turn[t].since
    BY <2>2, Known DEF Turn, Stages, Holding, Inside
  <2> HIDE DEF s
  <2>4. Sound(s, flag, epoch)
    BY <1>1, <1>2, <1>7, <2>3, Known DEF Sound, Counted, Stopped, Followed, Inside
  <2> QED
    BY <1>1, <1>2, <1>3, <2>1, <2>3, <2>4, OneMoves
<1> QED
  BY <1>4, <1>5, <1>6, <1>7 DEF Interpret, Garbage

\* The action begins, stopped or not: it was admitted.
LEMMA DispatchStep ==
  ASSUME TurnAssumption, IInv, NEW t \in Turns, Dispatch(t) PROVE IInv'
<1>1. turn[t].at = "admitted" /\ UNCHANGED <<running, flag, child, epoch, change, hand, registered>>
  BY DEF Dispatch, At, others
<1>2. turn[t].at \in Holding /\ turn[t].since = 0 /\ turn[t].told \in BOOLEAN /\ registered' \in BOOLEAN
  BY <1>1, Known DEF Holding, Inside, Sound, Stopped, Turn
<1>3. PICK n \in Nat : n <= 1 /\ n = (IF turn[t].told THEN turn[t].since + 1 ELSE turn[t].since)
  BY <1>2
<1> DEFINE s == [turn[t] EXCEPT !.at = "working", !.since = n]
<1>4. turn' = [turn EXCEPT ![t] = s]
  BY <1>3, Known DEF Dispatch
<1>5. /\ s \in Turn /\ s.at = "working" /\ s.bind = turn[t].bind /\ s.out = turn[t].out
      /\ s.round = turn[t].round /\ s.results = turn[t].results /\ s.only = turn[t].only
      /\ s.told = turn[t].told /\ s.since = n
  BY Known DEF Turn, Stages, Holding, Inside
<1>6. n <= 1 /\ (n # 0 => turn[t].told)
  BY <1>2, <1>3
<1> HIDE DEF s
<1>7. Sound(s, flag, epoch)
  BY <1>1, <1>2, <1>5, <1>6, Known DEF Sound, Counted, Stopped, Followed, Inside
<1>8. child' = [child EXCEPT ![t] = "none"]
  BY <1>1, NoChild
<1> QED
  BY <1>1, <1>2, <1>4, <1>5, <1>7, <1>8, OneMoves

\* The result is recorded: only after a completed one may another action follow.
LEMMA ReturnStep ==
  ASSUME TurnAssumption, IInv, NEW t \in Turns, Return(t) PROVE IInv'
<1>1. turn[t].at = "working" /\ UNCHANGED <<running, flag, child, epoch, change, hand, registered>>
  BY DEF Return, At, others
<1>2. turn[t].at \in Inside \ {"publish"} /\ registered' \in BOOLEAN
  BY <1>1, Known DEF Inside
<1>3. child' = [child EXCEPT ![t] = "none"]
  BY <1>1, NoChild
<1>4. CASE Err(t)
  BY <1>1, <1>2, <1>3, <1>4, WorkIsOver DEF Err
<1>5. ASSUME NEW status \in Statuses, Record(t, status) PROVE IInv'
  <2>1. PICK full \in BOOLEAN :
          turn' = [turn EXCEPT ![t].at = IF full \/ turn[t].round = MaxActions THEN "publish" ELSE "round",
                               ![t].round = IF full THEN @ ELSE @ + 1,
                               ![t].results = Append(@, status),
                               ![t].only = turn[t].only \/ status # "completed",
                               ![t].action = "none"]
    BY <1>5 DEF Record, NextRound
  <2>2. PICK at \in {"publish", "round"} :
          at = IF full \/ turn[t].round = MaxActions THEN "publish" ELSE "round"
    OBVIOUS
  <2>3. PICK n \in Nat : n = IF full THEN turn[t].round ELSE turn[t].round + 1
    BY Known DEF Turn
  <2>4. PICK only \in BOOLEAN : only = (turn[t].only \/ status # "completed")
    OBVIOUS
  <2>5. PICK results \in Seq(Statuses) : results = Append(turn[t].results, status)
    <3>1. turn[t].results \in Seq(Statuses)
      BY Known DEF Turn
    <3>2. Append(turn[t].results, status) \in Seq(Statuses)
      BY <1>5, <3>1
    <3> QED
      BY <3>2
  <2> DEFINE s == [turn[t] EXCEPT !.at = at, !.round = n, !.results = results, !.only = only,
                                  !.action = "none"]
  <2>6. turn' = [turn EXCEPT ![t] = s] /\ turn[t].at \in Holding
    BY <1>2, <2>1, <2>2, <2>3, <2>4, <2>5, Known DEF Holding
  <2>7. /\ s \in Turn /\ s.at = at /\ s.bind = turn[t].bind /\ s.out = turn[t].out
        /\ s.round = n /\ s.results = results /\ s.only = only
        /\ s.told = turn[t].told /\ s.since = turn[t].since
    <3>1. at \in Stages /\ "none" \in Actions \cup {"none"}
      BY <2>2 DEF Stages, Holding, Inside
    <3> QED
      BY <3>1, Known DEF Turn
  <2> HIDE DEF s
  <2>8. Counted(s)
    BY <1>1, <2>2, <2>3, <2>7, Known DEF Sound, Counted, Turn, TurnAssumption
  <2>9. Stopped(s, flag, epoch)
    BY <1>1, <2>2, <2>7, Known DEF Sound, Stopped, Inside
  <2>10. Followed(s)
    <3>1. turn[t].results \in Seq(Statuses) /\ Len(results) = Len(turn[t].results) + 1
      BY <2>5, Known DEF Turn
    <3>2. \A i \in 1 .. Len(turn[t].results) : turn[t].results[i] = "completed" /\ results[i] = "completed"
      BY <1>1, <2>5, <3>1, Known DEF Sound, Followed
    <3>3. results[Len(turn[t].results) + 1] = status
      BY <2>5, <3>1
    <3>4. ~only => status = "completed"
      BY <2>4
    <3> QED
      BY <2>2, <2>7, <3>1, <3>2, <3>3, <3>4 DEF Followed
  <2>11. Sound(s, flag, epoch)
    BY <2>7, <2>8, <2>9, <2>10 DEF Sound
  <2>12. s.at \notin {"probing", "asking"}
    BY <2>2, <2>7
  <2> QED
    BY <1>1, <1>2, <1>3, <2>6, <2>11, <2>12, OneMoves
<1> QED
  BY <1>4, <1>5 DEF Return, Statuses

LEMMA PublishStep ==
  ASSUME TurnAssumption, IInv, NEW t \in Turns, Publish(t) PROVE IInv'
<1>1. turn[t].at = "publish" /\ UNCHANGED <<running, flag, child, epoch, change, hand, registered>>
  BY DEF Publish, At, others
<1>2. turn[t].at \in Inside /\ registered' \in BOOLEAN
  BY <1>1, Known DEF Inside
<1>3. child' = [child EXCEPT ![t] = "none"]
  BY <1>1, NoChild
<1>4. CASE Err(t)
  BY <1>1, <1>2, <1>3, <1>4, WorkIsOver DEF Err
<1>5. CASE Active(t) /\ Over(t, "answer")
  BY <1>1, <1>2, <1>3, <1>5, WorkIsOver
<1> QED
  BY <1>4, <1>5 DEF Publish

LEMMA ExitStep ==
  ASSUME TurnAssumption, IInv, NEW t \in Turns, ChildExits(t) PROVE IInv'
<1>1. /\ child' = [child EXCEPT ![t] = "exited"] /\ child[t] = "alive"
      /\ UNCHANGED <<turn, running, flag, epoch, change, hand, registered>>
  BY DEF ChildExits, others
<1>2. Flags' /\ Attended'
  BY <1>1 DEF IInv, Flags, Attended
<1> QED
  BY <1>1, <1>2 DEF IInv, OneTurn

-----------------------------------------------------------------------------
\* What stops a turn reaches every turn at work, and what it sets stays.
LEMMA ToldStep ==
  ASSUME IInv, Tell(Working), UNCHANGED <<running, child>>, Flags',
         (flag' /\ UNCHANGED epoch) \/ (flag' = flag /\ epoch' = epoch + 1)
  PROVE  IInv'
<1> DEFINE told(t) == [turn[t] EXCEPT !.told = TRUE]
<1>1. \A t \in Turns : turn'[t] = IF turn[t].at \in Inside THEN told(t) ELSE turn[t]
  <2>1. \A t \in Turns : turn[t].at \in Stages
    BY Known DEF Turn
  <2>2. \A t \in Turns : t \in Working <=> turn[t].at \in Inside
    BY <2>1 DEF Working, Stages, Holding, Inside
  <2> QED
    BY <2>2 DEF Tell
<1>2. ASSUME NEW t \in Turns
      PROVE  /\ told(t) \in Turn /\ told(t).at = turn[t].at /\ told(t).bind = turn[t].bind
             /\ told(t).out = turn[t].out /\ told(t).round = turn[t].round
             /\ told(t).results = turn[t].results /\ told(t).only = turn[t].only
             /\ told(t).told = TRUE /\ told(t).since = turn[t].since
  BY Known DEF Turn
<1> HIDE DEF told
<1>3. ASSUME NEW t \in Turns PROVE Sound(turn'[t], flag', epoch')
  <2>1. Sound(turn[t], flag, epoch) /\ epoch \in Nat /\ turn[t].bind \in Nat
    BY Known DEF Turn
  <2>2. turn[t].bind <= epoch /\ turn[t].bind <= epoch' /\ (flag' \/ turn[t].bind # epoch')
    BY <2>1 DEF Sound, Stopped
  <2>3. CASE turn[t].at \in Inside
    <3>1. turn'[t] = told(t) /\ turn[t].out = "none"
      BY <1>1, <2>1, <2>3 DEF Sound, Stopped, Inside
    <3>2. Counted(told(t)) /\ Followed(told(t))
      BY <1>2, <2>1 DEF Sound, Counted, Followed
    <3>3. Stopped(told(t), flag', epoch')
      BY <1>2, <2>1, <2>2, <2>3, <3>1 DEF Sound, Stopped
    <3> QED
      BY <1>2, <3>1, <3>2, <3>3 DEF Sound
  <2>4. CASE turn[t].at \notin Inside
    BY <1>1, <2>1, <2>2, <2>4 DEF Sound, Stopped
  <2> QED
    BY <2>3, <2>4
<1>4. turn' \in [Turns -> Turn]
  BY <1>3 DEF Tell, Sound
<1>5. OneTurn' /\ Attended'
  <2>1. \A t \in Turns : turn'[t].at = turn[t].at
    BY <1>1, <1>2
  <2>2. OneTurn'
    BY <2>1 DEF IInv, OneTurn
  <2>3. Attended'
    BY <2>1 DEF IInv, Attended
  <2> QED
    BY <2>2, <2>3
<1> QED
  BY <1>3, <1>4, <1>5 DEF IInv

\* A flag that is set stops nobody less.
LEMMA FlagStep ==
  ASSUME IInv, UNCHANGED <<turn, running, child, epoch>>, Flags', flag => flag' PROVE IInv'
<1>1. \A t \in Turns : Sound(turn[t], flag', epoch)
  BY Known DEF Sound, Stopped
<1> QED
  BY <1>1 DEF IInv, OneTurn, Attended

LEMMA OutsideStep ==
  ASSUME TurnAssumption, IInv, CancelLooks \/ CancelStores \/ ChangeMode \/ FlagJobs PROVE IInv'
<1>1. CASE CancelLooks
  BY <1>1, FlagStep DEF CancelLooks, IInv, Flags
<1>2. CASE CancelStores
  <2>1. Flags'
    BY <1>2 DEF CancelStores, IInv, Flags
  <2> QED
    BY <1>2, <2>1, ToldStep DEF CancelStores
<1>3. CASE ChangeMode
  <2>1. epoch + 1 \in 0 .. MaxChanges
    BY <1>3 DEF ChangeMode, IInv, Flags, TurnAssumption
  <2>2. Flags'
    BY <1>3, <2>1 DEF ChangeMode, IInv, Flags
  <2> QED
    BY <1>3, <2>2, ToldStep DEF ChangeMode
<1>4. CASE FlagJobs
  <2>1. flag' \in BOOLEAN /\ (flag => flag')
    BY <1>4, Known DEF FlagJobs
  <2>2. Flags'
    BY <1>4, <2>1 DEF FlagJobs, IInv, Flags
  <2> QED
    BY <1>4, <2>1, <2>2, FlagStep DEF FlagJobs
<1> QED
  BY <1>1, <1>2, <1>3, <1>4

-----------------------------------------------------------------------------
\* The initial state satisfies the invariant.
LEMMA InitInv == ASSUME TurnAssumption PROVE Init => IInv
<1> SUFFICES ASSUME Init PROVE IInv
  OBVIOUS
<1>1. Flags
  <2>1. 0 \in 0 .. MaxChanges
    BY DEF TurnAssumption
  <2>2. child \in [Turns -> {"none", "alive", "exited"}]
    BY DEF Init
  <2> QED
    BY <2>1, <2>2 DEF Init, Flags
<1>2. OneTurn /\ Attended
  BY DEF Init, New, OneTurn, Attended, Holding, Inside
<1>3. \A t \in Turns : Sound(turn[t], flag, epoch)
  BY NewSound DEF Init
<1>4. turn \in [Turns -> Turn]
  BY <1>3 DEF Init, Sound
<1> QED
  BY <1>1, <1>2, <1>3, <1>4 DEF IInv

\* Every step keeps the invariant.
LEMMA StepInv == ASSUME TurnAssumption PROVE IInv /\ [Next]_vars => IInv'
<1> SUFFICES ASSUME IInv, [Next]_vars PROVE IInv'
  OBVIOUS
<1>1. ASSUME NEW t \in Turns, Step(t) PROVE IInv'
  BY <1>1, ClaimStep, ResetStep, RegisterStep, ProbeStep, RoundStep, PollStep, InterpretStep,
     DispatchStep, ReturnStep, PublishStep, LeaveStep DEF Step
<1>2. ASSUME NEW t \in Turns, Capture(t) \/ Expire(t) \/ ChildExits(t) PROVE IInv'
  BY <1>2, CaptureStep, ExpireStep, ExitStep
<1>3. CASE CancelLooks \/ CancelStores \/ ChangeMode \/ FlagJobs
  BY <1>3, OutsideStep
<1>4. CASE UNCHANGED vars
  BY <1>4 DEF vars, IInv, Flags, OneTurn, Attended
<1> QED
  BY <1>1, <1>2, <1>3, <1>4 DEF Next, Steps

\* The invariant holds in every reachable state, for any turns (assistant_provider.rs).
THEOREM InductiveInvariant == ASSUME TurnAssumption PROVE Spec => []IInv
BY InitInv, StepInv, PTL DEF Spec

\* The types that follow from the invariant.
LEMMA TurnTypes == ASSUME TurnAssumption PROVE IInv => TypeOK
BY DEF IInv, Flags, Sound, Counted, Turn, TurnAssumption, TypeOK

\* The types, and the number of rounds.
THEOREM TypeCorrect == ASSUME TurnAssumption PROVE Spec => []TypeOK
BY TurnTypes, InductiveInvariant, PTL

\* A question that was stopped says nothing, by the invariant.
LEMMA StopsAreKept == ASSUME TurnAssumption PROVE IInv => StoppedTurnSaysNothing
BY DEF IInv, Sound, Stopped, StoppedTurnSaysNothing

\* A turn that was stopped says nothing and begins at most the action it had
\* admitted, although every turn clears the flag they share.
THEOREM StopSafety == ASSUME TurnAssumption PROVE Spec => []StoppedTurnSaysNothing
BY StopsAreKept, InductiveInvariant, PTL

\* What the invariant says of the actions and their results.
LEMMA FollowersAreKept == IInv => ActionsFollowCompletedOnes
<1>1. ASSUME IInv, NEW t \in Turns
      PROVE  /\ \A i \in 1 .. (Len(turn[t].results) - 1) : turn[t].results[i] = "completed"
             /\ At(t, "working") => \A i \in DOMAIN turn[t].results : turn[t].results[i] = "completed"
  <2>1. turn[t].results \in Seq(Statuses) /\ Followed(turn[t])
    BY <1>1 DEF IInv, Sound, Turn
  <2>2. DOMAIN turn[t].results = 1 .. Len(turn[t].results)
    BY <2>1
  <2> QED
    BY <2>1, <2>2 DEF Followed, At
<1> QED
  BY <1>1 DEF ActionsFollowCompletedOnes

\* An action follows completed ones only, whatever the program answers.
THEOREM FollowSafety == ASSUME TurnAssumption PROVE Spec => []ActionsFollowCompletedOnes
BY FollowersAreKept, InductiveInvariant, PTL

\* No process is left, by the invariant.
LEMMA ProcessesEnd == ASSUME TurnAssumption PROVE IInv => NoProcessIsLeft
BY DEF IInv, Attended, NoProcessIsLeft

\* No process of a turn is left when the turn is over.
THEOREM ProcessSafety == ASSUME TurnAssumption PROVE Spec => []NoProcessIsLeft
BY ProcessesEnd, InductiveInvariant, PTL

-----------------------------------------------------------------------------
(* The document index (DocumentIndex), for any documents and limits, any     *)
(* number of builds, and any writes of other programs.                       *)

CONSTANTS Docs, Structured, MaxDocs, MaxWrites, MaxBuilds
VARIABLES disk, writes, rows, meta, build, helper, builds

Index == INSTANCE DocumentIndex WITH child <- helper

Row == [stamp : Nat, text : Nat, gen : Nat]
Rows == UNION {[S -> Row] : S \in SUBSET Docs}
Reading == {"read", "spawn", "poll", "drop", "join"}
Build == [at : {"walk"} \cup Reading, root : {"folder", "other"}, gen : Nat, count : Nat, tx : Rows,
          left : SUBSET Docs, doc : Docs \cup {"none"}, stamp : Nat,
          result : {"none", "text", "unreadable", "failed"}]

\* A text that was read goes with a stamp that was seen: it may stand for the
\* document as long as the document is not written again.
Stands(p, stamp, text) == stamp \in 1 .. writes /\ (stamp = disk[p] => text = disk[p])
Vouched(f) == f \in Rows /\ \A p \in DOMAIN f : Stands(p, f[p].stamp, f[p].text)

DiskInv == disk \in [Docs -> Nat] /\ writes \in Nat \ {0} /\ \A p \in Docs : disk[p] <= writes
RowsInv == Vouched(rows) /\ meta.gen \in Nat /\ \A p \in DOMAIN rows : rows[p].gen = meta.gen
BuildInv ==
  build # Index!None =>
    /\ build \in Build /\ Vouched(build.tx)
    /\ build.at \in Reading => build.doc \in Docs /\ build.stamp \in 1 .. writes
    /\ build.at \in {"drop", "join"} /\ build.result = "text" => helper.at = "exited" /\ helper.code = 0

\* The helper is at work for a build that waits for it, and what it read goes
\* with what the walk had seen.
HelperInv ==
  /\ helper.at \in {"none", "running", "exited", "killed"}
  /\ helper.at # "none" => build # Index!None /\ build.at \in {"poll", "drop", "join"}
  /\ helper.at = "exited" => helper.text \in Nat /\ (helper.code = 0 => Stands(build.doc, build.stamp, helper.text))
  /\ helper.at = "running" => build.at \in {"poll", "drop"}

IndexInv == DiskInv /\ RowsInv /\ BuildInv /\ HelperInv

-----------------------------------------------------------------------------
\* A row is added or replaced.
LEMMA RowAdded ==
  ASSUME DiskInv, NEW f, Vouched(f), NEW p \in Docs, NEW row \in Row, Stands(p, row.stamp, row.text)
  PROVE  Vouched(Index!With(f, p, row))
<1>1. PICK S \in SUBSET Docs : f \in [S -> Row]
  BY DEF Vouched, Rows
<1>2. Index!With(f, p, row) = [q \in S \cup {p} |-> IF q = p THEN row ELSE f[q]]
  BY <1>1 DEF Index!With
<1>3. Index!With(f, p, row) \in [S \cup {p} -> Row]
  BY <1>1, <1>2
<1>4. Index!With(f, p, row) \in Rows
  BY <1>3 DEF Rows
<1> QED
  BY <1>1, <1>2, <1>4 DEF Vouched

\* The build goes on with its walk, with a row more or without.
LEMMA WalksOn ==
  ASSUME IndexInv, build # Index!None, UNCHANGED <<disk, writes, rows, meta>>, helper'.at = "none",
         NEW p \in Docs,
         \/ Index!Skip(p)
         \/ \E row \in Row : Stands(p, row.stamp, row.text) /\ Index!Store(p, row)
  PROVE  IndexInv'
<1>1. /\ build \in Build /\ Vouched(build.tx)
  BY DEF IndexInv, BuildInv
<1>2. DiskInv' /\ RowsInv'
  BY DEF IndexInv, DiskInv, RowsInv, Vouched, Stands
<1>3. HelperInv'
  BY DEF HelperInv
<1>4. CASE Index!Skip(p)
  <2>1. build' \in Build /\ build'.at = "walk" /\ build'.tx = build.tx
    BY <1>1, <1>4 DEF Index!Skip, Index!Walking, Build
  <2> QED
    BY <1>1, <1>2, <1>3, <2>1 DEF IndexInv, BuildInv, Vouched, Stands, Reading
<1>5. ASSUME NEW row \in Row, Stands(p, row.stamp, row.text), Index!Store(p, row) PROVE IndexInv'
  <2>1. PICK f : f = Index!With(build.tx, p, row)
    OBVIOUS
  <2>2. Vouched(f) /\ f \in Rows
    BY <1>1, <1>5, <2>1, RowAdded DEF IndexInv, Vouched
  <2>3. PICK b : b = Index!Walking(p)
    OBVIOUS
  <2>4. b \in Build /\ b.at = "walk" /\ b.tx = build.tx /\ b.count \in Nat
    BY <1>1, <2>3 DEF Index!Walking, Build
  <2>5. PICK n \in Nat : n = b.count + 1
    BY <2>4
  <2>6. build' = [b EXCEPT !.tx = f, !.count = n]
    BY <1>5, <2>1, <2>3, <2>4, <2>5 DEF Index!Store
  <2>7. build' \in Build /\ build'.at = "walk" /\ build'.tx = f
    BY <2>2, <2>4, <2>6 DEF Build
  <2> QED
    BY <1>2, <1>3, <2>2, <2>7 DEF IndexInv, BuildInv, Vouched, Stands, Reading
<1> QED
  BY <1>4, <1>5

LEMMA VisitStep == ASSUME IndexInv, NEW p \in Docs, Index!Visit(p) PROVE IndexInv'
<1>1. /\ build.at = "walk" /\ build # Index!None /\ UNCHANGED <<disk, writes, rows, meta, helper>>
  BY DEF Index!Visit, Index!None
<1>2. build \in Build /\ Vouched(build.tx) /\ helper.at = "none"
  BY <1>1 DEF IndexInv, BuildInv, HelperInv
<1>3. CASE Index!Skip(p)
  BY <1>1, <1>2, <1>3, WalksOn
<1>4. CASE Index!Reusable(p) /\ Index!Store(p, [build.tx[p] EXCEPT !.gen = build.gen])
  <2>1. PICK S \in SUBSET Docs : build.tx \in [S -> Row]
    BY <1>2 DEF Vouched, Rows
  <2>2. p \in DOMAIN build.tx /\ build.tx[p] \in Row /\ build.gen \in Nat
    BY <1>2, <1>4, <2>1 DEF Index!Reusable, Build
  <2>3. PICK row \in Row : row = [build.tx[p] EXCEPT !.gen = build.gen] /\ row.stamp = build.tx[p].stamp
                           /\ row.text = build.tx[p].text
    <3>1. PICK old \in Row, gen \in Nat : old = build.tx[p] /\ gen = build.gen
      BY <2>2
    <3>2. /\ [old EXCEPT !.gen = gen] \in Row
          /\ [old EXCEPT !.gen = gen].stamp = old.stamp /\ [old EXCEPT !.gen = gen].text = old.text
      BY DEF Row
    <3> QED
      BY <3>1, <3>2
  <2>4. Stands(p, row.stamp, row.text)
    BY <1>2, <2>2, <2>3 DEF Vouched
  <2> QED
    BY <1>1, <1>2, <1>4, <2>3, <2>4, WalksOn
<1>5. CASE /\ disk[p] # 0
           /\ build' = [build EXCEPT !.at = IF p \in Structured THEN "spawn" ELSE "read",
                                     !.doc = p, !.stamp = disk[p]]
  <2>1. disk[p] \in 1 .. writes /\ disk[p] \in Nat
    BY <1>5 DEF IndexInv, DiskInv
  <2>2. /\ build' \in Build /\ build'.at \in {"spawn", "read"} /\ build'.doc = p /\ build'.stamp = disk[p]
        /\ build'.tx = build.tx
    BY <1>2, <1>5, <2>1 DEF Build, Reading
  <2>3. build' # Index!None
    BY <2>2 DEF Index!None, Build
  <2>4. BuildInv'
    BY <1>1, <1>2, <2>1, <2>2 DEF BuildInv, Vouched, Stands
  <2>5. DiskInv' /\ RowsInv' /\ HelperInv'
    BY <1>1, <1>2 DEF IndexInv, DiskInv, RowsInv, HelperInv, Vouched, Stands
  <2> QED
    BY <2>4, <2>5 DEF IndexInv
<1> QED
  BY <1>3, <1>4, <1>5 DEF Index!Visit


LEMMA RowMade ==
  ASSUME build \in Build, NEW p, NEW text \in Nat
  PROVE  /\ Index!RowOf(p, text) \in Row /\ Index!RowOf(p, text).stamp = build.stamp
         /\ Index!RowOf(p, text).text = text
<1>1. build.gen \in Nat /\ build.stamp \in Nat
  BY DEF Build
<1> QED
  BY <1>1 DEF Index!RowOf, Index!Row, Row

\* A document is read by the build itself.
LEMMA ReadStep == ASSUME IndexInv, Index!ReadText PROVE IndexInv'
<1>1. /\ build.at = "read" /\ build # Index!None /\ UNCHANGED <<disk, writes, rows, meta, helper>>
  BY DEF Index!ReadText, Index!None
<1>2. build \in Build /\ build.doc \in Docs /\ build.stamp \in 1 .. writes /\ build.stamp \in Nat /\ helper.at = "none"
  BY <1>1 DEF IndexInv, BuildInv, HelperInv, Reading, DiskInv
<1>3. PICK p \in Docs, text \in Nat : p = build.doc /\ text = disk[p]
  BY <1>2 DEF IndexInv, DiskInv
<1>4. PICK row \in Row : row = Index!RowOf(p, text) /\ row.stamp = build.stamp /\ row.text = text
  BY <1>2, RowMade
<1>5. Stands(p, row.stamp, row.text)
  BY <1>2, <1>3, <1>4 DEF Stands
<1>6. Index!Skip(p) \/ Index!Store(p, row)
  BY <1>3, <1>4 DEF Index!ReadText
<1> QED
  BY <1>1, <1>2, <1>5, <1>6, WalksOn

\* A document is read by the helper, which is waited for.
LEMMA HelperStep ==
  ASSUME IndexInv, Index!SpawnHelper \/ Index!HelperExits \/ Index!Poll \/ Index!Kill PROVE IndexInv'
<1>1. UNCHANGED <<disk, writes, rows, meta>> /\ build # Index!None
  BY DEF Index!SpawnHelper, Index!HelperExits, Index!Poll, Index!GiveUp, Index!SeesExit, Index!Kill,
         Index!None, IndexInv, HelperInv
<1>2. DiskInv' /\ RowsInv' /\ DiskInv /\ build \in Build /\ Vouched(build.tx)
  BY <1>1 DEF IndexInv, DiskInv, RowsInv, BuildInv, Vouched, Stands
<1>3. CASE Index!SpawnHelper
  <2>1. /\ build' \in Build /\ build'.at = "poll" /\ build'.tx = build.tx /\ build'.doc = build.doc
        /\ build'.stamp = build.stamp /\ build.at = "spawn"
    BY <1>2, <1>3 DEF Index!SpawnHelper, Build, Reading
  <2>2. helper' = [at |-> "running"] /\ build' # Index!None
    BY <1>3, <2>1 DEF Index!SpawnHelper, Build, Index!None
  <2> QED
    BY <1>1, <1>2, <2>1, <2>2 DEF IndexInv, BuildInv, HelperInv, Vouched, Stands, Reading
<1>4. CASE Index!HelperExits
  <2>1. PICK code \in {0, 2, 3} :
          helper' = [at |-> "exited", code |-> code, text |-> disk[build.doc]]
          /\ UNCHANGED build /\ helper.at = "running"
    BY <1>4 DEF Index!HelperExits
  <2>2. build.at \in {"poll", "drop"} /\ build.doc \in Docs /\ build.stamp \in 1 .. writes
    BY <1>1, <2>1 DEF IndexInv, BuildInv, HelperInv, Reading
  <2>3. helper'.at = "exited" /\ helper'.text = disk[build.doc] /\ disk[build.doc] \in Nat
    BY <1>2, <2>1, <2>2 DEF DiskInv
  <2> QED
    BY <1>1, <1>2, <2>1, <2>2, <2>3 DEF IndexInv, BuildInv, HelperInv, Vouched, Stands, Reading
<1>5. CASE Index!Poll
  <2>1. PICK result \in {"text", "unreadable", "failed"} :
          /\ build' = [build EXCEPT !.at = "drop", !.result = result] /\ UNCHANGED helper
          /\ result = "text" => helper.at = "exited" /\ helper.code = 0
    BY <1>5 DEF Index!Poll, Index!GiveUp, Index!SeesExit, Index!Result
  <2>2. /\ build' \in Build /\ build'.at = "drop" /\ build'.tx = build.tx /\ build'.doc = build.doc
        /\ build'.stamp = build.stamp /\ build'.result = result /\ build.at = "poll"
    BY <1>2, <1>5, <2>1 DEF Index!Poll, Index!GiveUp, Index!SeesExit, Build, Reading
  <2>3. build' # Index!None
    BY <2>2 DEF Build, Index!None
  <2> QED
    BY <1>1, <1>2, <2>1, <2>2, <2>3 DEF IndexInv, BuildInv, HelperInv, Vouched, Stands, Reading
<1>6. CASE Index!Kill
  <2>1. /\ build' = [build EXCEPT !.at = "join"] /\ build.at = "drop"
        /\ helper' = IF helper.at = "running" THEN [at |-> "killed"] ELSE helper
    BY <1>6 DEF Index!Kill, Index!DropChild
  <2>2. /\ build' \in Build /\ build'.at = "join" /\ build'.tx = build.tx /\ build'.doc = build.doc
        /\ build'.stamp = build.stamp /\ build'.result = build.result
    BY <1>2, <2>1 DEF Build, Reading
  <2>3. build' # Index!None
    BY <2>2 DEF Build, Index!None
  <2> QED
    BY <1>1, <1>2, <2>1, <2>2, <2>3 DEF IndexInv, BuildInv, HelperInv, Vouched, Stands, Reading
<1> QED
  BY <1>3, <1>4, <1>5, <1>6

\* The end of the helper: its text is stored, or the document skipped, or the
\* build given up.
LEMMA JoinStep == ASSUME IndexInv, Index!Join PROVE IndexInv'
<1>1. /\ build.at = "join" /\ build # Index!None /\ UNCHANGED <<disk, writes, rows, meta>>
      /\ helper'.at = "none"
  BY DEF Index!Join, Index!None, Index!NoChild
<1>2. build \in Build /\ build.doc \in Docs /\ build.stamp \in Nat
  BY <1>1 DEF IndexInv, BuildInv, Reading, DiskInv
<1>3. CASE build' = Index!None
  <2>1. DiskInv' /\ RowsInv'
    BY <1>1 DEF IndexInv, DiskInv, RowsInv, Vouched, Stands
  <2> QED
    BY <1>1, <1>3, <2>1 DEF IndexInv, BuildInv, HelperInv
<1>4. CASE Index!Skip(build.doc)
  BY <1>1, <1>2, <1>4, WalksOn
<1>5. CASE build.result = "text" /\ Index!Store(build.doc, Index!RowOf(build.doc, helper.text))
  <2>1. helper.at = "exited" /\ helper.code = 0
    BY <1>1, <1>5 DEF IndexInv, BuildInv
  <2>2. helper.text \in Nat /\ Stands(build.doc, build.stamp, helper.text)
    BY <1>5, <2>1 DEF IndexInv, HelperInv
  <2>3. PICK p \in Docs, text \in Nat : p = build.doc /\ text = helper.text
    BY <1>2, <2>2
  <2>4. PICK row \in Row : row = Index!RowOf(p, text) /\ row.stamp = build.stamp /\ row.text = text
    BY <1>2, <2>3, RowMade
  <2> QED
    BY <1>1, <1>5, <2>2, <2>3, <2>4, WalksOn
<1> QED
  BY <1>3, <1>4, <1>5 DEF Index!Join

\* A build begins, is committed, or is given up; another program writes.
LEMMA BeginStep ==
  ASSUME IndexInv, NEW root \in {"folder", "other"}, Index!Begin(root) PROVE IndexInv'
<1>1. UNCHANGED <<disk, writes, rows, meta, helper>> /\ build = Index!None
  BY DEF Index!Begin
<1>2. Vouched(rows) /\ Vouched(Index!NoRows) /\ helper.at = "none" /\ meta.gen \in Nat
  <2>1. Index!NoRows \in [{} -> Row] /\ DOMAIN Index!NoRows = {}
    BY DEF Index!NoRows
  <2>2. Index!NoRows \in Rows
    BY <2>1 DEF Rows
  <2> QED
    BY <1>1, <2>1, <2>2 DEF IndexInv, RowsInv, HelperInv, Vouched
<1>3. PICK f \in {Index!NoRows, rows} : f = IF meta # Index!NoMeta /\ meta.root # root THEN Index!NoRows ELSE rows
  OBVIOUS
<1>4. PICK gen \in Nat : gen = meta.gen + 1
  BY <1>2
<1>0. PICK left \in SUBSET Docs : left = IF root = "folder" THEN Docs ELSE {}
  OBVIOUS
<1>5. build' = [at |-> "walk", root |-> root, gen |-> gen, count |-> 0, tx |-> f, left |-> left,
                doc |-> "none", stamp |-> 0, result |-> "none"]
  BY <1>0, <1>3, <1>4 DEF Index!Begin
<1>6. build' \in Build /\ build'.at = "walk" /\ build'.tx = f
  BY <1>2, <1>5 DEF Build, Vouched
<1>7. Vouched(f)'
  BY <1>1, <1>2 DEF Vouched, Stands
<1> QED
  BY <1>1, <1>2, <1>6, <1>7 DEF IndexInv, DiskInv, RowsInv, BuildInv, HelperInv, Vouched, Stands,
     Reading

LEMMA CommitStepIndex == ASSUME IndexInv, Index!Commit PROVE IndexInv'
<1>1. /\ build.at = "walk" /\ build # Index!None /\ build' = Index!None /\ UNCHANGED <<disk, writes, helper>>
  BY DEF Index!Commit, Index!None
<1>2. /\ build \in Build /\ Vouched(build.tx) /\ helper.at = "none"
  BY <1>1 DEF IndexInv, BuildInv, HelperInv
<1>3. PICK S \in SUBSET Docs : build.tx \in [S -> Row]
  BY <1>2 DEF Vouched, Rows
<1>4. PICK K \in SUBSET S : K = {q \in DOMAIN build.tx : build.tx[q].gen = build.gen}
  BY <1>3
<1>5. rows' = [q \in K |-> build.tx[q]] /\ meta' = [root |-> build.root, gen |-> build.gen]
  BY <1>4 DEF Index!Commit
<1>6. rows' \in [K -> Row]
  BY <1>3, <1>5
<1>7. rows' \in Rows /\ Vouched(rows)'
  <2>1. rows' \in Rows /\ DOMAIN rows' = K
    BY <1>6 DEF Rows
  <2>2. \A q \in K : rows'[q] = build.tx[q] /\ q \in DOMAIN build.tx
    BY <1>3, <1>5
  <2> QED
    BY <1>1, <1>2, <2>1, <2>2 DEF Vouched, Stands
<1>8. meta'.gen = build.gen /\ build.gen \in Nat
  BY <1>2, <1>5 DEF Build
<1>9. \A q \in DOMAIN rows' : rows'[q].gen = meta'.gen
  BY <1>4, <1>5, <1>8
<1>10. DiskInv' /\ BuildInv' /\ HelperInv'
  BY <1>1, <1>2 DEF IndexInv, DiskInv, BuildInv, HelperInv
<1> QED
  BY <1>7, <1>8, <1>9, <1>10 DEF IndexInv, RowsInv

\* A document that is written gets a number that no row and no reading has.
LEMMA WriteStepIndex == ASSUME IndexInv, NEW p \in Docs, Index!Write(p) PROVE IndexInv'
<1>1. PICK v \in {0, writes + 1} : disk' = [disk EXCEPT ![p] = v] /\ writes' = writes + 1
                                  /\ UNCHANGED <<rows, meta, build, helper>>
  BY DEF Index!Write
<1>2. DiskInv /\ DiskInv'
  BY <1>1 DEF IndexInv, DiskInv
<1>3. \A q, s, t : q \in Docs /\ Stands(q, s, t) => Stands(q, s, t)'
  BY <1>1, <1>2 DEF Stands, DiskInv
<1>4. \A f : Vouched(f) => Vouched(f)'
  <2>1. \A f \in Rows : DOMAIN f \subseteq Docs
    BY DEF Rows
  <2> QED
    BY <1>3, <2>1 DEF Vouched
<1>5. RowsInv' /\ BuildInv'
  <2>1. 1 .. writes \subseteq 1 .. writes'
    BY <1>1, <1>2 DEF DiskInv
  <2>2. Vouched(rows)' /\ (build # Index!None => Vouched(build.tx)')
    BY <1>1, <1>4 DEF IndexInv, RowsInv, BuildInv
  <2>3. RowsInv'
    BY <1>1, <2>2 DEF IndexInv, RowsInv
  <2>4. BuildInv'
    BY <1>1, <2>1, <2>2 DEF IndexInv, BuildInv
  <2> QED
    BY <2>3, <2>4
<1>6. HelperInv'
  <2>1. helper.at = "exited" => build.doc \in Docs
    BY DEF IndexInv, BuildInv, HelperInv, Reading
  <2>2. helper.at = "exited" /\ helper.code = 0 => Stands(build.doc, build.stamp, helper.text)'
    <3>1. ASSUME helper.at = "exited", helper.code = 0
          PROVE  Stands(build.doc, build.stamp, helper.text)'
      <4>1. Stands(build.doc, build.stamp, helper.text)
        BY <3>1 DEF IndexInv, HelperInv
      <4> QED
        BY <1>1, <1>2, <2>1, <3>1, <4>1 DEF Stands, DiskInv
    <3> QED
      BY <3>1
  <2> QED
    BY <1>1, <2>2 DEF IndexInv, HelperInv
<1> QED
  BY <1>2, <1>5, <1>6 DEF IndexInv

-----------------------------------------------------------------------------
\* The initial state satisfies the invariant, and every step keeps it.
LEMMA IndexInit == ASSUME Index!IndexAssumption PROVE Index!Init => IndexInv
<1> SUFFICES ASSUME Index!Init PROVE IndexInv
  OBVIOUS
<1>1. DiskInv
  BY DEF Index!Init, DiskInv
<1>2. rows \in [{} -> Row] /\ DOMAIN rows = {}
  BY DEF Index!Init, Index!NoRows
<1>3. rows \in Rows
  BY <1>2 DEF Rows
<1>4. RowsInv
  BY <1>2, <1>3 DEF Index!Init, Index!NoMeta, RowsInv, Vouched
<1>5. BuildInv /\ HelperInv
  BY DEF Index!Init, Index!NoChild, BuildInv, HelperInv
<1> QED
  BY <1>1, <1>4, <1>5 DEF IndexInv

LEMMA IndexStep == IndexInv /\ [Index!Next]_(Index!vars) => IndexInv'
<1> SUFFICES ASSUME IndexInv, [Index!Next]_(Index!vars) PROVE IndexInv'
  OBVIOUS
<1>1. CASE Index!Stop
  <2>1. UNCHANGED <<disk, writes, rows, meta, helper>> /\ build' = Index!None
        /\ build.at \in {"walk", "read", "spawn"} /\ build # Index!None
    BY <1>1 DEF Index!Stop, Index!None
  <2>2. helper.at = "none"
    BY <2>1 DEF IndexInv, HelperInv
  <2> QED
    BY <2>1, <2>2 DEF IndexInv, DiskInv, RowsInv, BuildInv, HelperInv, Vouched, Stands
<1>2. CASE UNCHANGED Index!vars
  BY <1>2 DEF Index!vars, IndexInv, DiskInv, RowsInv, BuildInv, HelperInv, Vouched, Stands
<1> QED
  BY <1>1, <1>2, VisitStep, ReadStep, HelperStep, JoinStep, BeginStep, CommitStepIndex,
     WriteStepIndex
  DEF Index!Next, Index!BuildStep

\* The types that follow from the invariant of the index.
LEMMA IndexTypes == ASSUME Index!IndexAssumption PROVE IndexInv => Index!TypeOK
<1> SUFFICES ASSUME IndexInv PROVE Index!TypeOK
  OBVIOUS
<1>1. PICK S \in SUBSET Docs : rows \in [S -> Row]
  BY DEF IndexInv, RowsInv, Vouched, Rows
<1>2. \A p \in DOMAIN rows : rows[p].stamp \in 1 .. writes /\ rows[p].gen = meta.gen
  BY DEF IndexInv, RowsInv, Vouched, Stands
<1>3. build # Index!None => build.at \in {"walk", "read", "spawn", "poll", "drop", "join"}
  BY DEF IndexInv, BuildInv, Build, Reading
<1> QED
  BY <1>1, <1>2, <1>3 DEF IndexInv, HelperInv, Index!TypeOK

\* The types of the index, of a build and of the helper (document_search.rs).
THEOREM IndexTyped == ASSUME Index!IndexAssumption PROVE Index!Spec => []Index!TypeOK
BY IndexTypes, IndexInit, IndexStep, PTL DEF Index!Spec

\* What the invariant says of the stored rows.
LEMMA StampsAreKept == ASSUME Index!IndexAssumption PROVE IndexInv => Index!StampVouches
BY DEF IndexInv, RowsInv, Vouched, Stands, Index!StampVouches

\* The text of a row is that of the document as long as the stamp of the row is,
\* although documents are written and removed while the build and its helper
\* read them.
THEOREM StampsVouch == ASSUME Index!IndexAssumption PROVE Index!Spec => []Index!StampVouches
BY StampsAreKept, IndexInit, IndexStep, PTL DEF Index!Spec

-----------------------------------------------------------------------------
(* One call of an external program (ProviderCall), for any limits on its     *)
(* answer and on its error log.                                              *)

CONSTANTS MaxOutput, MaxErrors, Providers
VARIABLES provider, at, cancellation, response, errors, process, success, program, text, answer

Call == INSTANCE ProviderCall WITH child <- process

\* While the process lives the call waits for it, and the program of a script is
\* left only by a call that failed before the process ended; once it has ended
\* nobody writes any more, so what was read is what the file of the answer holds.
CallInv ==
  /\ Call!TypeOK /\ success \in BOOLEAN /\ answer \in Int
  /\ process # "none" => at \in {"poll", "wait"}
  /\ process = "alive" \/ at \in {"new", "logged", "ready"} => ~success
  /\ program => (process = "alive" /\ at \in {"poll", "wait"}) \/ (at = "failed" /\ ~success)
  /\ at = "read" => text = Call!Unread \/ (text = response /\ response \in 0 .. MaxOutput)
  /\ at = "answered" => success /\ answer \in 1 .. MaxOutput /\ response \in {Call!Gone, answer}

LEMMA CallInit == ASSUME Call!CallAssumption PROVE Call!Init => CallInv
<1> SUFFICES ASSUME Call!Init PROVE CallInv
  OBVIOUS
<1>1. /\ at = "new" /\ response = -1 /\ errors = -1 /\ process = "none" /\ success = FALSE /\ program = FALSE
      /\ text = -1 /\ answer = -1
  BY DEF Call!Init, Call!Gone
<1>2. success \in BOOLEAN /\ program \in BOOLEAN /\ ~success /\ ~program
  BY <1>1, Zenon
<1>3. /\ answer \in Int /\ response \in Call!Gone .. (MaxOutput + 1) /\ errors \in Call!Gone .. (MaxErrors + 1)
      /\ text \in Call!Unread .. (MaxOutput + 1)
  <2>1. response = -1 /\ errors = -1 /\ text = -1 /\ answer = -1
    BY <1>1
  <2> QED
    BY <2>1 DEF Call!CallAssumption, Call!Gone, Call!Unread
<1> QED
  BY <1>1, <1>2, <1>3 DEF CallInv, Call!TypeOK

LEMMA CallStep == ASSUME Call!CallAssumption PROVE CallInv /\ [Call!Next]_(Call!vars) => CallInv'
<1> SUFFICES ASSUME CallInv, [Call!Next]_(Call!vars) PROVE CallInv'
  OBVIOUS
<1> USE DEF Call!CallAssumption, CallInv, Call!TypeOK, Call!Gone, Call!Unread
<1>1. CASE Call!Refuse \/ Call!CreateLog \/ Call!Configure \/ Call!NotStarted \/ Call!Spawn
  BY <1>1 DEF Call!Refuse, Call!CreateLog, Call!Configure, Call!NotStarted, Call!Spawn, Call!Fail
<1>2. CASE Call!Write \/ Call!ProgramEnds \/ Call!Exits \/ Call!Cancel
  <2>1. CASE Call!Write
    <3>1. at \notin {"read", "answered"}
      BY <2>1 DEF Call!Write
    <3> QED
      BY <2>1, <3>1 DEF Call!Write
  <2>2. CASE Call!ProgramEnds
    BY <2>2 DEF Call!ProgramEnds
  <2>3. CASE Call!Exits
    BY <2>3 DEF Call!Exits
  <2>4. CASE Call!Cancel
    BY <2>4 DEF Call!Cancel
  <2> QED
    BY <1>2, <2>1, <2>2, <2>3, <2>4
<1>3. CASE Call!GiveUp \/ Call!Check \/ Call!TryWait
  BY <1>3 DEF Call!GiveUp, Call!Check, Call!TryWait, Call!Fail, Call!Removed
<1>4. CASE Call!Read
  BY <1>4 DEF Call!Read, Call!Fits
<1>5. CASE Call!Result
  BY <1>5 DEF Call!Result, Call!Fail, Call!Removed
<1>6. CASE UNCHANGED Call!vars
  BY <1>6 DEF Call!vars
<1> QED
  BY <1>1, <1>2, <1>3, <1>4, <1>5, <1>6 DEF Call!Next

\* What the invariant says of a call that returned.
LEMMA CallResult == ASSUME Call!CallAssumption PROVE CallInv => Call!TypeOK /\ Call!CallIsClosed
BY DEF CallInv, Call!CallIsClosed

\* A call that returns has reaped its process; what it returns is within the
\* limit and the whole answer of a program that has ended and succeeded; the
\* program of a script is left only by a call that gave up on it
\* (assistant_provider.rs, run_provider_budget).
THEOREM CallCloses ==
  ASSUME Call!CallAssumption PROVE Call!Spec => [](Call!TypeOK /\ Call!CallIsClosed)
BY CallResult, CallInit, CallStep, PTL DEF Call!Spec

-----------------------------------------------------------------------------
(* The Docker cleanup, with variables of its own.                            *)

CONSTANTS Runs, NSteps, MaxPreviews, MaxSettings
VARIABLES enabled, saves, dockerRunning, dockerFlag, closed, exit, preview, ids, plan, shown,
          dockerEpoch, dockerChange, dockerRegistered, setter, maker, run, owner, dockerChild

Docker == INSTANCE DockerCleanup WITH
  running <- dockerRunning, flag <- dockerFlag, epoch <- dockerEpoch,
  change <- dockerChange, registered <- dockerRegistered, child <- dockerChild

DockerSteps == {"idle", "claim", "reset", "take", "register", "enabled", "start", "step", "spawn",
          "poll", "record", "clear", "free", "ended"}
Outs == {"none", "refused", "completed", "partial", "cancelled", "failed"}
Run == [at : DockerSteps, id : Int, made : Int, done : Int, out : Outs]

Typed ==
  /\ run \in [Runs -> Run]
  /\ preview \in [id : Int, made : Int] /\ ids \in Nat /\ dockerEpoch \in Int
  /\ maker = Docker!IdleMaker \/ maker \in [at : {"probed", "record"}, made : Int]

\* The identifiers in use: the preview is the last one made or there is none, and
\* what a caller was shown, or is about to be shown, has been made.
Identifiers ==
  /\ preview.id \in {0, ids}
  /\ \A i \in shown : i \in Int /\ 1 <= i /\ i <= ids
  /\ maker.at = "record" => 1 <= ids

\* A run that has not taken a preview names one it was shown.
Asked ==
  \A r \in Runs :
    /\ run[r].at \in {"idle", "claim", "reset", "take"} => run[r].made = Docker!NotTaken
    /\ run[r].at \in {"claim", "reset", "take"} => run[r].id \in shown

\* A preview that was taken is not there any more.
Spent ==
  \A r \in Runs :
    run[r].made # Docker!NotTaken => 1 <= run[r].id /\ run[r].id <= ids /\ run[r].id # preview.id

\* A preview of the conversation that was shown is the recorded plan, with the
\* epoch it was made in.
Recorded ==
  /\ maker.at = "record" /\ preview.id # 0 => preview.made = maker.made
  /\ preview.id \in shown /\ preview.made # Docker!ByView =>
       plan = [id |-> preview.id, epoch |-> preview.made]

\* From the second step of the exit on no child is started, and after it none
\* is alive.
Closing == (exit # "up" => closed) /\ Docker!NothingRunsAfterExit

DockerInv == Typed /\ Identifiers /\ Asked /\ Spent /\ Docker!PreviewIsSpentOnce /\ Recorded /\ Closing

-----------------------------------------------------------------------------
\* The initial state satisfies the invariant.
LEMMA DockerInit == Docker!Init => DockerInv
<1> SUFFICES ASSUME Docker!Init PROVE DockerInv
  OBVIOUS
<1> USE DEF Docker!Init
<1>1. Typed
  BY DEF Typed, Docker!New, Run, DockerSteps, Outs, Docker!NoPreview, Docker!NotTaken
<1>2. Identifiers /\ Asked /\ Spent /\ Docker!PreviewIsSpentOnce
  BY
  DEF Identifiers, Asked, Spent, Docker!PreviewIsSpentOnce, Docker!NoPreview, Docker!New,
      Docker!IdleMaker
<1>3. Recorded /\ Closing
  BY DEF Recorded, Closing, Docker!NothingRunsAfterExit, Docker!NoPreview, Docker!IdleMaker
<1> QED
  BY <1>1, <1>2, <1>3 DEF DockerInv

\* What one step may do to a run: it goes on without a preview it has not taken,
\* or is over without one.
Onward(r, s) ==
  /\ s \in Run
  /\ s.made # Docker!NotTaken => s.made = run[r].made /\ s.id = run[r].id
  /\ s.at # "idle"
  /\ s.at \in {"claim", "reset", "take"} => s.made = Docker!NotTaken /\ s.id \in shown

\* Steps of one run that leave the previews alone.
LEMMA OneRun ==
  ASSUME DockerInv, NEW r \in Runs, NEW s, Onward(r, s), run' = [run EXCEPT ![r] = s],
         UNCHANGED <<Docker!previews, dockerEpoch>>
  PROVE  (Typed /\ Identifiers /\ Asked /\ Spent /\ Docker!PreviewIsSpentOnce /\ Recorded)'
<1> USE DEF DockerInv, Docker!previews, Onward
<1>1. (Typed /\ Identifiers /\ Recorded)'
  BY DEF Typed, Identifiers, Recorded
<1>2. \A q \in Runs : q # r => run'[q] = run[q]
  BY DEF Typed
<1>3. run'[r] = s
  BY DEF Typed
<1>4. Asked'
  BY <1>2, <1>3 DEF Asked
<1>5. (Spent /\ Docker!PreviewIsSpentOnce)'
  BY <1>2, <1>3 DEF Spent, Docker!PreviewIsSpentOnce
<1> QED
  BY <1>1, <1>4, <1>5

\* Steps that leave runs and previews alone.
LEMMA NoRun ==
  ASSUME DockerInv, UNCHANGED <<run, Docker!previews, dockerEpoch>>
  PROVE  (Typed /\ Identifiers /\ Asked /\ Spent /\ Docker!PreviewIsSpentOnce /\ Recorded)'
BY DEF DockerInv, Docker!previews, Typed, Identifiers, Asked, Spent, Docker!PreviewIsSpentOnce,
   Recorded

\* A run that only moves on, ends a command, or is refused.
LEMMA Moves ==
  ASSUME DockerInv, NEW r \in Runs, NEW place \in DockerSteps \ {"idle", "claim", "reset", "take"}, NEW out \in Outs
  PROVE  /\ Onward(r, [run[r] EXCEPT !.at = place])
         /\ Onward(r, [run[r] EXCEPT !.at = place, !.out = out])
         /\ Onward(r, [run[r] EXCEPT !.at = place, !.done = @ + 1])
         /\ Onward(r, [Docker!New EXCEPT !.at = place, !.out = "refused"])
<1>1. run[r] \in Run /\ place \in DockerSteps
  BY DEF DockerInv, Typed
<1>2. Onward(r, [run[r] EXCEPT !.at = place])
  BY <1>1 DEF Onward, Run
<1>3. Onward(r, [run[r] EXCEPT !.at = place, !.out = out])
  BY <1>1 DEF Onward, Run
<1>4. Onward(r, [run[r] EXCEPT !.at = place, !.done = @ + 1])
  <2>1. PICK n \in Int : n = run[r].done + 1
    BY <1>1 DEF Run
  <2>2. Onward(r, [run[r] EXCEPT !.at = place, !.done = n])
    BY <1>1 DEF Onward, Run
  <2> QED
    BY <2>1, <2>2
<1>5. Onward(r, [Docker!New EXCEPT !.at = place, !.out = "refused"])
  <2>1. Docker!New \in Run /\ Docker!New.made = Docker!NotTaken /\ "refused" \in Outs
    BY DEF Run, Docker!New, Docker!NotTaken, Outs, DockerSteps
  <2>2. PICK n \in Run : n = Docker!New
    BY <2>1
  <2>3. [n EXCEPT !.at = place, !.out = "refused"].made = Docker!NotTaken
    BY <2>1, <2>2 DEF Run
  <2>4. Onward(r, [n EXCEPT !.at = place, !.out = "refused"])
    BY <1>1, <2>1, <2>3 DEF Onward, Run
  <2> QED
    BY <2>2, <2>4
<1> QED
  BY <1>2, <1>3, <1>4, <1>5

\* What a cleanup that ends reports.
LEMMA OutcomeType == \A done, cancelled : Docker!Outcome(done, cancelled) \in Outs
<1> TAKE done, cancelled
<1> DEFINE a == done = NSteps /\ ~cancelled
           b == done > 0 /\ (done < NSteps \/ cancelled)
           c == done = 0 /\ cancelled
           o == CASE a -> "completed" [] b -> "partial" [] c -> "cancelled" [] OTHER -> "failed"
<1>1. o \in {"completed", "partial", "cancelled", "failed"}
  <2> HIDE DEF a, b, c
  <2> QED
    OBVIOUS
<1> QED
  BY <1>1 DEF Docker!Outcome, Outs

Rest == Typed /\ Identifiers /\ Asked /\ Spent /\ Docker!PreviewIsSpentOnce /\ Recorded

-----------------------------------------------------------------------------
\* Steps that change the previews: the preview is forgotten, made, or shown.
LEMMA PreviewSteps ==
  ASSUME DockerInv,
         \/ Docker!SetForgets \/ Docker!ChangeMode \/ Docker!MakeStores \/ Docker!MakeShows
         \/ (\E made \in {Docker!ByView, dockerEpoch} : Docker!MakeBegins(made))
  PROVE  Rest'
<1> USE DEF DockerInv, Rest
<1>1. CASE Docker!SetForgets
  <2> USE <1>1 DEF Docker!SetForgets, Docker!NoPreview, Docker!mode, Docker!process
  <2>1. (Typed /\ Identifiers /\ Asked)'
    BY DEF Typed, Identifiers, Asked
  <2>2. (Spent /\ Docker!PreviewIsSpentOnce)'
    BY DEF Spent, Docker!PreviewIsSpentOnce
  <2>3. Recorded'
    BY DEF Recorded, Identifiers
  <2> QED
    BY <2>1, <2>2, <2>3
<1>2. CASE Docker!ChangeMode
  BY <1>2
  DEF Docker!ChangeMode, Docker!previews, Typed, Identifiers, Asked, Spent,
  Docker!PreviewIsSpentOnce,
      Recorded
<1>3. ASSUME NEW made \in {Docker!ByView, dockerEpoch}, Docker!MakeBegins(made)
      PROVE  Rest'
  <2> USE <1>3 DEF Docker!MakeBegins, Docker!mode
  <2>1. (Typed /\ Identifiers /\ Recorded)'
    BY DEF Typed, Identifiers, Recorded, Docker!ByView
  <2>2. (Asked /\ Spent /\ Docker!PreviewIsSpentOnce)'
    BY DEF Asked, Spent, Docker!PreviewIsSpentOnce
  <2> QED
    BY <2>1, <2>2
<1>4. CASE Docker!MakeStores
  <2> USE <1>4 DEF Docker!MakeStores, Docker!mode
  <2>1. maker \in [at : {"probed", "record"}, made : Int]
    BY DEF Typed, Docker!IdleMaker
  <2>2. Typed'
    BY <2>1 DEF Typed, Docker!IdleMaker
  <2>3. (Identifiers /\ Recorded)'
    BY <2>1 DEF Typed, Identifiers, Recorded, Docker!IdleMaker
  <2>4. (Asked /\ Spent /\ Docker!PreviewIsSpentOnce)'
    BY DEF Typed, Asked, Spent, Docker!PreviewIsSpentOnce, Run
  <2> QED
    BY <2>2, <2>3, <2>4
<1>5. CASE Docker!MakeShows
  <2> USE <1>5 DEF Docker!MakeShows, Docker!mode
  <2>1. Typed'
    BY DEF Typed
  <2>2. Identifiers'
    BY DEF Typed, Identifiers, Docker!IdleMaker
  <2>3. Recorded'
    BY DEF Typed, Identifiers, Recorded, Docker!RecordPlan, Docker!IdleMaker
  <2>4. (Asked /\ Spent /\ Docker!PreviewIsSpentOnce)'
    BY DEF Asked, Spent, Docker!PreviewIsSpentOnce
  <2> QED
    BY <2>1, <2>2, <2>3, <2>4
<1> QED
  BY <1>1, <1>2, <1>3, <1>4, <1>5

\* Steps of one run.
LEMMA StartSteps ==
  ASSUME DockerInv, NEW r \in Runs,
         Docker!Claim(r) \/ Docker!Reset(r) \/ (\E id \in shown : Docker!Ask(r, id))
  PROVE  Rest'
<1> USE DEF DockerInv, Rest
<1>1. run[r] \in Run /\ run[r].made = Docker!NotTaken
  BY DEF Typed, Asked, Docker!Claim, Docker!Reset, Docker!Ask, Docker!At
<1>2. ASSUME NEW place \in {"reset", "take"}, Docker!Go(r, place), UNCHANGED <<Docker!previews, dockerEpoch>>,
             Docker!At(r, "claim") \/ Docker!At(r, "reset")
      PROVE  Rest'
  <2>1. Onward(r, [run[r] EXCEPT !.at = place])
    BY <1>1, <1>2 DEF Onward, Run, Asked, Docker!At, DockerSteps
  <2> QED
    BY <1>2, <2>1, OneRun DEF Docker!Go
<1>3. ASSUME Docker!Fail(r, "ended"), UNCHANGED <<Docker!previews, dockerEpoch>>
      PROVE  Rest'
  BY <1>3, Moves, OneRun DEF Docker!Fail, DockerSteps, Outs
<1>4. CASE Docker!Claim(r) \/ Docker!Reset(r)
  BY <1>2, <1>3, <1>4 DEF Docker!Claim, Docker!Reset, Docker!mode
<1>5. ASSUME NEW id \in shown, Docker!Ask(r, id)
      PROVE  Rest'
  <2>1. CASE run' = [run EXCEPT ![r].at = "claim", ![r].id = id]
    <3>1. Onward(r, [run[r] EXCEPT !.at = "claim", !.id = id])
      BY <1>1 DEF Onward, Run, Identifiers, DockerSteps
    <3>2. run' = [run EXCEPT ![r] = [run[r] EXCEPT !.at = "claim", !.id = id]]
      BY <2>1 DEF Typed
    <3> QED
      BY <1>5, <3>1, <3>2, OneRun DEF Docker!Ask, Docker!mode
  <2> QED
    BY <1>3, <1>5, <2>1 DEF Docker!Ask, Docker!mode
<1> QED
  BY <1>4, <1>5

\* A run takes the preview, which is then gone, or finds another one.
LEMMA TakeStep ==
  ASSUME DockerInv, NEW r \in Runs, Docker!Take(r)
  PROVE  Rest'
<1> USE DEF DockerInv, Rest
<1>1. run[r] \in Run /\ run[r].made = Docker!NotTaken /\ run[r].id \in shown
  BY DEF Typed, Asked, Docker!Take, Docker!At
<1>2. CASE UNCHANGED preview
  <2>1. Docker!Fail(r, "clear")
    BY <1>1, <1>2 DEF Docker!Take, Docker!TakePreview, Docker!Matching, Identifiers,
       Docker!NoPreview
  <2> QED
    BY <1>2, <2>1, Moves, OneRun DEF Docker!Fail, DockerSteps, Outs, Docker!Take,
       Docker!previews, Docker!mode
<1>3. CASE Docker!Matching(r) /\ preview' = Docker!NoPreview
  <2> DEFINE taken == [run[r] EXCEPT !.at = "register", !.made = preview.made]
             refused == [Docker!New EXCEPT !.at = "clear", !.out = "refused"]
  <2>1. PICK s \in {taken, refused} : run' = [run EXCEPT ![r] = s]
    BY <1>3 DEF Docker!Take, Docker!TakePreview, Docker!Fail, Typed
  <2>2. Onward(r, refused)
    BY Moves DEF DockerSteps, Outs
  <2>3. /\ s \in Run /\ s.at \notin {"idle", "claim", "reset", "take"}
        /\ s.made # Docker!NotTaken => s.id = run[r].id
    <3>1. CASE s = taken
      BY <1>1, <3>1 DEF Run, Typed, DockerSteps
    <3>2. CASE s = refused
      <4>1. refused.at = "clear" /\ refused.made = Docker!NotTaken
        BY DEF Docker!New
      <4> HIDE DEF refused
      <4> QED
        BY <2>2, <3>2, <4>1 DEF Onward
    <3> QED
      BY <3>1, <3>2
  <2> HIDE DEF taken, refused
  <2>4. \A q \in Runs : run'[q] = IF q = r THEN s ELSE run[q]
    BY <2>1 DEF Typed
  <2>5. (Typed /\ Identifiers /\ Recorded)'
    BY <1>3, <2>1, <2>3 DEF Docker!Take, Docker!mode, Docker!NoPreview, Typed, Identifiers, Recorded
  <2>6. Asked'
    BY <2>3, <2>4 DEF Asked, Docker!Take
  <2>7. Spent'
    BY <1>1, <1>3, <2>3, <2>4 DEF Spent, Docker!Take, Identifiers, Docker!NoPreview
  <2>8. Docker!PreviewIsSpentOnce'
    BY <1>3, <2>3, <2>4 DEF Docker!PreviewIsSpentOnce, Spent, Docker!Matching
  <2> QED
    BY <2>5, <2>6, <2>7, <2>8
<1> QED
  BY <1>2, <1>3 DEF Docker!Take, Docker!TakePreview

\* The later steps of a run leave the previews alone.
LEMMA LaterSteps ==
  ASSUME DockerInv, NEW r \in Runs,
         \/ Docker!Register(r) \/ Docker!ReadSetting(r) \/ Docker!StartTask(r)
         \/ Docker!StepTop(r) \/ Docker!Spawn(r) \/ Docker!Poll(r)
         \/ Docker!RecordHistory(r) \/ Docker!LeaseClears(r) \/ Docker!LeaseFrees(r)
  PROVE  Rest'
<1> USE DEF Rest
<1> DEFINE Later == DockerSteps \ {"idle", "claim", "reset", "take"}
<1>1. run \in [Runs -> Run] /\ UNCHANGED <<Docker!previews, dockerEpoch>>
  BY
  DEF DockerInv, Typed, Docker!Register, Docker!ReadSetting, Docker!StartTask, Docker!StepTop,
      Docker!Spawn, Docker!Poll, Docker!RecordHistory, Docker!LeaseClears, Docker!LeaseFrees,
      Docker!mode
<1>2. ASSUME NEW place \in Later, Docker!Go(r, place) PROVE Rest'
  BY <1>1, <1>2, Moves, OneRun DEF Docker!Go, Outs
<1>3. ASSUME NEW place \in Later, Docker!Fail(r, place) PROVE Rest'
  BY <1>1, <1>3, Moves, OneRun DEF Docker!Fail, Outs
<1>4. ASSUME NEW cancelled \in BOOLEAN, Docker!EndsWith(r, cancelled) PROVE Rest'
  <2>1. PICK out \in Outs : out = Docker!Outcome(run[r].done, cancelled)
    BY OutcomeType
  <2>2. run' = [run EXCEPT ![r] = [run[r] EXCEPT !.at = "record", !.out = out]]
    BY <1>1, <1>4, <2>1 DEF Docker!EndsWith
  <2> QED
    BY <1>1, <2>2, Moves, OneRun DEF DockerSteps
<1>5. CASE \/ Docker!Register(r) \/ Docker!ReadSetting(r) \/ Docker!StartTask(r)
           \/ Docker!RecordHistory(r) \/ Docker!LeaseClears(r)
  BY <1>2, <1>3, <1>5
  DEF Docker!Register, Docker!ReadSetting, Docker!StartTask, Docker!RecordHistory,
  Docker!LeaseClears,
      DockerSteps
<1>6. CASE Docker!StepTop(r) \/ Docker!Spawn(r)
  BY <1>2, <1>4, <1>6 DEF Docker!StepTop, Docker!Spawn, DockerSteps
<1>7. CASE Docker!Poll(r)
  <2>1. CASE Docker!PollDone(r)
    <3>1. run' = [run EXCEPT ![r] = [run[r] EXCEPT !.at = "step", !.done = @ + 1]]
      BY <1>1, <2>1 DEF Docker!PollDone
    <3> QED
      BY <1>1, <3>1, Moves, OneRun DEF DockerSteps, Outs
  <2> QED
    BY <1>4, <1>7, <2>1 DEF Docker!Poll, Docker!PollCancelled, Docker!PollFails
<1>8. CASE Docker!LeaseFrees(r)
  <2> DEFINE s == [Docker!New EXCEPT !.at = "ended", !.id = run[r].id, !.made = run[r].made]
  <2>1. Onward(r, s)
    <3>1. PICK n \in Run : n = Docker!New
      <4>1. Docker!New \in Run
        BY DEF Run, Docker!New, Docker!NotTaken, DockerSteps, Outs
      <4> QED
        BY <4>1
    <3>2. run[r] \in Run /\ "ended" \in DockerSteps
      BY <1>1 DEF DockerSteps
    <3>3. Onward(r, [n EXCEPT !.at = "ended", !.id = run[r].id, !.made = run[r].made])
      BY <3>2 DEF Onward, Run
    <3> QED
      BY <3>1, <3>3
  <2>2. run' = [run EXCEPT ![r] = s]
    BY <1>8 DEF Docker!LeaseFrees
  <2> QED
    BY <1>1, <2>1, <2>2, OneRun
<1> QED
  BY <1>5, <1>6, <1>7, <1>8

-----------------------------------------------------------------------------
\* Once shutdown began no child is started, and its last step ends the one there is.
LEMMA ClosingStep == DockerInv /\ [Docker!Next]_Docker!vars => Closing'
<1> SUFFICES ASSUME DockerInv, [Docker!Next]_Docker!vars PROVE Closing'
  OBVIOUS
<1> USE DEF DockerInv, Closing, Docker!NothingRunsAfterExit
<1>1. CASE UNCHANGED <<exit, closed, dockerChild>>
  BY <1>1
<1>2. CASE Docker!Close \/ Docker!CloseFlags \/ Docker!CloseStops
  BY <1>2 DEF Docker!Close, Docker!CloseFlags, Docker!CloseStops, Docker!Reaped, Docker!process
<1>3. ASSUME NEW r \in Runs, Docker!Spawn(r) \/ Docker!Poll(r)
      PROVE  Closing'
  BY <1>3
  DEF Docker!Spawn, Docker!Refused, Docker!Poll, Docker!PollCancelled, Docker!PollFails,
  Docker!PollDone,
      Docker!Reaped, Docker!process
<1>4. CASE Docker!ChildExits
  BY <1>4 DEF Docker!ChildExits
<1> QED
  BY <1>1, <1>2, <1>3, <1>4
  DEF Docker!Next, Docker!RunStep, Docker!CloseStep, Docker!vars, Docker!process, Docker!SetLooks,
      Docker!SetSaves, Docker!SetForgets, Docker!SetClears, Docker!MakeBegins, Docker!MakeStores,
      Docker!MakeShows, Docker!Ask, Docker!Claim, Docker!Reset, Docker!Take, Docker!Register,
      Docker!ReadSetting, Docker!StartTask, Docker!StepTop, Docker!RecordHistory,
      Docker!LeaseClears,
      Docker!LeaseFrees, Docker!Cancel, Docker!ChangeMode, Docker!FlagJobs

\* Every step keeps the invariant.
LEMMA DockerStep == DockerInv /\ [Docker!Next]_Docker!vars => DockerInv'
<1> SUFFICES ASSUME DockerInv, [Docker!Next]_Docker!vars PROVE Rest'
  BY ClosingStep DEF DockerInv, Rest
<1>1. CASE UNCHANGED <<run, Docker!previews, dockerEpoch>>
  BY <1>1, NoRun DEF Rest
<1>2. CASE \E r \in Runs : Docker!RunStep(r)
  BY <1>2, StartSteps, TakeStep, LaterSteps DEF Docker!RunStep
<1>3. CASE \E r \in Runs, id \in shown : Docker!Ask(r, id)
  BY <1>3, StartSteps
<1>4. CASE \/ Docker!SetForgets \/ Docker!ChangeMode \/ Docker!MakeStores \/ Docker!MakeShows
           \/ (\E made \in {Docker!ByView, dockerEpoch} : Docker!MakeBegins(made))
  BY <1>4, PreviewSteps
<1> QED
  BY <1>1, <1>2, <1>3, <1>4
  DEF Docker!Next, Docker!CloseStep, Docker!vars, Docker!mode, Docker!SetLooks, Docker!SetSaves,
      Docker!SetClears, Docker!ChildExits, Docker!Cancel, Docker!Close, Docker!CloseFlags,
      Docker!CloseStops, Docker!FlagJobs

\* The strengthened invariant holds in every reachable state.
THEOREM DockerInductiveInvariant == Docker!Spec => []DockerInv
<1> QED
  BY DockerInit, DockerStep, PTL DEF Docker!Spec

\* A preview starts one cleanup at most, whoever repeats the request (take_matching_preview).
THEOREM PreviewSafety == Docker!Spec => []Docker!PreviewIsSpentOnce
<1>1. DockerInv => Docker!PreviewIsSpentOnce
  BY DEF DockerInv
<1> QED
  BY <1>1, DockerInductiveInvariant, PTL

\* What the invariant says of the exit.
LEMMA ExitIsLast == DockerInv => Docker!NothingRunsAfterExit
BY DEF DockerInv, Closing

\* No command runs once shutdown returned (run_docker_command, stop_tracked_child).
THEOREM ExitSafety == Docker!Spec => []Docker!NothingRunsAfterExit
BY ExitIsLast, DockerInductiveInvariant, PTL

\* A cleanup that begins does so under the mode its preview was made in.
LEMMA StartsInMode == ASSUME DockerInv, [Docker!Next]_Docker!vars
      PROVE  Docker!StartInItsMode
<1> SUFFICES ASSUME NEW r \in Runs, run[r].at = "take", run'[r].at = "register"
             PROVE  preview.made \in {Docker!ByView, dockerEpoch}
  BY DEF Docker!StartInItsMode
<1>1. run \in [Runs -> Run]
  BY DEF DockerInv, Typed
<1>2. Docker!Take(r)
  <2>1. PICK q \in Runs : Docker!RunStep(q) \/ \E id \in shown : Docker!Ask(q, id)
    BY
    DEF Docker!Next, Docker!CloseStep, Docker!vars, Docker!process, Docker!SetLooks,
    Docker!SetSaves,
        Docker!SetForgets, Docker!SetClears, Docker!MakeBegins, Docker!MakeStores, Docker!MakeShows,
        Docker!ChildExits, Docker!Cancel, Docker!Close, Docker!CloseFlags, Docker!CloseStops,
        Docker!ChangeMode, Docker!FlagJobs
  <2>2. q = r
    BY <1>1, <2>1
    DEF Docker!RunStep, Docker!Ask, Docker!Claim, Docker!Reset, Docker!Take, Docker!TakePreview,
        Docker!Register, Docker!ReadSetting, Docker!StartTask, Docker!StepTop, Docker!Spawn,
        Docker!Poll, Docker!PollCancelled, Docker!PollFails, Docker!PollDone, Docker!RecordHistory,
        Docker!LeaseClears, Docker!LeaseFrees, Docker!Go, Docker!Fail, Docker!EndsWith
  <2> QED
    BY <1>1, <2>1, <2>2
    DEF Docker!RunStep, Docker!At, Docker!Ask, Docker!Claim, Docker!Reset, Docker!Register,
        Docker!ReadSetting, Docker!StartTask, Docker!StepTop, Docker!Spawn, Docker!Poll,
        Docker!PollCancelled, Docker!PollFails, Docker!PollDone, Docker!RecordHistory,
        Docker!LeaseClears, Docker!LeaseFrees
<1>3. Docker!Matching(r)
  <2>1. ~ Docker!Fail(r, "clear")
    BY <1>1 DEF Docker!Fail, Docker!New
  <2> QED
    BY <1>2, <2>1 DEF Docker!Take, Docker!TakePreview
<1> QED
  BY <1>3 DEF Docker!Matching, Docker!PlanCurrent, DockerInv, Recorded, Asked

\* A preview of the conversation starts nothing in a later mode (with_plan_authority).
THEOREM ModeSafety == Docker!Spec => Docker!EarlierModeStartsNothing
BY StartsInMode, DockerInductiveInvariant, PTL DEF Docker!EarlierModeStartsNothing, Docker!Spec

\* Flags, the child process, and how many commands of a cleanup are done: one
\* that is about to run, or runs, is one of those the request selected.
DockerTyped ==
  /\ enabled \in BOOLEAN /\ dockerRunning \in BOOLEAN /\ dockerFlag \in BOOLEAN
  /\ closed \in BOOLEAN /\ dockerRegistered \in BOOLEAN
  /\ dockerChild \in {"none", "alive", "exited"} /\ owner \in Runs \cup {"none"}
  /\ \A r \in Runs : /\ run[r].done \in 0 .. NSteps
                     /\ run[r].at \in {"spawn", "poll"} => run[r].done < NSteps

\* The initial state satisfies the types.
LEMMA DockerTypedInit == ASSUME Docker!DockerAssumption PROVE Docker!Init => DockerTyped
<1> SUFFICES ASSUME Docker!Init PROVE DockerTyped
  OBVIOUS
<1>1. \A r \in Runs : run[r].done = 0 /\ run[r].at = "idle"
  BY DEF Docker!Init, Docker!New
<1>2. 0 \in 0 .. NSteps
  BY DEF Docker!DockerAssumption
<1> QED
  BY <1>1, <1>2 DEF Docker!Init, DockerTyped

\* Every step keeps the types.
LEMMA DockerTypedStep ==
  ASSUME Docker!DockerAssumption
  PROVE  DockerInv /\ DockerTyped /\ [Docker!Next]_Docker!vars => DockerTyped'
<1> SUFFICES ASSUME DockerInv, DockerTyped, [Docker!Next]_Docker!vars PROVE DockerTyped'
  OBVIOUS
<1> DEFINE DockerCounted(s) == s.done \in 0 .. NSteps /\ (s.at \in {"spawn", "poll"} => s.done < NSteps)
<1>0. run \in [Runs -> Run] /\ NSteps \in Nat \ {0}
  BY DEF DockerInv, Typed, Docker!DockerAssumption
<1>1. ASSUME NEW r \in Runs, NEW s, run' = [run EXCEPT ![r] = s], DockerCounted(s)
      PROVE  \A q \in Runs : DockerCounted(run'[q])
  BY <1>0, <1>1 DEF DockerTyped
<1>2. ASSUME NEW r \in Runs, NEW place, place \notin {"spawn", "poll"} \/ run[r].done < NSteps, Docker!Go(r, place)
      PROVE  \A q \in Runs : DockerCounted(run'[q])
  <2>1. DockerCounted([run[r] EXCEPT !.at = place])
    BY <1>0, <1>2 DEF DockerTyped, Run
  <2> QED
    BY <1>1, <1>2, <2>1 DEF Docker!Go
<1>3. ASSUME NEW r \in Runs, NEW place \in {"clear", "ended"}, Docker!Fail(r, place)
      PROVE  \A q \in Runs : DockerCounted(run'[q])
  <2>1. DockerCounted([Docker!New EXCEPT !.at = place, !.out = "refused"])
    BY <1>0 DEF Docker!New
  <2> HIDE DEF DockerCounted
  <2> QED
    BY <1>1, <1>3, <2>1 DEF Docker!Fail
<1>4. ASSUME NEW r \in Runs, NEW cancelled, Docker!EndsWith(r, cancelled)
      PROVE  \A q \in Runs : DockerCounted(run'[q])
  <2>1. PICK out : out = Docker!Outcome(run[r].done, cancelled)
    OBVIOUS
  <2>2. run' = [run EXCEPT ![r] = [run[r] EXCEPT !.at = "record", !.out = out]]
    BY <1>0, <1>4, <2>1 DEF Docker!EndsWith
  <2>3. DockerCounted([run[r] EXCEPT !.at = "record", !.out = out])
    BY <1>0 DEF DockerTyped, Run
  <2> HIDE DEF DockerCounted
  <2> QED
    BY <1>1, <2>2, <2>3
<1>5. ASSUME \A q \in Runs : DockerCounted(run'[q]),
             /\ enabled' \in BOOLEAN /\ dockerRunning' \in BOOLEAN /\ dockerFlag' \in BOOLEAN
             /\ closed' \in BOOLEAN /\ dockerRegistered' \in BOOLEAN
             /\ dockerChild' \in {"none", "alive", "exited"} /\ owner' \in Runs \cup {"none"}
      PROVE  DockerTyped'
  BY <1>5 DEF DockerTyped
<1>6. ASSUME UNCHANGED run PROVE \A q \in Runs : DockerCounted(run'[q])
  BY <1>6 DEF DockerTyped
<1> HIDE DEF DockerCounted
<1>7. CASE \/ Docker!SetLooks \/ Docker!SetSaves \/ Docker!SetForgets \/ Docker!SetClears
           \/ (\E made \in {Docker!ByView, dockerEpoch} : Docker!MakeBegins(made))
           \/ Docker!MakeStores \/ Docker!MakeShows \/ UNCHANGED Docker!vars
  <2>1. UNCHANGED <<run, dockerRunning, closed, dockerRegistered, dockerChild, owner>>
    BY <1>7
    DEF Docker!SetLooks, Docker!SetSaves, Docker!SetForgets, Docker!SetClears, Docker!MakeBegins,
        Docker!MakeStores, Docker!MakeShows, Docker!vars, Docker!mode, Docker!process
  <2>2. enabled' = enabled \/ enabled' \in BOOLEAN
    BY <1>7
    DEF Docker!SetLooks, Docker!SetSaves, Docker!SetForgets, Docker!SetClears, Docker!MakeBegins,
        Docker!MakeStores, Docker!MakeShows, Docker!vars, Docker!setting
  <2>3. dockerFlag' = dockerFlag \/ dockerFlag' = FALSE
    BY <1>7
    DEF Docker!SetLooks, Docker!SetSaves, Docker!SetForgets, Docker!SetClears, Docker!MakeBegins,
        Docker!MakeStores, Docker!MakeShows, Docker!vars
  <2> QED
    BY <1>6, <2>1, <2>2, <2>3 DEF DockerTyped
<1>8. ASSUME NEW r \in Runs,
             \/ Docker!Claim(r) \/ Docker!Reset(r) \/ Docker!Take(r) \/ Docker!Register(r)
             \/ Docker!ReadSetting(r) \/ Docker!StartTask(r) \/ Docker!RecordHistory(r)
             \/ Docker!LeaseClears(r) \/ Docker!LeaseFrees(r) \/ (\E id \in shown : Docker!Ask(r, id))
      PROVE  DockerTyped'
  <2>1. \A q \in Runs : DockerCounted(run'[q])
    <3>1. CASE \/ Docker!Claim(r) \/ Docker!Reset(r) \/ Docker!Register(r) \/ Docker!ReadSetting(r)
               \/ Docker!StartTask(r) \/ Docker!RecordHistory(r) \/ Docker!LeaseClears(r)
      BY <1>2, <1>3, <3>1
      DEF Docker!Claim, Docker!Reset, Docker!Register, Docker!ReadSetting, Docker!StartTask,
          Docker!RecordHistory, Docker!LeaseClears
    <3>2. CASE Docker!Take(r)
      <4>1. ASSUME run' = [run EXCEPT ![r].at = "register", ![r].made = preview.made]
            PROVE  \A q \in Runs : DockerCounted(run'[q])
        <5>1. run' = [run EXCEPT ![r] = [run[r] EXCEPT !.at = "register", !.made = preview.made]]
          BY <1>0, <4>1
        <5>2. DockerCounted([run[r] EXCEPT !.at = "register", !.made = preview.made])
          BY <1>0 DEF DockerCounted, DockerTyped, Run
        <5> QED
          BY <1>1, <5>1, <5>2
      <4> QED
        BY <1>3, <3>2, <4>1 DEF Docker!Take, Docker!TakePreview
    <3>3. CASE Docker!LeaseFrees(r)
      <4>1. run' = [run EXCEPT ![r] = [Docker!New EXCEPT !.at = "ended", !.id = run[r].id, !.made = run[r].made]]
        BY <3>3 DEF Docker!LeaseFrees
      <4>2. DockerCounted([Docker!New EXCEPT !.at = "ended", !.id = run[r].id, !.made = run[r].made])
        BY <1>0 DEF DockerCounted, Docker!New
      <4> QED
        BY <1>1, <4>1, <4>2
    <3>4. ASSUME NEW id \in shown, Docker!Ask(r, id) PROVE \A q \in Runs : DockerCounted(run'[q])
      <4>1. ASSUME run' = [run EXCEPT ![r].at = "claim", ![r].id = id]
            PROVE  \A q \in Runs : DockerCounted(run'[q])
        <5>1. run' = [run EXCEPT ![r] = [run[r] EXCEPT !.at = "claim", !.id = id]]
          BY <1>0, <4>1
        <5>2. DockerCounted([run[r] EXCEPT !.at = "claim", !.id = id])
          BY <1>0 DEF DockerCounted, DockerTyped, Run
        <5> QED
          BY <1>1, <5>1, <5>2
      <4> QED
        BY <1>3, <3>4, <4>1 DEF Docker!Ask
    <3> QED
      BY <1>8, <3>1, <3>2, <3>3, <3>4
  <2>2. UNCHANGED <<enabled, closed, dockerChild, owner>>
    BY <1>8
    DEF Docker!Claim, Docker!Reset, Docker!Take, Docker!Register, Docker!ReadSetting,
    Docker!StartTask,
        Docker!RecordHistory, Docker!LeaseClears, Docker!LeaseFrees, Docker!Ask, Docker!setting,
        Docker!process
  <2>3. /\ dockerRunning' = dockerRunning \/ dockerRunning' = TRUE \/ dockerRunning' = FALSE
        /\ dockerFlag' = dockerFlag \/ dockerFlag' = FALSE
    BY <1>8
    DEF Docker!Claim, Docker!Reset, Docker!Take, Docker!Register, Docker!ReadSetting,
    Docker!StartTask,
        Docker!RecordHistory, Docker!LeaseClears, Docker!LeaseFrees, Docker!Ask
  <2>4. dockerRegistered' = dockerRegistered \/ dockerRegistered' = (dockerRegistered \/ plan.id = run[r].id)
    BY <1>8
    DEF Docker!Claim, Docker!Reset, Docker!Take, Docker!Register, Docker!ReadSetting,
    Docker!StartTask,
        Docker!RecordHistory, Docker!LeaseClears, Docker!LeaseFrees, Docker!Ask, Docker!mode
  <2> QED
    BY <2>1, <2>2, <2>3, <2>4, <1>5 DEF DockerTyped
<1>9. ASSUME NEW r \in Runs, Docker!StepTop(r) \/ Docker!Spawn(r) \/ Docker!Poll(r)
      PROVE  DockerTyped'
  <2>1. \A q \in Runs : DockerCounted(run'[q])
    <3>1. CASE Docker!StepTop(r)
      <4>1. run[r].done \in 0 .. NSteps
        BY DEF DockerTyped
      <4>2. run[r].done # NSteps => run[r].done < NSteps
        BY <1>0, <4>1
      <4> QED
        BY <1>2, <1>4, <3>1, <4>2 DEF Docker!StepTop
    <3>2. CASE Docker!Spawn(r)
      BY <1>2, <1>4, <3>2 DEF Docker!Spawn, Docker!At, DockerTyped
    <3>3. CASE Docker!PollDone(r)
      <4>1. run[r].done \in 0 .. NSteps /\ run[r].done < NSteps
        BY <3>3 DEF Docker!PollDone, Docker!At, DockerTyped
      <4>2. run' = [run EXCEPT ![r] = [run[r] EXCEPT !.at = "step", !.done = run[r].done + 1]]
        BY <1>0, <3>3 DEF Docker!PollDone
      <4>3. DockerCounted([run[r] EXCEPT !.at = "step", !.done = run[r].done + 1])
        BY <1>0, <4>1 DEF DockerCounted, Run
      <4> QED
        BY <1>1, <4>2, <4>3
    <3>4. CASE Docker!PollCancelled(r) \/ Docker!PollFails(r)
      BY <1>4, <3>4 DEF Docker!PollCancelled, Docker!PollFails
    <3> QED
      BY <1>9, <3>1, <3>2, <3>3, <3>4 DEF Docker!Poll
  <2>2. UNCHANGED <<enabled, dockerRunning, dockerFlag, closed, dockerRegistered>>
    BY <1>9 DEF Docker!StepTop, Docker!Spawn, Docker!Poll, Docker!setting, Docker!mode
  <2>3. UNCHANGED <<dockerChild, owner>> \/ (dockerChild' = "alive" /\ owner' = r) \/ (dockerChild' = "none" /\ owner' = "none")
    BY <1>9
    DEF Docker!StepTop, Docker!Spawn, Docker!Poll, Docker!PollDone, Docker!PollCancelled,
        Docker!PollFails, Docker!Reaped, Docker!process
  <2> QED
    BY <2>1, <2>2, <2>3, <1>5 DEF DockerTyped
<1>10. CASE \/ Docker!ChildExits \/ Docker!Cancel \/ Docker!Close \/ Docker!CloseFlags
            \/ Docker!CloseStops \/ Docker!ChangeMode \/ Docker!FlagJobs
  <2>1. UNCHANGED <<run, enabled, dockerRunning>>
    BY <1>10
    DEF Docker!ChildExits, Docker!Cancel, Docker!Close, Docker!CloseFlags, Docker!CloseStops,
        Docker!ChangeMode, Docker!FlagJobs, Docker!setting
  <2>2. /\ UNCHANGED <<dockerChild, owner>> \/ (dockerChild' = "exited" /\ owner' = owner) \/ (dockerChild' = "none" /\ owner' = "none")
        /\ closed' = closed \/ closed' = TRUE
        /\ dockerRegistered' = dockerRegistered \/ dockerRegistered' = FALSE
    BY <1>10
    DEF Docker!ChildExits, Docker!Cancel, Docker!Close, Docker!CloseFlags, Docker!CloseStops,
        Docker!ChangeMode, Docker!FlagJobs, Docker!Reaped, Docker!process, Docker!mode
  <2>3. dockerFlag' = dockerFlag \/ dockerFlag' = TRUE \/ dockerFlag' = (dockerFlag \/ dockerRegistered)
    BY <1>10
    DEF Docker!ChildExits, Docker!Cancel, Docker!Close, Docker!CloseFlags, Docker!CloseStops,
        Docker!ChangeMode, Docker!FlagJobs
  <2> QED
    BY <1>6, <2>1, <2>2, <2>3 DEF DockerTyped
<1> QED
  BY <1>7, <1>8, <1>9, <1>10 DEF Docker!Next, Docker!RunStep, Docker!CloseStep

\* The types that follow from the two invariants.
LEMMA DockerTypes == ASSUME Docker!DockerAssumption PROVE DockerInv /\ DockerTyped => Docker!TypeOK
BY DEF DockerInv, Typed, Identifiers, DockerTyped, Docker!TypeOK

\* The types, and how far a cleanup gets: no more commands than were selected.
THEOREM DockerTypeCorrect ==
  ASSUME Docker!DockerAssumption PROVE Docker!Spec => []Docker!TypeOK
BY DockerTypes, DockerInit, DockerStep, DockerTypedInit, DockerTypedStep, PTL DEF Docker!Spec

-----------------------------------------------------------------------------
(* The cleanup tree, for any jobs, entries, trees, selections, scans and     *)
(* changes of the mode.                                                      *)

CONSTANTS Jobs, NItems, MaxTrees, MaxSelects, MaxScans
VARIABLES tree, made, report, cleared, treeSlot, treeFlag, treeRegistered, treeEpoch, treeChange, job

Life == INSTANCE CleanupTree WITH
  slot <- treeSlot, flag <- treeFlag, registered <- treeRegistered, epoch <- treeEpoch,
  change <- treeChange

TreePlan == [id : Nat, revision : Nat]
TreeRec == [id : Nat, generation : Nat, bound : BOOLEAN, epoch : Nat, revision : Nat, plan : TreePlan]
TreeStages ==
  {"idle", "begin", "register", "work", "move", "clear", "free", "select", "dismiss", "prepare", "allowed"}
TreeJob ==
  [at : TreeStages, op : {"", "open", "select", "dismiss", "prepare", "confirm"}, tree : TreeRec,
   moved : Nat, plan : TreePlan]

\* From the start of its work to the end a job has the slot.
InSlot(j) == job[j].at \in {"register", "work", "move", "clear", "free"}

LifeTyped ==
  /\ tree \in TreeRec /\ made \in Nat /\ tree.id <= made
  /\ report \in Nat /\ cleared \in Nat /\ treeSlot \in Jobs \cup {"none"}
  /\ treeFlag \in BOOLEAN /\ treeRegistered \in BOOLEAN /\ treeEpoch \in Nat /\ treeChange \in {"done", "flag"}
  /\ job \in [Jobs -> TreeJob] /\ \A j \in Jobs : job[j].moved <= NItems

LifeSlot == \A j \in Jobs : InSlot(j) => treeSlot = j

\* A tree that is being made has no plan; while entries are moved, and until
\* the reports of them are cleared, there is no tree.
NewTreeHasNoPlan ==
  \A j \in Jobs :
    job[j].op = "open" => job[j].at \in {"begin", "register", "work"} /\ job[j].tree.plan = Life!NoPlan
NoTreeMeanwhile == \A j \in Jobs : job[j].at \in {"move", "clear"} => tree = Life!NoTree

\* The conversation can stop what works on a tree of its own, and what it did
\* not stop works under the present permission.
StopsReach == \A j \in Jobs : job[j].at \in {"work", "move"} /\ job[j].tree.bound => treeRegistered
MovesUnderPermission ==
  \A j \in Jobs : job[j].at = "move" /\ job[j].tree.bound /\ treeChange = "done" /\ ~treeFlag => job[j].tree.epoch = treeEpoch

LifeInv ==
  /\ LifeTyped /\ LifeSlot /\ NewTreeHasNoPlan /\ NoTreeMeanwhile /\ StopsReach /\ MovesUnderPermission
  /\ Life!PlanIsOfSelection /\ Life!TreeIsOfLiveReport

-----------------------------------------------------------------------------
LEMMA NothingTyped == Life!NoPlan \in TreePlan /\ Life!NoTree \in TreeRec /\ Life!New \in TreeJob
                        /\ Life!New.at = "idle" /\ Life!New.moved = 0 /\ Life!New.op = ""
<1>1. Life!NoPlan \in TreePlan
  BY DEF Life!NoPlan, TreePlan
<1>2. Life!NoTree \in TreeRec
  BY <1>1 DEF Life!NoTree, TreeRec
<1> QED
  BY <1>1, <1>2 DEF Life!New, TreeJob, TreeStages

LEMMA NewMovesNone == ASSUME Life!LifeAssumption PROVE 0 <= NItems /\ Life!New.moved <= NItems
<1>1. 0 <= NItems
  BY DEF Life!LifeAssumption
<1> QED
  BY <1>1, NothingTyped

LEMMA LifeBegins == ASSUME Life!LifeAssumption, Life!Init PROVE LifeInv
<1>1. \A j \in Jobs : job[j] = Life!New
  BY DEF Life!Init
<1>2. tree = Life!NoTree /\ Life!NoTree.plan = Life!NoPlan /\ Life!NoTree.id = 0
  BY DEF Life!Init, Life!NoTree
<1>3. LifeTyped
  <2>1. job \in [Jobs -> TreeJob]
    BY NothingTyped DEF Life!Init
  <2>2. NItems \in Nat
    BY DEF Life!LifeAssumption
  <2>3. \A j \in Jobs : job[j].moved = 0
    BY <1>1, NothingTyped
  <2>4. \A j \in Jobs : job[j].moved <= NItems
    BY <2>2, <2>3
  <2>5. made = 0 /\ tree.id = 0 /\ tree \in TreeRec
    BY <1>2, NothingTyped DEF Life!Init
  <2>6. tree.id <= made
    BY <2>5
  <2>7. /\ made \in Nat /\ report \in Nat /\ cleared \in Nat /\ treeSlot \in Jobs \cup {"none"}
        /\ treeFlag \in BOOLEAN /\ treeRegistered \in BOOLEAN /\ treeEpoch \in Nat /\ treeChange \in {"done", "flag"}
    BY DEF Life!Init
  <2> QED
    BY <2>1, <2>4, <2>5, <2>6, <2>7 DEF LifeTyped
<1>4. LifeSlot /\ NewTreeHasNoPlan /\ NoTreeMeanwhile /\ StopsReach /\ MovesUnderPermission
  BY <1>1, NothingTyped DEF InSlot, LifeSlot, NewTreeHasNoPlan, NoTreeMeanwhile, StopsReach,
     MovesUnderPermission
<1>5. Life!PlanIsOfSelection /\ Life!TreeIsOfLiveReport
  BY <1>2 DEF Life!PlanIsOfSelection, Life!TreeIsOfLiveReport
<1> QED
  BY <1>3, <1>4, <1>5 DEF LifeInv

\* What a step of one job has to show, when it leaves the tree and the reports.
LEMMA JobSteps ==
  ASSUME Life!LifeAssumption, LifeInv, NEW j \in Jobs, NEW r \in TreeJob, job' = [job EXCEPT ![j] = r],
         UNCHANGED <<tree, made, report, cleared, treeEpoch, treeChange>>,
         treeSlot \in {j, "none"} \/ UNCHANGED <<treeSlot, treeFlag, treeRegistered>>,
         treeSlot' \in Jobs \cup {"none"}, treeFlag' \in BOOLEAN, treeRegistered' \in BOOLEAN, r.moved <= NItems,
         r.at \in {"register", "work", "move", "clear", "free"} => treeSlot' = j,
         r.op = "open" => r.at \in {"begin", "register", "work"} /\ r.tree.plan = Life!NoPlan,
         r.at \in {"move", "clear"} => tree = Life!NoTree,
         r.at \in {"work", "move"} /\ r.tree.bound => treeRegistered',
         r.at = "move" /\ r.tree.bound /\ treeChange = "done" /\ ~treeFlag' => r.tree.epoch = treeEpoch
  PROVE  LifeInv'
<1>1. \A k \in Jobs : job'[k] = IF k = j THEN r ELSE job[k]
  BY DEF LifeInv, LifeTyped
<1>2. LifeTyped'
  <2>1. job' \in [Jobs -> TreeJob]
    BY DEF LifeInv, LifeTyped
  <2>2. \A k \in Jobs : job'[k].moved <= NItems
    BY <1>1 DEF LifeInv, LifeTyped
  <2> QED
    BY <2>1, <2>2 DEF LifeInv, LifeTyped
<1>3. \A k \in Jobs : k # j /\ InSlot(k) => treeSlot = k /\ UNCHANGED <<treeSlot, treeFlag, treeRegistered>>
  <2>1. \A k \in Jobs : InSlot(k) => treeSlot = k /\ treeSlot # "none"
    BY DEF LifeInv, LifeSlot, Life!LifeAssumption
  <2> QED
    BY <2>1
<1>4. LifeSlot'
  BY <1>1, <1>3 DEF LifeSlot, InSlot
<1>5. NewTreeHasNoPlan'
  BY <1>1 DEF LifeInv, NewTreeHasNoPlan
<1>6. NoTreeMeanwhile'
  BY <1>1 DEF LifeInv, NoTreeMeanwhile
<1>7. StopsReach'
  BY <1>1, <1>3 DEF LifeInv, StopsReach, InSlot
<1>8. MovesUnderPermission'
  BY <1>1, <1>3 DEF LifeInv, MovesUnderPermission, InSlot
<1>9. Life!PlanIsOfSelection' /\ Life!TreeIsOfLiveReport'
  BY DEF LifeInv, Life!PlanIsOfSelection, Life!TreeIsOfLiveReport
<1> QED
  BY <1>2, <1>4, <1>5, <1>6, <1>7, <1>8, <1>9 DEF LifeInv

\* A job that is over, without or with the slot.
LEMMA JobRefused ==
  ASSUME Life!LifeAssumption, LifeInv, NEW j \in Jobs, Life!Refuse(j) PROVE LifeInv'
<1>1. job' = [job EXCEPT ![j] = Life!New] /\ UNCHANGED <<tree, made, report, cleared, treeEpoch, treeChange, treeSlot, treeFlag, treeRegistered>>
  BY DEF Life!Refuse, Life!reports, Life!work, Life!mode
<1>3. Life!New.moved <= NItems
  BY NewMovesNone
<1>4. treeSlot' \in Jobs \cup {"none"} /\ treeFlag' \in BOOLEAN /\ treeRegistered' \in BOOLEAN
  BY <1>1 DEF LifeInv, LifeTyped
<1> QED
  BY <1>1, <1>3, <1>4, NothingTyped, JobSteps

LEMMA JobFailed ==
  ASSUME Life!LifeAssumption, LifeInv, NEW j \in Jobs, InSlot(j), Life!Fail(j) PROVE LifeInv'
<1>1. /\ job' = [job EXCEPT ![j] = Life!New] /\ treeSlot' = "none" /\ treeRegistered' = FALSE
      /\ UNCHANGED <<tree, made, report, cleared, treeEpoch, treeChange, treeFlag>>
  BY DEF Life!Fail, Life!Release, Life!reports, Life!mode
<1>3. Life!New.moved <= NItems
  BY NewMovesNone
<1>4. treeSlot = j /\ treeFlag' \in BOOLEAN
  BY <1>1 DEF LifeInv, LifeTyped, LifeSlot
<1> QED
  BY <1>1, <1>3, <1>4, NothingTyped, JobSteps

LEMMA LifeTypes ==
  ASSUME Life!LifeAssumption, LifeInv
  PROVE  /\ NItems \in Nat /\ treeSlot \in Jobs \cup {"none"} /\ treeFlag \in BOOLEAN /\ treeRegistered \in BOOLEAN
         /\ tree \in TreeRec /\ treeEpoch \in Nat /\ report \in Nat /\ made \in Nat
         /\ \A j \in Jobs : job[j] \in TreeJob /\ job[j].moved <= NItems /\ job[j].moved \in Nat
BY DEF Life!LifeAssumption, LifeInv, LifeTyped, TreeJob

LEMMA StageTyped ==
  ASSUME NEW r \in TreeJob, NEW s \in TreeStages, NEW q, q = [r EXCEPT !.at = s]
  PROVE  q \in TreeJob /\ q.at = s /\ q.op = r.op /\ q.tree = r.tree /\ q.moved = r.moved /\ q.plan = r.plan
BY DEF TreeJob

-----------------------------------------------------------------------------
(* The commands.                                                             *)

LEMMA LifeOpens ==
  ASSUME Life!LifeAssumption, LifeInv, NEW j \in Jobs,
         \/ \E bound \in BOOLEAN : Life!Open(j, bound)
         \/ \E op \in {"select", "dismiss", "prepare", "confirm"} : Life!Copy(j, op)
  PROVE  LifeInv'
<1> USE LifeTypes, NothingTyped
<1>1. /\ UNCHANGED <<tree, made, report, cleared, treeEpoch, treeChange, treeSlot, treeFlag, treeRegistered>>
  BY DEF Life!Open, Life!Copy, Life!reports, Life!work, Life!mode
<1>2. ASSUME NEW bound \in BOOLEAN, Life!Open(j, bound) PROVE LifeInv'
  <2> DEFINE t == [Life!NoTree EXCEPT !.generation = report, !.bound = bound, !.epoch = treeEpoch]
             r == [Life!New EXCEPT !.at = "begin", !.op = "open", !.tree = t]
  <2>1. job' = [job EXCEPT ![j] = r]
    BY <1>2 DEF Life!Open
  <2>2. t \in TreeRec /\ t.plan = Life!NoPlan
    BY DEF TreeRec, Life!NoTree
  <2> HIDE DEF t
  <2>3. r \in TreeJob /\ r.at = "begin" /\ r.tree = t /\ r.moved = 0
    BY <2>2 DEF TreeJob, TreeStages
  <2> HIDE DEF r
  <2>4. r.moved <= NItems
    BY <2>3, NewMovesNone
  <2> QED
    BY <1>1, <2>1, <2>2, <2>3, <2>4, JobSteps
<1>3. ASSUME NEW op \in {"select", "dismiss", "prepare", "confirm"}, Life!Copy(j, op) PROVE LifeInv'
  <2> DEFINE a == IF op = "confirm" THEN "allowed" ELSE op
             r == [Life!New EXCEPT !.at = a, !.op = op, !.tree = tree, !.plan = tree.plan]
  <2>1. job' = [job EXCEPT ![j] = r]
    BY <1>3 DEF Life!Copy
  <2>2. a \in {"allowed", "select", "dismiss", "prepare"} /\ tree.plan \in TreePlan
    BY DEF TreeRec
  <2> HIDE DEF a
  <2>3. r \in TreeJob /\ r.at = a /\ r.moved = 0 /\ r.op = op
    BY <2>2 DEF TreeJob, TreeStages
  <2> HIDE DEF r
  <2>4. r.moved <= NItems
    BY <2>3, NewMovesNone
  <2> QED
    BY <1>1, <2>1, <2>2, <2>3, <2>4, JobSteps
<1> QED
  BY <1>2, <1>3

\* Steps that change the stored tree but not whether there is one, nor the
\* report it is of.
LEMMA TreeSteps ==
  ASSUME Life!LifeAssumption, LifeInv, NEW j \in Jobs, NEW r \in TreeJob, job' = [job EXCEPT ![j] = r],
         UNCHANGED <<made, report, cleared, treeEpoch, treeChange, treeSlot, treeFlag, treeRegistered>>,
         tree # Life!NoTree, tree' \in TreeRec, tree'.id = tree.id, tree'.generation = tree.generation, tree'.plan = Life!NoPlan,
         r.moved <= NItems, r.at \in {"idle", "begin"}, r.op # "open"
  PROVE  LifeInv'
<1>1. \A k \in Jobs : job'[k] = IF k = j THEN r ELSE job[k]
  BY DEF LifeInv, LifeTyped
<1>2. LifeTyped'
  <2>1. job' \in [Jobs -> TreeJob]
    BY DEF LifeInv, LifeTyped
  <2>2. \A k \in Jobs : job'[k].moved <= NItems
    BY <1>1 DEF LifeInv, LifeTyped
  <2> QED
    BY <2>1, <2>2 DEF LifeInv, LifeTyped
<1>3. LifeSlot'
  BY <1>1 DEF LifeInv, LifeSlot, InSlot
<1>4. NewTreeHasNoPlan'
  BY <1>1 DEF LifeInv, NewTreeHasNoPlan
<1>5. NoTreeMeanwhile'
  BY <1>1 DEF LifeInv, NoTreeMeanwhile
<1>6. StopsReach' /\ MovesUnderPermission'
  BY <1>1 DEF LifeInv, StopsReach, MovesUnderPermission
<1>7. Life!PlanIsOfSelection'
  BY DEF Life!PlanIsOfSelection
<1>8. Life!TreeIsOfLiveReport'
  BY DEF LifeInv, Life!TreeIsOfLiveReport
<1> QED
  BY <1>2, <1>3, <1>4, <1>5, <1>6, <1>7, <1>8 DEF LifeInv

LEMMA SelectionChanges ==
  ASSUME NEW t \in TreeRec, NEW q, q = [t EXCEPT !.revision = @ + 1, !.plan = Life!NoPlan]
  PROVE  q \in TreeRec /\ q.id = t.id /\ q.generation = t.generation /\ q.plan = Life!NoPlan
<1>1. t.revision \in Nat
  BY DEF TreeRec
<1>2. t.revision + 1 \in Nat
  BY <1>1
<1>3. q = [t EXCEPT !.revision = t.revision + 1, !.plan = Life!NoPlan]
  OBVIOUS
<1> QED
  BY <1>2, <1>3, NothingTyped DEF TreeRec

LEMMA LifeSelects ==
  ASSUME Life!LifeAssumption, LifeInv, NEW j \in Jobs, Life!Select(j)
  PROVE  LifeInv'
<1> USE LifeTypes, NothingTyped
<1>1. CASE Life!Refuse(j)
  BY <1>1, JobRefused
<1>2. CASE ~Life!Refuse(j)
  <2>1. /\ tree # Life!NoTree /\ tree' = [tree EXCEPT !.revision = @ + 1, !.plan = Life!NoPlan] /\ job' = [job EXCEPT ![j] = Life!New]
        /\ UNCHANGED <<made, report, cleared, treeEpoch, treeChange, treeSlot, treeFlag, treeRegistered>>
    BY <1>2 DEF Life!Select, Life!Live, Life!reports, Life!work, Life!mode
  <2>2. tree' \in TreeRec /\ tree'.id = tree.id /\ tree'.generation = tree.generation /\ tree'.plan = Life!NoPlan
    BY <2>1, SelectionChanges
  <2>3. Life!New.moved <= NItems
    BY NewMovesNone
  <2> QED
    BY <2>1, <2>2, <2>3, TreeSteps
<1> QED
  BY <1>1, <1>2

\* The stored tree loses its plan.
LEMMA PlanGone ==
  ASSUME LifeInv, NEW q, q = [tree EXCEPT !.plan = Life!NoPlan]
  PROVE  q \in TreeRec /\ q.id = tree.id /\ q.generation = tree.generation /\ q.plan = Life!NoPlan
BY NothingTyped DEF LifeInv, LifeTyped, TreeRec

LEMMA LifeDismisses ==
  ASSUME Life!LifeAssumption, LifeInv, NEW j \in Jobs, Life!Dismiss(j)
  PROVE  LifeInv'
<1> USE LifeTypes, NothingTyped
<1>1. CASE Life!Refuse(j)
  BY <1>1, JobRefused
<1>2. CASE ~Life!Refuse(j)
  <2>1. /\ tree # Life!NoTree /\ tree' \in {tree, [tree EXCEPT !.plan = Life!NoPlan]} /\ job' = [job EXCEPT ![j] = Life!New]
        /\ UNCHANGED <<made, report, cleared, treeEpoch, treeChange, treeSlot, treeFlag, treeRegistered>>
    BY <1>2 DEF Life!Dismiss, Life!Live, Life!reports, Life!work, Life!mode
  <2>2. CASE tree' = tree
    BY <1>2, <2>1, <2>2 DEF Life!Refuse, Life!reports, Life!work, Life!mode
  <2>3. Life!New.moved <= NItems
    BY NewMovesNone
  <2>4. CASE tree' # tree
    <3>1. tree' = [tree EXCEPT !.plan = Life!NoPlan]
      BY <2>1, <2>4
    <3> QED
      BY <2>1, <2>3, <3>1, PlanGone, TreeSteps
  <2> QED
    BY <2>2, <2>4
<1> QED
  BY <1>1, <1>2

LEMMA LifePrepares ==
  ASSUME Life!LifeAssumption, LifeInv, NEW j \in Jobs, Life!Prepare(j), job[j].op # "open"
  PROVE  LifeInv'
<1> USE LifeTypes, NothingTyped
<1>1. CASE Life!Refuse(j)
  BY <1>1, JobRefused
<1>2. CASE ~Life!Refuse(j)
  <2> DEFINE r == [job[j] EXCEPT !.at = "begin", !.tree = tree']
  <2>1. /\ tree # Life!NoTree /\ tree' = [tree EXCEPT !.plan = Life!NoPlan] /\ job' = [job EXCEPT ![j].at = "begin", ![j].tree = tree']
        /\ UNCHANGED <<made, report, cleared, treeEpoch, treeChange, treeSlot, treeFlag, treeRegistered>>
    BY <1>2 DEF Life!Prepare, Life!Live, Life!reports, Life!work, Life!mode
  <2>2. tree' \in TreeRec /\ tree'.id = tree.id /\ tree'.generation = tree.generation /\ tree'.plan = Life!NoPlan
    BY <2>1, PlanGone
  <2>3. job' = [job EXCEPT ![j] = r]
    BY <2>1
  <2>4. r \in TreeJob /\ r.at = "begin" /\ r.op = job[j].op /\ r.moved = job[j].moved
    BY <2>2 DEF TreeJob, TreeStages
  <2> HIDE DEF r
  <2> QED
    BY <2>1, <2>2, <2>3, <2>4, TreeSteps
<1> QED
  BY <1>1, <1>2

LEMMA LifeAllowed ==
  ASSUME Life!LifeAssumption, LifeInv, NEW j \in Jobs, Life!ConfirmAllowed(j)
  PROVE  LifeInv'
<1> USE LifeTypes
<1>1. CASE Life!Refuse(j)
  BY <1>1, JobRefused
<1>2. CASE ~Life!Refuse(j)
  <2> DEFINE r == [job[j] EXCEPT !.at = "begin"]
  <2>1. /\ job[j].at = "allowed" /\ job' = [job EXCEPT ![j].at = "begin"]
        /\ UNCHANGED <<tree, made, report, cleared, treeEpoch, treeChange, treeSlot, treeFlag, treeRegistered>>
    BY <1>2 DEF Life!ConfirmAllowed, Life!At, Life!Go, Life!reports, Life!work, Life!mode
  <2>2. job' = [job EXCEPT ![j] = r]
    BY <2>1
  <2>3. job[j] \in TreeJob /\ job[j].moved <= NItems
    OBVIOUS
  <2>4. r \in TreeJob /\ r.at = "begin" /\ r.op = job[j].op /\ r.moved = job[j].moved
    BY <2>3, StageTyped DEF TreeStages
  <2>5. job[j].op # "open"
    BY <2>1 DEF LifeInv, NewTreeHasNoPlan
  <2> HIDE DEF r
  <2> QED
    BY <2>1, <2>2, <2>3, <2>4, <2>5, JobSteps
<1> QED
  BY <1>1, <1>2

LEMMA LifeTakesSlot ==
  ASSUME Life!LifeAssumption, LifeInv, NEW j \in Jobs, Life!Begin(j) \/ Life!Register(j) PROVE LifeInv'
<1> USE LifeTypes
<1>1. job[j] \in TreeJob /\ job[j].moved <= NItems
  OBVIOUS
<1>2. job[j].op = "open" => job[j].tree.plan = Life!NoPlan
  BY DEF LifeInv, NewTreeHasNoPlan
<1>3. CASE Life!Begin(j)
  <2>1. CASE Life!Refuse(j)
    BY <2>1, JobRefused
  <2>2. CASE ~Life!Refuse(j)
    <3> DEFINE s == IF job[j].tree.bound THEN "register" ELSE "work"
               r == [job[j] EXCEPT !.at = s]
    <3>1. /\ treeSlot = "none" /\ treeSlot' = j /\ treeFlag' = FALSE /\ treeRegistered' = FALSE /\ job' = [job EXCEPT ![j].at = s]
          /\ UNCHANGED <<tree, made, report, cleared, treeEpoch, treeChange>>
      BY <1>3, <2>2 DEF Life!Begin, Life!Go, Life!reports, Life!mode
    <3>2. job' = [job EXCEPT ![j] = r]
      BY <3>1
    <3>3. s \in {"register", "work"} /\ (s = "work" => ~job[j].tree.bound)
      BY <1>1 DEF TreeJob, TreeRec
    <3> HIDE DEF s
    <3>4. r \in TreeJob /\ r.at = s /\ r.op = job[j].op /\ r.moved = job[j].moved /\ r.tree = job[j].tree
      BY <1>1, <3>3, StageTyped DEF TreeStages
    <3> HIDE DEF r
    <3>5. r.op = "open" => r.at \in {"begin", "register", "work"} /\ r.tree.plan = Life!NoPlan
      BY <1>2, <3>3, <3>4
    <3>6. r.at \notin {"move", "clear"} /\ (r.at = "work" => ~r.tree.bound) /\ r.moved <= NItems
      BY <1>1, <3>3, <3>4
    <3>7. treeSlot' \in Jobs \cup {"none"} /\ treeFlag' \in BOOLEAN /\ treeRegistered' \in BOOLEAN
      BY <3>1
    <3> QED
      BY <3>1, <3>2, <3>4, <3>5, <3>6, <3>7, JobSteps
  <2> QED
    BY <2>1, <2>2
<1>4. CASE Life!Register(j)
  <2> DEFINE r == [job[j] EXCEPT !.at = "work"]
  <2>1. /\ job[j].at = "register" /\ treeRegistered' = TRUE /\ job' = [job EXCEPT ![j].at = "work"]
        /\ UNCHANGED <<tree, made, report, cleared, treeEpoch, treeChange, treeSlot, treeFlag>>
    BY <1>4 DEF Life!Register, Life!At, Life!Go, Life!reports, Life!mode
  <2>2. job' = [job EXCEPT ![j] = r]
    BY <2>1
  <2>3. r \in TreeJob /\ r.at = "work" /\ r.op = job[j].op /\ r.moved = job[j].moved /\ r.tree = job[j].tree
    BY <1>1, StageTyped DEF TreeStages
  <2>4. treeSlot = j
    BY <2>1 DEF LifeInv, LifeSlot, InSlot
  <2>5. treeFlag' \in BOOLEAN /\ treeRegistered' \in BOOLEAN /\ treeSlot' = j
    BY <2>1, <2>4
  <2>6. (r.at \in {"work", "move"} /\ r.tree.bound => treeRegistered') /\ r.at # "move"
    BY <2>1, <2>3
  <2>7. UNCHANGED <<tree, made, report, cleared, treeEpoch, treeChange>>
    BY <2>1
  <2> HIDE DEF r
  <2> QED
    BY <1>1, <1>2, <2>2, <2>3, <2>4, <2>5, <2>6, <2>7, JobSteps
<1> QED
  BY <1>3, <1>4

-----------------------------------------------------------------------------
(* The work.                                                                 *)

\* A step at which the job that has the slot gives it back, and the tree, the
\* report and the trees made change.
LEMMA SlotEnds ==
  ASSUME Life!LifeAssumption, LifeInv, NEW j \in Jobs, InSlot(j), job' = [job EXCEPT ![j] = Life!New],
         treeSlot' = "none", treeRegistered' = FALSE, UNCHANGED <<treeFlag, report, cleared, treeEpoch, treeChange>>,
         tree' \in TreeRec, made' \in Nat, tree'.id <= made', Life!PlanIsOfSelection', Life!TreeIsOfLiveReport'
  PROVE  LifeInv'
<1>1. \A k \in Jobs : job'[k] = IF k = j THEN Life!New ELSE job[k]
  BY DEF LifeInv, LifeTyped
<1>2. \A k \in Jobs : InSlot(k) => k = j
  BY DEF LifeInv, LifeSlot
<1>3. \A k \in Jobs : job'[k].at \notin {"register", "work", "move", "clear", "free"}
  BY <1>1, <1>2, NothingTyped DEF InSlot
<1>4. LifeTyped'
  <2>1. job' \in [Jobs -> TreeJob]
    BY NothingTyped DEF LifeInv, LifeTyped
  <2>2. \A k \in Jobs : job'[k].moved <= NItems
    BY <1>1, NewMovesNone DEF LifeInv, LifeTyped
  <2> QED
    BY <2>1, <2>2 DEF LifeInv, LifeTyped
<1>5. LifeSlot'
  BY <1>3 DEF LifeSlot, InSlot
<1>6. NewTreeHasNoPlan'
  BY <1>1, NothingTyped DEF LifeInv, NewTreeHasNoPlan
<1>7. NoTreeMeanwhile' /\ StopsReach' /\ MovesUnderPermission'
  BY <1>3 DEF NoTreeMeanwhile, StopsReach, MovesUnderPermission
<1> QED
  BY <1>4, <1>5, <1>6, <1>7 DEF LifeInv

LEMMA LifeStores ==
  ASSUME Life!LifeAssumption, LifeInv, NEW j \in Jobs, Life!StoreTree(j) \/ Life!StorePlan(j) PROVE LifeInv'
<1> USE LifeTypes
<1>1. InSlot(j) /\ job[j].tree \in TreeRec
  BY DEF Life!StoreTree, Life!StorePlan, Life!At, InSlot, TreeJob
<1>2. CASE Life!Fail(j)
  BY <1>1, <1>2, JobFailed
<1>3. made + 1 \in Nat
  <2>1. made \in Nat
    OBVIOUS
  <2> QED
    BY <2>1
<1>4. CASE Life!StoreTree(j) /\ ~Life!Fail(j)
  <2> DEFINE t == job[j].tree
  <2>1. /\ t.generation = report /\ report > cleared /\ tree' = [t EXCEPT !.id = made + 1] /\ made' = made + 1
        /\ job[j].op = "open" /\ job' = [job EXCEPT ![j] = Life!New] /\ treeSlot' = "none" /\ treeRegistered' = FALSE
        /\ UNCHANGED <<treeFlag, report, cleared, treeEpoch, treeChange>>
    BY <1>4 DEF Life!StoreTree, Life!Current, Life!Release, Life!reports, Life!mode
  <2>2. t.plan = Life!NoPlan
    BY <2>1 DEF LifeInv, NewTreeHasNoPlan
  <2>3. tree' \in TreeRec /\ tree'.id = made + 1 /\ tree'.plan = Life!NoPlan /\ tree'.generation = report
    BY <1>1, <1>3, <2>1, <2>2 DEF TreeRec
  <2>4. Life!PlanIsOfSelection' /\ Life!TreeIsOfLiveReport'
    BY <2>1, <2>3 DEF Life!PlanIsOfSelection, Life!TreeIsOfLiveReport
  <2>5. made' \in Nat /\ tree'.id <= made'
    BY <1>3, <2>1, <2>3
  <2> QED
    BY <1>1, <2>1, <2>3, <2>4, <2>5, SlotEnds
<1>5. CASE Life!StorePlan(j) /\ ~Life!Fail(j)
  <2> DEFINE t == job[j].tree
             p == [id |-> made + 1, revision |-> t.revision]
  <2>1. /\ tree # Life!NoTree /\ tree.revision = t.revision /\ tree' = [tree EXCEPT !.plan = p] /\ made' = made + 1
        /\ job' = [job EXCEPT ![j] = Life!New] /\ treeSlot' = "none" /\ treeRegistered' = FALSE
        /\ UNCHANGED <<treeFlag, report, cleared, treeEpoch, treeChange>>
    BY <1>5 DEF Life!StorePlan, Life!Live, Life!Release, Life!reports, Life!mode
  <2>2. p \in TreePlan /\ p.revision = t.revision
    BY <1>1, <1>3 DEF TreePlan, TreeRec
  <2> HIDE DEF p
  <2>3. /\ tree' \in TreeRec /\ tree'.id = tree.id /\ tree'.plan = p /\ tree'.generation = tree.generation
        /\ tree'.revision = tree.revision
    BY <2>1, <2>2 DEF TreeRec
  <2>4. Life!PlanIsOfSelection' /\ Life!TreeIsOfLiveReport'
    BY <2>1, <2>2, <2>3 DEF LifeInv, Life!PlanIsOfSelection, Life!TreeIsOfLiveReport
  <2>5. made' \in Nat /\ tree'.id <= made'
    <3>1. tree.id \in Nat /\ made \in Nat /\ tree.id <= made
      BY DEF LifeInv, LifeTyped, TreeRec
    <3> QED
      BY <2>1, <2>3, <3>1
  <2> QED
    BY <1>1, <2>1, <2>3, <2>4, <2>5, SlotEnds
<1> QED
  BY <1>2, <1>4, <1>5

LEMMA LifeClaims ==
  ASSUME Life!LifeAssumption, LifeInv, NEW j \in Jobs, Life!Claim(j)
  PROVE  LifeInv'
<1> USE LifeTypes
<1>1. InSlot(j) /\ job[j].at = "work" /\ treeSlot = j /\ job[j].op = "confirm"
  BY DEF Life!Claim, Life!At, InSlot, LifeInv, LifeSlot
<1>2. CASE Life!Fail(j)
  BY <1>1, <1>2, JobFailed
<1>3. CASE ~Life!Fail(j)
  <2> DEFINE r == [job[j] EXCEPT !.at = "move"]
  <2>1. /\ Life!Allowed(job[j].tree) /\ tree' = Life!NoTree /\ job' = [job EXCEPT ![j].at = "move"]
        /\ UNCHANGED <<made, report, cleared, treeEpoch, treeChange, treeSlot, treeFlag, treeRegistered>>
    BY <1>3 DEF Life!Claim, Life!Go, Life!reports, Life!work, Life!mode
  <2>2. job' = [job EXCEPT ![j] = r]
    BY <2>1
  <2>3. job[j] \in TreeJob /\ job[j].moved <= NItems
    OBVIOUS
  <2>4. r \in TreeJob /\ r.at = "move" /\ r.op = job[j].op /\ r.moved = job[j].moved /\ r.tree = job[j].tree
    BY <2>3, StageTyped DEF TreeStages
  <2>5. job[j].tree.bound => treeRegistered /\ job[j].tree.epoch = treeEpoch
    BY <1>1, <2>1 DEF LifeInv, StopsReach, Life!Allowed
  <2> HIDE DEF r
  <2>6. \A k \in Jobs : job'[k] = IF k = j THEN r ELSE job[k]
    BY <2>2 DEF LifeInv, LifeTyped
  <2>7. LifeTyped'
    <3>1. job' \in [Jobs -> TreeJob]
      BY <2>2, <2>4 DEF LifeInv, LifeTyped
    <3>2. \A k \in Jobs : job'[k].moved <= NItems
      BY <2>3, <2>4, <2>6
    <3>3. tree' \in TreeRec /\ tree'.id <= made'
      <4>1. made \in Nat /\ Life!NoTree.id = 0
        BY DEF Life!NoTree
      <4>2. Life!NoTree.id <= made
        BY <4>1
      <4> QED
        BY <2>1, <4>2, NothingTyped
    <3> QED
      BY <2>1, <3>1, <3>2, <3>3 DEF LifeInv, LifeTyped
  <2>8. LifeSlot'
    BY <1>1, <2>1, <2>6 DEF LifeInv, LifeSlot, InSlot
  <2>9. NewTreeHasNoPlan'
    BY <1>1, <2>4, <2>6 DEF LifeInv, NewTreeHasNoPlan
  <2>10. NoTreeMeanwhile'
    BY <2>1 DEF NoTreeMeanwhile
  <2>11. StopsReach' /\ MovesUnderPermission'
    BY <2>1, <2>4, <2>5, <2>6 DEF LifeInv, StopsReach, MovesUnderPermission
  <2>12. Life!PlanIsOfSelection' /\ Life!TreeIsOfLiveReport'
    BY <2>1 DEF Life!PlanIsOfSelection, Life!TreeIsOfLiveReport, Life!NoTree
  <2> QED
    BY <2>7, <2>8, <2>9, <2>10, <2>11, <2>12 DEF LifeInv
<1> QED
  BY <1>2, <1>3

LEMMA LifeMoves ==
  ASSUME Life!LifeAssumption, LifeInv, NEW j \in Jobs, Life!Move(j) \/ Life!Moved(j)
  PROVE  LifeInv'
<1> USE LifeTypes
<1>1. /\ job[j].at = "move" /\ job[j] \in TreeJob /\ job[j].moved <= NItems /\ job[j].moved \in Nat
      /\ UNCHANGED <<tree, made, report, cleared, treeEpoch, treeChange, treeSlot, treeFlag, treeRegistered>>
  BY DEF Life!Move, Life!Moved, Life!At, Life!reports, Life!work, Life!mode
<1>2. /\ treeSlot = j /\ tree = Life!NoTree /\ job[j].op # "open"
      /\ job[j].tree.bound => treeRegistered
      /\ job[j].tree.bound /\ treeChange = "done" /\ ~treeFlag => job[j].tree.epoch = treeEpoch
  BY <1>1 DEF LifeInv, LifeSlot, InSlot, NoTreeMeanwhile, NewTreeHasNoPlan, StopsReach,
     MovesUnderPermission
<1>3. CASE Life!Move(j)
  <2> DEFINE r == [job[j] EXCEPT !.moved = job[j].moved + 1]
  <2>1. job' = [job EXCEPT ![j] = r] /\ job[j].moved < NItems
    BY <1>3 DEF Life!Move
  <2>2. job[j].moved + 1 \in Nat /\ job[j].moved + 1 <= NItems
    <3>1. NItems \in Nat
      OBVIOUS
    <3> QED
      BY <1>1, <2>1, <3>1
  <2>3. r \in TreeJob /\ r.at = "move" /\ r.op = job[j].op /\ r.tree = job[j].tree /\ r.moved = job[j].moved + 1
    BY <1>1, <2>2 DEF TreeJob
  <2> HIDE DEF r
  <2> QED
    BY <1>1, <1>2, <2>1, <2>2, <2>3, JobSteps
<1>4. CASE Life!Moved(j)
  <2> DEFINE r == [job[j] EXCEPT !.at = "clear"]
  <2>1. job' = [job EXCEPT ![j] = r]
    BY <1>4 DEF Life!Moved, Life!Go
  <2>2. r \in TreeJob /\ r.at = "clear" /\ r.op = job[j].op /\ r.tree = job[j].tree /\ r.moved = job[j].moved
    BY <1>1, StageTyped DEF TreeStages
  <2> HIDE DEF r
  <2> QED
    BY <1>1, <1>2, <2>1, <2>2, JobSteps
<1> QED
  BY <1>3, <1>4

LEMMA LifeClears ==
  ASSUME Life!LifeAssumption, LifeInv, NEW j \in Jobs, Life!Clear(j)
  PROVE  LifeInv'
<1> USE LifeTypes
<1>1. CASE job[j].at = "clear"
  <2> DEFINE r == [job[j] EXCEPT !.at = "free"]
  <2>1. /\ job' = [job EXCEPT ![j] = r] /\ cleared' = report
        /\ UNCHANGED <<tree, made, report, treeEpoch, treeChange, treeSlot, treeFlag, treeRegistered>>
    BY <1>1 DEF Life!Clear, Life!At, Life!Go, Life!work, Life!mode
  <2>2. job[j] \in TreeJob /\ job[j].moved <= NItems
    OBVIOUS
  <2>3. r \in TreeJob /\ r.at = "free" /\ r.op = job[j].op /\ r.tree = job[j].tree /\ r.moved = job[j].moved
    BY <2>2, StageTyped DEF TreeStages
  <2>4. tree = Life!NoTree /\ treeSlot = j /\ job[j].op # "open"
    BY <1>1 DEF LifeInv, LifeSlot, InSlot, NoTreeMeanwhile, NewTreeHasNoPlan
  <2> HIDE DEF r
  <2>5. \A k \in Jobs : job'[k] = IF k = j THEN r ELSE job[k]
    BY <2>1 DEF LifeInv, LifeTyped
  <2>6. LifeTyped'
    <3>1. job' \in [Jobs -> TreeJob]
      BY <2>1, <2>3 DEF LifeInv, LifeTyped
    <3>2. \A k \in Jobs : job'[k].moved <= NItems
      BY <2>2, <2>3, <2>5
    <3> QED
      BY <2>1, <3>1, <3>2 DEF LifeInv, LifeTyped
  <2>7. LifeSlot' /\ NewTreeHasNoPlan'
    BY <2>1, <2>3, <2>4, <2>5 DEF LifeInv, LifeSlot, InSlot, NewTreeHasNoPlan
  <2>8. NoTreeMeanwhile' /\ StopsReach' /\ MovesUnderPermission'
    BY <2>1, <2>3, <2>4, <2>5 DEF LifeInv, NoTreeMeanwhile, StopsReach, MovesUnderPermission
  <2>9. Life!PlanIsOfSelection' /\ Life!TreeIsOfLiveReport'
    BY <2>1, <2>4 DEF Life!PlanIsOfSelection, Life!TreeIsOfLiveReport, Life!NoTree
  <2> QED
    BY <2>6, <2>7, <2>8, <2>9 DEF LifeInv
<1>2. CASE job[j].at # "clear"
  <2>1. /\ job[j].at = "free" /\ job' = [job EXCEPT ![j] = Life!New] /\ treeSlot' = "none" /\ treeRegistered' = FALSE
        /\ UNCHANGED <<tree, made, report, cleared, treeEpoch, treeChange, treeFlag>>
    BY <1>2 DEF Life!Clear, Life!At, Life!Release, Life!reports, Life!mode
  <2>2. InSlot(j)
    BY <2>1 DEF InSlot
  <2>3. Life!PlanIsOfSelection' /\ Life!TreeIsOfLiveReport'
    BY <2>1 DEF LifeInv, Life!PlanIsOfSelection, Life!TreeIsOfLiveReport
  <2>4. tree' \in TreeRec /\ made' \in Nat /\ tree'.id <= made'
    BY <2>1 DEF LifeInv, LifeTyped
  <2> QED
    BY <2>1, <2>2, <2>3, <2>4, SlotEnds
<1> QED
  BY <1>1, <1>2

-----------------------------------------------------------------------------
(* What happens meanwhile.                                                   *)

LEMMA LifeGoesOn ==
  ASSUME Life!LifeAssumption, LifeInv, Life!Scan \/ Life!Expire \/ Life!Cancel \/ Life!ChangeMode \/ Life!FlagJobs
  PROVE  LifeInv'
<1> USE LifeTypes
<1>1. UNCHANGED <<job, made, cleared, treeSlot, treeRegistered>>
  BY DEF Life!Scan, Life!Expire, Life!Cancel, Life!ChangeMode, Life!FlagJobs, Life!reports,
     Life!work, Life!mode
<1>2. LifeSlot' /\ NewTreeHasNoPlan'
  BY <1>1 DEF LifeInv, LifeSlot, InSlot, NewTreeHasNoPlan
<1>3. StopsReach'
  BY <1>1 DEF LifeInv, StopsReach
<1>4. CASE Life!Scan
  <2>1. report' = report + 1 /\ UNCHANGED <<tree, treeFlag, treeEpoch, treeChange>>
    BY <1>4 DEF Life!Scan, Life!work, Life!mode
  <2>2. report' \in Nat
    <3>1. report \in Nat
      OBVIOUS
    <3> QED
      BY <2>1, <3>1
  <2>3. LifeTyped'
    BY <1>1, <2>1, <2>2 DEF LifeInv, LifeTyped
  <2>4. NoTreeMeanwhile' /\ MovesUnderPermission' /\ Life!PlanIsOfSelection' /\ Life!TreeIsOfLiveReport'
    BY <1>1, <2>1 DEF LifeInv, NoTreeMeanwhile, MovesUnderPermission, Life!PlanIsOfSelection,
       Life!TreeIsOfLiveReport
  <2> QED
    BY <1>2, <1>3, <2>3, <2>4 DEF LifeInv
<1>5. CASE Life!Expire
  <2>1. tree' = Life!NoTree /\ UNCHANGED <<report, treeFlag, treeEpoch, treeChange>>
    BY <1>5 DEF Life!Expire, Life!reports, Life!work, Life!mode
  <2>2. tree' \in TreeRec /\ tree'.id <= made'
    <3>1. made \in Nat /\ Life!NoTree.id = 0
      BY DEF Life!NoTree
    <3>2. Life!NoTree.id <= made
      BY <3>1
    <3> QED
      BY <1>1, <2>1, <3>2, NothingTyped
  <2>3. LifeTyped'
    BY <1>1, <2>1, <2>2 DEF LifeInv, LifeTyped
  <2>4. NoTreeMeanwhile' /\ Life!PlanIsOfSelection' /\ Life!TreeIsOfLiveReport'
    BY <2>1 DEF NoTreeMeanwhile, Life!PlanIsOfSelection, Life!TreeIsOfLiveReport, Life!NoTree
  <2>5. MovesUnderPermission'
    BY <1>1, <2>1 DEF LifeInv, MovesUnderPermission
  <2> QED
    BY <1>2, <1>3, <2>3, <2>4, <2>5 DEF LifeInv
<1>6. CASE Life!Cancel
  <2>1. treeFlag' = TRUE /\ UNCHANGED <<tree, report, treeEpoch, treeChange>>
    BY <1>6 DEF Life!Cancel, Life!reports, Life!mode
  <2>2. LifeTyped'
    BY <1>1, <2>1 DEF LifeInv, LifeTyped
  <2>3. NoTreeMeanwhile' /\ MovesUnderPermission' /\ Life!PlanIsOfSelection' /\ Life!TreeIsOfLiveReport'
    BY <1>1, <2>1 DEF LifeInv, NoTreeMeanwhile, MovesUnderPermission, Life!PlanIsOfSelection,
       Life!TreeIsOfLiveReport
  <2> QED
    BY <1>2, <1>3, <2>2, <2>3 DEF LifeInv
<1>7. CASE Life!ChangeMode
  <2>1. treeEpoch' = treeEpoch + 1 /\ treeChange' = "flag" /\ UNCHANGED <<tree, report, treeFlag>>
    BY <1>7 DEF Life!ChangeMode, Life!reports, Life!work
  <2>2. treeEpoch' \in Nat
    <3>1. treeEpoch \in Nat
      OBVIOUS
    <3> QED
      BY <2>1, <3>1
  <2>3. LifeTyped'
    BY <1>1, <2>1, <2>2 DEF LifeInv, LifeTyped
  <2>4. NoTreeMeanwhile' /\ MovesUnderPermission' /\ Life!PlanIsOfSelection' /\ Life!TreeIsOfLiveReport'
    BY <1>1, <2>1 DEF LifeInv, NoTreeMeanwhile, MovesUnderPermission, Life!PlanIsOfSelection,
       Life!TreeIsOfLiveReport
  <2> QED
    BY <1>2, <1>3, <2>3, <2>4 DEF LifeInv
<1>8. CASE Life!FlagJobs
  <2>1. treeChange' = "done" /\ treeFlag' = (treeFlag \/ treeRegistered) /\ UNCHANGED <<tree, report, treeEpoch>>
    BY <1>8 DEF Life!FlagJobs, Life!reports
  <2>2. treeFlag' \in BOOLEAN
    BY <2>1
  <2>3. LifeTyped'
    BY <1>1, <2>1, <2>2 DEF LifeInv, LifeTyped
  <2>4. MovesUnderPermission'
    <3>1. \A j \in Jobs : job[j].at = "move" /\ job[j].tree.bound => treeFlag'
      BY <2>1 DEF LifeInv, StopsReach
    <3> QED
      BY <1>1, <3>1 DEF MovesUnderPermission
  <2>5. NoTreeMeanwhile' /\ Life!PlanIsOfSelection' /\ Life!TreeIsOfLiveReport'
    BY <1>1, <2>1 DEF LifeInv, NoTreeMeanwhile, Life!PlanIsOfSelection, Life!TreeIsOfLiveReport
  <2> QED
    BY <1>2, <1>3, <2>3, <2>4, <2>5 DEF LifeInv
<1> QED
  BY <1>4, <1>5, <1>6, <1>7, <1>8

-----------------------------------------------------------------------------
(* Results.                                                                  *)

LEMMA LifeSteps == ASSUME Life!LifeAssumption, LifeInv, [Life!Next]_(Life!vars) PROVE LifeInv'
<1>1. ASSUME NEW j \in Jobs, Life!Prepare(j) PROVE LifeInv'
  <2>1. job[j].op # "open"
    BY <1>1 DEF Life!Prepare, Life!At, LifeInv, NewTreeHasNoPlan
  <2> QED
    BY <1>1, <2>1, LifePrepares
<1>2. CASE Life!Next
  <2>1. CASE Life!Scan \/ Life!Expire \/ Life!Cancel \/ Life!ChangeMode \/ Life!FlagJobs
    BY <2>1, LifeGoesOn
  <2>2. CASE ~(Life!Scan \/ Life!Expire \/ Life!Cancel \/ Life!ChangeMode \/ Life!FlagJobs)
    <3>1. PICK j \in Jobs :
            \/ (\E bound \in BOOLEAN : Life!Open(j, bound)) \/ (\E op \in {"select", "dismiss", "prepare", "confirm"} : Life!Copy(j, op))
            \/ Life!Select(j) \/ Life!Dismiss(j) \/ Life!Prepare(j) \/ Life!ConfirmAllowed(j)
            \/ (Life!Begin(j) \/ Life!Register(j)) \/ (Life!StoreTree(j) \/ Life!StorePlan(j)) \/ Life!Claim(j) \/ (Life!Move(j) \/ Life!Moved(j)) \/ Life!Clear(j)
      BY <1>2, <2>2 DEF Life!Next, Life!Work
    <3> QED
      BY <3>1, <1>1, LifeOpens, LifeSelects, LifeDismisses, LifeAllowed, LifeTakesSlot, LifeStores,
         LifeClaims, LifeMoves, LifeClears
  <2> QED
    BY <2>1, <2>2
<1>3. CASE UNCHANGED Life!vars
  <2>1. UNCHANGED <<tree, made, report, cleared, treeSlot, treeFlag, treeRegistered, treeEpoch, treeChange, job>>
    BY <1>3 DEF Life!vars, Life!reports, Life!work, Life!mode
  <2> QED
    BY <2>1 DEF LifeInv, LifeTyped, LifeSlot, InSlot, NewTreeHasNoPlan, NoTreeMeanwhile, StopsReach,
                MovesUnderPermission, Life!PlanIsOfSelection, Life!TreeIsOfLiveReport
<1> QED
  BY <1>2, <1>3

\* The types and the properties that follow from the invariant of the tree.
LEMMA TreeTypes ==
  ASSUME Life!LifeAssumption
  PROVE  LifeInv => Life!TypeOK /\ Life!PlanIsOfSelection /\ Life!TreeIsOfLiveReport
<1>1. ASSUME LifeInv PROVE tree.id \in 0 .. made
  <2>1. tree.id \in Nat /\ made \in Nat /\ tree.id <= made
    BY <1>1 DEF LifeInv, LifeTyped, TreeRec
  <2> QED
    BY <2>1
<1>2. ASSUME LifeInv PROVE \A j \in Jobs : job[j].moved \in 0 .. NItems
  <2>1. NItems \in Nat /\ \A j \in Jobs : job[j].moved \in Nat /\ job[j].moved <= NItems
    BY <1>2, LifeTypes
  <2> QED
    BY <2>1
<1> QED
  BY <1>1, <1>2 DEF LifeInv, LifeTyped, Life!TypeOK

\* Type correctness of the cleanup tree, and its plan is of the present
\* selection and its report of before no move (cleanup_tree.rs:728, 838-845,
\* 1095-1155).
THEOREM TreeSafety ==
  ASSUME Life!LifeAssumption
  PROVE  Life!Spec => [](Life!TypeOK /\ Life!PlanIsOfSelection /\ Life!TreeIsOfLiveReport)
<1>1. Life!Init => LifeInv
  BY LifeBegins
<1>2. LifeInv /\ [Life!Next]_(Life!vars) => LifeInv'
  BY LifeSteps
<1> QED
  BY <1>1, <1>2, TreeTypes, PTL DEF Life!Spec

\* No step but a move counts an entry as moved.
LEMMA OnlyMovesCount ==
  ASSUME Life!LifeAssumption, LifeInv, NEW j \in Jobs, [Life!Next]_(Life!vars), ~Life!Move(j)
  PROVE  job'[j].moved \in {0, job[j].moved}
<1>1. job \in [Jobs -> TreeJob] /\ Life!New \in TreeJob /\ Life!New.moved = 0
  BY NothingTyped DEF LifeInv, LifeTyped
<1>2. ASSUME NEW k \in Jobs, job' = [job EXCEPT ![k] = Life!New]
      PROVE  job'[j].moved \in {0, job[j].moved}
  BY <1>1, <1>2
<1>3. ASSUME NEW k \in Jobs, NEW s, job' = [job EXCEPT ![k].at = s]
      PROVE  job'[j].moved \in {0, job[j].moved}
  BY <1>1, <1>3 DEF TreeJob
<1>4. ASSUME NEW k \in Jobs, NEW bound \in BOOLEAN, Life!Open(k, bound)
      PROVE  job'[j].moved \in {0, job[j].moved}
  BY <1>1, <1>4 DEF Life!Open, TreeJob
<1>5. ASSUME NEW k \in Jobs, NEW op \in {"select", "dismiss", "prepare", "confirm"}, Life!Copy(k, op)
      PROVE  job'[j].moved \in {0, job[j].moved}
  BY <1>1, <1>5 DEF Life!Copy, TreeJob
<1>6. ASSUME NEW k \in Jobs, Life!Prepare(k) PROVE job'[j].moved \in {0, job[j].moved}
  <2>1. \/ job' = [job EXCEPT ![k] = Life!New]
        \/ job' = [job EXCEPT ![k].at = "begin", ![k].tree = tree']
    BY <1>6 DEF Life!Prepare, Life!Refuse
  <2>2. ASSUME job' = [job EXCEPT ![k].at = "begin", ![k].tree = tree']
        PROVE  job'[j].moved = job[j].moved
    <3> DEFINE r == [job[k] EXCEPT !.at = "begin", !.tree = tree']
    <3>1. job' = [job EXCEPT ![k] = r]
      BY <2>2
    <3>2. r.moved = job[k].moved
      BY <1>1 DEF TreeJob
    <3> HIDE DEF r
    <3> QED
      BY <1>1, <3>1, <3>2
  <2> QED
    BY <1>2, <2>1, <2>2
<1>7. ASSUME NEW k \in Jobs, Life!Select(k) \/ Life!Dismiss(k) \/ Life!StoreTree(k) \/ Life!StorePlan(k)
      PROVE  job'[j].moved \in {0, job[j].moved}
  BY <1>2, <1>7 DEF Life!Select, Life!Dismiss, Life!StoreTree, Life!StorePlan, Life!Refuse,
     Life!Fail
<1>8. ASSUME NEW k \in Jobs, Life!ConfirmAllowed(k) \/ Life!Begin(k) \/ Life!Register(k) \/ Life!Claim(k) \/ Life!Moved(k) \/ Life!Clear(k)
      PROVE  job'[j].moved \in {0, job[j].moved}
  BY <1>2, <1>3, <1>8 DEF Life!ConfirmAllowed, Life!Begin, Life!Register, Life!Claim, Life!Moved,
     Life!Clear, Life!Refuse, Life!Fail, Life!Go
<1>9. ASSUME NEW k \in Jobs, Life!Move(k) PROVE job'[j].moved \in {0, job[j].moved}
  <2>1. k # j
    BY <1>9
  <2> QED
    BY <1>1, <1>9, <2>1 DEF Life!Move
<1>10. CASE job' = job
  BY <1>10
<1>11. CASE Life!Scan \/ Life!Expire \/ Life!Cancel \/ Life!ChangeMode \/ Life!FlagJobs \/ UNCHANGED Life!vars
  BY <1>10, <1>11 DEF Life!Scan, Life!Expire, Life!Cancel, Life!ChangeMode, Life!FlagJobs, Life!vars
<1> QED
  BY <1>4, <1>5, <1>6, <1>7, <1>8, <1>9, <1>11 DEF Life!Next, Life!Work

\* An entry is moved for the conversation only under the permission its plan
\* was made under, or while the change of it still runs.
LEMMA EntryMoves ==
  ASSUME Life!LifeAssumption, LifeInv, [Life!Next]_(Life!vars)
  PROVE  Life!EntryUnderPermission
<1> SUFFICES ASSUME NEW j \in Jobs, job'[j].moved > job[j].moved, job[j].tree.bound, treeChange = "done",
                    job[j].tree.epoch # treeEpoch
             PROVE  FALSE
  BY DEF Life!EntryUnderPermission
<1>1. ~(job[j].at = "move" /\ ~treeFlag)
  BY DEF LifeInv, MovesUnderPermission
<1>2. ~Life!Move(j)
  BY <1>1 DEF Life!Move, Life!At
<1>3. job'[j].moved \in {0, job[j].moved} /\ job[j].moved \in Nat
  BY <1>2, OnlyMovesCount, LifeTypes
<1> QED
  BY <1>3

\* Once a change of the mode has returned, no further entry of a plan that the
\* conversation made before is moved, for any number of jobs and changes
\* (cleanup_tree.rs:1131-1148).
THEOREM TreeUnderPermission ==
  ASSUME Life!LifeAssumption
  PROVE  Life!Spec => Life!RevokedTreeMovesNothing
<1>1. Life!Init => LifeInv
  BY LifeBegins
<1>2. LifeInv /\ [Life!Next]_(Life!vars) => LifeInv'
  BY LifeSteps
<1>3. LifeInv /\ [Life!Next]_(Life!vars) => [Life!EntryUnderPermission]_(Life!vars)
  BY EntryMoves
<1> QED
  BY <1>1, <1>2, <1>3, PTL DEF Life!Spec, Life!RevokedTreeMovesNothing

-----------------------------------------------------------------------------
(* The stored conversations (AssistantSessions), for any commands, numbers,  *)
(* limits and crashes.                                                       *)

CONSTANTS Calls, Ids, Answerers, MaxSessions, MaxMessages, MaxWorkspaces, MaxCrashes, None
VARIABLES exists, version, sessions, messages, writer, call, used, told, workspaces, crashes

Talks == INSTANCE AssistantSessions WITH Providers <- Answerers

Message ==
  [session : Ids, number : 1..MaxMessages, role : {"user", "assistant"}, provider : Answerers \cup {None}]
TalkOps == {"none", "create", "append", "delete", "get", "search", "summary"}
TalkSteps == {"idle", "open", "upgrade", "ready", "writing", "reload", "forget", "insert"}
Command == [op : TalkOps, id : Ids \cup {None}, step : TalkSteps, seen : {0, 1, 2, 3}, count : Nat]

\* The types, and the limit on the lists in memory.
TalksTyped ==
  /\ version \in {0, 1, 2, 3} /\ writer \in Calls \cup {None}
  /\ call \in [Calls -> Command]
  /\ \A c \in Calls : call[c].op # "none" => call[c].id \in Ids
  /\ DOMAIN sessions \subseteq used /\ used \subseteq Ids
  /\ messages \subseteq Message /\ told \subseteq Message
  /\ IsFiniteSet(workspaces) /\ Cardinality(workspaces) <= MaxWorkspaces

\* Who writes holds the lock, and has counted what is there.
Counting ==
  \A c \in Calls : call[c].step = "writing" =>
    /\ writer = c /\ call[c].op \in {"create", "append"}
    /\ call[c].op = "create" => call[c].count = Cardinality(DOMAIN sessions)
    /\ call[c].op = "append" => call[c].count = Cardinality(Talks!Numbered(call[c].id))

\* The number of a conversation to come is nobody else's.
Fresh ==
  \A c \in Calls : call[c].op = "create" =>
    /\ call[c].id \in used \ DOMAIN sessions
    /\ \A m \in told : m.session # call[c].id
    /\ \A d \in Calls \ {c} : call[d].op = "create" => call[d].id # call[c].id

\* The conversations are few, and their messages theirs.
Stored ==
  /\ IsFiniteSet(DOMAIN sessions) /\ Cardinality(DOMAIN sessions) <= MaxSessions
  /\ \A m \in messages : m.session \in DOMAIN sessions
  /\ \A m \in told : m.session \in used /\ (m.session \in DOMAIN sessions => m \in messages)

\* The messages of a conversation are numbered without a gap.
InOrder(s) ==
  /\ IsFiniteSet(Talks!Numbered(s)) /\ Cardinality(Talks!Numbered(s)) <= MaxMessages
  /\ {m.number : m \in Talks!Numbered(s)} = 1..Cardinality(Talks!Numbered(s))

\* Its last provider is one that answered in it.
Answered(s) ==
  sessions[s] # None => \E m \in Talks!Numbered(s) : m.provider = sessions[s] /\ m.role = "assistant"

Whole == \A s \in DOMAIN sessions : InOrder(s) /\ Answered(s)

TalksInv == TalksTyped /\ Counting /\ Fresh /\ Stored /\ Whole

\* The cardinality of the model is that of the library.
LEMMA CardinalityIs == \A S : Talks!Cardinality(S) = Cardinality(S)
BY Zenon DEF Talks!Cardinality, Cardinality

\* The file begins without conversations.
LEMMA TalksBegin == ASSUME Talks!SessionsAssumption, Talks!Init PROVE TalksInv
<1>1. DOMAIN sessions = {} /\ messages = {} /\ told = {} /\ used = {} /\ workspaces = {}
  BY DEF Talks!Init
<1>2. IsFiniteSet({}) /\ Cardinality({}) = 0
  BY FS_EmptySet
<1>3. MaxSessions \in Nat /\ MaxWorkspaces \in Nat
  BY DEF Talks!SessionsAssumption
<1>4. version \in {0, 1, 2, 3} /\ writer = None
  BY DEF Talks!Init
<1>5. Talks!Idle \in Command
  BY DEF Talks!Idle, Command, TalkOps, TalkSteps
<1>6. call \in [Calls -> Command] /\ \A c \in Calls : call[c].op = "none" /\ call[c].step = "idle"
  BY <1>5 DEF Talks!Init, Talks!Idle
<1>7. TalksTyped
  BY <1>1, <1>2, <1>3, <1>4, <1>6 DEF TalksTyped
<1>8. Counting /\ Fresh
  BY <1>6 DEF Counting, Fresh
<1>9. Stored /\ Whole
  BY <1>1, <1>2, <1>3 DEF Stored, Whole
<1> QED
  BY <1>7, <1>8, <1>9 DEF TalksInv

\* A command that goes on and leaves the conversations alone.
LEMMA TalksMove ==
  ASSUME TalksInv, NEW c \in Calls, NEW r \in Command, call' = [call EXCEPT ![c] = r],
         UNCHANGED <<sessions, messages, used>>, version' \in {0, 1, 2, 3},
         writer' = writer \/ (writer = c /\ writer' = None), told' \subseteq told \cup messages,
         IsFiniteSet(workspaces'), Cardinality(workspaces') <= MaxWorkspaces,
         r.op # "none" => r.id \in Ids, r.step # "writing", r.op = "create" => call[c].op = "create" /\ r.id = call[c].id
  PROVE  TalksInv'
<1>1. \A d \in Calls : call'[d] = IF d = c THEN r ELSE call[d]
  BY DEF TalksInv, TalksTyped
<1>2. TalksTyped'
  BY <1>1 DEF TalksInv, TalksTyped
<1>3. \A s : Talks!Numbered(s)' = Talks!Numbered(s)
  BY DEF Talks!Numbered
<1>4. Counting'
  BY <1>1, <1>3 DEF TalksInv, Counting, Talks!Numbered
<1>5. \A m \in told' : m \in told \/ (m \in messages /\ m.session \in DOMAIN sessions)
  BY DEF TalksInv, Stored
<1>6. \A d \in Calls : call'[d].op = "create" => call[d].op = "create" /\ call'[d].id = call[d].id
  BY <1>1
<1>7. Fresh'
  BY <1>5, <1>6 DEF TalksInv, Fresh
<1>8. Stored'
  BY <1>5 DEF TalksInv, TalksTyped, Stored
<1>9. Whole'
  BY <1>3 DEF TalksInv, Whole, InOrder, Answered, Talks!Numbered
<1> QED
  BY <1>2, <1>4, <1>7, <1>8, <1>9 DEF TalksInv

\* What a command may become.
LEMMA Becomes ==
  ASSUME TalksInv, NEW c \in Calls
  PROVE  /\ Talks!Idle \in Command /\ Talks!Idle.op = "none" /\ Talks!Idle.step = "idle"
         /\ call[c] \in Command /\ call[c].count \in Nat /\ DOMAIN call = Calls
         /\ IsFiniteSet(workspaces) /\ Cardinality(workspaces) <= MaxWorkspaces /\ version \in {0, 1, 2, 3}
         /\ call[c].op # "none" => call[c].id \in Ids
BY DEF TalksInv, TalksTyped, Command, TalkOps, TalkSteps, Talks!Idle

LEMMA TalksOpen ==
  ASSUME TalksInv, NEW c \in Calls, Talks!Open(c) \/ Talks!Upgrade(c)
  PROVE  TalksInv'
<1> DEFINE ready == [call[c] EXCEPT !.step = "ready"]
           upgrade == [call[c] EXCEPT !.step = "upgrade", !.seen = version]
<1>1. ready \in Command /\ ready.op = call[c].op /\ ready.id = call[c].id /\ ready.step = "ready"
  BY DEF TalksInv, TalksTyped, Command, TalkOps, TalkSteps
<1>2. upgrade \in Command /\ upgrade.op = call[c].op /\ upgrade.id = call[c].id /\ upgrade.step = "upgrade"
  BY DEF TalksInv, TalksTyped, Command, TalkOps, TalkSteps
<1>3. \E r \in {Talks!Idle, ready, upgrade} : call' = [call EXCEPT ![c] = r]
  BY DEF Talks!Open, Talks!Upgrade, Talks!Go, Talks!Done
<1>4. /\ version' \in {0, 1, 2, 3} /\ writer' = writer /\ told' = told /\ workspaces' = workspaces
      /\ UNCHANGED <<sessions, messages, used>>
  BY Becomes DEF Talks!Open, Talks!Upgrade
<1> HIDE DEF ready, upgrade
<1> QED
  BY <1>1, <1>2, <1>3, <1>4, Becomes, TalksMove

LEMMA TalksFail ==
  ASSUME TalksInv, NEW c \in Calls, Talks!Fail(c) \/ Talks!Reload(c) \/ Talks!Get(c)
  PROVE  TalksInv'
<1>1. /\ call' = [call EXCEPT ![c] = Talks!Idle] /\ UNCHANGED <<version, sessions, messages, used, workspaces>>
      /\ writer' = writer \/ (writer = c /\ writer' = None)
  BY DEF Talks!Fail, Talks!Reload, Talks!Get, Talks!Done, Talks!Database
<1>2. told' \subseteq told \cup messages
  BY DEF Talks!Fail, Talks!Reload, Talks!Get, Talks!Numbered
<1> QED
  BY <1>1, <1>2, Becomes, TalksMove

LEMMA TalksList ==
  ASSUME Talks!SessionsAssumption, TalksInv, NEW c \in Calls,
         Talks!Forget(c) \/ Talks!Search(c) \/ Talks!UpdateFolderSummary(c) \/ Talks!InsertReport(c)
  PROVE  TalksInv'
<1> DEFINE w == workspaces
           open == [call[c] EXCEPT !.op = "summary", !.step = "open"]
           insert == [call[c] EXCEPT !.step = "insert"]
<1>1. /\ UNCHANGED <<version, sessions, messages, writer, used, told>>
      /\ \/ workspaces' \in {w, w \ {call[c].id}, {call[c].id}}
         \/ workspaces' = w \cup {call[c].id} /\ (call[c].id \in w \/ ~(Cardinality(w) >= MaxWorkspaces))
  BY CardinalityIs DEF Talks!Forget, Talks!Search, Talks!UpdateFolderSummary, Talks!InsertReport,
     Talks!Database
<1>2. IsFiniteSet(w) /\ Cardinality(w) <= MaxWorkspaces /\ Cardinality(w) \in Nat /\ MaxWorkspaces \in Nat \ {0}
  BY Becomes, FS_CardinalityType DEF Talks!SessionsAssumption
<1>3. IsFiniteSet({call[c].id}) /\ Cardinality({call[c].id}) = 1
  BY FS_Singleton
<1>4. IsFiniteSet(w \ {call[c].id}) /\ Cardinality(w \ {call[c].id}) <= MaxWorkspaces
  BY <1>2, FS_RemoveElement
<1>5. IsFiniteSet(w \cup {call[c].id}) /\
      Cardinality(w \cup {call[c].id}) = IF call[c].id \in w THEN Cardinality(w) ELSE Cardinality(w) + 1
  BY <1>2, FS_AddElement
<1>6. IsFiniteSet(workspaces') /\ Cardinality(workspaces') <= MaxWorkspaces
  BY <1>1, <1>2, <1>3, <1>4, <1>5
<1>7. open \in Command /\ open.op = "summary" /\ open.id = call[c].id /\ open.step = "open"
  BY DEF TalksInv, TalksTyped, Command, TalkOps, TalkSteps
<1>8. insert \in Command /\ insert.op = call[c].op /\ insert.id = call[c].id /\ insert.step = "insert"
  BY DEF TalksInv, TalksTyped, Command, TalkOps, TalkSteps
<1>9. call[c].op # "none" /\ \E r \in {Talks!Idle, open, insert} : call' = [call EXCEPT ![c] = r]
  BY Becomes DEF Talks!Forget, Talks!Search, Talks!UpdateFolderSummary, Talks!InsertReport,
     Talks!Go, Talks!Done, Talks!At
<1> HIDE DEF open, insert, w
<1> QED
  BY <1>1, <1>6, <1>7, <1>8, <1>9, Becomes, TalksMove

\* The number of a new conversation is drawn.
LEMMA TalksStart ==
  ASSUME TalksInv, NEW c \in Calls, NEW op \in Talks!Ops, NEW s \in Ids, Talks!Start(c, op, s) PROVE TalksInv'
<1> DEFINE r == [Talks!Idle EXCEPT !.op = op, !.id = s, !.step = "open"]
<1>1. call' = [call EXCEPT ![c] = r] /\ (op = "create" => s \notin used)
  BY DEF Talks!Start
<1>2. /\ UNCHANGED <<version, sessions, messages, writer, told, workspaces>>
      /\ used' = IF op = "create" THEN used \cup {s} ELSE used
  BY DEF Talks!Start, Talks!Database
<1>3. r \in Command /\ r.op = op /\ r.id = s /\ r.step = "open"
  BY DEF Command, TalkOps, TalkSteps, Talks!Idle, Talks!Ops
<1> HIDE DEF r
<1>4. \A d \in Calls : call'[d] = IF d = c THEN r ELSE call[d]
  BY <1>1 DEF TalksInv, TalksTyped
<1>5. TalksTyped'
  BY <1>1, <1>2, <1>3, <1>4 DEF TalksInv, TalksTyped
<1>6. \A x : Talks!Numbered(x)' = Talks!Numbered(x)
  BY <1>2 DEF Talks!Numbered
<1>7. Counting'
  BY <1>2, <1>3, <1>4, <1>6 DEF TalksInv, Counting, Talks!Numbered
<1>8. Fresh'
  BY <1>1, <1>2, <1>3, <1>4 DEF TalksInv, TalksTyped, Fresh, Stored
<1>9. Stored' /\ Whole'
  BY <1>2, <1>6 DEF TalksInv, Stored, Whole, InOrder, Answered, Talks!Numbered
<1> QED
  BY <1>5, <1>7, <1>8, <1>9 DEF TalksInv

\* Only a conversation that is there has messages.
LEMMA NumberedIs ==
  ASSUME Talks!SessionsAssumption, TalksInv, NEW s
  PROVE  /\ s \notin DOMAIN sessions => Talks!Numbered(s) = {}
         /\ IsFiniteSet(Talks!Numbered(s)) /\ Cardinality(Talks!Numbered(s)) \in Nat
         /\ Cardinality(DOMAIN sessions) \in Nat
<1>1. s \notin DOMAIN sessions => Talks!Numbered(s) = {}
  BY DEF TalksInv, Stored, Talks!Numbered
<1>2. IsFiniteSet(Talks!Numbered(s))
  BY <1>1, FS_EmptySet DEF TalksInv, Whole, InOrder
<1>3. IsFiniteSet(DOMAIN sessions)
  BY DEF TalksInv, Stored
<1> QED
  BY <1>1, <1>2, <1>3, FS_CardinalityType

\* A writer takes the lock and counts.
LEMMA TalksLock ==
  ASSUME Talks!SessionsAssumption, TalksInv, NEW c \in Calls, Talks!Begin(c) PROVE TalksInv'
<1> DEFINE n == IF call[c].op = "create" THEN Cardinality(DOMAIN sessions) ELSE Cardinality(Talks!Numbered(call[c].id))
           r == [call[c] EXCEPT !.step = "writing", !.count = n]
<1>1. n \in Nat
  BY NumberedIs
<1>2. r \in Command /\ r.op = call[c].op /\ r.id = call[c].id /\ r.step = "writing" /\ r.count = n
  BY <1>1 DEF TalksInv, TalksTyped, Command, TalkOps, TalkSteps
<1>3. call[c].op \in {"create", "append"} /\ writer = None /\ writer' = c /\ call' = [call EXCEPT ![c] = r]
  <2>1. call[c].op \in {"create", "append"} /\ writer = None /\ writer' = c
    BY DEF Talks!Begin, Talks!At, Talks!CanLock, Talks!Immediate
  <2>2. call' = [call EXCEPT ![c].step = "writing", ![c].count = n]
    BY Zenon, CardinalityIs DEF Talks!Begin, n
  <2> QED
    BY <2>1, <2>2, Becomes
<1>4. UNCHANGED <<version, sessions, messages, used, told, workspaces>>
  BY DEF Talks!Begin
<1>5. \A x : Talks!Numbered(x)' = Talks!Numbered(x)
  BY <1>4 DEF Talks!Numbered
<1>6. n = Cardinality(DOMAIN sessions) \/ call[c].op # "create"
  OBVIOUS
<1>7. n = Cardinality(Talks!Numbered(call[c].id)) \/ call[c].op # "append"
  OBVIOUS
<1> HIDE DEF n, r
<1>8. \A d \in Calls : call'[d] = IF d = c THEN r ELSE call[d]
  BY <1>3 DEF TalksInv, TalksTyped
<1>9. TalksTyped'
  BY <1>2, <1>3, <1>4, <1>8 DEF TalksInv, TalksTyped
<1>10. \A d \in Calls : call'[d].step = "writing" => d = c
  BY <1>3, <1>8 DEF TalksInv, Counting, Talks!SessionsAssumption
<1>11. Counting'
  <2>1. {m \in messages' : m.session = call'[c].id} = Talks!Numbered(call[c].id)
    BY <1>2, <1>4, <1>8 DEF Talks!Numbered
  <2>2. call'[c] = r /\ DOMAIN sessions' = DOMAIN sessions
    BY <1>4, <1>8
  <2>3. SUFFICES /\ writer' = c /\ r.op \in {"create", "append"}
                 /\ r.op = "create" => r.count = Cardinality(DOMAIN sessions)
                 /\ r.op = "append" => r.count = Cardinality(Talks!Numbered(call[c].id))
    BY <1>10, <2>1, <2>2 DEF Counting, Talks!Numbered
  <2> QED
    BY <1>2, <1>3, <1>6, <1>7
<1>12. Fresh'
  BY <1>2, <1>4, <1>8 DEF TalksInv, Fresh
<1>13. Stored' /\ Whole'
  BY <1>4, <1>5 DEF TalksInv, Stored, Whole, InOrder, Answered, Talks!Numbered
<1> QED
  BY <1>9, <1>11, <1>12, <1>13 DEF TalksInv

\* A conversation is made under the lock, and below the limit counted there.
LEMMA TalksCreate ==
  ASSUME Talks!SessionsAssumption, TalksInv, NEW c \in Calls, Talks!Create(c) PROVE TalksInv'
<1> DEFINE s == call[c].id
<1>1. /\ writer = c /\ writer' = None /\ call[c].op = "create" /\ call[c].count = Cardinality(DOMAIN sessions)
      /\ s \in used \ DOMAIN sessions /\ s \in Ids
  BY Becomes DEF Talks!Create, Talks!At, TalksInv, Counting, Fresh
<1>2. call' = [call EXCEPT ![c] = Talks!Idle] /\ UNCHANGED <<version, messages, used, told, workspaces>>
  BY DEF Talks!Create, Talks!Done
<1>3. \A d \in Calls : call'[d] = IF d = c THEN Talks!Idle ELSE call[d]
  BY <1>2 DEF TalksInv, TalksTyped
<1>4. \A d \in Calls : call'[d].step # "writing"
  BY <1>1, <1>3, Becomes DEF TalksInv, Counting
<1>5. \A x : Talks!Numbered(x)' = Talks!Numbered(x)
  BY <1>2 DEF Talks!Numbered
<1>6. CASE sessions' = sessions
  <2>1. TalksTyped'
    BY <1>1, <1>2, <1>3, <1>6, Becomes DEF TalksInv, TalksTyped
  <2>2. Counting' /\ Fresh'
    BY <1>2, <1>3, <1>4, <1>6, Becomes DEF TalksInv, Counting, Fresh
  <2>3. Stored' /\ Whole'
    BY <1>2, <1>5, <1>6 DEF TalksInv, Stored, Whole, InOrder, Answered, Talks!Numbered
  <2> QED
    BY <2>1, <2>2, <2>3 DEF TalksInv
<1>7. CASE /\ ~(call[c].count >= MaxSessions)
           /\ sessions' = [x \in DOMAIN sessions \cup {s} |-> IF x = s THEN None ELSE sessions[x]]
  <2>1. DOMAIN sessions' = DOMAIN sessions \cup {s} /\ \A x \in DOMAIN sessions : sessions'[x] = sessions[x]
    BY <1>1, <1>7
  <2>2. sessions'[s] = None
    BY <1>7
  <2>3. TalksTyped'
    BY <1>1, <1>2, <1>3, <2>1, Becomes DEF TalksInv, TalksTyped
  <2>4. Counting' /\ Fresh'
    BY <1>1, <1>2, <1>3, <1>4, <2>1, Becomes DEF TalksInv, Counting, Fresh
  <2>5. IsFiniteSet(DOMAIN sessions') /\ Cardinality(DOMAIN sessions') <= MaxSessions
    <3>1. /\ IsFiniteSet(DOMAIN sessions \cup {s})
          /\ Cardinality(DOMAIN sessions \cup {s}) = Cardinality(DOMAIN sessions) + 1
      BY <1>1, FS_AddElement DEF TalksInv, Stored
    <3>2. MaxSessions \in Nat /\ Cardinality(DOMAIN sessions) \in Nat
      BY NumberedIs DEF Talks!SessionsAssumption
    <3> QED
      BY <1>1, <1>7, <2>1, <3>1, <3>2
  <2>6. \A m \in told : m.session # s
    BY <1>1 DEF TalksInv, Fresh
  <2>7. Stored'
    BY <1>2, <2>1, <2>5, <2>6 DEF TalksInv, Stored
  <2>8. ASSUME NEW x, x = s PROVE InOrder(x)' /\ Answered(x)'
    <3> DEFINE M == {m \in messages' : m.session = x}
    <3>1. M = {}
      BY <1>1, <1>2, <2>8, NumberedIs DEF Talks!Numbered
    <3>2. {m.number : m \in {}} = 1..0 /\ IsFiniteSet({}) /\ Cardinality({}) = 0 /\ MaxMessages \in Nat
      BY FS_EmptySet DEF Talks!SessionsAssumption
    <3>3. InOrder(x)'
      <4>1. IsFiniteSet(M) /\ Cardinality(M) <= MaxMessages
        BY <3>1, <3>2
      <4>2. {m.number : m \in M} = 1..Cardinality(M)
        <5> HIDE DEF M
        <5> QED
          BY <3>1, <3>2
      <4> QED
        BY <4>1, <4>2 DEF InOrder, Talks!Numbered
    <3>4. Answered(x)'
      BY <2>2, <2>8 DEF Answered
    <3> QED
      BY <3>3, <3>4
  <2>9. ASSUME NEW x \in DOMAIN sessions PROVE InOrder(x)' /\ Answered(x)'
    <3>1. InOrder(x) /\ Answered(x) /\ sessions'[x] = sessions[x]
      BY <2>1 DEF TalksInv, Whole
    <3> QED
      BY <1>2, <3>1 DEF InOrder, Answered, Talks!Numbered
  <2>10. \A x \in DOMAIN sessions' : x \in DOMAIN sessions \/ x = s
    BY <2>1
  <2>11. Whole'
    BY <2>8, <2>9, <2>10 DEF Whole
  <2> QED
    BY <2>3, <2>4, <2>7, <2>11 DEF TalksInv
<1> QED
  BY <1>1, <1>6, <1>7 DEF Talks!Create

\* A message is stored under the lock with the number after the last.
LEMMA TalksAppend ==
  ASSUME Talks!SessionsAssumption, TalksInv, NEW c \in Calls, Talks!Append(c) PROVE TalksInv'
<1> DEFINE s == call[c].id
           n == Cardinality(Talks!Numbered(s))
           reload == [call[c] EXCEPT !.step = "reload"]
<1>1. /\ writer = c /\ writer' = None /\ call[c].op = "append" /\ call[c].count = n
      /\ s \in Ids /\ n \in Nat /\ IsFiniteSet(Talks!Numbered(s)) /\ MaxMessages \in Nat
  BY Becomes, NumberedIs DEF Talks!Append, Talks!At, TalksInv, Counting, Talks!SessionsAssumption
<1>2. UNCHANGED <<version, used, told, workspaces>>
  BY DEF Talks!Append
<1>3. reload \in Command /\ reload.op = "append" /\ reload.id = s /\ reload.step = "reload"
  BY <1>1 DEF TalksInv, TalksTyped, Command, TalkOps, TalkSteps
<1>4. CASE call' = [call EXCEPT ![c] = Talks!Idle] /\ UNCHANGED <<sessions, messages>>
  BY <1>1, <1>2, <1>4, Becomes, TalksMove
<1>5. ASSUME s \in DOMAIN sessions, n < MaxMessages, call' = [call EXCEPT ![c] = reload],
             NEW role \in {"user", "assistant"}, NEW p \in Answerers \cup {None},
             messages' = messages \cup {[session |-> s, number |-> n + 1, role |-> role, provider |-> p]},
             sessions' = sessions \/ (sessions' = [sessions EXCEPT ![s] = p] /\ role = "assistant")
      PROVE  TalksInv'
  <2> DEFINE m == [session |-> s, number |-> n + 1, role |-> role, provider |-> p]
  <2>1. m.session = s /\ m.number = n + 1 /\ m.role = role /\ m.provider = p /\ m \in Message /\ messages' = messages \cup {m}
    BY <1>1, <1>5 DEF Message
  <2> HIDE DEF m, reload
  <2>2. \A d \in Calls : call'[d] = IF d = c THEN reload ELSE call[d]
    BY <1>5 DEF TalksInv, TalksTyped
  <2>3. DOMAIN sessions' = DOMAIN sessions /\ \A x \in DOMAIN sessions : x # s => sessions'[x] = sessions[x]
    BY <1>5
  <2>4. sessions'[s] = sessions[s] \/ (sessions'[s] = p /\ role = "assistant")
    BY <1>5
  <2>5. TalksTyped'
    <3>1. call' \in [Calls -> Command] /\ \A d \in Calls : call'[d].op # "none" => call'[d].id \in Ids
      BY <1>1, <1>3, <1>5, <2>2 DEF TalksInv, TalksTyped
    <3>2. messages' \subseteq Message
      BY <2>1 DEF TalksInv, TalksTyped
    <3> QED
      BY <1>1, <1>2, <2>3, <3>1, <3>2 DEF TalksInv, TalksTyped, Message
  <2>6. \A d \in Calls : call'[d].step # "writing"
    BY <1>1, <1>3, <2>2 DEF TalksInv, Counting
  <2>7. Counting' /\ Fresh'
    BY <1>2, <1>3, <2>2, <2>3, <2>6 DEF TalksInv, Counting, Fresh
  <2>8. Stored'
    BY <1>2, <1>5, <2>1, <2>3 DEF TalksInv, Stored
  <2>9. InOrder(s) /\ Answered(s)
    BY <1>5 DEF TalksInv, Whole
  <2>10. ASSUME NEW x, x = s PROVE InOrder(x)' /\ Answered(x)'
    <3> DEFINE N == Talks!Numbered(s)
               M == {y \in messages' : y.session = x}
    <3>1. M = N \cup {m}
      BY <2>1, <2>10 DEF Talks!Numbered
    <3>2. n + 1 \notin {y.number : y \in N}
      BY <1>1, <2>9 DEF InOrder
    <3>3. m \notin N
      BY <2>1, <3>2
    <3>4. IsFiniteSet(N \cup {m}) /\ Cardinality(N \cup {m}) = n + 1
      BY <1>1, <3>3, FS_AddElement
    <3>5. {y.number : y \in N \cup {m}} = {y.number : y \in N} \cup {n + 1}
      BY <2>1
    <3>6. {y.number : y \in N} = 1..n /\ 1..n \cup {n + 1} = 1..(n + 1)
      BY <1>1, <2>9 DEF InOrder
    <3>7. n + 1 <= MaxMessages
      BY <1>1, <1>5
    <3>8. sessions'[x] # None => \E y \in N \cup {m} : y.provider = sessions'[x] /\ y.role = "assistant"
      BY <2>1, <2>4, <2>9, <2>10 DEF Answered
    <3> HIDE DEF n, N
    <3>9. IsFiniteSet(M) /\ Cardinality(M) <= MaxMessages /\ {y.number : y \in M} = 1..Cardinality(M)
      BY <3>1, <3>4, <3>5, <3>6, <3>7
    <3>10. sessions'[x] # None => \E y \in M : y.provider = sessions'[x] /\ y.role = "assistant"
      BY <3>1, <3>8
    <3> QED
      BY <3>9, <3>10 DEF InOrder, Answered, Talks!Numbered
  <2>11. ASSUME NEW x \in DOMAIN sessions, x # s PROVE InOrder(x)' /\ Answered(x)'
    <3>1. InOrder(x) /\ Answered(x) /\ sessions'[x] = sessions[x]
      BY <2>3, <2>11 DEF TalksInv, Whole
    <3>2. {y \in messages' : y.session = x} = Talks!Numbered(x)
      BY <2>1, <2>11 DEF Talks!Numbered
    <3> QED
      BY <3>1, <3>2 DEF InOrder, Answered, Talks!Numbered
  <2>12. Whole'
    BY <2>3, <2>10, <2>11 DEF Whole
  <2> QED
    BY <2>5, <2>7, <2>8, <2>12 DEF TalksInv
<1>6. \/ call' = [call EXCEPT ![c] = Talks!Idle] /\ UNCHANGED <<sessions, messages>>
      \/ /\ s \in DOMAIN sessions /\ n < MaxMessages /\ call' = [call EXCEPT ![c] = reload]
         /\ \E role \in {"user", "assistant"}, p \in Answerers \cup {None} :
              /\ messages' = messages \cup {[session |-> s, number |-> n + 1, role |-> role, provider |-> p]}
              /\ sessions' = sessions \/ (sessions' = [sessions EXCEPT ![s] = p] /\ role = "assistant")
  BY <1>1 DEF Talks!Append, Talks!Done, Talks!Go
<1> QED
  BY <1>4, <1>5, <1>6

\* A conversation goes with its messages, and with its list.
LEMMA TalksDelete ==
  ASSUME Talks!SessionsAssumption, TalksInv, NEW c \in Calls, Talks!Delete(c) PROVE TalksInv'
<1> DEFINE s == call[c].id
           forget == [call[c] EXCEPT !.step = "forget"]
<1>1. forget \in Command /\ forget.op = "delete" /\ forget.id = s /\ forget.step = "forget" /\ call[c].op = "delete"
  BY DEF TalksInv, TalksTyped, Command, TalkOps, TalkSteps, Talks!Delete, Talks!At
<1>2. /\ writer = None /\ writer' = None /\ UNCHANGED <<version, used, told, workspaces>>
      /\ call' = [call EXCEPT ![c] = forget] /\ sessions' = [x \in DOMAIN sessions \ {s} |-> sessions[x]]
      /\ messages' = {m \in messages : m.session # s}
  BY DEF Talks!Delete, Talks!Go, Talks!Rows
<1> HIDE DEF forget, s
<1>3. \A d \in Calls : call'[d] = IF d = c THEN forget ELSE call[d]
  BY <1>2 DEF TalksInv, TalksTyped
<1>4. DOMAIN sessions' = DOMAIN sessions \ {s} /\ \A x \in DOMAIN sessions' : sessions'[x] = sessions[x]
  BY <1>2
<1>5. TalksTyped'
  BY <1>1, <1>2, <1>3, <1>4 DEF TalksInv, TalksTyped, s
<1>6. \A d \in Calls : call'[d].step # "writing"
  BY <1>1, <1>2, <1>3 DEF TalksInv, Counting, Talks!SessionsAssumption
<1>7. Counting' /\ Fresh'
  BY <1>1, <1>2, <1>3, <1>4, <1>6 DEF TalksInv, Counting, Fresh
<1>8. IsFiniteSet(DOMAIN sessions') /\ Cardinality(DOMAIN sessions') <= MaxSessions
  <2>1. IsFiniteSet(DOMAIN sessions \ {s}) /\ Cardinality(DOMAIN sessions \ {s}) <= Cardinality(DOMAIN sessions)
    <3>1. /\ IsFiniteSet(DOMAIN sessions \ {s}) /\ Cardinality(DOMAIN sessions) \in Nat
          /\ Cardinality(DOMAIN sessions \ {s}) = IF s \in DOMAIN sessions THEN Cardinality(DOMAIN sessions) - 1 ELSE Cardinality(DOMAIN sessions)
      BY NumberedIs, FS_RemoveElement DEF TalksInv, Stored
    <3> QED
      BY <3>1
  <2>2. Cardinality(DOMAIN sessions \ {s}) \in Nat /\ Cardinality(DOMAIN sessions) \in Nat /\ MaxSessions \in Nat
    BY <2>1, NumberedIs, FS_CardinalityType DEF Talks!SessionsAssumption
  <2> QED
    BY <1>4, <2>1, <2>2 DEF TalksInv, Stored
<1>9. Stored'
  BY <1>2, <1>4, <1>8 DEF TalksInv, Stored
<1>10. ASSUME NEW x \in DOMAIN sessions' PROVE InOrder(x)' /\ Answered(x)'
  <2>1. x # s /\ InOrder(x) /\ Answered(x) /\ sessions'[x] = sessions[x]
    BY <1>4 DEF TalksInv, Whole
  <2>2. Talks!Numbered(x)' = Talks!Numbered(x)
    BY <1>2, <2>1 DEF Talks!Numbered
  <2> QED
    BY <2>1, <2>2 DEF InOrder, Answered
<1> QED
  BY <1>5, <1>7, <1>9, <1>10 DEF TalksInv, Whole

\* The process ends: what is stored stays, what is in memory goes.
LEMMA TalksCrash == ASSUME Talks!SessionsAssumption, TalksInv, Talks!Crash PROVE TalksInv'
<1>1. /\ UNCHANGED <<version, sessions, messages, used, told>> /\ writer' = None /\ workspaces' = {}
      /\ call' = [c \in Calls |-> Talks!Idle]
  BY DEF Talks!Crash
<1>2. Talks!Idle \in Command /\ Talks!Idle.op = "none" /\ Talks!Idle.step = "idle"
  BY DEF Talks!Idle, Command, TalkOps, TalkSteps
<1>3. TalksTyped'
  BY <1>1, <1>2, FS_EmptySet DEF TalksInv, TalksTyped, Talks!SessionsAssumption
<1>4. Counting' /\ Fresh'
  BY <1>1, <1>2 DEF Counting, Fresh
<1>5. \A x : Talks!Numbered(x)' = Talks!Numbered(x)
  BY <1>1 DEF Talks!Numbered
<1>6. Stored' /\ Whole'
  BY <1>1, <1>5 DEF TalksInv, Stored, Whole, InOrder, Answered, Talks!Numbered
<1> QED
  BY <1>3, <1>4, <1>6 DEF TalksInv

LEMMA TalksSteps ==
  ASSUME Talks!SessionsAssumption, TalksInv, [Talks!Next]_(Talks!vars)
  PROVE  TalksInv'
<1>1. CASE UNCHANGED Talks!vars
  <2>1. UNCHANGED <<version, sessions, messages, writer, call, used, told, workspaces>>
    BY <1>1 DEF Talks!vars
  <2>2. \A x : Talks!Numbered(x)' = Talks!Numbered(x)
    BY <2>1 DEF Talks!Numbered
  <2>3. TalksTyped' /\ Counting' /\ Fresh'
    BY <2>1, <2>2 DEF TalksInv, TalksTyped, Counting, Fresh
  <2>4. Stored' /\ Whole'
    BY <2>1, <2>2 DEF TalksInv, Stored, Whole, InOrder, Answered
  <2> QED
    BY <2>3, <2>4 DEF TalksInv
<1> QED
  BY <1>1, TalksOpen, TalksFail, TalksList, TalksStart, TalksLock, TalksCreate, TalksAppend,
     TalksDelete,
     TalksCrash DEF Talks!Next

\* What the invariant means for the properties of the model.
LEMMA TalksTypes == ASSUME Talks!SessionsAssumption PROVE TalksInv => Talks!TypeOK
BY CardinalityIs DEF TalksInv, TalksTyped, Message, Talks!TypeOK

LEMMA TalksAreWhole == ASSUME Talks!SessionsAssumption PROVE TalksInv => Talks!SessionsStayWhole
BY CardinalityIs DEF TalksInv, Stored, Whole, InOrder, Answered, Talks!SessionsStayWhole

\* Conversations stay whole, however many commands interleave and wherever the
\* process ends: the limits, the numbers without a gap, the last provider and the
\* messages that callers know of (assistant_sessions.rs:194-391, 495-551).
THEOREM TalksSafety ==
  ASSUME Talks!SessionsAssumption
  PROVE  Talks!Spec => [](Talks!TypeOK /\ Talks!SessionsStayWhole)
<1>1. Talks!Init => TalksInv
  BY TalksBegin
<1>2. TalksInv /\ [Talks!Next]_(Talks!vars) => TalksInv'
  BY TalksSteps
<1>3. TalksInv => Talks!TypeOK /\ Talks!SessionsStayWhole
  BY TalksTypes, TalksAreWhole
<1> QED
  BY <1>1, <1>2, <1>3, PTL DEF Talks!Spec
=============================================================================
