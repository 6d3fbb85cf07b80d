------------------------------- MODULE WorkSlot -------------------------------
(***************************************************************************)
(* What the single work slot of the desktop application promises to every  *)
(* command: one holder at a time, a stop request that was accepted is never *)
(* followed by a commit of the same work, and nothing is admitted after     *)
(* shutdown began.  ScanRuntime is shown to implement this module.          *)
(***************************************************************************)
CONSTANTS Work, NoWork

VARIABLES holder, committing, stopped, shut

vars == <<holder, committing, stopped, shut>>

TypeOK ==
    /\ holder \in Work \cup {NoWork}
    /\ committing \in BOOLEAN
    /\ stopped \in BOOLEAN
    /\ shut \in BOOLEAN

Init ==
    /\ holder = NoWork
    /\ committing = FALSE
    /\ stopped = FALSE
    /\ shut = FALSE

Take(w) ==
    /\ holder = NoWork
    /\ ~shut
    /\ holder' = w
    /\ committing' = FALSE
    /\ stopped' = FALSE
    /\ UNCHANGED shut

Stop ==
    /\ holder # NoWork
    /\ ~committing
    /\ stopped' = TRUE
    /\ UNCHANGED <<holder, committing, shut>>

Commit ==
    /\ holder # NoWork
    /\ ~stopped
    /\ committing' = TRUE
    /\ UNCHANGED <<holder, stopped, shut>>

Release ==
    /\ holder # NoWork
    /\ holder' = NoWork
    /\ committing' = FALSE
    /\ stopped' = FALSE
    /\ UNCHANGED shut

Shut ==
    /\ shut' = TRUE
    /\ UNCHANGED <<holder, committing, stopped>>

Next ==
    \/ \E w \in Work : Take(w)
    \/ Stop
    \/ Commit
    \/ Release
    \/ Shut

Spec == Init /\ [][Next]_vars
===============================================================================
