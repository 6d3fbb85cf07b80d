---------------------------- MODULE SingleInstance ----------------------------
(***************************************************************************)
(* One program at a time on Windows (windows_single_instance.rs) and the   *)
(* window a second launch brings to the front (lib.rs).  A launch creates  *)
(* a named event and then a named mutex; the one that finds no mutex is    *)
(* the primary instance, every other one signals the event and leaves.     *)
(* The primary listens to the event in one thread, while another hides the *)
(* window of a launch at login.                                            *)
(***************************************************************************)
EXTENDS Integers, FiniteSets

CONSTANTS
  Processes,  \* launches of the program; each one happens once
  MaxHides    \* bound: times the user closes the window, which hides it

InstanceAssumption == MaxHides \in Nat

VARIABLES
  pc, launch,                  \* where a process is, and whether it has --background
  mutexOf, eventOf, signaled,  \* who holds the kernel objects open, and the event
  requested, stopped,          \* ForegroundActivationState of the primary
  listener, ready,             \* its two threads
  visible, hides,
  wanted                       \* history: a launch has asked for the window since the user closed it

kernel == <<mutexOf, eventOf, signaled>>
threads == <<requested, stopped, listener, ready>>
vars == <<pc, launch, kernel, threads, visible, hides, wanted>>

Init ==
  /\ pc = [p \in Processes |-> "new"] /\ launch = [p \in Processes |-> "normal"]
  /\ mutexOf = {} /\ eventOf = {} /\ signaled = FALSE
  /\ requested = FALSE /\ stopped = FALSE /\ listener = "none" /\ ready = "none"
  /\ visible = FALSE /\ hides = 0 /\ wanted = FALSE

Up == {p \in Processes : pc[p] = "up"}
Living == {p \in Processes : pc[p] \in {"up", "exiting"}}

(***************************************************************************)
(* acquire_named_instance: the event first, then the mutex.                *)
(***************************************************************************)
CreateEvent(p, how) ==
  /\ pc[p] = "new" /\ launch' = [launch EXCEPT ![p] = how]
  /\ pc' = [pc EXCEPT ![p] = "event"] /\ eventOf' = eventOf \cup {p}
  /\ UNCHANGED <<mutexOf, signaled, threads, visible, hides, wanted>>

Acquire(p) ==
  /\ pc[p] = "event" /\ mutexOf' = mutexOf \cup {p}
  /\ \/ /\ mutexOf = {} /\ pc' = [pc EXCEPT ![p] = "up"]
        /\ requested' = FALSE /\ stopped' = FALSE /\ listener' = "none" /\ ready' = "none"
        /\ visible' = (launch[p] = "normal") /\ wanted' = FALSE
     \/ /\ mutexOf # {} /\ pc' = [pc EXCEPT ![p] = "second"] /\ UNCHANGED <<threads, visible, wanted>>
  /\ UNCHANGED <<launch, eventOf, signaled, hides>>

\* CloseHandle; an event nobody holds any more is gone
Close(p) ==
  /\ pc' = [pc EXCEPT ![p] = "gone"]
  /\ mutexOf' = mutexOf \ {p} /\ eventOf' = eventOf \ {p}
  /\ signaled' = (signaled /\ eventOf # {p})

\* a kernel object cannot be created
AcquireFails(p) ==
  /\ pc[p] = "event" /\ Close(p) /\ UNCHANGED <<launch, threads, visible, hides, wanted>>

(***************************************************************************)
(* A process that is not the first.                                        *)
(***************************************************************************)
Signal(p) ==
  /\ pc[p] = "second" /\ launch[p] = "normal" /\ pc' = [pc EXCEPT ![p] = "activate"]
  /\ signaled' = TRUE /\ wanted' = (Up # {})
  /\ UNCHANGED <<launch, mutexOf, eventOf, threads, visible, hides>>

\* activate_existing_window, which looks for the window for a while and may not find it
Activate(p) ==
  /\ pc[p] = "activate" /\ pc' = [pc EXCEPT ![p] = "close"]
  /\ visible' \in (IF Up = {} THEN {visible} ELSE {visible, TRUE})
  /\ UNCHANGED <<launch, kernel, threads, hides, wanted>>

Leave(p) ==
  /\ pc[p] = "close" \/ (pc[p] = "second" /\ launch[p] = "background")
  /\ Close(p) /\ UNCHANGED <<launch, threads, visible, hides, wanted>>

(***************************************************************************)
(* The primary.  RunEvent::Ready starts both threads.                      *)
(***************************************************************************)
Ready ==
  /\ Up # {} /\ listener = "none" /\ listener' = "wait" /\ ready' = "title"
  /\ UNCHANGED <<pc, launch, kernel, requested, stopped, visible, hides, wanted>>

\* a wake that leaves no trace for the thread that hides the window
WakeOnly == UNCHANGED requested
Request == requested' = TRUE

\* queue_windows_activation_listener
Wake ==
  /\ Up # {} /\ listener = "wait" /\ ~stopped /\ signaled /\ listener' = "woken"
  /\ UNCHANGED <<pc, launch, kernel, requested, stopped, ready, visible, hides, wanted>>

Note ==
  /\ Up # {} /\ listener = "woken" /\ Request /\ listener' = "noted"
  /\ UNCHANGED <<pc, launch, kernel, stopped, ready, visible, hides, wanted>>

Reset ==
  /\ Up # {} /\ listener = "noted" /\ signaled' = FALSE /\ listener' = "reset"
  /\ UNCHANGED <<pc, launch, mutexOf, eventOf, requested, stopped, ready, visible, hides, wanted>>

Restore ==
  /\ Up # {} /\ listener = "reset" /\ visible' = TRUE /\ listener' = "wait"
  /\ UNCHANGED <<pc, launch, kernel, requested, stopped, ready, hides, wanted>>

\* is_requested: the flag, or an event the listener has not seen yet
IsRequested == requested \/ signaled

\* queue_ready_window_updates
ReadyStep(from, to) == Up # {} /\ ready = from /\ ready' = to

Check ==
  /\ \/ ReadyStep("title", "ended") /\ \A p \in Up : launch[p] = "normal"
     \/ ReadyStep("title", "show") /\ IsRequested /\ \A p \in Up : launch[p] = "background"
     \/ ReadyStep("title", "hide") /\ ~IsRequested /\ \A p \in Up : launch[p] = "background"
     \/ ReadyStep("recheck", "show") /\ IsRequested
     \/ ReadyStep("recheck", "ended") /\ ~IsRequested
  /\ UNCHANGED <<pc, launch, kernel, requested, stopped, listener, visible, hides, wanted>>

Hide ==
  /\ ReadyStep("hide", "recheck") /\ visible' = FALSE
  /\ UNCHANGED <<pc, launch, kernel, requested, stopped, listener, hides, wanted>>

Show ==
  /\ ReadyStep("show", "ended") /\ visible' = TRUE
  /\ UNCHANGED <<pc, launch, kernel, requested, stopped, listener, hides, wanted>>

(***************************************************************************)
(* The window and the tray: closing hides, the tray's menu shows or quits. *)
(***************************************************************************)
UserHides ==
  /\ Up # {} /\ visible /\ hides < MaxHides /\ hides' = hides + 1
  /\ visible' = FALSE /\ wanted' = FALSE
  /\ UNCHANGED <<pc, launch, kernel, threads>>

UserShows ==
  /\ Up # {} /\ ~visible /\ visible' = TRUE
  /\ UNCHANGED <<pc, launch, kernel, threads, hides, wanted>>

Exit(p) ==
  /\ pc[p] = "up" /\ pc' = [pc EXCEPT ![p] = "exiting"]
  /\ stopped' = TRUE /\ wanted' = FALSE
  /\ UNCHANGED <<launch, kernel, requested, listener, ready, visible, hides>>

\* the process ends, and with it its threads and its window
Ended(p) ==
  /\ pc[p] = "exiting" /\ Close(p) /\ visible' = FALSE
  /\ UNCHANGED <<launch, threads, hides, wanted>>

Next ==
  \/ \E p \in Processes :
       \/ \E how \in {"normal", "background"} : CreateEvent(p, how)
       \/ Acquire(p) \/ AcquireFails(p) \/ Signal(p) \/ Activate(p) \/ Leave(p) \/ Exit(p) \/ Ended(p)
  \/ Ready \/ Wake \/ Note \/ Reset \/ Restore \/ Check \/ Hide \/ Show \/ UserHides \/ UserShows

\* the system schedules every thread of a living process
Threads == Ready \/ Wake \/ Note \/ Reset \/ Restore
ReadyThread == Check \/ Hide \/ Show

Spec ==
  /\ Init /\ [][Next]_vars
  /\ WF_vars(Threads) /\ WF_vars(ReadyThread)

TypeOK ==
  /\ pc \in [Processes -> {"new", "event", "up", "second", "activate", "close", "exiting", "gone"}]
  /\ launch \in [Processes -> {"normal", "background"}]
  /\ mutexOf \subseteq eventOf /\ {signaled, requested, stopped, visible, wanted} \subseteq BOOLEAN
  /\ listener \in {"none", "wait", "woken", "noted", "reset"}
  /\ ready \in {"none", "title", "show", "hide", "recheck", "ended"} /\ Cardinality(Living) <= 1

(***************************************************************************)
(* A launch that signals the primary ends in a window that stays, unless   *)
(* the user closes it or the program ends: the thread that hides the       *)
(* window of a launch at login never has the last word                     *)
(* (lib.rs:2050-2112).                                                     *)
(***************************************************************************)
LaunchIsAnswered == wanted ~> [](wanted => visible)

(***************************************************************************)
(* "ERROR_ALREADY_EXISTS means another process owns the primary instance   *)
(* lifetime" (windows_single_instance.rs:113-114): a process that gives way    *)
(* does so to a primary.  It does not hold: a second process keeps its     *)
(* handle of the mutex while it looks for the window, after the primary    *)
(* has ended.                                                              *)
(***************************************************************************)
GivesWayToPrimary ==
  [][\A p \in Processes : pc[p] = "event" /\ pc'[p] = "second" => Living # {}]_vars
===============================================================================
