----------------------------- MODULE NativeFiles -----------------------------
(* The file conversation inside the application (assistant_files.rs,          *)
(* assistant_tools.rs, assistant_access.rs) and the permission mode of the    *)
(* chat (control_server.rs).  Every change of mode advances an epoch and then *)
(* cancels, in three steps of its own, what runs or is remembered under the   *)
(* earlier one; jobs capture epoch and mode when they begin and compare them  *)
(* again under the permission mutex before they publish or claim.             *)
(*                                                                            *)
(* One conversation is modelled, with its two workspaces: files (with a       *)
(* selection and a plan) and empty folders.  Lists are not enumerated: a      *)
(* selection is one of Selections.                                            *)
EXTENDS Integers, Sequences

CONSTANTS
  Jobs,        \* commands and tool calls that may overlap
  Selections,  \* selections a user or model can make
  NItems,      \* items of a plan, moved one after the other
  MaxJobs,     \* bound: jobs started
  MaxChanges   \* bound: changes of mode

NativeAssumption ==
  /\ NItems \in Nat \ {0} /\ MaxJobs \in Nat /\ MaxChanges \in Nat
  /\ Jobs # {} /\ "none" \notin Selections

Modes == {"read_only", "confirm", "full_access"}
Families == {"files", "empty"}
AllowsReview(m) == m # "read_only"

VARIABLES
  mode, epoch,   \* permission preferences and native_chat_epoch
  change,        \* progress of configure_assistant_permission_mode
  tokens,        \* AssistantAccessState.cancellations: registered jobs
  access,        \* AssistantAccessState.sessions: volumes and the opened root
  ws,            \* the two workspaces
  slot, job,
  ids, started

vars == <<mode, epoch, change, tokens, access, ws, slot, job, ids, started>>

None == [kind |-> "none"]
NoPlan == [id |-> 0]
Free == "free"
Idle == [at |-> "idle"]

\* native_chat_binding.
Bind == [epoch |-> epoch, mode |-> mode]
EpochCurrent(b) == b.epoch = epoch
\* A test of the mode alone, as if the epoch could not have moved.
AuthorityOfMode(b, review) == review => AllowsReview(b.mode)
\* with_native_chat_authority, the test made under the permission mutex.
Authority(b, review) == b = Bind /\ (review => AllowsReview(b.mode))

Init ==
  /\ mode \in Modes /\ epoch = 0 /\ change = "done" /\ tokens = {}
  /\ access = None /\ ws = [f \in Families |-> None]
  /\ slot = Free /\ job = [j \in Jobs |-> Idle] /\ ids = 0 /\ started = 0

-----------------------------------------------------------------------------
(* configure_assistant_permission_mode: the epoch advances with the stored    *)
(* mode; invalidate then flags the registered jobs and forgets, in this order.*)

ChangeMode ==
  /\ change = "done" /\ epoch < MaxChanges
  /\ mode' \in Modes \ {mode} /\ epoch' = epoch + 1 /\ change' = "flag"
  /\ UNCHANGED <<tokens, access, ws, slot, job, ids, started>>

FlagJobs ==
  /\ change = "flag" /\ change' = "access" /\ tokens' = {}
  /\ job' = [j \in Jobs |-> IF j \in tokens THEN [job[j] EXCEPT !.stop = TRUE] ELSE job[j]]
  /\ UNCHANGED <<mode, epoch, access, ws, slot, ids, started>>

ForgetAccess ==
  /\ change = "access" /\ change' = "files" /\ access' = None
  /\ UNCHANGED <<mode, epoch, tokens, ws, slot, job, ids, started>>

ForgetWorkspaces ==
  /\ change = "files" /\ change' = "done" /\ ws' = [f \in Families |-> None]
  /\ UNCHANGED <<mode, epoch, tokens, access, slot, job, ids, started>>

-----------------------------------------------------------------------------
(* Helpers of the jobs.                                                       *)

perm == <<mode, epoch, change>>
Go(j, at) == job' = [job EXCEPT ![j].at = at]
End(j) == job' = [job EXCEPT ![j] = Idle] /\ tokens' = tokens \ {j}
Holds(j) == slot = j
\* Any exit after the slot was taken gives it back (ScanCompletionGuard).
Leave(j) == End(j) /\ slot' = IF Holds(j) THEN Free ELSE slot

Stopped(j) == job[j].stop \/ ~EpochCurrent(job[j].bind)

\* A new list, bound to nobody until it is published.
Listed(j) ==
  [kind |-> "list", rev |-> ids + 1, bound |-> None, root |-> job[j].root, sel |-> "none", plan |-> NoPlan, eligible |-> FALSE]

\* The root of the conversation: the opened volume, for the binding it was
\* opened under, or else the folder of the session.
EffectiveRoot(b) ==
  IF access # None /\ access.bind = b THEN access.root ELSE "anchor"

-----------------------------------------------------------------------------
(* Beginning: the binding is captured, and a review refused in read_only.     *)

FamilyOf(kind) == IF kind \in {"scanEmpty", "selectEmpty", "confirmEmpty"} THEN "empty" ELSE "files"

NewJob(kind, b) ==
  [at |-> "begin", kind |-> kind, bind |-> b, stop |-> FALSE, root |-> EffectiveRoot(b),
   plan |-> 0, left |-> 0]

Start(j, kind) ==
  /\ job[j].at = "idle" /\ started < MaxJobs /\ started' = started + 1
  /\ CASE kind \in {"list", "open"} -> mode = "full_access"
       [] kind \in {"named", "select", "selectEmpty"} -> AllowsReview(mode)
       [] OTHER -> TRUE
  /\ job' = [job EXCEPT ![j] = NewJob(kind, Bind)]
  /\ UNCHANGED <<perm, tokens, access, ws, slot, ids>>

\* Tool calls of one family forget the other's list (dispatch).
DispatchFiles(j) ==
  /\ job[j].at = "begin" /\ job[j].kind \in {"scan", "named", "select"}
  /\ ws' = [ws EXCEPT !["empty"] = None] /\ Go(j, "slot")
  /\ UNCHANGED <<perm, tokens, access, slot, ids, started>>

\* The empty-folder tool checks the binding of its list before it works.
DispatchEmpty(j) ==
  /\ job[j].at = "begin" /\ job[j].kind \in {"scanEmpty", "selectEmpty"}
  /\ LET stale == ws["empty"] # None /\ ws["empty"].bound # job[j].bind
     IN IF Authority(job[j].bind, FALSE) /\ ~stale
        THEN /\ ws' = [ws EXCEPT !["files"] = None]
             /\ Go(j, IF job[j].kind = "scanEmpty" THEN "slot" ELSE "choose") /\ UNCHANGED tokens
        ELSE /\ ws' = IF Authority(job[j].bind, FALSE)
                      THEN [f \in Families |-> None] ELSE [ws EXCEPT !["files"] = None]
             /\ End(j)
  /\ UNCHANGED <<perm, access, slot, ids, started>>

BeginList(j) ==
  /\ job[j].at = "begin" /\ job[j].kind = "list" /\ Go(j, "slot")
  /\ UNCHANGED <<perm, tokens, access, ws, slot, ids, started>>

\* open_volume: under the mutex the volume becomes the root of the conversation
\* and both lists are forgotten; only then is the slot asked for.
OpenVolume(j) ==
  /\ job[j].at = "begin" /\ job[j].kind = "open"
  /\ IF Authority(job[j].bind, FALSE) /\ access # None /\ access.bind = job[j].bind
     THEN /\ access' = [access EXCEPT !.root = "volume"]
          /\ ws' = [f \in Families |-> None]
          /\ job' = [job EXCEPT ![j].at = "slot", ![j].root = "volume"] /\ UNCHANGED tokens
     ELSE End(j) /\ UNCHANGED <<access, ws>>
  /\ UNCHANGED <<perm, slot, ids, started>>

\* prepare_assistant_file_plan works with the binding of the list.
BeginPrepare(j) ==
  /\ job[j].at = "begin" /\ job[j].kind = "prepare"
  /\ IF ws["files"] # None /\ ws["files"].bound # None /\ Authority(ws["files"].bound, TRUE)
     THEN job' = [job EXCEPT ![j].at = "slot", ![j].bind = ws["files"].bound] /\ UNCHANGED tokens
     ELSE End(j)
  /\ UNCHANGED <<perm, access, ws, slot, ids, started>>

\* The slot is taken, then the job registered; a new scan for empty folders
\* forgets the earlier list here.
TakeSlot(j) ==
  /\ job[j].at = "slot"
  /\ IF slot = Free THEN slot' = j /\ Go(j, "register") /\ UNCHANGED tokens
                    ELSE End(j) /\ UNCHANGED slot
  /\ UNCHANGED <<perm, access, ws, ids, started>>

\* A confirmation that is not registered.
RegisterReader(j) ==
  /\ job[j].at = "register"
  /\ tokens' = IF job[j].kind \in {"confirm", "confirmEmpty"} THEN tokens ELSE tokens \cup {j}
  /\ Go(j, CASE job[j].kind \in {"scan", "named", "select"} -> "admit"
             [] job[j].kind = "prepare" -> "copy"
             [] job[j].kind \in {"confirm", "confirmEmpty"} -> "claim"
             [] OTHER -> "work")
  /\ ws' = IF job[j].kind = "scanEmpty" THEN [ws EXCEPT !["empty"] = None] ELSE ws
  /\ UNCHANGED <<perm, access, slot, ids, started>>

RegisterJob(j) ==
  /\ job[j].at = "register" /\ tokens' = tokens \cup {j}
  /\ Go(j, CASE job[j].kind \in {"scan", "named", "select"} -> "admit"
             [] job[j].kind = "prepare" -> "copy"
             [] job[j].kind \in {"confirm", "confirmEmpty"} -> "claim"
             [] OTHER -> "work")
  /\ ws' = IF job[j].kind = "scanEmpty" THEN [ws EXCEPT !["empty"] = None] ELSE ws
  /\ UNCHANGED <<perm, access, slot, ids, started>>

-----------------------------------------------------------------------------
(* The work of dispatch_root, open_native_root and the volume list.           *)

\* A list of another binding or scope is dropped and the call refused.
Admit(j) ==
  /\ job[j].at = "admit"
  /\ LET w == ws["files"]
         other == w # None /\ (w.bound # job[j].bind \/ w.root # job[j].root)
     IN IF Authority(job[j].bind, FALSE) /\ ~other
        THEN /\ IF job[j].kind = "select" THEN Go(j, "choose") /\ UNCHANGED ws
                ELSE Go(j, "work") /\ ws' = [ws EXCEPT !["files"] = None]
             /\ UNCHANGED <<tokens, slot>>
        ELSE /\ ws' = IF Authority(job[j].bind, FALSE) THEN [ws EXCEPT !["files"] = None] ELSE ws
             /\ Leave(j)
  /\ UNCHANGED <<perm, access, ids, started>>

\* The walk ends by itself or at the flag it last looked at.  The empty-folder
\* scan looks at its flags only, not at the epoch.
StopNow(j) == IF job[j].kind = "scanEmpty" THEN job[j].stop ELSE Stopped(j)
Work(j) ==
  /\ job[j].at = "work" /\ ~StopNow(j)
  /\ Go(j, IF job[j].kind \in {"list", "open"} THEN "publish" ELSE "store")
  /\ UNCHANGED <<perm, tokens, access, ws, slot, ids, started>>

WorkEnds(j) ==
  /\ job[j].at \in {"work", "verify"} /\ Leave(j)
  /\ UNCHANGED <<perm, access, ws, ids, started>>

\* state.insert, outside the permission mutex.
Store(j) ==
  /\ job[j].at = "store" /\ ids' = ids + 1
  /\ ws' = [ws EXCEPT ![FamilyOf(job[j].kind)] = Listed(j)]
  /\ Go(j, IF job[j].kind = "named" THEN "name" ELSE "publish")
  /\ UNCHANGED <<perm, tokens, access, slot, started>>

\* One entry has the name: it is selected and reviewed.
SelectNamed(j) ==
  /\ job[j].at = "name"
  /\ \/ /\ ws["files"] # None
        /\ \E s \in Selections : ws' = [ws EXCEPT !["files"].sel = s]
        /\ Go(j, "copy") /\ UNCHANGED <<tokens, slot>>
     \/ ws["files"] # None /\ Go(j, "publish") /\ UNCHANGED <<ws, tokens, slot>>
     \/ ws["files"] = None /\ Leave(j) /\ UNCHANGED ws
  /\ UNCHANGED <<perm, access, ids, started>>

CopySelection(j) ==
  /\ job[j].at = "copy"
  /\ IF ws["files"] # None /\ ws["files"].sel # "none"
     THEN /\ ws' = [ws EXCEPT !["files"].plan = NoPlan]
          /\ job' = [job EXCEPT ![j] =
                       [@ EXCEPT !.at = "verify", !.plan = <<ws["files"].rev, ws["files"].sel>>]]
          /\ UNCHANGED <<tokens, slot>>
     ELSE Leave(j) /\ UNCHANGED ws
  /\ UNCHANGED <<perm, access, ids, started>>

Verify(j) ==
  /\ job[j].at = "verify" /\ ~Stopped(j) /\ Go(j, "plan")
  /\ UNCHANGED <<perm, tokens, access, ws, slot, ids, started>>

StorePlan(j) ==
  /\ job[j].at = "plan"
  /\ IF ws["files"] # None /\ <<ws["files"].rev, ws["files"].sel>> = job[j].plan
     THEN /\ ws' = [ws EXCEPT !["files"].plan = [id |-> ids + 1, sel |-> ws["files"].sel]]
          /\ ids' = ids + 1 /\ UNCHANGED <<tokens, slot>>
          /\ Go(j, IF job[j].kind = "named" THEN "publish" ELSE "end")
     ELSE Leave(j) /\ UNCHANGED <<ws, ids>>
  /\ UNCHANGED <<perm, access, started>>

EndJob(j) ==
  /\ job[j].at = "end" /\ Leave(j) /\ UNCHANGED <<perm, access, ws, ids, started>>

\* select and update_empty_selection.
Choose(j) ==
  /\ job[j].at = "choose"
  /\ LET f == FamilyOf(job[j].kind)
         allowed == /\ ws[f] # None
                    /\ IF f = "empty" THEN Authority(job[j].bind, FALSE) ELSE ~Stopped(j)
     IN IF allowed
        THEN /\ \E s \in Selections : ws' = [ws EXCEPT ![f] = [@ EXCEPT !.sel = s, !.plan = NoPlan]]
             /\ Go(j, "publish") /\ UNCHANGED <<tokens, slot>>
        ELSE Leave(j) /\ UNCHANGED ws
  /\ UNCHANGED <<perm, access, ids, started>>

\* A result bound to the job's binding without looking whether it is current.
PublishUnchecked(j) ==
  /\ job[j].at = "publish" /\ job[j].kind \notin {"list", "open"}
  /\ LET f == FamilyOf(job[j].kind)
     IN \E complete \in BOOLEAN :
          ws' = [ws EXCEPT ![f] = IF @ # None
                   THEN [@ EXCEPT !.bound = job[j].bind, !.eligible = complete] ELSE None]
  /\ Leave(j) /\ UNCHANGED <<perm, access, ids, started>>

\* The result is bound to the job's binding under the mutex, or dropped.
Publish(j) ==
  /\ job[j].at = "publish" /\ job[j].kind \notin {"list", "open"}
  /\ LET f == FamilyOf(job[j].kind)
     IN \E complete \in BOOLEAN :
          ws' = [ws EXCEPT ![f] =
                   IF Authority(job[j].bind, FALSE) /\ @ # None
                   THEN [@ EXCEPT !.bound = job[j].bind, !.eligible = complete] ELSE None]
  /\ Leave(j) /\ UNCHANGED <<perm, access, ids, started>>

PublishVolumes(j) ==
  /\ job[j].at = "publish" /\ job[j].kind = "list"
  /\ access' = IF ~Authority(job[j].bind, FALSE) THEN access
               ELSE [kind |-> "volumes", bind |-> job[j].bind, root |-> EffectiveRoot(job[j].bind)]
  /\ Leave(j) /\ UNCHANGED <<perm, ws, ids, started>>

PublishVolume(j) ==
  /\ job[j].at = "publish" /\ job[j].kind = "open"
  /\ IF Authority(job[j].bind, FALSE)
     THEN /\ \E complete \in BOOLEAN :
               ws' = [ws EXCEPT !["files"] =
                        [Listed(j) EXCEPT !.bound = job[j].bind, !.eligible = complete]]
          /\ ids' = ids + 1
     ELSE UNCHANGED <<ws, ids>>
  /\ Leave(j) /\ UNCHANGED <<perm, access, started>>

-----------------------------------------------------------------------------
(* Commands of the main window.                                               *)

\* select_assistant_files and prepare_assistant_empty_plan, atomic commands.
WindowSelects ==
  /\ ws["files"] # None /\ ws["files"].bound # None /\ Authority(ws["files"].bound, TRUE)
  /\ \E s \in Selections : ws' = [ws EXCEPT !["files"] = [@ EXCEPT !.sel = s, !.plan = NoPlan]]
  /\ UNCHANGED <<perm, tokens, access, slot, job, ids, started>>

\* A second plan before the first has ended is left out.
WindowPlansEmpty ==
  /\ ws["empty"] # None /\ ws["empty"].bound # None /\ Authority(ws["empty"].bound, TRUE)
  /\ ws["empty"].plan = NoPlan
  /\ ws' = [ws EXCEPT !["empty"].plan = [id |-> ids + 1, sel |-> ws["empty"].sel]]
  /\ ids' = ids + 1
  /\ UNCHANGED <<perm, tokens, access, slot, job, started>>

\* get_assistant_file_workspace forgets a list without a current binding.
WindowReads(f) ==
  /\ ws[f] # None /\ ~(ws[f].bound # None /\ EpochCurrent(ws[f].bound))
  /\ ws' = [ws EXCEPT ![f] = None]
  /\ UNCHANGED <<perm, tokens, access, slot, job, ids, started>>

\* The plan named by a confirmation is one the window was shown.
StartConfirm(j, f, automatic) ==
  /\ job[j].at = "idle" /\ started < MaxJobs /\ started' = started + 1
  /\ ws[f] # None /\ ws[f].plan # NoPlan
  /\ automatic => mode = "full_access"
  /\ job' = [job EXCEPT ![j] =
               [NewJob(IF f = "files" THEN "confirm" ELSE "confirmEmpty", Bind) EXCEPT
                  !.at = "slot", !.plan = <<ws[f].plan.id, automatic>>]]
  /\ UNCHANGED <<perm, tokens, access, ws, slot, ids>>

\* native_authority, then the claim under the permission mutex.
Claim(j) ==
  /\ job[j].at = "claim"
  /\ LET f == FamilyOf(job[j].kind)
         w == ws[f]
         automatic == job[j].plan[2]
         allowed == /\ w # None /\ w.bound # None /\ Authority(w.bound, TRUE)
                    /\ w.plan # NoPlan /\ w.plan.id = job[j].plan[1] /\ w.plan.sel = w.sel
                    /\ automatic => (w.eligible \/ f = "empty")
     IN IF allowed
        THEN /\ job' = [job EXCEPT ![j] = [@ EXCEPT !.at = "next", !.bind = w.bound, !.left = NItems]]
             /\ ws' = [ws EXCEPT ![f] = IF f = "empty" THEN None
                                        ELSE [@ EXCEPT !.plan = NoPlan, !.sel = "none"]]
             /\ UNCHANGED <<tokens, slot>>
        ELSE Leave(j) /\ UNCHANGED ws
  /\ UNCHANGED <<perm, access, ids, started>>

\* The trash job looks at its flag before every item.
NextItem(j) ==
  /\ job[j].at = "next"
  /\ Go(j, IF job[j].stop \/ job[j].left = 0 THEN "moved" ELSE "item")
  /\ UNCHANGED <<perm, tokens, access, ws, slot, ids, started>>

MoveItem(j) ==
  /\ job[j].at = "item"
  /\ job' = [job EXCEPT ![j] = [@ EXCEPT !.at = "next", !.left = job[j].left - 1]]
  /\ UNCHANGED <<perm, tokens, access, ws, slot, ids, started>>

EndMove(j) ==
  /\ job[j].at = "moved"
  /\ ws' = IF job[j].kind = "confirm" THEN [f \in Families |-> None] ELSE ws
  /\ Leave(j) /\ UNCHANGED <<perm, access, ids, started>>

-----------------------------------------------------------------------------
JobKinds == {"list", "open", "scan", "named", "select", "prepare", "scanEmpty", "selectEmpty"}
Steps(j) ==
  \/ DispatchFiles(j) \/ DispatchEmpty(j) \/ BeginList(j) \/ OpenVolume(j) \/ BeginPrepare(j)
  \/ TakeSlot(j) \/ RegisterJob(j) \/ Admit(j) \/ Work(j) \/ WorkEnds(j) \/ Store(j)
  \/ SelectNamed(j) \/ CopySelection(j) \/ Verify(j) \/ StorePlan(j) \/ EndJob(j) \/ Choose(j)
  \/ Publish(j) \/ PublishVolumes(j) \/ PublishVolume(j)
  \/ Claim(j) \/ NextItem(j) \/ MoveItem(j) \/ EndMove(j)
Next ==
  \/ ChangeMode \/ FlagJobs \/ ForgetAccess \/ ForgetWorkspaces
  \/ \E j \in Jobs : Steps(j) \/ \E kind \in JobKinds : Start(j, kind)
  \/ \E j \in Jobs, f \in Families, automatic \in BOOLEAN : StartConfirm(j, f, automatic)
  \/ WindowSelects \/ WindowPlansEmpty \/ \E f \in Families : WindowReads(f)

Spec == Init /\ [][Next]_vars

-----------------------------------------------------------------------------
(* Properties.                                                                *)

\* The variables keep their types: what is bound is bound to a mode that was in
\* force, and the slot is with a job.
Bindings == [epoch : 0..MaxChanges, mode : Modes]
Plans == {NoPlan} \cup [id : 1..ids, sel : Selections \cup {"none"}]
Scopes == {"anchor", "volume"}
Lists == [kind : {"list"}, rev : 1..ids, bound : Bindings \cup {None}, root : Scopes,
          sel : Selections \cup {"none"}, plan : Plans, eligible : BOOLEAN]
TypeOK ==
  /\ mode \in Modes /\ epoch \in 0..MaxChanges
  /\ change \in {"flag", "access", "files", "done"}
  /\ tokens \subseteq Jobs /\ slot \in Jobs \cup {Free}
  /\ access = None \/ access \in [kind : {"volumes"}, bind : Bindings, root : Scopes]
  /\ \A f \in Families : ws[f] = None \/ ws[f] \in Lists
  /\ \A j \in Jobs : job[j].at # "idle" => job[j].bind \in Bindings /\ job[j].root \in Scopes
  /\ ids \in Nat /\ started \in 0..MaxJobs

ItemUnderPermission ==
  \A j \in Jobs : /\ job[j].at = "next" /\ job'[j].at = "item"
                  => EpochCurrent(job[j].bind) \/ change = "flag"

\* Once a change of mode has flagged the jobs, no confirmation claimed under
\* the earlier mode starts another item: registering the job before the claim
\* and flagging after the epoch leave no gap between them.
RevokedChatMovesNothing == [][ItemUnderPermission]_vars

ClaimUnderFullAccess ==
  \A j \in Jobs : /\ job[j].at = "claim" /\ job'[j].at = "next"
                  => (job[j].plan[2] => mode = "full_access")

\* A move the model starts on its own is claimed only while the mode is full
\* access, although the mode was looked at before the slot was taken.
AutomaticNeedsFullAccess == [][ClaimUnderFullAccess]_vars

\* After a change of mode is through, no list bound to an earlier mode and no
\* volume opened under one is left, whatever the jobs under way do later.
BoundListIsCurrent ==
  change = "done" =>
    /\ \A f \in Families : ws[f] # None /\ ws[f].bound # None => EpochCurrent(ws[f].bound)
    /\ access # None => EpochCurrent(access.bind)
=============================================================================
