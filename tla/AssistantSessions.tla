-------------------------- MODULE AssistantSessions --------------------------
(***************************************************************************)
(* The stored conversations (assistant_sessions.rs): an SQLite file that   *)
(* every command opens anew and brings to the present form before it uses  *)
(* it, and the lists in memory that go with a conversation.                *)
(***************************************************************************)
EXTENDS Integers, FiniteSets

CONSTANTS
  Calls, Ids,                \* commands under way; conversation numbers, drawn at random
  Providers,                 \* of an assistant's answer
  MaxSessions, MaxMessages,  \* MAX_SESSIONS, MAX_MESSAGES_PER_SESSION
  MaxWorkspaces,             \* of assistant_tools.rs
  MaxCrashes,
  None

SessionsAssumption ==
  None \notin Calls \cup Providers /\ {MaxSessions, MaxMessages, MaxWorkspaces} \subseteq Nat \ {0}

VARIABLES
  exists, version,   \* the file and its user_version
  sessions,          \* the row of each conversation: its last provider
  messages,          \* [session, number, role, provider]
  writer,            \* the call that holds SQLite's write lock
  call,              \* [op, id, step, seen, count]
  used, told,        \* numbers drawn so far; messages a caller was told are stored
  workspaces,        \* conversations with a list in memory
  crashes

vars == <<exists, version, sessions, messages, writer, call, used, told, workspaces, crashes>>

Idle == [op |-> "none", id |-> None, step |-> "idle", seen |-> 0, count |-> 0]

\* nothing yet, or a file of the first form, or of a form this program does not know
Init ==
  /\ exists \in BOOLEAN /\ version \in (IF exists THEN {0, 1, 2, 3} ELSE {0})
  /\ sessions = [s \in {} |-> None] /\ messages = {} /\ writer = None
  /\ call = [c \in Calls |-> Idle] /\ used = {} /\ told = {} /\ workspaces = {} /\ crashes = 0

Database == <<exists, version, sessions, messages, writer>>
At(c, op, step) == call[c].op = op /\ call[c].step = step
Go(c, step) == call' = [call EXCEPT ![c].step = step]
Done(c) == call' = [call EXCEPT ![c] = Idle]
Numbered(s) == {m \in messages : m.session = s}

\* no file yet: nothing to list, to read or to delete
Start(c, op, s) ==
  /\ call[c] = Idle
  /\ op = "create" => s \notin used
  /\ exists \/ op \in {"create", "append"}
  /\ call' = [call EXCEPT ![c] = [Idle EXCEPT !.op = op, !.id = s, !.step = "open"]]
  /\ used' = IF op = "create" THEN used \cup {s} ELSE used
  /\ UNCHANGED <<Database, told, workspaces, crashes>>

(***************************************************************************)
(* open_database and initialize_schema: the version is read outside the    *)
(* transaction that changes it, so a second call that read the old one     *)
(* fails on the table or column the first one made.                        *)
(***************************************************************************)
Open(c) ==
  /\ call[c].step = "open" /\ exists' = TRUE
  /\ CASE version = 2 -> Go(c, "ready")
       [] version \in {0, 1} -> call' = [call EXCEPT ![c].step = "upgrade", ![c].seen = version]
       [] OTHER -> Done(c)
  /\ UNCHANGED <<version, sessions, messages, writer, used, told, workspaces, crashes>>

Immediate == writer = None
Deferred == TRUE
CanLock == Immediate

Upgrade(c) ==
  /\ call[c].step = "upgrade" /\ CanLock
  /\ IF version = call[c].seen THEN version' = 2 /\ Go(c, "ready") ELSE Done(c) /\ UNCHANGED version
  /\ UNCHANGED <<exists, sessions, messages, writer, used, told, workspaces, crashes>>

\* busy_timeout: two seconds behind another writer, or any other error
Fail(c) ==
  /\ call[c].step \in {"open", "upgrade", "ready", "writing"} /\ Done(c)
  /\ writer' = IF writer = c THEN None ELSE writer
  /\ UNCHANGED <<exists, version, sessions, messages, used, told, workspaces, crashes>>

Begin(c) ==
  /\ At(c, "create", "ready") \/ At(c, "append", "ready")
  /\ CanLock /\ writer' = c
  /\ call' = [call EXCEPT ![c].step = "writing", ![c].count =
                IF call[c].op = "create" THEN Cardinality(DOMAIN sessions) ELSE Cardinality(Numbered(call[c].id))]
  /\ UNCHANGED <<exists, version, sessions, messages, used, told, workspaces, crashes>>

\* create_session_at
Create(c) ==
  /\ At(c, "create", "writing") /\ writer' = None
  /\ IF call[c].count >= MaxSessions THEN Done(c) /\ UNCHANGED sessions
     ELSE /\ sessions' = [s \in DOMAIN sessions \cup {call[c].id} |-> IF s = call[c].id THEN None ELSE sessions[s]]
          /\ Done(c)
  /\ UNCHANGED <<exists, version, messages, used, told, workspaces, crashes>>

\* append_message_at: a user's message has no provider, an answer of the app has none either
Append(c) ==
  LET s == call[c].id
      m(role, p) == [session |-> s, number |-> call[c].count + 1, role |-> role, provider |-> p]
  IN /\ At(c, "append", "writing") /\ writer' = None
     /\ IF s \notin DOMAIN sessions \/ call[c].count >= MaxMessages
        THEN Done(c) /\ UNCHANGED <<sessions, messages>>
        ELSE \/ /\ \E role \in {"user", "assistant"} : messages' = messages \cup {m(role, None)}
                /\ Go(c, "reload") /\ UNCHANGED sessions
             \/ \E p \in Providers :
                  /\ messages' = messages \cup {m("assistant", p)}
                  /\ sessions' = [sessions EXCEPT ![s] = p] /\ Go(c, "reload")
     /\ UNCHANGED <<exists, version, used, told, workspaces, crashes>>

\* the row is read back after the commit; the conversation may be gone by then
Reload(c) ==
  /\ At(c, "append", "reload") /\ Done(c)
  /\ told' = told \cup {m \in Numbered(call[c].id) : m.number = call[c].count + 1}
  /\ UNCHANGED <<Database, used, workspaces, crashes>>

\* one statement, with ON DELETE CASCADE
Rows(s) == {m \in messages : m.session # s}

Delete(c) ==
  LET s == call[c].id
  IN /\ At(c, "delete", "ready") /\ writer = None
     /\ sessions' = [x \in DOMAIN sessions \ {s} |-> sessions[x]] /\ messages' = Rows(s)
     /\ Go(c, "forget") /\ UNCHANGED <<exists, version, writer, used, told, workspaces, crashes>>

Forget(c) ==
  /\ At(c, "delete", "forget") /\ Done(c) /\ workspaces' = workspaces \ {call[c].id}
  /\ UNCHANGED <<Database, used, told, crashes>>

\* get_assistant_session, list_assistant_sessions
Get(c) ==
  /\ At(c, "get", "ready") /\ Done(c)
  /\ UNCHANGED <<Database, used, told, workspaces, crashes>>

(***************************************************************************)
(* A search for empty folders in a conversation (assistant_tools.rs,       *)
(* dispatch): the conversation is read, the folder searched, its summary   *)
(* stored unless the conversation is gone, and the list kept in memory.    *)
(***************************************************************************)
Search(c) ==
  /\ At(c, "search", "ready")
  /\ IF call[c].id \in DOMAIN sessions
     THEN /\ call' = [call EXCEPT ![c] = [@ EXCEPT !.op = "summary", !.step = "open"]]
          /\ workspaces' = workspaces \ {call[c].id}
     ELSE Done(c) /\ UNCHANGED workspaces
  /\ UNCHANGED <<Database, used, told, crashes>>

UpdateFolderSummary(c) ==
  /\ At(c, "summary", "ready") /\ writer = None
  /\ IF call[c].id \in DOMAIN sessions THEN Go(c, "insert") ELSE Done(c)
  /\ UNCHANGED <<Database, used, told, workspaces, crashes>>

InsertReport(c) ==
  /\ At(c, "summary", "insert") /\ Done(c)
  /\ workspaces' = IF call[c].id \notin workspaces /\ Cardinality(workspaces) >= MaxWorkspaces
                   THEN {call[c].id} ELSE workspaces \cup {call[c].id}
  /\ UNCHANGED <<Database, used, told, crashes>>

\* the process ends: SQLite rolls an open transaction back, memory is lost
Crash ==
  /\ crashes < MaxCrashes /\ crashes' = crashes + 1
  /\ call' = [c \in Calls |-> Idle] /\ writer' = None /\ workspaces' = {}
  /\ UNCHANGED <<exists, version, sessions, messages, used, told>>

Ops == {"create", "append", "delete", "get", "search"}

Next ==
  \/ \E c \in Calls :
       \/ \E op \in Ops, s \in Ids : Start(c, op, s)
       \/ Open(c) \/ Upgrade(c) \/ Fail(c) \/ Begin(c) \/ Create(c) \/ Append(c) \/ Reload(c)
       \/ Delete(c) \/ Forget(c) \/ Get(c) \/ Search(c) \/ UpdateFolderSummary(c) \/ InsertReport(c)
  \/ Crash

Spec == Init /\ [][Next]_vars

TypeOK ==
  /\ version \in {0, 1, 2, 3} /\ DOMAIN sessions \subseteq used /\ used \subseteq Ids
  /\ writer \in Calls \cup {None} /\ told \subseteq [session : Ids, number : 1..MaxMessages,
       role : {"user", "assistant"}, provider : Providers \cup {None}]
  /\ Cardinality(workspaces) <= MaxWorkspaces

(***************************************************************************)
(* However the calls interleave and wherever the process ends, the limits  *)
(* hold, the messages of a conversation are numbered without a gap and     *)
(* none outlives it, its last provider is one that answered in it, and a   *)
(* message a caller was told of is there as long as its conversation       *)
(* (assistant_sessions.rs:194-391, 495-551).                               *)
(***************************************************************************)
SessionsStayWhole ==
  /\ Cardinality(DOMAIN sessions) <= MaxSessions
  /\ \A m \in messages : m.session \in DOMAIN sessions
  /\ \A s \in DOMAIN sessions :
       /\ {m.number : m \in Numbered(s)} = 1..Cardinality(Numbered(s)) /\ Cardinality(Numbered(s)) <= MaxMessages
       /\ sessions[s] # None => \E m \in Numbered(s) : m.provider = sessions[s] /\ m.role = "assistant"
  /\ \A m \in told : m.session \in DOMAIN sessions => m \in messages
=============================================================================
