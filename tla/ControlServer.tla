---------------------------- MODULE ControlServer ----------------------------
(* The local server of the chat bridge (control_server.rs, start, accept_loop *)
(* and shutdown) with the descriptor file by which bridges find it            *)
(* (crates/bloomsweepy-control).  One process at a time holds the instance    *)
(* lock.  Its accept thread takes connections and starts a thread for each;   *)
(* its shutdown closes their sockets, joins all threads, and removes the      *)
(* descriptor.  Processes crash, clients fall silent, and a new process may   *)
(* start while the earlier one ends.                                          *)
EXTENDS Naturals, FiniteSets

CONSTANTS
  Processes,     \* starts of the application, one after the other or at once
  Conns,         \* connections that clients make
  MaxConnections

ServerAssumption == MaxConnections \in Nat \ {0} /\ "none" \notin Processes

VARIABLES
  proc,      \* per process: where its start or shutdown is
  lock,      \* the process that holds the instance lock
  file,      \* the process the descriptor names
  acceptor,  \* per process: the accept thread
  active,    \* per process: the count of connections
  streams,   \* per process: connections whose socket shutdown can close
  handles,   \* per process: threads that will be joined
  conn       \* the connections: socket and server thread

vars == <<proc, lock, file, acceptor, active, streams, handles, conn>>

NoConn == [srv |-> "none", at |-> "new", sent |-> FALSE, closed |-> FALSE]
Waiting == [at |-> "loop"]
Gone == [at |-> "gone"]

Init ==
  /\ proc = [p \in Processes |-> "off"] /\ lock = "none" /\ file = "none"
  /\ acceptor = [p \in Processes |-> Gone] /\ active = [p \in Processes |-> 0]
  /\ streams = [p \in Processes |-> {}] /\ handles = [p \in Processes |-> {}]
  /\ conn = [c \in Conns |-> NoConn]

threads == <<acceptor, active, streams, handles, conn>>
shared == <<lock, file>>
Step(p, from, to) == proc[p] = from /\ proc' = [proc EXCEPT ![p] = to]
Stopping(p) == proc[p] # "up"
Alive(c) == conn[c].at \in {"check", "read", "checkAgain", "run", "write"}
Of(p) == {c \in Conns : conn[c].srv = p}

-----------------------------------------------------------------------------
(* start: the lock, the socket, the descriptor, and the accept thread.        *)

Lock(p) ==
  /\ lock = "none" /\ Step(p, "off", "locked") /\ lock' = p
  /\ UNCHANGED <<file, threads>>

\* write_descriptor removes a file left by an earlier process, then renames.
ClearFile(p) ==
  /\ Step(p, "locked", "cleared") /\ file' = "none" /\ UNCHANGED <<lock, threads>>

Publish(p) ==
  /\ Step(p, "cleared", "published") /\ file' = p /\ UNCHANGED <<lock, threads>>

StartAccept(p) ==
  /\ Step(p, "published", "up") /\ acceptor' = [acceptor EXCEPT ![p] = Waiting]
  /\ UNCHANGED <<shared, active, streams, handles, conn>>

\* The accept thread could not be started: the descriptor is taken back, and
\* the lock goes with the failed start.
StartFails(p) ==
  /\ Step(p, "published", "readFile") /\ UNCHANGED <<shared, threads>>

\* The process dies: the system frees its lock and sockets, not the file.
Crash(p) ==
  /\ proc[p] \notin {"off", "ended"} /\ proc' = [proc EXCEPT ![p] = "ended"]
  /\ lock' = IF lock = p THEN "none" ELSE lock
  /\ acceptor' = [acceptor EXCEPT ![p] = Gone]
  /\ streams' = [streams EXCEPT ![p] = {}] /\ handles' = [handles EXCEPT ![p] = {}]
  /\ active' = [active EXCEPT ![p] = 0]
  /\ conn' = [c \in Conns |-> IF c \in Of(p) THEN [conn[c] EXCEPT !.at = "over"] ELSE conn[c]]
  /\ UNCHANGED file

-----------------------------------------------------------------------------
(* Clients (call): the descriptor is read and its address connected to.       *)

Connect(c) ==
  /\ conn[c].at = "new" /\ file # "none" /\ acceptor[file] # Gone
  /\ conn' = [conn EXCEPT ![c].at = "queued", ![c].srv = file]
  /\ UNCHANGED <<proc, shared, acceptor, active, streams, handles>>

\* The request is sent; a client may also stay silent.
Send(c) ==
  /\ conn[c].srv # "none" /\ conn[c].at # "over" /\ ~conn[c].sent /\ ~conn[c].closed
  /\ conn' = [conn EXCEPT ![c].sent = TRUE]
  /\ UNCHANGED <<proc, shared, acceptor, active, streams, handles>>

\* The client gives up, or is killed.
HangUp(c) ==
  /\ conn[c].srv # "none" /\ conn[c].at # "over" /\ ~conn[c].closed
  /\ conn' = [conn EXCEPT ![c].closed = TRUE]
  /\ UNCHANGED <<proc, shared, acceptor, active, streams, handles>>

-----------------------------------------------------------------------------
(* accept_loop.                                                               *)

SetAcceptor(p, a) == acceptor' = [acceptor EXCEPT ![p] = a]

Drained(p) == [c \in Conns |-> IF c \in Of(p) /\ conn[c].at = "queued"
                               THEN [conn[c] EXCEPT !.at = "over"] ELSE conn[c]]

\* Finished threads are forgotten at the top of the loop, which ends when the
\* flag is set; the listening socket goes with the thread.
LoopTop(p) ==
  /\ acceptor[p] = Waiting
  /\ handles' = [handles EXCEPT ![p] = @ \ {c \in Conns : conn[c].at = "over"}]
  /\ IF Stopping(p) THEN SetAcceptor(p, Gone) /\ conn' = Drained(p)
     ELSE SetAcceptor(p, [at |-> "accept"]) /\ UNCHANGED conn
  /\ UNCHANGED <<proc, shared, active, streams>>

\* No connection waits: the thread sleeps and starts over.
NothingQueued(p) ==
  /\ acceptor[p] = [at |-> "accept"] /\ ~\E c \in Of(p) : conn[c].at = "queued"
  /\ SetAcceptor(p, Waiting) /\ UNCHANGED <<proc, shared, active, streams, handles, conn>>

\* The socket can take no more connections: the loop is left, and nobody else
\* ends the server, its descriptor stays.
AcceptFails(p) ==
  /\ acceptor[p] = [at |-> "accept"] /\ SetAcceptor(p, Gone) /\ conn' = Drained(p)
  /\ UNCHANGED <<proc, shared, active, streams, handles>>

\* A connection is refused when the server is stopping or at its limit.
Accept(p, c) ==
  /\ acceptor[p] = [at |-> "accept"] /\ c \in Of(p) /\ conn[c].at = "queued"
  /\ IF Stopping(p) \/ active[p] >= MaxConnections
     THEN conn' = [conn EXCEPT ![c].at = "over"] /\ SetAcceptor(p, Waiting)
     ELSE conn' = [conn EXCEPT ![c].at = "accepted"] /\ SetAcceptor(p, [at |-> "taken", c |-> c])
  /\ UNCHANGED <<proc, shared, active, streams, handles>>

\* The socket is not made known to shutdown.
HideStream(p, c) == UNCHANGED streams
\* The socket is kept for shutdown before its thread exists.
KeepStream(p, c) == streams' = [streams EXCEPT ![p] = @ \cup {c}]

Register(p) ==
  /\ acceptor[p].at = "taken" /\ KeepStream(p, acceptor[p].c)
  /\ SetAcceptor(p, [acceptor[p] EXCEPT !.at = "kept"])
  /\ UNCHANGED <<proc, shared, active, handles, conn>>

\* The new thread is not counted.
CountNot(p) == UNCHANGED active
CountOne(p) == active' = [active EXCEPT ![p] = @ + 1]

Count(p) ==
  /\ acceptor[p].at = "kept" /\ CountOne(p)
  /\ SetAcceptor(p, [acceptor[p] EXCEPT !.at = "counted"])
  /\ UNCHANGED <<proc, shared, streams, handles, conn>>

\* The thread of the connection runs before its handle is stored.
Spawn(p) ==
  /\ acceptor[p].at = "counted" /\ conn' = [conn EXCEPT ![acceptor[p].c].at = "check"]
  /\ SetAcceptor(p, [acceptor[p] EXCEPT !.at = "spawned"])
  /\ UNCHANGED <<proc, shared, active, streams, handles>>

SpawnFails(p) ==
  /\ acceptor[p].at = "counted" /\ conn' = [conn EXCEPT ![acceptor[p].c].at = "over"]
  /\ active' = [active EXCEPT ![p] = @ - 1]
  /\ streams' = [streams EXCEPT ![p] = @ \ {acceptor[p].c}]
  /\ SetAcceptor(p, Waiting) /\ UNCHANGED <<proc, shared, handles>>

KeepHandle(p) ==
  /\ acceptor[p].at = "spawned" /\ handles' = [handles EXCEPT ![p] = @ \cup {acceptor[p].c}]
  /\ SetAcceptor(p, Waiting) /\ UNCHANGED <<proc, shared, active, streams, conn>>

-----------------------------------------------------------------------------
(* handle_connection, and ActiveConnectionGuard when it returns.              *)

Goto(c, at) ==
  /\ conn' = [conn EXCEPT ![c].at = at]
  /\ UNCHANGED <<proc, shared, acceptor, active, streams, handles>>

Return(c) ==
  LET p == conn[c].srv
  IN /\ conn' = [conn EXCEPT ![c].at = "over"]
     /\ streams' = [streams EXCEPT ![p] = @ \ {c}] /\ active' = [active EXCEPT ![p] = @ - 1]
     /\ UNCHANGED <<proc, shared, acceptor, handles>>

Check(c) ==
  /\ conn[c].at = "check" /\ IF Stopping(conn[c].srv) THEN Return(c) ELSE Goto(c, "read")

\* A whole request; a socket closed at either end; the time limit of a frame.
Read(c) == conn[c].at = "read" /\ conn[c].sent /\ Goto(c, "checkAgain")
SocketClosed(c) == conn[c].at \in {"read", "write"} /\ conn[c].closed /\ Return(c)
TimesOut(c) == conn[c].at \in {"read", "write"} /\ Return(c)

CheckAgain(c) ==
  /\ conn[c].at = "checkAgain" /\ IF Stopping(conn[c].srv) THEN Return(c) ELSE Goto(c, "run")

\* The request has run; its answer is written unless the server is stopping.
Ran(c) ==
  /\ conn[c].at = "run" /\ IF Stopping(conn[c].srv) THEN Return(c) ELSE Goto(c, "write")
Written(c) == conn[c].at = "write" /\ Return(c)

-----------------------------------------------------------------------------
(* shutdown: flag, sockets, accept thread, connection threads, descriptor.    *)

Shutdown(p) == Step(p, "up", "flagged") /\ UNCHANGED <<shared, threads>>

CloseStreams(p) ==
  /\ Step(p, "flagged", "joinAccept")
  /\ conn' = [c \in Conns |-> IF c \in streams[p] THEN [conn[c] EXCEPT !.closed = TRUE] ELSE conn[c]]
  /\ UNCHANGED <<shared, acceptor, active, streams, handles>>

AcceptorEnded(p) == acceptor[p] = Gone
WorkersEnded(p) == \A c \in handles[p] : conn[c].at = "over"

\* Only the threads whose handles are stored are waited for.
JoinStored(p) == WorkersEnded(p)
\* The accept thread is joined before the threads it may still start.
JoinFirst(p) == AcceptorEnded(p)
JoinAccept(p) ==
  Step(p, "joinAccept", "joinWorkers") /\ JoinFirst(p) /\ UNCHANGED <<shared, threads>>

JoinWorkers(p) ==
  /\ Step(p, "joinWorkers", "readFile") /\ WorkersEnded(p)
  /\ handles' = [handles EXCEPT ![p] = {}]
  /\ UNCHANGED <<shared, acceptor, active, streams, conn>>

\* remove_descriptor_if_owned reads the file and then removes it by its name;
\* the lock is freed with the fields of the server, after that.
FreeLock(p) == lock' = IF lock = p THEN "none" ELSE lock
HoldLock(p) == UNCHANGED lock
ReadFile(p) ==
  /\ proc[p] = "readFile" /\ proc' = [proc EXCEPT ![p] = IF file = p THEN "removeFile" ELSE "unlock"]
  /\ HoldLock(p) /\ UNCHANGED <<file, threads>>

RemoveFile(p) ==
  /\ Step(p, "removeFile", "unlock") /\ file' = "none" /\ UNCHANGED <<lock, threads>>

Unlock(p) ==
  /\ Step(p, "unlock", "ended") /\ FreeLock(p)
  /\ UNCHANGED <<file, threads>>

-----------------------------------------------------------------------------

AcceptStep(p) ==
  \/ LoopTop(p) \/ NothingQueued(p) \/ \E c \in Conns : Accept(p, c)
  \/ Register(p) \/ Count(p) \/ Spawn(p) \/ SpawnFails(p) \/ KeepHandle(p)

ConnStep(c) == Check(c) \/ Read(c) \/ SocketClosed(c) \/ CheckAgain(c) \/ Ran(c)

ShutdownStep(p) ==
  \/ CloseStreams(p) \/ JoinAccept(p) \/ JoinWorkers(p)
  \/ ReadFile(p) \/ RemoveFile(p) \/ Unlock(p)

Next ==
  \/ \E p \in Processes :
       \/ Lock(p) \/ ClearFile(p) \/ Publish(p) \/ StartAccept(p) \/ StartFails(p)
       \/ Crash(p) \/ Shutdown(p) \/ AcceptStep(p) \/ AcceptFails(p) \/ ShutdownStep(p)
  \/ \E c \in Conns : Connect(c) \/ Send(c) \/ HangUp(c) \/ ConnStep(c) \/ TimesOut(c) \/ Written(c)

\* Threads run, and a request ends.  Clients owe nothing: they may never send,
\* nor take an answer, and no time limit is counted on.
Spec ==
  /\ Init /\ [][Next]_vars
  /\ \A p \in Processes : WF_vars(AcceptStep(p)) /\ WF_vars(ShutdownStep(p))
  /\ \A c \in Conns : WF_vars(ConnStep(c))

-----------------------------------------------------------------------------
(* Properties.                                                                *)

\* Type invariant of the threads and of the files.
TypeOK ==
  /\ lock \in Processes \cup {"none"} /\ file \in Processes \cup {"none"}
  /\ \A p \in Processes :
       /\ active[p] \in 0 .. MaxConnections
       /\ streams[p] \cup handles[p] \subseteq Of(p)
  /\ \A c \in Conns : Alive(c) => conn[c].srv # "none"

\* A process that serves is the one the descriptor names: an earlier process
\* that is ending, or was killed, never leaves bridges without a way to it
\* (write_descriptor, remove_descriptor_if_owned, ControlInstanceLock).
DescriptorNamesServer == \A p \in Processes : proc[p] = "up" => file = p

\* The limit holds for the threads that serve, although the count is kept by
\* the accept thread and given back by theirs.
ServingWithinLimit ==
  \A p \in Processes : Cardinality({c \in Of(p) : Alive(c)}) <= MaxConnections

\* When the descriptor goes, no thread of a connection runs any more: every
\* thread the accept loop started late was joined too.
NobodyServedAfterJoin ==
  \A c \in Conns :
    Alive(c) => proc[conn[c].srv] \notin {"readFile", "removeFile", "unlock", "ended"}

\* A shutdown ends, although clients keep silent: no thread it joins waits for
\* a socket that is still open, also when the connection was accepted while the
\* flag was being set (shutdown, accept_loop).
ShutdownEnds == \A p \in Processes : proc[p] = "flagged" ~> proc[p] = "ended"

=============================================================================
