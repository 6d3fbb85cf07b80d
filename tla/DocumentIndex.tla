---------------------------- MODULE DocumentIndex ----------------------------
(* The document index (document_search.rs) and the helper process that reads  *)
(* one document at a time (document_worker.rs).  A build walks the folder in  *)
(* one transaction; it keeps the stored text of a document whose size, time   *)
(* and format are those of the stored row and reads the others again, in a    *)
(* child process when the format is structured.  Documents are written and    *)
(* removed meanwhile.  Builds and searches hold the work slot (ScanRuntime).  *)
(*                                                                            *)
(* A document is a number that grows with every write, 0 when there is none;  *)
(* its size and time tell two numbers apart.  The other root is empty.        *)
EXTENDS Naturals

CONSTANTS
  Docs,         \* paths of documents below the folder
  Structured,   \* those read by the helper: PDF and the office formats
  MaxDocs,      \* DocumentIndexConfig.max_documents
  MaxWrites,    \* bound: writes of other programs
  MaxBuilds     \* bound: builds started

IndexAssumption == Structured \subseteq Docs /\ MaxDocs \in Nat \ {0}

VARIABLES
  disk, writes,   \* the documents; how many writes there were
  rows, meta,     \* documents and index_meta
  build,          \* the running build
  child,          \* the helper process
  builds

vars == <<disk, writes, rows, meta, build, child, builds>>

NoRows == [p \in {} |-> 0]
NoMeta == [root |-> "none", gen |-> 0]
None == [at |-> "none"]
NoChild == [at |-> "none"]

Init ==
  /\ disk \in [Docs -> {0, 1}] /\ writes = 1 /\ rows = NoRows /\ meta = NoMeta
  /\ build = None /\ child = NoChild /\ builds = 0

\* Another program writes a document, or removes it.
Write(p) ==
  /\ writes < MaxWrites /\ writes' = writes + 1
  /\ \E v \in {0, writes + 1} \ {disk[p]} : disk' = [disk EXCEPT ![p] = v]
  /\ UNCHANGED <<rows, meta, build, child, builds>>

-----------------------------------------------------------------------------
(* build_document_index_inner.                                                *)

Begin(root) ==
  /\ build = None /\ builds < MaxBuilds /\ builds' = builds + 1
  /\ build' = [at |-> "walk", root |-> root, gen |-> meta.gen + 1, count |-> 0,
               tx |-> IF meta # NoMeta /\ meta.root # root THEN NoRows ELSE rows,
               left |-> IF root = "folder" THEN Docs ELSE {},
               doc |-> "none", stamp |-> 0, result |-> "none"]
  /\ UNCHANGED <<disk, writes, rows, meta, child>>

Row(stamp, text, gen) == [stamp |-> stamp, text |-> text, gen |-> gen]
\* A row stamped with the document as it is when its text has been read.
RowOfNow(p, text) == Row(disk[p], text, build.gen)
\* The row of a document that was read: stamped with what the walk saw.
RowOf(p, text) == Row(build.stamp, text, build.gen)

Walking(p) == [build EXCEPT !.at = "walk", !.left = @ \ {p}]
Skip(p) == build' = Walking(p)
With(tx, p, row) == [q \in DOMAIN tx \cup {p} |-> IF q = p THEN row ELSE tx[q]]
Store(p, row) ==
  build' = [Walking(p) EXCEPT !.tx = With(@, p, row), !.count = @ + 1]

Reusable(p) == p \in DOMAIN build.tx /\ build.tx[p].stamp = disk[p]

\* The walk comes to a path: the limit, the stored row, or a reading.
Visit(p) ==
  /\ build.at = "walk" /\ p \in build.left
  /\ CASE disk[p] = 0 \/ build.count >= MaxDocs -> Skip(p)
       [] disk[p] # 0 /\ build.count < MaxDocs /\ Reusable(p) ->
            Store(p, [build.tx[p] EXCEPT !.gen = build.gen])
       [] OTHER -> build' = [build EXCEPT !.at = IF p \in Structured THEN "spawn" ELSE "read",
                                          !.doc = p, !.stamp = disk[p]]
  /\ UNCHANGED <<disk, writes, rows, meta, child, builds>>

\* extract_document, plain text; a document without text is skipped.
ReadText ==
  /\ build.at = "read"
  /\ \/ disk[build.doc] # 0 /\ Store(build.doc, RowOf(build.doc, disk[build.doc]))
     \/ Skip(build.doc)
  /\ UNCHANGED <<disk, writes, rows, meta, child, builds>>

-----------------------------------------------------------------------------
(* run_bounded: the helper is started, a thread drains its output, and the    *)
(* build polls until it exits, is cancelled, or takes too long.               *)

SpawnHelper ==
  /\ build.at = "spawn" /\ build' = [build EXCEPT !.at = "poll", !.result = "none"]
  /\ child' = [at |-> "running"] /\ UNCHANGED <<disk, writes, rows, meta, builds>>

\* run_document_worker: the text (0), a document it cannot parse (3), or any
\* other failure (2), a document that is gone among them.  It may also hang.
HelperExits ==
  /\ child.at = "running"
  /\ \E code \in {0, 2, 3} :
       /\ disk[build.doc] = 0 => code = 2
       /\ child' = [at |-> "exited", code |-> code, text |-> disk[build.doc]]
  /\ UNCHANGED <<disk, writes, rows, meta, build, builds>>

Result(code) == CASE code = 0 -> "text" [] code = 3 -> "unreadable" [] OTHER -> "failed"

\* Cancelled, out of memory, or past the time limit.
GiveUp == build.at = "poll" /\ build' = [build EXCEPT !.at = "drop", !.result = "failed"]
SeesExit ==
  /\ build.at = "poll" /\ child.at = "exited"
  /\ build' = [build EXCEPT !.at = "drop", !.result = Result(child.code)]
Poll == (GiveUp \/ SeesExit) /\ UNCHANGED <<disk, writes, rows, meta, child, builds>>

\* Waiting for the end of the output, with the helper left alone.
DropLater == build' = [build EXCEPT !.at = "join"] /\ UNCHANGED child
\* OwnedChild is dropped: killed and waited for.
DropChild ==
  /\ build' = [build EXCEPT !.at = "join"]
  /\ child' = IF child.at = "running" THEN [at |-> "killed"] ELSE child
Kill == build.at = "drop" /\ DropChild /\ UNCHANGED <<disk, writes, rows, meta, builds>>

\* The draining thread ends with the output of the helper, and is joined.
\* A failure of the helper fails the build; a document it cannot read does not.
Join ==
  /\ build.at = "join" /\ child.at # "running" /\ child' = NoChild
  /\ CASE build.result = "text" -> Store(build.doc, RowOf(build.doc, child.text)) \/ Skip(build.doc)
       [] build.result = "unreadable" -> Skip(build.doc)
       [] OTHER -> build' = None
  /\ UNCHANGED <<disk, writes, rows, meta, builds>>

-----------------------------------------------------------------------------

\* What this build did not see again goes, and the whole is committed.
Commit ==
  /\ build.at = "walk" /\ build.left = {} /\ build' = None
  /\ rows' = [p \in {q \in DOMAIN build.tx : build.tx[q].gen = build.gen} |-> build.tx[p]]
  /\ meta' = [root |-> build.root, gen |-> build.gen]
  /\ UNCHANGED <<disk, writes, child, builds>>

\* Cancellation or a resource limit between two documents.
Stop ==
  /\ build.at \in {"walk", "read", "spawn"} /\ build' = None
  /\ UNCHANGED <<disk, writes, rows, meta, child, builds>>

BuildStep ==
  \/ \E p \in Docs : Visit(p)
  \/ ReadText \/ SpawnHelper \/ Poll \/ Kill \/ Join \/ Commit

Next ==
  \/ \E p \in Docs : Write(p)
  \/ \E root \in {"folder", "other"} : Begin(root)
  \/ BuildStep \/ HelperExits \/ Stop

\* The build goes on and its clock runs; nothing is assumed of the helper.
Spec == Init /\ [][Next]_vars /\ WF_vars(BuildStep)

-----------------------------------------------------------------------------
(* Properties.                                                                *)

\* Type invariant of the index and of the running build.
TypeOK ==
  /\ \A p \in DOMAIN rows : rows[p].stamp \in 1 .. writes /\ rows[p].gen = meta.gen
  /\ DOMAIN rows \subseteq Docs
  /\ build # None => build.at \in {"walk", "read", "spawn", "poll", "drop", "join"}
  /\ child.at \in {"none", "running", "exited", "killed"}

\* A row whose size and time are those of the document has its text: the index
\* may be behind the disk, but the next build can tell, although the document
\* was written while it was read (the reuse test of build_document_index_inner).
StampVouches == \A p \in DOMAIN rows : rows[p].stamp = disk[p] => rows[p].text = disk[p]

\* Every build ends, also when the helper hangs: it is killed before its
\* output is waited for (run_bounded, OwnedChild).
BuildEnds == build # None ~> build = None

=============================================================================
