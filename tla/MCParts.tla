------------------------------- MODULE MCParts -------------------------------
(* Small instances of the components that are checked on their own: what the *)
(* scanners, indexes and stores report (Reports), what is moved to the trash *)
(* (Moves), and the jobs, calls and child processes that overlap (Calls).    *)
(* The parts have nothing in common and never run together: `part` says      *)
(* which one a behaviour is about, and they take turns at the variables s1,  *)
(* s2, ...  A configuration names the parts it is about.                     *)
EXTENDS Integers, Sequences, FiniteSets, TLC

CONSTANTS
  Parts,                       \* the parts of a run
  x1, x2, x3,                  \* files, paths, jobs, connections, calls, questions
  y1, y2, y3,                  \* names, files, contents and numbers
  none,
  Window, NoWork, q, NoRequest, c,
  r1, r2, noFolder, w1, NoArg, NoSnapshot  \* folders and a command of the window

Symmetry == Permutations({x1, x2}) \cup Permutations({y1, y2})

VARIABLES
  part, s1, s2, s3, s4, s5, s6, s7, s8, s9, s10, s11, s12, s13, s14, s15, s16,
  s17, s18, s19, s20, s21, s22

vars == <<part, s1, s2, s3, s4, s5, s6, s7, s8, s9, s10,
          s11, s12, s13, s14, s15, s16, s17, s18, s19, s20, s21, s22>>

-----------------------------------------------------------------------------
(* What the scanners, indexes and stores report.                            *)

\* DuplicateScan: the first and last blocks tell "c" apart, nothing else does.
OneSize == [k \in {"a", "b", "c"} |-> 1]
Samples == [k \in {"a", "b", "c"} |-> IF k = "c" THEN "y" ELSE "x"]
TwoSizes == [k \in {"a", "b"} |-> IF k = "a" THEN 1 ELSE 2]

\* DirectoryScan: e is in d, g in e.
Nested == [e \in {"d", "e", "f", "g"} |-> CASE e = "e" -> "d" [] e = "g" -> "e" [] OTHER -> "root"]

\* CleanupScan: z is alone in the second folder, x holds two files.
RootOf == [i \in {"x", "y", "z"} |-> IF i = "z" THEN "s" ELSE "r"]
Inner == [i \in {"x", "y", "z"} |-> IF i = "x" THEN {1, 2} ELSE {1}]

\* DriveScan: below the user's own folder, a known folder in it, another
\* user's, and a folder with a known name.
Home == <<"users", "me">>
Docs == <<"users", "me", "docs">>
FolderOf == ("a" :> Docs) @@ ("b" :> Home) @@ ("c" :> <<"users", "you">>) @@ ("d" :> <<"system">>)
Bytes == ("a" :> 2) @@ ("b" :> 1) @@ ("c" :> 1) @@ ("d" :> 1)
Extension == [f \in {"a", "b", "c", "d"} |-> IF f = "b" THEN "photos" ELSE "other"]

\* NameSearch: c is on a drive of its own.
DriveOf == [e \in {"a", "b", "c"} |-> IF e = "c" THEN "d2" ELSE "d1"]

\* McpRegistration: the app moves, and is updated.
Installs == {[place |-> "p1", version |-> 1], [place |-> "p1", version |-> 2],
             [place |-> "p2", version |-> 2]}

\* The file catalog: one change, of place or name, at any moment of two builds.
Renamed == INSTANCE FileCatalog WITH
  Files <- {x1, x2}, Names <- {y1, y2}, MaxEntries <- 2, MaxChanges <- 1,
  MaxBuilds <- 2, disk <- s1, log <- s2, lowest <- s3, rows <- s4, meta <- s5,
  build <- s6, builds <- s7

\* The same with two changes, so that one file takes the path of another.
Reused == INSTANCE FileCatalog WITH
  Files <- {x1, x2}, Names <- {y1}, MaxEntries <- 2, MaxChanges <- 2,
  MaxBuilds <- 2, disk <- s1, log <- s2, lowest <- s3, rows <- s4, meta <- s5,
  build <- s6, builds <- s7

\* Three paths and three files: hard links, copies, and a write during the scan.
Duplicates == INSTANCE DuplicateScan WITH
  Paths <- {x1, x2, x3}, Files <- {y1, y2, y3}, Contents <- {"a", "b", "c"},
  Size <- OneSize, Sample <- Samples, MaxIdentities <- 2, MaxCandidates <- 3,
  MaxGroups <- 1, MaxWrites <- 1, file <- s1, data <- s2, writes <- s3, phase <- s4,
  todo <- s5, seen <- s6, identities <- s7, counted <- s8, limited <- s9,
  job <- s10, key <- s11, groups <- s12

\* Two sets of copies where the report has room for one.
Crowded == INSTANCE DuplicateScan WITH
  Paths <- {x1, x2, x3, none}, Files <- {y1, y2, y3, q}, Contents <- {"a", "b"},
  Size <- TwoSizes, Sample <- TwoSizes, MaxIdentities <- 4, MaxCandidates <- 4,
  MaxGroups <- 1, MaxWrites <- 0, file <- s1, data <- s2, writes <- s3,
  phase <- s4, todo <- s5, seen <- s6, identities <- s7, counted <- s8,
  limited <- s9, job <- s10, key <- s11, groups <- s12

\* Every shape of four entries, each limit within reach.
Directory == INSTANCE DirectoryScan WITH
  Entries <- {"d", "e", "f", "g"}, Root <- "root", Parent <- Nested,
  Scopes <- {"folder", "volume"}, MaxOpen <- 3, MaxVisited <- 4,
  MaxTracked <- 2, MaxChildren <- 1, MaxEmpty <- 1, MaxErrors <- 1, is <- s1,
  scope <- s2, frames <- s3, visited <- s4, excluded <- s5, children <- s6,
  direct <- s7, empties <- s8, totals <- s9, unreadable <- s10, limit <- s11,
  partly <- s12, phase <- s13, report <- s14

\* Two known folders, three items.
Cleanup == INSTANCE CleanupScan WITH
  Roots <- {"r", "s"}, Items <- {"x", "y", "z"}, RootOf <- RootOf,
  Inner <- Inner, MaxCandidates <- 2, MaxPerRoot <- 1, MaxEntries <- 3,
  seen <- s1, roots <- s2, root <- s3, rest <- s4, candidates <- s5,
  processed <- s6, unreadable <- s7, issue <- s8, limit <- s9, phase <- s10

\* Four files that may be links of one another.
Drive == INSTANCE DriveScan WITH
  Files <- {"a", "b", "c", "d"}, FolderOf <- FolderOf, Bytes <- Bytes,
  Extension <- Extension,
  Known <- (Docs :> "documents") @@ (Home :> "applications"),
  First <- [n \in {"system"} |-> "system"],
  Anywhere <- [n \in {"trash"} |-> "recycleBin"], Developer <- {"git"},
  Home <- Home, Ids <- {1, 2, 3}, LocationDepth <- 2, MaxIds <- 2,
  MaxTracked <- 2, MaxLocations <- 1, identity <- s1, rest <- s2,
  counted <- s3, sums <- s4, locations <- s5, total <- s6, seen <- s7,
  skipped <- s8, idLimit <- s9, locationLimit <- s10, unreadable <- s11,
  shown <- s12, phase <- s13

\* Two drives, one of which may be replaced or be gone.
Names == INSTANCE NameSearch WITH
  Entries <- {"a", "b", "c"}, Drives <- {"d1", "d2"}, DriveOf <- DriveOf,
  Scopes <- {"folder", "drives"}, MaxVisited <- 2, MaxResults <- 2,
  MaxIds <- 2, form <- s1, root <- s2, last <- s3, scope <- s4, left <- s5,
  drive <- s6, seen <- s7, rest <- s8, found <- s9, visited <- s10,
  bad <- s11, cut <- s12, entries <- s13, total <- s14, unreadable <- s15,
  truncated <- s16, scanned <- s17, omitted <- s18, phase <- s19,
  walked <- s20

\* Two commands on the store of conversations, and a crash.
Sessions == INSTANCE AssistantSessions WITH
  Calls <- {x1, x2}, Ids <- {y1, y2}, Providers <- {"p"}, MaxSessions <- 1,
  MaxMessages <- 1, MaxWorkspaces <- 1, MaxCrashes <- 1, None <- none,
  exists <- s1, version <- s2, sessions <- s3, messages <- s4, writer <- s5,
  call <- s6, used <- s7, told <- s8, workspaces <- s9, crashes <- s10

\* Changes by others and restarts between any two steps.
Registration == INSTANCE McpRegistration WITH
  Installs <- Installs, MaxChanges <- 2, MaxRestarts <- 2, entry <- s1,
  main <- s2, backup <- s3, install <- s4, job <- s5, changes <- s6,
  restarts <- s7

\* Three changes on record, one by other means.
Settings == INSTANCE MacSettings WITH
  MaxHistory <- 3, MaxEdits <- 1, value <- s1, rows <- s2, job <- s3,
  edits <- s4

\* Four changes of the permissions over three starts.
Permissions == INSTANCE PermissionStore WITH
  Roots <- {"scan"}, Switches <- {"confirm", "full", "inspect"},
  MaxChanges <- 4, MaxStarts <- 3, up <- s1, held <- s2, file <- s3,
  job <- s4, warned <- s5, blind <- s6, present <- s7, changes <- s8,
  starts <- s9

\* One call of a program, or of the script of one, that exits, hangs or writes
\* too much.
Provider == INSTANCE ProviderCall WITH
  MaxOutput <- 2, MaxErrors <- 2, Providers <- {"own", "stream"},
  provider <- s1, at <- s2, cancellation <- s3, response <- s4, errors <- s5,
  child <- s6, success <- s7, program <- s8, text <- s9, answer <- s10

-----------------------------------------------------------------------------
(* What is moved to the trash.                                              *)

\* CleanupTreeSelection: a and b are in the root, c and d in a, e in c.
ParentOf == [n \in {"a", "b", "c", "d", "e"} |->
               CASE n \in {"a", "b"} -> "root" [] n \in {"c", "d"} -> "a" [] OTHER -> "c"]

\* FolderSnapshot: b and c are in the folder d.
InFolder == [e \in {"a", "b", "c", "d"} |-> IF e \in {"b", "c"} THEN "d" ELSE "top"]

\* Two jobs of the conversation, and a mode that is changed and changed back.
Chat == INSTANCE NativeFiles WITH
  Jobs <- {x1, x2}, Selections <- {"a", "b"}, NItems <- 1, MaxJobs <- 2,
  MaxChanges <- 2, mode <- s1, epoch <- s2, change <- s3, tokens <- s4,
  access <- s5, ws <- s6, slot <- s7, job <- s8, ids <- s9, started <- s10

\* Two commands on the cleanup tree, a new scan, a change of mode.
Tree == INSTANCE CleanupTree WITH
  Jobs <- {x1, x2}, NItems <- 1, MaxTrees <- 2, MaxSelects <- 1,
  MaxScans <- 1, MaxChanges <- 1, tree <- s1, made <- s2, report <- s3,
  cleared <- s4, slot <- s5, flag <- s6, registered <- s7, epoch <- s8,
  change <- s9, job <- s10

\* Two choices in a tree three levels deep.
Selection == INSTANCE CleanupTreeSelection WITH
  Entries <- {"a", "b", "c", "d", "e"}, Parent <- ParentOf, Root <- "root",
  MaxBranches <- 3, MaxTargets <- 2, MaxPicks <- 2, MaxBlocked <- 1,
  blocked <- s1, complete <- s2, branches <- s3, rules <- s4, chosen <- s5

\* A group of up to three files, and a change by another program.
Copies == INSTANCE DuplicateTrash WITH
  Paths <- {x1, x2, x3}, Contents <- {y1, y2}, NoKeeper <- none,
  MaxChanges <- 1, fs <- s1, changes <- s2, group <- s3, phase <- s4,
  keeper <- s5, todo <- s6, queue <- s7, step <- s8, held <- s9,
  snapshot <- s10, quiet <- s11, moved <- s12

\* A folder with a folder in it, and two changes by another program.
Folder == INSTANCE FolderSnapshot WITH
  Entries <- {"a", "b", "c", "d"}, Dirs <- {"d"}, Top <- "top",
  Parent <- InFolder, Protected <- {"b"},
  Kinds <- {"folder", "tree", "cleanup", "empty"}, MaxEntries <- 4,
  MaxChanges <- 2, fs <- s1, changes <- s2, kind <- s3, report <- s4,
  phase <- s5, stack <- s6, got <- s7, snapshot <- s8, quiet <- s9,
  moved <- s10

\* Two requests to empty the trash of the system, three plans.
Empty == INSTANCE EmptyTrash WITH
  Calls <- {x1, x2}, NoCall <- none, MaxPlans <- 3, slot <- s1, flag <- s2,
  plans <- s3, pending <- s4, unconfirmed <- s5, call <- s6, worker <- s7,
  atWork <- s8

\* Two applications, two plans, two changes by others.
Removal == INSTANCE ApplicationRemoval WITH
  Apps <- {"a", "b"}, Kinds <- {"cache"}, MaxLists <- 1, MaxPlans <- 2,
  MaxChanges <- 2, app <- s1, data <- s2, inventory <- s3, inner <- s4,
  work <- s5, needs <- s6, late <- s7, moved <- s8, lists <- s9, plans <- s10,
  changes <- s11

-----------------------------------------------------------------------------
(* Jobs, calls and child processes that overlap.                            *)

\* FileChangeReview: one folder, or two with both files in the first.
OneFolder == [f \in {"f"} |-> r1]
OnePath == [f \in {"f"} |-> 1]
ReviewedIn == "f" :> r1 @@ "g" :> r1
PathOrder == "f" :> 1 @@ "g" :> 2

\* Two jobs, a history of one, a caller that reads, cancels and resends.
Operations == INSTANCE ControlOperations WITH
  Ops <- {x1, x2}, Window <- Window, NoWork <- NoWork, Requests <- {q},
  NoRequest <- NoRequest, Callers <- {c}, MaxCompleted <- 1, holder <- s1,
  committing <- s2, stopped <- s3, shut <- s4, active <- s5, marked <- s6,
  history <- s7, authorities <- s8, requests <- s9, stage <- s10,
  owner <- s11, kind <- s12, request <- s13, outcome <- s14, pc <- s15,
  ref <- s16, answer <- s17, resent <- s18, evicted <- s19

\* Two scans of chats, one after the other, as the window sees them.
Feed == INSTANCE StatusFeed WITH
  Ops <- {x1, x2}, Scans <- {x1, x2}, NoOp <- "none", Commands <- {"k"},
  MaxProgress <- 0, MaxOwn <- 0, status <- s1, job <- s2, command <- s3,
  stored <- s4, made <- s5, channel <- s6, answers <- s7, window <- s8,
  listening <- s9, loads <- s10, own <- s11, owns <- s12, unheard <- s13,
  overtaken <- s14

\* A scan and a job the window does not show.
Mixed == INSTANCE StatusFeed WITH
  Ops <- {"scan", "index"}, Scans <- {"scan"}, NoOp <- "none",
  Commands <- {"k"}, MaxProgress <- 0, MaxOwn <- 0, status <- s1, job <- s2,
  command <- s3, stored <- s4, made <- s5, channel <- s6, answers <- s7,
  window <- s8, listening <- s9, loads <- s10, own <- s11, owns <- s12,
  unheard <- s13, overtaken <- s14

\* A scan that reports progress, and a scan of the window.
Own == INSTANCE StatusFeed WITH
  Ops <- {"scan"}, Scans <- {"scan"}, NoOp <- "none", Commands <- {"k"},
  MaxProgress <- 1, MaxOwn <- 1, status <- s1, job <- s2, command <- s3,
  stored <- s4, made <- s5, channel <- s6, answers <- s7, window <- s8,
  listening <- s9, loads <- s10, own <- s11, owns <- s12, unheard <- s13,
  overtaken <- s14

\* Two starts of the application, two connections of which one is too many.
Server == INSTANCE ControlServer WITH
  Processes <- {"p1", "p2"}, Conns <- {x1, x2}, MaxConnections <- 1,
  proc <- s1, lock <- s2, file <- s3, acceptor <- s4, active <- s5,
  streams <- s6, handles <- s7, conn <- s8

\* Two calls of a client while the window changes the permissions.
Workspace == INSTANCE ExternalFiles WITH
  Calls <- {x1, x2}, Roots <- {r1}, NItems <- 2, Dirs <- {2}, Inside <- {},
  PageSize <- 1, MaxChanges <- 3, grant <- s1, cleanup <- s2,
  scopeEpoch <- s3, cleanupEpoch <- s4, binding <- s5, operation <- s6,
  workspace <- s7, slot <- s8, call <- s9, task <- s10, confirm <- s11,
  ids <- s12, claims <- s13, dismissed <- s14

\* Two questions, two actions, two installations to probe, a change of mode.
Turn == INSTANCE AssistantTurn WITH
  Turns <- {x1, x2}, Actions <- {"a", "b"}, FileActions <- {"b"},
  MaxActions <- 2, Candidates <- 2, MaxChanges <- 1, running <- s1,
  flag <- s2, registered <- s3, epoch <- s4, change <- s5, hand <- s6,
  turn <- s7, child <- s8

\* Two documents, one read by the helper, written during two builds.
Documents == INSTANCE DocumentIndex WITH
  Docs <- {"d", "e"}, Structured <- {"e"}, MaxDocs <- 1, MaxWrites <- 3,
  MaxBuilds <- 2, disk <- s1, writes <- s2, rows <- s3, meta <- s4,
  build <- s5, child <- s6, builds <- s7

\* Two calls with one preview, and the end of the application.
Docker == INSTANCE DockerCleanup WITH
  Runs <- {x1, x2}, NSteps <- 2, MaxPreviews <- 1, MaxChanges <- 1,
  MaxSettings <- 1, enabled <- s1, saves <- s2, running <- s3, flag <- s4,
  closed <- s5, exit <- s6, preview <- s7, ids <- s8, plan <- s9,
  shown <- s10, epoch <- s11, change <- s12, registered <- s13, setter <- s14,
  maker <- s15, run <- s16, owner <- s17, child <- s18

\* Two commands that change the preferences of the review, and a restart.
Review == INSTANCE FileChangeReview WITH
  Roots <- {r1}, NoRoot <- noFolder, Intervals <- {5}, Files <- {"f"},
  RootOf <- OneFolder, PathOrder <- OnePath, NoSnapshot <- NoSnapshot,
  Windows <- {x1, x2}, NoArg <- NoArg, MaxEntries <- 1, MaxStamp <- 0,
  MaxRevision <- 3, MaxRestarts <- 1, config <- s1, revision <- s2,
  nextId <- s3, baseline <- s4, history <- s5, truncated <- s6,
  deadline <- s7, active <- s8, closed <- s9, stored <- s10, slot <- s11,
  cancelled <- s12, at <- s13, task <- s14, wake <- s15, connected <- s16,
  pc <- s17, arg <- s18, stamp <- s19, restarts <- s20, origin <- s21,
  offKept <- s22

\* Two changes in a folder under review, a history of one entry.
Edited == INSTANCE FileChangeReview WITH
  Roots <- {r1, r2}, NoRoot <- noFolder, Intervals <- {5},
  Files <- {"f", "g"}, RootOf <- ReviewedIn, PathOrder <- PathOrder,
  NoSnapshot <- NoSnapshot, Windows <- {w1}, NoArg <- NoArg, MaxEntries <- 1,
  MaxStamp <- 2, MaxRevision <- 2, MaxRestarts <- 0, config <- s1,
  revision <- s2, nextId <- s3, baseline <- s4, history <- s5,
  truncated <- s6, deadline <- s7, active <- s8, closed <- s9, stored <- s10,
  slot <- s11, cancelled <- s12, at <- s13, task <- s14, wake <- s15,
  connected <- s16, pc <- s17, arg <- s18, stamp <- s19, restarts <- s20,
  origin <- s21, offKept <- s22

\* The folder under review is changed to another and back.
Switched == INSTANCE FileChangeReview WITH
  Roots <- {r1, r2}, NoRoot <- noFolder, Intervals <- {5},
  Files <- {"f", "g"}, RootOf <- ReviewedIn, PathOrder <- PathOrder,
  NoSnapshot <- NoSnapshot, Windows <- {w1}, NoArg <- NoArg, MaxEntries <- 1,
  MaxStamp <- 1, MaxRevision <- 3, MaxRestarts <- 0, config <- s1,
  revision <- s2, nextId <- s3, baseline <- s4, history <- s5,
  truncated <- s6, deadline <- s7, active <- s8, closed <- s9, stored <- s10,
  slot <- s11, cancelled <- s12, at <- s13, task <- s14, wake <- s15,
  connected <- s16, pc <- s17, arg <- s18, stamp <- s19, restarts <- s20,
  origin <- s21, offKept <- s22

-----------------------------------------------------------------------------

\* The variables a smaller part does not use stay 0.
Unused20 == s21 = 0 /\ s22 = 0
Unused19 == s20 = 0 /\ Unused20
Unused18 == s19 = 0 /\ Unused19
Unused14 == s15 = 0 /\ s16 = 0 /\ s17 = 0 /\ s18 = 0 /\ Unused18
Unused13 == s14 = 0 /\ Unused14
Unused12 == s13 = 0 /\ Unused13
Unused11 == s12 = 0 /\ Unused12
Unused10 == s11 = 0 /\ Unused11
Unused9 == s10 = 0 /\ Unused10
Unused8 == s9 = 0 /\ Unused9
Unused7 == s8 = 0 /\ Unused8
Unused5 == s6 = 0 /\ s7 = 0 /\ Unused7
Unused4 == s5 = 0 /\ Unused5
rest20 == <<s21, s22>>
rest19 == <<s20, rest20>>
rest18 == <<s19, rest19>>
rest14 == <<s15, s16, s17, s18, rest18>>
rest13 == <<s14, rest14>>
rest12 == <<s13, rest13>>
rest11 == <<s12, rest12>>
rest10 == <<s11, rest11>>
rest9 == <<s10, rest10>>
rest8 == <<s9, rest9>>
rest7 == <<s8, rest8>>
rest5 == <<s6, s7, rest7>>
rest4 == <<s5, rest5>>

Init ==
  /\ part \in Parts
  /\ \/ part = "renamed" /\ Renamed!Init /\ Unused7
     \/ part = "reused" /\ Reused!Init /\ Unused7
     \/ part = "duplicates" /\ Duplicates!Init /\ Unused12
     \/ part = "crowded" /\ Crowded!Init /\ Unused12
     \/ part = "directory" /\ Directory!Init /\ Unused14
     \/ part = "cleanup" /\ Cleanup!Init /\ Unused10
     \/ part = "drive" /\ Drive!Init /\ Unused13
     \/ part = "names" /\ Names!Init /\ Unused20
     \/ part = "sessions" /\ Sessions!Init /\ Unused10
     \/ part = "registration" /\ Registration!Init /\ Unused7
     \/ part = "settings" /\ Settings!Init /\ Unused4
     \/ part = "permissions" /\ Permissions!Init /\ Unused9
     \/ part = "provider" /\ Provider!Init /\ Unused10
     \/ part = "chat" /\ Chat!Init /\ Unused10
     \/ part = "tree" /\ Tree!Init /\ Unused10
     \/ part = "selection" /\ Selection!Init /\ Unused5
     \/ part = "copies" /\ Copies!Init /\ Unused12
     \/ part = "folder" /\ Folder!Init /\ Unused10
     \/ part = "empty" /\ Empty!Init /\ Unused8
     \/ part = "removal" /\ Removal!Init /\ Unused11
     \/ part = "operations" /\ Operations!Init /\ Unused19
     \/ part = "feed" /\ Feed!Init /\ Unused14
     \/ part = "mixed" /\ Mixed!Init /\ Unused14
     \/ part = "own" /\ Own!Init /\ Unused14
     \/ part = "server" /\ Server!Init /\ Unused8
     \/ part = "workspace" /\ Workspace!Init /\ Unused14
     \/ part = "turn" /\ Turn!Init /\ Unused8
     \/ part = "documents" /\ Documents!Init /\ Unused7
     \/ part = "docker" /\ Docker!Init /\ Unused18
     \/ part = "review" /\ Review!Init
     \/ part = "edited" /\ Edited!Init
     \/ part = "switched" /\ Switched!Init

Next ==
  \/ part = "renamed" /\ Renamed!Next /\ UNCHANGED <<part, rest7>>
  \/ part = "reused" /\ Reused!Next /\ UNCHANGED <<part, rest7>>
  \/ part = "duplicates" /\ Duplicates!Next /\ UNCHANGED <<part, rest12>>
  \/ part = "crowded" /\ Crowded!Next /\ UNCHANGED <<part, rest12>>
  \/ part = "directory" /\ Directory!Next /\ UNCHANGED <<part, rest14>>
  \/ part = "cleanup" /\ Cleanup!Next /\ UNCHANGED <<part, rest10>>
  \/ part = "drive" /\ Drive!Next /\ UNCHANGED <<part, rest13>>
  \/ part = "names" /\ Names!Next /\ UNCHANGED <<part, rest20>>
  \/ part = "sessions" /\ Sessions!Next /\ UNCHANGED <<part, rest10>>
  \/ part = "registration" /\ Registration!Next /\ UNCHANGED <<part, rest7>>
  \/ part = "settings" /\ Settings!Next /\ UNCHANGED <<part, rest4>>
  \/ part = "permissions" /\ Permissions!Next /\ UNCHANGED <<part, rest9>>
  \/ part = "provider" /\ Provider!Next /\ UNCHANGED <<part, rest10>>
  \/ part = "chat" /\ Chat!Next /\ UNCHANGED <<part, rest10>>
  \/ part = "tree" /\ Tree!Next /\ UNCHANGED <<part, rest10>>
  \/ part = "selection" /\ Selection!Next /\ UNCHANGED <<part, rest5>>
  \/ part = "copies" /\ Copies!Next /\ UNCHANGED <<part, rest12>>
  \/ part = "folder" /\ Folder!Next /\ UNCHANGED <<part, rest10>>
  \/ part = "empty" /\ Empty!Next /\ UNCHANGED <<part, rest8>>
  \/ part = "removal" /\ Removal!Next /\ UNCHANGED <<part, rest11>>
  \/ part = "operations" /\ Operations!Next /\ UNCHANGED <<part, rest19>>
  \/ part = "feed" /\ Feed!Next /\ UNCHANGED <<part, rest14>>
  \/ part = "mixed" /\ Mixed!Next /\ UNCHANGED <<part, rest14>>
  \/ part = "own" /\ Own!Next /\ UNCHANGED <<part, rest14>>
  \/ part = "server" /\ Server!Next /\ UNCHANGED <<part, rest8>>
  \/ part = "workspace" /\ Workspace!Next /\ UNCHANGED <<part, rest14>>
  \/ part = "turn" /\ Turn!Next /\ UNCHANGED <<part, rest8>>
  \/ part = "documents" /\ Documents!Next /\ UNCHANGED <<part, rest7>>
  \/ part = "docker" /\ Docker!Next /\ UNCHANGED <<part, rest18>>
  \/ part = "review" /\ Review!Next /\ UNCHANGED part
  \/ part = "edited" /\ Edited!Next /\ UNCHANGED part
  \/ part = "switched" /\ Switched!Next /\ UNCHANGED part

Spec == Init /\ [][Next]_vars

ASSUME Assumptions ==
  /\ Renamed!CatalogAssumption /\ Reused!CatalogAssumption
  /\ Duplicates!ScanAssumption /\ Crowded!ScanAssumption /\ Directory!DirectoryAssumption
  /\ Cleanup!CleanupAssumption /\ Drive!DriveAssumption /\ Names!SearchAssumption
  /\ Sessions!SessionsAssumption /\ Registration!McpAssumption
  /\ Settings!MacAssumption /\ Permissions!PermissionAssumption /\ Provider!CallAssumption
  /\ Chat!NativeAssumption /\ Tree!LifeAssumption /\ Selection!TreeAssumption
  /\ Copies!TrashAssumption /\ Folder!FolderAssumption /\ Empty!EmptyAssumption
  /\ Removal!RemovalAssumption
  /\ Operations!OperationAssumption /\ Feed!FeedAssumption /\ Mixed!FeedAssumption
  /\ Own!FeedAssumption /\ Server!ServerAssumption /\ Workspace!ItemsAssumption
  /\ Turn!TurnAssumption /\ Documents!IndexAssumption /\ Docker!DockerAssumption
  /\ Review!FolderAssumption /\ Edited!FolderAssumption /\ Switched!FolderAssumption
  /\ Review!ReviewBounds /\ Edited!ReviewBounds /\ Switched!ReviewBounds

-----------------------------------------------------------------------------
(* Properties: what the scanners, indexes and stores report.                *)

\* A stored checkpoint of the catalog vouches for the rows that the change
\* journal does not name after it, whatever changed during the listing, and a
\* path that stays listed is never announced as newly found (FileCatalog:
\* CheckpointVouches, FirstSeenStays).
CatalogVouches ==
  /\ [](/\ part = "renamed" => Renamed!TypeOK /\ Renamed!CheckpointVouches
        /\ part = "reused" => Reused!TypeOK /\ Reused!CheckpointVouches)
  /\ [][/\ part = "renamed" => Renamed!FirstSeenKept
        /\ part = "reused" => Reused!FirstSeenKept]_vars

\* The groups of a duplicate scan are the equal files, none more; a scan that
\* names no limit has them all, or the largest it has room for (DuplicateScan).
DuplicatesAreExact ==
  /\ part = "duplicates" =>
       Duplicates!TypeOK /\ Duplicates!GroupsAreDuplicates /\ Duplicates!LargestAreFound
  /\ part = "crowded" => Crowded!TypeOK /\ Crowded!GroupsAreDuplicates /\ Crowded!LargestAreFound

\* What the walks report adds up to what is there, or they say that they are
\* partial (DirectoryScan, DriveScan, NameSearch), and a candidate for cleanup
\* has been idle (CleanupScan).
ReportsAddUp ==
  /\ part = "directory" => Directory!TypeOK /\ Directory!MapIsExact
  /\ part = "cleanup" => Cleanup!TypeOK /\ Cleanup!CandidatesAreIdle
  /\ part = "drive" => Drive!TypeOK /\ Drive!DriveAddsUp
  /\ part = "names" => Names!TypeOK /\ Names!CompleteIsWhole

\* The stored conversations keep their limits and refer to one another
\* (AssistantSessions: SessionsStayWhole), and an answer in them is the whole
\* answer of a program that has ended (ProviderCall: CallIsClosed).
ConversationsStayWhole ==
  /\ part = "sessions" => Sessions!TypeOK /\ Sessions!SessionsStayWhole
  /\ part = "provider" => Provider!TypeOK /\ Provider!CallIsClosed

\* A changed setting can be changed back; a registration says truly how it
\* ended, its record never goes back to an older one, and an entry that the
\* application did not write stays; a permission that was withdrawn does not
\* come back (MacSettings, McpRegistration, PermissionStore).
SettingsCanBeUndone ==
  /\ [](/\ part = "settings" =>
             Settings!TypeOK /\ Settings!NeverStranded /\ Settings!OriginalComesBack
        /\ part = "registration" => Registration!TypeOK /\ Registration!AnswerIsTrue
        /\ part = "permissions" =>
             Permissions!TypeOK /\ Permissions!WithdrawnStaysWithdrawn)
  /\ [][part = "registration" =>
          Registration!RecordOfJob /\ Registration!OtherEntryKept]_vars

-----------------------------------------------------------------------------
(* Properties: what is moved to the trash.                                  *)

\* A list or a drive bound to an earlier permission is not left behind, no
\* item is moved for a conversation whose permission was withdrawn, and a move
\* the model starts on its own is claimed under full access (NativeFiles).
ChatMovesUnderPermission ==
  /\ [](part = "chat" => Chat!TypeOK /\ Chat!BoundListIsCurrent)
  /\ [][part = "chat" => Chat!ItemUnderPermission /\ Chat!ClaimUnderFullAccess]_vars

\* The plan of a cleanup tree is the one of its present selection, the tree is
\* of a report from before no move, and a plan of a withdrawn permission moves
\* nothing (CleanupTree).
TreeMovesItsSelection ==
  /\ [](part = "tree" => Tree!TypeOK /\ Tree!PlanIsOfSelection /\ Tree!TreeIsOfLiveReport)
  /\ [][part = "tree" => Tree!EntryUnderPermission]_vars

\* The rules kept for a tree mean what the last choice above each entry was,
\* and the targets are the chosen entries (CleanupTreeSelection).
RulesMeanLastChoice ==
  part = "selection" =>
    Selection!TypeOK /\ Selection!RulesMeanLastChoice /\ Selection!TargetsAreChosen

\* A folder or an application is moved as it was reviewed, with nothing new in
\* it, and a duplicate only while a copy of it is there (FolderSnapshot:
\* ReviewedFolderMoves, ApplicationRemoval: RemovalIsAsReviewed,
\* DuplicateTrash: MovedFileHasACopy).
MovesAreAsReviewed ==
  /\ part = "folder" => Folder!TypeOK /\ Folder!ReviewedFolderMoves
  /\ part = "removal" => Removal!TypeOK /\ Removal!RemovalIsAsReviewed
  /\ part = "copies" => Copies!TypeOK /\ Copies!MovedFileHasACopy

\* The system's trash is emptied by one request at a time, each with a plan of
\* its own, and by none after an outcome that is not confirmed (EmptyTrash:
\* OneRequestAtWork).
OneRequestAtWork == part = "empty" => Empty!TypeOK /\ Empty!OneRequestAtWork

-----------------------------------------------------------------------------
(* Properties: jobs, calls and child processes that overlap.                *)

\* A job is found by its id until it is evicted, has an owner as long as it is
\* found, holds the slot as long as it is active, and does not complete once
\* its cancellation was shown (ControlOperations); the window does not go on
\* showing a scan that has ended, and its report reaches the window, unless a
\* status that names another job as the last came first, while the end was
\* still on its way or had been sent before anyone listened (StatusFeed:
\* WindowSeesTheEnd, ResultReachesTheWindow).
JobsAreAccountedFor ==
  /\ part = "operations" =>
       /\ Operations!TypeOK /\ Operations!LookupNeverMisses /\ Operations!VisibleHasOwner
       /\ Operations!ActiveHoldsSlot /\ Operations!MarkedScanNeverCompletes
  /\ part = "feed" =>
       Feed!TypeOK /\ Feed!WindowSeesTheEnd /\ Feed!ResultReachesTheWindow
  /\ part = "mixed" =>
       Mixed!TypeOK /\ Mixed!WindowSeesTheEnd /\ Mixed!ResultReachesTheWindow
  /\ part = "own" => Own!TypeOK /\ Own!WindowSeesTheEnd /\ Own!ResultReachesTheWindow

\* The descriptor that clients read names the server that runs, no more
\* connections are served than its limit, and none after its threads were
\* joined (ControlServer).
ServedWithinLimits ==
  part = "server" =>
    /\ Server!TypeOK /\ Server!DescriptorNamesServer
    /\ Server!ServingWithinLimit /\ Server!NobodyServedAfterJoin

\* The plan the window can confirm is the one of the present folder, made under
\* the permission in force, and it ends once (ExternalFiles).
WorkspacePlanIsCurrent ==
  part = "workspace" =>
    Workspace!TypeOK /\ Workspace!PlanIsCurrent /\ Workspace!PlanEndsOnce

\* A question that was stopped says nothing, an action follows completed ones
\* only, and no process is left when it is over (AssistantTurn).
TurnIsClosed ==
  part = "turn" =>
    /\ Turn!TypeOK /\ Turn!StoppedTurnSaysNothing
    /\ Turn!ActionsFollowCompletedOnes /\ Turn!NoProcessIsLeft

\* The text of a document is that of the stamp it is stored with, although the
\* document is written while it is read (DocumentIndex: StampVouches).
StampVouches == part = "documents" => Documents!TypeOK /\ Documents!StampVouches

\* A Docker cleanup runs what one preview showed, once, under the mode it was
\* made in, and nothing of it is left when the application has ended
\* (DockerCleanup).
DockerRunsWhatWasShown ==
  /\ [](part = "docker" =>
          Docker!TypeOK /\ Docker!NothingRunsAfterExit /\ Docker!PreviewIsSpentOnce)
  /\ [][part = "docker" => Docker!StartInItsMode]_vars

\* The history is about the folder under review, it accounts for every change
\* up to the snapshot that is kept, and a decision is kept for the entry that
\* was shown (FileChangeReview: HistoryOfThisFolder, HistoryExplainsBaseline,
\* DecisionIsAboutWhatWasShown).
HistoryExplainsBaseline ==
  /\ part = "edited" =>
       /\ Edited!TypeOK /\ Edited!HistoryOfThisFolder
       /\ Edited!HistoryExplainsBaseline /\ Edited!DecisionIsAboutWhatWasShown
  /\ part = "switched" =>
       /\ Switched!TypeOK /\ Switched!HistoryOfThisFolder
       /\ Switched!HistoryExplainsBaseline /\ Switched!DecisionIsAboutWhatWasShown

\* A review that was switched off stays off, whatever other command is in
\* flight and across restarts (FileChangeReview: OffStaysOff).
OffStaysOff == part = "review" => Review!TypeOK /\ Review!OffStaysOff
==============================================================================
