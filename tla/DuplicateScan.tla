--------------------------- MODULE DuplicateScan ---------------------------
(***************************************************************************)
(* The storage scan of the core (scan_path in bloomsweepy-core/src/lib.rs):*)
(* it walks a folder, counts every file once whatever links lead to it,    *)
(* and looks for duplicates by size, by a sample of the content, by a hash *)
(* of it, and byte by byte, while other programs write the files.  The     *)
(* workers that hash do not meet, so one of them reads at a time.          *)
(***************************************************************************)
EXTENDS Integers, FiniteSets, TLC

CONSTANTS
  Paths, Files,   \* paths below the scanned folder, and the files they lead to
  Contents,       \* what a file may hold
  Size, Sample,   \* the length of a content, and its first and last blocks
  MaxIdentities,  \* MAX_TRACKED_HARD_LINK_IDENTITIES
  MaxCandidates,  \* max_duplicate_candidates
  MaxGroups,      \* max_duplicate_groups
  MaxWrites       \* bound: writes by others

ScanAssumption ==
  /\ Size \in [Contents -> Nat] /\ DOMAIN Sample = Contents
  /\ {MaxIdentities, MaxCandidates, MaxGroups, MaxWrites} \subseteq Nat

VARIABLES
  file, data, writes,   \* the files of the paths, what they hold, and the writes so far
  phase, todo,          \* ScanPhase, and the paths it has still to take
  seen,                 \* the candidates, as they were when found
  identities, counted,  \* seen_files; the paths the totals stand for
  limited,              \* what the report says it left out
  job, key,             \* the path that is read, and what was read of each
  groups                \* the partitions of equal files

world == <<file, data, writes>>
found == <<seen, identities, counted, limited>>
vars == <<world, phase, todo, found, job, key, groups>>

NoJob == [step |-> "none"]
Phases == {"walk", "sample", "hash", "compare", "done", "stopped"}

\* paths of one file are hard links
Init ==
  /\ file \in [Paths -> Files]
  /\ data \in [Files -> [content : Contents, stamp : {0}]]
  /\ writes = 0 /\ phase = "walk" /\ todo = Paths
  /\ seen = [p \in {} |-> 0] /\ identities = {} /\ counted = {} /\ limited = {}
  /\ job = NoJob /\ key = [p \in {} |-> 0] /\ groups = {}

With(f, p, v) == [q \in DOMAIN f \cup {p} |-> IF q = p THEN v ELSE f[q]]
Now(p) == data[file[p]]

(***************************************************************************)
(* Discovering.                                                            *)
(***************************************************************************)
CountOnce(p) == file[p] \notin identities

\* a report that does not say what it left out
CandidateQuietly(p, safe) ==
  /\ seen' = IF safe /\ Cardinality(DOMAIN seen) < MaxCandidates THEN With(seen, p, [file |-> file[p]] @@ Now(p)) ELSE seen
  /\ UNCHANGED limited

Candidate(p, safe) ==
  IF ~safe THEN limited' = limited \cup {"identities"} /\ UNCHANGED seen
  ELSE IF Cardinality(DOMAIN seen) < MaxCandidates
       THEN seen' = With(seen, p, [file |-> file[p]] @@ Now(p)) /\ UNCHANGED limited
       ELSE limited' = limited \cup {"candidates"} /\ UNCHANGED seen

Visit(p) ==
  /\ phase = "walk" /\ p \in todo /\ todo' = todo \ {p}
  /\ IF CountOnce(p)
     THEN LET safe == Cardinality(identities) < MaxIdentities IN
            /\ counted' = counted \cup {p}
            /\ identities' = IF safe THEN identities \cup {file[p]} ELSE identities
            /\ Candidate(p, safe)
     ELSE UNCHANGED found
  /\ UNCHANGED <<world, phase, job, key, groups>>

Unreadable(p) ==
  /\ phase = "walk" /\ p \in todo /\ todo' = todo \ {p}
  /\ limited' = limited \cup {"unreadable"}
  /\ UNCHANGED <<world, phase, seen, identities, counted, job, key, groups>>

(***************************************************************************)
(* The next phase takes the candidates that are still like another one.    *)
(***************************************************************************)
Like(ps, f(_)) == {p \in ps : \E q \in ps \ {p} : f(p) = f(q)}
Sampled(p) == <<Size[key[p]], Sample[key[p]]>>
Hashed(p) == key[p]

Waste(g) == Size[seen[g.first].content] * (Cardinality(g.files) - 1)
\* cut before the groups are sorted
AnyOnes(gs) ==
  {best \in SUBSET gs : Cardinality(best) = IF Cardinality(gs) < MaxGroups THEN Cardinality(gs) ELSE MaxGroups}
\* The groups of two files and more, sorted by the bytes the copies take and cut
\* to their limit; the report does not say that it was cut.
FirstOnes(gs) ==
  {best \in SUBSET gs : /\ Cardinality(best) = IF Cardinality(gs) < MaxGroups THEN Cardinality(gs) ELSE MaxGroups
                        /\ \A g \in best, h \in gs \ best : Waste(g) >= Waste(h)}
Report == groups' \in FirstOnes({g \in groups : Cardinality(g.files) > 1})

NextPhase ==
  /\ todo = {} /\ job = NoJob
  /\ CASE phase = "walk" -> /\ phase' = "sample"
                            /\ todo' = LET Of(p) == Size[seen[p].content] IN Like(DOMAIN seen, Of)
       [] phase = "sample" -> phase' = "hash" /\ todo' = Like(DOMAIN key, Sampled)
       [] phase = "hash" -> phase' = "compare" /\ todo' = Like(DOMAIN key, Hashed)
       [] phase = "compare" -> phase' = "done" /\ todo' = {}
       [] OTHER -> FALSE
  /\ key' = IF phase \in {"walk", "sample"} THEN [p \in {} |-> 0] ELSE key
  /\ IF phase = "compare" THEN Report ELSE UNCHANGED groups
  /\ UNCHANGED <<world, found, job>>

(***************************************************************************)
(* quick_signature_candidate and full_hash_candidate: the metadata is the  *)
(* one of the walk before the content is read and after it.                *)
(***************************************************************************)
SameSize(p) == Size[Now(p).content] = Size[seen[p].content]
Unchanged(p) == Now(p).stamp = seen[p].stamp /\ Size[Now(p).content] = Size[seen[p].content]

\* the file is left out, with an issue in the report
Drop(p) == todo' = todo \ {p} /\ job' = NoJob /\ limited' = limited \cup {"changed"} /\ UNCHANGED <<key, groups>>

Open(p) ==
  /\ phase \in {"sample", "hash"} /\ job = NoJob /\ p \in todo
  /\ IF Unchanged(p) THEN job' = [step |-> "read", path |-> p] /\ UNCHANGED <<todo, limited, key, groups>>
                     ELSE Drop(p)
  /\ UNCHANGED <<world, phase, seen, identities, counted>>

Read ==
  /\ job.step = "read"
  /\ job' = [step |-> "check", path |-> job.path, value |-> Now(job.path).content]
  /\ UNCHANGED <<world, phase, todo, found, key, groups>>

Check ==
  /\ job.step = "check"
  /\ IF Unchanged(job.path)
     THEN /\ key' = With(key, job.path, job.value)
          /\ todo' = todo \ {job.path} /\ job' = NoJob /\ UNCHANGED <<limited, groups>>
     ELSE Drop(job.path)
  /\ UNCHANGED <<world, phase, seen, identities, counted>>

(***************************************************************************)
(* partition_exact_matches and files_equal: a candidate is compared to the *)
(* first file of every group, and both must be unchanged.                  *)
(***************************************************************************)
Rest(p, tried) == {g \in groups \ tried : key[g.first] = key[p]}

Take(p) ==
  /\ phase = "compare" /\ job = NoJob /\ p \in todo
  /\ job' = [step |-> "pick", path |-> p, tried |-> {}]
  /\ UNCHANGED <<world, phase, todo, found, key, groups>>

Alone ==
  /\ job.step = "pick" /\ Rest(job.path, job.tried) = {}
  /\ groups' = groups \cup {[first |-> job.path, files |-> {job.path}]}
  /\ todo' = todo \ {job.path} /\ job' = NoJob
  /\ UNCHANGED <<world, phase, found, key>>

Pair ==
  /\ job.step = "pick"
  /\ \E g \in Rest(job.path, job.tried) :
       IF Unchanged(g.first) /\ Unchanged(job.path)
       THEN /\ job' = [step |-> "left", path |-> job.path, tried |-> job.tried, group |-> g]
            /\ UNCHANGED <<todo, limited, key, groups>>
       ELSE Drop(job.path)
  /\ UNCHANGED <<world, phase, seen, identities, counted>>

Left ==
  /\ job.step = "left"
  /\ job' = [job EXCEPT !.step = "right"] @@ [value |-> Now(job.group.first).content]
  /\ UNCHANGED <<world, phase, todo, found, key, groups>>

Join(g, p) == groups' = (groups \ {g}) \cup {[g EXCEPT !.files = @ \cup {p}]}

Right ==
  /\ job.step = "right"
  /\ job' = IF Now(job.path).content = job.value
            THEN [job EXCEPT !.step = "equal"]
            ELSE [step |-> "pick", path |-> job.path, tried |-> job.tried \cup {job.group}]
  /\ UNCHANGED <<world, phase, todo, found, key, groups>>

Equal ==
  /\ job.step = "equal"
  /\ IF Unchanged(job.group.first) /\ Unchanged(job.path)
     THEN /\ Join(job.group, job.path)
          /\ todo' = todo \ {job.path} /\ job' = NoJob /\ UNCHANGED <<limited, key>>
     ELSE Drop(job.path)
  /\ UNCHANGED <<world, phase, seen, identities, counted>>

(***************************************************************************)
(* Other programs write, and the user cancels or memory runs short.        *)
(***************************************************************************)
Write ==
  /\ writes < MaxWrites /\ writes' = writes + 1
  /\ \E f \in Files, c \in Contents : data' = [data EXCEPT ![f] = [content |-> c, stamp |-> @.stamp + 1]]
  /\ UNCHANGED <<file, phase, todo, found, job, key, groups>>

Stop ==
  /\ phase \notin {"done", "stopped"} /\ phase' = "stopped"
  /\ todo' = {} /\ job' = NoJob /\ groups' = {}
  /\ UNCHANGED <<world, found, key>>

Next ==
  \/ \E p \in Paths : Visit(p) \/ Unreadable(p) \/ Open(p) \/ Take(p)
  \/ NextPhase
  \/ Read \/ Check
  \/ Alone \/ Pair \/ Left \/ Right \/ Equal
  \/ Write \/ Stop

Spec == Init /\ [][Next]_vars

\* duplicate_groups of the report
Duplicates == {g.files : g \in groups}

TypeOK ==
  /\ phase \in Phases /\ todo \subseteq Paths
  /\ DOMAIN seen \subseteq counted /\ counted \subseteq Paths
  /\ \A g \in groups : g.files \subseteq DOMAIN seen

(***************************************************************************)
(* The files of a group are different files, not links to one, and all     *)
(* held the same bytes when the walk found them, whatever was written      *)
(* since: a user who keeps one of them loses nothing by moving the others  *)
(* that are still unchanged (bloomsweepy-core/src/lib.rs:300-336, 634-805).*)
(***************************************************************************)
GroupsAreDuplicates ==
  \A g \in groups : \A p, q \in g.files :
    /\ p # q => seen[p].file # seen[q].file
    /\ seen[p].content = seen[q].content

(***************************************************************************)
(* A scan nothing disturbed and that reports no limit counts every file    *)
(* once and reports whole sets of copies: all of them, or as many as its   *)
(* limit and none that takes less than one it leaves out.  A report with   *)
(* as many groups as its limit may have dropped others without a word      *)
(* (bloomsweepy-core/src/lib.rs:270-617).                                  *)
(***************************************************************************)
LargestAreFound ==
  phase = "done" /\ writes = 0 /\ limited = {} =>
    LET equal == {{q \in counted : Now(q).content = Now(p).content} : p \in counted}
        copies == {g \in equal : Cardinality(g) > 1}
        Wasted(g) == (Cardinality(g) - 1) * Size[Now(CHOOSE p \in g : TRUE).content]
    IN /\ \A f \in {file[p] : p \in Paths} : Cardinality({p \in counted : file[p] = f}) = 1
       /\ Duplicates = copies \/ (Duplicates \subseteq copies /\ Cardinality(Duplicates) = MaxGroups)
       /\ \A g \in Duplicates, h \in copies \ Duplicates : Wasted(g) >= Wasted(h)
=============================================================================
