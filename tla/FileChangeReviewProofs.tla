----------------------- MODULE FileChangeReviewProofs -----------------------
(***************************************************************************)
(* Proofs about FileChangeReview, for any folders, files and commands of   *)
(* the window, and any bounds.                                             *)
(***************************************************************************)
EXTENDS FileChangeReview, FiniteSetTheorems, TLAPS

-----------------------------------------------------------------------------
(* Preferences: OFF stays OFF.                                               *)

Typed ==
  /\ stored \in AllConfigs
  /\ pc \in [Windows -> Writing \cup {"idle", "wake", "decide"}]
  /\ arg = [w \in Windows |-> arg[w]]

\* One command at a time is between taking and leaving config_write.
OneWriter == \A w, v \in Windows : pc[w] \in Writing /\ pc[v] \in Writing => w = v

\* A command that writes carries preferences; one that is about to save OFF has
\* put it into effect.
WriterCarries ==
  \A w \in Windows : pc[w] \in Writing =>
    /\ arg[w] \in AllConfigs
    /\ pc[w] = "saveOff" => ~arg[w].enabled /\ ~config.enabled

\* As long as a saved OFF is the last choice, no command under way carries ON.
OffEverywhere ==
  offKept =>
    /\ ~config.enabled /\ ~stored.enabled
    /\ \A w \in Windows : pc[w] \in Writing => ~arg[w].enabled

OffInv == Typed /\ OneWriter /\ WriterCarries /\ OffEverywhere

\* The initial state satisfies the invariant.
LEMMA OffInit == Init => OffInv
BY DEF Init, OffInv, Typed, OneWriter, WriterCarries, OffEverywhere, Writing,
   AllConfigs, DefaultConfig

\* Steps of the worker, of the shutdown and of the computer leave the
\* preferences and the commands that write them alone.
LEMMA OffQuiet ==
  ASSUME OffInv, UNCHANGED <<config, stored, calls, offKept>>
  PROVE  OffInv'
BY DEF OffInv, Typed, OneWriter, WriterCarries, OffEverywhere, calls

\* Every step keeps the invariant.
LEMMA OffStep == OffInv /\ [Next]_vars => OffInv'
<1> SUFFICES ASSUME OffInv, [Next]_vars PROVE OffInv'
  OBVIOUS
<1> USE DEF OffInv
<1>1. CASE RunWorker
  BY <1>1, OffQuiet
  DEF RunWorker, LoopTop, Receive, Disconnected, TimedOut, SkipCheck, BeginCheck, RefuseCheck,
      Capture, StoreSnapshot, StoreFailure, DropResult, ReleaseCheck, review
<1>2. ASSUME NEW w \in Windows, NEW c \in AllConfigs, BeginUpdate(w, c) PROVE OffInv'
  BY <1>2 DEF BeginUpdate, ConfigWriteFree, review, Typed, OneWriter, WriterCarries,
     OffEverywhere, Writing
<1>3. ASSUME NEW w \in Windows, EndUpdate(w) \/ WakeWorker(w) PROVE OffInv'
  BY <1>3 DEF EndUpdate, WakeWorker, Return, review, Typed, OneWriter, WriterCarries,
     OffEverywhere, Writing
<1>4. ASSUME NEW w \in Windows, ApplyOff(w) \/ ApplyOn(w) PROVE OffInv'
  <2>1. config' = arg[w] /\ UNCHANGED <<stored, arg, offKept>>
    BY <1>4 DEF ApplyOff, ApplyOn, ChangeConfig, Goto
  <2>2. pc[w] \in Writing /\ pc' \in {[pc EXCEPT ![w] = "saveOff"], [pc EXCEPT ![w] = "wakeLocked"]}
    BY <1>4 DEF ApplyOff, ApplyOn, Goto, Writing
  <2>3. pc'[w] = "saveOff" => ~arg[w].enabled
    BY <1>4 DEF ApplyOff, ApplyOn, Goto, Typed
  <2> QED
    BY <2>1, <2>2, <2>3 DEF Typed, OneWriter, WriterCarries, OffEverywhere, Writing
<1>5. ASSUME NEW w \in Windows, SaveOff(w) PROVE OffInv'
  BY <1>5 DEF SaveOff, Goto, review, Typed, OneWriter, WriterCarries, OffEverywhere, Writing
<1>6. ASSUME NEW w \in Windows, CheckOn(w) PROVE OffInv'
  BY <1>6 DEF CheckOn, Goto, review, Typed, OneWriter, WriterCarries, OffEverywhere, Writing
<1>7. ASSUME NEW w \in Windows, SaveOn(w) PROVE OffInv'
  BY <1>7 DEF SaveOn, Goto, Return, review, Typed, OneWriter, WriterCarries, OffEverywhere, Writing
<1>8. ASSUME NEW w \in Windows,
             RequestCheck(w) \/ SetDisposition(w) \/ (\E e \in history : ShowEntry(w, e))
      PROVE  OffInv'
  <2>1. /\ UNCHANGED <<config, stored, offKept>> /\ pc[w] \notin Writing
        /\ \E next \in {"idle", "wake", "decide"} : pc' = [pc EXCEPT ![w] = next]
        /\ \E x : arg' = [arg EXCEPT ![w] = x]
    <3>1. CASE RequestCheck(w)
      <4>1. arg' = [arg EXCEPT ![w] = arg[w]]
        BY <3>1 DEF RequestCheck, Goto, Typed
      <4> QED
        BY <3>1, <4>1 DEF RequestCheck, Goto, Writing
    <3>2. CASE SetDisposition(w)
      BY <3>2 DEF SetDisposition, Return, Writing
    <3>3. CASE \E e \in history : ShowEntry(w, e)
      BY <3>3 DEF ShowEntry, review, Writing
    <3> QED
      BY <1>8, <3>1, <3>2, <3>3
  <2> QED
    BY <2>1 DEF Typed, OneWriter, WriterCarries, OffEverywhere, Writing
<1>9. CASE Restart
  <2>1. stored.enabled = FALSE => [stored EXCEPT !.enabled = FALSE].enabled = FALSE
    BY DEF Typed, AllConfigs, Configs, DefaultConfig
  <2>2. offKept => ~config'.enabled
    BY <1>9, <2>1 DEF Restart, OffEverywhere, DefaultConfig, Typed, AllConfigs, Configs
  <2> QED
    BY <1>9, <2>2 DEF Restart, Typed, OneWriter, WriterCarries, OffEverywhere, Writing
<1>10. CASE Shutdown \/ DropSender \/ (\E f \in Files : ChangeFile(f)) \/ OtherJob \/ CancelSlot
  BY <1>10, OffQuiet DEF Shutdown, DropSender, ChangeFile, OtherJob, CancelSlot, review
<1>11. CASE UNCHANGED vars
  BY <1>11, OffQuiet DEF vars, review
<1> QED
  BY <1>1, <1>2, <1>3, <1>4, <1>5, <1>6, <1>7, <1>8, <1>9, <1>10, <1>11 DEF Next

\* What the invariant says of a review that was switched off.
LEMMA OffIsKept == OffInv => OffStaysOff
BY DEF OffInv, OffEverywhere, OffStaysOff

\* OFF that was saved stays OFF until the user asks for ON again, for any number
\* of commands in flight and any number of restarts (update_config, setup_inner).
THEOREM OffSafety == Spec => []OffStaysOff
BY OffIsKept, OffInit, OffStep, PTL DEF Spec

-----------------------------------------------------------------------------
(* Checks: a late one leaves nothing of another folder.                      *)

\* The running check took along the folder of its revision, and its result is a
\* snapshot of it.
CheckIsOwn ==
  at \in {"capture", "captured"} =>
    /\ task.revision <= revision
    /\ task.revision = revision => task.root = config.root
    /\ task.result # NoSnapshot => DOMAIN task.result = FilesOf(task.root)

\* An entry is about a file of the folder in force.
EntriesOfThisFolder ==
  \A e \in history : "file" \in DOMAIN e /\ RootOf[e.file] = config.root

FolderInv ==
  /\ revision \in Nat
  /\ DOMAIN task = {"root", "revision", "previous", "result"} /\ task.revision \in Nat
  /\ CheckIsOwn /\ EntriesOfThisFolder
  /\ baseline # NoSnapshot => DOMAIN baseline = FilesOf(config.root)

\* The initial state satisfies the invariant.
LEMMA FolderInit == Init => FolderInv
BY DEF Init, FolderInv, CheckIsOwn, EntriesOfThisFolder, NoTask

\* Steps that change neither the folder nor what is known of it.
LEMMA FolderQuiet ==
  ASSUME FolderInv, UNCHANGED <<config, revision, baseline, history, task>>,
         at' \in {"capture", "captured"} => at \in {"capture", "captured"}
  PROVE  FolderInv'
BY DEF FolderInv, CheckIsOwn, EntriesOfThisFolder

\* New preferences begin a new revision, with nothing of an earlier folder.
LEMMA FolderChange ==
  ASSUME FolderInv, NEW c, ChangeConfig(c), UNCHANGED worker PROVE FolderInv'
BY DEF ChangeConfig, Invalidate, worker, FolderInv, CheckIsOwn, EntriesOfThisFolder

\* The entries of a comparison are about the files that were compared.
LEMMA FolderRetain ==
  ASSUME FolderInv, NEW changed, NEW seen, \A f \in changed : RootOf[f] = config.root,
         RetainChanges(changed, seen), UNCHANGED config
  PROVE  EntriesOfThisFolder'
<1>1. PICK listed \in FirstOf(changed) :
        history' \in Kept({e \in history : e.file \notin listed} \cup NewEntries(listed, seen))
  BY DEF RetainChanges
<1>2. listed \subseteq changed
  BY DEF FirstOf
<1>3. ASSUME NEW e \in NewEntries(listed, seen) PROVE "file" \in DOMAIN e /\ e.file \in listed
  <2>1. PICK f \in listed :
          e = [revision |-> revision, file |-> f, stamp |-> seen[f], decision |-> "rule", about |-> 0,
               id |-> nextId + Cardinality({g \in listed : PathOrder[g] <= PathOrder[f]})]
    BY DEF NewEntries
  <2> DEFINE n == nextId + Cardinality({g \in listed : PathOrder[g] <= PathOrder[f]})
  <2>2. e = [revision |-> revision, file |-> f, stamp |-> seen[f], decision |-> "rule", about |-> 0, id |-> n]
    BY <2>1
  <2> HIDE DEF n
  <2> QED
    BY <2>2
<1>4. history' \subseteq {e \in history : e.file \notin listed} \cup NewEntries(listed, seen)
  BY <1>1 DEF Kept
<1> QED
  BY <1>2, <1>3, <1>4 DEF FolderInv, EntriesOfThisFolder

\* Every step keeps the invariant.
LEMMA FolderStep == FolderInv /\ [Next]_vars => FolderInv'
<1> SUFFICES ASSUME FolderInv, [Next]_vars PROVE FolderInv'
  OBVIOUS
<1>1. CASE \/ LoopTop \/ Receive \/ Disconnected \/ TimedOut \/ SkipCheck \/ RefuseCheck
           \/ StoreFailure \/ DropResult
  BY <1>1, FolderQuiet
  DEF LoopTop, Receive, Disconnected, TimedOut, SkipCheck, RefuseCheck, StoreFailure, DropResult,
      EndCheck, review, worker
<1>2. CASE BeginCheck
  BY <1>2 DEF BeginCheck, FolderInv, CheckIsOwn, EntriesOfThisFolder
<1>3. CASE Capture
  <2>1. CASE UNCHANGED task
    BY <1>3, <2>1, FolderQuiet DEF Capture, review
  <2>2. CASE task' = [task EXCEPT !.result = [f \in FilesOf(task.root) |-> stamp[f]]]
    <3>1. /\ task'.root = task.root /\ task'.revision = task.revision /\ DOMAIN task' = DOMAIN task
          /\ DOMAIN task'.result = FilesOf(task.root)
      BY <2>2 DEF FolderInv
    <3> QED
      BY <1>3, <3>1 DEF Capture, review, FolderInv, CheckIsOwn, EntriesOfThisFolder
  <2> QED
    BY <1>3, <2>1, <2>2 DEF Capture
<1>4. CASE StoreSnapshot
  <2>1. /\ baseline' = task.result /\ task.result # NoSnapshot
        /\ DOMAIN task.result = FilesOf(config.root) /\ task.root = config.root
    BY <1>4 DEF StoreSnapshot, CanCommit, FolderInv, CheckIsOwn
  <2>2. EntriesOfThisFolder'
    <3>1. CASE history' = history
      BY <1>4, <3>1 DEF StoreSnapshot, FolderInv, EntriesOfThisFolder
    <3>2. CASE RetainChanges({f \in FilesOf(task.root) : task.result[f] # task.previous[f]}, task.result)
      <4> DEFINE changed == {f \in FilesOf(task.root) : task.result[f] # task.previous[f]}
      <4>1. \A f \in changed : RootOf[f] = config.root
        BY <2>1 DEF FilesOf
      <4>2. UNCHANGED config
        BY <1>4 DEF StoreSnapshot
      <4> HIDE DEF changed
      <4> QED
        BY <3>2, <4>1, <4>2, FolderRetain DEF changed
    <3> QED
      BY <1>4, <3>1, <3>2 DEF StoreSnapshot
  <2> QED
    BY <1>4, <2>1, <2>2 DEF StoreSnapshot, EndCheck, FolderInv, CheckIsOwn
<1>5. CASE ReleaseCheck
  BY <1>5 DEF ReleaseCheck, NoTask, review, FolderInv, CheckIsOwn, EntriesOfThisFolder
<1>6. ASSUME NEW w \in Windows, ApplyOff(w) \/ ApplyOn(w) PROVE FolderInv'
  BY <1>6, FolderChange DEF ApplyOff, ApplyOn
<1>7. ASSUME NEW w \in Windows,
             \/ (\E c \in AllConfigs : BeginUpdate(w, c)) \/ EndUpdate(w) \/ WakeWorker(w)
             \/ SaveOff(w) \/ CheckOn(w) \/ SaveOn(w) \/ RequestCheck(w)
             \/ (\E e \in history : ShowEntry(w, e))
      PROVE  FolderInv'
  BY <1>7, FolderQuiet
  DEF BeginUpdate, EndUpdate, WakeWorker, SaveOff, CheckOn, SaveOn, RequestCheck, ShowEntry, review,
  worker
<1>8. ASSUME NEW w \in Windows, SetDisposition(w) PROVE FolderInv'
  <2>1. EntriesOfThisFolder'
    <3>1. \A e \in history :
            /\ "file" \in DOMAIN [e EXCEPT !.decision = "manual", !.about = arg[w].stamp]
            /\ [e EXCEPT !.decision = "manual", !.about = arg[w].stamp].file = e.file
      BY DEF FolderInv, EntriesOfThisFolder
    <3> QED
      BY <1>8, <3>1 DEF SetDisposition, FolderInv, EntriesOfThisFolder
  <2> QED
    BY <1>8, <2>1 DEF SetDisposition, worker, FolderInv, CheckIsOwn
<1>9. CASE Shutdown
  BY <1>9 DEF Shutdown, Invalidate, worker, FolderInv, CheckIsOwn, EntriesOfThisFolder
<1>10. CASE Restart
  BY <1>10 DEF Restart, NoTask, FolderInv, CheckIsOwn, EntriesOfThisFolder
<1>11. CASE DropSender \/ (\E f \in Files : ChangeFile(f)) \/ OtherJob \/ CancelSlot
  BY <1>11, FolderQuiet DEF DropSender, ChangeFile, OtherJob, CancelSlot, review, worker
<1>12. CASE UNCHANGED vars
  BY <1>12, FolderQuiet DEF vars, review, worker
<1> QED
  BY <1>1, <1>2, <1>3, <1>4, <1>5, <1>6, <1>7, <1>8, <1>9, <1>10, <1>11, <1>12 DEF Next, RunWorker

\* What the invariant says of the entries of the history.
LEMMA HistoryIsOwn == FolderInv => HistoryOfThisFolder
BY DEF FolderInv, EntriesOfThisFolder, HistoryOfThisFolder

\* What is shown belongs to the folder in force, for any folders and files and
\* however late a check ends (change_config, can_commit, run_check).
THEOREM FolderSafety == Spec => []HistoryOfThisFolder
BY HistoryIsOwn, FolderInit, FolderStep, PTL DEF Spec

-----------------------------------------------------------------------------
(* The numbers of the entries, and what a comparison leaves in the history.  *)

\* The position of a file among those listed: NewEntries numbers them by it.
Rank(listed, f) == Cardinality({g \in listed : PathOrder[g] <= PathOrder[f]})
NewEntry(listed, seen, f) ==
  [revision |-> revision, file |-> f, stamp |-> seen[f], decision |-> "rule", about |-> 0,
   id |-> nextId + Rank(listed, f)]

\* A position is one of 1, 2, ..., and no two files have the same.
LEMMA Ranks ==
  ASSUME FolderAssumption, NEW listed \in SUBSET Files, NEW f \in listed
  PROVE  /\ Rank(listed, f) \in Nat /\ Rank(listed, f) > 0
         /\ \A g \in listed : Rank(listed, g) = Rank(listed, f) => g = f
<1> DEFINE Upto(h) == {g \in listed : PathOrder[g] <= PathOrder[h]}
<1>1. IsFiniteSet(listed) /\ PathOrder \in [Files -> Nat]
  BY FS_Subset DEF FolderAssumption
<1>2. ASSUME NEW h \in listed
      PROVE  IsFiniteSet(Upto(h)) /\ Cardinality(Upto(h)) \in Nat /\ h \in Upto(h)
  <2>1. Upto(h) \in SUBSET listed
    OBVIOUS
  <2>2. h \in Upto(h)
    BY <1>1
  <2>3. IsFiniteSet(Upto(h))
    BY <1>1, <2>1, FS_Subset
  <2> QED
    BY <2>2, <2>3, FS_CardinalityType
<1>3. ASSUME NEW g \in listed, NEW h \in listed, PathOrder[g] < PathOrder[h]
      PROVE  Cardinality(Upto(g)) # Cardinality(Upto(h))
  <2>1. Upto(g) \in SUBSET Upto(h) /\ h \notin Upto(g) /\ h \in Upto(h)
    BY <1>1, <1>3
  <2> HIDE DEF Upto
  <2>2. IsFiniteSet(Upto(h)) /\ Upto(g) # Upto(h)
    BY <1>2, <2>1
  <2> QED
    BY <2>1, <2>2, FS_Subset
<1>4. Cardinality(Upto(f)) > 0
  <2> HIDE DEF Upto
  <2>1. {f} \in SUBSET Upto(f) /\ IsFiniteSet(Upto(f)) /\ Cardinality(Upto(f)) \in Nat
    BY <1>2
  <2>2. Cardinality({f}) <= Cardinality(Upto(f)) /\ Cardinality({f}) = 1
    BY <2>1, FS_Subset, FS_Singleton
  <2> QED
    BY <2>1, <2>2
<1>5. ASSUME NEW g \in listed, Cardinality(Upto(g)) = Cardinality(Upto(f)) PROVE g = f
  <2>1. g \in Files /\ f \in Files /\ PathOrder[g] \in Nat /\ PathOrder[f] \in Nat
    BY <1>1
  <2>2. ~(PathOrder[g] < PathOrder[f]) /\ ~(PathOrder[f] < PathOrder[g])
    <3> HIDE DEF Upto
    <3> QED
      BY <1>3, <1>5
  <2>3. PathOrder[g] = PathOrder[f]
    BY <2>1, <2>2
  <2> QED
    BY <2>1, <2>3 DEF FolderAssumption
<1> QED
  BY <1>2, <1>4, <1>5 DEF Rank

\* What a comparison leaves: entries of before about other files and new ones,
\* one for each file listed, and the list says so when anything is missing.
Leaves(listed, changed, seen) ==
  /\ history' \subseteq Entries /\ IsFiniteSet(history') /\ Cardinality(history') <= MaxEntries
  /\ truncated' \in BOOLEAN /\ nextId' \in Nat /\ nextId' >= nextId
  /\ (truncated => truncated') /\ (listed # changed => truncated')
  /\ \A e \in history' :
       \/ e \in history /\ e.file \notin listed
       \/ \E f \in listed : e = NewEntry(listed, seen, f) /\ e.id <= nextId'
  /\ ~truncated' => /\ \A f \in listed : NewEntry(listed, seen, f) \in history'
                    /\ \A e \in history : e.file \notin listed => e \in history'

\* A comparison leaves the history so.
LEMMA Retained ==
  ASSUME FolderAssumption, ReviewBounds, revision \in Nat, nextId \in Nat, truncated \in BOOLEAN,
         history \subseteq Entries, IsFiniteSet(history),
         NEW changed \in SUBSET Files, NEW seen, \A f \in changed : seen[f] \in Nat,
         RetainChanges(changed, seen)
  PROVE  \E listed \in SUBSET changed : Leaves(listed, changed, seen)
<1> DEFINE Old(listed) == {e \in history : e.file \notin listed}
           All(listed) == Old(listed) \cup NewEntries(listed, seen)
<1>1. PICK listed \in FirstOf(changed) :
        /\ history' \in Kept(All(listed))
        /\ truncated' = (truncated \/ listed # changed \/ history' # All(listed))
        /\ nextId' = nextId + Cardinality(listed)
  BY Zenon DEF RetainChanges
<1>2. listed \in SUBSET changed /\ listed \in SUBSET Files
  BY DEF FirstOf
<1>3. IsFiniteSet(listed) /\ Cardinality(listed) \in Nat
  BY <1>2, FS_Subset, FS_CardinalityType DEF FolderAssumption
<1>4. NewEntries(listed, seen) = {NewEntry(listed, seen, f) : f \in listed}
  BY DEF NewEntries, NewEntry, Rank
<1>5. ASSUME NEW f \in listed
      PROVE  NewEntry(listed, seen, f) \in Entries /\ NewEntry(listed, seen, f).id <= nextId'
  <2>1. Rank(listed, f) \in Nat /\ Rank(listed, f) <= Cardinality(listed)
    <3>1. {g \in listed : PathOrder[g] <= PathOrder[f]} \in SUBSET listed
      OBVIOUS
    <3>2. Rank(listed, f) <= Cardinality(listed)
      BY <1>3, <3>1, FS_Subset DEF Rank
    <3> QED
      BY <1>2, <3>2, Ranks
  <2>2. nextId + Rank(listed, f) \in Nat /\ nextId + Rank(listed, f) <= nextId'
    BY <1>1, <1>3, <2>1
  <2>3. f \in Files /\ seen[f] \in Nat
    BY <1>2
  <2> QED
    BY <2>2, <2>3 DEF NewEntry, Entries
<1>6. IsFiniteSet(All(listed))
  <2> DEFINE T == {NewEntry(listed, seen, f) : f \in listed}
             F == [f \in listed |-> NewEntry(listed, seen, f)]
  <2>1. F \in Surjection(listed, T)
    BY DEF Surjection
  <2>2. IsFiniteSet(T)
    <3> HIDE DEF F, T
    <3> QED
      BY <1>3, <2>1, FS_Surjection
  <2>3. Old(listed) \in SUBSET history
    OBVIOUS
  <2>4. IsFiniteSet(Old(listed))
    <3> HIDE DEF Old
    <3> QED
      BY <2>3, FS_Subset
  <2> HIDE DEF Old
  <2> QED
    BY <1>4, <2>2, <2>4, FS_Union
<1>7. history' \in SUBSET All(listed) /\ Cardinality(history') <= MaxEntries
  BY <1>1 DEF Kept
<1>8. IsFiniteSet(history')
  <2> HIDE DEF All
  <2> QED
    BY <1>6, <1>7, FS_Subset
<1>9. \A e \in history' :
        \/ e \in history /\ e.file \notin listed
        \/ \E f \in listed : e = NewEntry(listed, seen, f) /\ e.id <= nextId'
  BY <1>4, <1>5, <1>7
<1>10. history' \subseteq Entries
  BY <1>5, <1>9
<1>11. /\ truncated' \in BOOLEAN /\ (truncated => truncated') /\ (listed # changed => truncated')
       /\ (~truncated' => history' = All(listed))
  <2> HIDE DEF All
  <2> QED
    BY <1>1, Zenon
<1>12. nextId' \in Nat /\ nextId' >= nextId
  BY <1>1, <1>3
<1>13. ~truncated' => /\ \A f \in listed : NewEntry(listed, seen, f) \in history'
                      /\ \A e \in history : e.file \notin listed => e \in history'
  BY <1>4, <1>11
<1> QED
  BY <1>2, <1>7, <1>8, <1>9, <1>10, <1>11, <1>12, <1>13 DEF Leaves

-----------------------------------------------------------------------------
(* Types.                                                                    *)

Flags ==
  /\ deadline \in {"none", "due", "later"} /\ active \in BOOLEAN /\ closed \in BOOLEAN
  /\ slot \in {"free", "other", "review"} /\ cancelled \in BOOLEAN
  /\ at \in {"top", "timed", "blocked", "check", "capture", "captured", "release", "ended"}
  /\ wake \in BOOLEAN /\ connected \in BOOLEAN /\ offKept \in BOOLEAN
  /\ restarts \in Nat /\ stamp \in [Files -> Nat]

\* What was seen of the folders.
Snapshots ==
  /\ IsSnapshot(baseline) /\ IsSnapshot(origin)
  /\ task = [root |-> task.root, revision |-> task.revision,
             previous |-> task.previous, result |-> task.result]
  /\ task.root \in Roots \cup {NoRoot} /\ task.revision \in Nat
  /\ IsSnapshot(task.previous) /\ IsSnapshot(task.result)

Listed ==
  /\ history \subseteq Entries /\ IsFiniteSet(history) /\ Cardinality(history) <= MaxEntries
  /\ nextId \in Nat /\ truncated \in BOOLEAN

\* A command that decides carries an entry.
Commands ==
  /\ config \in AllConfigs
  /\ arg \in [Windows -> AllConfigs \cup Entries \cup {NoArg}]
  /\ \A w \in Windows : pc[w] = "decide" => arg[w] \in Entries

Types == Flags /\ Snapshots /\ Listed /\ Commands

\* An empty history is within the limit.
LEMMA NoneListed == ASSUME ReviewBounds PROVE IsFiniteSet({}) /\ Cardinality({}) <= MaxEntries
<1>1. Cardinality({}) = 0 /\ IsFiniteSet({})
  BY FS_EmptySet
<1> QED
  BY <1>1 DEF ReviewBounds

\* The initial state satisfies the invariant.
LEMMA TypesInit == ASSUME ReviewBounds PROVE Init => Types
<1> SUFFICES ASSUME Init PROVE Types
  OBVIOUS
<1>1. Flags
  BY DEF Init, Flags
<1>2. Snapshots
  BY DEF Init, Snapshots, IsSnapshot, NoTask
<1>3. Listed
  BY NoneListed DEF Init, Listed
<1>4. Commands
  BY DEF Init, Commands, AllConfigs
<1> QED
  BY <1>1, <1>2, <1>3, <1>4 DEF Types

\* What a check that is stored found is a snapshot of the folder in force, and
\* the history is left as by a comparison with the snapshot it took along.
LEMMA Compared ==
  ASSUME FolderAssumption, ReviewBounds, FolderInv, Types, StoreSnapshot
  PROVE  /\ baseline' = task.result /\ task.revision = revision /\ at = "captured"
         /\ DOMAIN task.result = FilesOf(task.root)
         /\ \/ /\ task.previous = NoSnapshot /\ origin' = task.result
               /\ UNCHANGED <<history, truncated, nextId>>
            \/ /\ task.previous # NoSnapshot /\ UNCHANGED origin
               /\ \E listed \in SUBSET {f \in FilesOf(task.root) : task.result[f] # task.previous[f]} :
                    Leaves(listed, {f \in FilesOf(task.root) : task.result[f] # task.previous[f]}, task.result)
<1> DEFINE changed == {f \in FilesOf(task.root) : task.result[f] # task.previous[f]}
<1>1. /\ baseline' = task.result /\ task.revision = revision /\ at = "captured"
      /\ task.result # NoSnapshot
      /\ \/ task.previous = NoSnapshot /\ origin' = task.result /\ UNCHANGED <<history, truncated, nextId>>
         \/ task.previous # NoSnapshot /\ UNCHANGED origin /\ RetainChanges(changed, task.result)
  BY DEF StoreSnapshot, CanCommit
<1>2. DOMAIN task.result = FilesOf(task.root)
  BY <1>1 DEF FolderInv, CheckIsOwn
<1>3. \A f \in FilesOf(task.root) : task.result[f] \in Nat
  <2>1. PICK root \in Roots \cup {NoRoot} : task.result \in [FilesOf(root) -> Nat]
    BY <1>1 DEF Types, Snapshots, IsSnapshot
  <2> QED
    BY <1>2, <2>1
<1>4. changed \in SUBSET Files /\ \A f \in changed : task.result[f] \in Nat
  BY <1>3 DEF FilesOf
<1> HIDE DEF changed
<1>5. ASSUME RetainChanges(changed, task.result)
      PROVE  \E listed \in SUBSET changed : Leaves(listed, changed, task.result)
  BY <1>4, <1>5, Retained DEF FolderInv, Types, Listed
<1> QED
  BY <1>1, <1>2, <1>5 DEF changed

\* New preferences keep the types.
LEMMA TypesChange ==
  ASSUME FolderInv, Types, ReviewBounds, NEW c \in AllConfigs, ChangeConfig(c), UNCHANGED <<slot, worker, channel, rest, offKept>>
  PROVE  Flags' /\ Snapshots' /\ Listed' /\ config' \in AllConfigs
<1>1. Flags'
  BY DEF Types, Flags, ChangeConfig, Invalidate, worker, channel, rest
<1>2. Snapshots'
  BY DEF Types, Snapshots, ChangeConfig, Invalidate, worker, IsSnapshot
<1>3. Listed'
  <2>1. UNCHANGED nextId /\ (UNCHANGED <<history, truncated>> \/ (history' = {} /\ truncated' = FALSE))
    BY DEF ChangeConfig
  <2> QED
    BY <2>1, NoneListed DEF Types, Listed
<1> QED
  BY <1>1, <1>2, <1>3 DEF ChangeConfig

\* Every step keeps the types.
LEMMA TypesStep ==
  ASSUME FolderAssumption, ReviewBounds PROVE OffInv /\ FolderInv /\ Types /\ [Next]_vars => Types'
<1> SUFFICES ASSUME OffInv, FolderInv, Types, [Next]_vars PROVE Types'
  OBVIOUS
<1>t. pc \in [Windows -> Writing \cup {"idle", "wake", "decide"}] /\ revision \in Nat
  BY DEF OffInv, Typed, FolderInv
<1>1. CASE LoopTop \/ Receive \/ Disconnected \/ TimedOut \/ SkipCheck \/ RefuseCheck \/ StoreFailure \/ DropResult
  <2>1. UNCHANGED <<baseline, origin, task, history, nextId, truncated, config, calls>>
    BY <1>1
    DEF LoopTop, Receive, Disconnected, TimedOut, SkipCheck, RefuseCheck, StoreFailure, DropResult,
        EndCheck, review, worker
  <2>2. Flags'
    <3>1. UNCHANGED <<closed, runtime, connected, rest, offKept>>
      BY <1>1
      DEF LoopTop, Receive, Disconnected, TimedOut, SkipCheck, RefuseCheck, StoreFailure,
      DropResult,
          EndCheck, review, channel
    <3>2. (wake' = wake \/ wake' = FALSE) /\ (active' = active \/ active' = FALSE)
      BY <1>1
      DEF LoopTop, Receive, Disconnected, TimedOut, SkipCheck, RefuseCheck, StoreFailure,
      DropResult,
          EndCheck, review, channel
    <3>3. deadline' \in {deadline, "due", "later"}
      BY <1>1
      DEF LoopTop, Receive, Disconnected, TimedOut, SkipCheck, RefuseCheck, StoreFailure,
      DropResult,
          EndCheck, review
    <3>4. at' \in {"top", "timed", "blocked", "check", "release", "ended"}
      BY <1>1
      DEF LoopTop, Receive, Disconnected, TimedOut, SkipCheck, RefuseCheck, StoreFailure,
      DropResult,
          EndCheck
    <3>5. wake' \in BOOLEAN /\ active' \in BOOLEAN
      BY <3>2 DEF Types, Flags
    <3> QED
      BY <3>1, <3>3, <3>4, <3>5 DEF Types, Flags, runtime, rest
  <2> QED
    BY <2>1, <2>2 DEF Types, Snapshots, Listed, Commands, calls
<1>2. CASE BeginCheck \/ ReleaseCheck
  <2>1. UNCHANGED <<baseline, origin, history, nextId, truncated, config, calls>>
    BY <1>2 DEF BeginCheck, ReleaseCheck, review
  <2>2. Flags'
    BY <1>2 DEF Types, Flags, BeginCheck, ReleaseCheck, review, channel, rest
  <2>3. config.root \in Roots \cup {NoRoot}
    BY DEF Types, Commands, AllConfigs, Configs, DefaultConfig
  <2>4. IsSnapshot(NoSnapshot)
    BY DEF IsSnapshot
  <2>5. Snapshots'
    BY <1>2, <1>t, <2>1, <2>3, <2>4 DEF Types, Snapshots, BeginCheck, ReleaseCheck, NoTask
  <2> QED
    BY <2>1, <2>2, <2>5 DEF Types, Listed, Commands, calls
<1>3. CASE Capture
  <2>1. UNCHANGED <<baseline, origin, history, nextId, truncated, config, calls>> /\ Flags'
    BY <1>3 DEF Types, Flags, Capture, review, runtime, channel, rest
  <2>2. Snapshots'
    <3>1. CASE UNCHANGED task
      BY <2>1, <3>1 DEF Types, Snapshots
    <3>2. CASE task' = [task EXCEPT !.result = [f \in FilesOf(task.root) |-> stamp[f]]]
      <4> DEFINE found == [f \in FilesOf(task.root) |-> stamp[f]]
      <4>1. found \in [FilesOf(task.root) -> Nat]
        BY DEF Types, Flags, FilesOf
      <4>2. IsSnapshot(found)
        BY <4>1 DEF IsSnapshot, Types, Snapshots
      <4> HIDE DEF found
      <4>3. task' = [root |-> task.root, revision |-> task.revision, previous |-> task.previous, result |-> found]
        BY <3>2 DEF found, Types, Snapshots
      <4> QED
        BY <2>1, <4>2, <4>3 DEF Types, Snapshots
    <3> QED
      BY <1>3, <3>1, <3>2 DEF Capture
  <2> QED
    BY <2>1, <2>2 DEF Types, Listed, Commands, calls
<1>4. CASE StoreSnapshot
  <2>1. UNCHANGED <<task, config, calls>> /\ Flags'
    BY <1>4 DEF Types, Flags, StoreSnapshot, EndCheck, runtime, channel, rest
  <2>2. Snapshots'
    BY <1>4, <2>1, Compared DEF Types, Snapshots
  <2>3. Listed'
    BY <1>4, Compared DEF Types, Listed, Leaves
  <2> QED
    BY <2>1, <2>2, <2>3 DEF Types, Commands, calls
<1>5. ASSUME NEW w \in Windows, NEW c \in AllConfigs, BeginUpdate(w, c) PROVE Types'
  <2>1. UNCHANGED <<review, runtime, worker, channel, rest>> /\ offKept' \in BOOLEAN
    BY <1>5 DEF Types, Flags, BeginUpdate
  <2>2. Commands'
    BY <1>5, <1>t, <2>1 DEF Types, Commands, BeginUpdate, review
  <2> QED
    BY <2>1, <2>2 DEF Types, Flags, Snapshots, Listed, review, runtime, worker, channel, rest
<1>6. ASSUME NEW w \in Windows, EndUpdate(w) \/ WakeWorker(w) \/ SaveOff(w) \/ CheckOn(w) \/ SaveOn(w)
      PROVE  Types'
  <2>1. /\ UNCHANGED <<review, runtime, worker, connected, rest>>
        /\ offKept' \in BOOLEAN /\ wake' \in BOOLEAN
    BY <1>6 DEF Types, Flags, EndUpdate, WakeWorker, SaveOff, CheckOn, SaveOn, channel
  <2>2. Commands'
    BY <1>6, <1>t, <2>1
    DEF Types, Commands, EndUpdate, WakeWorker, SaveOff, CheckOn, SaveOn, Goto, Return, review
  <2> QED
    BY <2>1, <2>2 DEF Types, Flags, Snapshots, Listed, review, runtime, worker, channel, rest
<1>7. ASSUME NEW w \in Windows, ApplyOff(w) \/ ApplyOn(w) PROVE Types'
  <2>1. arg[w] \in AllConfigs /\ ChangeConfig(arg[w]) /\ UNCHANGED <<slot, worker, channel, rest, offKept>>
    BY <1>7 DEF ApplyOff, ApplyOn, OffInv, WriterCarries, Writing
  <2>2. Flags' /\ Snapshots' /\ Listed' /\ config' \in AllConfigs
    BY <2>1, TypesChange
  <2>3. Commands'
    BY <1>7, <1>t, <2>2 DEF Types, Commands, ApplyOff, ApplyOn, Goto
  <2> QED
    BY <2>2, <2>3 DEF Types
<1>8. ASSUME NEW w \in Windows, RequestCheck(w) \/ \E e \in history : ShowEntry(w, e) PROVE Types'
  <2>1. /\ UNCHANGED <<config, nextId, baseline, history, truncated, active, closed, origin,
                       runtime, worker, channel, rest, offKept>>
        /\ deadline' \in {"none", "due", "later"}
    BY <1>8 DEF Types, Flags, RequestCheck, ShowEntry, review
  <2>2. Commands'
    BY <1>8, <1>t, <2>1 DEF Types, Commands, Listed, RequestCheck, ShowEntry, Goto
  <2> QED
    BY <2>1, <2>2 DEF Types, Flags, Snapshots, Listed, runtime, worker, channel, rest
<1>9. ASSUME NEW w \in Windows, SetDisposition(w) PROVE Types'
  <2>1. UNCHANGED <<config, nextId, baseline, truncated, deadline, active, closed, origin,
                    runtime, worker, channel, rest, offKept>>
    BY <1>9 DEF SetDisposition
  <2>2. Commands'
    BY <1>9, <1>t, <2>1 DEF Types, Commands, SetDisposition, Return
  <2>3. Listed'
    <3> DEFINE Decided(e) == IF HasIdOf(e, arg[w])
                             THEN [e EXCEPT !.decision = "manual", !.about = arg[w].stamp] ELSE e
               F == [e \in history |-> Decided(e)]
               T == {Decided(e) : e \in history}
    <3>1. history' = history \/ history' = T
      BY <1>9 DEF SetDisposition
    <3>2. T \subseteq Entries
      <4>1. arg[w] \in Entries
        BY <1>9 DEF SetDisposition, Types, Commands
      <4> QED
        BY <4>1 DEF Types, Listed, Entries
    <3>3. F \in Surjection(history, T)
      BY DEF Surjection
    <3> HIDE DEF F, T
    <3>4. IsFiniteSet(history) /\ Cardinality(history) <= MaxEntries /\ MaxEntries \in Nat
      BY DEF Types, Listed, ReviewBounds
    <3>5. IsFiniteSet(T) /\ Cardinality(T) <= Cardinality(history)
      BY <3>3, <3>4, FS_Surjection
    <3>6. Cardinality(T) <= MaxEntries
      BY <3>4, <3>5, FS_CardinalityType
    <3> QED
      BY <2>1, <3>1, <3>2, <3>5, <3>6 DEF Types, Listed
  <2> QED
    BY <2>1, <2>2, <2>3 DEF Types, Flags, Snapshots, runtime, worker, channel, rest
<1>10. CASE Shutdown
  <2>1. Flags'
    BY <1>10 DEF Shutdown, Invalidate, worker, channel, rest, Types, Flags
  <2>2. Snapshots'
    BY <1>10 DEF Shutdown, Invalidate, worker, Types, Snapshots, IsSnapshot
  <2>3. Listed' /\ Commands'
    BY <1>10 DEF Shutdown, calls, Types, Listed, Commands
  <2> QED
    BY <2>1, <2>2, <2>3 DEF Types
<1>11. CASE Restart
  <2>1. config' \in AllConfigs
    <3>1. stored \in AllConfigs /\ DefaultConfig \in AllConfigs
      BY DEF OffInv, Typed, AllConfigs
    <3>2. [stored EXCEPT !.enabled = FALSE] \in AllConfigs
      <4>1. CASE stored \in Configs
        BY <4>1 DEF AllConfigs, Configs
      <4>2. CASE stored = DefaultConfig
        <5>1. PICK n : stored = [enabled |-> FALSE, root |-> NoRoot, interval |-> n]
          BY <4>2, Zenon DEF DefaultConfig
        <5>2. stored \in [enabled : BOOLEAN, root : {NoRoot}, interval : {n}] /\ ~stored.enabled
          BY <5>1
        <5>3. [stored EXCEPT !.enabled = FALSE] = stored
          BY <5>2
        <5> QED
          BY <3>1, <5>3
      <4> QED
        BY <3>1, <4>1, <4>2 DEF AllConfigs
    <3> QED
      BY <1>11, <3>1, <3>2 DEF Restart
  <2>2. Flags'
    <3>1. deadline' \in {"due", "none"} /\ restarts' = restarts + 1 /\ UNCHANGED <<stamp, offKept>>
      BY <1>11 DEF Restart
    <3>2. restarts' \in Nat
      BY <3>1 DEF Types, Flags
    <3> QED
      BY <1>11, <3>1, <3>2 DEF Restart, Types, Flags
  <2>3. Snapshots'
    BY <1>11 DEF Restart, Snapshots, IsSnapshot, NoTask
  <2>4. Listed'
    BY <1>11, NoneListed DEF Restart, Listed
  <2>5. Commands'
    BY <1>11, <2>1 DEF Restart, Commands
  <2> QED
    BY <2>2, <2>3, <2>4, <2>5 DEF Types
<1>12. CASE DropSender \/ (\E f \in Files : ChangeFile(f)) \/ OtherJob \/ CancelSlot
  <2>1. UNCHANGED <<review, worker, wake, calls, restarts, offKept>>
    BY <1>12 DEF DropSender, ChangeFile, OtherJob, CancelSlot, channel, rest
  <2>2. Flags'
    <3>1. /\ connected' = connected \/ connected' = FALSE
          /\ cancelled' = cancelled \/ cancelled' = TRUE
          /\ slot' \in {slot, "free", "other"}
      BY <1>12 DEF DropSender, ChangeFile, OtherJob, CancelSlot, channel, runtime
    <3>3. connected' \in BOOLEAN /\ cancelled' \in BOOLEAN
      BY <3>1 DEF Types, Flags
    <3>2. stamp' \in [Files -> Nat]
      <4>1. CASE UNCHANGED stamp
        BY <4>1 DEF Types, Flags
      <4>2. ASSUME NEW f \in Files, ChangeFile(f) PROVE stamp' \in [Files -> Nat]
        <5>1. PICK n \in 1..MaxStamp : stamp' = [stamp EXCEPT ![f] = n]
          BY <4>2 DEF ChangeFile
        <5>2. n \in Nat
          BY <5>1 DEF ReviewBounds
        <5> QED
          BY <5>1, <5>2 DEF Types, Flags
      <4> QED
        BY <1>12, <4>1, <4>2 DEF DropSender, OtherJob, CancelSlot, rest
    <3> QED
      BY <2>1, <3>1, <3>2, <3>3 DEF Types, Flags, review, worker
  <2> QED
    BY <2>1, <2>2 DEF Types, Snapshots, Listed, Commands, review, worker, calls
<1>13. CASE UNCHANGED vars
  BY <1>13 DEF vars, review, worker, channel, runtime, calls, rest, Types, Flags, Snapshots,
     Listed, Commands
<1> QED
  BY <1>1, <1>2, <1>3, <1>4, <1>5, <1>6, <1>7, <1>8, <1>9, <1>10, <1>11, <1>12, <1>13 DEF Next,
     RunWorker

\* The types that follow from the three invariants.
LEMMA ReviewTypes == ASSUME FolderAssumption, ReviewBounds, OffInv, FolderInv, Types PROVE TypeOK
<1>1. DOMAIN task = DOMAIN NoTask
  BY DEF FolderInv, NoTask
<1> QED
  BY <1>1 DEF OffInv, Typed, FolderInv, Types, Flags, Snapshots, Listed, Commands, TypeOK

\* The types, and the limit on the entries that are kept.
THEOREM TypeCorrect == ASSUME FolderAssumption, ReviewBounds PROVE Spec => []TypeOK
BY ReviewTypes, OffInit, OffStep, FolderInit, FolderStep, TypesInit, TypesStep, PTL DEF Spec

-----------------------------------------------------------------------------
(* Decisions: they stand at the change that the window showed.               *)

\* A number is given once: entries with the same number are about the same
\* change, and so is what a window shows, even after the entry was replaced.
NumbersVouch ==
  /\ \A e \in history : e.id <= nextId
  /\ \A e, d \in history : e.id = d.id => e.stamp = d.stamp
  /\ \A w \in Windows : pc[w] = "decide" =>
       arg[w].id <= nextId /\ \A e \in history : e.id = arg[w].id => e.stamp = arg[w].stamp

DecisionInv == NumbersVouch /\ DecisionIsAboutWhatWasShown

\* The initial state satisfies the invariant.
LEMMA DecisionInit == Init => DecisionInv
BY DEF Init, DecisionInv, NumbersVouch, DecisionIsAboutWhatWasShown

\* Steps that only drop entries, and show nothing new.
LEMMA DecisionQuiet ==
  ASSUME DecisionInv, UNCHANGED nextId, history' \subseteq history,
         \A w \in Windows : pc'[w] = "decide" => pc[w] = "decide" /\ arg'[w] = arg[w]
  PROVE  DecisionInv'
BY DEF DecisionInv, NumbersVouch, DecisionIsAboutWhatWasShown

\* A comparison gives numbers that no entry had before, and no decision.
LEMMA DecisionCompared ==
  ASSUME FolderAssumption, Types, DecisionInv, UNCHANGED calls,
         NEW changed \in SUBSET Files, NEW listed \in SUBSET changed, NEW seen,
         Leaves(listed, changed, seen)
  PROVE  DecisionInv'
<1>1. ASSUME NEW e \in history'
      PROVE  \/ e \in history
             \/ \E f \in listed : /\ e = NewEntry(listed, seen, f)
                                  /\ e.id = nextId + Rank(listed, f) /\ e.stamp = seen[f]
                                  /\ e.decision = "rule"
                                  /\ e.id <= nextId' /\ e.id > nextId
  <2>1. ASSUME NEW f \in listed, e = NewEntry(listed, seen, f) /\ e.id <= nextId'
        PROVE  /\ e.id = nextId + Rank(listed, f) /\ e.stamp = seen[f] /\ e.decision = "rule"
               /\ e.id > nextId
    <3>1. Rank(listed, f) \in Nat /\ Rank(listed, f) > 0
      BY Ranks
    <3>2. e.id = nextId + Rank(listed, f) /\ e.stamp = seen[f] /\ e.decision = "rule"
      BY <2>1 DEF NewEntry
    <3> QED
      BY <3>1, <3>2 DEF Types, Listed
  <2> QED
    BY <2>1 DEF Leaves
<1>2. nextId \in Nat /\ nextId' \in Nat /\ nextId' >= nextId
  BY DEF Types, Listed, Leaves
<1>3. \A e \in history : e.id \in Nat /\ e.id <= nextId
  BY DEF Types, Listed, Entries, DecisionInv, NumbersVouch
<1>4. \A e \in history' : e.id <= nextId'
  BY <1>1, <1>2, <1>3
<1>5. ASSUME NEW e \in history', NEW d \in history', e.id = d.id PROVE e.stamp = d.stamp
  <2>1. CASE e \in history /\ d \in history
    BY <1>5, <2>1 DEF DecisionInv, NumbersVouch
  <2>2. CASE e \notin history /\ d \notin history
    <3>1. PICK f \in listed : e.id = nextId + Rank(listed, f) /\ e.stamp = seen[f]
      BY <1>1, <2>2
    <3>2. PICK g \in listed : d.id = nextId + Rank(listed, g) /\ d.stamp = seen[g]
      BY <1>1, <2>2
    <3>3. Rank(listed, f) \in Nat /\ Rank(listed, g) \in Nat
      BY Ranks
    <3>4. Rank(listed, f) = Rank(listed, g)
      <4>1. \A i, j \in Nat : nextId + i = nextId + j => i = j
        BY <1>2
      <4>2. nextId + Rank(listed, f) = nextId + Rank(listed, g)
        BY <1>5, <3>1, <3>2
      <4> QED
        BY <3>3, <4>1, <4>2
    <3>5. f = g
      BY <3>4, Ranks
    <3> QED
      BY <3>1, <3>2, <3>5
  <2>3. CASE ~(e \in history <=> d \in history)
    BY <1>1, <1>2, <1>3, <1>5, <2>3
  <2> QED
    BY <2>1, <2>2, <2>3
<1>6. ASSUME NEW w \in Windows, pc'[w] = "decide"
      PROVE  arg'[w].id <= nextId' /\ \A e \in history' : e.id = arg'[w].id => e.stamp = arg'[w].stamp
  <2>1. pc[w] = "decide" /\ arg'[w] = arg[w] /\ arg[w].id \in Nat
    BY <1>6 DEF calls, Types, Commands, Entries
  <2>2. arg[w].id <= nextId /\ \A e \in history : e.id = arg[w].id => e.stamp = arg[w].stamp
    BY <2>1 DEF DecisionInv, NumbersVouch
  <2> QED
    BY <1>1, <1>2, <2>1, <2>2
<1>7. DecisionIsAboutWhatWasShown'
  BY <1>1 DEF DecisionInv, DecisionIsAboutWhatWasShown
<1> QED
  BY <1>4, <1>5, <1>6, <1>7 DEF DecisionInv, NumbersVouch

\* Every step keeps the invariant.
LEMMA DecisionStep ==
  ASSUME FolderAssumption, ReviewBounds
  PROVE  OffInv /\ FolderInv /\ Types /\ DecisionInv /\ [Next]_vars => DecisionInv'
<1> SUFFICES ASSUME OffInv, FolderInv, Types, DecisionInv, [Next]_vars PROVE DecisionInv'
  OBVIOUS
<1>t. pc \in [Windows -> Writing \cup {"idle", "wake", "decide"}]
  BY DEF OffInv, Typed
<1>a. arg \in [Windows -> AllConfigs \cup Entries \cup {NoArg}]
  BY DEF Types, Commands
<1>1. CASE \/ LoopTop \/ Receive \/ Disconnected \/ TimedOut \/ SkipCheck \/ BeginCheck \/ RefuseCheck
           \/ Capture \/ StoreFailure \/ DropResult \/ ReleaseCheck \/ Shutdown \/ DropSender
           \/ (\E f \in Files : ChangeFile(f)) \/ OtherJob \/ CancelSlot \/ UNCHANGED vars
  <2>1. UNCHANGED <<history, nextId, calls>>
    BY <1>1
    DEF LoopTop, Receive, Disconnected, TimedOut, SkipCheck, BeginCheck, RefuseCheck, Capture,
        StoreFailure, DropResult, ReleaseCheck, Shutdown, DropSender, ChangeFile, OtherJob,
        CancelSlot,
        vars, review
  <2> QED
    BY <2>1, DecisionQuiet DEF calls
<1>2. CASE StoreSnapshot
  <2>1. UNCHANGED calls
    BY <1>2 DEF StoreSnapshot
  <2>2. CASE UNCHANGED <<history, nextId>>
    BY <2>1, <2>2, DecisionQuiet DEF calls
  <2>3. CASE ~UNCHANGED <<history, nextId>>
    <3> DEFINE changed == {f \in FilesOf(task.root) : task.result[f] # task.previous[f]}
    <3>1. PICK listed \in SUBSET changed : Leaves(listed, changed, task.result)
      BY <1>2, <2>3, Compared
    <3>2. changed \in SUBSET Files
      BY DEF FilesOf
    <3> HIDE DEF changed
    <3> QED
      BY <2>1, <3>1, <3>2, DecisionCompared
  <2> QED
    BY <2>2, <2>3
<1>3. ASSUME NEW w \in Windows,
             \/ (\E c \in AllConfigs : BeginUpdate(w, c)) \/ EndUpdate(w) \/ WakeWorker(w)
             \/ SaveOff(w) \/ CheckOn(w) \/ SaveOn(w) \/ RequestCheck(w)
      PROVE  DecisionInv'
  <2>1. UNCHANGED <<history, nextId>>
    BY <1>3 DEF BeginUpdate, EndUpdate, WakeWorker, SaveOff, CheckOn, SaveOn, RequestCheck, review
  <2>2. \A v \in Windows : pc'[v] = "decide" => pc[v] = "decide" /\ arg'[v] = arg[v]
    BY <1>3, <1>t, <1>a
    DEF BeginUpdate, EndUpdate, WakeWorker, SaveOff, CheckOn, SaveOn, RequestCheck, Goto, Return
  <2> QED
    BY <2>1, <2>2, DecisionQuiet
<1>4. ASSUME NEW w \in Windows, ApplyOff(w) \/ ApplyOn(w) PROVE DecisionInv'
  <2>1. UNCHANGED nextId /\ history' \subseteq history
    BY <1>4 DEF ApplyOff, ApplyOn, ChangeConfig
  <2>2. \A v \in Windows : pc'[v] = "decide" => pc[v] = "decide" /\ arg'[v] = arg[v]
    BY <1>4, <1>t DEF ApplyOff, ApplyOn, Goto
  <2> QED
    BY <2>1, <2>2, DecisionQuiet
<1>5. ASSUME NEW w \in Windows, NEW e \in history, ShowEntry(w, e) PROVE DecisionInv'
  <2>1. UNCHANGED <<history, nextId>>
    BY <1>5 DEF ShowEntry, review
  <2>2. \A v \in Windows : pc'[v] = "decide" => arg'[v] = e \/ (pc[v] = "decide" /\ arg'[v] = arg[v])
    BY <1>5, <1>t, <1>a DEF ShowEntry
  <2> QED
    BY <2>1, <2>2 DEF DecisionInv, NumbersVouch, DecisionIsAboutWhatWasShown
<1>6. ASSUME NEW w \in Windows, SetDisposition(w) PROVE DecisionInv'
  <2>1. UNCHANGED nextId /\ pc[w] = "decide"
    BY <1>6 DEF SetDisposition
  <2>2. \A v \in Windows : pc'[v] = "decide" => pc[v] = "decide" /\ arg'[v] = arg[v]
    BY <1>6, <1>t, <1>a DEF SetDisposition, Return
  <2>3. ASSUME NEW e \in history'
        PROVE  \E d \in history :
                 /\ e.id = d.id /\ e.stamp = d.stamp
                 /\ \/ e = d
                    \/ d.id = arg[w].id /\ e.about = arg[w].stamp
    <3>1. CASE UNCHANGED history
      BY <3>1
    <3>2. CASE history' = {IF HasIdOf(d, arg[w])
                           THEN [d EXCEPT !.decision = "manual", !.about = arg[w].stamp]
                           ELSE d : d \in history}
      <4>1. PICK d \in history :
              e = IF HasIdOf(d, arg[w]) THEN [d EXCEPT !.decision = "manual", !.about = arg[w].stamp] ELSE d
        BY <3>2
      <4>2. d \in Entries
        BY DEF Types, Listed
      <4>3. CASE HasIdOf(d, arg[w])
        <5>1. e = [d EXCEPT !.decision = "manual", !.about = arg[w].stamp]
          BY <4>1, <4>3
        <5>2. e.id = d.id /\ e.stamp = d.stamp /\ e.about = arg[w].stamp
          BY <4>2, <5>1 DEF Entries
        <5> QED
          BY <4>3, <5>2 DEF HasIdOf
      <4>4. CASE ~HasIdOf(d, arg[w])
        BY <4>1, <4>4
      <4> QED
        BY <4>3, <4>4
    <3> QED
      BY <1>6, <3>1, <3>2 DEF SetDisposition
  <2>4. NumbersVouch'
    <3>1. \A e \in history' : e.id <= nextId'
      BY <2>1, <2>3 DEF DecisionInv, NumbersVouch
    <3>2. \A e, d \in history' : e.id = d.id => e.stamp = d.stamp
      BY <2>3 DEF DecisionInv, NumbersVouch
    <3>3. ASSUME NEW v \in Windows, pc'[v] = "decide"
          PROVE  arg'[v].id <= nextId' /\ \A e \in history' : e.id = arg'[v].id => e.stamp = arg'[v].stamp
      BY <2>1, <2>2, <2>3, <3>3 DEF DecisionInv, NumbersVouch
    <3> QED
      BY <3>1, <3>2, <3>3 DEF NumbersVouch
  <2>5. DecisionIsAboutWhatWasShown'
    BY <2>1, <2>3 DEF DecisionInv, NumbersVouch, DecisionIsAboutWhatWasShown
  <2> QED
    BY <2>4, <2>5 DEF DecisionInv
<1>7. CASE Restart
  BY <1>7 DEF Restart, DecisionInv, NumbersVouch, DecisionIsAboutWhatWasShown
<1> QED
  BY <1>1, <1>2, <1>3, <1>4, <1>5, <1>6, <1>7 DEF Next, RunWorker

\* A decision of the user stands at the very change that the window showed, for
\* any number of windows and entries, however many comparisons replaced them in
\* the meantime (set_file_change_review_disposition, retain_changes).
THEOREM DecisionSafety ==
  ASSUME FolderAssumption, ReviewBounds
  PROVE  Spec => []DecisionIsAboutWhatWasShown
<1>1. DecisionInv => DecisionIsAboutWhatWasShown
  BY DEF DecisionInv
<1> QED
  BY <1>1, OffInit, OffStep, FolderInit, FolderStep, TypesInit, TypesStep, DecisionInit,
     DecisionStep, PTL
  DEF Spec

-----------------------------------------------------------------------------
(* History: every difference is explained.                                   *)

\* The check under way compares with the baseline in force.
ComparesWithBaseline ==
  at \in {"capture", "captured"} /\ task.revision = revision => task.previous = baseline

HistoryInv == ComparesWithBaseline /\ HistoryExplainsBaseline

\* The initial state satisfies the invariant.
LEMMA HistoryInit == Init => HistoryInv
BY DEF Init, HistoryInv, ComparesWithBaseline, HistoryExplainsBaseline

\* Steps that leave the check and the history alone.
LEMMA HistoryQuiet ==
  ASSUME HistoryInv, UNCHANGED <<revision, baseline, origin, history, truncated>>,
         at' \in {"capture", "captured"} =>
           /\ at \in {"capture", "captured"}
           /\ task'.revision = task.revision /\ task'.previous = task.previous
  PROVE  HistoryInv'
BY DEF HistoryInv, ComparesWithBaseline, HistoryExplainsBaseline

\* After a disowned check there is no baseline to explain.
LEMMA HistoryForgotten ==
  ASSUME FolderInv, Invalidate, UNCHANGED worker PROVE HistoryInv'
BY DEF FolderInv, CheckIsOwn, Invalidate, worker, HistoryInv, ComparesWithBaseline,
   HistoryExplainsBaseline

\* A comparison explains what it found to differ, and keeps what is explained of
\* the other files.
LEMMA HistoryCompared ==
  ASSUME FolderAssumption, ReviewBounds, FolderInv, Types, HistoryInv, StoreSnapshot
  PROVE  HistoryInv'
<1>1. /\ baseline' = task.result /\ task.revision = revision /\ at = "captured" /\ at' = "release"
      /\ DOMAIN task.result = FilesOf(task.root) /\ task.previous = baseline /\ task.root = config.root
  BY Compared DEF StoreSnapshot, EndCheck, HistoryInv, ComparesWithBaseline, FolderInv, CheckIsOwn
<1>2. HistoryExplainsBaseline'
  <2>1. CASE origin' = task.result
    BY <1>1, <2>1 DEF HistoryExplainsBaseline
  <2>2. CASE ~(origin' = task.result)
    <3> DEFINE changed == {f \in FilesOf(task.root) : task.result[f] # task.previous[f]}
    <3>1. UNCHANGED origin /\ task.previous # NoSnapshot
      BY <2>2, Compared
    <3>2. PICK listed \in SUBSET changed : Leaves(listed, changed, task.result)
      BY <2>2, Compared
    <3>3. ASSUME NEW f \in FilesOf(task.root), task.result[f] # origin[f], ~truncated'
          PROVE  \E e \in history' : e.file = f /\ e.stamp = task.result[f]
      <4>1. listed = changed /\ ~truncated
        <5> HIDE DEF changed
        <5> QED
          BY <3>2, <3>3 DEF Leaves
      <4>2. CASE f \in changed
        <5> HIDE DEF changed
        <5>1. NewEntry(listed, task.result, f) \in history'
          BY <3>2, <3>3, <4>1, <4>2 DEF Leaves
        <5>2. NewEntry(listed, task.result, f).file = f /\ NewEntry(listed, task.result, f).stamp = task.result[f]
          BY DEF NewEntry
        <5> QED
          BY <5>1, <5>2
      <4>3. CASE f \notin changed
        <5>1. task.result[f] = baseline[f] /\ baseline # NoSnapshot /\ DOMAIN baseline = FilesOf(task.root)
          BY <1>1, <3>1, <4>3 DEF FolderInv
        <5>2. PICK e \in history : e.file = f /\ e.stamp = baseline[f]
          BY <3>3, <4>1, <5>1 DEF HistoryInv, HistoryExplainsBaseline
        <5>3. e \in history'
          <6> HIDE DEF changed
          <6> QED
            BY <3>2, <3>3, <4>1, <4>3, <5>2 DEF Leaves
        <5> QED
          BY <5>1, <5>2, <5>3
      <4> QED
        BY <4>2, <4>3
    <3> QED
      BY <1>1, <3>1, <3>3 DEF HistoryExplainsBaseline
  <2> QED
    BY <2>1, <2>2
<1> QED
  BY <1>1, <1>2 DEF HistoryInv, ComparesWithBaseline

\* Every step keeps the invariant.
LEMMA HistoryStep ==
  ASSUME FolderAssumption, ReviewBounds
  PROVE  FolderInv /\ Types /\ HistoryInv /\ [Next]_vars => HistoryInv'
<1> SUFFICES ASSUME FolderInv, Types, HistoryInv, [Next]_vars PROVE HistoryInv'
  OBVIOUS
<1>1. CASE \/ LoopTop \/ Receive \/ Disconnected \/ TimedOut \/ SkipCheck \/ RefuseCheck
           \/ StoreFailure \/ DropResult \/ ReleaseCheck \/ DropSender
           \/ (\E f \in Files : ChangeFile(f)) \/ OtherJob \/ CancelSlot \/ UNCHANGED vars
  <2>1. UNCHANGED <<revision, baseline, origin, history, truncated>>
    BY <1>1
    DEF LoopTop, Receive, Disconnected, TimedOut, SkipCheck, RefuseCheck, StoreFailure, DropResult,
        ReleaseCheck, DropSender, ChangeFile, OtherJob, CancelSlot, vars, review
  <2>2. at' \in {"capture", "captured"} => UNCHANGED worker
    BY <1>1
    DEF LoopTop, Receive, Disconnected, TimedOut, SkipCheck, RefuseCheck, StoreFailure, DropResult,
    EndCheck,
        ReleaseCheck, DropSender, ChangeFile, OtherJob, CancelSlot, vars
  <2> QED
    BY <2>1, <2>2, HistoryQuiet DEF worker
<1>2. CASE BeginCheck
  BY <1>2 DEF BeginCheck, HistoryInv, ComparesWithBaseline, HistoryExplainsBaseline
<1>3. CASE Capture
  <2>1. task'.revision = task.revision /\ task'.previous = task.previous
    BY <1>3 DEF Capture, FolderInv
  <2>2. UNCHANGED <<revision, baseline, origin, history, truncated>> /\ at = "capture"
    BY <1>3 DEF Capture, review
  <2> QED
    BY <2>1, <2>2, HistoryQuiet
<1>4. CASE StoreSnapshot
  BY <1>4, HistoryCompared
<1>5. ASSUME NEW w \in Windows, ApplyOff(w) \/ ApplyOn(w) PROVE HistoryInv'
  BY <1>5, HistoryForgotten DEF ApplyOff, ApplyOn, ChangeConfig
<1>6. ASSUME NEW w \in Windows,
             \/ (\E c \in AllConfigs : BeginUpdate(w, c)) \/ EndUpdate(w) \/ WakeWorker(w)
             \/ SaveOff(w) \/ CheckOn(w) \/ SaveOn(w) \/ RequestCheck(w)
             \/ (\E e \in history : ShowEntry(w, e))
      PROVE  HistoryInv'
  <2>1. UNCHANGED <<revision, baseline, origin, history, truncated, worker>>
    BY <1>6
    DEF BeginUpdate, EndUpdate, WakeWorker, SaveOff, CheckOn, SaveOn, RequestCheck, ShowEntry,
    review
  <2> QED
    BY <2>1, HistoryQuiet DEF worker
<1>7. ASSUME NEW w \in Windows, SetDisposition(w) PROVE HistoryInv'
  <2>1. UNCHANGED <<revision, baseline, origin, truncated, worker>>
    BY <1>7 DEF SetDisposition
  <2>2. \A e \in history : \E d \in history' : d.file = e.file /\ d.stamp = e.stamp
    <3>1. ASSUME NEW e \in history
          PROVE  /\ [e EXCEPT !.decision = "manual", !.about = arg[w].stamp].file = e.file
                 /\ [e EXCEPT !.decision = "manual", !.about = arg[w].stamp].stamp = e.stamp
      <4>1. e \in Entries
        BY DEF Types, Listed
      <4> QED
        BY <4>1 DEF Entries
    <3> QED
      BY <1>7, <3>1 DEF SetDisposition
  <2> QED
    BY <2>1, <2>2 DEF HistoryInv, ComparesWithBaseline, HistoryExplainsBaseline, worker
<1>8. CASE Shutdown
  BY <1>8, HistoryForgotten DEF Shutdown
<1>9. CASE Restart
  BY <1>9 DEF Restart, HistoryInv, ComparesWithBaseline, HistoryExplainsBaseline
<1> QED
  BY <1>1, <1>2, <1>3, <1>4, <1>5, <1>6, <1>7, <1>8, <1>9 DEF Next, RunWorker

\* No change is skipped by a check that was cancelled, failed or came too late,
\* for any folders and files and any limit on the entries (run_check,
\* retain_changes).
THEOREM ExplainSafety ==
  ASSUME FolderAssumption, ReviewBounds
  PROVE  Spec => []HistoryExplainsBaseline
<1>1. HistoryInv => HistoryExplainsBaseline
  BY DEF HistoryInv
<1> QED
  BY <1>1, OffInit, OffStep, FolderInit, FolderStep, TypesInit, TypesStep, HistoryInit,
     HistoryStep, PTL
  DEF Spec
=============================================================================
