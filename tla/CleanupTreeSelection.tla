------------------------ MODULE CleanupTreeSelection ------------------------
(***************************************************************************)
(* What the user selected in the cleanup tree and what would be moved      *)
(* (cleanup_tree.rs).  The tree is read a folder at a time.  A selection   *)
(* is kept as rules on some of its entries, inherited by everything below, *)
(* also by entries read later.  From the rules the app computes the state  *)
(* of every entry shown and the targets: the topmost entries that may be   *)
(* moved whole.  The meaning the rules must have is kept beside them in    *)
(* chosen, which paints every entry at the moment of the choice.           *)
(***************************************************************************)
EXTENDS Integers, FiniteSets

CONSTANTS
  Entries,      \* the entries of the scope
  Parent,       \* the folder each is in, or Root
  Root,
  MaxBranches,  \* MAX_BRANCHES: folders whose listing is kept, the root's included
  MaxTargets,   \* MAX_TARGETS: entries one plan may move
  MaxPicks,     \* bound: entries one request names
  MaxBlocked    \* bound: protected entries

TreeAssumption ==
  /\ Root \notin Entries
  /\ Parent \in [Entries -> Entries \cup {Root}]
  /\ {MaxBranches, MaxTargets, MaxPicks, MaxBlocked} \subseteq Nat

VARIABLES
  blocked,   \* entries with a blocked_reason
  complete,  \* folders whose listing has no entry left out
  branches,  \* folders whose listing was read
  rules,     \* Tree.rules
  chosen     \* the entries the user's choices say are selected

disk == <<blocked, complete>>
vars == <<disk, branches, rules, chosen>>

Folders == {Parent[n] : n \in Entries} \ {Root}

\* an entry and the folders it is in
Line == LET up[n \in Entries] == {n} \cup IF Parent[n] = Root THEN {} ELSE up[Parent[n]] IN up
Below(ids) == {n \in Entries : Line[n] \cap ids # {}}

\* Tree.nodes
Known == {n \in Entries : Parent[n] = Root \/ Parent[n] \in branches}
Children(n) == {c \in Known : Parent[c] = n}

Init ==
  /\ blocked \in {b \in SUBSET Entries : Cardinality(b) <= MaxBlocked}
  /\ complete \in SUBSET Folders
  /\ branches = {} /\ rules = <<>> /\ chosen = {}

(***************************************************************************)
(* load_cleanup_tree_children and add_branch: the entries of a folder are  *)
(* added, without rules of their own.                                      *)
(***************************************************************************)
AddBranch(n) ==
  /\ n \in (Known \cap Folders) \ (branches \cup blocked)
  /\ Cardinality(branches) + 1 < MaxBranches
  /\ branches' = branches \cup {n}
  /\ chosen' = IF n \in chosen THEN chosen \cup {c \in Entries : Parent[c] = n} ELSE chosen
  /\ UNCHANGED <<disk, rules>>

(***************************************************************************)
(* select: what a request includes comes before what it excludes; a new    *)
(* rule takes the place of the rules below it.                             *)
(***************************************************************************)
Ruled(old, ids, value) ==
  [n \in (DOMAIN old \ Below(ids)) \cup ids |-> IF n \in ids THEN value ELSE old[n]]

KeepRulesBelow(include, exclude) ==
  [n \in DOMAIN rules \cup include \cup exclude |->
     IF n \in exclude THEN FALSE ELSE IF n \in include THEN TRUE ELSE rules[n]]
NewRules(include, exclude) == Ruled(Ruled(rules, include, TRUE), exclude, FALSE)

Select(include, exclude) ==
  /\ include \cup exclude \subseteq Known
  /\ include \cap exclude = {} /\ include \cap blocked = {}
  /\ Cardinality(include \cup exclude) <= MaxPicks
  /\ rules' = NewRules(include, exclude)
  /\ chosen' = ((chosen \cup Below(include)) \ Below(exclude)) \cap Known
  /\ UNCHANGED <<disk, branches>>

(***************************************************************************)
(* included: the rule of the nearest entry up the line that has one.       *)
(***************************************************************************)
Included(n) ==
  \E a \in Line[n] \cap DOMAIN rules :
    rules[a] /\ \A b \in Line[n] \cap DOMAIN rules : b \in Line[a]

(***************************************************************************)
(* selection_states, from the deepest entries up.                          *)
(***************************************************************************)
Own(n) == IF n \notin blocked /\ Included(n) THEN "checked" ELSE "unchecked"

StatesByRule == [n \in Entries |-> IF \E c \in Children(n) : Included(c) # Included(n) THEN "mixed" ELSE Own(n)]
States ==
  LET state[n \in Entries] ==
        IF n \notin blocked /\ \E c \in Children(n) : state[c] # Own(n) THEN "mixed" ELSE Own(n)
  IN state

(***************************************************************************)
(* frontier: the checked entries reached through partly selected folders,  *)
(* each of which must have been read completely.                           *)
(***************************************************************************)
Listed == branches \cap complete
Reached == {n \in Known : \A a \in Line[n] \ {n} : States[a] = "mixed" /\ a \in Listed}
Targets == {n \in Reached : States[n] = "checked"}
Unresolved == {n \in Reached : States[n] = "mixed" /\ n \notin Listed}

\* what prepare accepts (strict, and not empty)
Movable == Unresolved = {} /\ Targets # {} /\ Cardinality(Targets) <= MaxTargets

Next ==
  \/ \E n \in Entries : AddBranch(n)
  \/ \E include, exclude \in SUBSET Known : Select(include, exclude)

Spec == Init /\ [][Next]_vars

TypeOK ==
  /\ blocked \subseteq Entries /\ complete \subseteq Folders /\ branches \subseteq Folders
  /\ DOMAIN rules \subseteq Known /\ chosen \subseteq Known

(***************************************************************************)
(* The rules mean what the user chose: an entry, read before the choice or *)
(* after it, is included exactly when the last choice about it or about a  *)
(* folder it is in was to include it (select, included:                    *)
(* cleanup_tree.rs:470-485, 679-730).                                      *)
(***************************************************************************)
RulesMeanLastChoice == \A n \in Known : Included(n) <=> n \in chosen

(***************************************************************************)
(* A plan moves exactly what was chosen: with a target everything known    *)
(* below it goes, and none of that is protected or was excluded; no target *)
(* is inside another; and an entry chosen whole is moved (frontier:        *)
(* cleanup_tree.rs:486-537, 565-602; "Partial parents never enter the      *)
(* trash frontier").                                                       *)
(***************************************************************************)
TargetsAreChosen ==
  Movable =>
    /\ \A n \in Known \cap Below(Targets) : n \in chosen /\ n \notin blocked
    /\ \A s, t \in Targets : s \in Line[t] => s = t
    /\ \A n \in chosen \ blocked :
         Below({n}) \cap Known \subseteq chosen \ blocked => n \in Below(Targets)
=============================================================================
