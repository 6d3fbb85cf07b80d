-------------------------- MODULE TrashJournalProofs --------------------------
(***************************************************************************)
(* Proofs about TrashJournal, for any operations, items, limits and number *)
(* of faults: what the journal's two files say of a move stays true.       *)
(* Everything is reduced to the set of lines a file holds; the order of    *)
(* the lines never matters, except for the last one, which may be torn.    *)
(***************************************************************************)
EXTENDS TrashJournal, FiniteSetTheorems, SequenceTheorems, WellFoundedInduction, TLAPS

-----------------------------------------------------------------------------
(* What the files hold.                                                     *)

PrevLines == Range(prev)
CurLines == Range(cur)
Held == PrevLines \cup CurLines
QueueLines == Range(queue)

\* The lines of cur that no later write can take away.
SolidLength == IF openTail THEN Len(cur) - 1 ELSE Len(cur)
Solid == {cur[n] : n \in 1 .. SolidLength}

ActOn(l, o, i) == l.op = o /\ l.event \in Acts /\ i \in l.items
EndOf(l, o) == l.op = o /\ l.event \in Terminals
Marked(L, o, i) == \E l \in L : ActOn(l, o, i)
Ended(L, o) == \E l \in L : EndOf(l, o)
Seen(L, o) == \E l \in L : l.op = o
\* A line of o other than a terminal one.
Begun(L, o) == \E l \in L : l.op = o /\ l.event \notin Terminals

Exempt == (settled \ joined) \cup cut \cup excused

-----------------------------------------------------------------------------
(* The inductive invariant.                                                  *)

Working == {"item", "marked", "done", "failed", "closing"}
Opening == {"opening", "renaming", "ready"}

\* Who owns the journal at each stage.
JobShape ==
  /\ stage = "idle" => op = NoOp
  /\ stage \in Working => op # NoOp
  /\ stage \in Opening /\ op = NoOp => queue # <<>>
  /\ stage \notin Opening \/ op # NoOp => queue = <<>> /\ copying = {}
  /\ stage = "renaming" => prev = <<>>
  /\ op # NoOp => op \in used /\ claims = {}
  /\ audited = "running" => op = NoOp /\ stage \in Opening

\* The last line can be torn only where nothing is moved.
TailShape ==
  /\ openTail => cur # <<>>
  /\ stage \in {"item", "marked", "done", "failed"} => ~openTail
  /\ audited = "running" => ~openTail /\ Garbled \notin Held

\* An operation is new when its job begins.
Fresh ==
  /\ \A l \in Held : l.op \in used \cup {NoOp}
  /\ \A p \in attempts : p[1] \in used
  /\ settled \subseteq used /\ op \notin settled
  /\ op # NoOp => ~Seen(PrevLines, op)
  /\ op # NoOp /\ stage \in Opening =>
       ~Seen(CurLines, op) /\ \A i \in Items : <<op, i>> \notin attempts

\* Nothing is moved before its start is on record; a completed operation is over,
\* and the job that may still complete has moved all it attempted.
WriteAhead ==
  /\ stage \in {"marked", "done", "failed"} => \A i \in item : Marked(Solid, op, i)
  /\ op # NoOp => \A i \in Items : <<op, i>> \in attempts => Marked(Solid, op, i)
  /\ op # NoOp /\ complete /\ stage # "failed" =>
       \A i \in Items : <<op, i>> \in attempts => <<op, i>> \in moved
  /\ \A l \in Held : l.event = "completed" =>
       l.op # op /\ \A i \in Items : <<l.op, i>> \in attempts => <<l.op, i>> \in moved

\* The terminal record of a settled operation outlives its other records.
TerminalLasts ==
  \A o \in settled \ joined :
    /\ \A i \in Items : Marked(CurLines, o, i) => Ended(Solid, o)
    /\ \A i \in Items : Marked(PrevLines, o, i) => Ended(PrevLines, o) \/ Ended(Solid, o)

\* What an audit still has to append.
QueueShape ==
  /\ \A l \in QueueLines :
       l.op \in used /\ IF l.event = "reconciled" THEN l.op \notin copying
                        ELSE l.op \in copying /\ l.event \in Acts \cup {"planned"}
  /\ copying \cap (settled \ joined) = {}
  /\ stage \in {"opening", "renaming"} => \A o \in copying : ~Seen(CurLines, o)
  /\ openTail /\ queue # <<>> =>
       Head(queue).event \notin Acts /\ Head(queue).op \notin settled \ joined

\* A file that holds records of an operation holds one of every move it attempted.
WholePrev ==
  \A p \in attempts : p[1] \notin cut /\ Begun(PrevLines, p[1]) => Marked(PrevLines, p[1], p[2])
WholeCur ==
  \A p \in attempts :
    p[1] \notin cut \cup copying /\ Begun(CurLines, p[1]) => Marked(Solid, p[1], p[2])
WholeCopy ==
  \A p \in attempts : p[1] \in copying \ cut =>
    Marked(Solid, p[1], p[2]) \/ Marked(QueueLines, p[1], p[2])

\* Every attempt is on record, and still will be after the next rotation if an
\* audit has found the files in order.
OnRecord ==
  \A p \in attempts :
    p[1] \in Exempt \/ Marked(PrevLines, p[1], p[2]) \/ Marked(Solid, p[1], p[2])
Open(p) ==
  p[1] \notin Exempt /\ Marked(PrevLines, p[1], p[2]) /\ ~Ended(PrevLines \cup Solid, p[1])
Audited ==
  /\ audited = "yes" => \A p \in attempts : Open(p) => Marked(Solid, p[1], p[2])
  /\ audited = "running" =>
       \A p \in attempts : Open(p) =>
         Marked(Solid, p[1], p[2]) \/ p[1] \in copying \/ Ended(QueueLines, p[1])

\* The audit says "not started" of what was never handed over, unless the
\* checkpoint of its operation was cut short.
ClaimsHold == \A p \in claims \cap attempts : p[1] \in cut

IInv ==
  /\ TypeOK /\ JobShape /\ TailShape /\ Fresh /\ WriteAhead /\ TerminalLasts /\ QueueShape
  /\ WholePrev /\ WholeCur /\ WholeCopy /\ OnRecord /\ Audited /\ ClaimsHold

-----------------------------------------------------------------------------
(* Numbers, and what FlattenSeq yields: induction by a least counterexample. *)

LEMMA LeastElement ==
  ASSUME NEW T \in SUBSET Nat, T # {}
  PROVE  \E n \in T : \A m \in T : n <= m
<1> DEFINE R == {ss \in Nat \X Nat : ss[1] < ss[2]}
<1>1. R = OpToRel(<, Nat)
  BY Zenon DEF OpToRel
<1>2. IsWellFoundedOn(R, Nat)
  BY <1>1, NatLessThanWellFounded, Zenon
<1>3. PICK n \in T : \A m \in T : <<m, n>> \notin R
  <2> HIDE DEF R
  <2> QED
    BY <1>2, WFMin
<1>4. ASSUME NEW m \in T PROVE n <= m
  <2>1. <<m, n>> \in Nat \X Nat
    OBVIOUS
  <2>2. ~ (<<m, n>>[1] < <<m, n>>[2])
    BY <1>3, <2>1, <1>4
  <2> QED
    BY <2>2
<1> QED
  BY <1>4

LEMMA MaxElement ==
  ASSUME NEW n \in Nat, NEW T \in SUBSET (1 .. n), T # {}
  PROVE  Max(T) \in T
<1> DEFINE U == {u \in Nat : \A m \in T : m <= u}
<1>1. U \in SUBSET Nat /\ n \in U
  OBVIOUS
<1>2. PICK u \in U : \A v \in U : u <= v
  <2> HIDE DEF U
  <2> QED
    BY <1>1, LeastElement
<1>3. u \in T
  <2> SUFFICES ASSUME u \notin T PROVE FALSE
    OBVIOUS
  <2>1. u \in Nat /\ \A m \in T : m \in Nat /\ 1 <= m /\ m <= u /\ m # u
    OBVIOUS
  <2>2. u # 0
    <3>1. PICK m \in T : m \in Nat /\ 1 <= m /\ m <= u
      BY <2>1
    <3> HIDE DEF U
    <3> QED
      BY <2>1, <3>1
  <2>3. u - 1 \in U
    BY <2>1, <2>2
  <2> QED
    BY <1>2, <2>1, <2>3
<1> QED
  BY <1>3 DEF Max

LEMMA RangeOfConcat ==
  ASSUME NEW S, NEW a \in Seq(S), NEW b \in Seq(S)
  PROVE  a \o b \in Seq(S) /\ Range(a \o b) = Range(a) \cup Range(b)
<1> DEFINE c == a \o b
<1>1. /\ c \in Seq(S) /\ Len(c) = Len(a) + Len(b) /\ Len(a) \in Nat /\ Len(b) \in Nat
      /\ \A i \in 1 .. Len(a) + Len(b) : c[i] = IF i <= Len(a) THEN a[i] ELSE b[i - Len(a)]
  BY ConcatProperties
<1>2. DOMAIN c = 1 .. Len(c) /\ DOMAIN a = 1 .. Len(a) /\ DOMAIN b = 1 .. Len(b)
  BY <1>1, LenProperties
<1> HIDE DEF c
<1>3. \A i \in 1 .. Len(a) : i \in 1 .. Len(c) /\ c[i] = a[i]
  BY <1>1
<1>4. \A i \in 1 .. Len(b) : Len(a) + i \in 1 .. Len(c) /\ c[Len(a) + i] = b[i]
  BY <1>1
<1>5. \A i \in 1 .. Len(c) : i \in 1 .. Len(a) \/ i - Len(a) \in 1 .. Len(b)
  BY <1>1
<1>6. \A i \in 1 .. Len(c) : i \notin 1 .. Len(a) => c[i] = b[i - Len(a)]
  BY <1>1
<1>7. Range(c) = Range(a) \cup Range(b)
  <2>1. \A x : x \in Range(c) => x \in Range(a) \cup Range(b)
    BY <1>2, <1>3, <1>5, <1>6 DEF Range
  <2>2. \A x : x \in Range(a) \cup Range(b) => x \in Range(c)
    BY <1>2, <1>3, <1>4 DEF Range
  <2> QED
    BY <2>1, <2>2
<1> QED
  BY <1>1, <1>7 DEF c

\* The steps of the recursion in FlattenSeq.
Joins(seqs, f, n) == \A i \in 1 .. n : f[i] = IF i = 1 THEN seqs[i] ELSE f[i - 1] \o seqs[i]

\* The recursion has a solution.
LEMMA Joinable ==
  ASSUME NEW seqs, NEW n \in Nat
  PROVE  \E f : f = [i \in 1 .. n |-> IF i = 1 THEN seqs[i] ELSE f[i - 1] \o seqs[i]]
<1> DEFINE Solves(f, m) == f = [i \in 1 .. m |-> IF i = 1 THEN seqs[i] ELSE f[i - 1] \o seqs[i]]
           Wrong == {m \in Nat : ~\E f : Solves(f, m)}
<1>1. Solves([i \in 1 .. 0 |-> 0], 0)
  OBVIOUS
<1>2. ASSUME NEW m \in Nat, NEW f, Solves(f, m)
      PROVE  \E g : Solves(g, m + 1)
  <2> DEFINE e == IF m + 1 = 1 THEN seqs[m + 1] ELSE f[m] \o seqs[m + 1]
             g == [i \in 1 .. m + 1 |-> IF i = m + 1 THEN e ELSE f[i]]
  <2>1. \A i \in 1 .. m + 1 : g[i] = IF i = m + 1 THEN e ELSE f[i]
    OBVIOUS
  <2>2. \A i \in 1 .. m : f[i] = IF i = 1 THEN seqs[i] ELSE f[i - 1] \o seqs[i]
    BY <1>2
  <2>3. \A i \in 1 .. m + 1 : i # 1 => i - 1 \in 1 .. m /\ i - 1 \in 1 .. m + 1 /\ i - 1 # m + 1
    OBVIOUS
  <2>4. \A i \in 1 .. m + 1 : i # 1 => g[i - 1] = f[i - 1]
    <3> HIDE DEF g, e
    <3> QED
      BY <2>1, <2>3
  <2>5. \A i \in 1 .. m + 1 : g[i] = IF i = 1 THEN seqs[i] ELSE g[i - 1] \o seqs[i]
    <3> TAKE i \in 1 .. m + 1
    <3>1. CASE i = m + 1
      <4>1. g[i] = e
        BY <2>1, <3>1
      <4>2. i # 1 => i - 1 = m
        BY <3>1
      <4> HIDE DEF g
      <4> QED
        BY <2>4, <3>1, <4>1, <4>2
    <3>2. CASE i # m + 1
      <4>1. i \in 1 .. m /\ g[i] = f[i]
        BY <2>1, <3>2
      <4> HIDE DEF g
      <4> QED
        BY <2>2, <2>4, <4>1
    <3> QED
      BY <3>1, <3>2
  <2>6. g = [i \in 1 .. m + 1 |-> g[i]]
    OBVIOUS
  <2> HIDE DEF g
  <2>7. Solves(g, m + 1)
    BY <2>5, <2>6
  <2> QED
    BY <2>7
<1>3. Wrong = {}
  <2> SUFFICES ASSUME Wrong # {} PROVE FALSE
    OBVIOUS
  <2>1. PICK m \in Wrong : \A k \in Wrong : m <= k
    <3>1. Wrong \in SUBSET Nat
      OBVIOUS
    <3> HIDE DEF Wrong
    <3> QED
      BY <3>1, LeastElement
  <2>2. m \in Nat /\ ~\E f : Solves(f, m)
    BY <2>1
  <2>3. m # 0
    BY <1>1, <2>2
  <2>4. m - 1 \in Nat /\ (m - 1) + 1 = m /\ ~(m <= m - 1)
    BY <2>2, <2>3
  <2>5. m - 1 \notin Wrong
    BY <2>1, <2>4
  <2>6. PICK f : Solves(f, m - 1)
    BY <2>4, <2>5
  <2>7. \E g : Solves(g, (m - 1) + 1)
    BY <1>2, <2>4, <2>6
  <2> QED
    BY <2>2, <2>4, <2>7
<1> QED
  BY <1>3

LEMMA JoinedSeqs ==
  ASSUME NEW S, NEW seqs \in Seq(Seq(S)), NEW f, Joins(seqs, f, Len(seqs)),
         NEW n \in 1 .. Len(seqs)
  PROVE  /\ f[n] \in Seq(S)
         /\ \A x : x \in Range(f[n]) <=> \E k \in 1 .. n : x \in Range(seqs[k])
         /\ seqs[1] # <<>> => f[n] # <<>> /\ Head(f[n]) = Head(seqs[1])
<1> DEFINE Right(m) == /\ f[m] \in Seq(S)
                       /\ \A x : x \in Range(f[m]) <=> \E k \in 1 .. m : x \in Range(seqs[k])
                       /\ seqs[1] # <<>> => f[m] # <<>> /\ Head(f[m]) = Head(seqs[1])
           Wrong == {m \in 1 .. Len(seqs) : ~Right(m)}
<1>1. \A k \in 1 .. Len(seqs) : seqs[k] \in Seq(S)
  OBVIOUS
<1>2. Right(1)
  <2>1. f[1] = seqs[1]
    <3>1. 1 \in 1 .. Len(seqs)
      OBVIOUS
    <3>2. f[1] = IF 1 = 1 THEN seqs[1] ELSE f[1 - 1] \o seqs[1]
      BY <3>1, Zenon DEF Joins
    <3> QED
      BY <3>2, Zenon
  <2> QED
    BY <1>1, <2>1
<1>3. ASSUME NEW m \in 2 .. Len(seqs), Right(m - 1)
      PROVE  Right(m)
  <2> DEFINE a == f[m - 1]
             b == seqs[m]
  <2>1. a \in Seq(S) /\ b \in Seq(S)
    BY <1>1, <1>3
  <2>2. f[m] = a \o b
    <3>1. m \in 1 .. Len(seqs) /\ m # 1
      OBVIOUS
    <3>2. f[m] = IF m = 1 THEN seqs[m] ELSE f[m - 1] \o seqs[m]
      BY <3>1, Zenon DEF Joins
    <3> QED
      BY <3>1, <3>2
  <2> HIDE DEF a, b
  <2>3. a \o b \in Seq(S) /\ \A x : x \in Range(a \o b) <=> x \in Range(a) \cup Range(b)
    BY <2>1, RangeOfConcat
  <2>4. a # <<>> => a \o b # <<>> /\ Head(a \o b) = Head(a)
    BY <2>1
  <2>5. \A x : (\E k \in 1 .. m : x \in Range(seqs[k]))
                <=> (\E k \in 1 .. m - 1 : x \in Range(seqs[k])) \/ x \in Range(b)
    <3>1. 1 .. m = (1 .. m - 1) \cup {m}
      OBVIOUS
    <3> QED
      BY <3>1 DEF b
  <2> QED
    BY <1>3, <2>2, <2>3, <2>4, <2>5 DEF a
<1>4. Wrong = {}
  <2> SUFFICES ASSUME Wrong # {} PROVE FALSE
    OBVIOUS
  <2> HIDE DEF Right
  <2>1. PICK m \in Wrong : \A k \in Wrong : m <= k
    <3>1. Wrong \in SUBSET Nat
      OBVIOUS
    <3> HIDE DEF Wrong
    <3> QED
      BY <3>1, LeastElement
  <2>2. m # 1
    BY <1>2
  <2>3. m - 1 \in 1 .. Len(seqs) /\ m - 1 \notin Wrong
    BY <2>1, <2>2
  <2> QED
    BY <1>3, <2>1, <2>2, <2>3
<1> QED
  BY <1>4

\* FlattenSeq joins the sequences one after the other, and no element is lost.
LEMMA Flattened ==
  ASSUME NEW S, NEW seqs \in Seq(Seq(S))
  PROVE  /\ FlattenSeq(seqs) \in Seq(S)
         /\ \A x : x \in Range(FlattenSeq(seqs)) <=> \E k \in 1 .. Len(seqs) : x \in Range(seqs[k])
         /\ Len(seqs) # 0 /\ seqs[1] # <<>> =>
              FlattenSeq(seqs) # <<>> /\ Head(FlattenSeq(seqs)) = Head(seqs[1])
<1>1. CASE Len(seqs) = 0
  <2>1. FlattenSeq(seqs) = <<>> /\ seqs = <<>>
    BY <1>1 DEF FlattenSeq
  <2> QED
    BY <1>1, <2>1 DEF Range
<1>2. CASE Len(seqs) # 0
  <2> DEFINE flatten[i \in 1 .. Len(seqs)] ==
               IF i = 1 THEN seqs[i] ELSE flatten[i - 1] \o seqs[i]
  <2>1. FlattenSeq(seqs) = flatten[Len(seqs)]
    BY <1>2, Zenon DEF FlattenSeq
  <2>2. Joins(seqs, flatten, Len(seqs))
    <3>1. \E f : f = [i \in 1 .. Len(seqs) |-> IF i = 1 THEN seqs[i] ELSE f[i - 1] \o seqs[i]]
      <4>1. Len(seqs) \in Nat
        OBVIOUS
      <4> QED
        BY <4>1, Joinable
    <3>2. flatten = [i \in 1 .. Len(seqs) |-> IF i = 1 THEN seqs[i] ELSE flatten[i - 1] \o seqs[i]]
      BY <3>1, Zenon
    <3> HIDE DEF flatten
    <3> QED
      BY <3>2 DEF Joins
  <2>3. Len(seqs) \in 1 .. Len(seqs)
    BY <1>2
  <2> HIDE DEF flatten
  <2>4. /\ flatten[Len(seqs)] \in Seq(S)
        /\ \A x : x \in Range(flatten[Len(seqs)]) <=> \E k \in 1 .. Len(seqs) : x \in Range(seqs[k])
        /\ seqs[1] # <<>> =>
             flatten[Len(seqs)] # <<>> /\ Head(flatten[Len(seqs)]) = Head(seqs[1])
    BY <2>2, <2>3, JoinedSeqs
  <2> QED
    BY <2>1, <2>4
<1> QED
  BY <1>1, <1>2

LEMMA HeadAndTail ==
  ASSUME NEW S, NEW q \in Seq(S), q # <<>>
  PROVE  /\ Head(q) \in S /\ Tail(q) \in Seq(S) /\ Range(q) = {Head(q)} \cup Range(Tail(q))
         /\ Len(q) = 1 <=> Tail(q) = <<>>
<1> DEFINE t == Tail(q)
<1>1. Len(q) \in Nat \ {0} /\ DOMAIN q = 1 .. Len(q) /\ Head(q) = q[1]
  OBVIOUS
<1>2. /\ t \in Seq(S) /\ Len(t) = Len(q) - 1 /\ DOMAIN t = 1 .. Len(q) - 1
      /\ \A n \in 1 .. Len(q) - 1 : t[n] = q[n + 1]
  BY HeadTailProperties
<1> HIDE DEF t
<1>3. /\ 1 \in 1 .. Len(q)
      /\ \A n \in 1 .. Len(q) - 1 : n + 1 \in 1 .. Len(q)
      /\ \A n \in 1 .. Len(q) : n = 1 \/ (n - 1 \in 1 .. Len(q) - 1 /\ (n - 1) + 1 = n)
  <2>1. \A m \in Nat \ {0} : /\ 1 \in 1 .. m
                             /\ \A n \in 1 .. m - 1 : n + 1 \in 1 .. m
                             /\ \A n \in 1 .. m : n = 1 \/ (n - 1 \in 1 .. m - 1 /\ (n - 1) + 1 = n)
    OBVIOUS
  <2> QED
    BY <1>1, <2>1
<1>4. Range(q) \subseteq {Head(q)} \cup Range(t)
  <2> SUFFICES ASSUME NEW n \in 1 .. Len(q)
               PROVE  q[n] \in {Head(q)} \cup Range(t)
    BY <1>1 DEF Range
  <2>1. CASE n = 1
    BY <1>1, <2>1
  <2>2. CASE n # 1
    <3>1. n - 1 \in 1 .. Len(q) - 1 /\ t[n - 1] = q[n]
      BY <1>2, <1>3, <2>2
    <3> QED
      BY <1>2, <3>1 DEF Range
  <2> QED
    BY <2>1, <2>2
<1>5. {Head(q)} \cup Range(t) \subseteq Range(q)
  BY <1>1, <1>2, <1>3 DEF Range
<1>6. Len(q) = 1 <=> t = <<>>
  BY <1>1, <1>2
<1>7. Head(q) \in S
  BY <1>1, <1>3
<1> QED
  BY <1>2, <1>4, <1>5, <1>6, <1>7 DEF t

-----------------------------------------------------------------------------
(* What the readers of the journal find, in terms of the lines it holds.     *)

LEMMA LinesHeld ==
  ASSUME TypeOK
  PROVE  Lines \in Seq(Line) /\ Range(Lines) = Held
BY RangeOfConcat DEF TypeOK, Lines, Held, PrevLines, CurLines

LEMMA LineTypes ==
  ASSUME TypeOK
  PROVE  \A l \in Held : l \in Line
<1>1. \A s \in Seq(Line) : \A l \in Range(s) : l \in Line
  BY DEF Range
<1> QED
  BY <1>1 DEF TypeOK, Held, PrevLines, CurLines

LEMMA MarksFound ==
  ASSUME TypeOK, NEW o, NEW i \in Items
  PROVE  /\ Marks(o, i) # {} <=> Marked(Held, o, i)
         /\ Event(o, i) = "none" <=> ~Marked(Held, o, i)
         /\ Event(o, i) \in Acts \cup {"none"}
<1>1. /\ Lines \in Seq(Line) /\ Len(Lines) \in Nat /\ DOMAIN Lines = 1 .. Len(Lines)
      /\ Range(Lines) = Held
  BY LinesHeld
<1>2. Marks(o, i) # {} <=> Marked(Held, o, i)
  BY <1>1 DEF Marks, Of, Marked, ActOn, Range
<1>3. ASSUME Marks(o, i) # {}
      PROVE  Event(o, i) \in Acts
  <2>1. Marks(o, i) \in SUBSET (1 .. Len(Lines))
    BY <1>1 DEF Marks, Of
  <2>2. Max(Marks(o, i)) \in Marks(o, i)
    BY <1>1, <1>3, <2>1, MaxElement
  <2> QED
    BY <1>3, <2>2 DEF Event, Marks
<1> QED
  BY <1>2, <1>3 DEF Event, Acts

LEMMA Reading ==
  ASSUME TypeOK
  PROVE  /\ \A o : Terminal(o) <=> Ended(Held, o)
         /\ \A o : SeenInCurrent(o) <=> Seen(CurLines, o)
         /\ \A o : (\E n \in DOMAIN prev : prev[n].op = o) <=> Seen(PrevLines, o)
         /\ Intact <=> Garbled \notin Held
         /\ \A o \in Ops : o \in InDoubt <=>
              ~Ended(Held, o) /\ \E i \in Items : Marked(Held, o, i)
         /\ \A o : Known(o) \subseteq Items
<1>1. Lines \in Seq(Line) /\ Range(Lines) = Held
  BY LinesHeld
<1>2. \A o : Terminal(o) <=> Ended(Held, o)
  BY <1>1 DEF Terminal, Of, Ended, EndOf, Range
<1>3. \A o : SeenInCurrent(o) <=> Seen(CurLines, o)
  BY DEF SeenInCurrent, Seen, CurLines, Range
<1>4. \A o : (\E n \in DOMAIN prev : prev[n].op = o) <=> Seen(PrevLines, o)
  BY DEF Seen, PrevLines, Range
<1>5. Intact <=> Garbled \notin Held
  BY <1>1 DEF Intact, Range
<1>6. \A o \in Ops : o \in InDoubt <=> ~Ended(Held, o) /\ \E i \in Items : Marked(Held, o, i)
  BY <1>2, MarksFound DEF InDoubt, Touched
<1>7. \A o : Known(o) \subseteq Items
  <2>1. \A n \in DOMAIN Lines : Lines[n] \in Line
    BY <1>1
  <2>2. \A l \in Line : l.items \subseteq Items
    BY DEF Line, Garbled, Rec
  <2> QED
    BY <2>1, <2>2 DEF Known, Of
<1> QED
  BY <1>2, <1>3, <1>4, <1>5, <1>6, <1>7

\* With no more operations in doubt than it can analyse, an audit selects all.
LEMMA AllSelected ==
  ASSUME JournalAssumption, TypeOK, Cardinality(InDoubt) <= MaxInDoubt
  PROVE  Selected = InDoubt
<1>1. IsFiniteSet(InDoubt)
  BY FS_Subset DEF InDoubt, JournalAssumption
<1>2. ASSUME NEW o \in InDoubt
      PROVE  Cardinality({p \in InDoubt : Max(Of(p)) > Max(Of(o))}) < MaxInDoubt
  <2> DEFINE Newer == {p \in InDoubt : Max(Of(p)) > Max(Of(o))}
  <2>1. o \notin Newer
    <3>1. Lines \in Seq(Line) /\ Len(Lines) \in Nat /\ Of(o) \in SUBSET (1 .. Len(Lines))
      BY LinesHeld DEF Of
    <3>2. PICK i \in Items : Marks(o, i) # {}
      BY DEF InDoubt, Touched
    <3>3. Max(Of(o)) \in Of(o)
      BY <3>1, <3>2, MaxElement DEF Marks
    <3>4. ~ (Max(Of(o)) > Max(Of(o)))
      BY <3>1, <3>3
    <3> QED
      BY <3>4
  <2>2. Newer \in SUBSET (InDoubt \ {o})
    BY <2>1
  <2>3. IsFiniteSet(InDoubt \ {o}) /\ Cardinality(InDoubt \ {o}) = Cardinality(InDoubt) - 1
    BY <1>1, FS_RemoveElement
  <2>4. Cardinality(Newer) <= Cardinality(InDoubt \ {o})
    BY <2>2, <2>3, FS_Subset
  <2>5. Cardinality(InDoubt) \in Nat /\ IsFiniteSet(Newer)
    BY <1>1, <2>2, <2>3, FS_Subset, FS_CardinalityType
  <2>6. Cardinality(Newer) \in Nat /\ MaxInDoubt \in Nat
    BY <2>5, FS_CardinalityType DEF JournalAssumption
  <2> HIDE DEF Newer
  <2>7. Cardinality(Newer) < MaxInDoubt
    BY <2>3, <2>4, <2>5, <2>6
  <2> QED
    BY <2>7 DEF Newer
<1> QED
  BY <1>2 DEF Selected

-----------------------------------------------------------------------------
(* The records an audit appends.                                             *)

LEMMA Arranged ==
  ASSUME NEW S, IsFiniteSet(S), NEW f \in SetToSeqs(S)
  PROVE  /\ f \in Seq(S) /\ Len(f) = Cardinality(S) /\ DOMAIN f = 1 .. Len(f) /\ Len(f) \in Nat
         /\ Range(f) = S
<1> DEFINE n == Cardinality(S)
<1>1. n \in Nat /\ f \in [1 .. n -> S] /\ \A i, j \in 1 .. n : i # j => f[i] # f[j]
  BY FS_CardinalityType DEF SetToSeqs
<1> HIDE DEF n
<1>2. f \in Injection(1 .. n, S)
  BY <1>1 DEF Injection, IsInjective
<1>3. Cardinality(1 .. n) = n
  BY <1>1, FS_Interval
<1>4. f \in Surjection(1 .. n, S)
  BY <1>2, <1>3, FS_Injection DEF n
<1>5. \A x \in S : \E i \in 1 .. n : f[i] = x
  BY <1>4 DEF Surjection
<1>6. f \in Seq(S) /\ Len(f) = n
  BY <1>1
<1> QED
  BY <1>1, <1>5, <1>6 DEF n, Range

LEMMA CopyOfType ==
  ASSUME TypeOK, NEW o \in Ops, NEW i \in Items
  PROVE  /\ CopyOf(o, i) \in Seq(Line)
         /\ \A l \in Range(CopyOf(o, i)) : l.op = o /\ l.event \in Acts
         /\ Event(o, i) # "none" => Marked(Range(CopyOf(o, i)), o, i)
<1>1. Event(o, i) \in Acts \cup {"none"}
  BY MarksFound
<1>2. \A e \in Acts : Rec(e, o, {i}) \in Line
  BY DEF Line, Rec, Events
<1>3. CASE Event(o, i) = "none"
  BY <1>3 DEF CopyOf, Range
<1>4. CASE Event(o, i) = "failed"
  <2>1. CopyOf(o, i) = <<Rec("moving", o, {i}), Rec("failed", o, {i})>>
    BY <1>4 DEF CopyOf
  <2>2. CopyOf(o, i) \in Seq(Line)
    BY <1>2, <2>1 DEF Acts
  <2>3. Range(CopyOf(o, i)) = {Rec("moving", o, {i}), Rec("failed", o, {i})}
    BY <2>1 DEF Range
  <2> QED
    BY <2>2, <2>3 DEF Rec, Marked, ActOn, Acts
<1>5. CASE Event(o, i) \in {"moving", "moved"}
  <2>1. CopyOf(o, i) = <<Rec(Event(o, i), o, {i})>>
    BY <1>5 DEF CopyOf
  <2>2. CopyOf(o, i) \in Seq(Line)
    BY <1>2, <1>5, <2>1 DEF Acts
  <2>3. Range(CopyOf(o, i)) = {Rec(Event(o, i), o, {i})}
    BY <2>1 DEF Range
  <2> QED
    BY <1>5, <2>2, <2>3 DEF Rec, Marked, ActOn, Acts
<1> QED
  BY <1>1, <1>3, <1>4, <1>5 DEF Acts

\* A checkpoint begins with the plan and holds a record of every move on record.
LEMMA Checkpoint ==
  ASSUME JournalAssumption, TypeOK, NEW o \in Ops, NEW order \in SetToSeqs(Items)
  PROVE  LET c == CheckpointRecords(o, order)
         IN  /\ c \in Seq(Line) /\ c # <<>>
             /\ Head(c).event = "planned" /\ Head(c).op = o
             /\ \A l \in Range(c) : l.op = o /\ l.event \in Acts \cup {"planned"}
             /\ \A i \in Items : Event(o, i) # "none" => Marked(Range(c), o, i)
<1> DEFINE plan == Rec("planned", o, Known(o))
           copies == [n \in DOMAIN order |-> CopyOf(o, order[n])]
           rest == FlattenSeq(copies)
<1>1. /\ order \in Seq(Items) /\ DOMAIN order = 1 .. Len(order) /\ Len(order) \in Nat
      /\ Range(order) = Items
  BY Arranged DEF JournalAssumption
<1>2. \A n \in 1 .. Len(order) : order[n] \in Items
  BY <1>1
<1>3. copies \in Seq(Seq(Line)) /\ Len(copies) = Len(order)
  <2>1. copies \in [1 .. Len(order) -> Seq(Line)]
    BY <1>1, <1>2, CopyOfType
  <2> QED
    BY <1>1, <2>1
<1>4. /\ rest \in Seq(Line)
      /\ \A l : l \in Range(rest) <=> \E k \in 1 .. Len(order) : l \in Range(CopyOf(o, order[k]))
  <2>1. \A k \in 1 .. Len(order) : copies[k] = CopyOf(o, order[k])
    BY <1>1
  <2> HIDE DEF copies
  <2> QED
    BY <1>3, <2>1, Flattened
<1> HIDE DEF rest
<1>5. plan \in Line /\ <<plan>> \in Seq(Line) /\ Range(<<plan>>) = {plan}
  <2>1. plan \in Line
    BY Reading DEF Line, Rec, Events
  <2> HIDE DEF plan
  <2> QED
    BY <2>1 DEF Range
<1>6. CheckpointRecords(o, order) = <<plan>> \o rest
  BY DEF CheckpointRecords, rest
<1>7. <<plan>> \o rest \in Seq(Line) /\ Range(<<plan>> \o rest) = {plan} \cup Range(rest)
  <2> DEFINE one == <<plan>>
  <2>1. one \in Seq(Line) /\ Range(one) = {plan}
    BY <1>5
  <2> HIDE DEF one, plan
  <2>2. one \o rest \in Seq(Line) /\ Range(one \o rest) = Range(one) \cup Range(rest)
    <3>1. rest \in Seq(Line)
      BY <1>4
    <3> QED
      BY <2>1, <3>1, RangeOfConcat
  <2> QED
    BY <2>1, <2>2 DEF one
<1>8. <<plan>> \o rest # <<>> /\ Head(<<plan>> \o rest) = plan
  <2> HIDE DEF plan
  <2> QED
    BY <1>4, <1>5
<1>9. plan.event = "planned" /\ plan.op = o
  BY DEF Rec
<1>10. \A l \in Range(rest) : l.op = o /\ l.event \in Acts
  BY <1>2, <1>4, CopyOfType
<1>11. \A i \in Items : Event(o, i) # "none" => Marked(Range(rest), o, i)
  <2> SUFFICES ASSUME NEW i \in Items, Event(o, i) # "none" PROVE Marked(Range(rest), o, i)
    OBVIOUS
  <2>1. PICK k \in 1 .. Len(order) : order[k] = i
    BY <1>1 DEF Range
  <2>2. PICK l \in Range(CopyOf(o, i)) : ActOn(l, o, i)
    BY CopyOfType DEF Marked
  <2> QED
    BY <1>4, <2>1, <2>2 DEF Marked
<1> HIDE DEF plan
<1> QED
  BY <1>6, <1>7, <1>8, <1>9, <1>10, <1>11 DEF Marked

\* The queue of an audit that copies some operations and settles others.
AuditRecords(opsOrder, endOrder, itemOrder) ==
  FlattenSeq([n \in DOMAIN opsOrder |-> CheckpointRecords(opsOrder[n], itemOrder[opsOrder[n]])])
    \o [n \in DOMAIN endOrder |-> Rec("reconciled", endOrder[n], {})]

LEMMA AuditQueue ==
  ASSUME JournalAssumption, TypeOK,
         NEW copied \in SUBSET Ops, NEW resolved \in SUBSET Ops, copied \cup resolved # {},
         NEW opsOrder \in SetToSeqs(copied), NEW endOrder \in SetToSeqs(resolved),
         NEW itemOrder \in [copied -> SetToSeqs(Items)], NEW q,
         q = AuditRecords(opsOrder, endOrder, itemOrder)
  PROVE  /\ q \in Seq(Line) /\ q # <<>>
         /\ \A l \in Range(q) : \/ l.op \in copied /\ l.event \in Acts \cup {"planned"}
                                \/ l.op \in resolved /\ l.event = "reconciled"
         /\ Head(q).event \notin Acts /\ Head(q).op \in copied \cup resolved
         /\ \A o \in copied, i \in Items : Event(o, i) # "none" => Marked(Range(q), o, i)
         /\ \A o \in resolved : Ended(Range(q), o)
<1> DEFINE seqs == [n \in DOMAIN opsOrder |->
                      CheckpointRecords(opsOrder[n], itemOrder[opsOrder[n]])]
           a == FlattenSeq(seqs)
           b == [n \in DOMAIN endOrder |-> Rec("reconciled", endOrder[n], {})]
<1>1. IsFiniteSet(copied) /\ IsFiniteSet(resolved)
  BY FS_Subset DEF JournalAssumption
<1>2. /\ DOMAIN opsOrder = 1 .. Len(opsOrder) /\ Len(opsOrder) \in Nat /\ Range(opsOrder) = copied
      /\ DOMAIN endOrder = 1 .. Len(endOrder) /\ Len(endOrder) \in Nat /\ Range(endOrder) = resolved
  BY <1>1, Arranged
<1>3. \A n \in 1 .. Len(opsOrder) : opsOrder[n] \in copied /\ itemOrder[opsOrder[n]] \in SetToSeqs(Items)
  BY <1>2 DEF Range
<1>4. seqs \in Seq(Seq(Line)) /\ Len(seqs) = Len(opsOrder)
  <2>1. seqs \in [1 .. Len(opsOrder) -> Seq(Line)]
    BY <1>2, <1>3, Checkpoint
  <2> QED
    BY <1>2, <2>1
<1>5. \A n \in 1 .. Len(opsOrder) : seqs[n] = CheckpointRecords(opsOrder[n], itemOrder[opsOrder[n]])
  BY <1>2
<1> HIDE DEF seqs
<1>6. /\ a \in Seq(Line)
      /\ \A l : l \in Range(a) <=> \E k \in 1 .. Len(opsOrder) : l \in Range(seqs[k])
      /\ Len(opsOrder) # 0 /\ seqs[1] # <<>> => a # <<>> /\ Head(a) = Head(seqs[1])
  BY <1>4, Flattened
<1> HIDE DEF a
<1>7. b \in Seq(Line) /\ Len(b) = Len(endOrder) /\ DOMAIN b = 1 .. Len(endOrder)
  <2>1. \A n \in 1 .. Len(endOrder) : Rec("reconciled", endOrder[n], {}) \in Line
    BY <1>2 DEF Line, Rec, Events, Terminals, Range
  <2>2. b \in [1 .. Len(endOrder) -> Line]
    BY <1>2, <2>1
  <2> QED
    BY <1>2, <2>2
<1>8. \A n \in 1 .. Len(endOrder) : b[n] = Rec("reconciled", endOrder[n], {})
  BY <1>2
<1> HIDE DEF b
<1>9. q = a \o b
  BY DEF a, b, seqs, AuditRecords
<1>10. q \in Seq(Line) /\ Range(q) = Range(a) \cup Range(b)
  <2>1. a \in Seq(Line) /\ b \in Seq(Line)
    BY <1>6, <1>7
  <2>2. a \o b \in Seq(Line) /\ Range(a \o b) = Range(a) \cup Range(b)
    BY <2>1, RangeOfConcat
  <2> QED
    BY <1>9, <2>2
<1>11. \A l \in Range(a) : l.op \in copied /\ l.event \in Acts \cup {"planned"}
  BY <1>3, <1>5, <1>6, Checkpoint
<1>12. \A l \in Range(b) : l.op \in resolved /\ l.event = "reconciled"
  BY <1>2, <1>7, <1>8 DEF Range, Rec
<1>13. \A o \in resolved : Ended(Range(b), o)
  <2> TAKE o \in resolved
  <2>1. PICK n \in 1 .. Len(endOrder) : endOrder[n] = o
    BY <1>2 DEF Range
  <2>2. b[n] \in Range(b)
    BY <1>7 DEF Range
  <2>3. b[n].op = o /\ b[n].event = "reconciled"
    <3>1. b[n] = Rec("reconciled", endOrder[n], {})
      BY <1>8
    <3> QED
      BY <2>1, <3>1 DEF Rec
  <2> QED
    BY <2>2, <2>3 DEF Ended, EndOf, Terminals
<1>14. \A o \in copied, i \in Items : Event(o, i) # "none" => Marked(Range(a), o, i)
  <2> SUFFICES ASSUME NEW o \in copied, NEW i \in Items, Event(o, i) # "none"
               PROVE  Marked(Range(a), o, i)
    OBVIOUS
  <2>1. PICK n \in 1 .. Len(opsOrder) : opsOrder[n] = o
    BY <1>2 DEF Range
  <2>2. Marked(Range(seqs[n]), o, i)
    BY <1>3, <1>5, <2>1, Checkpoint
  <2> QED
    BY <1>6, <2>2 DEF Marked
<1>15. q # <<>> /\ Head(q).event \notin Acts /\ Head(q).op \in copied \cup resolved
  <2>1. CASE Len(opsOrder) # 0
    <3>1. 1 \in 1 .. Len(opsOrder)
      BY <1>2, <2>1
    <3>2. seqs[1] # <<>> /\ Head(seqs[1]).event = "planned" /\ Head(seqs[1]).op \in copied
      BY <1>3, <1>5, <3>1, Checkpoint
    <3>3. a # <<>> /\ Head(a) = Head(seqs[1])
      BY <1>6, <2>1, <3>2
    <3>4. q # <<>> /\ Head(q) = Head(a)
      BY <1>6, <1>7, <1>9, <3>3
    <3> QED
      BY <3>2, <3>3, <3>4 DEF Acts
  <2>2. CASE Len(opsOrder) = 0
    <3>1. copied = {} /\ Range(a) = {}
      BY <1>2, <1>6, <2>2 DEF Range
    <3>2. a = <<>>
      <4>1. Len(a) \in Nat /\ DOMAIN a = 1 .. Len(a)
        BY <1>6
      <4>2. 1 \notin DOMAIN a
        BY <3>1 DEF Range
      <4>3. Len(a) = 0
        BY <4>1, <4>2
      <4> QED
        BY <1>6, <4>3
    <3>3. Len(endOrder) # 0
      BY <1>2, <3>1 DEF Range
    <3>4. q = b
      BY <1>7, <1>9, <3>2, ConcatEmptySeq
    <3>5. b # <<>> /\ Head(b) = b[1] /\ 1 \in 1 .. Len(endOrder)
      BY <1>2, <1>7, <3>3
    <3>6. Head(b) \in Range(b)
      BY <1>7, <3>5 DEF Range
    <3> QED
      BY <1>12, <3>4, <3>5, <3>6 DEF Acts
  <2> QED
    BY <2>1, <2>2
<1> QED
  BY <1>10, <1>11, <1>12, <1>13, <1>14, <1>15 DEF Marked, Ended

-----------------------------------------------------------------------------
(* What a write does to the lines, whether it succeeds or not.               *)

LEMMA SolidLines ==
  ASSUME TypeOK, openTail => cur # <<>>
  PROVE  /\ Solid \subseteq CurLines
         /\ ~openTail => Solid = CurLines
BY DEF TypeOK, Solid, SolidLength, CurLines, Range

\* A failed write may leave a part of the record, and a torn line.
Grows(r) ==
  /\ prev' = prev /\ cur' \in Seq(Line) /\ openTail' \in BOOLEAN /\ faults' \in 0 .. MaxFaults
  /\ openTail' => cur' # <<>>
  /\ PrevLines' = PrevLines
  /\ Solid \subseteq Solid' /\ Solid' \subseteq CurLines'
  /\ CurLines' \subseteq CurLines \cup {r, Garbled}

LEMMA WithLine ==
  ASSUME TypeOK, openTail => cur # <<>>, NEW r \in Line, cur' = With(cur, openTail, r)
  PROVE  /\ cur' \in Seq(Line) /\ cur' # <<>>
         /\ CurLines' \subseteq CurLines \cup {r, Garbled}
         /\ \A n \in 1 .. SolidLength : n \in 1 .. Len(cur') - 1 /\ cur'[n] = cur[n]
         /\ ~openTail => CurLines' = CurLines \cup {r}
<1>1. cur \in Seq(Line) /\ Garbled \in Line /\ Len(cur) \in Nat /\ DOMAIN cur = 1 .. Len(cur)
  BY DEF TypeOK, Line
<1>2. CASE openTail
  <2>1. cur' = [cur EXCEPT ![Len(cur)] = Garbled] /\ Len(cur) \in 1 .. Len(cur)
    BY <1>1, <1>2 DEF With
  <2>2. /\ cur' \in Seq(Line) /\ Len(cur') = Len(cur)
        /\ \A n \in 1 .. Len(cur) : cur'[n] = IF n = Len(cur) THEN Garbled ELSE cur[n]
    BY <1>1, <2>1, ExceptSeq
  <2>3. DOMAIN cur' = 1 .. Len(cur)
    BY <2>2
  <2>4. CurLines' \subseteq CurLines \cup {r, Garbled}
    BY <1>1, <2>2, <2>3 DEF CurLines, Range
  <2>5. SolidLength = Len(cur) - 1
    BY <1>2 DEF SolidLength
  <2>6. \A n \in 1 .. Len(cur) - 1 : n \in 1 .. Len(cur) /\ n # Len(cur)
    <3>1. \A m \in Nat : \A n \in 1 .. m - 1 : n \in 1 .. m /\ n # m
      OBVIOUS
    <3> QED
      BY <1>1, <3>1
  <2>7. \A n \in 1 .. SolidLength : n \in 1 .. Len(cur') - 1 /\ cur'[n] = cur[n]
    BY <2>2, <2>5, <2>6
  <2>8. cur' # <<>>
    BY <1>1, <2>1, <2>2
  <2> QED
    BY <1>2, <2>2, <2>4, <2>7, <2>8
<1>3. CASE ~openTail
  <2>1. cur' = Append(cur, r)
    BY <1>3 DEF With
  <2>2. /\ cur' \in Seq(Line) /\ Len(cur') = Len(cur) + 1
        /\ \A n \in 1 .. Len(cur) : cur'[n] = cur[n]
        /\ cur'[Len(cur) + 1] = r
    BY <1>1, <2>1, AppendProperties
  <2>3. DOMAIN cur' = 1 .. Len(cur) + 1
    BY <2>2
  <2>4. \A n \in 1 .. Len(cur) + 1 : n = Len(cur) + 1 \/ n \in 1 .. Len(cur)
    BY <1>1
  <2>5. Len(cur) + 1 \in 1 .. Len(cur) + 1 /\ \A n \in 1 .. Len(cur) : n \in 1 .. Len(cur) + 1
    BY <1>1
  <2>6. CurLines' = CurLines \cup {r}
    BY <1>1, <2>2, <2>3, <2>4, <2>5 DEF CurLines, Range
  <2>7. \A n \in 1 .. SolidLength : n \in 1 .. Len(cur') - 1 /\ cur'[n] = cur[n]
    BY <1>1, <1>3, <2>2 DEF SolidLength
  <2>8. cur' # <<>>
    BY <1>1, <2>2
  <2> QED
    BY <1>3, <2>2, <2>6, <2>7, <2>8
<1> QED
  BY <1>2, <1>3

LEMMA Recorded ==
  ASSUME TypeOK, openTail => cur # <<>>, NEW r \in Line, Record(r)
  PROVE  /\ Grows(r) /\ openTail' = FALSE /\ Solid' = CurLines'
         /\ ~openTail => CurLines' = CurLines \cup {r}
<1>1. cur' = With(cur, openTail, r) /\ openTail' = FALSE /\ UNCHANGED <<prev, faults>>
  BY DEF Record
<1>2. /\ cur' \in Seq(Line) /\ cur' # <<>>
      /\ CurLines' \subseteq CurLines \cup {r, Garbled}
      /\ \A n \in 1 .. SolidLength : n \in 1 .. Len(cur') /\ cur'[n] = cur[n]
      /\ ~openTail => CurLines' = CurLines \cup {r}
  <2>1. \A n \in 1 .. Len(cur') - 1 : n \in 1 .. Len(cur')
    <3>1. cur' \in Seq(Line)
      BY <1>1, WithLine
    <3>2. Len(cur') \in Nat
      BY <3>1
    <3> QED
      BY <3>2
  <2> QED
    BY <1>1, <2>1, WithLine
<1>3. Solid' = CurLines'
  BY <1>1, <1>2 DEF Solid, SolidLength, CurLines, Range
<1>4. Solid \subseteq CurLines'
  <2>1. DOMAIN cur' = 1 .. Len(cur')
    BY <1>2
  <2> QED
    BY <1>2, <2>1 DEF Solid, CurLines, Range
<1>5. faults' \in 0 .. MaxFaults /\ PrevLines' = PrevLines
  BY <1>1 DEF TypeOK, PrevLines
<1> QED
  BY <1>1, <1>2, <1>3, <1>4, <1>5 DEF Grows

LEMMA WriteFailed ==
  ASSUME JournalAssumption, TypeOK, openTail => cur # <<>>, NEW r \in Line, RecordFails(r)
  PROVE  Grows(r)
<1>1. prev' = prev /\ faults' \in 0 .. MaxFaults /\ PrevLines' = PrevLines
  BY DEF RecordFails, Fault, TypeOK, JournalAssumption, PrevLines
<1>2. CASE UNCHANGED <<cur, openTail>>
  <2>1. Solid' = Solid /\ CurLines' = CurLines
    BY <1>2 DEF Solid, SolidLength, CurLines
  <2> QED
    BY <1>1, <1>2, <2>1, SolidLines DEF Grows, TypeOK
<1>3. ASSUME NEW l \in {r, Garbled}, cur' = With(cur, openTail, l), openTail' \in BOOLEAN
      PROVE  Grows(r)
  <2>1. l \in Line
    BY <1>3 DEF Line
  <2>2. /\ cur' \in Seq(Line) /\ cur' # <<>>
        /\ CurLines' \subseteq CurLines \cup {l, Garbled}
        /\ \A n \in 1 .. SolidLength : n \in 1 .. Len(cur') - 1 /\ cur'[n] = cur[n]
    BY <1>3, <2>1, WithLine
  <2>3. Len(cur') \in Nat /\ DOMAIN cur' = 1 .. Len(cur')
    BY <2>2
  <2>4. \A n \in 1 .. SolidLength : n \in 1 .. SolidLength' /\ cur'[n] = cur[n]
    BY <1>3, <2>2, <2>3 DEF SolidLength
  <2>5. \A n \in 1 .. SolidLength' : n \in 1 .. Len(cur')
    BY <1>3, <2>3 DEF SolidLength
  <2>6. Solid \subseteq Solid'
    BY <2>4 DEF Solid
  <2>7. Solid' \subseteq CurLines'
    BY <2>3, <2>5 DEF Solid, CurLines, Range
  <2> QED
    BY <1>1, <1>3, <2>2, <2>6, <2>7 DEF Grows
<1> QED
  BY <1>2, <1>3 DEF RecordFails

-----------------------------------------------------------------------------
(* What the journal says of earlier operations survives the writes of a job. *)

LEMMA NoneOfGarbled ==
  /\ Garbled.op = NoOp /\ Garbled.event \notin Events
  /\ Acts \cap Terminals = {} /\ Acts \subseteq Events /\ Terminals \subseteq Events
BY DEF Garbled, Rec, Acts, Terminals, Events

\* Every line but the garbled one belongs to an operation.
LEMMA LineOfOp ==
  ASSUME JournalAssumption, TypeOK, NEW l \in Held, l.event \in Events
  PROVE  l.op \in Ops /\ l.op # NoOp
BY LineTypes, NoneOfGarbled DEF Line, JournalAssumption

LEMMA SameFiles ==
  ASSUME UNCHANGED files
  PROVE  PrevLines' = PrevLines /\ CurLines' = CurLines /\ Held' = Held /\ Solid' = Solid
BY DEF files, PrevLines, CurLines, Held, Solid, SolidLength

LEMMA NothingQueued ==
  ASSUME queue = <<>>
  PROVE  QueueLines = {}
BY DEF QueueLines, Range

\* A move on record stays so in a larger set of lines.
LEMMA MoreLines ==
  ASSUME NEW L, NEW M, L \subseteq M, NEW o
  PROVE  /\ \A i : Marked(L, o, i) => Marked(M, o, i)
         /\ Ended(L, o) => Ended(M, o)
         /\ Seen(L, o) => Seen(M, o)
         /\ Begun(L, o) => Begun(M, o)
BY DEF Marked, Ended, Seen, Begun

\* A record that is a mark, an end or none of them shows as one.
LEMMA OneMore ==
  ASSUME NEW L, NEW M, NEW r, M \subseteq L \cup {r, Garbled}, NEW o, o # NoOp
  PROVE  /\ \A i : Marked(M, o, i) => Marked(L, o, i) \/ ActOn(r, o, i)
         /\ Ended(M, o) => Ended(L, o) \/ EndOf(r, o)
         /\ Seen(M, o) => Seen(L, o) \/ r.op = o
         /\ Begun(M, o) => Begun(L, o) \/ (r.op = o /\ r.event \notin Terminals)
BY NoneOfGarbled DEF Marked, Ended, Seen, Begun, ActOn, EndOf

\* A move stays open only if it was.
LEMMA StillOpen ==
  ASSUME PrevLines' = PrevLines, Solid \subseteq Solid', NEW p, p[1] \notin Exempt
  PROVE  Open(p)' => Open(p)
<1>1. PrevLines \cup Solid \subseteq PrevLines' \cup Solid'
  OBVIOUS
<1>2. Ended(PrevLines \cup Solid, p[1]) => Ended(PrevLines' \cup Solid', p[1])
  BY <1>1, MoreLines
<1> QED
  BY <1>2 DEF Open

\* A record of the running job, whole, torn or missing, changes nothing that is
\* known of the others.
LEMMA JobWrites ==
  ASSUME JournalAssumption, IInv, op # NoOp,
         NEW r \in Line, r.op = op, Grows(r), queue' = queue, copying' = copying,
         UNCHANGED <<used, attempts, claims, audited, cut, excused>>,
         settled \ joined \subseteq (settled \ joined)',
         \A o \in (settled \ joined)' : o \in settled \ joined \/ Ended(Solid', o),
         (settled \subseteq used)', (op \notin settled)',
         op' # NoOp => op' = op /\ stage' \notin Opening
  PROVE  /\ Fresh' /\ TerminalLasts' /\ QueueShape' /\ WholePrev' /\ WholeCur' /\ WholeCopy'
         /\ OnRecord' /\ Audited' /\ ClaimsHold'
<1> USE DEF IInv
<1>1. /\ queue = <<>> /\ copying = {} /\ claims = {} /\ QueueLines' = {}
      /\ audited # "running" /\ op \in Ops /\ op \in used
  BY NothingQueued DEF JobShape, QueueLines, Range, TypeOK
<1>2. /\ PrevLines' = PrevLines /\ Solid \subseteq Solid' /\ Solid' \subseteq CurLines'
      /\ CurLines' \subseteq CurLines \cup {r, Garbled}
      /\ Solid \subseteq CurLines
  BY SolidLines DEF Grows, TailShape
<1>3. \A p \in attempts : p[1] \in Ops /\ p[2] \in Items /\ p[1] # NoOp
  BY DEF TypeOK, JournalAssumption
<1>4. \A o \in settled : o \in Ops /\ o # NoOp /\ o # op
  BY DEF TypeOK, JournalAssumption, Fresh
<1>5. Exempt \subseteq Exempt'
  BY DEF Exempt
<1>6. Fresh'
  <2>1. Held' \subseteq Held \cup {r, Garbled}
    BY <1>2 DEF Held
  <2>2. \A l \in Held' : l.op \in used' \cup {NoOp}
    BY <1>1, <2>1, NoneOfGarbled DEF Fresh
  <2> QED
    BY <1>2, <2>2 DEF Fresh
<1>7. TerminalLasts'
  <2> SUFFICES ASSUME NEW o \in (settled \ joined)', NEW i \in Items
               PROVE  /\ Marked(CurLines', o, i) => Ended(Solid', o)
                      /\ Marked(PrevLines', o, i) => Ended(PrevLines', o) \/ Ended(Solid', o)
    BY DEF TerminalLasts
  <2>1. CASE o \in settled \ joined
    <3>1. Ended(Solid, o) => Ended(Solid', o)
      BY <1>2, MoreLines
    <3>2. Marked(CurLines', o, i) => Marked(CurLines, o, i)
      BY <1>2, <1>4, <2>1, OneMore DEF ActOn
    <3> QED
      BY <1>2, <2>1, <3>1, <3>2 DEF TerminalLasts
  <2> QED
    BY <2>1
<1>8. QueueShape'
  BY <1>1 DEF QueueShape
<1>9. WholePrev'
  BY <1>2 DEF WholePrev
<1>10. WholeCur'
  <2> SUFFICES ASSUME NEW p \in attempts, p[1] \notin cut, Begun(CurLines', p[1])
               PROVE  Marked(Solid', p[1], p[2])
    BY <1>1 DEF WholeCur
  <2>1. Marked(Solid, p[1], p[2])
    <3>1. CASE p[1] = op
      BY <1>3, <3>1 DEF WriteAhead, TypeOK
    <3>2. CASE p[1] # op
      BY <1>1, <1>2, <1>3, <3>2, OneMore DEF WholeCur
    <3> QED
      BY <3>1, <3>2
  <2> QED
    BY <1>2, <2>1, MoreLines
<1>11. WholeCopy'
  BY <1>1 DEF WholeCopy
<1>12. OnRecord'
  BY <1>2, <1>5, MoreLines DEF OnRecord
<1>13. Audited'
  <2>1. \A p \in attempts : Open(p)' => Open(p)
    BY <1>2, <1>5, StillOpen DEF Open
  <2> QED
    BY <1>1, <1>2, <2>1, MoreLines DEF Audited
<1>14. ClaimsHold'
  BY <1>1 DEF ClaimsHold
<1> QED
  BY <1>6, <1>7, <1>8, <1>9, <1>10, <1>11, <1>12, <1>13, <1>14

\* A job that ends before its time, with the record an audit was appending
\* whole, torn or missing.
LEMMA Abandoned ==
  ASSUME JournalAssumption, IInv, Abandon, NEW r,
         r \in QueueLines \/ UNCHANGED files,
         UNCHANGED files \/ Grows(r), faults' \in 0 .. MaxFaults
  PROVE  IInv'
<1> USE DEF IInv
<1>1. /\ stage' = "idle" /\ op' = NoOp /\ queue' = <<>> /\ copying' = {} /\ QueueLines' = {}
      /\ todo' = {} /\ item' = {}
      /\ cut' = cut \cup {o \in copying : SeenInCurrent(o)'}
      /\ audited' = (IF audited = "running" THEN "no" ELSE audited)
      /\ UNCHANGED <<used, attempts, moved, settled, joined, claims, excused>>
  BY NothingQueued DEF Abandon, EndJob, QueueLines, Range
<1>2. /\ PrevLines' = PrevLines /\ Solid \subseteq Solid' /\ Solid' \subseteq CurLines'
      /\ Solid \subseteq CurLines
      /\ CurLines' = CurLines \/ (r \in QueueLines /\ CurLines' \subseteq CurLines \cup {r, Garbled})
      /\ openTail' => cur' # <<>>
  <2>1. CASE UNCHANGED files
    BY <2>1, SameFiles, SolidLines DEF TailShape, files
  <2>2. CASE Grows(r) /\ r \in QueueLines
    BY <2>2, SolidLines DEF TailShape, Grows
  <2> QED
    BY <2>1, <2>2
<1>3. TypeOK'
  <2>1. prev' \in Seq(Line) /\ cur' \in Seq(Line) /\ openTail' \in BOOLEAN
    BY DEF TypeOK, files, Grows
  <2> QED
    BY <1>1, <2>1 DEF TypeOK, Abandon, EndJob, Stages, disk
<1>4. \A l \in Held' : l \in Held \/ l = Garbled \/ l \in QueueLines
  BY <1>2 DEF Held
<1>5. \A o : o # NoOp /\ ~(r \in QueueLines /\ r.op = o) =>
        /\ \A i : Marked(CurLines', o, i) => Marked(CurLines, o, i)
        /\ Begun(CurLines', o) => Begun(CurLines, o)
  BY <1>2, OneMore DEF ActOn
<1>6. \A p \in attempts : p[1] \in Ops /\ p[2] \in Items /\ p[1] # NoOp
  BY DEF TypeOK, JournalAssumption
<1>7. JobShape' /\ TailShape'
  BY <1>1, <1>2 DEF JobShape, TailShape, Working, Opening
<1>8. Fresh'
  <2>1. \A l \in Held' : l.op \in used' \cup {NoOp}
    BY <1>1, <1>4, NoneOfGarbled DEF Fresh, QueueShape
  <2>2. op' \notin settled'
    BY <1>1 DEF TypeOK, JournalAssumption
  <2> QED
    BY <1>1, <2>1, <2>2 DEF Fresh
<1>9. WriteAhead'
  <2>1. \A l \in Held' : l.event = "completed" => l \in Held
    BY <1>4, NoneOfGarbled DEF QueueShape, Acts, Events, Terminals
  <2>2. \A l \in Held : l.event = "completed" => l.op # NoOp
    BY LineOfOp DEF Events, Terminals
  <2> QED
    BY <1>1, <2>1, <2>2 DEF WriteAhead
<1>10. TerminalLasts'
  <2> SUFFICES ASSUME NEW o \in settled \ joined, NEW i \in Items
               PROVE  /\ Marked(CurLines', o, i) => Ended(Solid', o)
                      /\ Marked(PrevLines', o, i) => Ended(PrevLines', o) \/ Ended(Solid', o)
    BY <1>1 DEF TerminalLasts
  <2>1. Marked(CurLines', o, i) => Marked(CurLines, o, i)
    <3>1. ~ActOn(r, o, i) \/ r \notin QueueLines
      BY NoneOfGarbled DEF ActOn, QueueShape, Acts
    <3>2. o # NoOp
      BY DEF TypeOK, JournalAssumption
    <3> QED
      BY <1>2, <3>1, <3>2, OneMore
  <2>2. Ended(Solid, o) => Ended(Solid', o)
    BY <1>2, MoreLines
  <2> QED
    BY <1>2, <2>1, <2>2 DEF TerminalLasts
<1>11. QueueShape'
  BY <1>1 DEF QueueShape
<1>12. WholePrev'
  BY <1>1, <1>2 DEF WholePrev
<1>13. WholeCur'
  <2> SUFFICES ASSUME NEW p \in attempts, p[1] \notin cut', Begun(CurLines', p[1])
               PROVE  Marked(Solid', p[1], p[2])
    BY <1>1 DEF WholeCur
  <2>1. SeenInCurrent(p[1])'
    BY DEF Begun, SeenInCurrent, CurLines, Range
  <2>2. p[1] \notin copying
    BY <1>1, <1>3, <2>1
  <2>3. Begun(CurLines, p[1])
    BY <1>2, <1>6, <2>2, OneMore DEF QueueShape, Terminals
  <2> QED
    BY <1>1, <1>2, <2>2, <2>3, MoreLines DEF WholeCur
<1>14. WholeCopy'
  BY <1>1 DEF WholeCopy
<1>15. Exempt \subseteq Exempt'
  BY <1>1 DEF Exempt
<1>16. OnRecord'
  BY <1>1, <1>2, <1>15, MoreLines DEF OnRecord
<1>17. Audited'
  <2>1. \A p \in attempts : Open(p)' => Open(p)
    BY <1>2, <1>15, StillOpen DEF Open
  <2> QED
    BY <1>1, <1>2, <2>1, MoreLines DEF Audited
<1>18. ClaimsHold'
  BY <1>1 DEF ClaimsHold
<1> QED
  BY <1>3, <1>7, <1>8, <1>9, <1>10, <1>11, <1>12, <1>13, <1>14, <1>16, <1>17, <1>18

-----------------------------------------------------------------------------
(* The invariant holds at the start.                                         *)

LEMMA InitInv ==
  ASSUME JournalAssumption, Init
  PROVE  IInv
<1>1. TypeOK
  <2>1. faults \in 0 .. MaxFaults
    BY DEF Init, JournalAssumption
  <2>2. prev \in Seq(Line) /\ cur \in Seq(Line) /\ queue \in Seq(Line)
    BY DEF Init
  <2> QED
    BY <2>1, <2>2 DEF Init, TypeOK, Stages
<1>2. /\ PrevLines = {} /\ CurLines = {} /\ Held = {} /\ QueueLines = {}
  BY DEF Init, PrevLines, CurLines, Held, QueueLines, Range
<1>3. JobShape /\ TailShape
  BY DEF Init, JobShape, TailShape, Working, Opening
<1>4. Fresh /\ WriteAhead /\ TerminalLasts /\ QueueShape
  BY <1>2 DEF Init, Fresh, WriteAhead, TerminalLasts, QueueShape, JournalAssumption
<1>5. WholePrev /\ WholeCur /\ WholeCopy /\ OnRecord /\ Audited /\ ClaimsHold
  BY DEF Init, WholePrev, WholeCur, WholeCopy, OnRecord, Audited, ClaimsHold
<1> QED
  BY <1>1, <1>3, <1>4, <1>5 DEF IInv

-----------------------------------------------------------------------------
(* Steps that leave the files alone.                                         *)

LEMMA FilesKept ==
  ASSUME IInv, UNCHANGED <<files, queue, attempts, settled, joined, audited, copying, cut, excused>>
  PROVE  TerminalLasts' /\ WholePrev' /\ WholeCur' /\ WholeCopy' /\ OnRecord' /\ Audited'
<1> USE DEF IInv
<1>1. PrevLines' = PrevLines /\ CurLines' = CurLines /\ Held' = Held /\ Solid' = Solid
  BY SameFiles
<1>2. QueueLines' = QueueLines /\ Exempt' = Exempt
  BY DEF QueueLines, Exempt
<1>3. \A p : Open(p)' = Open(p)
  BY <1>1, <1>2 DEF Open
<1> QED
  BY <1>1, <1>2, <1>3
     DEF TerminalLasts, WholePrev, WholeCur, WholeCopy, OnRecord, Audited

LEMMA BeginTrashInv ==
  ASSUME JournalAssumption, IInv, NEW o \in Ops, NEW S \in SUBSET Items, BeginTrash(o, S)
  PROVE  IInv'
<1> USE DEF IInv
<1>1. /\ stage = "idle" /\ stage' = "opening" /\ op' = o /\ o \notin used /\ used' = used \cup {o}
      /\ o # NoOp /\ op = NoOp /\ queue = <<>> /\ copying = {} /\ queue' = <<>> /\ copying' = {}
      /\ QueueLines' = {} /\ claims' = {} /\ audited # "running"
      /\ UNCHANGED <<files, attempts, moved, settled, joined, audited, cut, excused>>
  BY NothingQueued
     DEF BeginTrash, journal, files, JobShape, JournalAssumption, QueueLines, Range, Opening,
     Working
<1>2. PrevLines' = PrevLines /\ CurLines' = CurLines /\ Held' = Held /\ Solid' = Solid
  BY <1>1, SameFiles
<1>3. TypeOK'
  BY DEF BeginTrash, TypeOK, journal, files, disk, Stages
<1>4. JobShape' /\ TailShape'
  BY <1>1, <1>2 DEF JobShape, TailShape, Opening, Working, files
<1>5. ~Seen(Held, o) /\ ~Seen(PrevLines, o) /\ ~Seen(CurLines, o)
  BY <1>1 DEF Seen, Held, Fresh
<1>6. Fresh'
  BY <1>1, <1>2, <1>5 DEF Fresh
<1>7. WriteAhead'
  BY <1>1, <1>2, <1>5 DEF WriteAhead, Fresh, Seen
<1>8. QueueShape'
  BY <1>1 DEF QueueShape
<1>9. ClaimsHold'
  BY <1>1 DEF ClaimsHold
<1> QED
  BY <1>1, <1>3, <1>4, <1>6, <1>7, <1>8, <1>9, FilesKept

LEMMA OpenCurrentInv ==
  ASSUME JournalAssumption, IInv, OpenCurrent
  PROVE  IInv'
<1> USE DEF IInv
<1>1. /\ stage = "opening" /\ stage' = "ready"
      /\ UNCHANGED <<files, faults, disk, used, op, todo, item, complete, queue,
                     attempts, moved, settled, joined, claims, audited, copying, cut, excused>>
  BY DEF OpenCurrent, journal, ghosts
<1>2. /\ PrevLines' = PrevLines /\ CurLines' = CurLines /\ Held' = Held /\ Solid' = Solid
      /\ QueueLines' = QueueLines
  BY <1>1, SameFiles DEF QueueLines
<1>3. TypeOK'
  BY <1>1 DEF TypeOK, files, disk, Stages
<1>4. JobShape' /\ TailShape'
  BY <1>1, <1>2 DEF JobShape, TailShape, Opening, Working, files
<1>5. Fresh' /\ WriteAhead'
  BY <1>1, <1>2 DEF Fresh, WriteAhead, Opening
<1>6. QueueShape'
  BY <1>1, <1>2 DEF QueueShape, files
<1>7. ClaimsHold'
  BY <1>1 DEF ClaimsHold
<1> QED
  BY <1>1, <1>3, <1>4, <1>5, <1>6, <1>7, FilesKept

\* Cancelled before an item, or between its start on record and the move.
LEMMA StopInv ==
  ASSUME JournalAssumption, IInv, StopItems \/ CancelMarked
  PROVE  IInv'
<1> USE DEF IInv
<1>1. /\ stage \in {"item", "marked"} /\ stage' = "closing"
      /\ UNCHANGED <<files, faults, disk, used, op, todo, item, complete, queue,
                     attempts, moved, settled, joined, claims, audited, copying, cut, excused>>
  BY DEF StopItems, CancelMarked, journal, KeepJob, KeepRest
<1>2. /\ PrevLines' = PrevLines /\ CurLines' = CurLines /\ Held' = Held /\ Solid' = Solid
      /\ QueueLines' = QueueLines
  BY <1>1, SameFiles DEF QueueLines
<1>3. TypeOK'
  BY <1>1 DEF TypeOK, files, disk, Stages
<1>4. JobShape' /\ TailShape'
  BY <1>1, <1>2 DEF JobShape, TailShape, Opening, Working, files
<1>5. Fresh' /\ WriteAhead'
  BY <1>1, <1>2 DEF Fresh, WriteAhead, Opening
<1>6. QueueShape'
  BY <1>1, <1>2 DEF QueueShape, files
<1>7. ClaimsHold'
  BY <1>1 DEF ClaimsHold
<1> QED
  BY <1>1, <1>3, <1>4, <1>5, <1>6, <1>7, FilesKept

\* The rest of the computer, and stuttering.
LEMMA OutsideInv ==
  ASSUME JournalAssumption, IInv,
         UNCHANGED vars \/ EmptyTrash \/ \E i \in Items : Recreate(i)
  PROVE  IInv'
<1> USE DEF IInv
<1>1. /\ atOrigin' \subseteq Items /\ inTrash' \subseteq Ops \X Items
      /\ UNCHANGED <<files, faults, used, stage, op, todo, item, complete, queue,
                     attempts, moved, settled, joined, claims, audited, copying, cut, excused>>
  BY DEF EmptyTrash, Recreate, vars, disk, journal, job, ghosts, TypeOK
<1>2. /\ PrevLines' = PrevLines /\ CurLines' = CurLines /\ Held' = Held /\ Solid' = Solid
      /\ QueueLines' = QueueLines
  BY <1>1, SameFiles DEF QueueLines
<1>3. TypeOK'
  BY <1>1 DEF TypeOK, files
<1>4. JobShape' /\ TailShape'
  BY <1>1, <1>2 DEF JobShape, TailShape, files
<1>5. Fresh' /\ WriteAhead'
  BY <1>1, <1>2 DEF Fresh, WriteAhead
<1>6. QueueShape'
  BY <1>1, <1>2 DEF QueueShape, files
<1>7. ClaimsHold'
  BY <1>1 DEF ClaimsHold
<1> QED
  BY <1>1, <1>3, <1>4, <1>5, <1>6, <1>7, FilesKept

\* The system is asked to move an item whose start is on record.
LEMMA MoveToTrashInv ==
  ASSUME JournalAssumption, IInv, MoveToTrash
  PROVE  IInv'
<1> USE DEF IInv
<1> DEFINE pairs == {<<op, i>> : i \in item}
<1>1. /\ stage = "marked" /\ stage' \in {"done", "failed"}
      /\ attempts' = attempts \cup pairs
      /\ moved \subseteq moved' /\ (stage' = "done" => moved' = moved \cup pairs)
      /\ UNCHANGED <<files, faults, used, op, todo, item, complete, queue,
                     settled, joined, claims, audited, copying, cut, excused>>
  BY DEF MoveToTrash, journal, KeepJob, KeepRest
<1>2. /\ PrevLines' = PrevLines /\ CurLines' = CurLines /\ Held' = Held /\ Solid' = Solid
      /\ QueueLines' = QueueLines /\ Exempt' = Exempt
  BY <1>1, SameFiles DEF QueueLines, Exempt
<1>3. /\ op \in Ops /\ op # NoOp /\ op \in used /\ queue = <<>> /\ copying = {} /\ claims = {}
      /\ audited # "running"
  BY <1>1 DEF JobShape, Working, Opening, TypeOK
<1>4. pairs \subseteq Ops \X Items
  BY <1>3 DEF TypeOK
<1>5. TypeOK'
  <2>1. moved' \subseteq Ops \X Items /\ atOrigin' \subseteq Items /\ inTrash' \subseteq Ops \X Items
    BY <1>4 DEF MoveToTrash, TypeOK
  <2> QED
    BY <1>1, <1>4, <2>1 DEF TypeOK, files, Stages
<1>6. \A p \in attempts' : p \in attempts \/ (p[1] = op /\ p[2] \in item)
  BY <1>1
<1>7. \A i \in item : i \in Items /\ Marked(Solid, op, i)
  BY <1>1 DEF WriteAhead, TypeOK
<1>8. \A p \in attempts' \ attempts : p[1] = op /\ Marked(Solid, p[1], p[2])
  BY <1>6, <1>7
<1>9. JobShape' /\ TailShape'
  BY <1>1, <1>2 DEF JobShape, TailShape, Opening, Working, files
<1>10. Fresh'
  BY <1>1, <1>2, <1>3, <1>6 DEF Fresh, Opening
<1>11. WriteAhead'
  <2>1. \A i : <<op, i>> \in attempts' => <<op, i>> \in attempts \/ (i \in item /\ <<op, i>> \in pairs)
    BY <1>1
  <2>2. \A i \in Items : <<op, i>> \in attempts' => Marked(Solid, op, i)
    BY <1>3, <1>7, <2>1 DEF WriteAhead
  <2>3. complete /\ stage' = "done" =>
          \A i \in Items : <<op, i>> \in attempts' => <<op, i>> \in moved'
    <3>1. stage' = "done" => stage # "failed" /\ pairs \subseteq moved'
      BY <1>1
    <3> QED
      BY <1>1, <1>3, <2>1, <3>1 DEF WriteAhead
  <2>4. \A l \in Held : l.event = "completed" =>
          l.op # op /\ \A i \in Items : <<l.op, i>> \in attempts' => <<l.op, i>> \in moved'
    BY <1>1 DEF WriteAhead
  <2> QED
    BY <1>1, <1>2, <1>7, <2>2, <2>3, <2>4 DEF WriteAhead
<1>12. TerminalLasts' /\ QueueShape'
  BY <1>1, <1>2 DEF TerminalLasts, QueueShape, files
<1>13. WholePrev'
  <2>1. ~Begun(PrevLines, op)
    BY <1>3 DEF Fresh, Begun, Seen
  <2> QED
    BY <1>1, <1>2, <1>6, <2>1 DEF WholePrev
<1>14. WholeCur' /\ WholeCopy'
  BY <1>1, <1>2, <1>3, <1>8 DEF WholeCur, WholeCopy
<1>15. OnRecord'
  BY <1>1, <1>2, <1>8 DEF OnRecord
<1>16. Audited'
  <2>1. \A p : Open(p)' = Open(p)
    BY <1>1, <1>2 DEF Open
  <2> QED
    BY <1>1, <1>2, <1>3, <1>8, <2>1 DEF Audited
<1>17. ClaimsHold'
  BY <1>1, <1>3 DEF ClaimsHold
<1> QED
  BY <1>5, <1>9, <1>10, <1>11, <1>12, <1>13, <1>14, <1>15, <1>16, <1>17

-----------------------------------------------------------------------------
(* The rotation.                                                             *)

\* What is lost with the previous file is over, on record in the other file, or
\* was never audited.
LEMMA RemovePreviousInv ==
  ASSUME JournalAssumption, IInv, RemovePrevious
  PROVE  IInv'
<1> USE DEF IInv
<1>1. /\ stage = "opening" /\ stage' = "renaming" /\ prev' = <<>>
      /\ excused' = excused \cup
           {o \in Ops : Terminal(o) \/ (audited # "yes" /\ \E n \in DOMAIN prev : prev[n].op = o)}
      /\ UNCHANGED <<cur, openTail, faults, disk, used, op, todo, item, complete, queue,
                     attempts, moved, settled, joined, claims, audited, copying, cut>>
  BY DEF RemovePrevious
<1>2. /\ PrevLines' = {} /\ CurLines' = CurLines /\ Held' \subseteq Held /\ Solid' = Solid
      /\ QueueLines' = QueueLines /\ Solid \subseteq CurLines
  BY <1>1, SolidLines DEF PrevLines, CurLines, Held, Solid, SolidLength, QueueLines, Range,
     TailShape
<1>3. TypeOK'
  BY <1>1 DEF TypeOK, disk, Stages
<1>4. JobShape' /\ TailShape'
  BY <1>1, <1>2 DEF JobShape, TailShape, Opening, Working
<1>5. Fresh'
  BY <1>1, <1>2 DEF Fresh, Opening, Seen
<1>6. WriteAhead'
  BY <1>1, <1>2 DEF WriteAhead
<1>7. TerminalLasts'
  BY <1>1, <1>2 DEF TerminalLasts, Marked
<1>8. QueueShape'
  BY <1>1, <1>2 DEF QueueShape
<1>9. WholePrev' /\ WholeCur' /\ WholeCopy'
  BY <1>1, <1>2 DEF WholePrev, WholeCur, WholeCopy, Begun
<1>10. OnRecord'
  <2> SUFFICES ASSUME NEW p \in attempts, p[1] \notin Exempt', ~Marked(Solid, p[1], p[2])
               PROVE  FALSE
    BY <1>1, <1>2 DEF OnRecord
  <2>1. p[1] \in Ops
    BY DEF TypeOK
  <2>2. p[1] \notin Exempt /\ p[1] \notin excused'
    BY <1>1 DEF Exempt
  <2>3. Marked(PrevLines, p[1], p[2])
    BY <2>2 DEF OnRecord
  <2>4. ~Ended(Held, p[1])
    BY <1>1, <2>1, <2>2, Reading
  <2>5. ~Ended(PrevLines \cup Solid, p[1])
    BY <1>2, <2>4, MoreLines DEF Held
  <2>6. audited = "yes"
    <3>1. Seen(PrevLines, p[1])
      BY <2>3 DEF Marked, ActOn, Seen
    <3>2. \E n \in DOMAIN prev : prev[n].op = p[1]
      BY <3>1, Reading
    <3> QED
      BY <1>1, <2>1, <2>2, <3>2
  <2> QED
    BY <2>2, <2>3, <2>5, <2>6 DEF Audited, Open
<1>11. Audited'
  BY <1>1, <1>2 DEF Audited, Open, Marked
<1>12. ClaimsHold'
  BY <1>1 DEF ClaimsHold
<1> QED
  BY <1>3, <1>4, <1>5, <1>6, <1>7, <1>8, <1>9, <1>10, <1>11, <1>12

LEMMA RenameCurrentInv ==
  ASSUME JournalAssumption, IInv, RenameCurrent
  PROVE  IInv'
<1> USE DEF IInv
<1>1. /\ stage \in {"opening", "renaming"} /\ stage' = "ready" /\ prev = <<>>
      /\ prev' = cur /\ cur' = <<>> /\ openTail' = FALSE /\ audited' = "no"
      /\ UNCHANGED <<faults, disk, used, op, todo, item, complete, queue,
                     attempts, moved, settled, joined, claims, copying, cut, excused>>
  BY DEF RenameCurrent, JobShape
<1>2. /\ PrevLines = {} /\ Held = CurLines /\ PrevLines' = CurLines /\ CurLines' = {}
      /\ Held' = Held /\ Solid \subseteq CurLines /\ QueueLines' = QueueLines /\ Exempt' = Exempt
  BY <1>1, SolidLines DEF PrevLines, CurLines, Held, QueueLines, Range, TailShape, Exempt
<1>3. TypeOK'
  BY <1>1 DEF TypeOK, disk, Stages
<1>4. JobShape' /\ TailShape'
  BY <1>1 DEF JobShape, TailShape, Opening, Working
<1>5. Fresh'
  BY <1>1, <1>2 DEF Fresh, Opening, Seen
<1>6. WriteAhead'
  BY <1>1, <1>2 DEF WriteAhead, Fresh, Opening
<1>7. TerminalLasts'
  BY <1>1, <1>2, MoreLines DEF TerminalLasts, Marked
<1>8. QueueShape'
  BY <1>1, <1>2 DEF QueueShape
<1>9. WholePrev'
  <2> SUFFICES ASSUME NEW p \in attempts, p[1] \notin cut, Begun(CurLines, p[1])
               PROVE  Marked(CurLines, p[1], p[2])
    BY <1>1, <1>2 DEF WholePrev
  <2>1. p[1] \notin copying
    BY <1>1 DEF QueueShape, Begun, Seen
  <2> QED
    BY <1>2, <2>1, MoreLines DEF WholeCur
<1>10. WholeCur'
  BY <1>2 DEF WholeCur, Begun
<1>11. WholeCopy'
  <2> SUFFICES ASSUME NEW p \in attempts, p[1] \in copying \ cut
               PROVE  Marked(QueueLines, p[1], p[2])
    BY <1>1, <1>2 DEF WholeCopy
  <2>1. ~Marked(Solid, p[1], p[2])
    BY <1>1, <1>2 DEF QueueShape, Marked, ActOn, Seen
  <2> QED
    BY <2>1 DEF WholeCopy
<1>12. OnRecord'
  BY <1>1, <1>2, MoreLines DEF OnRecord, Marked
<1>13. Audited'
  BY <1>1 DEF Audited
<1>14. ClaimsHold'
  BY <1>1 DEF ClaimsHold
<1> QED
  BY <1>3, <1>4, <1>5, <1>6, <1>7, <1>8, <1>9, <1>10, <1>11, <1>12, <1>13, <1>14

-----------------------------------------------------------------------------
(* The records of a job.                                                     *)

\* A record of the job, written or not, after which the job stands at an item.
LEMMA JobRecordInv ==
  ASSUME JournalAssumption, IInv, stage \in {"ready", "item", "done", "failed"}, op # NoOp,
         NEW r \in Line, r.op = op, r.event \in Acts \cup {"planned"},
         Record(r) \/ RecordFails(r),
         UNCHANGED <<disk, attempts, moved>>, KeepRest,
         \/ /\ op' = NoOp /\ stage' = "idle"
         \/ /\ op' = op
            /\ \/ Record(r) /\ stage' = "item" /\ (complete' => complete /\ stage # "failed")
               \/ Record(r) /\ stage = "item" /\ stage' = "marked"
                  /\ (complete' => complete) /\ \A i \in item' : ActOn(r, op, i)
               \/ stage' = "closing" /\ ~complete',
         todo' \subseteq Items, item' \subseteq Items, complete' \in BOOLEAN
  PROVE  IInv'
<1> USE DEF IInv
<1>1. /\ queue = <<>> /\ copying = {} /\ claims = {} /\ audited # "running"
      /\ stage' \in {"idle", "item", "marked", "closing"} /\ op \in Ops
      /\ (stage' = "idle" => op' = NoOp) /\ (stage' # "idle" => op' = op)
      /\ UNCHANGED <<used, queue, attempts, moved, settled, joined, claims, audited,
                     copying, cut, excused>>
  BY DEF JobShape, KeepRest, TypeOK, Opening
<1>2. /\ Grows(r) /\ PrevLines' = PrevLines /\ Solid \subseteq Solid'
      /\ CurLines' \subseteq CurLines \cup {r, Garbled} /\ (openTail' => cur' # <<>>)
      /\ (Record(r) => ~openTail' /\ Solid' = CurLines' /\ (~openTail => r \in Solid'))
  BY Recorded, WriteFailed DEF TailShape, Grows
<1>3. TypeOK'
  BY <1>1, <1>2 DEF TypeOK, Grows, disk, Stages
<1>4. op \notin settled /\ settled \subseteq used
  BY DEF Fresh
<1>5. /\ Fresh' /\ TerminalLasts' /\ QueueShape' /\ WholePrev' /\ WholeCur' /\ WholeCopy'
      /\ OnRecord' /\ Audited' /\ ClaimsHold'
  <2>1. /\ (settled \ joined)' = settled \ joined
        /\ (settled \subseteq used)' /\ (op \notin settled)'
    BY <1>1, <1>4 DEF TypeOK, JournalAssumption
  <2>2. op' # NoOp => op' = op /\ stage' \notin Opening
    BY <1>1 DEF Opening
  <2> QED
    BY <1>1, <1>2, <2>1, <2>2, JobWrites
<1>6. JobShape'
  BY <1>1 DEF JobShape, Opening, Working
<1>7. TailShape'
  BY <1>1, <1>2 DEF TailShape
<1>8. WriteAhead'
  <2>1. stage' = "marked" => \A i \in item' : Marked(Solid', op, i)
    <3>1. stage' = "marked" => ~openTail /\ r \in Solid' /\ \A i \in item' : ActOn(r, op, i)
      BY <1>1, <1>2 DEF TailShape
    <3> QED
      BY <3>1 DEF Marked
  <2>2. \A i \in Items : <<op, i>> \in attempts => Marked(Solid', op, i)
    BY <1>2, MoreLines DEF WriteAhead
  <2>3. complete' /\ stage' # "idle" =>
          \A i \in Items : <<op, i>> \in attempts => <<op, i>> \in moved
    BY DEF WriteAhead
  <2>4. \A l \in Held' : l.event = "completed" =>
          l.op # op' /\ \A i \in Items : <<l.op, i>> \in attempts => <<l.op, i>> \in moved
    <3>1. \A l \in Held' : l.event = "completed" => l \in Held
      BY <1>2, NoneOfGarbled DEF Held, Acts, Events, Terminals
    <3>2. \A l \in Held : l.event = "completed" => l.op # NoOp
      BY LineOfOp DEF Events, Terminals
    <3> QED
      BY <1>1, <3>1, <3>2 DEF WriteAhead
  <2> QED
    BY <1>1, <2>1, <2>2, <2>3, <2>4 DEF WriteAhead
<1> QED
  BY <1>3, <1>5, <1>6, <1>7, <1>8

LEMMA RecordPlannedInv ==
  ASSUME JournalAssumption, IInv, RecordPlanned
  PROVE  IInv'
<1> DEFINE r == Rec("planned", op, todo)
<1>1. r \in Line /\ r.op = op /\ r.event = "planned"
  BY DEF RecordPlanned, Rec, Line, Events, IInv, TypeOK
<1>2. todo' \subseteq Items /\ item' \subseteq Items /\ complete' \in BOOLEAN
  BY DEF RecordPlanned, EndJob, IInv, TypeOK
<1>3. \/ /\ op' = NoOp /\ stage' = "idle"
      \/ /\ op' = op
         /\ Record(r) /\ stage' = "item" /\ (complete' => complete /\ stage # "failed")
  BY DEF RecordPlanned, EndJob
<1> HIDE DEF r
<1>4. /\ stage = "ready" /\ op # NoOp /\ (Record(r) \/ RecordFails(r))
      /\ UNCHANGED <<disk, attempts, moved>> /\ KeepRest
  BY DEF RecordPlanned, r
<1> QED
  BY <1>1, <1>2, <1>3, <1>4, JobRecordInv

LEMMA RecordMovingInv ==
  ASSUME JournalAssumption, IInv, NEW i \in Items, RecordMoving(i)
  PROVE  IInv'
<1> DEFINE r == Rec("moving", op, {i})
<1>1. /\ stage = "item" /\ op # NoOp /\ (Record(r) \/ RecordFails(r)) /\ item' = {i}
      /\ UNCHANGED <<disk, attempts, moved>> /\ KeepRest /\ op' = op
  BY DEF RecordMoving, KeepJob, IInv, JobShape, Working
<1>2. r \in Line /\ r.op = op /\ r.event \in Acts \cup {"planned"} /\ ActOn(r, op, i)
  BY <1>1 DEF Rec, Line, Events, Acts, ActOn, IInv, TypeOK
<1>3. todo' \subseteq Items /\ item' \subseteq Items /\ complete' \in BOOLEAN
  BY DEF RecordMoving, IInv, TypeOK
<1>4. \/ /\ Record(r) /\ stage = "item" /\ stage' = "marked"
         /\ (complete' => complete) /\ \A j \in item' : ActOn(r, op, j)
      \/ stage' = "closing" /\ ~complete'
  BY <1>1, <1>2 DEF RecordMoving
<1> HIDE DEF r
<1> QED
  BY <1>1, <1>2, <1>3, <1>4, JobRecordInv

\* The answer of the system, whether it moved the item or not.
LEMMA RecordResultInv ==
  ASSUME JournalAssumption, IInv, RecordMoved \/ RecordFailed
  PROVE  IInv'
<1> DEFINE r == Rec(IF stage = "done" THEN "moved" ELSE "failed", op, item)
<1>1. /\ stage \in {"done", "failed"} /\ op # NoOp /\ (Record(r) \/ RecordFails(r))
      /\ UNCHANGED <<disk, attempts, moved, todo, item>> /\ KeepRest /\ op' = op
  BY DEF RecordMoved, RecordFailed, KeepJob, IInv, JobShape, Working
<1>2. r \in Line /\ r.op = op /\ r.event \in Acts \cup {"planned"}
  BY <1>1 DEF Rec, Line, Events, Acts, IInv, TypeOK
<1>3. todo' \subseteq Items /\ item' \subseteq Items /\ complete' \in BOOLEAN
  BY <1>1 DEF RecordMoved, RecordFailed, IInv, TypeOK
<1>4. \/ Record(r) /\ stage' = "item" /\ (complete' => complete /\ stage # "failed")
      \/ stage' = "closing" /\ ~complete'
  BY <1>1 DEF RecordMoved, RecordFailed
<1> HIDE DEF r
<1> QED
  BY <1>1, <1>2, <1>3, <1>4, JobRecordInv

LEMMA RecordCompletedInv ==
  ASSUME JournalAssumption, IInv, RecordCompleted
  PROVE  IInv'
<1> USE DEF IInv
<1> DEFINE r == Rec("completed", op, {})
<1>1. /\ stage \in {"closing", "item"} /\ op # NoOp /\ op \in Ops /\ op \in used
      /\ queue = <<>> /\ copying = {} /\ audited # "running"
      /\ stage' = "idle" /\ op' = NoOp /\ todo' = {} /\ item' = {} /\ complete' = TRUE
      /\ UNCHANGED <<disk, used, queue, attempts, moved, claims, audited, copying, cut, excused>>
  BY DEF RecordCompleted, EndJob, JobShape, Working, Opening, TypeOK
<1>2. r \in Line /\ r.op = op
  BY <1>1 DEF Rec, Line, Events, Terminals
<1>3. complete => \A i \in Items : <<op, i>> \in attempts => <<op, i>> \in moved
  BY <1>1 DEF WriteAhead
<1>4. \/ /\ UNCHANGED files /\ UNCHANGED <<journal, settled, joined>>
      \/ /\ complete /\ Grows(r) /\ EndOf(r, op)
         /\ \/ UNCHANGED <<settled, joined>>
            \/ /\ settled' = settled \cup {op}
               /\ joined' = IF openTail THEN joined \cup {op} ELSE joined
               /\ ~openTail => r \in Solid'
  <2>1. CASE complete
    <3>1. EndOf(r, op)
      BY DEF Rec, EndOf, Terminals
    <3>2. Grows(r) /\ (Record(r) => (~openTail => r \in Solid'))
      BY <1>2, <2>1, Recorded, WriteFailed DEF RecordCompleted, TailShape
    <3> QED
      BY <2>1, <3>1, <3>2 DEF RecordCompleted, Settle
  <2>2. CASE ~complete
    BY <2>2 DEF RecordCompleted, journal
  <2> QED
    BY <2>1, <2>2
<1> HIDE DEF r
<1>5. settled' \subseteq used /\ joined' \subseteq Ops /\ NoOp \notin settled'
  BY <1>1, <1>4 DEF Fresh, TypeOK, JournalAssumption
<1>6. TypeOK'
  <2>1. CASE UNCHANGED files /\ UNCHANGED journal
    BY <1>1, <1>5, <2>1 DEF TypeOK, files, journal, disk, Stages
  <2>2. CASE Grows(r)
    BY <1>1, <1>5, <2>2 DEF TypeOK, Grows, disk, Stages
  <2> QED
    BY <1>4, <2>1, <2>2
<1>7. JobShape' /\ TailShape'
  BY <1>1, <1>4 DEF JobShape, TailShape, Opening, Working, Grows, files
<1>8. \A l \in Held' : l \in Held \/ l = Garbled \/ (l = r /\ complete)
  BY <1>4, SameFiles DEF Held, Grows
<1>9. WriteAhead'
  <2> SUFFICES ASSUME NEW l \in Held', l.event = "completed"
               PROVE  l.op # NoOp /\ \A i \in Items : <<l.op, i>> \in attempts => <<l.op, i>> \in moved
    BY <1>1 DEF WriteAhead
  <2>1. CASE l \in Held
    BY <2>1, LineOfOp DEF WriteAhead, Events, Terminals
  <2>2. CASE l = r /\ complete
    BY <1>1, <1>2, <1>3, <2>2
  <2> QED
    BY <1>8, <2>1, <2>2, NoneOfGarbled DEF Events, Terminals
<1>10. CASE UNCHANGED <<files, settled, joined>>
  <2>1. /\ PrevLines' = PrevLines /\ CurLines' = CurLines /\ Held' = Held /\ Solid' = Solid
        /\ QueueLines' = QueueLines
    BY <1>1, <1>10, SameFiles DEF QueueLines
  <2>2. Fresh' /\ QueueShape' /\ ClaimsHold'
    BY <1>1, <1>5, <1>10, <2>1 DEF Fresh, QueueShape, ClaimsHold
  <2> QED
    BY <1>1, <1>6, <1>7, <1>9, <1>10, <2>2, FilesKept
<1>11. CASE Grows(r)
  <2>1. settled \ joined \subseteq (settled \ joined)' /\ op \notin settled
    BY <1>4 DEF Fresh
  <2>2. \A o \in (settled \ joined)' : o \in settled \ joined \/ Ended(Solid', o)
    BY <1>4 DEF Ended
  <2> QED
    BY <1>1, <1>2, <1>5, <1>6, <1>7, <1>9, <1>11, <2>1, <2>2, JobWrites
<1> QED
  BY <1>4, <1>10, <1>11

-----------------------------------------------------------------------------
(* Jobs that end before their time.                                          *)

LEMMA BrokenOffInv ==
  ASSUME JournalAssumption, IInv, OpenFails \/ Crash \/ AppendAuditFails
  PROVE  IInv'
<1>1. Abandon
  BY DEF OpenFails, Crash, AppendAuditFails
<1>2. CASE OpenFails \/ Crash
  <2>1. UNCHANGED files /\ faults' \in 0 .. MaxFaults
    BY <1>2 DEF OpenFails, Crash, Fault, IInv, TypeOK, JournalAssumption
  <2> QED
    BY <1>1, <2>1, Abandoned
<1>3. CASE AppendAuditFails
  <2>1. /\ queue # <<>> /\ queue \in Seq(Line) /\ RecordFails(Head(queue))
        /\ (openTail => cur # <<>>) /\ TypeOK
    BY <1>3 DEF AppendAuditFails, IInv, JobShape, Opening, TypeOK, TailShape
  <2>2. Head(queue) \in QueueLines /\ Head(queue) \in Line
    BY <2>1 DEF QueueLines, Range
  <2>3. Grows(Head(queue))
    BY <2>1, <2>2, WriteFailed
  <2> QED
    BY <1>1, <2>2, <2>3, Abandoned DEF Grows
<1> QED
  BY <1>2, <1>3

-----------------------------------------------------------------------------
(* The audit.                                                                *)

\* What an audit reads of an operation in doubt.
LEMMA ReadInDoubt ==
  ASSUME JournalAssumption, IInv, stage = "idle", NEW o \in InDoubt
  PROVE  /\ o \in used /\ o \notin settled \ joined /\ ~Ended(Held, o)
         /\ Begun(PrevLines, o) \/ Begun(CurLines, o)
         /\ Seen(CurLines, o) => Begun(CurLines, o)
         /\ ~Seen(CurLines, o) => Begun(PrevLines, o)
         /\ \A i \in Items : <<o, i>> \in attempts /\ o \notin cut =>
              /\ Marked(Held, o, i)
              /\ Seen(CurLines, o) => Marked(Solid, o, i)
<1> USE DEF IInv
<1>1. o \in Ops /\ o # NoOp /\ copying = {} /\ Solid \subseteq CurLines
  BY SolidLines DEF InDoubt, JournalAssumption, JobShape, Opening, TailShape
<1>2. ~Ended(Held, o) /\ \E i \in Items : Marked(Held, o, i)
  BY <1>1, Reading
<1>3. PICK i \in Items : Marked(Held, o, i)
  BY <1>2
<1>4. ~Ended(PrevLines, o) /\ ~Ended(CurLines, o) /\ ~Ended(Solid, o)
  BY <1>1, <1>2, MoreLines DEF Held
<1>5. Seen(CurLines, o) => Begun(CurLines, o)
  BY <1>4 DEF Seen, Begun, Ended, EndOf
<1>6. Marked(PrevLines, o, i) \/ Marked(CurLines, o, i)
  BY <1>3 DEF Marked, Held
<1>7. Marked(PrevLines, o, i) => Begun(PrevLines, o)
  BY NoneOfGarbled DEF Marked, ActOn, Begun
<1>8. Marked(CurLines, o, i) => Begun(CurLines, o) /\ Seen(CurLines, o)
  BY NoneOfGarbled DEF Marked, ActOn, Begun, Seen
<1>9. o \in used
  BY <1>1, <1>3 DEF Marked, ActOn, Fresh
<1>10. o \notin settled \ joined
  BY <1>4, <1>6 DEF TerminalLasts
<1>11. ASSUME NEW j \in Items, <<o, j>> \in attempts, o \notin cut
       PROVE  Marked(Held, o, j) /\ (Seen(CurLines, o) => Marked(Solid, o, j))
  <2>1. Begun(PrevLines, o) => Marked(PrevLines, o, j)
    BY <1>11 DEF WholePrev
  <2>2. Begun(CurLines, o) => Marked(Solid, o, j)
    BY <1>1, <1>11 DEF WholeCur
  <2>3. Solid \subseteq Held /\ PrevLines \subseteq Held
    BY <1>1 DEF Held
  <2> QED
    BY <1>5, <1>6, <1>7, <1>8, <2>1, <2>2, <2>3, MoreLines
<1> QED
  BY <1>2, <1>5, <1>6, <1>7, <1>8, <1>9, <1>10, <1>11

\* An open move of which nothing is torn is one of an operation in doubt.
LEMMA StillInDoubt ==
  ASSUME TypeOK, NEW o \in Ops, NEW i \in Items, Solid = CurLines,
         Marked(PrevLines, o, i), ~Ended(PrevLines \cup Solid, o)
  PROVE  o \in InDoubt
<1>1. Held = PrevLines \cup Solid
  BY DEF Held
<1>2. Marked(Held, o, i)
  BY <1>1, MoreLines
<1> QED
  BY <1>1, <1>2, Reading

LEMMA BeginAuditInv ==
  ASSUME JournalAssumption, IInv, NEW lookup \in Lookups, BeginAudit(lookup)
  PROVE  IInv'
<1> USE DEF IInv
<1> DEFINE resolved == {o \in Selected : Resolved(o, lookup)}
           copied == {o \in Selected : ~SeenInCurrent(o)} \ resolved
           sound == Intact /\ Cardinality(InDoubt) <= MaxInDoubt
           starts == sound /\ copied \cup resolved # {}
<1>1. /\ stage = "idle" /\ op = NoOp /\ queue = <<>> /\ copying = {} /\ audited # "running"
      /\ UNCHANGED <<files, faults, disk, used, op, todo, item, complete,
                     attempts, moved, settled, joined, cut, excused>>
      /\ claims' = {p \in Selected \X Items : p[2] \in Known(p[1]) /\ Event(p[1], p[2]) = "none"}
  BY DEF BeginAudit, journal, JobShape, Opening
<1>2. /\ PrevLines' = PrevLines /\ CurLines' = CurLines /\ Held' = Held /\ Solid' = Solid
      /\ Exempt' = Exempt /\ Solid \subseteq CurLines /\ (~openTail => Solid = CurLines)
  BY <1>1, SameFiles, SolidLines DEF Exempt, TailShape
<1>3. Selected \subseteq InDoubt /\ InDoubt \subseteq Ops
  BY DEF Selected, InDoubt
<1>4. /\ copied \in SUBSET Ops /\ resolved \in SUBSET Ops /\ copied \cap resolved = {}
      /\ copied \cup resolved \subseteq InDoubt
      /\ \A o \in copied : ~Seen(CurLines, o)
  BY <1>3, Reading
<1>5. ClaimsHold'
  <2> SUFFICES ASSUME NEW p \in claims' \cap attempts, p[1] \notin cut
               PROVE  FALSE
    BY <1>1 DEF ClaimsHold
  <2>1. /\ p[1] \in InDoubt /\ p[2] \in Items /\ p = <<p[1], p[2]>>
        /\ Event(p[1], p[2]) = "none"
    BY <1>1, <1>3
  <2>2. Marked(Held, p[1], p[2])
    BY <1>1, <2>1, ReadInDoubt
  <2> QED
    BY <2>1, <2>2, MarksFound
<1>6. CASE starts
  <2>1. /\ stage' = "opening" /\ copying' = copied /\ sound
    BY <1>6 DEF BeginAudit
  <2>2. /\ queue' \in Seq(Line) /\ queue' # <<>>
        /\ \A l \in QueueLines' : \/ l.op \in copied /\ l.event \in Acts \cup {"planned"}
                                  \/ l.op \in resolved /\ l.event = "reconciled"
        /\ Head(queue').event \notin Acts /\ Head(queue').op \in copied \cup resolved
        /\ \A o \in copied, i \in Items : Event(o, i) # "none" => Marked(QueueLines', o, i)
        /\ \A o \in resolved : Ended(QueueLines', o)
    <3>1. PICK opsOrder \in SetToSeqs(copied), endOrder \in SetToSeqs(resolved),
               itemOrder \in [copied -> SetToSeqs(Items)] :
            queue' = AuditRecords(opsOrder, endOrder, itemOrder)
      BY <1>6 DEF BeginAudit, AuditRecords
    <3> HIDE DEF copied, resolved
    <3>2. copied \cup resolved # {}
      BY <1>6
    <3> QED
      BY <1>4, <3>1, <3>2, AuditQueue DEF QueueLines
  <2>3. audited' = IF audited = "yes" \/ openTail THEN audited ELSE "running"
    BY <1>6 DEF BeginAudit
  <2> HIDE DEF copied, resolved, sound, starts
  <2>4. Garbled \notin Held /\ Selected = InDoubt
    BY <2>1, Reading, AllSelected DEF sound
  <2>5. TypeOK'
    BY <1>1, <1>3, <1>4, <2>1, <2>2, <2>3 DEF TypeOK, files, disk, Stages
  <2>6. JobShape' /\ TailShape'
    BY <1>1, <1>2, <2>1, <2>2, <2>3, <2>4 DEF JobShape, TailShape, Opening, Working, files
  <2>7. Fresh' /\ WriteAhead'
    BY <1>1, <1>2, <2>1 DEF Fresh, WriteAhead
  <2>8. TerminalLasts' /\ WholePrev' /\ WholeCur'
    BY <1>1, <1>2 DEF TerminalLasts, WholePrev, WholeCur
  <2>9. QueueShape'
    BY <1>1, <1>2, <1>4, <2>1, <2>2, ReadInDoubt DEF QueueShape, Acts
  <2>10. WholeCopy'
    <3> SUFFICES ASSUME NEW p \in attempts, p[1] \in copied \ cut
                 PROVE  Marked(QueueLines', p[1], p[2])
      BY <1>1, <2>1 DEF WholeCopy
    <3>1. p = <<p[1], p[2]>> /\ p[2] \in Items
      BY DEF TypeOK
    <3>2. Marked(Held, p[1], p[2])
      BY <1>1, <1>4, <3>1, ReadInDoubt
    <3> QED
      BY <2>2, <3>1, <3>2, MarksFound
  <2>11. OnRecord'
    BY <1>1, <1>2 DEF OnRecord
  <2>12. Audited'
    <3>1. audited' = "yes" => audited = "yes"
      BY <2>3
    <3>2. \A p : Open(p)' = Open(p)
      BY <1>2 DEF Open
    <3>3. ASSUME NEW p \in attempts, Open(p), audited' = "running"
          PROVE  Marked(Solid, p[1], p[2]) \/ p[1] \in copied \/ Ended(QueueLines', p[1])
      <4>1. p = <<p[1], p[2]>> /\ p[1] \in Ops /\ p[2] \in Items
        BY DEF TypeOK
      <4>2. ~openTail
        BY <1>1, <2>3, <3>3
      <4>3. p[1] \in InDoubt /\ p[1] \notin cut
        BY <1>1, <1>2, <3>3, <4>1, <4>2, StillInDoubt DEF Open, Exempt
      <4>4. CASE Seen(CurLines, p[1])
        BY <1>1, <4>1, <4>3, <4>4, ReadInDoubt
      <4>5. CASE ~Seen(CurLines, p[1])
        <5>1. p[1] \in copied \cup resolved
          BY <2>4, <4>3, <4>5, Reading DEF copied
        <5> QED
          BY <2>2, <5>1
      <4> QED
        BY <4>4, <4>5
    <3> QED
      BY <1>1, <1>2, <2>1, <3>1, <3>2, <3>3 DEF Audited
  <2> QED
    BY <1>5, <2>5, <2>6, <2>7, <2>8, <2>9, <2>10, <2>11, <2>12
<1>7. CASE ~starts
  <2>1. /\ UNCHANGED <<stage, queue, copying>>
        /\ audited' = "yes" => audited = "yes" \/ (sound /\ ~openTail /\ copied \cup resolved = {})
        /\ audited' = "running" => audited = "running"
        /\ audited' \in {"no", "yes", "running"}
    <3>1. audited' = (IF audited = "yes" \/ ~sound \/ openTail THEN audited
                      ELSE IF copied \cup resolved = {} THEN "yes" ELSE "running")
      BY DEF BeginAudit
    <3>2. UNCHANGED <<stage, queue, copying>>
      BY <1>7 DEF BeginAudit
    <3> HIDE DEF copied, resolved
    <3>3. audited' = IF audited = "yes" \/ ~sound \/ openTail THEN audited ELSE "yes"
      BY <1>7, <3>1
    <3> QED
      BY <1>1, <1>7, <3>2, <3>3 DEF TypeOK
  <2> HIDE DEF copied, resolved, sound, starts
  <2>2. TypeOK'
    BY <1>1, <1>3, <2>1 DEF TypeOK, files, disk, Stages
  <2>3. JobShape' /\ TailShape' /\ QueueLines' = {}
    BY <1>1, <1>2, <2>1, NothingQueued DEF JobShape, TailShape, Working, Opening, files, QueueLines
  <2>4. Fresh' /\ WriteAhead' /\ TerminalLasts' /\ WholePrev' /\ WholeCur' /\ WholeCopy' /\ OnRecord'
    BY <1>1, <1>2, <2>1
       DEF Fresh, WriteAhead, TerminalLasts, WholePrev, WholeCur, WholeCopy, OnRecord
  <2>5. QueueShape'
    BY <1>1, <2>1, <2>3 DEF QueueShape
  <2>6. Audited'
    <3>1. \A p : Open(p)' = Open(p)
      BY <1>2 DEF Open
    <3>2. ASSUME NEW p \in attempts, Open(p), audited # "yes", audited' = "yes"
          PROVE  Marked(Solid, p[1], p[2])
      <4>1. p = <<p[1], p[2]>> /\ p[1] \in Ops /\ p[2] \in Items
        BY DEF TypeOK
      <4>2. p[1] \in InDoubt /\ p[1] \notin cut
        BY <1>1, <1>2, <2>1, <3>2, <4>1, StillInDoubt DEF Open, Exempt
      <4>3. p[1] \in Selected
        BY <2>1, <3>2, <4>2, AllSelected DEF sound
      <4>4. Seen(CurLines, p[1])
        BY <2>1, <3>2, <4>3, Reading DEF copied
      <4> QED
        BY <1>1, <4>1, <4>2, <4>4, ReadInDoubt
    <3> QED
      BY <1>1, <1>2, <2>1, <3>1, <3>2 DEF Audited
  <2> QED
    BY <1>5, <2>2, <2>3, <2>4, <2>5, <2>6
<1> QED
  BY <1>6, <1>7

LEMMA IntactNext ==
  ASSUME TypeOK', Garbled \notin Held'
  PROVE  Intact'
<1>1. Lines' \in Seq(Line) /\ Range(Lines') = Held'
  BY RangeOfConcat DEF TypeOK, Lines, Held, PrevLines, CurLines
<1> QED
  BY <1>1 DEF Intact, Range

\* One record more of the audit, the last one or not.
LEMMA AppendAuditInv ==
  ASSUME JournalAssumption, IInv, AppendAudit
  PROVE  IInv'
<1> USE DEF IInv
<1> DEFINE r == Head(queue)
           last == Len(queue) = 1
<1>1. /\ stage = "ready" /\ op = NoOp /\ Record(r) /\ queue # <<>> /\ queue \in Seq(Line)
      /\ queue' = Tail(queue)
      /\ UNCHANGED <<disk, used, op, todo, item, complete, attempts, moved, claims, cut>>
  BY DEF AppendAudit, JobShape, Opening, TypeOK
<1>2. /\ r \in QueueLines /\ QueueLines' \subseteq QueueLines
      /\ \A l \in QueueLines : l = r \/ l \in QueueLines'
      /\ (last => queue' = <<>> /\ QueueLines' = {}) /\ (~last => queue' # <<>>)
      /\ queue' \in Seq(Line) /\ r \in Line
  <2>1. /\ QueueLines = {r} \cup QueueLines' /\ queue' \in Seq(Line) /\ r \in Line
        /\ last <=> queue' = <<>>
    BY <1>1, HeadAndTail DEF QueueLines
  <2>2. queue' = <<>> => QueueLines' = {}
    BY DEF QueueLines, Range
  <2> QED
    BY <2>1, <2>2
<1>3. /\ IF r.event = "reconciled" THEN Settle(r.op) ELSE UNCHANGED <<settled, joined>>
      /\ ~last => UNCHANGED <<stage, audited, copying, excused>>
      /\ last => /\ stage' = "idle" /\ copying' = {}
                 /\ audited' = IF audited = "running" /\ Intact' THEN "yes" ELSE audited
                 /\ excused' = IF Intact' THEN excused \ copying ELSE excused
  BY DEF AppendAudit
<1> HIDE DEF r, last
<1>4. /\ Grows(r) /\ PrevLines' = PrevLines /\ Solid \subseteq Solid' /\ Solid' = CurLines'
      /\ CurLines' \subseteq CurLines \cup {r, Garbled} /\ openTail' = FALSE
      /\ (~openTail => CurLines' = CurLines \cup {r} /\ r \in Solid')
  BY <1>1, <1>2, Recorded DEF TailShape, Grows
<1>5. /\ r.op \in used /\ r.op \in Ops
      /\ \/ r.event = "reconciled" /\ r.op \notin copying /\ EndOf(r, r.op)
            /\ settled' = settled \cup {r.op}
            /\ joined' = (IF openTail THEN joined \cup {r.op} ELSE joined)
         \/ r.event \in Acts \cup {"planned"} /\ r.op \in copying /\ UNCHANGED <<settled, joined>>
      /\ openTail => r.event \notin Acts /\ r.op \notin settled \ joined
  <2>1. r.op \in used /\ IF r.event = "reconciled" THEN r.op \notin copying
                         ELSE r.op \in copying /\ r.event \in Acts \cup {"planned"}
    BY <1>2 DEF QueueShape
  <2>2. openTail => r.event \notin Acts /\ r.op \notin settled \ joined
    BY <1>1 DEF QueueShape, r
  <2> QED
    BY <1>3, <2>1, <2>2 DEF Settle, TypeOK, EndOf, Terminals
<1>6. \A p \in attempts : p[1] \in Ops /\ p[2] \in Items /\ p[1] # NoOp /\ p = <<p[1], p[2]>>
  BY DEF TypeOK, JournalAssumption
\* A record of a move is whole: no record of a move goes into a torn line.
<1>7. \A o, i : ActOn(r, o, i) => Marked(Solid', o, i)
  BY <1>4, <1>5 DEF ActOn, Marked
<1>8. settled \ joined \subseteq (settled \ joined)'
  BY <1>5
\* At the end of the audit every copy is there.
<1>9. \A p \in attempts : last /\ p[1] \in copying \ cut => Marked(Solid', p[1], p[2])
  <2> SUFFICES ASSUME NEW p \in attempts, last, p[1] \in copying \ cut
               PROVE  Marked(Solid', p[1], p[2])
    OBVIOUS
  <2>1. Marked(Solid, p[1], p[2]) \/ Marked(QueueLines, p[1], p[2])
    BY DEF WholeCopy
  <2>2. Marked(QueueLines, p[1], p[2]) => ActOn(r, p[1], p[2])
    BY <1>2 DEF Marked
  <2> QED
    BY <1>4, <1>7, <2>1, <2>2, MoreLines
<1>10. copying' \subseteq copying /\ (last => copying' = {}) /\ (~last => copying' = copying)
  BY <1>3
<1>11. TypeOK'
  <2>1. prev' \in Seq(Line) /\ cur' \in Seq(Line) /\ openTail' \in BOOLEAN /\ faults' \in 0 .. MaxFaults
    BY <1>4 DEF Grows, TypeOK
  <2>2. settled' \subseteq Ops /\ joined' \subseteq Ops
    BY <1>5 DEF TypeOK
  <2>3. /\ stage' \in Stages /\ audited' \in {"no", "running", "yes"}
        /\ copying' \subseteq Ops /\ excused' \subseteq Ops
    BY <1>3 DEF TypeOK, Stages
  <2> QED
    BY <1>1, <1>2, <2>1, <2>2, <2>3 DEF TypeOK, disk
<1>12. audited = "running" =>
         /\ Garbled \notin Held' /\ ~openTail /\ r \in Solid'
         /\ last => audited' = "yes"
  <2> SUFFICES ASSUME audited = "running"
               PROVE  /\ Garbled \notin Held' /\ ~openTail /\ r \in Solid'
                      /\ last => audited' = "yes"
    OBVIOUS
  <2>1. ~openTail /\ Garbled \notin Held
    BY DEF TailShape
  <2>2. r # Garbled
    BY <1>5, NoneOfGarbled DEF JournalAssumption
  <2>3. Garbled \notin Held'
    BY <1>4, <2>1, <2>2 DEF Held
  <2>4. Intact'
    BY <1>11, <2>3, IntactNext
  <2> QED
    BY <1>3, <1>4, <2>1, <2>3, <2>4
<1>13. JobShape'
  BY <1>1, <1>2, <1>3, <1>12 DEF JobShape, Opening, Working
<1>14. TailShape'
  BY <1>1, <1>3, <1>4, <1>12 DEF TailShape
<1>15. Fresh'
  <2>1. \A l \in Held' : l.op \in used \cup {NoOp}
    BY <1>4, <1>5, NoneOfGarbled DEF Held, Fresh
  <2>2. settled' \subseteq used /\ NoOp \notin settled'
    BY <1>5 DEF Fresh, TypeOK, JournalAssumption
  <2> QED
    BY <1>1, <2>1, <2>2 DEF Fresh
<1>16. WriteAhead'
  <2>1. \A l \in Held' : l.event = "completed" => l \in Held
    BY <1>4, <1>5, NoneOfGarbled DEF Held, Acts, Events, Terminals
  <2> QED
    BY <1>1, <1>3, <2>1 DEF WriteAhead
<1>17. TerminalLasts'
  <2> SUFFICES ASSUME NEW o \in (settled \ joined)', NEW i \in Items
               PROVE  /\ Marked(CurLines', o, i) => Ended(Solid', o)
                      /\ Marked(PrevLines', o, i) => Ended(PrevLines', o) \/ Ended(Solid', o)
    BY DEF TerminalLasts
  <2>1. CASE o \in settled \ joined
    <3>1. ~ActOn(r, o, i)
      BY <1>5, <2>1 DEF ActOn, QueueShape, Acts
    <3>2. Marked(CurLines', o, i) => Marked(CurLines, o, i)
      BY <1>4, <2>1, <3>1, OneMore DEF TypeOK, JournalAssumption
    <3> QED
      BY <1>4, <2>1, <3>2, MoreLines DEF TerminalLasts
  <2>2. CASE o \notin settled \ joined
    BY <1>4, <1>5, <2>2 DEF Ended
  <2> QED
    BY <2>1, <2>2
<1>18. QueueShape'
  <2>1. copying' \cap (settled \ joined)' = {}
    BY <1>5, <1>10 DEF QueueShape
  <2>2. \A l \in QueueLines' : l \in QueueLines /\ copying' = copying
    BY <1>2, <1>10
  <2> QED
    BY <1>1, <1>3, <1>4, <2>1, <2>2 DEF QueueShape
<1>19. WholePrev'
  BY <1>1, <1>4 DEF WholePrev
<1>20. WholeCur'
  <2> SUFFICES ASSUME NEW p \in attempts, p[1] \notin cut \cup copying', Begun(CurLines', p[1])
               PROVE  Marked(Solid', p[1], p[2])
    BY <1>1 DEF WholeCur
  <2>1. CASE p[1] \in copying
    BY <1>9, <1>10, <2>1
  <2>2. CASE p[1] \notin copying
    <3>1. Begun(CurLines, p[1])
      BY <1>4, <1>5, <1>6, <2>2, OneMore DEF Terminals
    <3> QED
      BY <1>4, <2>2, <3>1, MoreLines DEF WholeCur
  <2> QED
    BY <2>1, <2>2
<1>21. WholeCopy'
  <2> SUFFICES ASSUME NEW p \in attempts, p[1] \in copying \ cut
               PROVE  Marked(Solid', p[1], p[2]) \/ Marked(QueueLines', p[1], p[2])
    BY <1>1, <1>10 DEF WholeCopy
  <2>1. Marked(Solid, p[1], p[2]) \/ Marked(QueueLines, p[1], p[2])
    BY DEF WholeCopy
  <2>2. Marked(QueueLines, p[1], p[2]) => ActOn(r, p[1], p[2]) \/ Marked(QueueLines', p[1], p[2])
    BY <1>2 DEF Marked
  <2> QED
    BY <1>4, <1>7, <2>1, <2>2, MoreLines
\* What is no longer excused is an operation that was copied whole.
<1>22. \A p \in attempts : p[1] \in Exempt =>
         p[1] \in Exempt' \/ Marked(Solid', p[1], p[2])
  BY <1>1, <1>3, <1>8, <1>9 DEF Exempt
<1>23. OnRecord'
  BY <1>1, <1>4, <1>22, MoreLines DEF OnRecord
<1>24. Audited'
  <2> SUFFICES ASSUME NEW p \in attempts, Open(p)', ~Marked(Solid', p[1], p[2]), audited' # "no"
               PROVE  audited' = "running" /\ (p[1] \in copying' \/ Ended(QueueLines', p[1]))
    BY <1>1 DEF Audited
  <2>1. p[1] \notin Exempt /\ p[1] \notin cut
    BY <1>22 DEF Open, Exempt
  <2>2. Open(p)
    BY <1>4, <2>1, StillOpen
  <2>3. ~Marked(Solid, p[1], p[2])
    BY <1>4, MoreLines
  <2>4. audited = "running"
    BY <1>3, <2>2, <2>3 DEF Audited, TypeOK
  <2>5. p[1] \in copying \/ Ended(QueueLines, p[1])
    BY <2>2, <2>3, <2>4 DEF Audited
  <2>6. ~EndOf(r, p[1])
    BY <1>12, <2>4 DEF Open, Ended
  <2>7. p[1] \in copying \/ Ended(QueueLines', p[1])
    BY <1>2, <2>5, <2>6 DEF Ended
  <2>8. ~last
    BY <1>2, <1>9, <2>1, <2>7 DEF Ended
  <2> QED
    BY <1>3, <2>4, <2>7, <2>8
<1>25. ClaimsHold'
  BY <1>1 DEF ClaimsHold
<1> QED
  BY <1>11, <1>13, <1>14, <1>15, <1>16, <1>17, <1>18, <1>19, <1>20, <1>21, <1>23, <1>24, <1>25

-----------------------------------------------------------------------------
(* The results.                                                              *)

\* In every reachable state, whatever was torn, cut short, rotated or copied,
\* the invariant relates the lines of the two files to what was really moved.
THEOREM InductiveInvariant ==
  ASSUME JournalAssumption
  PROVE  Spec => []IInv
<1>1. Init => IInv
  BY InitInv
<1>2. IInv /\ [Next]_vars => IInv'
  <2> SUFFICES ASSUME IInv, [Next]_vars
               PROVE  IInv'
    OBVIOUS
  <2>1. ASSUME NEW o \in Ops, NEW S \in SUBSET Items, BeginTrash(o, S)
        PROVE  IInv'
    BY <2>1, BeginTrashInv
  <2>2. ASSUME NEW lookup \in Lookups, BeginAudit(lookup)
        PROVE  IInv'
    BY <2>2, BeginAuditInv
  <2>3. CASE RemovePrevious
    BY <2>3, RemovePreviousInv
  <2>4. CASE RenameCurrent
    BY <2>4, RenameCurrentInv
  <2>5. CASE OpenCurrent
    BY <2>5, OpenCurrentInv
  <2>6. CASE RecordPlanned
    BY <2>6, RecordPlannedInv
  <2>7. CASE StopItems \/ CancelMarked
    BY <2>7, StopInv
  <2>8. ASSUME NEW i \in Items, RecordMoving(i)
        PROVE  IInv'
    BY <2>8, RecordMovingInv
  <2>9. CASE MoveToTrash
    BY <2>9, MoveToTrashInv
  <2>10. CASE RecordMoved \/ RecordFailed
    BY <2>10, RecordResultInv
  <2>11. CASE RecordCompleted
    BY <2>11, RecordCompletedInv
  <2>12. CASE AppendAudit
    BY <2>12, AppendAuditInv
  <2>13. CASE OpenFails \/ Crash \/ AppendAuditFails
    BY <2>13, BrokenOffInv
  <2>14. CASE UNCHANGED vars \/ EmptyTrash \/ \E i \in Items : Recreate(i)
    BY <2>14, OutsideInv
  <2> QED
    BY <2>1, <2>2, <2>3, <2>4, <2>5, <2>6, <2>7, <2>8, <2>9, <2>10, <2>11, <2>12, <2>13, <2>14
       DEF Next
<1> QED
  BY <1>1, <1>2, PTL DEF Spec

\* The variables keep their types.
THEOREM TypeCorrect ==
  ASSUME JournalAssumption
  PROVE  Spec => []TypeOK
BY InductiveInvariant, PTL DEF IInv

\* A `completed` record vouches for every move of its operation
\* (execute_with_journal: journal_complete is cleared on every doubtful path).
THEOREM VouchSafety ==
  ASSUME JournalAssumption
  PROVE  Spec => []CompletedVouches
<1>1. IInv => CompletedVouches
  <2> SUFFICES ASSUME IInv
               PROVE  CompletedVouches
    OBVIOUS
  <2>1. Lines \in Seq(Line) /\ Range(Lines) = Held
    BY LinesHeld DEF IInv
  <2>2. \A n \in DOMAIN Lines : Lines[n] \in Held
    BY <2>1 DEF Range
  <2> QED
    BY <2>2 DEF IInv, WriteAhead, CompletedVouches
<1> QED
  BY <1>1, InductiveInvariant, PTL

\* An operation whose terminal record stands on a line of its own is never
\* taken up again by an audit (load_operations, apply_record).
THEOREM SettledSafety ==
  ASSUME JournalAssumption
  PROVE  Spec => []SettledStaysSettled
<1>1. IInv => SettledStaysSettled
  <2> SUFFICES ASSUME IInv, NEW o \in settled \ joined, o \in InDoubt
               PROVE  FALSE
    BY DEF SettledStaysSettled
  <2>1. o \in Ops /\ Solid \subseteq Held
    BY SolidLines DEF IInv, TypeOK, TailShape, Held
  <2>2. ~Ended(Held, o) /\ \E i \in Items : Marked(Held, o, i)
    BY <2>1, Reading DEF IInv
  <2>3. PICK i \in Items : Marked(Held, o, i)
    BY <2>2
  <2>4. Marked(PrevLines, o, i) \/ Marked(CurLines, o, i)
    BY <2>3 DEF Marked, Held
  <2>5. Ended(PrevLines, o) \/ Ended(Solid, o)
    BY <2>4 DEF IInv, TerminalLasts
  <2> QED
    BY <2>1, <2>2, <2>5, MoreLines DEF Held
<1> QED
  BY <1>1, InductiveInvariant, PTL

\* Every item the system was asked to move is on record until its operation is
\* over, with the exceptions the property names (checkpoint_records,
\* rotate_journal_if_needed).
THEOREM RecordSafety ==
  ASSUME JournalAssumption
  PROVE  Spec => []AttemptStaysOnRecord
<1>1. IInv => AttemptStaysOnRecord
  <2> SUFFICES ASSUME IInv, NEW p \in attempts, p[1] \notin Exempt
               PROVE  Event(p[1], p[2]) # "none"
    BY DEF AttemptStaysOnRecord, Exempt
  <2>1. p[2] \in Items /\ Solid \subseteq Held /\ PrevLines \subseteq Held
    BY SolidLines DEF IInv, TypeOK, TailShape, Held
  <2>2. Marked(Held, p[1], p[2])
    BY <2>1, MoreLines DEF IInv, OnRecord
  <2> QED
    BY <2>1, <2>2, MarksFound DEF IInv
<1> QED
  BY <1>1, InductiveInvariant, PTL

\* The audit says "not started" only of items never handed to the system
\* (reconcile_item).
THEOREM NotStartedSafety ==
  ASSUME JournalAssumption
  PROVE  Spec => []NotStartedIsUntouched
<1>1. IInv => NotStartedIsUntouched
  BY DEF IInv, ClaimsHold, NotStartedIsUntouched
<1> QED
  BY <1>1, InductiveInvariant, PTL
=============================================================================
