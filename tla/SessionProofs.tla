--------------------------- MODULE SessionProofs ---------------------------
(***************************************************************************)
(* Proofs about one connection (Session.tla), for every set of workloads,   *)
(* every bound and, where a theorem does not say otherwise, every quirk.    *)
(***************************************************************************)
EXTENDS Session, TLAPS, SequenceTheorems, FiniteSetTheorems, WellFoundedInduction

-----------------------------------------------------------------------------
(* The inductive invariant.                                                 *)

CharFields == Fields \cup {"txn_ro"}
Saved == UNION {[D -> Flag] : D \in SUBSET CharFields}
Entry == [local : BOOLEAN, saved : Saved]

Mark(w) ==
    [name : w.saves, writes : Nat, guc : Nat, ro : Flag, cursors : SUBSET CursorNames,
     vars : Vars, want : Vars, errs : SUBSET ErrClasses]

TxnRec(w) ==
    [open : BOOLEAN, implicit : BOOLEAN, failed : BOOLEAN, read_only : Flag,
     snap_set : BOOLEAN, writes : 0..MaxWrites, guc_stack : Seq(Entry), saves : Seq(Mark(w)),
     before : Vars, want : Vars, errs : SUBSET ErrClasses]

Cursor == [st : {"none", "lazy", "open", "dead"}, hold : BOOLEAN, depth : 0..MaxSaves]

SessionRec(w) ==
    [txn : TxnRec(w), vars : Vars, next_ro : Flag,
     ended : {"no", "commit", "abort", "rewind"}, cursors : [CursorNames -> Cursor]]

\* A closed transaction has left nothing behind; the lists stay in their bounds.
Bounded(s, w) ==
    /\ ~s.txn.open => s.txn = NoTxn
    /\ Len(s.txn.guc_stack) <= w.max_stack
    /\ Len(s.txn.saves) <= MaxSaves

\* The marks are positions inside the logs they cut, innermost last.
Nested(s) ==
    LET t == s.txn IN
    /\ t.saves # <<>> => t.open /\ ~t.implicit
    /\ \A i \in DOMAIN t.saves :
        /\ t.saves[i].guc <= Len(t.guc_stack) /\ t.saves[i].writes <= t.writes
        /\ \A j \in 1..i : /\ t.saves[j].guc <= t.saves[i].guc
                           /\ t.saves[j].writes <= t.saves[i].writes

\* What crosses the end of a block.
AtBoundary(s) ==
    /\ s.txn.open => s.next_ro = None
    /\ ~s.txn.open => \A c \in CursorNames : s.cursors[c].st # "none" => s.cursors[c].hold

\* An error that must abort has failed the transaction, and no mark holds one.
ErrorsFail(s) ==
    LET t == s.txn IN
    /\ "exec" \in t.errs => t.failed
    /\ t.implicit /\ ~(t.errs \subseteq {"copy"}) => t.failed
    /\ \A i \in DOMAIN t.saves : "exec" \notin t.saves[i].errs

\* A mark knows exactly the cursors declared before it.
CursorsMarked(s) ==
    \A c \in CursorNames :
        /\ s.cursors[c].st = "none" => s.cursors[c] = NoCursor
        /\ "redeclare" \notin Quirks =>
            /\ s.cursors[c].depth <= Len(s.txn.saves)
            /\ \A i \in DOMAIN s.txn.saves :
                c \in s.txn.saves[i].cursors
                    <=> s.cursors[c].st # "none" /\ s.cursors[c].depth < i

Counts(e, f, commit) == f \in DOMAIN e.saved /\ (commit => e.local)

\* Undoing the entries lo + 1 .. hi of the stack takes v to goal: for each field
\* the oldest of them that saved it holds goal's value, and if none did, v has it.
Undoes(v, stack, lo, hi, commit, goal) ==
    \A f \in DOMAIN goal :
        /\ (\A i \in lo + 1..hi : ~Counts(stack[i], f, commit)) => v[f] = goal[f]
        /\ \A i \in lo + 1..hi :
            Counts(stack[i], f, commit) /\ (\A j \in lo + 1..i - 1 : ~Counts(stack[j], f, commit))
                => stack[i].saved[f] = goal[f]

\* The moments a transaction may go back to, its marks, and the present one.
At(s, i) ==
    IF i \in DOMAIN s.txn.saves THEN s.txn.saves[i]
    ELSE [vars |-> s.vars, want |-> s.txn.want, ro |-> s.txn.read_only,
          guc |-> Len(s.txn.guc_stack)]

Moments(s) == 1..Len(s.txn.saves) + 1

\* From every moment, an abort goes back to the settings before the block, ...
AbortUndoes(s) ==
    \A i \in Moments(s) :
        Undoes(At(s, i).vars, s.txn.guc_stack, 0, At(s, i).guc, FALSE, s.txn.before)

\* ... a commit leaves the wanted ones, ...
CommitUndoes(s) ==
    \A i \in Moments(s) :
        Undoes(At(s, i).vars, s.txn.guc_stack, 0, At(s, i).guc, TRUE, At(s, i).want)

\* ... and ROLLBACK TO an earlier mark restores what was in force there.
MarkUndoes(s) ==
    \A i \in Moments(s) : \A k \in 1..i - 1 :
        Undoes(WithTxn(At(s, i).vars, At(s, i).ro), s.txn.guc_stack,
               s.txn.saves[k].guc, At(s, i).guc, FALSE,
               WithTxn(s.txn.saves[k].vars, s.txn.saves[k].ro))

CommitsExact == Quirks \cap {"set_after_local", "reset_custom"} = {}

SettingsUndo(s) ==
    s.txn.open =>
        /\ "reset_custom" \notin Quirks => AbortUndoes(s) /\ MarkUndoes(s)
        /\ CommitsExact => CommitUndoes(s)

\* The invariant of a session, ...
Core(s, w) ==
    /\ s \in SessionRec(w)
    /\ Bounded(s, w)
    /\ Nested(s)
    /\ AtBoundary(s)
    /\ ErrorsFail(s)
    /\ CursorsMarked(s)

Good(s, w) == Core(s, w) /\ SettingsUndo(s)

\* ... of the message in progress, ...
QueryGood ==
    /\ query \in [active : BOOLEAN, left : 0..client.max_stmts, implicit : BOOLEAN,
                  errs : SUBSET ErrClasses]
    /\ ~query.active => query = Idle
    /\ session.txn.implicit => (query.active /\ query.implicit) \/ session.txn.failed
    /\ ~(query.errs \subseteq {"copy"}) => query.left = 0 /\ ~session.txn.implicit

\* ... of the prepared statement and the portal.
Parsed == {st \in Stmts : st.op # "SYNTAX"} \cup {NoStmt}

PortalGood ==
    /\ prepared \in Parsed
    /\ portal \in [stmt : Parsed, ran : 0..1, st : {"none", "bound", "suspended", "done"}]
    /\ portal.st = "bound" => portal.stmt # NoStmt /\ portal.ran = 0
    /\ in_error \in BOOLEAN

SInv ==
    /\ client \in Clients
    /\ Good(session, client)
    /\ QueryGood
    /\ PortalGood

-----------------------------------------------------------------------------
(* What undoing a stack of settings does.                                   *)

\* A set of numbers that is not empty has a least one.
LEMMA Least ==
    ASSUME NEW T, T \subseteq Nat, T # {}
    PROVE  \E x \in T : \A y \in T : x <= y
<1> DEFINE R == OpToRel(<, Nat)
<1>1. PICK m \in T : \A y \in T : ~ (<<y, m>> \in R)
    <2> HIDE DEF R
    <2>1. IsWellFoundedOn(R, Nat)
        BY NatLessThanWellFounded DEF R
    <2> QED  BY <2>1, WFMin
<1>2. ASSUME NEW y \in T PROVE m <= y
    <2>1. ~ (y < m)
        BY <1>1 DEF OpToRel
    <2> QED  BY <2>1
<1> QED  BY <1>2

\* One entry undone, and the newest entries undone one by one, as Restored does it.
OneUndone(e, commit, v) == IF commit /\ ~e.local THEN v ELSE Over(e.saved, v)

UndoStep(all, entries, commit, u, k) ==
    IF k = 0 THEN all
    ELSE OneUndone(entries[Len(entries) - k + 1], commit, u[k - 1])

Undoing(all, entries, commit, u) ==
    u = [k \in 0..Len(entries) |-> UndoStep(all, entries, commit, u, k)]

\* The recursion of Restored has a solution, of which it takes the last value.
LEMMA UndoExists ==
    ASSUME NEW all, NEW entries, Len(entries) \in Nat, NEW commit
    PROVE  \E u : /\ Undoing(all, entries, commit, u)
                  /\ Restored(all, entries, commit) = u[Len(entries)]
<1> DEFINE n == Len(entries)
           Sol(m, u) == u = [k \in 0..m |-> UndoStep(all, entries, commit, u, k)]
           Bad == {m \in 0..n : ~\E u : Sol(m, u)}
<1>1. Bad = {}
  <2> SUFFICES ASSUME Bad # {} PROVE FALSE
      OBVIOUS
  <2>1. PICK m \in Bad : \A y \in Bad : m <= y
    <3>1. Bad \subseteq Nat
        BY SMT
    <3> HIDE DEF Bad
    <3> QED  BY <3>1, Least
  <2>2. CASE m = 0
    <3> DEFINE u == [k \in 0..0 |-> all]
    <3>1. Sol(0, u)
        BY DEF UndoStep
    <3> QED  BY <2>2, <2>1, <3>1
  <2>3. CASE m # 0
    <3>1. m - 1 \in 0..n /\ m - 1 \notin Bad /\ m \in Nat
        BY <2>1, <2>3
    <3>2. PICK v : Sol(m - 1, v)
        BY <3>1
    <3> DEFINE u == [k \in 0..m |-> IF k = m THEN UndoStep(all, entries, commit, v, k) ELSE v[k]]
    <3>3. \A k \in 0..m - 1 : v[k] = UndoStep(all, entries, commit, v, k)
        BY <3>2
    <3>4. \A k \in 0..m : UndoStep(all, entries, commit, u, k) = UndoStep(all, entries, commit, v, k)
        BY <3>1 DEF UndoStep
    <3>5. Sol(m, u)
        BY <3>1, <3>3, <3>4
    <3> QED  BY <3>5, <2>1
  <2> QED  BY <2>2, <2>3
<1>2. PICK u : Sol(n, u)
    BY <1>1
<1>3. Restored(all, entries, commit) = (CHOOSE w : Sol(n, w))[n]
    BY DEF Restored, UndoStep, OneUndone
<1>4. Sol(n, CHOOSE w : Sol(n, w))
    BY <1>2
<1> QED  BY <1>3, <1>4 DEF Undoing

LEMMA SameFunction ==
    ASSUME NEW D, NEW S, NEW f \in [D -> S], NEW g \in [D -> S], \A x \in D : f[x] = g[x]
    PROVE  f = g
    OBVIOUS

\* One entry undone leaves the older ones to undo.
LEMMA UndoOne ==
    ASSUME NEW D, NEW goal \in [D -> Flag], NEW v \in [D -> Flag],
           NEW entries \in Seq(Entry), NEW commit \in BOOLEAN,
           NEW j \in 1..Len(entries), NEW w, w = OneUndone(entries[j], commit, v)
    PROVE  /\ w \in [D -> Flag]
           /\ Undoes(v, entries, 0, j, commit, goal) => Undoes(w, entries, 0, j - 1, commit, goal)
<1> DEFINE e == entries[j]
<1>1. e \in Entry
    BY ElementOfSeq
<1>2. PICK E \in SUBSET CharFields : e.saved \in [E -> Flag]
    BY <1>1 DEF Entry, Saved
<1>3. w \in [D -> Flag]
    BY <1>2 DEF Over, OneUndone
<1>4. \A f \in D : w[f] = IF Counts(e, f, commit) THEN e.saved[f] ELSE v[f]
    BY <1>1, <1>2 DEF Over, OneUndone, Counts, Entry
<1> SUFFICES ASSUME Undoes(v, entries, 0, j, commit, goal)
             PROVE  Undoes(w, entries, 0, j - 1, commit, goal)
    BY <1>3
<1>5. \A i \in 0 + 1..j - 1 : i \in 0 + 1..j
    OBVIOUS
<1>6. j \in 0 + 1..j /\ \A i \in 0 + 1..j : i = j \/ i \in 0 + 1..j - 1
    OBVIOUS
<1>7. ASSUME NEW f \in D, \A i \in 0 + 1..j - 1 : ~Counts(entries[i], f, commit)
      PROVE  w[f] = goal[f]
  <2>1. CASE Counts(e, f, commit)
      BY <1>4, <1>6, <1>7, <2>1 DEF Undoes
  <2>2. CASE ~Counts(e, f, commit)
    <3>1. \A i \in 0 + 1..j : ~Counts(entries[i], f, commit)
        BY <1>6, <1>7, <2>2
    <3> QED  BY <1>4, <2>2, <3>1 DEF Undoes
  <2> QED  BY <2>1, <2>2
<1>8. ASSUME NEW f \in D, NEW i \in 0 + 1..j - 1, Counts(entries[i], f, commit),
             \A k \in 0 + 1..i - 1 : ~Counts(entries[k], f, commit)
      PROVE  entries[i].saved[f] = goal[f]
    BY <1>5, <1>8 DEF Undoes
<1> QED
    BY <1>7, <1>8 DEF Undoes

\* Restored takes a state that the entries undo to the goal.
LEMMA RestoredGoal ==
    ASSUME NEW D, NEW goal \in [D -> Flag], NEW all \in [D -> Flag],
           NEW entries \in Seq(Entry), NEW commit \in BOOLEAN
    PROVE  /\ Restored(all, entries, commit) \in [D -> Flag]
           /\ Undoes(all, entries, 0, Len(entries), commit, goal)
                => Restored(all, entries, commit) = goal
<1>0. Len(entries) \in Nat
    BY LenProperties
<1>1. PICK u : /\ Undoing(all, entries, commit, u)
               /\ Restored(all, entries, commit) = u[Len(entries)]
    BY <1>0, UndoExists
<1> DEFINE n == Len(entries)
<1> DEFINE Given == Undoes(all, entries, 0, Len(entries), commit, goal)
           P(k) == u[k] \in [D -> Flag] /\ (Given => Undoes(u[k], entries, 0, n - k, commit, goal))
           Bad == {k \in 0..n : ~P(k)}
<1>2. Bad = {}
  <2> SUFFICES ASSUME Bad # {} PROVE FALSE
      OBVIOUS
  <2>1. PICK m \in Bad : \A y \in Bad : m <= y
    <3>1. Bad \subseteq Nat
        BY <1>0, SMT
    <3> HIDE DEF Bad
    <3> QED  BY <3>1, Least
  <2>2. CASE m = 0
    <3>1. u[0] = all
        BY <1>0, <1>1 DEF Undoing, UndoStep
    <3> QED  BY <1>0, <2>1, <2>2, <3>1
  <2>3. CASE m # 0
    <3>1. m \in 1..n /\ m - 1 \in 0..n /\ ~P(m) /\ m - 1 \notin Bad
        BY <1>0, <2>1, <2>3
    <3>2. P(m - 1)
        BY <3>1
    <3>3. PICK j \in 1..n : j = n - m + 1 /\ j = n - (m - 1) /\ j - 1 = n - m
        BY <1>0, <3>1, SMTT(30)
    <3>4. u[m] = OneUndone(entries[j], commit, u[m - 1])
      <4>1. u[m] = UndoStep(all, entries, commit, u, m)
          BY <1>1, <3>1 DEF Undoing
      <4> QED  BY <4>1, <2>3, <3>3 DEF UndoStep
    <3>5. u[m - 1] \in [D -> Flag] /\ (Given => Undoes(u[m - 1], entries, 0, j, commit, goal))
        BY <3>2, <3>3
    <3> HIDE DEF P
    <3> DEFINE v == u[m - 1]
               w == u[m]
    <3>6. /\ v \in [D -> Flag] /\ j \in 1..Len(entries) /\ w = OneUndone(entries[j], commit, v)
          /\ Given => Undoes(v, entries, 0, j, commit, goal)
        BY <3>4, <3>5
    <3> HIDE DEF v, w, Bad, n, Given
    <3>7. w \in [D -> Flag] /\ (Given => Undoes(w, entries, 0, j - 1, commit, goal))
        BY <3>6, UndoOne
    <3>8. u[m] \in [D -> Flag] /\ (Given => Undoes(u[m], entries, 0, j - 1, commit, goal))
        BY <3>7 DEF w
    <3>9. P(m)
        BY <3>3, <3>8 DEF P
    <3> QED  BY <3>1, <3>9
  <2> QED  BY <2>2, <2>3
<1>3. P(n)
    BY <1>0, <1>2
<1>4. u[n] \in [D -> Flag] /\ (Given => \A f \in D : u[n][f] = goal[f])
    BY <1>0, <1>3 DEF Undoes
<1>5. ASSUME Given PROVE u[n] = goal
  <2>1. u[n] \in [D -> Flag] /\ \A f \in D : u[n][f] = goal[f]
      BY <1>4, <1>5
  <2> HIDE DEF n, Given
  <2> QED  BY <2>1, SameFunction
<1> QED
    BY <1>1, <1>4, <1>5

-----------------------------------------------------------------------------
(* How Undoes changes with the stack.                                       *)

\* It only looks at the entries between lo and hi.
LEMMA UndoesSame ==
    ASSUME NEW v, NEW st1, NEW st2, NEW lo \in Nat, NEW hi \in Nat, NEW commit, NEW goal,
           Undoes(v, st1, lo, hi, commit, goal), \A i \in lo + 1..hi : st2[i] = st1[i]
    PROVE  Undoes(v, st2, lo, hi, commit, goal)
    BY DEF Undoes

\* Nothing to undo.
LEMMA UndoesNothing ==
    ASSUME NEW v, NEW st1, NEW lo \in Nat, NEW commit
    PROVE  Undoes(v, st1, lo, lo, commit, v)
    BY DEF Undoes

\* A new entry saves the fields that change.
LEMMA UndoesPush ==
    ASSUME NEW D, NEW v \in [D -> Flag], NEW v2 \in [D -> Flag], NEW goal \in [D -> Flag],
           NEW stack \in Seq(Entry), NEW e \in Entry, NEW lo \in Nat, lo <= Len(stack),
           NEW commit \in BOOLEAN, Undoes(v, stack, lo, Len(stack), commit, goal),
           \A f \in D : IF Counts(e, f, commit) THEN e.saved[f] = v[f] ELSE v2[f] = v[f]
    PROVE  Undoes(v2, Append(stack, e), lo, Len(stack) + 1, commit, goal)
<1> DEFINE n == Len(stack)
           new == Append(stack, e)
<1>1. n \in Nat /\ new[n + 1] = e /\ \A i \in lo + 1..n : new[i] = stack[i]
    BY LenProperties, AppendProperties
<1>2. /\ \A i \in lo + 1..n + 1 : i = n + 1 \/ i \in lo + 1..n
      /\ n + 1 \in lo + 1..n + 1 /\ \A i \in lo + 1..n : i \in lo + 1..n + 1
      /\ (n + 1) - 1 = n
    BY <1>1
<1>3. ASSUME NEW f \in D, \A i \in lo + 1..n + 1 : ~Counts(new[i], f, commit)
      PROVE  v2[f] = goal[f]
    BY <1>1, <1>2, <1>3 DEF Undoes
<1>4. ASSUME NEW f \in D, NEW i \in lo + 1..n + 1, Counts(new[i], f, commit),
             \A j \in lo + 1..i - 1 : ~Counts(new[j], f, commit)
      PROVE  new[i].saved[f] = goal[f]
  <2>1. CASE i = n + 1
    <3>1. \A j \in lo + 1..n : ~Counts(stack[j], f, commit)
        BY <1>1, <1>2, <1>4, <2>1
    <3>2. v[f] = goal[f]
        BY <3>1 DEF Undoes
    <3> QED  BY <1>1, <1>4, <2>1, <3>2
  <2>2. CASE i # n + 1
    <3>1. i \in lo + 1..n /\ \A j \in lo + 1..i - 1 : j \in lo + 1..n
        BY <1>1, <1>2, <2>2
    <3> HIDE DEF new
    <3>2. Counts(stack[i], f, commit) /\ \A j \in lo + 1..i - 1 : ~Counts(stack[j], f, commit)
        BY <1>1, <1>4, <3>1
    <3>3. stack[i].saved[f] = goal[f]
        BY <3>1, <3>2 DEF Undoes
    <3> QED  BY <1>1, <3>1, <3>3
  <2> QED  BY <2>1, <2>2
<1> HIDE DEF new
<1>5. Undoes(v2, new, lo, n + 1, commit, goal)
    BY <1>3, <1>4 DEF Undoes
<1> QED
    BY <1>5 DEF new

\* A setting no entry saved may be set in both.
LEMMA UndoesSet ==
    ASSUME NEW D, NEW v \in [D -> Flag], NEW goal \in [D -> Flag], NEW new,
           NEW stack, NEW lo \in Nat, NEW hi \in Nat, NEW commit \in BOOLEAN,
           Undoes(v, stack, lo, hi, commit, goal),
           \A f \in DOMAIN new \cap D : \A i \in lo + 1..hi : ~Counts(stack[i], f, commit)
    PROVE  Undoes(Over(new, v), stack, lo, hi, commit, Over(new, goal))
    BY DEF Undoes, Over

\* The entries after lo, as a stack of their own.
LEMMA UndoesSub ==
    ASSUME NEW v, NEW stack \in Seq(Entry), NEW lo \in Nat, lo <= Len(stack),
           NEW commit, NEW goal, Undoes(v, stack, lo, Len(stack), commit, goal)
    PROVE  LET sub == SubSeq(stack, lo + 1, Len(stack)) IN
           sub \in Seq(Entry) /\ Undoes(v, sub, 0, Len(sub), commit, goal)
<1> DEFINE sub == SubSeq(stack, lo + 1, Len(stack))
<1>1. /\ sub \in Seq(Entry) /\ Len(sub) = Len(stack) - lo /\ Len(stack) \in Nat
      /\ \A i \in 1..Len(sub) : sub[i] = stack[lo + i]
    BY LenProperties, SubSeqProperties
<1> DEFINE n == Len(sub)
<1> HIDE DEF sub
<1>2. n \in Nat /\ lo + n = Len(stack)
    BY <1>1
<1>3. \A i \in 1..n : lo + i \in lo + 1..Len(stack) /\ sub[i] = stack[lo + i]
    BY <1>1, <1>2
<1>4. \A i \in lo + 1..Len(stack) : i - lo \in 1..n /\ stack[i] = sub[i - lo]
    BY <1>2, <1>3
<1>5. ASSUME NEW f \in DOMAIN goal, \A i \in 0 + 1..n : ~Counts(sub[i], f, commit)
      PROVE  v[f] = goal[f]
    BY <1>4, <1>5 DEF Undoes
<1>6. ASSUME NEW f \in DOMAIN goal, NEW i \in 0 + 1..n, Counts(sub[i], f, commit),
             \A j \in 0 + 1..i - 1 : ~Counts(sub[j], f, commit)
      PROVE  sub[i].saved[f] = goal[f]
  <2>1. \A j \in lo + 1..(lo + i) - 1 : j - lo \in 0 + 1..i - 1 /\ stack[j] = sub[j - lo]
      BY <1>2, <1>4
  <2>2. lo + i \in lo + 1..Len(stack) /\ stack[lo + i] = sub[i]
      BY <1>3
  <2>3. stack[lo + i].saved[f] = goal[f]
      BY <1>6, <2>1, <2>2 DEF Undoes
  <2> QED  BY <2>2, <2>3
<1>7. Undoes(v, sub, 0, n, commit, goal)
    BY <1>5, <1>6 DEF Undoes
<1> QED
    BY <1>1, <1>7 DEF sub

-----------------------------------------------------------------------------
(* The invariant under the steps statements are made of.                    *)

\* What SettingsUndo looks at.
SameSettings(s, t) ==
    /\ t.txn.open = s.txn.open /\ t.vars = s.vars
    /\ t.txn.guc_stack = s.txn.guc_stack /\ t.txn.saves = s.txn.saves
    /\ t.txn.before = s.txn.before /\ t.txn.want = s.txn.want
    /\ t.txn.read_only = s.txn.read_only

LEMMA SettingsSame ==
    ASSUME NEW s, NEW t, SettingsUndo(s), SameSettings(s, t)
    PROVE  SettingsUndo(t)
<1>1. Moments(t) = Moments(s) /\ \A i \in Moments(t) : At(t, i) = At(s, i)
    BY DEF SameSettings, Moments, At
<1>2. AbortUndoes(s) => AbortUndoes(t)
    BY <1>1 DEF SameSettings, AbortUndoes
<1>3. CommitUndoes(s) => CommitUndoes(t)
    BY <1>1 DEF SameSettings, CommitUndoes
<1>4. MarkUndoes(s) => MarkUndoes(t)
    BY <1>1 DEF SameSettings, MarkUndoes
<1> QED
    BY <1>2, <1>3, <1>4 DEF SettingsUndo, SameSettings

SameCursors(s, t) ==
    \A c \in CursorNames :
        /\ t.cursors[c].st = "none" <=> s.cursors[c].st = "none"
        /\ t.cursors[c].hold = s.cursors[c].hold
        /\ t.cursors[c].depth = s.cursors[c].depth

\* A step that leaves block, settings and marks alone and writes more or nothing.
LEMMA DataGood ==
    ASSUME NEW w, NEW s, Good(s, w), NEW t \in SessionRec(w),
           SameSettings(s, t), SameCursors(s, t), t.next_ro = s.next_ro,
           t.txn.implicit = s.txn.implicit, s.txn.writes <= t.txn.writes,
           ErrorsFail(t), ~t.txn.open => t.txn = NoTxn
    PROVE  Good(t, w)
<1>1. SettingsUndo(t)
    BY SettingsSame DEF Good
<1>2. Bounded(t, w)
    BY DEF Good, Core, Bounded, SameSettings
<1>3. Nested(t)
  <2>1. s.txn.writes \in 0..MaxWrites /\ t.txn.writes \in 0..MaxWrites
      BY DEF Good, Core, SessionRec, TxnRec
  <2>2. \A i \in DOMAIN s.txn.saves : s.txn.saves[i].writes \in Nat
    <3>1. s.txn.saves \in Seq(Mark(w))
        BY DEF Good, Core, SessionRec, TxnRec
    <3>2. \A i \in DOMAIN s.txn.saves : s.txn.saves[i] \in Mark(w)
        BY <3>1, ElementOfSeq, LenProperties
    <3> QED  BY <3>2 DEF Mark
  <2> QED  BY <2>1, <2>2, SessionAssumption DEF Good, Core, Nested, SameSettings
<1>4. AtBoundary(t)
    BY DEF Good, Core, AtBoundary, SameSettings, SameCursors
<1>5. CursorsMarked(t)
  <2>1. \A c \in CursorNames : s.cursors[c] \in Cursor /\ t.cursors[c] \in Cursor
      BY DEF Good, Core, SessionRec
  <2>2. ASSUME NEW c \in CursorNames, t.cursors[c].st = "none" PROVE t.cursors[c] = NoCursor
    <3>1. s.cursors[c] = NoCursor
        BY <2>2 DEF Good, Core, CursorsMarked, SameCursors
    <3> QED  BY <2>1, <2>2, <3>1 DEF Cursor, NoCursor, SameCursors
  <2> QED  BY <2>2 DEF Good, Core, CursorsMarked, SameSettings, SameCursors
<1> QED
    BY <1>1, <1>2, <1>3, <1>4, <1>5 DEF Good, Core

\* Reporting an error that has failed the transaction where it must.
LEMMA ReportedGood ==
    ASSUME NEW w, NEW s, Good(s, w), NEW err \in {"none"} \cup ErrClasses,
           err = "exec" => ~s.txn.open \/ s.txn.failed,
           err = "utility" => ~s.txn.implicit \/ s.txn.failed
    PROVE  /\ Good(Reported(s, err), w)
           /\ Reported(s, err) = [s EXCEPT !.txn.errs = Reported(s, err).txn.errs]
<1> DEFINE t == Reported(s, err)
<1>1. s \in SessionRec(w) /\ s.txn \in TxnRec(w)
    BY DEF Good, Core, SessionRec
<1>2. CASE err # "none" /\ s.txn.open
  <2>1. t = [s EXCEPT !.txn.errs = @ \cup {err}]
      BY <1>2 DEF Reported
  <2>2. t \in SessionRec(w)
      BY <1>1, <1>2, <2>1 DEF SessionRec, TxnRec, ErrClasses
  <2>3. /\ t.vars = s.vars /\ t.next_ro = s.next_ro /\ t.cursors = s.cursors
        /\ t.txn = [s.txn EXCEPT !.errs = @ \cup {err}]
      BY <1>1, <2>1 DEF SessionRec
  <2>4. /\ t.txn.open = s.txn.open /\ t.txn.implicit = s.txn.implicit
        /\ t.txn.failed = s.txn.failed /\ t.txn.read_only = s.txn.read_only
        /\ t.txn.writes = s.txn.writes /\ t.txn.guc_stack = s.txn.guc_stack
        /\ t.txn.saves = s.txn.saves /\ t.txn.before = s.txn.before /\ t.txn.want = s.txn.want
        /\ t.txn.errs = s.txn.errs \cup {err}
      BY <1>1, <2>3 DEF TxnRec
  <2>5. SameSettings(s, t) /\ SameCursors(s, t) /\ t.next_ro = s.next_ro /\ t.txn.open
        /\ t.txn.implicit = s.txn.implicit /\ s.txn.writes = t.txn.writes
        /\ t.txn.errs = s.txn.errs \cup {err} /\ t.txn.failed = s.txn.failed
      BY <1>2, <2>3, <2>4 DEF SameSettings, SameCursors
  <2>6. ErrorsFail(t)
      BY <1>2, <2>5 DEF Good, Core, ErrorsFail, SameSettings, ErrClasses
  <2>7. s.txn.writes <= t.txn.writes
      BY <1>1, <2>5, SessionAssumption DEF TxnRec
  <2>8. t = [s EXCEPT !.txn.errs = t.txn.errs]
      BY <1>1, <2>1 DEF SessionRec, TxnRec
  <2> HIDE DEF t
  <2>9. Good(t, w)
      BY <2>2, <2>5, <2>6, <2>7, DataGood
  <2> QED  BY <2>8, <2>9 DEF t
<1>3. CASE ~(err # "none" /\ s.txn.open)
  <2>1. t = s
      BY <1>3 DEF Reported
  <2>2. s = [s EXCEPT !.txn.errs = s.txn.errs]
      BY <1>1 DEF SessionRec, TxnRec
  <2> QED  BY <2>1, <2>2
<1> QED
    BY <1>2, <1>3

\* The parts of a session.
LEMMA Parts ==
    ASSUME NEW w, NEW s, Good(s, w)
    PROVE  /\ s \in SessionRec(w) /\ s.txn \in TxnRec(w) /\ s.vars \in Vars
           /\ s.next_ro \in Flag /\ s.cursors \in [CursorNames -> Cursor]
           /\ s.txn.guc_stack \in Seq(Entry) /\ Len(s.txn.guc_stack) \in Nat
           /\ s.txn.saves \in Seq(Mark(w)) /\ Len(s.txn.saves) \in Nat
           /\ s.txn.before \in Vars /\ s.txn.want \in Vars /\ s.txn.read_only \in Flag
           /\ DOMAIN s.txn.saves = 1..Len(s.txn.saves)
           /\ \A i \in 1..Len(s.txn.saves) : s.txn.saves[i] \in Mark(w)
<1>1. s \in SessionRec(w) /\ s.txn \in TxnRec(w) /\ s.vars \in Vars
      /\ s.next_ro \in Flag /\ s.cursors \in [CursorNames -> Cursor]
    BY DEF Good, Core, SessionRec
<1>2. s.txn.guc_stack \in Seq(Entry) /\ s.txn.saves \in Seq(Mark(w))
      /\ s.txn.before \in Vars /\ s.txn.want \in Vars /\ s.txn.read_only \in Flag
    BY <1>1 DEF TxnRec
<1> QED
    BY <1>1, <1>2, LenProperties, ElementOfSeq

\* What the last step did to the block is history.
LEMMA EndedGood ==
    ASSUME NEW w, NEW s, Good(s, w), NEW e \in {"no", "commit", "abort", "rewind"}
    PROVE  Good([s EXCEPT !.ended = e], w)
<1> DEFINE t == [s EXCEPT !.ended = e]
<1>1. /\ t \in SessionRec(w) /\ t.txn = s.txn /\ t.vars = s.vars /\ t.cursors = s.cursors
      /\ t.next_ro = s.next_ro /\ t.ended = e
    BY Parts DEF SessionRec
<1> HIDE DEF t
<1>2. SettingsUndo(t)
    BY <1>1, SettingsSame DEF Good, SameSettings
<1>3. Good(t, w)
    BY <1>1, <1>2 DEF Good, Core, Bounded, Nested, AtBoundary, ErrorsFail, CursorsMarked
<1> QED
    BY <1>1, <1>3 DEF t

\* An open transaction has failed.
LEMMA FailedGood ==
    ASSUME NEW w, NEW s, Good(s, w)
    PROVE  /\ Good(Failed(s), w) /\ Failed(s).vars = s.vars /\ Failed(s).ended = s.ended
           /\ Failed(s).cursors = s.cursors /\ Failed(s).next_ro = s.next_ro
           /\ Failed(s).txn = [s.txn EXCEPT !.failed = s.txn.open]
           /\ Failed(s).txn.open = s.txn.open /\ Failed(s).txn.implicit = s.txn.implicit
           /\ Failed(s).txn.before = s.txn.before /\ Failed(s).txn.writes = s.txn.writes
           /\ Failed(s).txn.errs = s.txn.errs
           /\ ~Failed(s).txn.open \/ Failed(s).txn.failed
<1> DEFINE t == Failed(s)
<1>1. s \in SessionRec(w) /\ s.txn \in TxnRec(w) /\ s.txn.open \in BOOLEAN
    BY Parts DEF TxnRec
<1>2. /\ t.vars = s.vars /\ t.ended = s.ended /\ t.cursors = s.cursors /\ t.next_ro = s.next_ro
      /\ t.txn = [s.txn EXCEPT !.failed = s.txn.open]
    BY <1>1 DEF SessionRec, Failed
<1>3. /\ t.txn.open = s.txn.open /\ t.txn.implicit = s.txn.implicit
      /\ t.txn.failed = s.txn.open /\ t.txn.read_only = s.txn.read_only
      /\ t.txn.writes = s.txn.writes /\ t.txn.guc_stack = s.txn.guc_stack
      /\ t.txn.saves = s.txn.saves /\ t.txn.before = s.txn.before /\ t.txn.want = s.txn.want
      /\ t.txn.errs = s.txn.errs
    BY <1>1, <1>2 DEF TxnRec
<1>4. t \in SessionRec(w)
    BY <1>1 DEF SessionRec, TxnRec, Failed
<1>5. SameSettings(s, t) /\ SameCursors(s, t)
    BY <1>2, <1>3 DEF SameSettings, SameCursors
<1>6. s.txn.writes <= t.txn.writes
    BY <1>1, <1>3, SessionAssumption DEF TxnRec
<1>7. ~t.txn.open => t.txn = NoTxn
  <2>1. SUFFICES ASSUME ~s.txn.open PROVE t.txn = NoTxn
      BY <1>3
  <2>2. s.txn = NoTxn /\ s.txn.open = FALSE
      BY <1>1, <2>1 DEF Good, Core, Bounded
  <2>3. t.txn = [NoTxn EXCEPT !.failed = FALSE]
      BY <1>2, <2>2
  <2> QED  BY <2>3 DEF NoTxn
<1>8. ErrorsFail(t)
  <2>1. CASE s.txn.open
      BY <1>3, <2>1 DEF ErrorsFail, Good, Core
  <2>2. CASE ~s.txn.open
    <3>1. t.txn = NoTxn
        BY <1>3, <1>7, <2>2
    <3> QED  BY <3>1 DEF NoTxn, ErrorsFail
  <2> QED  BY <2>1, <2>2
<1> HIDE DEF t
<1>9. Good(t, w)
    BY <1>2, <1>3, <1>4, <1>5, <1>6, <1>7, <1>8, DataGood
<1> QED
    BY <1>2, <1>3, <1>9 DEF t

LEMMA DefaultsType ==
    /\ Defaults \in Vars /\ None \in Flag /\ Fields # {} /\ "txn_ro" \notin Fields
    /\ NoCursor \in Cursor
    BY SessionAssumption DEF Defaults, Vars, Flag, None, Fields, NoCursor, Cursor

LEMMA NoTxnType ==
    ASSUME NEW w PROVE NoTxn \in TxnRec(w)
<1>1. <<>> \in Seq(Entry) /\ <<>> \in Seq(Mark(w)) /\ 0 \in 0..MaxWrites
    BY SessionAssumption
<1> QED
    BY <1>1, DefaultsType DEF NoTxn, TxnRec

\* Outside a transaction.
LEMMA ClosedGood ==
    ASSUME NEW w, w.max_stack \in Nat, NEW t \in SessionRec(w), t.txn = NoTxn,
           \A c \in CursorNames : IF t.cursors[c].st = "none" THEN t.cursors[c] = NoCursor
                                  ELSE t.cursors[c].hold /\ t.cursors[c].depth = 0
    PROVE  Good(t, w)
<1>1. /\ t.txn.open = FALSE /\ t.txn.implicit = FALSE /\ t.txn.failed = FALSE
      /\ t.txn.guc_stack = <<>> /\ t.txn.saves = <<>> /\ t.txn.errs = {}
    BY DEF NoTxn
<1>2. /\ t.txn.saves = <<>> /\ Len(t.txn.guc_stack) = 0 /\ Len(t.txn.saves) = 0
      /\ DOMAIN t.txn.saves = {}
    BY <1>1
<1>5. Bounded(t, w)
    BY <1>2, SessionAssumption DEF Bounded
<1>6. Nested(t) /\ ErrorsFail(t) /\ SettingsUndo(t)
    BY <1>1, <1>2 DEF Nested, ErrorsFail, SettingsUndo
<1>3. \A c \in CursorNames : t.cursors[c].depth = 0
    BY DEF NoCursor
<1>4. AtBoundary(t) /\ CursorsMarked(t)
    BY <1>1, <1>2, <1>3 DEF AtBoundary, CursorsMarked
<1> QED
    BY <1>4, <1>5, <1>6 DEF Good, Core

\* Undoing the stack at the end of a block.
LEMMA Reverted ==
    ASSUME NEW w, NEW s, Good(s, w), s.txn.open, NEW commit \in BOOLEAN
    PROVE  LET v == Restored(s.vars, s.txn.guc_stack, commit) IN
           /\ v \in Vars
           /\ "reset_custom" \notin Quirks /\ ~commit => v = s.txn.before
           /\ CommitsExact /\ commit => v = s.txn.want
<1> DEFINE stack == s.txn.guc_stack
           v == Restored(s.vars, stack, commit)
           n == Len(s.txn.saves) + 1
<1>1. /\ s.vars \in [Fields -> Flag] /\ stack \in Seq(Entry)
      /\ s.txn.before \in [Fields -> Flag] /\ s.txn.want \in [Fields -> Flag]
    BY Parts DEF Vars
<1>2. /\ n \in Moments(s) /\ At(s, n).vars = s.vars /\ At(s, n).guc = Len(stack)
      /\ At(s, n).want = s.txn.want
    BY Parts DEF Moments, At
<1>3. v \in [Fields -> Flag]
    BY <1>1, RestoredGoal
<1>4. ASSUME "reset_custom" \notin Quirks, commit = FALSE PROVE v = s.txn.before
  <2>1. Undoes(s.vars, stack, 0, Len(stack), FALSE, s.txn.before)
      BY <1>2, <1>4 DEF Good, SettingsUndo, AbortUndoes
  <2> QED  BY <1>1, <1>4, <2>1, RestoredGoal
<1>5. ASSUME CommitsExact, commit = TRUE PROVE v = s.txn.want
  <2>1. Undoes(s.vars, stack, 0, Len(stack), TRUE, s.txn.want)
      BY <1>2, <1>5 DEF Good, SettingsUndo, CommitUndoes
  <2> QED  BY <1>1, <1>5, <2>1, RestoredGoal
<1> QED
    BY <1>3, <1>4, <1>5 DEF Vars

LEMMA AbortedGood ==
    ASSUME NEW w, w.max_stack \in Nat, NEW s, Good(s, w), s.txn.open
    PROVE  /\ Good(Aborted(s), w)
           /\ Aborted(s).txn = NoTxn /\ Aborted(s).ended = "abort"
           /\ Aborted(s).next_ro = None
           /\ "reset_custom" \notin Quirks => Aborted(s).vars = s.txn.before
<1> DEFINE t == Aborted(s)
           v == Restored(s.vars, s.txn.guc_stack, FALSE)
<1>1. s \in SessionRec(w) /\ v \in Vars /\ s.next_ro = None
      /\ ("reset_custom" \notin Quirks => v = s.txn.before)
      /\ [c \in CursorNames |-> NoCursor] \in [CursorNames -> Cursor]
    BY Reverted, DefaultsType DEF Good, Core, AtBoundary
<1>2. t = [s EXCEPT !.vars = v, !.txn = NoTxn, !.cursors = [c \in CursorNames |-> NoCursor],
                    !.ended = "abort"]
    BY <1>1 DEF Aborted, revert_guc_stack, SessionRec
<1> HIDE DEF v
<1>3. /\ t \in SessionRec(w) /\ t.txn = NoTxn /\ t.ended = "abort" /\ t.next_ro = s.next_ro
      /\ t.vars = v /\ t.cursors = [c \in CursorNames |-> NoCursor]
    BY <1>1, <1>2, NoTxnType, ZenonT(30) DEF SessionRec
<1> HIDE DEF t
<1>4. \A c \in CursorNames : t.cursors[c].st = "none" /\ t.cursors[c] = NoCursor
    BY <1>3 DEF NoCursor
<1>5. Good(t, w)
    BY <1>3, <1>4, ClosedGood
<1> QED
    BY <1>1, <1>3, <1>5 DEF t

LEMMA CommittedGood ==
    ASSUME NEW w, w.max_stack \in Nat, NEW s, Good(s, w), s.txn.open
    PROVE  /\ Good(Committed(s), w)
           /\ Committed(s).txn = NoTxn /\ Committed(s).ended = "commit"
           /\ Committed(s).next_ro = None
           /\ CommitsExact => Committed(s).vars = s.txn.want
<1> DEFINE t == Committed(s)
           v == Restored(s.vars, s.txn.guc_stack, TRUE)
           cur == [c \in CursorNames |-> IF s.cursors[c].hold
                                         THEN [s.cursors[c] EXCEPT !.depth = 0] ELSE NoCursor]
<1>1. s \in SessionRec(w) /\ v \in Vars /\ s.next_ro = None
      /\ (CommitsExact => v = s.txn.want)
      /\ s.cursors \in [CursorNames -> Cursor]
    BY Reverted, Parts DEF Good, Core, AtBoundary
<1>2. t = [s EXCEPT !.vars = v, !.txn = NoTxn, !.cursors = cur, !.ended = "commit"]
    BY <1>1 DEF Committed, revert_guc_stack, SessionRec
<1>3. \A c \in CursorNames :
        /\ cur[c] \in Cursor
        /\ IF cur[c].st = "none" THEN cur[c] = NoCursor ELSE cur[c].hold /\ cur[c].depth = 0
  <2> SUFFICES ASSUME NEW c \in CursorNames
               PROVE  /\ cur[c] \in Cursor
                      /\ IF cur[c].st = "none" THEN cur[c] = NoCursor
                         ELSE cur[c].hold /\ cur[c].depth = 0
      OBVIOUS
  <2>1. s.cursors[c] \in Cursor /\ (s.cursors[c].st = "none" => s.cursors[c] = NoCursor)
      BY <1>1 DEF Good, Core, CursorsMarked
  <2>2. CASE s.cursors[c].hold
    <3>1. cur[c] = [s.cursors[c] EXCEPT !.depth = 0] /\ s.cursors[c].st # "none"
        BY <2>1, <2>2 DEF NoCursor
    <3> QED  BY <2>1, <2>2, <3>1, SessionAssumption DEF Cursor
  <2>3. CASE ~s.cursors[c].hold
    <3>1. cur[c] = NoCursor
        BY <2>3
    <3> QED  BY <3>1, DefaultsType DEF NoCursor
  <2> QED  BY <2>2, <2>3
<1>4. cur \in [CursorNames -> Cursor]
    BY <1>3
<1> HIDE DEF v, cur
<1>5. /\ t \in SessionRec(w) /\ t.txn = NoTxn /\ t.ended = "commit" /\ t.next_ro = s.next_ro
      /\ t.vars = v /\ t.cursors = cur
    BY <1>1, <1>2, <1>4, NoTxnType, ZenonT(30) DEF SessionRec
<1> HIDE DEF t
<1>6. Good(t, w)
    BY <1>3, <1>5, ClosedGood
<1> QED
    BY <1>1, <1>5, <1>6 DEF t

\* A block that has just begun.
Begun(x, v) ==
    /\ x.open /\ ~x.failed
    /\ x.guc_stack = <<>> /\ x.saves = <<>> /\ x.errs = {}
    /\ x.before = v /\ x.want = v

LEMMA NewTxnImplicit ==
    ASSUME NEW w, NEW s, s.vars \in Vars, NEW ro \in Flag, NEW x, x = NewTxn(s, TRUE, ro)
    PROVE  x \in TxnRec(w) /\ Begun(x, s.vars) /\ x.implicit
<1>1. NoTxn \in TxnRec(w)
    BY NoTxnType
<1>2. x \in TxnRec(w) /\ x.open /\ x.implicit /\ x.before = s.vars /\ x.want = s.vars
    BY <1>1 DEF NewTxn, TxnRec
<1>3. /\ x.failed = NoTxn.failed /\ x.guc_stack = NoTxn.guc_stack /\ x.saves = NoTxn.saves
      /\ x.errs = NoTxn.errs
    BY <1>1 DEF NewTxn, TxnRec
<1> QED
    BY <1>2, <1>3 DEF NoTxn, Begun

LEMMA NewTxnExplicit ==
    ASSUME NEW w, NEW s, s.vars \in Vars, NEW ro \in Flag, NEW x, x = NewTxn(s, FALSE, ro)
    PROVE  x \in TxnRec(w) /\ Begun(x, s.vars) /\ ~x.implicit
<1>1. NoTxn \in TxnRec(w)
    BY NoTxnType
<1>2. x \in TxnRec(w) /\ x.open /\ ~x.implicit /\ x.before = s.vars /\ x.want = s.vars
    BY <1>1 DEF NewTxn, TxnRec
<1>3. /\ x.failed = NoTxn.failed /\ x.guc_stack = NoTxn.guc_stack /\ x.saves = NoTxn.saves
      /\ x.errs = NoTxn.errs
    BY <1>1 DEF NewTxn, TxnRec
<1> QED
    BY <1>2, <1>3 DEF NoTxn, Begun

\* A block begins where none was open.
LEMMA BegunGood ==
    ASSUME NEW w, w.max_stack \in Nat, NEW s, Good(s, w), ~s.txn.open,
           NEW t \in SessionRec(w), Begun(t.txn, t.vars), t.cursors = s.cursors,
           t.next_ro = None
    PROVE  Good(t, w)
<1>1. /\ t.txn.open /\ ~t.txn.failed /\ t.txn.guc_stack = <<>> /\ t.txn.saves = <<>>
      /\ t.txn.errs = {} /\ t.txn.before = t.vars /\ t.txn.want = t.vars
    BY DEF Begun
<1>2. Len(t.txn.guc_stack) = 0 /\ Len(t.txn.saves) = 0 /\ DOMAIN t.txn.saves = {}
    BY <1>1
<1>3. s.txn.saves = <<>>
    BY DEF Good, Core, Bounded, NoTxn
<1>4. Bounded(t, w)
    BY <1>1, <1>2, SessionAssumption DEF Bounded
<1>5. Nested(t) /\ ErrorsFail(t)
    BY <1>1, <1>2 DEF Nested, ErrorsFail
<1>6. AtBoundary(t)
    BY <1>1 DEF AtBoundary
<1>7. CursorsMarked(t)
    BY <1>1, <1>3 DEF Good, Core, CursorsMarked
<1>8. SettingsUndo(t)
  <2>1. \A i \in Moments(t) : i = 1 /\ At(t, i).vars = t.vars /\ At(t, i).guc = 0
                             /\ At(t, i).want = t.txn.want
      BY <1>1, <1>2 DEF Moments, At
  <2>2. AbortUndoes(t) /\ CommitUndoes(t)
      BY <1>1, <2>1, UndoesNothing DEF AbortUndoes, CommitUndoes
  <2>3. MarkUndoes(t)
      BY <2>1 DEF MarkUndoes
  <2> QED  BY <2>2, <2>3 DEF SettingsUndo
<1> QED
    BY <1>4, <1>5, <1>6, <1>7, <1>8 DEF Good, Core

LEMMA OrType ==
    ASSUME NEW a \in Flag, NEW b \in Flag PROVE Or(a, b) \in Flag
    BY DEF Or

LEMMA ImplicitGood ==
    ASSUME NEW w, w.max_stack \in Nat, NEW s, Good(s, w), ~s.txn.open
    PROVE  LET t == begin_implicit_txn(s) IN
           /\ Good(t, w) /\ t.vars = s.vars /\ t.ended = s.ended
           /\ Begun(t.txn, s.vars) /\ t.txn.implicit
<1> DEFINE t == begin_implicit_txn(s)
           ro == Or(s.next_ro, s.vars.default_ro)
<1>1. s \in SessionRec(w) /\ s.vars \in Vars /\ s.next_ro \in Flag
    BY Parts
<1>2. ro \in Flag
    BY <1>1, OrType DEF Vars, Fields
<1> HIDE DEF ro
<1> DEFINE x == NewTxn(s, TRUE, ro)
<1>3. x \in TxnRec(w) /\ Begun(x, s.vars) /\ x.implicit
    BY <1>1, <1>2, NewTxnImplicit
<1>4. t = [s EXCEPT !.txn = x, !.next_ro = None]
    BY DEF begin_implicit_txn, ro
<1> HIDE DEF x
<1>5. /\ t \in SessionRec(w) /\ t.txn = x /\ t.vars = s.vars
      /\ t.cursors = s.cursors /\ t.next_ro = None /\ t.ended = s.ended
    BY <1>1, <1>3, <1>4, DefaultsType DEF SessionRec
<1> HIDE DEF t
<1>6. Good(t, w)
    BY <1>3, <1>5, BegunGood
<1> QED
    BY <1>3, <1>5, <1>6 DEF t, Begun

\* BEGIN, and the block an AND CHAIN opens.
LEMMA BeginGood ==
    ASSUME NEW w, w.max_stack \in Nat, NEW s, Good(s, w), NEW ro \in Flag
    PROVE  LET t == [txn_begin(s, ro) EXCEPT !.next_ro = None] IN
           /\ Good(t, w) /\ t.vars = s.vars /\ t.ended = s.ended
           /\ t.txn.open /\ ~t.txn.implicit
<1> DEFINE t == [txn_begin(s, ro) EXCEPT !.next_ro = None]
<1>1. /\ s \in SessionRec(w) /\ s.vars \in Vars /\ s.next_ro \in Flag /\ s.txn \in TxnRec(w)
      /\ s.txn.open \in BOOLEAN /\ s.txn.implicit \in BOOLEAN
    BY Parts DEF TxnRec
<1>2. CASE ~s.txn.open
  <2> DEFINE x == NewTxn(s, FALSE, ro)
  <2>1. t = [s EXCEPT !.txn = x, !.next_ro = None]
      BY <1>2 DEF txn_begin
  <2>2. x \in TxnRec(w) /\ Begun(x, s.vars) /\ ~x.implicit
      BY <1>1, NewTxnExplicit
  <2> HIDE DEF x
  <2>3. /\ t \in SessionRec(w) /\ t.txn = x /\ t.vars = s.vars
        /\ t.cursors = s.cursors /\ t.next_ro = None /\ t.ended = s.ended
      BY <1>1, <2>1, <2>2, DefaultsType DEF SessionRec
  <2> HIDE DEF t
  <2>4. Good(t, w)
      BY <1>2, <2>2, <2>3, BegunGood
  <2> QED  BY <2>2, <2>3, <2>4 DEF t, Begun
<1>3. CASE s.txn.open /\ s.txn.implicit
  <2>1. t = [s EXCEPT !.txn = [s.txn EXCEPT !.implicit = FALSE, !.read_only = ro], !.next_ro = None]
      BY <1>1, <1>3 DEF txn_begin, SessionRec
  <2>2. [s.txn EXCEPT !.implicit = FALSE, !.read_only = ro] \in TxnRec(w)
      BY <1>1 DEF TxnRec
  <2>3. /\ t \in SessionRec(w) /\ t.vars = s.vars /\ t.cursors = s.cursors
        /\ t.next_ro = None /\ t.ended = s.ended
        /\ t.txn = [s.txn EXCEPT !.implicit = FALSE, !.read_only = ro]
      BY <1>1, <2>1, <2>2, DefaultsType DEF SessionRec
  <2> DEFINE x == t.txn
  <2> HIDE DEF t
  <2>4. /\ t.txn.open = s.txn.open /\ ~t.txn.implicit /\ t.txn.failed = s.txn.failed
        /\ t.txn.writes = s.txn.writes /\ t.txn.guc_stack = s.txn.guc_stack
        /\ t.txn.saves = s.txn.saves /\ t.txn.errs = s.txn.errs
        /\ t.txn.before = s.txn.before /\ t.txn.want = s.txn.want
    <3>1. /\ x.writes = s.txn.writes /\ x.guc_stack = s.txn.guc_stack
          /\ x.saves = s.txn.saves /\ x.errs = s.txn.errs
          /\ x.before = s.txn.before /\ x.want = s.txn.want
        BY <1>1, <2>3 DEF TxnRec
    <3>2. x.open = s.txn.open /\ x.failed = s.txn.failed
        BY <1>1, <2>3 DEF TxnRec
    <3>3. ~x.implicit
        BY <1>1, <2>3 DEF TxnRec
    <3> QED  BY <3>1, <3>2, <3>3
  <2>5. s.txn.saves = <<>> /\ Len(s.txn.saves) = 0 /\ s.txn.open
      BY <1>3 DEF Good, Core, Nested
  <2>6. Bounded(t, w) /\ Nested(t) /\ ErrorsFail(t) /\ AtBoundary(t) /\ CursorsMarked(t)
      BY <2>3, <2>4, <2>5
         DEF Good, Core, Bounded, Nested, ErrorsFail, AtBoundary, CursorsMarked
  <2>7. SettingsUndo(t)
    <3>1. /\ Moments(s) = 1..1 /\ Moments(t) = 1..1
          /\ \A i \in 1..1 : At(t, i).vars = At(s, i).vars /\ At(t, i).guc = At(s, i).guc
                             /\ At(t, i).want = At(s, i).want
        BY <2>3, <2>4, <2>5 DEF Moments, At
    <3>2. AbortUndoes(s) => AbortUndoes(t)
        BY <2>4, <3>1 DEF AbortUndoes
    <3>3. CommitUndoes(s) => CommitUndoes(t)
        BY <2>4, <3>1 DEF CommitUndoes
    <3>4. MarkUndoes(t)
        BY <3>1 DEF MarkUndoes
    <3> QED  BY <2>4, <3>2, <3>3, <3>4 DEF Good, SettingsUndo
  <2> QED  BY <2>3, <2>4, <2>5, <2>6, <2>7 DEF Good, Core, t
<1>4. CASE s.txn.open /\ ~s.txn.implicit
  <2>1. txn_begin(s, ro) = s
      BY <1>4 DEF txn_begin
  <2>2. s.next_ro = None
      BY <1>4 DEF Good, Core, AtBoundary
  <2>3. t = s
      BY <1>1, <2>1, <2>2 DEF SessionRec
  <2> QED  BY <1>1, <1>4, <2>3
<1> QED
    BY <1>1, <1>2, <1>3, <1>4

-----------------------------------------------------------------------------
(* What a statement may do.                                                 *)

\* A commit: no error that must abort it, and the settings wanted.
CommitsRight(s, t) ==
    /\ "exec" \notin s.txn.errs
    /\ s.txn.implicit => s.txn.errs \subseteq {"copy"}
    /\ s.txn.open /\ CommitsExact => t.vars = s.txn.want

\* A ROLLBACK TO: the settings and characteristics of the mark, and its cursors.
RewindsRight(s, t) ==
    LET m == Last(t.txn.saves) IN
    /\ "reset_custom" \notin Quirks => t.vars = m.vars /\ t.txn.read_only = m.ro
    /\ "redeclare" \notin Quirks =>
        \A c \in CursorNames : t.cursors[c] =
            IF s.cursors[c].depth < Len(t.txn.saves) THEN s.cursors[c] ELSE NoCursor

\* From s, a result r whose error, if any, is still to be reported.
StmtRel(s, r) ==
    /\ r.err \in {"none"} \cup ErrClasses
    /\ r.err = "exec" => ~r.s.txn.open \/ r.s.txn.failed
    /\ r.s.txn.implicit => /\ s.txn.implicit /\ r.s.txn.before = s.txn.before
                           /\ r.s.ended = "no" /\ (s.txn.failed => r.s.txn.failed)
    /\ r.s.ended = "abort" /\ "reset_custom" \notin Quirks => r.s.vars = s.txn.before
    /\ r.s.ended = "commit" => r.err = "none" /\ CommitsRight(s, r.s)
    /\ r.s.ended = "rewind" => r.err = "none" /\ r.s.txn.open /\ RewindsRight(s, r.s)

\* A session and a statement that may run in it.
Ready(s) == Good(s, client) /\ s.ended = "no" /\ client \in Clients

LEMMA WorkloadType ==
    ASSUME client \in Clients
    PROVE  /\ client.max_stack \in Nat /\ client.max_stmts \in Nat \ {0}
           /\ client.ops \subseteq AllOps /\ client.modes \subseteq {0, 1}
           /\ client.settings \subseteq AllSettings /\ client.cursors \subseteq CursorNames
    BY SessionAssumption DEF IsWorkload

\* A step that leaves the block as it is, with an error that does not fail it.
LEMMA QuietRel ==
    ASSUME NEW s, NEW t, NEW err \in {"none", "utility", "copy"}, s.ended = "no",
           t.ended = "no", t.txn.implicit = s.txn.implicit, t.txn.before = s.txn.before,
           s.txn.failed => t.txn.failed
    PROVE  StmtRel(s, [s |-> t, err |-> err])
    BY DEF StmtRel, ErrClasses

LEMMA SameRel ==
    ASSUME NEW s, Ready(s), NEW err \in {"none", "utility", "copy"}
    PROVE  Good([s |-> s, err |-> err].s, client) /\ StmtRel(s, [s |-> s, err |-> err])
    BY QuietRel DEF Ready

\* commit_taken_txn, whatever goes wrong in it.
LEMMA CommitTaken ==
    ASSUME NEW s, Ready(s), s.txn.open, NEW r \in commit_taken_txn(s)
    PROVE  /\ Good(r.s, client) /\ StmtRel(s, r)
           /\ r.err = "none" => r.s.txn = NoTxn /\ r.s.next_ro = None
           /\ r.s.txn.implicit => r.s.txn.failed
           /\ s.txn.implicit => r.s.txn.implicit \/ ~r.s.txn.open
<1>1. client.max_stack \in Nat /\ Good(s, client) /\ s.ended = "no"
    BY WorkloadType DEF Ready
<1>2. /\ ~NoTxn.open /\ ~NoTxn.implicit
    BY DEF NoTxn
<1>3. CASE r = Ok(Aborted(s)) \/ r = Fail(Aborted(s), "exec")
  <2>1. r.s = Aborted(s) /\ r.err \in {"none", "exec"}
      BY <1>3 DEF Ok, Fail
  <2>2. /\ Good(r.s, client) /\ r.s.txn = NoTxn /\ r.s.ended = "abort" /\ r.s.next_ro = None
        /\ "reset_custom" \notin Quirks => r.s.vars = s.txn.before
      BY <1>1, <2>1, AbortedGood
  <2> QED  BY <1>2, <2>1, <2>2 DEF StmtRel, ErrClasses
<1>4. CASE r = Ok(Committed(s)) /\ ~s.txn.failed
  <2>1. r.s = Committed(s) /\ r.err = "none"
      BY <1>4 DEF Ok
  <2>2. /\ Good(r.s, client) /\ r.s.txn = NoTxn /\ r.s.ended = "commit" /\ r.s.next_ro = None
        /\ CommitsExact => r.s.vars = s.txn.want
      BY <1>1, <2>1, CommittedGood
  <2>3. CommitsRight(s, r.s)
      BY <1>1, <1>4, <2>2 DEF CommitsRight, Good, Core, ErrorsFail
  <2> QED  BY <1>2, <2>1, <2>2, <2>3 DEF StmtRel
<1>5. CASE r = Fail(Failed(s), "exec")
  <2>1. r.s = Failed(s) /\ r.err = "exec"
      BY <1>5 DEF Fail
  <2>2. /\ Good(r.s, client) /\ r.s.ended = "no" /\ r.s.txn.open = s.txn.open
        /\ r.s.txn.implicit = s.txn.implicit /\ r.s.txn.before = s.txn.before
        /\ ~r.s.txn.open \/ r.s.txn.failed
    <3> DEFINE f == Failed(s)
    <3>1. /\ Good(f, client) /\ f.ended = s.ended /\ f.txn.open = s.txn.open
          /\ f.txn.implicit = s.txn.implicit /\ f.txn.before = s.txn.before
          /\ ~f.txn.open \/ f.txn.failed
        BY <1>1, FailedGood, Zenon
    <3> HIDE DEF f
    <3>2. r.s = f
        BY <2>1 DEF f
    <3> QED  BY <1>1, <3>1, <3>2
  <2> QED  BY <2>1, <2>2 DEF StmtRel, ErrClasses
<1> QED
    BY <1>3, <1>4, <1>5 DEF commit_taken_txn

\* The block AND CHAIN opens.
LEMMA ChainGood ==
    ASSUME NEW w, w.max_stack \in Nat, NEW s, Good(s, w), ~s.txn.open, s.next_ro = None,
           NEW ro \in Flag
    PROVE  LET t == txn_begin(s, ro) IN
           /\ Good(t, w) /\ t.vars = s.vars /\ t.ended = s.ended
           /\ t.txn.open /\ ~t.txn.implicit
<1> DEFINE t == txn_begin(s, ro)
           x == NewTxn(s, FALSE, ro)
<1>1. s \in SessionRec(w) /\ s.vars \in Vars
    BY Parts
<1>2. t = [s EXCEPT !.txn = x]
    BY DEF txn_begin
<1>3. x \in TxnRec(w) /\ Begun(x, s.vars) /\ ~x.implicit
    BY <1>1, NewTxnExplicit
<1> HIDE DEF x
<1>4. /\ t \in SessionRec(w) /\ t.txn = x /\ t.vars = s.vars
      /\ t.cursors = s.cursors /\ t.next_ro = None /\ t.ended = s.ended
    BY <1>1, <1>2, <1>3 DEF SessionRec
<1> HIDE DEF t
<1>5. Good(t, w)
    BY <1>3, <1>4, BegunGood
<1> QED
    BY <1>3, <1>4, <1>5 DEF t, Begun

LEMMA BeginStmt ==
    ASSUME NEW s, Ready(s), NEW ro \in Flag, NEW r \in Begin(s, ro)
    PROVE  Good(r.s, client) /\ StmtRel(s, r)
<1>1. /\ client.max_stack \in Nat /\ Good(s, client) /\ s.ended = "no"
      /\ s.next_ro \in Flag /\ s.vars.default_ro \in Flag
    BY WorkloadType, Parts DEF Ready, Vars, Fields
<1>2. PICK m \in Flag : r = Ok([txn_begin(s, m) EXCEPT !.next_ro = None])
    BY <1>1, OrType DEF Begin
<1> DEFINE t == [txn_begin(s, m) EXCEPT !.next_ro = None]
<1>3. Good(t, client) /\ t.ended = s.ended /\ t.txn.open /\ ~t.txn.implicit
    BY <1>1, BeginGood
<1>4. r.s = t /\ r.err = "none"
    BY <1>2 DEF Ok
<1> HIDE DEF t
<1> QED
    BY <1>1, <1>3, <1>4 DEF StmtRel

LEMMA CommitStmt ==
    ASSUME NEW s, Ready(s), NEW chain \in BOOLEAN, NEW r \in txn_commit(s, chain)
    PROVE  Good(r.s, client) /\ StmtRel(s, r)
<1>1. client.max_stack \in Nat /\ Good(s, client) /\ s.txn.read_only \in Flag
    BY WorkloadType, Parts DEF Ready
<1>2. CASE r = Fail(s, "utility") \/ r = Ok(s)
    BY <1>2, SameRel DEF Fail, Ok
<1>3. CASE s.txn.open /\ r \in commit_taken_txn(s)
    BY <1>3, CommitTaken
<1>4. ASSUME NEW q \in commit_taken_txn(s), s.txn.open, q.err = "none",
             r = Ok(txn_begin(q.s, s.txn.read_only))
      PROVE  Good(r.s, client) /\ StmtRel(s, r)
  <2>1. /\ Good(q.s, client) /\ StmtRel(s, q) /\ q.s.txn = NoTxn /\ q.s.next_ro = None
        /\ ~q.s.txn.open
    <3>1. Good(q.s, client) /\ StmtRel(s, q) /\ q.s.txn = NoTxn /\ q.s.next_ro = None
        BY <1>4, CommitTaken
    <3> QED  BY <3>1 DEF NoTxn
  <2> DEFINE t == txn_begin(q.s, s.txn.read_only)
  <2>2. Good(t, client) /\ t.vars = q.s.vars /\ t.ended = q.s.ended /\ t.txn.open /\ ~t.txn.implicit
      BY <1>1, <2>1, ChainGood
  <2>3. r.s = t /\ r.err = "none"
      BY <1>4 DEF Ok
  <2>4. q.s.ended # "rewind"
      BY <2>1 DEF StmtRel
  <2> HIDE DEF t
  <2>5. CommitsRight(s, q.s) => CommitsRight(s, t)
      BY <2>2 DEF CommitsRight
  <2> QED  BY <2>1, <2>2, <2>3, <2>4, <2>5 DEF StmtRel
<1>5. CASE ~s.txn.open \/ s.txn.implicit
    BY <1>2, <1>3, <1>5 DEF txn_commit
<1>6. CASE ~(~s.txn.open \/ s.txn.implicit)
  <2>1. PICK q \in commit_taken_txn(s) :
            r = IF chain /\ q.err = "none" THEN Ok(txn_begin(q.s, s.txn.read_only)) ELSE q
      BY <1>6 DEF txn_commit
  <2> QED  BY <1>3, <1>4, <1>6, <2>1
<1> QED
    BY <1>5, <1>6

LEMMA RollbackStmt ==
    ASSUME NEW s, Ready(s), NEW chain \in BOOLEAN, NEW r \in txn_rollback(s, chain)
    PROVE  Good(r.s, client) /\ StmtRel(s, r) /\ r.s.ended \in {"no", "abort"}
<1>1. /\ client.max_stack \in Nat /\ Good(s, client) /\ s.txn.read_only \in Flag
      /\ s.ended = "no"
    BY WorkloadType, Parts DEF Ready
<1>2. CASE r = Fail(s, "utility") \/ r = Ok(s)
  <2>1. r.s = s
      BY <1>2 DEF Fail, Ok
  <2>2. CASE r = Ok(s)
    <3>1. StmtRel(s, [s |-> s, err |-> "none"])
        BY SameRel
    <3> QED  BY <1>1, <2>1, <2>2, <3>1 DEF Ok
  <2>3. CASE r = Fail(s, "utility")
    <3>1. StmtRel(s, [s |-> s, err |-> "utility"])
        BY SameRel
    <3> QED  BY <1>1, <2>1, <2>3, <3>1 DEF Fail
  <2> QED  BY <1>2, <2>2, <2>3
<1> DEFINE a == Aborted(s)
<1>3. ASSUME s.txn.open
      PROVE  /\ Good(a, client) /\ a.txn = NoTxn /\ a.ended = "abort" /\ a.next_ro = None
             /\ "reset_custom" \notin Quirks => a.vars = s.txn.before
             /\ ~a.txn.open /\ ~a.txn.implicit
  <2>1. /\ Good(a, client) /\ a.txn = NoTxn /\ a.ended = "abort" /\ a.next_ro = None
        /\ "reset_custom" \notin Quirks => a.vars = s.txn.before
      BY <1>1, <1>3, AbortedGood
  <2> HIDE DEF a
  <2> QED  BY <2>1 DEF NoTxn
<1>4. CASE s.txn.open /\ r = Ok(a)
  <2> HIDE DEF a
  <2>1. r.s = a /\ r.err = "none"
      BY <1>4 DEF Ok
  <2> QED  BY <1>3, <1>4, <2>1 DEF StmtRel
<1>5. CASE s.txn.open /\ r = Ok(txn_begin(a, s.txn.read_only))
  <2> HIDE DEF a
  <2> DEFINE t == txn_begin(a, s.txn.read_only)
  <2>1. Good(t, client) /\ t.vars = a.vars /\ t.ended = a.ended /\ t.txn.open /\ ~t.txn.implicit
      BY <1>1, <1>3, <1>5, ChainGood
  <2>2. r.s = t /\ r.err = "none"
      BY <1>5 DEF Ok
  <2> HIDE DEF t
  <2> QED  BY <1>3, <1>5, <2>1, <2>2 DEF StmtRel
<1> QED
    BY <1>2, <1>4, <1>5 DEF txn_rollback

\* A snapshot is taken.
LEMMA SnapshotGood ==
    ASSUME NEW w, NEW s, Good(s, w)
    PROVE  /\ Good(Snapshot(s), w) /\ Snapshot(s).vars = s.vars
           /\ Snapshot(s).ended = s.ended /\ Snapshot(s).cursors = s.cursors
           /\ Snapshot(s).txn = [s.txn EXCEPT !.snap_set = s.txn.open]
           /\ Snapshot(s).txn.open = s.txn.open /\ Snapshot(s).txn.implicit = s.txn.implicit
           /\ Snapshot(s).txn.failed = s.txn.failed /\ Snapshot(s).txn.before = s.txn.before
           /\ Snapshot(s).txn.writes = s.txn.writes /\ Snapshot(s).txn.errs = s.txn.errs
<1> DEFINE t == Snapshot(s)
           x == t.txn
<1>1. s \in SessionRec(w) /\ s.txn \in TxnRec(w) /\ s.txn.open \in BOOLEAN
    BY Parts DEF TxnRec
<1>2. /\ t.vars = s.vars /\ t.ended = s.ended /\ t.cursors = s.cursors /\ t.next_ro = s.next_ro
      /\ t.txn = [s.txn EXCEPT !.snap_set = s.txn.open]
    BY <1>1 DEF SessionRec, Snapshot
<1>3. t \in SessionRec(w)
    BY <1>1 DEF SessionRec, TxnRec, Snapshot
<1> HIDE DEF t
<1>4. /\ x.read_only = s.txn.read_only /\ x.writes = s.txn.writes
      /\ x.guc_stack = s.txn.guc_stack /\ x.saves = s.txn.saves
      /\ x.before = s.txn.before /\ x.want = s.txn.want /\ x.errs = s.txn.errs
    BY <1>1, <1>2 DEF TxnRec
<1>5. x.open = s.txn.open /\ x.implicit = s.txn.implicit /\ x.failed = s.txn.failed
    BY <1>1, <1>2 DEF TxnRec
<1>6. SameSettings(s, t) /\ SameCursors(s, t)
    BY <1>2, <1>4, <1>5 DEF SameSettings, SameCursors
<1>7. s.txn.writes <= t.txn.writes
    BY <1>1, <1>4, SessionAssumption DEF TxnRec
<1>8. ~t.txn.open => t.txn = NoTxn
  <2>1. SUFFICES ASSUME ~s.txn.open PROVE t.txn = NoTxn
      BY <1>5
  <2>2. s.txn = NoTxn /\ s.txn.open = FALSE
      BY <1>1, <2>1 DEF Good, Core, Bounded
  <2>3. t.txn = [NoTxn EXCEPT !.snap_set = FALSE]
      BY <1>2, <2>2
  <2> QED  BY <2>3 DEF NoTxn
<1>9. ErrorsFail(t)
    BY <1>4, <1>5 DEF ErrorsFail, Good, Core
<1>10. Good(t, w)
    BY <1>2, <1>3, <1>4, <1>5, <1>6, <1>7, <1>8, <1>9, DataGood
<1> QED
    BY <1>2, <1>4, <1>5, <1>10 DEF t

\* Rows are staged.
LEMMA WritesGood ==
    ASSUME NEW w, NEW s, Good(s, w), s.txn.open, NEW n \in Nat, s.txn.writes + n <= MaxWrites
    PROVE  LET t == [s EXCEPT !.txn.writes = @ + n] IN
           /\ Good(t, w) /\ t.ended = s.ended /\ t.cursors = s.cursors
           /\ t.txn.implicit = s.txn.implicit /\ t.txn.before = s.txn.before
           /\ t.txn.failed = s.txn.failed
<1> DEFINE t == [s EXCEPT !.txn.writes = @ + n]
           x == t.txn
<1>1. s \in SessionRec(w) /\ s.txn \in TxnRec(w) /\ s.txn.writes \in Nat /\ MaxWrites \in Nat
    BY Parts, SessionAssumption DEF TxnRec
<1>2. /\ t.vars = s.vars /\ t.ended = s.ended /\ t.cursors = s.cursors /\ t.next_ro = s.next_ro
      /\ t.txn = [s.txn EXCEPT !.writes = s.txn.writes + n]
    BY <1>1 DEF SessionRec
<1>3. s.txn.writes + n \in 0..MaxWrites
    BY <1>1
<1>4. t \in SessionRec(w)
    BY <1>1, <1>3 DEF SessionRec, TxnRec
<1> HIDE DEF t
<1>5. /\ x.read_only = s.txn.read_only /\ x.writes = s.txn.writes + n
      /\ x.guc_stack = s.txn.guc_stack /\ x.saves = s.txn.saves
      /\ x.before = s.txn.before /\ x.want = s.txn.want /\ x.errs = s.txn.errs
    BY <1>1, <1>2 DEF TxnRec
<1>6. x.open = s.txn.open /\ x.implicit = s.txn.implicit /\ x.failed = s.txn.failed
    BY <1>1, <1>2 DEF TxnRec
<1>7. SameSettings(s, t) /\ SameCursors(s, t)
    BY <1>2, <1>5, <1>6 DEF SameSettings, SameCursors
<1>8. s.txn.writes <= t.txn.writes /\ t.txn.open
    BY <1>1, <1>5, <1>6
<1>9. ErrorsFail(t)
    BY <1>5, <1>6 DEF ErrorsFail, Good, Core
<1>10. Good(t, w)
    BY <1>2, <1>4, <1>6, <1>7, <1>8, <1>9, DataGood
<1> QED
    BY <1>2, <1>5, <1>6, <1>10 DEF t

\* Execute in a block or on its own; it leaves the cursors alone.
LEMMA ExecuteStmt ==
    ASSUME NEW s, Ready(s), NEW n \in {0, 1},
           s.txn.open => s.txn.writes + n <= MaxWrites, NEW r \in Execute(s, n)
    PROVE  /\ Good(r.s, client) /\ StmtRel(s, r) /\ r.s.cursors = s.cursors
           /\ r.err \in {"none", "exec"}
           /\ n = 0 => r.s.ended = "no"
<1>1. Good(s, client) /\ s.ended = "no" /\ s \in SessionRec(client) /\ s.txn \in TxnRec(client)
    BY Parts DEF Ready
<1>2. CASE s.txn.open
  <2> DEFINE t == Snapshot(s)
             u == [t EXCEPT !.txn.writes = @ + n]
             f == Failed(t)
  <2>1. /\ Good(t, client) /\ t.ended = "no" /\ t.cursors = s.cursors
        /\ t.txn.open = s.txn.open /\ t.txn.implicit = s.txn.implicit
        /\ t.txn.failed = s.txn.failed /\ t.txn.before = s.txn.before
        /\ t.txn.writes = s.txn.writes
      BY <1>1, SnapshotGood
  <2>2. t = [s EXCEPT !.txn.snap_set = TRUE]
      BY <1>2 DEF Snapshot
  <2>3. r = Ok(u) \/ r = Fail(f, "exec")
      BY <1>2, <2>2 DEF Execute, txn_execute
  <2> HIDE DEF t
  <2>4. /\ Good(u, client) /\ u.ended = "no" /\ u.cursors = s.cursors
        /\ u.txn.implicit = s.txn.implicit /\ u.txn.before = s.txn.before
        /\ u.txn.failed = s.txn.failed
    <3>1. n \in Nat /\ t.txn.open /\ t.txn.writes + n <= MaxWrites
        BY <1>2, <2>1
    <3>2. /\ Good(u, client) /\ u.ended = t.ended /\ u.cursors = t.cursors
          /\ u.txn.implicit = t.txn.implicit /\ u.txn.before = t.txn.before
          /\ u.txn.failed = t.txn.failed
        BY <2>1, <3>1, WritesGood
    <3> HIDE DEF u
    <3> QED  BY <2>1, <3>2
  <2>5. /\ Good(f, client) /\ f.ended = "no" /\ f.cursors = s.cursors
        /\ f.txn.open = s.txn.open
        /\ f.txn.implicit = s.txn.implicit /\ f.txn.before = s.txn.before
        /\ ~f.txn.open \/ f.txn.failed
    <3>1. /\ Good(f, client) /\ f.ended = t.ended /\ f.cursors = t.cursors
          /\ f.txn.open = t.txn.open /\ f.txn.implicit = t.txn.implicit
          /\ f.txn.before = t.txn.before
          /\ ~f.txn.open \/ f.txn.failed
        BY <2>1, FailedGood, Zenon
    <3> HIDE DEF f
    <3> QED  BY <2>1, <3>1
  <2> HIDE DEF u, f
  <2>6. CASE r = Ok(u)
    <3>1. r.s = u /\ r.err = "none"
        BY <2>6 DEF Ok
    <3> QED  BY <2>4, <3>1 DEF StmtRel
  <2>7. CASE r = Fail(f, "exec")
    <3>1. r.s = f /\ r.err = "exec"
        BY <2>7 DEF Fail
    <3> QED  BY <1>2, <2>5, <3>1 DEF StmtRel, ErrClasses
  <2> QED  BY <2>3, <2>6, <2>7
<1>3. CASE ~s.txn.open
  <2>1. s.txn = NoTxn /\ s.txn.implicit = FALSE /\ s.txn.errs = {}
      BY <1>1, <1>3 DEF Good, Core, Bounded, NoTxn
  <2> DEFINE e == IF n > 0 THEN "commit" ELSE s.ended
             u == [s EXCEPT !.ended = e]
  <2>2. r = Ok(u) \/ r = Fail(s, "exec")
      BY <1>1, <1>3 DEF Execute, autocommit_execute, SessionRec
  <2>3. e \in {"no", "commit", "abort", "rewind"} /\ (n = 0 => e = "no") /\ e \in {"no", "commit"}
      BY <1>1
  <2> HIDE DEF e
  <2>4. Good(u, client)
      BY <1>1, <2>3, EndedGood
  <2>5. u.txn = s.txn /\ u.cursors = s.cursors /\ u.ended = e
      BY <1>1 DEF SessionRec
  <2> HIDE DEF u
  <2>6. CASE r = Ok(u)
    <3>1. r.s = u /\ r.err = "none"
        BY <2>6 DEF Ok
    <3> QED  BY <1>3, <2>1, <2>3, <2>4, <2>5, <3>1 DEF StmtRel, CommitsRight
  <2>7. CASE r = Fail(s, "exec")
    <3>1. r.s = s /\ r.err = "exec"
        BY <2>7 DEF Fail
    <3> QED  BY <1>1, <1>3, <2>1, <3>1 DEF StmtRel, ErrClasses
  <2> QED  BY <2>2, <2>6, <2>7
<1> QED
    BY <1>2, <1>3

\* One cursor changes.
LEMMA CursorGood ==
    ASSUME NEW w, NEW s, Good(s, w), NEW c \in CursorNames, NEW x \in Cursor,
           x.st = "none" => x = NoCursor,
           ~s.txn.open /\ x.st # "none" => x.hold,
           "redeclare" \notin Quirks =>
               /\ x.depth <= Len(s.txn.saves)
               /\ \A i \in DOMAIN s.txn.saves :
                    c \in s.txn.saves[i].cursors <=> x.st # "none" /\ x.depth < i
    PROVE  LET t == [s EXCEPT !.cursors[c] = x] IN
           /\ Good(t, w) /\ t.ended = s.ended /\ t.txn = s.txn /\ t.vars = s.vars
<1> DEFINE cur == [s.cursors EXCEPT ![c] = x]
           t == [s EXCEPT !.cursors[c] = x]
<1>1. s \in SessionRec(w) /\ s.cursors \in [CursorNames -> Cursor]
    BY Parts
<1>2. cur \in [CursorNames -> Cursor] /\ cur[c] = x
      /\ \A d \in CursorNames : d # c => cur[d] = s.cursors[d]
    BY <1>1
<1>3. t = [s EXCEPT !.cursors = cur]
    BY <1>1 DEF SessionRec
<1> HIDE DEF cur
<1>4. /\ t \in SessionRec(w) /\ t.txn = s.txn /\ t.vars = s.vars /\ t.cursors = cur
      /\ t.next_ro = s.next_ro /\ t.ended = s.ended
    BY <1>1, <1>2, <1>3 DEF SessionRec
<1> HIDE DEF t
<1>5. SettingsUndo(t)
    BY <1>4, SettingsSame DEF Good, SameSettings
<1>6. Bounded(t, w) /\ Nested(t) /\ ErrorsFail(t)
    BY <1>4 DEF Good, Core, Bounded, Nested, ErrorsFail
<1>7. AtBoundary(t)
    BY <1>2, <1>4 DEF Good, Core, AtBoundary
<1>8. CursorsMarked(t)
  <2>1. ASSUME NEW d \in CursorNames, d # c
        PROVE  /\ t.cursors[d].st = "none" => t.cursors[d] = NoCursor
               /\ "redeclare" \notin Quirks =>
                    /\ t.cursors[d].depth <= Len(t.txn.saves)
                    /\ \A i \in DOMAIN t.txn.saves :
                        d \in t.txn.saves[i].cursors
                            <=> t.cursors[d].st # "none" /\ t.cursors[d].depth < i
      BY <1>2, <1>4, <2>1 DEF Good, Core, CursorsMarked
  <2>2. t.cursors[c] = x /\ t.txn = s.txn
      BY <1>2, <1>4
  <2> QED  BY <2>1, <2>2 DEF CursorsMarked
<1> QED
    BY <1>4, <1>5, <1>6, <1>7, <1>8 DEF Good, Core, t

LEMMA DeclareStmt ==
    ASSUME NEW s, Ready(s), NEW c \in CursorNames, NEW hold \in BOOLEAN
    PROVE  LET r == cursor_declare(s, c, hold) IN Good(r.s, client) /\ StmtRel(s, r)
<1> DEFINE r == cursor_declare(s, c, hold)
<1>1. /\ Good(s, client) /\ s.ended = "no" /\ s.cursors[c] \in Cursor
      /\ Len(s.txn.saves) \in 0..MaxSaves /\ DOMAIN s.txn.saves = 1..Len(s.txn.saves)
    BY Parts, SessionAssumption DEF Ready, Good, Core, Bounded
<1>2. CASE (~s.txn.open /\ ~hold) \/ s.cursors[c].st # "none"
  <2>1. r = [s |-> s, err |-> "utility"]
      BY <1>2 DEF cursor_declare, Fail
  <2> QED  BY <2>1, SameRel
<1>3. CASE ~((~s.txn.open /\ ~hold) \/ s.cursors[c].st # "none")
  <2> DEFINE x == [st |-> "lazy", hold |-> hold, depth |-> Len(s.txn.saves)]
             t == [s EXCEPT !.cursors[c] = x]
  <2>1. r = [s |-> t, err |-> "none"]
      BY <1>3 DEF cursor_declare, Ok
  <2>2. x \in Cursor /\ x.st = "lazy" /\ x.depth = Len(s.txn.saves) /\ (~s.txn.open => x.hold)
      BY <1>1, <1>3 DEF Cursor
  <2>3. "redeclare" \notin Quirks => \A i \in DOMAIN s.txn.saves :
            c \notin s.txn.saves[i].cursors
      BY <1>1, <1>3 DEF Good, Core, CursorsMarked
  <2> HIDE DEF x
  <2>4. "redeclare" \notin Quirks =>
            /\ x.depth <= Len(s.txn.saves)
            /\ \A i \in DOMAIN s.txn.saves :
                c \in s.txn.saves[i].cursors <=> x.st # "none" /\ x.depth < i
      BY <1>1, <2>2, <2>3
  <2>5. Good(t, client) /\ t.ended = s.ended /\ t.txn = s.txn
      BY <1>1, <2>2, <2>4, CursorGood
  <2> HIDE DEF t
  <2>6. StmtRel(s, [s |-> t, err |-> "none"])
      BY <1>1, <2>5, QuietRel
  <2> HIDE DEF r
  <2> QED  BY <2>1, <2>5, <2>6 DEF r
<1> QED
    BY <1>2, <1>3

LEMMA CloseStmt ==
    ASSUME NEW s, Ready(s), NEW c \in CursorNames,
           (\E m \in ToSet(s.txn.saves) : c \in m.cursors) => "redeclare" \in Quirks
    PROVE  LET r == cursor_close(s, c) IN Good(r.s, client) /\ StmtRel(s, r)
<1> DEFINE r == cursor_close(s, c)
<1>1. /\ Good(s, client) /\ s.ended = "no" /\ Len(s.txn.saves) \in Nat
    BY Parts DEF Ready
<1>2. CASE s.cursors[c].st = "none"
  <2>1. r = [s |-> s, err |-> "utility"]
      BY <1>2 DEF cursor_close, Fail
  <2> QED  BY <2>1, SameRel
<1>3. CASE s.cursors[c].st # "none"
  <2> DEFINE t == [s EXCEPT !.cursors[c] = NoCursor]
  <2>1. r = [s |-> t, err |-> "none"]
      BY <1>3 DEF cursor_close, Ok
  <2>2. NoCursor \in Cursor /\ NoCursor.st = "none" /\ NoCursor.depth = 0
      BY DefaultsType DEF NoCursor
  <2>3. "redeclare" \notin Quirks =>
            /\ NoCursor.depth <= Len(s.txn.saves)
            /\ \A i \in DOMAIN s.txn.saves :
                c \in s.txn.saves[i].cursors <=> NoCursor.st # "none" /\ NoCursor.depth < i
    <3>1. \A i \in DOMAIN s.txn.saves : s.txn.saves[i] \in ToSet(s.txn.saves)
        BY DEF ToSet
    <3> QED  BY <1>1, <2>2, <3>1
  <2>4. Good(t, client) /\ t.ended = s.ended /\ t.txn = s.txn
      BY <1>1, <2>2, <2>3, CursorGood
  <2> HIDE DEF t
  <2>5. StmtRel(s, [s |-> t, err |-> "none"])
      BY <1>1, <2>4, QuietRel
  <2> HIDE DEF r
  <2> QED  BY <2>1, <2>4, <2>5 DEF r
<1> QED
    BY <1>2, <1>3

LEMMA FetchStmt ==
    ASSUME NEW s, Ready(s), NEW c \in CursorNames, NEW r \in cursor_fetch(s, c)
    PROVE  Good(r.s, client) /\ StmtRel(s, r)
<1>1. /\ Good(s, client) /\ s.ended = "no" /\ s.cursors[c] \in Cursor /\ s.txn \in TxnRec(client)
    BY Parts DEF Ready
<1>2. CASE s.cursors[c].st \in {"none", "dead"} \/ s.cursors[c].st = "open"
  <2>1. r = [s |-> s, err |-> "utility"] \/ r = [s |-> s, err |-> "none"]
      BY <1>2 DEF cursor_fetch, Fail, Ok
  <2> QED  BY <2>1, SameRel
<1>3. CASE ~(s.cursors[c].st \in {"none", "dead"} \/ s.cursors[c].st = "open")
  <2>1. PICK q \in Execute(s, 0) :
            r = [q EXCEPT !.s.cursors[c].st = IF q.err = "none" THEN "open" ELSE "dead"]
      BY <1>3 DEF cursor_fetch
  <2>2. /\ Good(q.s, client) /\ StmtRel(s, q) /\ q.s.cursors = s.cursors
        /\ q.err \in {"none", "exec"} /\ q.s.ended = "no"
    <3>1. s.txn.open => s.txn.writes + 0 <= MaxWrites
        BY <1>1, SessionAssumption DEF TxnRec
    <3> QED  BY <3>1, ExecuteStmt
  <2> DEFINE e == IF q.err = "none" THEN "open" ELSE "dead"
             x == [q.s.cursors[c] EXCEPT !.st = e]
             t == [q.s EXCEPT !.cursors[c] = x]
  <2>3. q = [s |-> q.s, err |-> q.err]
    <3>1. \E u, v : q = [s |-> u, err |-> v]
        BY <2>1 DEF Execute, txn_execute, autocommit_execute, Ok, Fail
    <3> QED  BY <3>1
  <2>4. q.s.cursors[c] = s.cursors[c] /\ s.cursors[c].st \notin {"none"}
      BY <1>3, <2>2
  <2>5. x \in Cursor /\ x.st = e /\ x.depth = q.s.cursors[c].depth /\ x.hold = q.s.cursors[c].hold
      BY <1>1, <2>4 DEF Cursor
  <2>6. r.s = t /\ r.err = q.err
    <3>1. q.s \in SessionRec(client) /\ q.s.cursors \in [CursorNames -> Cursor]
        BY <2>2, Parts
    <3>2. r = [q EXCEPT !.s = [q.s EXCEPT !.cursors = [q.s.cursors EXCEPT ![c] = x]]]
        BY <2>1, <2>3, <3>1 DEF SessionRec
    <3> HIDE DEF x
    <3> QED  BY <2>3, <3>2
  <2>7. /\ x.st # "none" /\ (~q.s.txn.open => x.hold)
        /\ "redeclare" \notin Quirks =>
            /\ x.depth <= Len(q.s.txn.saves)
            /\ \A i \in DOMAIN q.s.txn.saves :
                c \in q.s.txn.saves[i].cursors <=> x.st # "none" /\ x.depth < i
      BY <2>2, <2>4, <2>5 DEF Good, Core, CursorsMarked, AtBoundary
  <2> HIDE DEF x, e
  <2>8. Good(t, client) /\ t.ended = q.s.ended /\ t.txn = q.s.txn /\ t.vars = q.s.vars
      BY <2>2, <2>5, <2>7, CursorGood
  <2> HIDE DEF t
  <2>9. StmtRel(s, r)
      BY <2>2, <2>6, <2>8 DEF StmtRel
  <2> QED  BY <2>6, <2>8, <2>9
<1> QED
    BY <1>2, <1>3

LEMMA CopyFromStmt ==
    ASSUME NEW s, Ready(s), s.txn.open => s.txn.writes + 1 <= MaxWrites, NEW r \in CopyFrom(s)
    PROVE  Good(r.s, client) /\ StmtRel(s, r)
<1>1. Good(s, client) /\ s.ended = "no"
    BY DEF Ready
<1>2. CASE s.txn.failed /\ r = Fail(s, "exec")
  <2>1. r.s = s /\ r.err = "exec"
      BY <1>2 DEF Fail
  <2> QED  BY <1>1, <1>2, <2>1 DEF StmtRel, ErrClasses
<1>3. CASE r = Fail(s, "copy")
    BY <1>3, SameRel DEF Fail
<1>4. CASE r \in Execute(s, 1)
    BY <1>4, ExecuteStmt
<1>5. ASSUME NEW q \in txn_rollback(s, FALSE), r = Fail(q.s, "copy")
      PROVE  Good(r.s, client) /\ StmtRel(s, r)
  <2>1. Good(q.s, client) /\ StmtRel(s, q) /\ q.s.ended \in {"no", "abort"}
      BY RollbackStmt
  <2>2. r.s = q.s /\ r.err = "copy"
      BY <1>5 DEF Fail
  <2> QED  BY <2>1, <2>2 DEF StmtRel, ErrClasses
<1> QED
    BY <1>2, <1>3, <1>4, <1>5 DEF CopyFrom, copy_from_ingest

LEMMA CopyToStmt ==
    ASSUME NEW s, Ready(s), NEW r \in CopyTo(s)
    PROVE  Good(r.s, client) /\ StmtRel(s, r)
<1>1. Good(s, client) /\ s.ended = "no" /\ s.txn \in TxnRec(client)
    BY Parts DEF Ready
<1>2. CASE s.txn.failed /\ r = Fail(s, "exec")
  <2>1. r.s = s /\ r.err = "exec"
      BY <1>2 DEF Fail
  <2> QED  BY <1>1, <1>2, <2>1 DEF StmtRel, ErrClasses
<1>3. CASE r \in Execute(s, 0)
  <2>1. s.txn.open => s.txn.writes + 0 <= MaxWrites
      BY <1>1, SessionAssumption DEF TxnRec
  <2> QED  BY <1>3, <2>1, ExecuteStmt
<1> QED
    BY <1>2, <1>3 DEF CopyTo

\* What SettingsUndo says of the present moment.
AbortNow(s) ==
    Undoes(s.vars, s.txn.guc_stack, 0, Len(s.txn.guc_stack), FALSE, s.txn.before)
CommitNow(s) ==
    Undoes(s.vars, s.txn.guc_stack, 0, Len(s.txn.guc_stack), TRUE, s.txn.want)
MarksNow(s) ==
    \A k \in 1..Len(s.txn.saves) :
        Undoes(WithTxn(s.vars, s.txn.read_only), s.txn.guc_stack, s.txn.saves[k].guc,
               Len(s.txn.guc_stack), FALSE, WithTxn(s.txn.saves[k].vars, s.txn.saves[k].ro))

LEMMA NowUndoes ==
    ASSUME NEW w, NEW s, Good(s, w), s.txn.open
    PROVE  /\ "reset_custom" \notin Quirks => AbortNow(s) /\ MarksNow(s)
           /\ CommitsExact => CommitNow(s)
<1> DEFINE n == Len(s.txn.saves) + 1
<1>1. /\ n \in Moments(s) /\ At(s, n).vars = s.vars /\ At(s, n).guc = Len(s.txn.guc_stack)
      /\ At(s, n).want = s.txn.want /\ At(s, n).ro = s.txn.read_only
      /\ n - 1 = Len(s.txn.saves)
    BY Parts DEF Moments, At
<1> HIDE DEF n
<1>2. AbortUndoes(s) => AbortNow(s)
    BY <1>1 DEF AbortUndoes, AbortNow
<1>3. CommitUndoes(s) => CommitNow(s)
    BY <1>1 DEF CommitUndoes, CommitNow
<1>4. MarkUndoes(s) => MarksNow(s)
    BY <1>1 DEF MarkUndoes, MarksNow
<1> QED
    BY <1>2, <1>3, <1>4 DEF Good, SettingsUndo

\* The stack grows, and nothing but the present changes.
LEMMA PresentChanges ==
    ASSUME NEW w, NEW s, Good(s, w), s.txn.open, NEW t,
           t.txn.saves = s.txn.saves, t.txn.before = s.txn.before,
           \A i \in 1..Len(s.txn.guc_stack) : t.txn.guc_stack[i] = s.txn.guc_stack[i],
           "reset_custom" \notin Quirks => AbortNow(t) /\ MarksNow(t),
           CommitsExact => CommitNow(t)
    PROVE  SettingsUndo(t)
<1> DEFINE n == Len(s.txn.saves)
           old == s.txn.guc_stack
           new == t.txn.guc_stack
<1>1. /\ n \in Nat /\ Len(old) \in Nat /\ DOMAIN s.txn.saves = 1..n
      /\ \A i \in 1..n : s.txn.saves[i] \in Mark(w)
    BY Parts
<1>2. \A i \in 1..n : s.txn.saves[i].guc \in Nat /\ s.txn.saves[i].guc <= Len(old)
    BY <1>1 DEF Mark, Good, Core, Nested
<1>3. Moments(t) = 1..n + 1 /\ Moments(s) = 1..n + 1
    BY DEF Moments
<1>4. /\ At(t, n + 1).vars = t.vars /\ At(t, n + 1).guc = Len(new)
      /\ At(t, n + 1).want = t.txn.want /\ At(t, n + 1).ro = t.txn.read_only
    BY <1>1 DEF At
<1>5. \A i \in 1..n : At(t, i) = s.txn.saves[i] /\ At(s, i) = s.txn.saves[i]
    BY <1>1 DEF At
<1>6. \A lo \in Nat, i \in 1..n : \A j \in lo + 1..s.txn.saves[i].guc : new[j] = old[j]
    BY <1>1, <1>2
<1>7. \A i \in 1..n + 1 : i = n + 1 \/ i \in 1..n
    BY <1>1
<1>8. \A i \in 1..n : i \in 1..n + 1
    BY <1>1
<1>9. /\ "reset_custom" \notin Quirks => AbortUndoes(s) /\ MarkUndoes(s)
      /\ CommitsExact => CommitUndoes(s)
    BY DEF Good, SettingsUndo
<1> HIDE DEF n
<1>10. ASSUME "reset_custom" \notin Quirks PROVE AbortUndoes(t)
  <2>1. Undoes(At(t, n + 1).vars, new, 0, At(t, n + 1).guc, FALSE, t.txn.before)
      BY <1>4, <1>10 DEF AbortNow
  <2>2. ASSUME NEW i \in 1..n
        PROVE  Undoes(At(t, i).vars, new, 0, At(t, i).guc, FALSE, t.txn.before)
    <3>1. Undoes(s.txn.saves[i].vars, old, 0, s.txn.saves[i].guc, FALSE, s.txn.before)
        BY <1>3, <1>5, <1>8, <1>9, <1>10 DEF AbortUndoes
    <3>2. \A j \in 0 + 1..s.txn.saves[i].guc : new[j] = old[j]
        BY <1>6
    <3>3. Undoes(s.txn.saves[i].vars, new, 0, s.txn.saves[i].guc, FALSE, s.txn.before)
        BY <1>2, <3>1, <3>2, UndoesSame
    <3> QED  BY <1>5, <3>3
  <2> QED  BY <1>3, <1>7, <2>1, <2>2 DEF AbortUndoes
<1>11. ASSUME CommitsExact PROVE CommitUndoes(t)
  <2>1. Undoes(At(t, n + 1).vars, new, 0, At(t, n + 1).guc, TRUE, At(t, n + 1).want)
      BY <1>4, <1>11 DEF CommitNow
  <2>2. ASSUME NEW i \in 1..n
        PROVE  Undoes(At(t, i).vars, new, 0, At(t, i).guc, TRUE, At(t, i).want)
    <3>1. Undoes(s.txn.saves[i].vars, old, 0, s.txn.saves[i].guc, TRUE, s.txn.saves[i].want)
        BY <1>3, <1>5, <1>8, <1>9, <1>11 DEF CommitUndoes
    <3>2. \A j \in 0 + 1..s.txn.saves[i].guc : new[j] = old[j]
        BY <1>6
    <3>3. Undoes(s.txn.saves[i].vars, new, 0, s.txn.saves[i].guc, TRUE, s.txn.saves[i].want)
        BY <1>2, <3>1, <3>2, UndoesSame
    <3> QED  BY <1>5, <3>3
  <2> QED  BY <1>3, <1>7, <2>1, <2>2 DEF CommitUndoes
<1>12. ASSUME "reset_custom" \notin Quirks PROVE MarkUndoes(t)
  <2> DEFINE G(k) == WithTxn(s.txn.saves[k].vars, s.txn.saves[k].ro)
  <2>1. ASSUME NEW k \in 1..n
        PROVE  Undoes(WithTxn(At(t, n + 1).vars, At(t, n + 1).ro), new, s.txn.saves[k].guc,
                      At(t, n + 1).guc, FALSE, G(k))
      BY <1>4, <1>12 DEF MarksNow, n
  <2>2. ASSUME NEW i \in 1..n, NEW k \in 1..i - 1
        PROVE  Undoes(WithTxn(At(t, i).vars, At(t, i).ro), new, s.txn.saves[k].guc,
                      At(t, i).guc, FALSE, G(k))
    <3>0. k \in 1..n
        BY <1>1
    <3>1. Undoes(WithTxn(s.txn.saves[i].vars, s.txn.saves[i].ro), old, s.txn.saves[k].guc,
                 s.txn.saves[i].guc, FALSE, G(k))
        BY <1>3, <1>5, <1>8, <1>9, <1>12 DEF MarkUndoes
    <3>2. \A j \in s.txn.saves[k].guc + 1..s.txn.saves[i].guc : new[j] = old[j]
        BY <1>2, <1>6, <3>0
    <3>3. Undoes(WithTxn(s.txn.saves[i].vars, s.txn.saves[i].ro), new, s.txn.saves[k].guc,
                 s.txn.saves[i].guc, FALSE, G(k))
        BY <1>2, <3>0, <3>1, <3>2, UndoesSame
    <3> QED  BY <1>5, <3>3
  <2>3. \A i \in Moments(t) : \A k \in 1..i - 1 :
            Undoes(WithTxn(At(t, i).vars, At(t, i).ro), new, s.txn.saves[k].guc,
                   At(t, i).guc, FALSE, G(k))
    <3>1. (n + 1) - 1 = n
        BY <1>1
    <3> QED  BY <1>3, <1>7, <2>1, <2>2, <3>1
  <2> QED  BY <2>3 DEF MarkUndoes
<1> QED
    BY <1>10, <1>11, <1>12 DEF SettingsUndo

\* A statement of an open block that may push entries and change settings.
StackStep(s, t) ==
    /\ t.txn.open = s.txn.open /\ t.txn.implicit = s.txn.implicit
    /\ t.txn.failed = s.txn.failed /\ t.txn.errs = s.txn.errs
    /\ t.txn.writes = s.txn.writes /\ t.txn.saves = s.txn.saves
    /\ t.txn.before = s.txn.before
    /\ t.cursors = s.cursors /\ t.next_ro = s.next_ro /\ t.ended = s.ended
    /\ Len(s.txn.guc_stack) <= Len(t.txn.guc_stack)
    /\ \A i \in 1..Len(s.txn.guc_stack) : t.txn.guc_stack[i] = s.txn.guc_stack[i]

LEMMA StackGood ==
    ASSUME NEW w, NEW s, Good(s, w), s.txn.open, NEW t \in SessionRec(w), StackStep(s, t),
           Len(t.txn.guc_stack) <= w.max_stack, w.max_stack \in Nat,
           "reset_custom" \notin Quirks => AbortNow(t) /\ MarksNow(t),
           CommitsExact => CommitNow(t)
    PROVE  Good(t, w)
<1>1. t.txn.open
    BY DEF StackStep
<1>2. Bounded(t, w)
    BY <1>1 DEF Good, Core, Bounded, StackStep
<1>3. Nested(t)
  <2>1. /\ DOMAIN s.txn.saves = 1..Len(s.txn.saves) /\ Len(s.txn.guc_stack) \in Nat
        /\ \A i \in 1..Len(s.txn.saves) : s.txn.saves[i] \in Mark(w)
      BY Parts
  <2>2. \A i \in DOMAIN s.txn.saves : s.txn.saves[i].guc \in Nat
      BY <2>1 DEF Mark
  <2>3. Len(t.txn.guc_stack) \in Nat
    <3>1. t.txn.guc_stack \in Seq(Entry)
        BY DEF SessionRec, TxnRec
    <3> QED  BY <3>1, LenProperties
  <2> QED  BY <2>1, <2>2, <2>3 DEF Good, Core, Nested, StackStep
<1>4. AtBoundary(t)
    BY <1>1 DEF Good, Core, AtBoundary, StackStep
<1>5. ErrorsFail(t)
    BY DEF Good, Core, ErrorsFail, StackStep
<1>6. CursorsMarked(t)
    BY DEF Good, Core, CursorsMarked, StackStep
<1>7. SettingsUndo(t)
    BY PresentChanges DEF StackStep
<1> QED
    BY <1>2, <1>3, <1>4, <1>5, <1>6, <1>7 DEF Good, Core

\* The mode of the transaction is one of the fields a ROLLBACK TO restores.
LEMMA WithTxnType ==
    ASSUME NEW v \in Vars, NEW ro \in Flag
    PROVE  /\ WithTxn(v, ro) \in [CharFields -> Flag] /\ WithTxn(v, ro)["txn_ro"] = ro
           /\ \A f \in Fields : WithTxn(v, ro)[f] = v[f]
    BY DEF WithTxn, CharFields, Vars, Fields

\* Two modes and the settings determine them.
LEMMA WithTxnSame ==
    ASSUME NEW v \in Vars, NEW v2 \in Vars, NEW ro \in Flag, NEW ro2 \in Flag,
           NEW all, all = WithTxn(v, ro), all = WithTxn(v2, ro2)
    PROVE  v = v2 /\ ro = ro2
<1>1. WithTxn(v, ro)["txn_ro"] = ro /\ \A f \in Fields : WithTxn(v, ro)[f] = v[f]
    BY WithTxnType
<1>2. WithTxn(v2, ro2)["txn_ro"] = ro2 /\ \A f \in Fields : WithTxn(v2, ro2)[f] = v2[f]
    BY WithTxnType
<1> QED
    BY <1>1, <1>2 DEF Vars

\* SET TRANSACTION saves the mode it changes.
LEMMA SetTransactionStmt ==
    ASSUME NEW s, Ready(s), NEW ro \in Flag, Len(s.txn.guc_stack) < client.max_stack
    PROVE  LET r == stmt_set_transaction(s, ro) IN Good(r.s, client) /\ StmtRel(s, r)
<1> DEFINE r == stmt_set_transaction(s, ro)
           w == client
<1>1. /\ Good(s, w) /\ s.ended = "no" /\ s \in SessionRec(w) /\ s.txn \in TxnRec(w)
      /\ w.max_stack \in Nat /\ s.txn.read_only \in Flag /\ s.vars \in Vars
      /\ s.txn.guc_stack \in Seq(Entry) /\ Len(s.txn.guc_stack) \in Nat
    BY Parts, WorkloadType DEF Ready
<1>2. CASE ~s.txn.open
  <2> DEFINE t == [s EXCEPT !.next_ro = ro]
  <2>1. r = [s |-> t, err |-> "none"]
      BY <1>2 DEF stmt_set_transaction, Ok
  <2>2. /\ t \in SessionRec(w) /\ t.txn = s.txn /\ t.vars = s.vars /\ t.cursors = s.cursors
        /\ t.ended = s.ended
      BY <1>1 DEF SessionRec
  <2> HIDE DEF t
  <2>3. SettingsUndo(t)
      BY <1>2, <2>2 DEF SettingsUndo
  <2>4. Good(t, w)
      BY <1>1, <1>2, <2>2, <2>3
         DEF Good, Core, Bounded, Nested, ErrorsFail, CursorsMarked, AtBoundary
  <2>5. StmtRel(s, [s |-> t, err |-> "none"])
      BY <1>1, <2>2, QuietRel
  <2> HIDE DEF r
  <2> QED  BY <2>1, <2>4, <2>5 DEF r
<1>3. CASE r = Fail(s, "utility")
  <2> HIDE DEF r
  <2>1. Good(s, client) /\ StmtRel(s, [s |-> s, err |-> "utility"])
      BY <1>1, QuietRel
  <2> QED  BY <1>3, <2>1 DEF r, Fail
<1> DEFINE e == [local |-> FALSE, saved |-> [txn_ro |-> s.txn.read_only]]
           old == s.txn.guc_stack
           stack == IF ro = s.txn.read_only THEN old ELSE Append(old, e)
           x == [s.txn EXCEPT !.read_only = ro, !.guc_stack = stack]
           t == [s EXCEPT !.txn = x]
<1>4. CASE s.txn.open /\ r = Ok(t)
  <2>1. e \in Entry /\ e.local = FALSE /\ DOMAIN e.saved = {"txn_ro"}
        /\ e.saved["txn_ro"] = s.txn.read_only
    <3>1. [txn_ro |-> s.txn.read_only] \in [{"txn_ro"} -> Flag]
        BY <1>1
    <3>2. {"txn_ro"} \in SUBSET CharFields
        BY DEF CharFields
    <3>3. [txn_ro |-> s.txn.read_only] \in Saved
        BY <3>1, <3>2 DEF Saved
    <3> QED  BY <3>3 DEF Entry
  <2> HIDE DEF e
  <2>2. /\ stack \in Seq(Entry) /\ Len(stack) <= client.max_stack
        /\ Len(old) <= Len(stack)
        /\ \A i \in 1..Len(old) : stack[i] = old[i]
        /\ IF ro = s.txn.read_only THEN stack = old
           ELSE stack = Append(old, e) /\ Len(stack) = Len(old) + 1
      BY <1>1, <2>1, AppendProperties
  <2> HIDE DEF stack
  <2>3. /\ x \in TxnRec(w) /\ x.guc_stack = stack /\ x.read_only = ro
        /\ x.saves = s.txn.saves /\ x.before = s.txn.before /\ x.want = s.txn.want
        /\ x.writes = s.txn.writes /\ x.errs = s.txn.errs
      BY <1>1, <2>2 DEF TxnRec
  <2>4. x.open = s.txn.open /\ x.implicit = s.txn.implicit /\ x.failed = s.txn.failed
      BY <1>1 DEF TxnRec
  <2> HIDE DEF x
  <2>5. /\ t \in SessionRec(w) /\ t.txn = x /\ t.vars = s.vars /\ t.cursors = s.cursors
        /\ t.ended = s.ended /\ t.next_ro = s.next_ro
      BY <1>1, <2>3 DEF SessionRec
  <2> HIDE DEF t
  <2>6. StackStep(s, t)
      BY <2>2, <2>3, <2>4, <2>5 DEF StackStep
  <2>7. /\ "reset_custom" \notin Quirks => AbortNow(s) /\ MarksNow(s)
        /\ CommitsExact => CommitNow(s)
      BY <1>1, <1>4, NowUndoes
  <2>8. \A f \in Fields, c \in BOOLEAN : ~Counts(e, f, c)
      BY <2>1 DEF Counts, Fields
  <2>9. /\ s.txn.before \in [Fields -> Flag] /\ s.txn.want \in [Fields -> Flag]
        /\ s.vars \in [Fields -> Flag]
      BY <1>1, Parts DEF Vars
  <2>10. "reset_custom" \notin Quirks => AbortNow(t)
    <3> SUFFICES ASSUME "reset_custom" \notin Quirks
                 PROVE  Undoes(s.vars, stack, 0, Len(stack), FALSE, s.txn.before)
        BY <2>3, <2>5 DEF AbortNow
    <3>1. Undoes(s.vars, old, 0, Len(old), FALSE, s.txn.before)
        BY <2>7 DEF AbortNow
    <3>2. Undoes(s.vars, Append(old, e), 0, Len(old) + 1, FALSE, s.txn.before)
      <4> HIDE DEF old
      <4>1. \A f \in Fields : ~Counts(e, f, FALSE) /\ s.vars[f] = s.vars[f]
          BY <2>8
      <4>2. old \in Seq(Entry) /\ 0 <= Len(old)
          BY <1>1 DEF old
      <4> QED  BY <2>1, <2>9, <3>1, <4>1, <4>2, UndoesPush
    <3> QED  BY <2>2, <3>1, <3>2
  <2>11. CommitsExact => CommitNow(t)
    <3> SUFFICES ASSUME CommitsExact
                 PROVE  Undoes(s.vars, stack, 0, Len(stack), TRUE, s.txn.want)
        BY <2>3, <2>5 DEF CommitNow
    <3>1. Undoes(s.vars, old, 0, Len(old), TRUE, s.txn.want)
        BY <2>7 DEF CommitNow
    <3>2. Undoes(s.vars, Append(old, e), 0, Len(old) + 1, TRUE, s.txn.want)
      <4> HIDE DEF old
      <4>1. \A f \in Fields : ~Counts(e, f, TRUE) /\ s.vars[f] = s.vars[f]
          BY <2>8
      <4>2. old \in Seq(Entry) /\ 0 <= Len(old)
          BY <1>1 DEF old
      <4> QED  BY <2>1, <2>9, <3>1, <4>1, <4>2, UndoesPush
    <3> QED  BY <2>2, <3>1, <3>2
  <2>12. "reset_custom" \notin Quirks => MarksNow(t)
    <3> SUFFICES ASSUME "reset_custom" \notin Quirks, NEW k \in 1..Len(s.txn.saves)
                 PROVE  Undoes(WithTxn(s.vars, ro), stack, s.txn.saves[k].guc, Len(stack), FALSE,
                               WithTxn(s.txn.saves[k].vars, s.txn.saves[k].ro))
        BY <2>3, <2>5 DEF MarksNow
    <3> DEFINE v == WithTxn(s.vars, s.txn.read_only)
               v2 == WithTxn(s.vars, ro)
               goal == WithTxn(s.txn.saves[k].vars, s.txn.saves[k].ro)
               lo == s.txn.saves[k].guc
    <3>1. Undoes(v, old, lo, Len(old), FALSE, goal)
        BY <2>7 DEF MarksNow
    <3>2. /\ lo \in Nat /\ lo <= Len(old)
          /\ s.txn.saves[k].vars \in Vars /\ s.txn.saves[k].ro \in Flag
      <4>1. s.txn.saves[k] \in Mark(w) /\ k \in DOMAIN s.txn.saves
          BY <1>1, Parts
      <4> QED  BY <1>1, <4>1 DEF Mark, Good, Core, Nested
    <3>3. /\ v \in [CharFields -> Flag] /\ v2 \in [CharFields -> Flag]
          /\ goal \in [CharFields -> Flag]
        BY <1>1, <3>2, WithTxnType
    <3>4. \A f \in CharFields :
            IF Counts(e, f, FALSE) THEN e.saved[f] = v[f] ELSE v2[f] = v[f]
        BY <1>1, <2>1, WithTxnType DEF Counts, CharFields
    <3> HIDE DEF v, v2, goal, lo
    <3>5. Undoes(v2, Append(old, e), lo, Len(old) + 1, FALSE, goal)
      <4>1. old \in Seq(Entry) /\ e \in Entry /\ FALSE \in BOOLEAN
          BY <1>1, <2>1
      <4> HIDE DEF old
      <4> QED  BY <3>1, <3>2, <3>3, <3>4, <4>1, UndoesPush
    <3>6. ro = s.txn.read_only => v2 = v
        BY DEF v, v2
    <3>7. Undoes(v2, stack, lo, Len(stack), FALSE, goal)
        BY <2>2, <3>1, <3>5, <3>6
    <3> QED  BY <3>7 DEF v2, goal, lo
  <2>13. Len(t.txn.guc_stack) <= w.max_stack
      BY <2>2, <2>3, <2>5
  <2>14. Good(t, w)
      BY <1>1, <1>4, <2>5, <2>6, <2>10, <2>11, <2>12, <2>13, StackGood
  <2>15. StmtRel(s, [s |-> t, err |-> "none"])
      BY <1>1, <2>6, QuietRel DEF StackStep
  <2> HIDE DEF r
  <2> QED  BY <1>4, <2>14, <2>15 DEF r, Ok
<1>5. s.txn.open => r = Fail(s, "utility") \/ r = Ok(t)
    BY <1>1 DEF stmt_set_transaction, SessionRec, TxnRec
<1> QED
    BY <1>2, <1>3, <1>4, <1>5

\* The fields of a setting.
LEMMA CoversType ==
    ASSUME NEW name \in AllSettings
    PROVE  /\ Covers(name) \subseteq Fields
           /\ \A v \in Vars : Restrict(v, Covers(name)) \in Saved
<1>1. Covers(name) \subseteq Fields
    BY DEF AllSettings, Covers, Fields
<1>2. ASSUME NEW v \in Vars PROVE Restrict(v, Covers(name)) \in Saved
  <2>1. Restrict(v, Covers(name)) \in [Covers(name) -> Flag]
      BY <1>1 DEF Restrict, Vars
  <2>2. Covers(name) \in SUBSET CharFields
      BY <1>1 DEF CharFields
  <2> QED  BY <2>1, <2>2 DEF Saved
<1> QED
    BY <1>1, <1>2

\* No SET LOCAL of the block covers any of the fields F.
NoLocal(s, F) ==
    \A i \in 1..Len(s.txn.guc_stack), f \in F : ~Counts(s.txn.guc_stack[i], f, TRUE)

\* SET, SET LOCAL and RESET: the entry pushed saves what the assignment changes.
LEMMA AssignGood ==
    ASSUME NEW w, w.max_stack \in Nat, NEW s, Good(s, w), NEW name \in AllSettings,
           NEW N \in SUBSET Covers(name), NEW new \in [N -> Flag], NEW local \in BOOLEAN,
           s.txn.open => Len(s.txn.guc_stack) < w.max_stack,
           CommitsExact /\ ~local => NoLocal(s, N)
    PROVE  LET t == Assign(s, name, new, local) IN
           /\ Good(t, w) /\ StackStep(s, t) /\ t.vars = Over(new, s.vars)
           /\ Len(t.txn.guc_stack) <= Len(s.txn.guc_stack) + 1
           /\ \A F : ~local /\ NoLocal(s, F) => NoLocal(t, F)
<1> DEFINE t == Assign(s, name, new, local)
           v2 == Over(new, s.vars)
           old == s.txn.guc_stack
<1>1. /\ s \in SessionRec(w) /\ s.txn \in TxnRec(w) /\ s.vars \in Vars
      /\ s.txn.guc_stack \in Seq(Entry) /\ Len(s.txn.guc_stack) \in Nat
      /\ s.txn.want \in Vars /\ s.txn.before \in Vars /\ s.txn.read_only \in Flag
    BY Parts
<1>2. Covers(name) \subseteq Fields /\ Restrict(s.vars, Covers(name)) \in Saved
      /\ N \subseteq Fields
    BY <1>1, CoversType
<1>3. /\ \A v \in Vars : Over(new, v) \in Vars
      /\ \A v \in Vars : \A f \in Fields \ N : Over(new, v)[f] = v[f]
    BY <1>2 DEF Over, Vars
<1>4. CASE ~s.txn.open
  <2>1. t = [s EXCEPT !.vars = v2]
    <3>1. push_guc_entry(s, name, local) = s
        BY <1>4 DEF push_guc_entry
    <3>2. t = [s EXCEPT !.vars = v2, !.txn = [s.txn EXCEPT !.want = s.txn.want]]
        BY <1>1, <1>4, <3>1 DEF Assign, SessionRec
    <3>3. [s.txn EXCEPT !.want = s.txn.want] = s.txn
        BY <1>1 DEF TxnRec
    <3> HIDE DEF t, v2
    <3> QED  BY <1>1, <3>2, <3>3 DEF SessionRec
  <2>2. v2 \in Vars
      BY <1>1, <1>3
  <2> HIDE DEF v2
  <2>3. /\ t \in SessionRec(w) /\ t.txn = s.txn /\ t.vars = v2 /\ t.cursors = s.cursors
        /\ t.ended = s.ended /\ t.next_ro = s.next_ro
      BY <1>1, <2>1, <2>2 DEF SessionRec
  <2> HIDE DEF t
  <2>4. SettingsUndo(t)
      BY <1>4, <2>3 DEF SettingsUndo
  <2>5. Good(t, w)
      BY <2>3, <2>4 DEF Good, Core, Bounded, Nested, ErrorsFail, CursorsMarked, AtBoundary
  <2>6. StackStep(s, t)
      BY <1>1, <2>3 DEF StackStep
  <2>7. \A F : NoLocal(s, F) => NoLocal(t, F)
      BY <2>3 DEF NoLocal
  <2> QED  BY <1>1, <2>3, <2>5, <2>6, <2>7 DEF t, v2
<1>5. CASE s.txn.open
  <2> DEFINE e == [local |-> local, saved |-> Restrict(s.vars, Covers(name))]
             stack == Append(old, e)
             want == IF ~local THEN Over(new, s.txn.want) ELSE s.txn.want
             x == [s.txn EXCEPT !.guc_stack = stack, !.want = want]
  <2>1. t = [s EXCEPT !.txn = x, !.vars = v2]
    <3>1. push_guc_entry(s, name, local) = [s EXCEPT !.txn = [s.txn EXCEPT !.guc_stack = stack]]
        BY <1>1, <1>5 DEF push_guc_entry, SessionRec, TxnRec
    <3> DEFINE p == push_guc_entry(s, name, local)
    <3>2. p.vars = s.vars /\ p.txn = [s.txn EXCEPT !.guc_stack = stack] /\ p.txn.want = s.txn.want
        BY <1>1, <3>1 DEF SessionRec, TxnRec
    <3>3. t = [p EXCEPT !.vars = v2, !.txn = [p.txn EXCEPT !.want = want]]
        BY <1>1, <1>5, <3>1, <3>2 DEF Assign, SessionRec
    <3> HIDE DEF t, v2, stack, want
    <3> QED  BY <1>1, <3>1, <3>2, <3>3 DEF SessionRec, TxnRec
  <2>2. /\ e \in Entry /\ DOMAIN e.saved = Covers(name)
        /\ \A f \in Covers(name) : e.saved[f] = s.vars[f]
    <3>1. e.saved = [f \in Covers(name) |-> s.vars[f]]
        BY DEF Restrict
    <3>2. e \in Entry
        BY <1>2 DEF Entry
    <3> QED  BY <3>1, <3>2
  <2>3. e.local = local
      OBVIOUS
  <2> HIDE DEF e
  <2>4. /\ stack \in Seq(Entry) /\ Len(stack) = Len(old) + 1
        /\ stack[Len(old) + 1] = e
        /\ \A i \in 1..Len(old) : stack[i] = old[i]
      BY <1>1, <2>2, AppendProperties
  <2>5. want \in Vars /\ v2 \in Vars
      BY <1>1, <1>3
  <2> DEFINE m == Len(old) + 1
  <2> HIDE DEF stack, want, v2
  <2>6. /\ x \in TxnRec(w) /\ x.guc_stack = stack /\ x.want = want
        /\ x.saves = s.txn.saves /\ x.before = s.txn.before
        /\ x.read_only = s.txn.read_only
        /\ x.writes = s.txn.writes /\ x.errs = s.txn.errs
      BY <1>1, <2>4, <2>5 DEF TxnRec
  <2>7. x.open = s.txn.open /\ x.implicit = s.txn.implicit /\ x.failed = s.txn.failed
      BY <1>1 DEF TxnRec
  <2> HIDE DEF x
  <2>8. /\ t \in SessionRec(w) /\ t.txn = x /\ t.vars = v2 /\ t.cursors = s.cursors
        /\ t.ended = s.ended /\ t.next_ro = s.next_ro
      BY <1>1, <2>1, <2>5, <2>6 DEF SessionRec
  <2> HIDE DEF t
  <2>9. StackStep(s, t)
      BY <1>1, <2>4, <2>6, <2>7, <2>8 DEF StackStep
  <2>10. /\ "reset_custom" \notin Quirks => AbortNow(s) /\ MarksNow(s)
         /\ CommitsExact => CommitNow(s)
      BY <1>5, NowUndoes
  <2>11. \A f \in Fields : f \notin N => v2[f] = s.vars[f]
      BY <1>1, <1>3 DEF v2
  <2>12. /\ s.txn.before \in [Fields -> Flag] /\ s.txn.want \in [Fields -> Flag]
         /\ s.vars \in [Fields -> Flag] /\ v2 \in [Fields -> Flag]
         /\ old \in Seq(Entry) /\ 0 <= Len(old)
      BY <1>1, <2>5 DEF Vars
  <2> HIDE DEF old
  <2>13. \A f \in Fields :
            IF Counts(e, f, FALSE) THEN e.saved[f] = s.vars[f] ELSE v2[f] = s.vars[f]
      BY <2>2, <2>11 DEF Counts
  <2>14. "reset_custom" \notin Quirks => AbortNow(t)
    <3> SUFFICES ASSUME "reset_custom" \notin Quirks
                 PROVE  Undoes(v2, stack, 0, Len(stack), FALSE, s.txn.before)
        BY <2>6, <2>8 DEF AbortNow
    <3>1. Undoes(s.vars, old, 0, Len(old), FALSE, s.txn.before)
        BY <2>10 DEF AbortNow, old
    <3>2. Undoes(v2, Append(old, e), 0, Len(old) + 1, FALSE, s.txn.before)
      <4>1. e \in Entry /\ 0 \in Nat /\ FALSE \in BOOLEAN
          BY <2>2
      <4> QED  BY <2>12, <2>13, <3>1, <4>1, UndoesPush
    <3> QED  BY <2>4, <3>2 DEF stack
  <2>15. CommitsExact => CommitNow(t)
    <3> SUFFICES ASSUME CommitsExact
                 PROVE  Undoes(v2, stack, 0, Len(stack), TRUE, want)
        BY <2>6, <2>8 DEF CommitNow
    <3>1. Undoes(s.vars, old, 0, Len(old), TRUE, s.txn.want)
        BY <2>10 DEF CommitNow, old
    <3>2. CASE local
      <4>1. \A f \in Fields :
                IF Counts(e, f, TRUE) THEN e.saved[f] = s.vars[f] ELSE v2[f] = s.vars[f]
          BY <2>2, <2>3, <2>11, <3>2 DEF Counts
      <4>2. Undoes(v2, Append(old, e), 0, Len(old) + 1, TRUE, s.txn.want)
          BY <2>2, <2>12, <3>1, <4>1, UndoesPush
      <4> QED  BY <2>4, <3>2, <4>2 DEF stack, want
    <3>3. CASE ~local
      <4>1. \A f \in DOMAIN new \cap Fields : \A i \in 0 + 1..Len(old) : ~Counts(old[i], f, TRUE)
        <5>1. NoLocal(s, N)
            BY <3>3
        <5>2. DOMAIN new = N /\ 0 + 1 = 1
            OBVIOUS
        <5> QED  BY <5>1, <5>2 DEF NoLocal, old
      <4> DEFINE goal == Over(new, s.txn.want)
      <4>2. Undoes(Over(new, s.vars), old, 0, Len(old), TRUE, goal)
          BY <1>1, <2>12, <3>1, <4>1, UndoesSet DEF old
      <4>3. \A f \in Fields : IF Counts(e, f, TRUE) THEN e.saved[f] = v2[f] ELSE v2[f] = v2[f]
          BY <2>3, <3>3 DEF Counts
      <4>4. goal \in [Fields -> Flag]
          BY <1>1, <1>3 DEF Vars
      <4> HIDE DEF goal
      <4>5. Undoes(v2, old, 0, Len(old), TRUE, goal)
          BY <4>2 DEF v2
      <4>6. Undoes(v2, Append(old, e), 0, Len(old) + 1, TRUE, goal)
          BY <2>2, <2>12, <4>3, <4>4, <4>5, UndoesPush
      <4> QED  BY <2>4, <3>3, <4>6 DEF stack, want, goal
    <3> QED  BY <3>2, <3>3
  <2>16. "reset_custom" \notin Quirks => MarksNow(t)
    <3> SUFFICES ASSUME "reset_custom" \notin Quirks, NEW k \in 1..Len(s.txn.saves)
                 PROVE  Undoes(WithTxn(v2, s.txn.read_only), stack, s.txn.saves[k].guc,
                               Len(stack), FALSE,
                               WithTxn(s.txn.saves[k].vars, s.txn.saves[k].ro))
        BY <2>6, <2>8 DEF MarksNow
    <3> DEFINE a == WithTxn(s.vars, s.txn.read_only)
               b == WithTxn(v2, s.txn.read_only)
               goal == WithTxn(s.txn.saves[k].vars, s.txn.saves[k].ro)
               lo == s.txn.saves[k].guc
    <3>1. Undoes(a, old, lo, Len(old), FALSE, goal)
        BY <2>10 DEF MarksNow, old
    <3>2. /\ lo \in Nat /\ lo <= Len(old)
          /\ s.txn.saves[k].vars \in Vars /\ s.txn.saves[k].ro \in Flag
      <4>1. s.txn.saves[k] \in Mark(w) /\ k \in DOMAIN s.txn.saves
          BY Parts
      <4> QED  BY <4>1 DEF Mark, Good, Core, Nested, old
    <3>3. /\ a \in [CharFields -> Flag] /\ b \in [CharFields -> Flag]
          /\ goal \in [CharFields -> Flag]
        BY <1>1, <2>5, <3>2, WithTxnType
    <3>4. /\ a["txn_ro"] = s.txn.read_only /\ \A f \in Fields : a[f] = s.vars[f]
          /\ b["txn_ro"] = s.txn.read_only /\ \A f \in Fields : b[f] = v2[f]
        BY <1>1, <2>5, WithTxnType
    <3>5. \A f \in CharFields :
            IF Counts(e, f, FALSE) THEN e.saved[f] = a[f] ELSE b[f] = a[f]
      <4> HIDE DEF a, b
      <4>1. ~Counts(e, "txn_ro", FALSE)
          BY <1>2, <2>2 DEF Counts, Fields
      <4> QED  BY <2>13, <3>4, <4>1 DEF CharFields
    <3> HIDE DEF a, b, goal, lo
    <3>6. e \in Entry /\ old \in Seq(Entry) /\ lo \in Nat /\ lo <= Len(old) /\ FALSE \in BOOLEAN
        BY <2>2, <2>12, <3>2
    <3>7. Undoes(b, Append(old, e), lo, Len(old) + 1, FALSE, goal)
        BY <3>1, <3>3, <3>5, <3>6, UndoesPush, Zenon
    <3> QED  BY <2>4, <3>7 DEF b, goal, lo, stack
  <2>17. Len(t.txn.guc_stack) <= w.max_stack
    <3>1. Len(old) < w.max_stack /\ Len(old) \in Nat
        BY <1>1, <1>5 DEF old
    <3> QED  BY <2>4, <2>6, <2>8, <3>1
  <2>18. Good(t, w)
      BY <1>5, <2>8, <2>9, <2>14, <2>15, <2>16, <2>17, StackGood
  <2>19. ASSUME NEW F, ~local, NoLocal(s, F) PROVE NoLocal(t, F)
    <3>1. \A f \in F : ~Counts(e, f, TRUE)
        BY <2>3, <2>19 DEF Counts
    <3>2. \A i \in 1..Len(old), f \in F : ~Counts(old[i], f, TRUE)
        BY <2>19 DEF NoLocal, old
    <3>3. Len(old) \in Nat /\ \A i \in 1..Len(stack) : i = Len(old) + 1 \/ i \in 1..Len(old)
        BY <1>1, <2>4 DEF old
    <3> QED  BY <2>4, <2>6, <2>8, <3>1, <3>2, <3>3 DEF NoLocal
  <2>20. Len(t.txn.guc_stack) <= Len(s.txn.guc_stack) + 1
      BY <1>1, <2>4, <2>6, <2>8 DEF old
  <2> QED  BY <2>8, <2>9, <2>18, <2>19, <2>20 DEF t, v2
<1> QED
    BY <1>4, <1>5

\* MayIssue keeps a SET off the fields a SET LOCAL of the block has covered.
LEMMA TouchedNoLocal ==
    ASSUME NEW s, NEW st, MayIssue(s, st), Len(s.txn.guc_stack) \in Nat,
           s.txn.guc_stack \in Seq(Entry), CommitsExact
    PROVE  NoLocal(s, Touched(st))
<1>1. Touched(st) \cap LocalFields(s) = {}
    BY DEF MayIssue, CommitsExact
<1> SUFFICES ASSUME NEW i \in 1..Len(s.txn.guc_stack), NEW f \in Touched(st),
                    Counts(s.txn.guc_stack[i], f, TRUE)
             PROVE  FALSE
    BY DEF NoLocal
<1> DEFINE e == s.txn.guc_stack[i]
<1>2. e \in ToSet(s.txn.guc_stack) /\ e.local /\ f \in DOMAIN e.saved
    BY DEF Counts, ToSet
<1>3. e \in {x \in ToSet(s.txn.guc_stack) : x.local}
    BY <1>2
<1>4. f \in LocalFields(s)
    BY <1>2, <1>3 DEF LocalFields
<1> QED
    BY <1>1, <1>4

\* A statement that changes settings and leaves the block as it is.
LEMMA StackRel ==
    ASSUME NEW s, Ready(s), NEW t, Good(t, client), StackStep(s, t)
    PROVE  StmtRel(s, [s |-> t, err |-> "none"])
    BY QuietRel DEF Ready, StackStep

LEMMA SetStmt ==
    ASSUME NEW s, Ready(s), NEW name \in client.settings, NEW v \in Flag, NEW local \in BOOLEAN,
           Len(s.txn.guc_stack) < client.max_stack,
           CommitsExact /\ ~local => NoLocal(s, Covers(name)),
           NEW r \in stmt_set_guc(s, name, v, local)
    PROVE  Good(r.s, client) /\ StmtRel(s, r)
<1>1. /\ client.max_stack \in Nat /\ Good(s, client) /\ name \in AllSettings
    BY WorkloadType DEF Ready
<1>2. CASE r = Fail(s, "utility")
    BY <1>2, SameRel DEF Fail
<1> DEFINE new == Value(name, v)
           t == Assign(s, name, new, local)
<1>3. CASE r = Ok(t)
  <2>1. Covers(name) \in SUBSET Covers(name) /\ new \in [Covers(name) -> Flag]
      BY DEF Value
  <2> HIDE DEF new
  <2>2. Good(t, client) /\ StackStep(s, t)
      BY <1>1, <2>1, AssignGood
  <2> HIDE DEF t
  <2> QED  BY <1>3, <2>2, StackRel DEF Ok
<1> QED
    BY <1>2, <1>3 DEF stmt_set_guc

LEMMA ResetStmt ==
    ASSUME NEW s, Ready(s), NEW name \in client.settings,
           Len(s.txn.guc_stack) < client.max_stack,
           CommitsExact => NoLocal(s, Covers(name)),
           NEW r \in stmt_reset_guc(s, name)
    PROVE  Good(r.s, client) /\ StmtRel(s, r)
<1>1. /\ client.max_stack \in Nat /\ Good(s, client) /\ name \in AllSettings /\ s.vars \in Vars
    BY WorkloadType, Parts DEF Ready
<1> DEFINE new == ResetValue(s, name)
           t == Assign(s, name, new, FALSE)
<1>2. Covers(name) \in SUBSET Covers(name) /\ new \in [Covers(name) -> Flag]
  <2>1. CASE name = "role"
    <3>1. new = [role |-> s.vars.user] /\ Covers(name) = {"role"} /\ s.vars.user \in Flag
        BY <1>1, <2>1 DEF ResetValue, Covers, Vars, Fields
    <3> QED  BY <3>1
  <2>2. CASE name # "role"
    <3>1. new = [f \in Covers(name) |-> Defaults[f]]
        BY <2>2 DEF ResetValue, Restrict
    <3>2. \A f \in Covers(name) : Defaults[f] \in Flag
        BY <1>1, CoversType, DefaultsType DEF Vars
    <3> QED  BY <3>1, <3>2
  <2> QED  BY <2>1, <2>2
<1>3. r = [s |-> t, err |-> "none"]
    BY DEF stmt_reset_guc, Ok
<1> HIDE DEF new
<1>4. Good(t, client) /\ StackStep(s, t)
    BY <1>1, <1>2, AssignGood
<1> HIDE DEF t
<1> QED
    BY <1>3, <1>4, StackRel

LEMMA StackStepTrans ==
    ASSUME NEW s, NEW a, NEW b, StackStep(s, a), StackStep(a, b),
           Len(s.txn.guc_stack) \in Nat, Len(a.txn.guc_stack) \in Nat,
           Len(b.txn.guc_stack) \in Nat
    PROVE  StackStep(s, b)
<1>1. /\ Len(s.txn.guc_stack) <= Len(b.txn.guc_stack)
      /\ \A i \in 1..Len(s.txn.guc_stack) : i \in 1..Len(a.txn.guc_stack)
    BY DEF StackStep
<1> QED
    BY <1>1 DEF StackStep

\* RESET ALL resets a custom setting without an entry.
LEMMA CustomGood ==
    ASSUME NEW w, w.max_stack \in Nat, NEW s, Good(s, w),
           s.txn.open /\ "reset_custom" \notin Quirks => s.vars.custom = 0,
           CommitsExact => NoLocal(s, {"custom"}),
           NEW open \in BOOLEAN, open <=> s.txn.open
    PROVE  LET t == [s EXCEPT !.vars.custom = 0, !.txn.want.custom = IF open THEN 0 ELSE @] IN
           Good(t, w) /\ StackStep(s, t)
<1> DEFINE t == [s EXCEPT !.vars.custom = 0, !.txn.want.custom = IF open THEN 0 ELSE @]
           new == [custom |-> 0]
           v2 == Over(new, s.vars)
           want == IF open THEN Over(new, s.txn.want) ELSE s.txn.want
           x == [s.txn EXCEPT !.want = want]
           stack == s.txn.guc_stack
<1>1. /\ s \in SessionRec(w) /\ s.txn \in TxnRec(w) /\ s.vars \in Vars
      /\ s.txn.guc_stack \in Seq(Entry) /\ Len(s.txn.guc_stack) \in Nat
      /\ s.txn.want \in Vars /\ s.txn.before \in Vars /\ s.txn.read_only \in Flag
    BY Parts
<1>2. ASSUME NEW v \in Vars
      PROVE  Over(new, v) = [v EXCEPT !.custom = 0] /\ Over(new, v) \in Vars
             /\ (v.custom = 0 => Over(new, v) = v)
             /\ v = [v EXCEPT !.custom = v.custom]
  <2>1. DOMAIN new = {"custom"} /\ new["custom"] = 0 /\ "custom" \in Fields
      BY DEF Fields
  <2> HIDE DEF new
  <2>2. Over(new, v) = [f \in Fields |-> IF f = "custom" THEN 0 ELSE v[f]]
      BY <2>1 DEF Over, Vars
  <2>3. v \in [Fields -> Flag] /\ 0 \in Flag
      BY DEF Vars, Flag
  <2> QED  BY <2>1, <2>2, <2>3 DEF Vars
<1>3. v2 \in Vars /\ want \in Vars
    BY <1>1, <1>2
<1>4. t = [s EXCEPT !.vars = v2, !.txn = x]
  <2>1. t = [s EXCEPT !.vars = [s.vars EXCEPT !.custom = 0],
                      !.txn = [s.txn EXCEPT !.want =
                                [s.txn.want EXCEPT !.custom = IF open THEN 0 ELSE s.txn.want.custom]]]
      BY <1>1 DEF SessionRec, TxnRec
  <2>2. v2 = [s.vars EXCEPT !.custom = 0]
      BY <1>1, <1>2
  <2>3. want = [s.txn.want EXCEPT !.custom = IF open THEN 0 ELSE s.txn.want.custom]
      BY <1>1, <1>2
  <2> HIDE DEF t, v2, want
  <2> QED  BY <2>1, <2>2, <2>3
<1> HIDE DEF v2, want
<1>5. /\ x \in TxnRec(w) /\ x.guc_stack = stack /\ x.want = want
      /\ x.saves = s.txn.saves /\ x.before = s.txn.before
      /\ x.read_only = s.txn.read_only
      /\ x.writes = s.txn.writes /\ x.errs = s.txn.errs
    BY <1>1, <1>3 DEF TxnRec
<1>6. x.open = s.txn.open /\ x.implicit = s.txn.implicit /\ x.failed = s.txn.failed
    BY <1>1 DEF TxnRec
<1>7. ~open => x = s.txn
    BY <1>1 DEF TxnRec, want
<1> HIDE DEF x
<1>8. /\ t \in SessionRec(w) /\ t.txn = x /\ t.vars = v2 /\ t.cursors = s.cursors
      /\ t.ended = s.ended /\ t.next_ro = s.next_ro
    BY <1>1, <1>3, <1>4, <1>5 DEF SessionRec
<1> HIDE DEF t
<1>9. StackStep(s, t)
    BY <1>1, <1>5, <1>6, <1>8 DEF StackStep
<1>10. CASE ~s.txn.open
  <2>1. t.txn = s.txn
      BY <1>7, <1>8, <1>10
  <2>2. SettingsUndo(t)
      BY <1>10, <2>1 DEF SettingsUndo
  <2>3. Good(t, w)
      BY <1>8, <2>1, <2>2
         DEF Good, Core, Bounded, Nested, ErrorsFail, CursorsMarked, AtBoundary
  <2> QED  BY <1>9, <2>3 DEF t
<1>11. CASE s.txn.open
  <2>1. /\ "reset_custom" \notin Quirks => AbortNow(s) /\ MarksNow(s)
        /\ CommitsExact => CommitNow(s)
      BY <1>11, NowUndoes
  <2>2. "reset_custom" \notin Quirks => v2 = s.vars
      BY <1>1, <1>2, <1>11 DEF v2
  <2>3. "reset_custom" \notin Quirks => AbortNow(t)
      BY <1>5, <1>8, <2>1, <2>2 DEF AbortNow
  <2>4. "reset_custom" \notin Quirks => MarksNow(t)
      BY <1>5, <1>8, <2>1, <2>2 DEF MarksNow
  <2>5. CommitsExact => CommitNow(t)
    <3> SUFFICES ASSUME CommitsExact
                 PROVE  Undoes(v2, stack, 0, Len(stack), TRUE, want)
        BY <1>5, <1>8 DEF CommitNow
    <3>1. Undoes(s.vars, stack, 0, Len(stack), TRUE, s.txn.want)
        BY <2>1 DEF CommitNow
    <3>2. \A f \in DOMAIN new \cap Fields : \A i \in 0 + 1..Len(stack) : ~Counts(stack[i], f, TRUE)
      <4>1. NoLocal(s, {"custom"}) /\ DOMAIN new = {"custom"} /\ 0 + 1 = 1
          OBVIOUS
      <4> QED  BY <4>1 DEF NoLocal
    <3>3. s.vars \in [Fields -> Flag] /\ s.txn.want \in [Fields -> Flag] /\ Len(stack) \in Nat
        BY <1>1 DEF Vars
    <3> HIDE DEF new, stack
    <3>4. Undoes(Over(new, s.vars), stack, 0, Len(stack), TRUE, Over(new, s.txn.want))
        BY <3>1, <3>2, <3>3, UndoesSet
    <3> QED  BY <1>11, <3>4 DEF v2, want
  <2>6. Len(t.txn.guc_stack) <= w.max_stack
      BY <1>5, <1>8 DEF Good, Core, Bounded
  <2>7. Good(t, w)
      BY <1>8, <1>9, <1>11, <2>3, <2>4, <2>5, <2>6, StackGood
  <2> QED  BY <1>9, <2>7 DEF t
<1> QED
    BY <1>10, <1>11

LEMMA ResetAllStmt ==
    ASSUME NEW s, Ready(s), Len(s.txn.guc_stack) + 3 <= client.max_stack,
           s.txn.open /\ "reset_custom" \notin Quirks => s.vars.custom = 0,
           CommitsExact => NoLocal(s, Fields \ {"user"}),
           NEW r \in ResetAll(s)
    PROVE  Good(r.s, client) /\ StmtRel(s, r)
<1> DEFINE n1 == [default_ro |-> None]
           n2 == [role |-> s.vars.user]
           n3 == [generic |-> 0]
           a == Assign(s, "default_transaction_read_only", n1, FALSE)
           b == Assign(a, "role", n2, FALSE)
           d == Assign(b, "generic", n3, FALSE)
           c == IF s.vars.generic # 0 THEN d ELSE b
           t == [c EXCEPT !.vars.custom = 0, !.txn.want.custom = IF s.txn.open THEN 0 ELSE @]
           F == Fields \ {"user"}
<1>1. /\ client.max_stack \in Nat /\ Good(s, client) /\ s.vars \in Vars
      /\ Len(s.txn.guc_stack) \in Nat /\ s.txn \in TxnRec(client)
      /\ s.txn.open \in BOOLEAN
    BY WorkloadType, Parts DEF Ready, TxnRec
<1>2. /\ {"default_ro"} \in SUBSET Covers("default_transaction_read_only")
      /\ {"role"} \in SUBSET Covers("role") /\ {"generic"} \in SUBSET Covers("generic")
      /\ {"default_transaction_read_only", "role", "generic"} \subseteq AllSettings
    BY DEF Covers, AllSettings
<1>3. /\ n1 \in [{"default_ro"} -> Flag] /\ n2 \in [{"role"} -> Flag]
      /\ n3 \in [{"generic"} -> Flag] /\ FALSE \in BOOLEAN
  <2>1. s.vars.user \in Flag /\ None \in Flag /\ 0 \in Flag
      BY <1>1 DEF Vars, Fields, Flag
  <2> QED  BY <2>1
<1>4. /\ {"default_ro"} \subseteq F /\ {"role"} \subseteq F /\ {"generic"} \subseteq F
      /\ {"custom"} \subseteq F
    BY DEF Fields
<1>5. ASSUME NEW q, NEW G \in SUBSET F, CommitsExact => NoLocal(q, F)
      PROVE  CommitsExact => NoLocal(q, G)
    BY <1>5 DEF NoLocal
<1>6. r = [s |-> t, err |-> "none"]
    BY DEF ResetAll, Ok
<1> HIDE DEF F, n1, n2, n3
<1>7. /\ Good(a, client) /\ StackStep(s, a) /\ a.vars = Over(n1, s.vars)
      /\ Len(a.txn.guc_stack) <= Len(s.txn.guc_stack) + 1
      /\ CommitsExact => NoLocal(a, F)
  <2>1. CommitsExact /\ ~FALSE => NoLocal(s, {"default_ro"})
      BY <1>4, <1>5 DEF F
  <2>2. s.txn.open => Len(s.txn.guc_stack) < client.max_stack
      BY <1>1
  <2>3. /\ Good(a, client) /\ StackStep(s, a) /\ a.vars = Over(n1, s.vars)
        /\ Len(a.txn.guc_stack) <= Len(s.txn.guc_stack) + 1
        /\ \A E : ~FALSE /\ NoLocal(s, E) => NoLocal(a, E)
      BY <1>1, <1>2, <1>3, <2>1, <2>2, AssignGood
  <2> HIDE DEF a
  <2> QED  BY <2>3 DEF F
<1> HIDE DEF a
<1>8. Len(a.txn.guc_stack) \in Nat
    BY <1>7, Parts
<1>9. /\ Good(b, client) /\ StackStep(a, b) /\ b.vars = Over(n2, a.vars)
      /\ Len(b.txn.guc_stack) <= Len(a.txn.guc_stack) + 1
      /\ CommitsExact => NoLocal(b, F)
  <2>1. CommitsExact /\ ~FALSE => NoLocal(a, {"role"})
      BY <1>4, <1>5, <1>7
  <2>2. a.txn.open => Len(a.txn.guc_stack) < client.max_stack
      BY <1>1, <1>7, <1>8
  <2>3. /\ Good(b, client) /\ StackStep(a, b) /\ b.vars = Over(n2, a.vars)
        /\ Len(b.txn.guc_stack) <= Len(a.txn.guc_stack) + 1
        /\ \A E : ~FALSE /\ NoLocal(a, E) => NoLocal(b, E)
      BY <1>1, <1>2, <1>3, <1>7, <2>1, <2>2, AssignGood
  <2> HIDE DEF b
  <2> QED  BY <1>7, <2>3
<1> HIDE DEF b
<1>10. Len(b.txn.guc_stack) \in Nat
    BY <1>9, Parts
<1>11. /\ Good(d, client) /\ StackStep(b, d) /\ d.vars = Over(n3, b.vars)
       /\ CommitsExact => NoLocal(d, F)
  <2>1. CommitsExact /\ ~FALSE => NoLocal(b, {"generic"})
      BY <1>4, <1>5, <1>9
  <2>2. b.txn.open => Len(b.txn.guc_stack) < client.max_stack
    <3> DEFINE x == Len(s.txn.guc_stack)
               y == Len(a.txn.guc_stack)
               z == Len(b.txn.guc_stack)
               mx == client.max_stack
    <3>1. x \in Nat /\ y \in Nat /\ z \in Nat /\ mx \in Nat
        BY <1>1, <1>8, <1>10
    <3>2. x + 3 <= mx /\ y <= x + 1 /\ z <= y + 1
        BY <1>7, <1>9
    <3> HIDE DEF x, y, z, mx
    <3>3. z < mx
        BY <3>1, <3>2
    <3> QED  BY <3>3 DEF z, mx
  <2>3. /\ Good(d, client) /\ StackStep(b, d) /\ d.vars = Over(n3, b.vars)
        /\ \A E : ~FALSE /\ NoLocal(b, E) => NoLocal(d, E)
    <3> DEFINE name == "generic"
               N == {"generic"}
    <3>1. /\ name \in AllSettings /\ N \in SUBSET Covers(name) /\ n3 \in [N -> Flag]
          /\ FALSE \in BOOLEAN /\ Good(b, client) /\ client.max_stack \in Nat
        BY <1>1, <1>2, <1>3, <1>9
    <3>2. CommitsExact /\ ~FALSE => NoLocal(b, N)
        BY <2>1
    <3>3. d = Assign(b, name, n3, FALSE)
        BY DEF d
    <3> HIDE DEF name, d, N
    <3> DEFINE q == Assign(b, name, n3, FALSE)
    <3>4. /\ Good(q, client) /\ StackStep(b, q) /\ q.vars = Over(n3, b.vars)
          /\ Len(q.txn.guc_stack) <= Len(b.txn.guc_stack) + 1
          /\ \A E : ~FALSE /\ NoLocal(b, E) => NoLocal(q, E)
        BY <2>2, <3>1, <3>2, AssignGood
    <3> HIDE DEF q
    <3> QED  BY <3>3, <3>4 DEF q
  <2> HIDE DEF d
  <2> QED  BY <1>9, <2>3
<1> HIDE DEF d
<1>12. Len(d.txn.guc_stack) \in Nat
    BY <1>11, Parts
<1>13. StackStep(s, b) /\ StackStep(s, d)
    BY <1>1, <1>7, <1>8, <1>9, <1>10, <1>11, <1>12, StackStepTrans
<1>14. /\ Good(c, client) /\ StackStep(s, c) /\ Len(c.txn.guc_stack) \in Nat
       /\ CommitsExact => NoLocal(c, F)
    BY <1>9, <1>10, <1>11, <1>12, <1>13
<1>15. c.vars.custom = s.vars.custom
  <2>1. ASSUME NEW v \in Vars, NEW g \in Flag
        PROVE  /\ Over(n1, v).custom = v.custom /\ Over(n1, v) \in Vars
               /\ Over(n2, v).custom = v.custom /\ Over(n2, v) \in Vars
               /\ Over(n3, v).custom = v.custom
    <3>1. DOMAIN n1 = {"default_ro"} /\ DOMAIN n2 = {"role"} /\ DOMAIN n3 = {"generic"}
          /\ n1["default_ro"] \in Flag /\ n2["role"] \in Flag
        BY <1>3
    <3>2. DOMAIN v = Fields /\ "custom" \in Fields
        BY DEF Vars, Fields
    <3>3. Over(n1, v).custom = v.custom /\ Over(n2, v).custom = v.custom /\ Over(n3, v).custom = v.custom
        BY <3>1, <3>2 DEF Over
    <3>4. Over(n1, v) \in Vars
        BY <3>1, <3>2 DEF Over, Vars
    <3>5. Over(n2, v) \in Vars
        BY <3>1, <3>2 DEF Over, Vars
    <3> QED  BY <3>3, <3>4, <3>5
  <2>2. a.vars.custom = s.vars.custom /\ a.vars \in Vars
      BY <1>1, <1>7, <2>1, DefaultsType
  <2>3. b.vars.custom = s.vars.custom /\ b.vars \in Vars
      BY <1>9, <2>1, <2>2, DefaultsType
  <2>4. d.vars.custom = s.vars.custom
      BY <1>11, <2>1, <2>3, DefaultsType
  <2> QED  BY <2>3, <2>4
<1> HIDE DEF c
<1>16. Good(t, client) /\ StackStep(c, t)
  <2>1. c.txn.open = s.txn.open
      BY <1>14 DEF StackStep
  <2>2. c.txn.open /\ "reset_custom" \notin Quirks => c.vars.custom = 0
      BY <1>15, <2>1
  <2>3. CommitsExact => NoLocal(c, {"custom"})
      BY <1>4, <1>5, <1>14
  <2> DEFINE o == s.txn.open
  <2>4. o \in BOOLEAN /\ (o <=> c.txn.open)
      BY <1>1, <2>1
  <2>5. t = [c EXCEPT !.vars.custom = 0, !.txn.want.custom = IF o THEN 0 ELSE @]
      OBVIOUS
  <2> HIDE DEF o
  <2> QED  BY <1>1, <1>14, <2>2, <2>3, <2>4, <2>5, CustomGood
<1> HIDE DEF t
<1>17. Len(t.txn.guc_stack) \in Nat
    BY <1>16, Parts
<1>18. StackStep(s, t)
    BY <1>1, <1>14, <1>16, <1>17, StackStepTrans
<1> QED
    BY <1>6, <1>16, <1>18, StackRel

-----------------------------------------------------------------------------
(* Savepoints.                                                              *)

\* What SettingsUndo says of the marks.
AbortMarks(s) ==
    \A i \in 1..Len(s.txn.saves) :
        Undoes(s.txn.saves[i].vars, s.txn.guc_stack, 0, s.txn.saves[i].guc, FALSE, s.txn.before)
CommitMarks(s) ==
    \A i \in 1..Len(s.txn.saves) :
        Undoes(s.txn.saves[i].vars, s.txn.guc_stack, 0, s.txn.saves[i].guc, TRUE,
               s.txn.saves[i].want)
MarksMarks(s) ==
    \A i \in 1..Len(s.txn.saves) : \A k \in 1..i - 1 :
        Undoes(WithTxn(s.txn.saves[i].vars, s.txn.saves[i].ro), s.txn.guc_stack,
               s.txn.saves[k].guc, s.txn.saves[i].guc, FALSE,
               WithTxn(s.txn.saves[k].vars, s.txn.saves[k].ro))

LEMMA SplitMoments ==
    ASSUME NEW s, Len(s.txn.saves) \in Nat, DOMAIN s.txn.saves = 1..Len(s.txn.saves)
    PROVE  /\ AbortUndoes(s) <=> AbortNow(s) /\ AbortMarks(s)
           /\ CommitUndoes(s) <=> CommitNow(s) /\ CommitMarks(s)
           /\ MarkUndoes(s) <=> MarksNow(s) /\ MarksMarks(s)
<1> DEFINE n == Len(s.txn.saves)
<1>1. /\ At(s, n + 1).vars = s.vars /\ At(s, n + 1).guc = Len(s.txn.guc_stack)
      /\ At(s, n + 1).want = s.txn.want /\ At(s, n + 1).ro = s.txn.read_only
    BY DEF At
<1>2. \A i \in 1..n : At(s, i) = s.txn.saves[i]
    BY DEF At
<1>3. Moments(s) = 1..n + 1 /\ n + 1 \in 1..n + 1 /\ (n + 1) - 1 = n
    BY DEF Moments
<1>4. \A i \in 1..n + 1 : i = n + 1 \/ i \in 1..n
    OBVIOUS
<1>5. \A i \in 1..n : i \in 1..n + 1
    OBVIOUS
<1> HIDE DEF n
<1>6. AbortUndoes(s) <=> AbortNow(s) /\ AbortMarks(s)
    BY <1>1, <1>2, <1>3, <1>4, <1>5 DEF AbortUndoes, AbortNow, AbortMarks, n
<1>7. CommitUndoes(s) <=> CommitNow(s) /\ CommitMarks(s)
    BY <1>1, <1>2, <1>3, <1>4, <1>5 DEF CommitUndoes, CommitNow, CommitMarks, n
<1>8. MarkUndoes(s) => MarksNow(s) /\ MarksMarks(s)
    BY <1>1, <1>2, <1>3, <1>4, <1>5 DEF MarkUndoes, MarksNow, MarksMarks, n
<1>9. MarksNow(s) /\ MarksMarks(s) => MarkUndoes(s)
    BY <1>1, <1>2, <1>3, <1>4, <1>5 DEF MarkUndoes, MarksNow, MarksMarks, n
<1> QED
    BY <1>6, <1>7, <1>8, <1>9

LEMMA SettingsParts ==
    ASSUME NEW w, NEW s, Good(s, w), s.txn.open
    PROVE  /\ "reset_custom" \notin Quirks =>
                AbortNow(s) /\ AbortMarks(s) /\ MarksNow(s) /\ MarksMarks(s)
           /\ CommitsExact => CommitNow(s) /\ CommitMarks(s)
    BY Parts, SplitMoments DEF Good, SettingsUndo

LEMMA SettingsWhole ==
    ASSUME NEW w, NEW t \in SessionRec(w),
           "reset_custom" \notin Quirks =>
                AbortNow(t) /\ AbortMarks(t) /\ MarksNow(t) /\ MarksMarks(t),
           CommitsExact => CommitNow(t) /\ CommitMarks(t)
    PROVE  SettingsUndo(t)
<1>1. t.txn.saves \in Seq(Mark(w))
    BY DEF SessionRec, TxnRec
<1>2. Len(t.txn.saves) \in Nat /\ DOMAIN t.txn.saves = 1..Len(t.txn.saves)
    BY <1>1, LenProperties
<1> QED
    BY <1>2, SplitMoments DEF SettingsUndo

\* A mark's position and values.
LEMMA MarkType ==
    ASSUME NEW w, NEW s, Good(s, w), NEW i \in 1..Len(s.txn.saves)
    PROVE  /\ s.txn.open /\ ~s.txn.implicit
           /\ s.txn.saves[i] \in Mark(w) /\ i \in DOMAIN s.txn.saves
           /\ s.txn.saves[i].guc \in Nat /\ s.txn.saves[i].guc <= Len(s.txn.guc_stack)
           /\ s.txn.saves[i].writes \in Nat /\ s.txn.saves[i].writes <= s.txn.writes
           /\ s.txn.saves[i].vars \in Vars /\ s.txn.saves[i].want \in Vars
           /\ s.txn.saves[i].ro \in Flag
           /\ s.txn.saves[i].errs \subseteq ErrClasses /\ "exec" \notin s.txn.saves[i].errs
           /\ \A j \in 1..i : /\ s.txn.saves[j].guc <= s.txn.saves[i].guc
                              /\ s.txn.saves[j].writes <= s.txn.saves[i].writes
<1>1. s.txn.saves[i] \in Mark(w) /\ i \in DOMAIN s.txn.saves
    BY Parts
<1>2. s.txn.saves # <<>>
    BY <1>1
<1>3. s.txn.open /\ ~s.txn.implicit
    BY <1>2 DEF Good, Core, Nested
<1>4. /\ s.txn.saves[i].guc <= Len(s.txn.guc_stack)
      /\ s.txn.saves[i].writes <= s.txn.writes
      /\ \A j \in 1..i : /\ s.txn.saves[j].guc <= s.txn.saves[i].guc
                         /\ s.txn.saves[j].writes <= s.txn.saves[i].writes
    BY <1>1 DEF Good, Core, Nested
<1>5. "exec" \notin s.txn.saves[i].errs
    BY <1>1 DEF Good, Core, ErrorsFail
<1> QED
    BY <1>1, <1>3, <1>4, <1>5 DEF Mark

\* The index of a savepoint is one of the list.
LEMMA SaveIndexType ==
    ASSUME NEW s, NEW name, Len(s.txn.saves) \in Nat, SaveIndex(s, name) # 0
    PROVE  SaveIndex(s, name) \in 1..Len(s.txn.saves)
<1> DEFINE n == Len(s.txn.saves)
           I == {i \in 1..n : s.txn.saves[i].name = name}
<1>1. SaveIndex(s, name) = IF I # {} THEN Max(I) ELSE 0
    BY DEF SaveIndex, SelectLastInSeq
<1>2. I # {} /\ SaveIndex(s, name) = Max(I)
    BY <1>1
<1> DEFINE T == {k \in Nat : \E i \in I : k = n - i}
<1>3. T \subseteq Nat /\ T # {}
  <2>1. PICK i \in I : TRUE
      BY <1>2
  <2>2. n - i \in Nat
      BY <2>1
  <2> QED  BY <2>2
<1>4. PICK x \in T : \A y \in T : x <= y
    <2> HIDE DEF T
    <2> QED  BY <1>3, Least
<1>5. PICK m \in I : x = n - m
    BY <1>4
<1>6. \A i \in I : m >= i
  <2> SUFFICES ASSUME NEW i \in I PROVE m >= i
      OBVIOUS
  <2>1. n - i \in T
    <3>1. n - i \in Nat /\ \E j \in I : n - i = n - j
        OBVIOUS
    <3> QED  BY <3>1
  <2>2. n - m <= n - i
      BY <1>4, <1>5, <2>1
  <2> QED  BY <2>2
<1>7. Max(I) \in I
    BY <1>5, <1>6 DEF Max
<1> QED
    BY <1>2, <1>7

\* SAVEPOINT makes the present a mark.
LEMMA SavepointStmt ==
    ASSUME NEW s, Ready(s), NEW name \in client.saves, ~s.txn.failed,
           Len(s.txn.saves) < MaxSaves
    PROVE  LET r == txn_savepoint(s, name) IN Good(r.s, client) /\ StmtRel(s, r)
<1> DEFINE r == txn_savepoint(s, name)
           w == client
<1>1. /\ Good(s, w) /\ s.ended = "no" /\ s \in SessionRec(w) /\ s.txn \in TxnRec(w)
      /\ w.max_stack \in Nat /\ s.txn.read_only \in Flag /\ s.vars \in Vars
      /\ s.txn.guc_stack \in Seq(Entry) /\ Len(s.txn.guc_stack) \in Nat
      /\ s.txn.saves \in Seq(Mark(w)) /\ Len(s.txn.saves) \in Nat
      /\ s.txn.want \in Vars /\ s.txn.writes \in Nat /\ s.txn.errs \subseteq ErrClasses
      /\ s.cursors \in [CursorNames -> Cursor]
    BY Parts, WorkloadType, SessionAssumption DEF Ready, TxnRec
<1>2. CASE ~s.txn.open \/ s.txn.implicit
  <2>1. r = [s |-> s, err |-> "utility"]
      BY <1>2 DEF txn_savepoint, Fail
  <2> HIDE DEF r
  <2>2. Good(s, client) /\ StmtRel(s, [s |-> s, err |-> "utility"])
      BY <1>1, SameRel
  <2> QED  BY <2>1, <2>2 DEF r
<1>3. CASE s.txn.open /\ ~s.txn.implicit
  <2> DEFINE m == [name |-> name, writes |-> s.txn.writes, guc |-> Len(s.txn.guc_stack),
                   ro |-> s.txn.read_only,
                   cursors |-> {c \in CursorNames : s.cursors[c].st # "none"},
                   vars |-> s.vars, want |-> s.txn.want, errs |-> s.txn.errs]
             n == Len(s.txn.saves)
             saves == Append(s.txn.saves, m)
             x == [s.txn EXCEPT !.saves = saves]
             t == [s EXCEPT !.txn = x]
  <2>1. r = [s |-> t, err |-> "none"]
      BY <1>1, <1>3 DEF txn_savepoint, Ok, SessionRec, TxnRec
  <2>2. /\ m \in Mark(w) /\ m.writes = s.txn.writes /\ m.guc = Len(s.txn.guc_stack)
        /\ m.ro = s.txn.read_only /\ m.vars = s.vars /\ m.want = s.txn.want
        /\ m.errs = s.txn.errs
        /\ m.cursors = {c \in CursorNames : s.cursors[c].st # "none"}
      BY <1>1 DEF Mark
  <2> HIDE DEF m
  <2>3. /\ saves \in Seq(Mark(w)) /\ Len(saves) = n + 1 /\ saves[n + 1] = m
        /\ \A i \in 1..n : saves[i] = s.txn.saves[i]
        /\ DOMAIN saves = 1..n + 1
      BY <1>1, <2>2, AppendProperties, LenProperties
  <2> HIDE DEF saves
  <2>4. /\ x \in TxnRec(w) /\ x.guc_stack = s.txn.guc_stack /\ x.saves = saves
        /\ x.read_only = s.txn.read_only /\ x.want = s.txn.want /\ x.before = s.txn.before
        /\ x.writes = s.txn.writes /\ x.errs = s.txn.errs
      BY <1>1, <2>3 DEF TxnRec
  <2>5. x.open = s.txn.open /\ x.implicit = s.txn.implicit /\ x.failed = s.txn.failed
      BY <1>1 DEF TxnRec
  <2> HIDE DEF x
  <2>6. /\ t \in SessionRec(w) /\ t.txn = x /\ t.vars = s.vars /\ t.cursors = s.cursors
        /\ t.ended = s.ended /\ t.next_ro = s.next_ro
      BY <1>1, <2>4 DEF SessionRec
  <2> HIDE DEF t
  <2>7. \A i \in 1..n : i \in DOMAIN s.txn.saves
      BY <1>1, Parts
  <2>8. \A i \in 1..n + 1 : i = n + 1 \/ i \in 1..n
      BY <1>1
  <2>9. Bounded(t, w)
    <3>1. t.txn.open
        BY <1>3, <2>5, <2>6
    <3>2. Len(t.txn.guc_stack) <= w.max_stack
        BY <1>1, <2>4, <2>6 DEF Good, Core, Bounded
    <3>3. n + 1 <= MaxSaves
        BY <1>1, SessionAssumption
    <3>4. Len(t.txn.saves) <= MaxSaves
        BY <2>3, <2>4, <2>6, <3>3
    <3> QED  BY <3>1, <3>2, <3>4 DEF Bounded
  <2>10. AtBoundary(t)
      BY <1>1, <2>5, <2>6 DEF Good, Core, AtBoundary
  <2>11. Nested(t)
    <3>1. t.txn.open /\ ~t.txn.implicit
        BY <1>3, <2>5, <2>6
    <3>2. ASSUME NEW i \in 1..n
          PROVE  /\ s.txn.saves[i].guc <= Len(s.txn.guc_stack)
                 /\ s.txn.saves[i].writes <= s.txn.writes
                 /\ \A j \in 1..i : /\ s.txn.saves[j].guc <= s.txn.saves[i].guc
                                    /\ s.txn.saves[j].writes <= s.txn.saves[i].writes
        BY <1>1, MarkType
    <3>3. ASSUME NEW i \in 1..n
          PROVE  /\ saves[i].guc <= Len(s.txn.guc_stack) /\ saves[i].writes <= s.txn.writes
                 /\ \A j \in 1..i : saves[j].guc <= saves[i].guc /\ saves[j].writes <= saves[i].writes
      <4>1. \A j \in 1..i : j \in 1..n
          BY <1>1
      <4> QED  BY <2>3, <3>2, <4>1
    <3>4. /\ saves[n + 1].guc <= Len(s.txn.guc_stack) /\ saves[n + 1].writes <= s.txn.writes
          /\ \A j \in 1..n + 1 : /\ saves[j].guc <= saves[n + 1].guc
                                 /\ saves[j].writes <= saves[n + 1].writes
        BY <1>1, <2>2, <2>3, <2>8, <3>3
    <3>5. \A i \in DOMAIN saves :
            /\ saves[i].guc <= Len(s.txn.guc_stack) /\ saves[i].writes <= s.txn.writes
            /\ \A j \in 1..i : saves[j].guc <= saves[i].guc /\ saves[j].writes <= saves[i].writes
        BY <2>3, <2>8, <3>3, <3>4
    <3> QED  BY <2>4, <2>6, <3>1, <3>5 DEF Nested
  <2>12. ErrorsFail(t)
    <3>1. "exec" \notin s.txn.errs
        BY <1>1 DEF Good, Core, ErrorsFail
    <3>2. \A i \in DOMAIN saves : "exec" \notin saves[i].errs
        BY <1>1, <2>2, <2>3, <2>7, <2>8, <3>1 DEF Good, Core, ErrorsFail
    <3> QED  BY <1>3, <2>4, <2>5, <2>6, <3>1, <3>2 DEF ErrorsFail
  <2>13. CursorsMarked(t)
    <3>1. ASSUME NEW c \in CursorNames, "redeclare" \notin Quirks
          PROVE  /\ t.cursors[c].depth <= n + 1
                 /\ \A i \in 1..n + 1 :
                        c \in saves[i].cursors <=> t.cursors[c].st # "none" /\ t.cursors[c].depth < i
      <4>1. /\ s.cursors[c].depth <= n /\ s.cursors[c].depth \in 0..MaxSaves
            /\ \A i \in 1..n : c \in s.txn.saves[i].cursors
                                <=> s.cursors[c].st # "none" /\ s.cursors[c].depth < i
          BY <1>1, <2>7, <3>1 DEF Good, Core, CursorsMarked, Cursor
      <4>2. s.cursors[c].depth < n + 1 /\ s.cursors[c].depth <= n + 1
          BY <1>1, <4>1, SessionAssumption
      <4>3. c \in saves[n + 1].cursors <=> s.cursors[c].st # "none"
          BY <2>2, <2>3
      <4> QED  BY <2>3, <2>6, <2>8, <4>1, <4>2, <4>3
    <3> QED  BY <1>1, <2>3, <2>4, <2>6, <3>1, SMTT(30) DEF Good, Core, CursorsMarked
  <2>14. /\ "reset_custom" \notin Quirks =>
                AbortNow(s) /\ AbortMarks(s) /\ MarksNow(s) /\ MarksMarks(s)
         /\ CommitsExact => CommitNow(s) /\ CommitMarks(s)
      BY <1>1, <1>3, SettingsParts
  <2>15. "reset_custom" \notin Quirks => AbortNow(t) /\ AbortMarks(t)
      BY <1>1, <2>2, <2>3, <2>4, <2>6, <2>8, <2>14 DEF AbortNow, AbortMarks
  <2>16. CommitsExact => CommitNow(t) /\ CommitMarks(t)
      BY <1>1, <2>2, <2>3, <2>4, <2>6, <2>8, <2>14 DEF CommitNow, CommitMarks
  <2> DEFINE stack == s.txn.guc_stack
             v == WithTxn(s.vars, s.txn.read_only)
  <2>17. "reset_custom" \notin Quirks => MarksNow(t)
    <3> SUFFICES ASSUME "reset_custom" \notin Quirks, NEW k \in 1..n + 1
                 PROVE  Undoes(v, stack, saves[k].guc, Len(stack), FALSE,
                               WithTxn(saves[k].vars, saves[k].ro))
        BY <2>3, <2>4, <2>6 DEF MarksNow
    <3>1. CASE k = n + 1
      <4>1. Undoes(v, stack, Len(stack), Len(stack), FALSE, v)
          BY <1>1, UndoesNothing
      <4> QED  BY <2>2, <2>3, <3>1, <4>1
    <3>2. CASE k \in 1..n
        BY <2>3, <2>14, <3>2 DEF MarksNow
    <3> QED  BY <2>8, <3>1, <3>2
  <2>18. "reset_custom" \notin Quirks => MarksMarks(t)
    <3> SUFFICES ASSUME "reset_custom" \notin Quirks, NEW i \in 1..n + 1, NEW k \in 1..i - 1
                 PROVE  Undoes(WithTxn(saves[i].vars, saves[i].ro), stack, saves[k].guc,
                               saves[i].guc, FALSE, WithTxn(saves[k].vars, saves[k].ro))
        BY <2>3, <2>4, <2>6 DEF MarksMarks
    <3>0. k \in 1..n
        BY <1>1
    <3>1. CASE i = n + 1
      <4>1. Undoes(v, stack, s.txn.saves[k].guc, Len(stack), FALSE,
                   WithTxn(s.txn.saves[k].vars, s.txn.saves[k].ro))
          BY <2>14, <3>0 DEF MarksNow
      <4> QED  BY <2>2, <2>3, <3>0, <3>1, <4>1
    <3>2. CASE i \in 1..n
      <4>1. Undoes(WithTxn(s.txn.saves[i].vars, s.txn.saves[i].ro), stack,
                   s.txn.saves[k].guc, s.txn.saves[i].guc, FALSE,
                   WithTxn(s.txn.saves[k].vars, s.txn.saves[k].ro))
          BY <2>14, <3>2 DEF MarksMarks
      <4> QED  BY <2>3, <3>0, <3>2, <4>1
    <3> QED  BY <2>8, <3>1, <3>2
  <2>19. SettingsUndo(t)
      BY <2>6, <2>15, <2>16, <2>17, <2>18, SettingsWhole
  <2>20. Good(t, w)
      BY <2>6, <2>9, <2>10, <2>11, <2>12, <2>13, <2>19 DEF Good, Core
  <2>21. StmtRel(s, [s |-> t, err |-> "none"])
    <3>1. t.ended = "no" /\ t.txn.implicit = s.txn.implicit /\ t.txn.before = s.txn.before
          /\ (s.txn.failed => t.txn.failed)
        BY <1>1, <2>4, <2>5, <2>6
    <3> QED  BY <1>1, <3>1, QuietRel
  <2> HIDE DEF r
  <2> QED  BY <2>1, <2>20, <2>21 DEF r
<1> QED
    BY <1>2, <1>3

LEMMA Prefix ==
    ASSUME NEW S, NEW seq \in Seq(S), NEW k \in 0..Len(seq)
    PROVE  LET p == SubSeq(seq, 1, k) IN
           p \in Seq(S) /\ Len(p) = k /\ DOMAIN p = 1..k /\ \A i \in 1..k : p[i] = seq[i]
<1> DEFINE p == SubSeq(seq, 1, k)
<1>1. Len(seq) \in Nat
    BY LenProperties
<1>2. p \in Seq(S) /\ Len(p) = k /\ \A i \in 1..k : p[i] = seq[1 + i - 1]
    BY <1>1, SubSeqProperties
<1>3. DOMAIN p = 1..k
    BY <1>2, LenProperties
<1>4. \A i \in 1..k : 1 + i - 1 = i
    BY <1>1
<1> HIDE DEF p
<1> QED
    BY <1>2, <1>3, <1>4 DEF p

\* Other values of the fields that are not undone, or of those set to the goal.
LEMMA UndoesOther ==
    ASSUME NEW D, NEW goal \in [D -> Flag], NEW v, NEW v2, NEW stack, NEW lo \in Nat, NEW hi \in Nat,
           NEW commit, Undoes(v, stack, lo, hi, commit, goal),
           \A f \in D : v2[f] = v[f] \/ v2[f] = goal[f]
    PROVE  Undoes(v2, stack, lo, hi, commit, goal)
    BY DEF Undoes

\* ROLLBACK TO takes the settings and the mode of the mark.
LEMMA RewoundSettings ==
    ASSUME NEW w, NEW s, Good(s, w), NEW i \in 1..Len(s.txn.saves)
    PROVE  LET m == s.txn.saves[i]
               undone == SubSeq(s.txn.guc_stack, m.guc + 1, Len(s.txn.guc_stack))
               all == Restored(WithTxn(s.vars, m.ro), undone, FALSE) IN
           /\ Restrict(all, Fields) \in Vars /\ all["txn_ro"] \in Flag
           /\ "reset_custom" \notin Quirks => Restrict(all, Fields) = m.vars /\ all["txn_ro"] = m.ro
<1> DEFINE m == s.txn.saves[i]
           old == s.txn.guc_stack
           undone == SubSeq(old, m.guc + 1, Len(old))
           v == WithTxn(s.vars, s.txn.read_only)
           v2 == WithTxn(s.vars, m.ro)
           goal == WithTxn(m.vars, m.ro)
           all == Restored(v2, undone, FALSE)
<1>1. /\ old \in Seq(Entry) /\ Len(old) \in Nat /\ s.vars \in Vars /\ s.txn.read_only \in Flag
      /\ m.guc \in Nat /\ m.guc <= Len(old) /\ m.vars \in Vars /\ m.ro \in Flag
      /\ s.txn.open
    BY Parts, MarkType
<1>2. /\ v \in [CharFields -> Flag] /\ v2 \in [CharFields -> Flag] /\ goal \in [CharFields -> Flag]
    BY <1>1, WithTxnType
<1>3. undone \in Seq(Entry)
    BY <1>1, SubSeqProperties
<1> DEFINE mv == m.vars
           mro == m.ro
           mg == m.guc
<1>4. \A f \in CharFields : v2[f] = v[f] \/ v2[f] = goal[f]
  <2>1. v2["txn_ro"] = mro /\ goal["txn_ro"] = mro
      BY <1>1, WithTxnType
  <2>2. \A f \in Fields : v2[f] = s.vars[f] /\ v[f] = s.vars[f]
      BY <1>1, WithTxnType
  <2> QED  BY <2>1, <2>2 DEF CharFields
<1>5. goal["txn_ro"] = m.ro /\ Restrict(goal, Fields) = m.vars
  <2>1. goal["txn_ro"] = mro /\ \A f \in Fields : goal[f] = mv[f]
      BY <1>1, WithTxnType
  <2>2. mv \in [Fields -> Flag]
      BY <1>1 DEF Vars
  <2> HIDE DEF goal, mv
  <2>3. Restrict(goal, Fields) = [f \in Fields |-> goal[f]]
      BY DEF Restrict
  <2>4. Restrict(goal, Fields) = mv
      BY <2>1, <2>2, <2>3
  <2> QED  BY <2>1, <2>4 DEF mv
<1> HIDE DEF v, v2, goal, undone, old
<1>6. all \in [CharFields -> Flag]
    BY <1>2, <1>3, RestoredGoal
<1>7. ASSUME "reset_custom" \notin Quirks PROVE all = goal
  <2>1. Undoes(v, old, mg, Len(old), FALSE, goal)
      BY <1>1, <1>7, SettingsParts DEF MarksNow, v, goal, old
  <2>2. Undoes(v2, old, mg, Len(old), FALSE, goal)
      BY <1>1, <1>2, <1>4, <2>1, UndoesOther
  <2>3. Undoes(v2, undone, 0, Len(undone), FALSE, goal)
      BY <1>1, <2>2, UndoesSub DEF undone
  <2>4. \A commit \in BOOLEAN :
            Undoes(v2, undone, 0, Len(undone), commit, goal) => Restored(v2, undone, commit) = goal
      BY <1>2, <1>3, RestoredGoal
  <2> QED  BY <2>3, <2>4
<1> HIDE DEF all
<1>8. Restrict(all, Fields) \in Vars /\ all["txn_ro"] \in Flag
    BY <1>6 DEF Restrict, CharFields, Vars
<1> QED
    BY <1>5, <1>7, <1>8 DEF all, v2, undone, old

\* ROLLBACK TO makes the mark the present.
LEMMA RollbackToStmt ==
    ASSUME NEW s, Ready(s), NEW name
    PROVE  LET r == txn_rollback_to(s, name) IN Good(r.s, client) /\ StmtRel(s, r)
<1> DEFINE r == txn_rollback_to(s, name)
           w == client
           i == SaveIndex(s, name)
<1>1. /\ Good(s, w) /\ s.ended = "no" /\ s \in SessionRec(w) /\ s.txn \in TxnRec(w)
      /\ w.max_stack \in Nat /\ s.vars \in Vars
      /\ s.txn.guc_stack \in Seq(Entry) /\ Len(s.txn.guc_stack) \in Nat
      /\ s.txn.saves \in Seq(Mark(w)) /\ Len(s.txn.saves) \in Nat
      /\ s.txn.before \in Vars /\ s.txn.writes \in Nat /\ s.txn.writes <= MaxWrites
      /\ s.cursors \in [CursorNames -> Cursor] /\ MaxWrites \in Nat
    BY Parts, WorkloadType, SessionAssumption DEF Ready, TxnRec
<1>2. CASE NoSave(s, name)
  <2>1. r = [s |-> s, err |-> "utility"]
      BY <1>2 DEF txn_rollback_to, Fail
  <2> HIDE DEF r
  <2>2. Good(s, client) /\ StmtRel(s, [s |-> s, err |-> "utility"])
      BY <1>1, SameRel
  <2> QED  BY <2>1, <2>2 DEF r
<1>3. CASE ~NoSave(s, name)
  <2> DEFINE m == s.txn.saves[i]
             old == s.txn.guc_stack
             undone == SubSeq(old, m.guc + 1, Len(old))
             all == Restored(WithTxn(s.vars, m.ro), undone, FALSE)
             vrs == Restrict(all, Fields)
             ro == all["txn_ro"]
             cur == [c \in CursorNames |-> IF c \in m.cursors THEN s.cursors[c] ELSE NoCursor]
             stack == SubSeq(old, 1, m.guc)
             saves == SubSeq(s.txn.saves, 1, i)
             x == [s.txn EXCEPT !.writes = m.writes, !.failed = FALSE, !.read_only = ro,
                                !.guc_stack = stack, !.saves = saves,
                                !.want = m.want, !.errs = m.errs]
             t == [s EXCEPT !.vars = vrs, !.cursors = cur, !.txn = x, !.ended = "rewind"]
  <2>1. i \in 1..Len(s.txn.saves) /\ i \in Nat \ {0}
      BY <1>1, <1>3, SaveIndexType DEF NoSave
  <2>2. r = [s |-> t, err |-> "none"]
    <3> HIDE DEF i
    <3> DEFINE y == [s.txn EXCEPT !.writes = m.writes,
                                  !.failed = FALSE,
                                  !.read_only = ro,
                                  !.guc_stack = SubSeq(@, 1, m.guc),
                                  !.saves = SubSeq(@, 1, i),
                                  !.want = m.want,
                                  !.errs = m.errs]
    <3>1. r = Ok([s EXCEPT !.vars = vrs, !.cursors = cur, !.txn = y, !.ended = "rewind"])
        BY <1>3 DEF txn_rollback_to, i
    <3> HIDE DEF m, vrs, ro, cur
    <3>2. y = x
        BY <1>1 DEF TxnRec
    <3> HIDE DEF x, y
    <3> QED  BY <3>1, <3>2 DEF Ok
  <2>3. /\ s.txn.open /\ ~s.txn.implicit /\ m \in Mark(w)
        /\ m.guc \in Nat /\ m.guc <= Len(old) /\ m.writes \in Nat /\ m.writes <= s.txn.writes
        /\ m.vars \in Vars /\ m.want \in Vars /\ m.ro \in Flag
        /\ m.errs \subseteq ErrClasses /\ "exec" \notin m.errs
        /\ \A j \in 1..i : s.txn.saves[j].guc <= m.guc /\ s.txn.saves[j].writes <= m.writes
      BY <1>1, <2>1, MarkType
  <2>4. /\ vrs \in Vars /\ ro \in Flag
        /\ "reset_custom" \notin Quirks => vrs = m.vars /\ ro = m.ro
    <3> HIDE DEF i
    <3> QED  BY <1>1, <2>1, RewoundSettings
  <2>5. /\ stack \in Seq(Entry) /\ Len(stack) = m.guc
        /\ \A j \in 1..m.guc : stack[j] = old[j]
    <3>1. m.guc \in 0..Len(old)
        BY <1>1, <2>3
    <3> QED  BY <1>1, <3>1, Prefix
  <2>6. /\ saves \in Seq(Mark(w)) /\ Len(saves) = i /\ DOMAIN saves = 1..i
        /\ \A j \in 1..i : saves[j] = s.txn.saves[j]
    <3>1. i \in 0..Len(s.txn.saves)
        BY <1>1, <2>1
    <3> QED  BY <1>1, <3>1, Prefix
  <2>7. \A j \in 1..i : j \in 1..Len(s.txn.saves) /\ j \in DOMAIN s.txn.saves /\ j <= i
      BY <1>1, <2>1, Parts
  <2>8. \A c \in CursorNames : cur[c] = IF c \in m.cursors THEN s.cursors[c] ELSE NoCursor
      OBVIOUS
  <2>9. cur \in [CursorNames -> Cursor]
      BY <1>1, DefaultsType
  <2>10. i \in DOMAIN s.txn.saves /\ i \in 1..i /\ s.txn.saves[i] = m
      BY <2>1, <2>7
  <2> HIDE DEF vrs, ro, cur, stack, saves, m, i
  <2>11. m.writes \in 0..MaxWrites
      BY <1>1, <2>3
  <2>12. /\ x \in TxnRec(w) /\ x.guc_stack = stack /\ x.saves = saves /\ x.read_only = ro
         /\ x.want = m.want /\ x.before = s.txn.before /\ x.writes = m.writes
         /\ x.errs = m.errs
      BY <1>1, <2>3, <2>4, <2>5, <2>6, <2>11 DEF TxnRec
  <2>13. x.open = s.txn.open /\ x.implicit = s.txn.implicit
      BY <1>1 DEF TxnRec
  <2>14. ~x.failed
      BY <1>1 DEF TxnRec
  <2> HIDE DEF x
  <2>15. /\ t \in SessionRec(w) /\ t.txn = x /\ t.vars = vrs /\ t.cursors = cur
         /\ t.ended = "rewind" /\ t.next_ro = s.next_ro
      BY <1>1, <2>4, <2>9, <2>12 DEF SessionRec
  <2> HIDE DEF t
  <2>16. Bounded(t, w)
    <3>1. Len(t.txn.guc_stack) <= w.max_stack
        BY <1>1, <2>3, <2>5, <2>12, <2>15 DEF Good, Core, Bounded
    <3>2. Len(t.txn.saves) <= MaxSaves
        BY <1>1, <2>1, <2>6, <2>12, <2>15, SessionAssumption DEF Good, Core, Bounded
    <3> QED  BY <2>3, <2>13, <2>15, <3>1, <3>2 DEF Bounded
  <2>17. Nested(t)
    <3>1. t.txn.open /\ ~t.txn.implicit
        BY <2>3, <2>13, <2>15
    <3>2. \A j \in 1..i : saves[j].guc <= m.guc /\ saves[j].writes <= m.writes
        BY <2>3, <2>6
    <3>3. ASSUME NEW j \in 1..i, NEW k \in 1..j
          PROVE  saves[k].guc <= saves[j].guc /\ saves[k].writes <= saves[j].writes
      <4>1. k \in 1..i
          BY <2>1
      <4>2. s.txn.saves[k].guc <= s.txn.saves[j].guc /\ s.txn.saves[k].writes <= s.txn.saves[j].writes
          BY <1>1, <2>7, MarkType
      <4> QED  BY <2>6, <4>1, <4>2
    <3> QED  BY <2>5, <2>6, <2>12, <2>15, <3>1, <3>2, <3>3 DEF Nested
  <2>18. AtBoundary(t)
      BY <1>1, <2>3, <2>13, <2>15 DEF Good, Core, AtBoundary
  <2>19. ErrorsFail(t)
    <3>1. \A j \in DOMAIN saves : "exec" \notin saves[j].errs
        BY <1>1, <2>6, <2>7 DEF Good, Core, ErrorsFail
    <3> QED  BY <2>3, <2>12, <2>13, <2>15, <3>1 DEF ErrorsFail
  <2>20. ASSUME NEW c \in CursorNames, "redeclare" \notin Quirks
         PROVE  /\ s.cursors[c].st = "none" => s.cursors[c] = NoCursor
                /\ s.cursors[c].depth \in 0..MaxSaves
                /\ \A j \in 1..i : c \in saves[j].cursors
                        <=> s.cursors[c].st # "none" /\ s.cursors[c].depth < j
                /\ c \in m.cursors <=> s.cursors[c].st # "none" /\ s.cursors[c].depth < i
    <3>1. s.cursors[c] \in Cursor
        BY <1>1
    <3> QED  BY <1>1, <2>6, <2>7, <2>10, <2>20, <3>1 DEF Good, Core, CursorsMarked, Cursor
  <2>21. CursorsMarked(t)
    <3>1. ASSUME NEW c \in CursorNames PROVE cur[c].st = "none" => cur[c] = NoCursor
        BY <1>1, <2>8 DEF Good, Core, CursorsMarked
    <3>2. ASSUME NEW c \in CursorNames, "redeclare" \notin Quirks
          PROVE  /\ cur[c].depth <= i
                 /\ \A j \in 1..i : c \in saves[j].cursors
                        <=> cur[c].st # "none" /\ cur[c].depth < j
      <4>1. CASE c \in m.cursors
        <5>1. cur[c] = s.cursors[c]
            BY <2>8, <4>1
        <5> QED  BY <2>1, <2>20, <3>2, <4>1, <5>1, SessionAssumption
      <4>2. CASE c \notin m.cursors
        <5>1. cur[c].st = "none" /\ cur[c].depth = 0
            BY <2>8, <4>2 DEF NoCursor
        <5>2. ASSUME NEW j \in 1..i PROVE c \notin saves[j].cursors
          <6>1. j <= i /\ j \in Nat
              OBVIOUS
          <6> QED  BY <2>1, <2>20, <3>2, <4>2, <6>1, SessionAssumption
        <5> QED  BY <2>1, <5>1, <5>2
      <4> QED  BY <4>1, <4>2
    <3> QED  BY <2>6, <2>12, <2>15, <3>1, <3>2 DEF CursorsMarked
  <2>22. /\ "reset_custom" \notin Quirks =>
                AbortNow(s) /\ AbortMarks(s) /\ MarksNow(s) /\ MarksMarks(s)
         /\ CommitsExact => CommitNow(s) /\ CommitMarks(s)
      BY <1>1, <2>3, SettingsParts
  <2>23. ASSUME NEW lo \in Nat, NEW j \in 1..i, NEW v, NEW commit, NEW goal,
                Undoes(v, old, lo, s.txn.saves[j].guc, commit, goal)
         PROVE  Undoes(v, stack, lo, saves[j].guc, commit, goal)
    <3>1. saves[j].guc = s.txn.saves[j].guc /\ saves[j].guc <= m.guc /\ saves[j].guc \in Nat
        BY <1>1, <2>3, <2>6, <2>7, MarkType
    <3>2. \A h \in lo + 1..saves[j].guc : stack[h] = old[h]
        BY <2>3, <2>5, <3>1
    <3> QED  BY <2>23, <3>1, <3>2, UndoesSame
  <2>24. saves[i] = m
      BY <2>6, <2>10
  <2>25. "reset_custom" \notin Quirks => AbortMarks(t)
    <3> SUFFICES ASSUME "reset_custom" \notin Quirks, NEW j \in 1..i
                 PROVE  Undoes(saves[j].vars, stack, 0, saves[j].guc, FALSE, s.txn.before)
        BY <2>6, <2>12, <2>15 DEF AbortMarks
    <3>1. Undoes(s.txn.saves[j].vars, old, 0, s.txn.saves[j].guc, FALSE, s.txn.before)
        BY <2>7, <2>22 DEF AbortMarks
    <3>2. Undoes(s.txn.saves[j].vars, stack, 0, saves[j].guc, FALSE, s.txn.before)
        BY <2>23, <3>1
    <3> QED  BY <2>6, <3>2
  <2>26. CommitsExact => CommitMarks(t)
    <3> SUFFICES ASSUME CommitsExact, NEW j \in 1..i
                 PROVE  Undoes(saves[j].vars, stack, 0, saves[j].guc, TRUE, saves[j].want)
        BY <2>6, <2>12, <2>15 DEF CommitMarks
    <3>1. Undoes(s.txn.saves[j].vars, old, 0, s.txn.saves[j].guc, TRUE, s.txn.saves[j].want)
        BY <2>7, <2>22 DEF CommitMarks
    <3>2. Undoes(s.txn.saves[j].vars, stack, 0, saves[j].guc, TRUE, s.txn.saves[j].want)
        BY <2>23, <3>1
    <3> QED  BY <2>6, <3>2
  <2>27. "reset_custom" \notin Quirks => MarksMarks(t)
    <3> SUFFICES ASSUME "reset_custom" \notin Quirks, NEW j \in 1..i, NEW k \in 1..j - 1
                 PROVE  Undoes(WithTxn(saves[j].vars, saves[j].ro), stack, saves[k].guc,
                               saves[j].guc, FALSE, WithTxn(saves[k].vars, saves[k].ro))
        BY <2>6, <2>12, <2>15 DEF MarksMarks
    <3>0. k \in 1..i
        BY <2>1
    <3>1. Undoes(WithTxn(s.txn.saves[j].vars, s.txn.saves[j].ro), old, s.txn.saves[k].guc,
                 s.txn.saves[j].guc, FALSE, WithTxn(s.txn.saves[k].vars, s.txn.saves[k].ro))
        BY <2>7, <2>22 DEF MarksMarks
    <3>2. s.txn.saves[k].guc \in Nat
        BY <1>1, <2>7, <3>0, MarkType
    <3>3. Undoes(WithTxn(s.txn.saves[j].vars, s.txn.saves[j].ro), stack, s.txn.saves[k].guc,
                 saves[j].guc, FALSE, WithTxn(s.txn.saves[k].vars, s.txn.saves[k].ro))
        BY <2>23, <3>1, <3>2
    <3> QED  BY <2>6, <3>0, <3>3
  <2>28. "reset_custom" \notin Quirks => AbortNow(t)
    <3> SUFFICES ASSUME "reset_custom" \notin Quirks
                 PROVE  Undoes(m.vars, stack, 0, m.guc, FALSE, s.txn.before)
        BY <2>4, <2>5, <2>12, <2>15 DEF AbortNow
    <3>1. Undoes(t.txn.saves[i].vars, t.txn.guc_stack, 0, t.txn.saves[i].guc, FALSE, t.txn.before)
        BY <2>6, <2>10, <2>12, <2>15, <2>25 DEF AbortMarks
    <3> QED  BY <2>12, <2>15, <2>24, <3>1
  <2>29. CommitsExact => CommitNow(t)
    <3> SUFFICES ASSUME CommitsExact PROVE CommitNow(t)
        OBVIOUS
    <3>1. vrs = m.vars
        BY <2>4 DEF CommitsExact
    <3> QED  BY <2>5, <2>6, <2>10, <2>12, <2>15, <2>24, <2>26, <3>1, ZenonT(30) DEF CommitNow, CommitMarks
  <2>30. "reset_custom" \notin Quirks => MarksNow(t)
    <3> SUFFICES ASSUME "reset_custom" \notin Quirks, NEW k \in 1..i
                 PROVE  Undoes(WithTxn(m.vars, m.ro), stack, saves[k].guc, m.guc, FALSE,
                               WithTxn(saves[k].vars, saves[k].ro))
        BY <2>4, <2>5, <2>6, <2>12, <2>15 DEF MarksNow
    <3>1. CASE k = i
      <4>1. Undoes(WithTxn(m.vars, m.ro), stack, m.guc, m.guc, FALSE, WithTxn(m.vars, m.ro))
          BY <2>3, UndoesNothing
      <4> QED  BY <2>24, <3>1, <4>1
    <3>2. CASE k # i
      <4>1. k \in 1..i - 1
          BY <2>1, <3>2
      <4>2. Undoes(WithTxn(saves[i].vars, saves[i].ro), stack, saves[k].guc,
                   saves[i].guc, FALSE, WithTxn(saves[k].vars, saves[k].ro))
          BY <2>6, <2>10, <2>12, <2>15, <2>27, <4>1 DEF MarksMarks
      <4> QED  BY <2>24, <4>2
    <3> QED  BY <3>1, <3>2
  <2>31. SettingsUndo(t)
      BY <2>15, <2>25, <2>26, <2>27, <2>28, <2>29, <2>30, SettingsWhole
  <2>32. Good(t, w)
      BY <2>15, <2>16, <2>17, <2>18, <2>19, <2>21, <2>31 DEF Good, Core
  <2>33. RewindsRight(s, t)
    <3>1. Last(t.txn.saves) = m /\ Len(t.txn.saves) = i
        BY <2>6, <2>12, <2>15, <2>24 DEF Last
    <3>2. "reset_custom" \notin Quirks => t.vars = m.vars /\ t.txn.read_only = m.ro
        BY <2>4, <2>12, <2>15
    <3>3. ASSUME NEW c \in CursorNames, "redeclare" \notin Quirks
          PROVE  t.cursors[c] = IF s.cursors[c].depth < i THEN s.cursors[c] ELSE NoCursor
      <4>1. CASE c \in m.cursors
          BY <2>8, <2>15, <2>20, <3>3, <4>1
      <4>2. CASE c \notin m.cursors
          BY <2>8, <2>15, <2>20, <3>3, <4>2
      <4> QED  BY <4>1, <4>2
    <3> QED  BY <3>1, <3>2, <3>3 DEF RewindsRight
  <2>34. t.txn.open /\ ~t.txn.implicit
      BY <2>3, <2>13, <2>15
  <2> HIDE DEF r
  <2>35. StmtRel(s, [s |-> t, err |-> "none"])
      BY <2>15, <2>33, <2>34 DEF StmtRel
  <2> QED  BY <2>2, <2>32, <2>35 DEF r
<1> QED
    BY <1>2, <1>3

\* RELEASE forgets the marks from the named one on; the mode goes back to its.
LEMMA ReleaseStmt ==
    ASSUME NEW s, Ready(s), NEW name
    PROVE  LET r == txn_release(s, name) IN Good(r.s, client) /\ StmtRel(s, r)
<1> DEFINE r == txn_release(s, name)
           w == client
           i == SaveIndex(s, name)
<1>1. /\ Good(s, w) /\ s.ended = "no" /\ s \in SessionRec(w) /\ s.txn \in TxnRec(w)
      /\ w.max_stack \in Nat /\ s.vars \in Vars /\ s.txn.read_only \in Flag
      /\ s.txn.guc_stack \in Seq(Entry) /\ Len(s.txn.guc_stack) \in Nat
      /\ s.txn.saves \in Seq(Mark(w)) /\ Len(s.txn.saves) \in Nat
      /\ s.cursors \in [CursorNames -> Cursor] /\ MaxSaves \in Nat
    BY Parts, WorkloadType, SessionAssumption DEF Ready
<1>2. CASE NoSave(s, name)
  <2>1. r = [s |-> s, err |-> "utility"]
      BY <1>2 DEF txn_release, Fail
  <2> HIDE DEF r
  <2>2. Good(s, client) /\ StmtRel(s, [s |-> s, err |-> "utility"])
      BY <1>1, SameRel
  <2> QED  BY <2>1, <2>2 DEF r
<1>3. CASE ~NoSave(s, name)
  <2> DEFINE m == s.txn.saves[i]
             old == s.txn.guc_stack
             cur == [c \in CursorNames |->
                        [s.cursors[c] EXCEPT !.depth = IF s.cursors[c].depth >= i
                                                       THEN i - 1 ELSE s.cursors[c].depth]]
             saves == SubSeq(s.txn.saves, 1, i - 1)
             x == [s.txn EXCEPT !.read_only = m.ro, !.saves = saves]
             t == [s EXCEPT !.cursors = cur, !.txn = x]
  <2>1. i \in 1..Len(s.txn.saves) /\ i \in Nat \ {0}
      BY <1>1, <1>3, SaveIndexType DEF NoSave
  <2>2. r = [s |-> t, err |-> "none"]
    <3> DEFINE y == [s.txn EXCEPT !.read_only = m.ro, !.saves = SubSeq(@, 1, i - 1)]
    <3>1. r = Ok([s EXCEPT !.cursors = cur, !.txn = y])
        BY <1>3 DEF txn_release, i
    <3> HIDE DEF m, cur
    <3>2. y = x
        BY <1>1 DEF TxnRec
    <3> HIDE DEF x, y
    <3> QED  BY <3>1, <3>2 DEF Ok
  <2>3. /\ s.txn.open /\ ~s.txn.implicit /\ m \in Mark(w)
        /\ m.guc \in Nat /\ m.guc <= Len(old) /\ m.ro \in Flag
        /\ \A j \in 1..i : s.txn.saves[j].guc <= m.guc
      BY <1>1, <2>1, MarkType
  <2>4. /\ saves \in Seq(Mark(w)) /\ Len(saves) = i - 1 /\ DOMAIN saves = 1..i - 1
        /\ \A j \in 1..i - 1 : saves[j] = s.txn.saves[j]
    <3>1. i - 1 \in 0..Len(s.txn.saves)
        BY <1>1, <2>1
    <3> QED  BY <1>1, <3>1, Prefix
  <2>5. \A j \in 1..i - 1 : /\ j \in 1..Len(s.txn.saves) /\ j \in DOMAIN s.txn.saves
                            /\ j \in Nat /\ j < i /\ j \in 1..i
      BY <1>1, <2>1, Parts
  <2>6. i - 1 \in 0..MaxSaves /\ i - 1 <= MaxSaves
      BY <1>1, <2>1 DEF Good, Core, Bounded
  <2>7. \A c \in CursorNames :
            /\ s.cursors[c] \in Cursor /\ cur[c] \in Cursor
            /\ cur[c].st = s.cursors[c].st /\ cur[c].hold = s.cursors[c].hold
            /\ cur[c].depth = IF s.cursors[c].depth >= i THEN i - 1 ELSE s.cursors[c].depth
            /\ s.cursors[c].depth \in Nat
            /\ s.cursors[c].depth < i => cur[c] = s.cursors[c]
    <3> SUFFICES ASSUME NEW c \in CursorNames
                 PROVE  /\ s.cursors[c] \in Cursor /\ cur[c] \in Cursor
                        /\ cur[c].st = s.cursors[c].st /\ cur[c].hold = s.cursors[c].hold
                        /\ cur[c].depth = IF s.cursors[c].depth >= i THEN i - 1
                                          ELSE s.cursors[c].depth
                        /\ s.cursors[c].depth \in Nat
                        /\ s.cursors[c].depth < i => cur[c] = s.cursors[c]
        OBVIOUS
    <3> DEFINE k == s.cursors[c]
               d == IF k.depth >= i THEN i - 1 ELSE k.depth
    <3>1. k \in Cursor /\ k.depth \in 0..MaxSaves /\ k.depth \in Nat
        BY <1>1 DEF Cursor
    <3>2. cur[c] = [k EXCEPT !.depth = d]
        OBVIOUS
    <3>3. d \in 0..MaxSaves
        BY <2>6, <3>1
    <3>4. k.depth < i => d = k.depth
        BY <2>1, <3>1
    <3> HIDE DEF k, d, cur, i
    <3>5. cur[c] \in Cursor /\ cur[c].st = k.st /\ cur[c].depth = d
        BY <3>1, <3>2, <3>3 DEF Cursor
    <3>6. cur[c].hold = k.hold
        BY <3>1, <3>2 DEF Cursor
    <3>7. d = k.depth => cur[c] = k
        BY <3>1, <3>2 DEF Cursor
    <3> QED  BY <3>1, <3>4, <3>5, <3>6, <3>7 DEF k, d
  <2>8. cur \in [CursorNames -> Cursor]
      BY <2>7
  <2> HIDE DEF cur, saves, m, i
  <2>9. /\ x \in TxnRec(w) /\ x.guc_stack = old /\ x.saves = saves /\ x.read_only = m.ro
        /\ x.want = s.txn.want /\ x.before = s.txn.before /\ x.writes = s.txn.writes
        /\ x.errs = s.txn.errs
      BY <1>1, <2>3, <2>4 DEF TxnRec
  <2>10. x.open = s.txn.open /\ x.implicit = s.txn.implicit /\ x.failed = s.txn.failed
      BY <1>1 DEF TxnRec
  <2> HIDE DEF x
  <2>11. /\ t \in SessionRec(w) /\ t.txn = x /\ t.vars = s.vars /\ t.cursors = cur
         /\ t.ended = s.ended /\ t.next_ro = s.next_ro
      BY <1>1, <2>8, <2>9 DEF SessionRec
  <2> HIDE DEF t
  <2>12. t.txn.open /\ ~t.txn.implicit
      BY <2>3, <2>10, <2>11
  <2>13. Bounded(t, w)
    <3>1. Len(t.txn.guc_stack) <= w.max_stack
        BY <1>1, <2>9, <2>11 DEF Good, Core, Bounded
    <3>2. Len(t.txn.saves) <= MaxSaves
        BY <2>4, <2>6, <2>9, <2>11
    <3> QED  BY <2>12, <3>1, <3>2 DEF Bounded
  <2>14. Nested(t)
    <3>1. ASSUME NEW j \in 1..i - 1
          PROVE  /\ saves[j].guc <= Len(old) /\ saves[j].writes <= s.txn.writes
                 /\ \A k \in 1..j : saves[k].guc <= saves[j].guc /\ saves[k].writes <= saves[j].writes
      <4>1. /\ s.txn.saves[j].guc <= Len(old) /\ s.txn.saves[j].writes <= s.txn.writes
            /\ \A k \in 1..j : /\ s.txn.saves[k].guc <= s.txn.saves[j].guc
                               /\ s.txn.saves[k].writes <= s.txn.saves[j].writes
          BY <1>1, <2>5, MarkType
      <4>2. \A k \in 1..j : k \in 1..i - 1
          BY <2>1
      <4> QED  BY <2>4, <4>1, <4>2
    <3> QED  BY <2>4, <2>9, <2>11, <2>12, <3>1 DEF Nested
  <2>15. AtBoundary(t)
      BY <1>1, <2>3, <2>11, <2>12 DEF Good, Core, AtBoundary
  <2>16. ErrorsFail(t)
    <3>1. \A j \in DOMAIN saves : "exec" \notin saves[j].errs
        BY <1>1, <2>4, <2>5 DEF Good, Core, ErrorsFail
    <3> QED  BY <1>1, <2>9, <2>10, <2>11, <3>1 DEF Good, Core, ErrorsFail
  <2>17. CursorsMarked(t)
    <3>1. ASSUME NEW c \in CursorNames, cur[c].st = "none" PROVE cur[c] = NoCursor
      <4>1. s.cursors[c] = NoCursor
          BY <1>1, <2>7, <3>1 DEF Good, Core, CursorsMarked
      <4>2. s.cursors[c].depth < i
          BY <2>1, <4>1 DEF NoCursor
      <4> QED  BY <2>7, <4>1, <4>2
    <3>2. ASSUME NEW c \in CursorNames, "redeclare" \notin Quirks
          PROVE  /\ cur[c].depth <= i - 1
                 /\ \A j \in 1..i - 1 : c \in saves[j].cursors
                        <=> cur[c].st # "none" /\ cur[c].depth < j
      <4>1. cur[c].depth <= i - 1
          BY <2>1, <2>7
      <4>2. ASSUME NEW j \in 1..i - 1
            PROVE  c \in saves[j].cursors <=> cur[c].st # "none" /\ cur[c].depth < j
        <5>1. c \in saves[j].cursors <=> s.cursors[c].st # "none" /\ s.cursors[c].depth < j
            BY <1>1, <2>4, <2>5, <3>2 DEF Good, Core, CursorsMarked
        <5>2. cur[c].depth < j <=> s.cursors[c].depth < j
            BY <2>1, <2>7
        <5> QED  BY <2>7, <5>1, <5>2
      <4> QED  BY <4>1, <4>2
    <3> QED  BY <2>4, <2>9, <2>11, <3>1, <3>2 DEF CursorsMarked
  <2>18. /\ "reset_custom" \notin Quirks =>
                AbortNow(s) /\ AbortMarks(s) /\ MarksNow(s) /\ MarksMarks(s)
         /\ CommitsExact => CommitNow(s) /\ CommitMarks(s)
      BY <1>1, <2>3, SettingsParts
  <2>19. "reset_custom" \notin Quirks => AbortNow(t) /\ AbortMarks(t)
      BY <2>4, <2>5, <2>9, <2>11, <2>18 DEF AbortNow, AbortMarks
  <2>20. CommitsExact => CommitNow(t) /\ CommitMarks(t)
      BY <2>4, <2>5, <2>9, <2>11, <2>18 DEF CommitNow, CommitMarks
  <2>21. "reset_custom" \notin Quirks => MarksMarks(t)
    <3> SUFFICES ASSUME "reset_custom" \notin Quirks, NEW j \in 1..i - 1, NEW k \in 1..j - 1
                 PROVE  Undoes(WithTxn(saves[j].vars, saves[j].ro), old, saves[k].guc,
                               saves[j].guc, FALSE, WithTxn(saves[k].vars, saves[k].ro))
        BY <2>4, <2>9, <2>11 DEF MarksMarks
    <3>0. k \in 1..i - 1
        BY <2>1
    <3>1. Undoes(WithTxn(s.txn.saves[j].vars, s.txn.saves[j].ro), old, s.txn.saves[k].guc,
                 s.txn.saves[j].guc, FALSE, WithTxn(s.txn.saves[k].vars, s.txn.saves[k].ro))
        BY <2>5, <2>18 DEF MarksMarks
    <3> QED  BY <2>4, <3>0, <3>1
  <2>22. "reset_custom" \notin Quirks => MarksNow(t)
    <3> SUFFICES ASSUME "reset_custom" \notin Quirks, NEW k \in 1..i - 1
                 PROVE  Undoes(WithTxn(s.vars, m.ro), old, saves[k].guc, Len(old), FALSE,
                               WithTxn(saves[k].vars, saves[k].ro))
        BY <2>4, <2>9, <2>11 DEF MarksNow
    <3> DEFINE v == WithTxn(s.vars, s.txn.read_only)
               u == WithTxn(m.vars, m.ro)
               v2 == WithTxn(s.vars, m.ro)
               goal == WithTxn(saves[k].vars, saves[k].ro)
               lo == saves[k].guc
               mg == m.guc
    <3>1. k \in 1..Len(s.txn.saves) /\ saves[k] = s.txn.saves[k]
        BY <2>4, <2>5
    <3>2. /\ m.vars \in Vars /\ saves[k].vars \in Vars /\ saves[k].ro \in Flag
          /\ lo \in Nat /\ mg \in Nat /\ mg <= Len(old)
        BY <1>1, <2>3, <3>1, MarkType DEF Mark
    <3>3. Undoes(v, old, lo, Len(old), FALSE, goal)
        BY <2>18, <3>1 DEF MarksNow
    <3>4. Undoes(u, old, lo, mg, FALSE, goal)
        BY <2>1, <2>18, <3>1 DEF MarksMarks, m
    <3>5. goal \in [CharFields -> Flag]
        BY <3>2, WithTxnType
    <3>6. /\ u["txn_ro"] = m.ro /\ v2["txn_ro"] = m.ro
          /\ \A f \in Fields : v2[f] = s.vars[f] /\ v[f] = s.vars[f]
        BY <1>1, <2>3, <3>2, WithTxnType
    <3> HIDE DEF v, u, v2, goal, lo, mg
    <3>7. ASSUME NEW f \in CharFields, \A j \in lo + 1..Len(old) : ~Counts(old[j], f, FALSE)
          PROVE  v2[f] = goal[f]
      <4>1. CASE f = "txn_ro"
        <5>0. \A j \in lo + 1..mg : j \in lo + 1..Len(old)
            BY <1>1, <3>2
        <5>1. \A j \in lo + 1..mg : ~Counts(old[j], f, FALSE)
            BY <3>7, <5>0
        <5>2. u[f] = goal[f]
            BY <3>4, <3>5, <5>1 DEF Undoes
        <5> QED  BY <3>6, <4>1, <5>2
      <4>2. CASE f \in Fields
        <5>1. v[f] = goal[f]
            BY <3>3, <3>5, <3>7 DEF Undoes
        <5> QED  BY <3>6, <4>2, <5>1
      <4> QED  BY <4>1, <4>2 DEF CharFields
    <3>8. Undoes(v2, old, lo, Len(old), FALSE, goal)
      <4>1. \A f \in CharFields : \A j \in lo + 1..Len(old) :
                Counts(old[j], f, FALSE) /\ (\A h \in lo + 1..j - 1 : ~Counts(old[h], f, FALSE))
                    => old[j].saved[f] = goal[f]
          BY <3>3, <3>5 DEF Undoes
      <4> QED  BY <3>5, <3>7, <4>1 DEF Undoes
    <3> QED  BY <3>8 DEF v2, goal, lo
  <2>23. SettingsUndo(t)
      BY <2>11, <2>19, <2>20, <2>21, <2>22, SettingsWhole
  <2>24. Good(t, w)
      BY <2>11, <2>13, <2>14, <2>15, <2>16, <2>17, <2>23 DEF Good, Core
  <2> HIDE DEF r
  <2>25. StmtRel(s, [s |-> t, err |-> "none"])
    <3>1. t.ended = "no" /\ t.txn.implicit = s.txn.implicit /\ t.txn.before = s.txn.before
          /\ (s.txn.failed => t.txn.failed)
        BY <1>1, <2>9, <2>10, <2>11
    <3> QED  BY <1>1, <3>1, QuietRel
  <2> QED  BY <2>2, <2>24, <2>25 DEF r
<1> QED
    BY <1>2, <1>3

-----------------------------------------------------------------------------
(* Every statement.                                                         *)

LEMMA StmtType ==
    ASSUME client \in Clients, NEW st \in Stmts
    PROVE  /\ st.op \in client.ops /\ st.op \in AllOps /\ st.v \in Flag /\ st.flag \in BOOLEAN
           /\ st.op \in {"SAVEPOINT", "ROLLBACK_TO", "RELEASE"} => st.name \in client.saves
           /\ st.op \in {"SET", "RESET"} => st.name \in client.settings
           /\ st.op \in {"DECLARE", "FETCH", "CLOSE"} => st.name \in CursorNames
<1>1. PICK op \in client.ops : st \in StmtsOf(op)
    BY DEF Stmts
<1>2. st.op = op
    BY <1>1 DEF StmtsOf
<1>3. /\ op \in {"SAVEPOINT", "ROLLBACK_TO", "RELEASE"} => st.name \in client.saves
      /\ op \in {"SET", "RESET"} => st.name \in client.settings
      /\ op \in {"DECLARE", "FETCH", "CLOSE"} => st.name \in client.cursors
    BY <1>1 DEF StmtsOf
<1>4. st.v \in {None, 1} \cup client.modes
    BY <1>1 DEF StmtsOf
<1>5. st.flag \in BOOLEAN
    BY <1>1 DEF StmtsOf
<1> QED
    BY <1>2, <1>3, <1>4, <1>5, WorkloadType DEF Flag

\* A statement that the failed block or the read-only mode refuses.
LEMMA RefusedStmt ==
    ASSUME NEW s, Ready(s), s.txn.failed
    PROVE  StmtRel(s, [s |-> s, err |-> "exec"])
    BY DEF Ready, StmtRel, ErrClasses

LEMMA FailedRel ==
    ASSUME NEW s, Ready(s)
    PROVE  Good(Failed(s), client) /\ (~s.txn.failed => StmtRel(s, [s |-> Failed(s), err |-> "exec"]))
<1> DEFINE f == Failed(s)
<1>1. Good(s, client) /\ s.ended = "no"
    BY DEF Ready
<1>2. /\ Good(f, client) /\ f.ended = s.ended /\ f.txn.open = s.txn.open
      /\ f.txn.implicit = s.txn.implicit /\ f.txn.before = s.txn.before
      /\ ~f.txn.open \/ f.txn.failed
    BY <1>1, FailedGood, Zenon
<1> HIDE DEF f
<1>3. ~s.txn.failed => StmtRel(s, [s |-> f, err |-> "exec"])
    BY <1>1, <1>2 DEF StmtRel, ErrClasses
<1> QED
    BY <1>2, <1>3 DEF f

\* A statement leaves a good session, and a result as its message needs it.
LEMMA StmtGood ==
    ASSUME NEW s, Ready(s), NEW st \in Stmts, MayIssue(s, st),
           st.op \notin {"SYNTAX", "COPY_FROM", "COPY_TO"}, NEW r \in run_statement(s, st)
    PROVE  Good(r.s, client) /\ StmtRel(s, r)
<1>1. /\ Good(s, client) /\ client \in Clients
      /\ Len(s.txn.guc_stack) \in Nat /\ s.txn.guc_stack \in Seq(Entry)
      /\ s.txn.writes \in Nat /\ s.txn.writes <= MaxWrites /\ MaxWrites \in Nat
    BY Parts, SessionAssumption DEF Ready, TxnRec
<1>2. /\ st.op \in AllOps /\ st.v \in Flag /\ st.flag \in BOOLEAN
      /\ st.op \in {"SAVEPOINT", "ROLLBACK_TO", "RELEASE"} => st.name \in client.saves
      /\ st.op \in {"SET", "RESET"} => st.name \in client.settings
      /\ st.op \in {"DECLARE", "FETCH", "CLOSE"} => st.name \in CursorNames
    BY <1>1, StmtType
<1>3. CASE s.txn.failed /\ ~allowed_in_aborted(st)
  <2>1. r = [s |-> s, err |-> "exec"]
      BY <1>3 DEF run_statement, Fail
  <2> QED  BY <1>1, <1>3, <2>1, RefusedStmt
<1>4. CASE ~s.txn.failed /\ r = Fail(Failed(s), "exec")
  <2>1. r = [s |-> Failed(s), err |-> "exec"]
      BY <1>4 DEF Fail
  <2>2. r.s = Failed(s)
      BY <2>1
  <2>3. Good(Failed(s), client) /\ StmtRel(s, [s |-> Failed(s), err |-> "exec"])
      BY <1>4, FailedRel
  <2> QED  BY <2>1, <2>2, <2>3
<1>5. CASE r \in Dispatch(s, st) /\ (st.op = "SAVEPOINT" => ~s.txn.failed)
  <2>1. CASE st.op = "BEGIN"
    <3>1. r \in Begin(s, st.v)
        BY <1>5, <2>1 DEF Dispatch
    <3> QED  BY <1>2, <3>1, BeginStmt
  <2>2. CASE st.op = "COMMIT"
    <3>1. r \in txn_commit(s, st.flag)
        BY <1>5, <2>2 DEF Dispatch
    <3> QED  BY <1>2, <3>1, CommitStmt
  <2>3. CASE st.op = "ROLLBACK"
    <3>1. r \in txn_rollback(s, st.flag)
        BY <1>5, <2>3 DEF Dispatch
    <3> QED  BY <1>2, <3>1, RollbackStmt
  <2>4. CASE st.op = "SAVEPOINT"
    <3>1. r = txn_savepoint(s, st.name) /\ Len(s.txn.saves) < MaxSaves /\ ~s.txn.failed
        BY <1>5, <2>4 DEF Dispatch, MayIssue
    <3>2. st.name \in client.saves
        BY <1>2, <2>4
    <3> QED  BY <3>1, <3>2, SavepointStmt
  <2>5. CASE st.op = "ROLLBACK_TO"
    <3>1. r = txn_rollback_to(s, st.name)
        BY <1>5, <2>5 DEF Dispatch
    <3> QED  BY <3>1, RollbackToStmt
  <2>6. CASE st.op = "RELEASE"
    <3>1. r = txn_release(s, st.name)
        BY <1>5, <2>6 DEF Dispatch
    <3> QED  BY <3>1, ReleaseStmt
  <2>7. CASE st.op = "SET"
    <3>1. r \in stmt_set_guc(s, st.name, st.v, st.flag)
        BY <1>5, <2>7 DEF Dispatch
    <3>2. Len(s.txn.guc_stack) < client.max_stack /\ st.name \in client.settings
        BY <1>2, <2>7 DEF MayIssue
    <3>3. CommitsExact /\ ~st.flag => NoLocal(s, Covers(st.name))
      <4>1. ~st.flag => Touched(st) = Covers(st.name)
          BY <2>7 DEF Touched
      <4>2. CommitsExact => NoLocal(s, Touched(st))
          BY <1>1, TouchedNoLocal
      <4> QED  BY <4>1, <4>2
    <3> QED  BY <1>2, <3>1, <3>2, <3>3, SetStmt
  <2>8. CASE st.op = "RESET"
    <3>1. r \in stmt_reset_guc(s, st.name)
        BY <1>5, <2>8 DEF Dispatch
    <3>2. Len(s.txn.guc_stack) < client.max_stack /\ st.name \in client.settings
        BY <1>2, <2>8 DEF MayIssue
    <3>3. CommitsExact => NoLocal(s, Covers(st.name))
      <4>1. Touched(st) = Covers(st.name)
          BY <2>8 DEF Touched
      <4>2. CommitsExact => NoLocal(s, Touched(st))
          BY <1>1, TouchedNoLocal
      <4> QED  BY <4>1, <4>2
    <3> QED  BY <3>1, <3>2, <3>3, ResetStmt
  <2>9. CASE st.op = "RESET_ALL"
    <3>1. r \in ResetAll(s)
        BY <1>5, <2>9 DEF Dispatch
    <3>2. /\ Len(s.txn.guc_stack) + 3 <= client.max_stack
          /\ s.txn.open /\ "reset_custom" \notin Quirks => s.vars.custom = 0
        BY <2>9 DEF MayIssue
    <3>3. CommitsExact => NoLocal(s, Fields \ {"user"})
      <4>1. Touched(st) = Fields \ {"user"}
          BY <2>9 DEF Touched
      <4>2. CommitsExact => NoLocal(s, Touched(st))
          BY <1>1, TouchedNoLocal
      <4> QED  BY <4>1, <4>2
    <3> QED  BY <3>1, <3>2, <3>3, ResetAllStmt
  <2>10. CASE st.op = "SET_TRANSACTION"
    <3>1. r = stmt_set_transaction(s, st.v) /\ Len(s.txn.guc_stack) < client.max_stack
        BY <1>5, <2>10 DEF Dispatch, MayIssue
    <3> QED  BY <1>2, <3>1, SetTransactionStmt
  <2>11. CASE st.op = "DECLARE"
    <3>1. r = cursor_declare(s, st.name, st.flag) /\ st.name \in CursorNames
        BY <1>2, <1>5, <2>11 DEF Dispatch
    <3> QED  BY <1>2, <3>1, DeclareStmt
  <2>12. CASE st.op = "FETCH"
    <3>1. r \in cursor_fetch(s, st.name) /\ st.name \in CursorNames
        BY <1>2, <1>5, <2>12 DEF Dispatch
    <3> QED  BY <3>1, FetchStmt
  <2>13. CASE st.op = "CLOSE"
    <3>1. r = cursor_close(s, st.name) /\ st.name \in CursorNames
        BY <1>2, <1>5, <2>13 DEF Dispatch
    <3>2. (\E m \in ToSet(s.txn.saves) : st.name \in m.cursors) => "redeclare" \in Quirks
        BY <2>13 DEF MayIssue
    <3> QED  BY <3>1, <3>2, CloseStmt
  <2>14. CASE st.op = "UTILITY"
    <3>1. r = [s |-> s, err |-> "none"] \/ r = [s |-> s, err |-> "utility"]
        BY <1>5, <2>14 DEF Dispatch, Ok, Fail
    <3> QED  BY <3>1, SameRel
  <2>15. CASE st.op = "WRITE"
    <3>1. r \in Execute(s, 1) /\ s.txn.writes + 1 <= MaxWrites
        BY <1>1, <1>5, <2>15 DEF Dispatch, MayIssue
    <3> QED  BY <3>1, ExecuteStmt
  <2>16. CASE st.op = "READ"
    <3>1. r \in Execute(s, 0) /\ s.txn.writes + 0 <= MaxWrites
        BY <1>1, <1>5, <2>16 DEF Dispatch
    <3> QED  BY <3>1, ExecuteStmt
  <2> QED
      BY <1>2, <2>1, <2>2, <2>3, <2>4, <2>5, <2>6, <2>7, <2>8, <2>9, <2>10, <2>11, <2>12,
         <2>13, <2>14, <2>15, <2>16 DEF AllOps
<1>6. CASE ~(s.txn.failed /\ ~allowed_in_aborted(st))
  <2>1. (~s.txn.failed /\ r = Fail(Failed(s), "exec")) \/ r \in Dispatch(s, st)
      BY <1>6 DEF run_statement
  <2>2. st.op = "SAVEPOINT" => ~s.txn.failed
      BY <1>6 DEF allowed_in_aborted
  <2> QED  BY <1>4, <1>5, <2>1, <2>2
<1> QED
    BY <1>3, <1>6

-----------------------------------------------------------------------------
(* The messages: every step keeps SInv and is right about how a block ended. *)

\* What a step from the present state to the session t says of the block it ends.
StepRight(t) ==
    /\ t.ended = "abort" /\ "reset_custom" \notin Quirks => t.vars = session.txn.before
    /\ t.ended = "commit" => CommitsRight(session, t) /\ query.errs \subseteq {"copy"}
    /\ t.ended = "rewind" => RewindsRight(session, t)

LEMMA NowReady ==
    ASSUME SInv
    PROVE  /\ Ready(Now) /\ Now.txn = session.txn /\ Now.vars = session.vars
           /\ Now.cursors = session.cursors /\ Now.ended = "no"
           /\ client \in Clients /\ client.max_stack \in Nat
<1>1. Good(session, client) /\ client \in Clients
    BY DEF SInv
<1> DEFINE t == [session EXCEPT !.ended = "no"]
<1>2. Good(t, client)
    BY <1>1, EndedGood
<1>3. /\ t.txn = session.txn /\ t.vars = session.vars /\ t.cursors = session.cursors
      /\ t.ended = "no"
    BY <1>1, Parts DEF SessionRec
<1>4. t = Now
    BY DEF Now
<1> HIDE DEF t
<1> QED
    BY <1>1, <1>2, <1>3, <1>4, WorkloadType DEF Ready

\* What is right about the block of Now is right about that of session.
LEMMA StmtStep ==
    ASSUME SInv, NEW r, StmtRel(Now, r), query.errs \subseteq {"copy"},
           NEW t, t.vars = r.s.vars, t.ended = r.s.ended,
           r.s.ended = "rewind" => t = r.s
    PROVE  StepRight(t)
<1>1. Now.txn = session.txn /\ Now.cursors = session.cursors
    BY NowReady
<1> HIDE DEF Now
<1>2. ASSUME t.ended = "abort", "reset_custom" \notin Quirks PROVE t.vars = session.txn.before
    BY <1>1, <1>2 DEF StmtRel
<1>3. ASSUME t.ended = "commit" PROVE CommitsRight(session, t)
    BY <1>1, <1>3 DEF StmtRel, CommitsRight
<1>4. ASSUME t.ended = "rewind" PROVE RewindsRight(session, t)
  <2>1. RewindsRight(Now, t)
      BY <1>4 DEF StmtRel
  <2> QED  BY <1>1, <2>1 DEF RewindsRight
<1> QED
    BY <1>2, <1>3, <1>4 DEF StepRight

\* A session that is Good has no implicit block when it has none.
LEMMA ClosedPlain ==
    ASSUME NEW w, NEW s, Good(s, w), s.txn.implicit \/ s.txn.failed
    PROVE  s.txn.open
    BY DEF Good, Core, Bounded, NoTxn

\* The handlers of the extended protocol report an error.
LEMMA ErrorReported ==
    ASSUME NEW w, NEW s, Good(s, w)
    PROVE  LET t == Reported(Failed(s), "exec") IN
           /\ Good(t, w) /\ t.ended = s.ended /\ t.vars = s.vars
           /\ t.txn.implicit => t.txn.failed
<1> DEFINE f == Failed(s)
           t == Reported(f, "exec")
<1>1. /\ Good(f, w) /\ f.ended = s.ended /\ f.vars = s.vars
      /\ ~f.txn.open \/ f.txn.failed
    BY FailedGood, Zenon
<1> HIDE DEF f
<1>2. Good(t, w) /\ t = [f EXCEPT !.txn.errs = t.txn.errs]
    BY <1>1, ReportedGood DEF ErrClasses
<1>3. f \in SessionRec(w) /\ f.txn \in TxnRec(w)
    BY <1>1, Parts
<1> HIDE DEF t
<1>4. /\ t.ended = f.ended /\ t.vars = f.vars
      /\ t.txn = [f.txn EXCEPT !.errs = t.txn.errs]
    BY <1>2, <1>3 DEF SessionRec
<1>5. t.txn.implicit = f.txn.implicit /\ t.txn.failed = f.txn.failed
    BY <1>3, <1>4 DEF TxnRec
<1>6. f.txn.implicit => f.txn.open
    BY <1>1, ClosedPlain
<1> QED
    BY <1>1, <1>2, <1>4, <1>5, <1>6 DEF t, f

LEMMA ParsedSame ==
    ASSUME client' = client
    PROVE  Stmts' = Stmts /\ Parsed' = Parsed
<1>1. Stmts' = Stmts
    BY DEF Stmts, StmtsOf
<1> QED
    BY <1>1 DEF Parsed

\* Nothing is in progress.
LEMMA QueryIdle ==
    ASSUME SInv, ~query.active, query' = query, client' = client,
           session'.txn.implicit => session'.txn.failed
    PROVE  QueryGood' /\ query.errs = {}
<1>1. query = Idle
    BY DEF SInv, QueryGood
<1> QED
    BY <1>1 DEF SInv, QueryGood, Idle

LEMMA QuerySame ==
    ASSUME SInv, query' = query, client' = client, session'.txn = session.txn
    PROVE  QueryGood'
    BY DEF SInv, QueryGood

LEMMA QuietRight ==
    ASSUME NEW t, t.ended = "no" PROVE StepRight(t)
    BY DEF StepRight

\* What every step owes.
StepGood == SInv' /\ StepRight(session')

LEMMA ReceiveQueryStep ==
    ASSUME SInv, NEW n \in 1..client.max_stmts, ReceiveQuery(n)
    PROVE  StepGood
<1>1. /\ Good(Now, client) /\ Now.ended = "no" /\ Now.txn = session.txn
      /\ client.max_stack \in Nat /\ client.max_stmts \in Nat
    BY NowReady, WorkloadType DEF Ready
<1> DEFINE implicit == n > 1 /\ ~session.txn.open
<1>2. /\ session' = IF implicit THEN begin_implicit_txn(Now) ELSE Now
      /\ query' = [active |-> TRUE, left |-> n, implicit |-> implicit, errs |-> {}]
      /\ client' = client /\ prepared' = prepared /\ portal' = portal /\ in_error' = in_error
      /\ ~query.active
    BY DEF ReceiveQuery
<1>3. implicit \in BOOLEAN
    OBVIOUS
<1>4. /\ Good(session', client) /\ session'.ended = "no"
      /\ implicit => session'.txn.implicit
      /\ ~implicit => session'.txn = session.txn
  <2>1. CASE implicit
    <3> DEFINE t == begin_implicit_txn(Now)
    <3>1. Good(t, client) /\ t.ended = "no" /\ t.txn.implicit
        BY <1>1, <2>1, ImplicitGood
    <3>2. session' = t
        BY <1>2, <2>1
    <3> HIDE DEF t
    <3> QED  BY <2>1, <3>1, <3>2
  <2>2. CASE ~implicit
      BY <1>1, <1>2, <2>2
  <2> QED  BY <2>1, <2>2
<1> HIDE DEF implicit
<1>5. QueryGood'
  <2>1. session'.txn.implicit => implicit \/ session'.txn.failed
    <3>1. ~query.active /\ (session.txn.implicit => session.txn.failed)
        BY <1>2 DEF SInv, QueryGood
    <3> QED  BY <1>4, <3>1
  <2>2. query'.active = TRUE /\ query'.implicit = implicit /\ query'.errs = {}
        /\ query' \in [active : BOOLEAN, left : 0..client.max_stmts, implicit : BOOLEAN,
                       errs : SUBSET ErrClasses]
      BY <1>1, <1>2, <1>3
  <2> QED  BY <1>2, <2>1, <2>2 DEF QueryGood
<1>6. PortalGood'
    BY <1>2, ParsedSame DEF SInv, PortalGood
<1>7. StepRight(session')
    BY <1>4, QuietRight
<1> QED
    BY <1>2, <1>4, <1>5, <1>6, <1>7 DEF StepGood, SInv

\* An error that aborts an implicit block, whatever its class.
LEMMA ErrorAborts ==
    ASSUME NEW s, NEW r, Ready(s), Good(r.s, client), StmtRel(s, r), r.err # "none"
    PROVE  LET t == abort_implicit_txn(Reported(r.s, r.err)) IN
           /\ Good(t, client) /\ ~t.txn.implicit
           /\ t.ended \in {"no", "abort"}
           /\ t.ended = "abort" /\ "reset_custom" \notin Quirks => t.vars = s.txn.before
<1> DEFINE q == r.s
           t == abort_implicit_txn(Reported(q, r.err))
<1>1. /\ Good(q, client) /\ q \in SessionRec(client) /\ q.txn \in TxnRec(client)
      /\ client.max_stack \in Nat /\ r.err \in ErrClasses
      /\ q.ended \in {"no", "commit", "abort", "rewind"}
    BY Parts, WorkloadType DEF Ready, StmtRel, SessionRec
<1>2. q.ended \in {"no", "abort"}
    BY <1>1 DEF StmtRel
<1>3. CASE q.txn.implicit
  <2>1. q.txn.open
      BY <1>1, <1>3, ClosedPlain
  <2>2. Reported(q, r.err) = [q EXCEPT !.txn.errs = @ \cup {r.err}]
      BY <1>1, <2>1 DEF Reported
  <2> DEFINE p == [q EXCEPT !.txn.errs = @ \cup {r.err}]
  <2>3. p.txn.open /\ p.txn.implicit /\ p.txn.guc_stack = q.txn.guc_stack
      BY <1>1, <1>3, <2>1 DEF SessionRec, TxnRec
  <2>4. [p EXCEPT !.vars = Restored(q.vars, q.txn.guc_stack, FALSE), !.txn = NoTxn,
                  !.cursors = [c \in CursorNames |-> NoCursor], !.ended = "abort"]
        = [q EXCEPT !.vars = Restored(q.vars, q.txn.guc_stack, FALSE), !.txn = NoTxn,
                    !.cursors = [c \in CursorNames |-> NoCursor], !.ended = "abort"]
      BY <1>1 DEF SessionRec
  <2>5. Aborted(p) = Aborted(q)
    <3>1. p.vars = q.vars
        BY <1>1 DEF SessionRec
    <3> HIDE DEF p
    <3> QED  BY <2>3, <2>4, <3>1 DEF Aborted, revert_guc_stack
  <2>6. t = Aborted(q)
    <3> HIDE DEF p
    <3> QED  BY <2>2, <2>3, <2>5 DEF abort_implicit_txn, p
  <2>7. /\ Good(Aborted(q), client) /\ Aborted(q).txn = NoTxn /\ Aborted(q).ended = "abort"
        /\ "reset_custom" \notin Quirks => Aborted(q).vars = q.txn.before
      BY <1>1, <2>1, AbortedGood
  <2>8. q.txn.before = s.txn.before
      BY <1>3 DEF StmtRel
  <2> HIDE DEF t, q
  <2> QED  BY <2>6, <2>7, <2>8 DEF NoTxn, t, q
<1>4. CASE ~q.txn.implicit
  <2>1. /\ r.err = "exec" => ~q.txn.open \/ q.txn.failed
        /\ r.err = "utility" => ~q.txn.implicit \/ q.txn.failed
      BY <1>4 DEF StmtRel
  <2> DEFINE p == Reported(q, r.err)
  <2>2. Good(p, client) /\ p = [q EXCEPT !.txn.errs = p.txn.errs]
      BY <1>1, <2>1, ReportedGood
  <2> HIDE DEF p
  <2>3. p.ended = q.ended /\ p.vars = q.vars /\ p.txn = [q.txn EXCEPT !.errs = p.txn.errs]
      BY <1>1, <2>2 DEF SessionRec
  <2>4. p.txn.implicit = q.txn.implicit
      BY <1>1, <2>3 DEF TxnRec
  <2>5. t = p
      BY <1>4, <2>4 DEF abort_implicit_txn, p
  <2>6. q.ended = "abort" /\ "reset_custom" \notin Quirks => q.vars = s.txn.before
      BY DEF StmtRel
  <2> HIDE DEF t
  <2> QED  BY <1>2, <1>4, <2>2, <2>3, <2>4, <2>5, <2>6 DEF t
<1> QED
    BY <1>3, <1>4

\* A message in progress of at most n statements.
QueryRec(n) == [active : BOOLEAN, left : 0..n, implicit : BOOLEAN, errs : SUBSET ErrClasses]

LEMMA QueryStatementStep ==
    ASSUME SInv, NEW st \in Stmts, QueryStatement(st)
    PROVE  StepGood
<1>1. /\ Ready(Now) /\ Good(Now, client) /\ Now.ended = "no" /\ Now.txn = session.txn
      /\ client.max_stack \in Nat /\ client.max_stmts \in Nat
    BY NowReady, WorkloadType DEF Ready
<1>2. /\ query.active /\ query.left > 0 /\ MayIssue(session, st)
      /\ st.op \notin {"COPY_FROM", "COPY_TO"}
      /\ client' = client /\ prepared' = prepared /\ portal' = portal /\ in_error' = in_error
    BY DEF QueryStatement, InQuery
<1>3. /\ query \in QueryRec(client.max_stmts)
      /\ query.active = TRUE /\ query.left \in Nat /\ query.errs \subseteq {"copy"}
      /\ session.txn.implicit => query.implicit \/ session.txn.failed
    BY <1>1, <1>2 DEF SInv, QueryGood, QueryRec
<1>4. MayIssue(Now, st)
  <2>1. Now.vars = session.vars
      BY NowReady
  <2> HIDE DEF Now
  <2> QED  BY <1>1, <1>2, <2>1 DEF MayIssue, LocalFields
<1>5. PICK r \in IF st.op = "SYNTAX" THEN {Fail(Failed(Now), "exec")}
                                       ELSE run_statement(Now, st) :
        /\ session' =
              IF r.err # "none" THEN abort_implicit_txn(Reported(r.s, r.err))
              ELSE IF query.implicit /\ query.left > 1 /\ ~r.s.txn.open
                   THEN begin_implicit_txn(r.s) ELSE r.s
        /\ query' = [query EXCEPT !.left = IF r.err # "none" THEN 0 ELSE @ - 1,
                                  !.errs = @ \cup ({r.err} \ {"none"})]
    BY DEF QueryStatement
<1> HIDE DEF Now
<1>6. CASE r.err # "none"
  <2>1. Good(r.s, client)
        /\ (st.op # "SYNTAX" \/ ~Now.txn.failed => StmtRel(Now, r))
    <3>1. CASE st.op = "SYNTAX"
      <4>1. r = [s |-> Failed(Now), err |-> "exec"] /\ r.s = Failed(Now)
          BY <1>5, <3>1 DEF Fail
      <4>2. /\ Good(Failed(Now), client)
            /\ ~Now.txn.failed => StmtRel(Now, [s |-> Failed(Now), err |-> "exec"])
          BY <1>1, FailedRel
      <4> QED  BY <3>1, <4>1, <4>2
    <3>2. CASE st.op # "SYNTAX"
        BY <1>1, <1>2, <1>4, <1>5, <3>2, StmtGood
    <3> QED  BY <3>1, <3>2
  <2>2. StmtRel(Now, r)
    <3>1. CASE st.op = "SYNTAX" /\ Now.txn.failed
      <4> DEFINE f == Failed(Now)
      <4>1. r.s = f /\ r.err = "exec"
          BY <1>5, <3>1 DEF Fail
      <4>2. /\ f.ended = "no" /\ f.txn.open = Now.txn.open
            /\ f.txn.implicit = Now.txn.implicit /\ f.txn.before = Now.txn.before
            /\ ~f.txn.open \/ f.txn.failed
          BY <1>1, FailedGood, Zenon
      <4>3. f.txn.implicit => f.txn.failed
        <5>1. Now.txn.open
            BY <1>1, <3>1, ClosedPlain
        <5> QED  BY <4>2, <5>1
      <4> HIDE DEF f
      <4> QED  BY <4>1, <4>2, <4>3 DEF StmtRel, ErrClasses
    <3> QED  BY <2>1, <3>1
  <2> DEFINE t == abort_implicit_txn(Reported(r.s, r.err))
  <2>3. /\ Good(t, client) /\ ~t.txn.implicit /\ t.ended \in {"no", "abort"}
        /\ t.ended = "abort" /\ "reset_custom" \notin Quirks => t.vars = Now.txn.before
      BY <1>1, <1>6, <2>1, <2>2, ErrorAborts
  <2>4. session' = t
      BY <1>5, <1>6
  <2> HIDE DEF t
  <2>5. StepRight(session')
      BY <1>1, <2>3, <2>4 DEF StepRight
  <2>6. query' \in QueryRec(client.max_stmts) /\ query'.left = 0 /\ query'.active = TRUE
    <3> DEFINE errs == query.errs \cup ({r.err} \ {"none"})
    <3>1. errs \in SUBSET ErrClasses
        BY <1>3, <2>2 DEF StmtRel, QueryRec
    <3>2. query' = [query EXCEPT !.left = 0, !.errs = errs]
        BY <1>5, <1>6
    <3> HIDE DEF errs
    <3>3. 0 \in 0..client.max_stmts
        BY <1>1
    <3>4. query \in QueryRec(client.max_stmts) /\ client.max_stmts \in Nat
        BY <1>1, <1>3
    <3>5. query' \in QueryRec(client.max_stmts) /\ query'.left = 0
        BY <3>1, <3>2, <3>3, <3>4 DEF QueryRec
    <3>6. query'.active = query.active
        BY <3>1, <3>2, <3>3, <3>4 DEF QueryRec
    <3> QED  BY <1>3, <3>5, <3>6
  <2>7. QueryGood'
      BY <1>2, <2>3, <2>4, <2>6 DEF QueryGood, QueryRec
  <2>8. PortalGood'
      BY <1>2, ParsedSame DEF SInv, PortalGood
  <2> QED  BY <1>2, <2>3, <2>4, <2>5, <2>7, <2>8 DEF StepGood, SInv
<1>7. CASE r.err = "none"
  <2>1. st.op # "SYNTAX"
      BY <1>5, <1>7 DEF Fail
  <2>2. Good(r.s, client) /\ StmtRel(Now, r)
      BY <1>1, <1>2, <1>4, <1>5, <2>1, StmtGood
  <2>3. Good(session', client) /\ StepRight(session')
        /\ (query.implicit \/ session'.txn.implicit => query.implicit \/ session' = r.s)
    <3>1. CASE query.implicit /\ query.left > 1 /\ ~r.s.txn.open
      <4> DEFINE t == begin_implicit_txn(r.s)
      <4>1. Good(t, client) /\ t.vars = r.s.vars /\ t.ended = r.s.ended
          BY <1>1, <2>2, <3>1, ImplicitGood
      <4>2. session' = t
          BY <1>5, <1>7, <3>1
      <4> HIDE DEF t
      <4>3. r.s.ended # "rewind"
          BY <2>2, <3>1 DEF StmtRel
      <4>4. StepRight(session')
          BY <1>3, <2>2, <4>1, <4>2, <4>3, StmtStep
      <4> QED  BY <3>1, <4>1, <4>2, <4>4
    <3>2. CASE ~(query.implicit /\ query.left > 1 /\ ~r.s.txn.open)
      <4>1. session' = r.s
          BY <1>5, <1>7, <3>2
      <4> QED  BY <1>3, <2>2, <4>1, StmtStep
    <3> QED  BY <3>1, <3>2
  <2>4. session'.txn.implicit => query.implicit \/ session'.txn.failed
      BY <1>1, <1>3, <2>2, <2>3 DEF StmtRel
  <2>5. /\ query' \in QueryRec(client.max_stmts) /\ query'.active = TRUE
        /\ query'.implicit = query.implicit /\ query'.errs = query.errs
    <3>1. query' = [query EXCEPT !.left = query.left - 1, !.errs = query.errs]
      <4>1. query.errs \cup ({r.err} \ {"none"}) = query.errs
          BY <1>7
      <4> QED  BY <1>5, <1>7, <4>1
    <3>2. query.left - 1 \in 0..client.max_stmts /\ query.errs \in SUBSET ErrClasses
        BY <1>1, <1>2, <1>3 DEF QueryRec
    <3>3. query \in QueryRec(client.max_stmts) /\ client.max_stmts \in Nat
        BY <1>1, <1>3
    <3>4. query' \in QueryRec(client.max_stmts) /\ query'.errs = query.errs
        BY <3>1, <3>2, <3>3 DEF QueryRec
    <3>5. query'.active = query.active
        BY <3>1, <3>2, <3>3 DEF QueryRec
    <3>6. query'.implicit = query.implicit
        BY <3>1, <3>2, <3>3 DEF QueryRec
    <3> QED  BY <1>3, <3>4, <3>5, <3>6
  <2>6. QueryGood'
      BY <1>2, <1>3, <2>4, <2>5 DEF QueryGood, QueryRec
  <2>7. PortalGood'
      BY <1>2, ParsedSame DEF SInv, PortalGood
  <2> QED  BY <1>2, <2>3, <2>6, <2>7 DEF StepGood, SInv
<1> QED
    BY <1>6, <1>7

\* An error reported in a block that goes on.
LEMMA ReportedRest ==
    ASSUME NEW w, NEW s, Good(s, w), NEW err \in {"none"} \cup ErrClasses,
           err = "exec" => ~s.txn.open \/ s.txn.failed, err # "utility",
           NEW t, t = Reported(s, err)
    PROVE  /\ Good(t, w) /\ t.vars = s.vars /\ t.ended = s.ended
           /\ t.txn.implicit = s.txn.implicit
           /\ t.txn.failed = s.txn.failed
           /\ err = "none" => t = s
<1>1. Good(t, w) /\ t = [s EXCEPT !.txn.errs = t.txn.errs]
    BY ReportedGood
<1>2. s \in SessionRec(w) /\ s.txn \in TxnRec(w)
    BY Parts
<1>3. t.vars = s.vars /\ t.ended = s.ended /\ t.txn = [s.txn EXCEPT !.errs = t.txn.errs]
    BY <1>1, <1>2 DEF SessionRec
<1>4. t.txn.implicit = s.txn.implicit
    BY <1>2, <1>3 DEF TxnRec
<1>5. t.txn.failed = s.txn.failed
    BY <1>2, <1>3 DEF TxnRec
<1>6. err = "none" => t = s
    BY DEF Reported
<1> QED
    BY <1>1, <1>3, <1>4, <1>5, <1>6

LEMMA CopyResult ==
    ASSUME NEW s, Ready(s), NEW r,
           \/ r \in CopyFrom(s) /\ s.txn.writes + 1 <= MaxWrites
           \/ r \in CopyTo(s)
    PROVE  Good(r.s, client) /\ StmtRel(s, r) /\ r.err \in {"none", "exec", "copy"}
<1>1. s.txn \in TxnRec(client) /\ s.txn.writes \in Nat /\ s.txn.writes <= MaxWrites
    BY Parts, SessionAssumption DEF Ready, TxnRec
<1>2. CASE r \in CopyFrom(s) /\ s.txn.writes + 1 <= MaxWrites
  <2>1. Good(r.s, client) /\ StmtRel(s, r)
      BY <1>2, CopyFromStmt
  <2>2. ASSUME r \in Execute(s, 1) PROVE r.err \in {"none", "exec"}
      BY <1>2, <2>2, ExecuteStmt
  <2>3. ASSUME NEW q \in txn_rollback(s, FALSE), r = Fail(q.s, "copy") PROVE r.err = "copy"
      BY <2>3 DEF Fail
  <2>4. r = Fail(s, "copy") \/ r = Fail(s, "exec") => r.err \in {"copy", "exec"}
      BY DEF Fail
  <2> QED  BY <1>2, <2>1, <2>2, <2>3, <2>4 DEF CopyFrom, copy_from_ingest
<1>3. CASE r \in CopyTo(s)
  <2>1. Good(r.s, client) /\ StmtRel(s, r)
      BY <1>3, CopyToStmt
  <2>2. ASSUME r \in Execute(s, 0) PROVE r.err \in {"none", "exec"}
    <3>1. s.txn.writes + 0 <= MaxWrites
        BY <1>1
    <3> QED  BY <2>2, <3>1, ExecuteStmt
  <2>3. r = Fail(s, "exec") => r.err = "exec"
      BY DEF Fail
  <2> QED  BY <1>3, <2>1, <2>2, <2>3 DEF CopyTo
<1> QED
    BY <1>2, <1>3

LEMMA QueryCopyStep ==
    ASSUME SInv, NEW st \in Stmts, QueryCopy(st)
    PROVE  StepGood
<1>1. /\ Ready(Now) /\ Good(Now, client) /\ Now.ended = "no" /\ Now.txn = session.txn
      /\ client.max_stack \in Nat /\ client.max_stmts \in Nat
      /\ Now.txn \in TxnRec(client) /\ MaxWrites \in Nat
    BY NowReady, WorkloadType, Parts, SessionAssumption DEF Ready
<1>2. /\ query.active /\ query.left > 0 /\ MayIssue(session, st)
      /\ st.op \in {"COPY_FROM", "COPY_TO"}
      /\ client' = client /\ prepared' = prepared /\ portal' = portal /\ in_error' = in_error
    BY DEF QueryCopy, InQuery
<1>3. /\ query \in QueryRec(client.max_stmts)
      /\ query.active = TRUE /\ query.left \in Nat /\ query.errs \subseteq {"copy"}
      /\ session.txn.implicit => query.implicit \/ session.txn.failed
    BY <1>1, <1>2 DEF SInv, QueryGood, QueryRec
<1>4. PICK r : /\ Good(r.s, client) /\ StmtRel(Now, r) /\ r.err \in {"none", "exec", "copy"}
               /\ session' = Reported(r.s, r.err)
               /\ \E left \in 0..client.max_stmts, errs \in SUBSET {"copy"} :
                    query' = [query EXCEPT !.left = left, !.errs = errs]
  <2>1. CASE st.op = "COPY_FROM" /\ effective_read_only(session)
    <3> DEFINE r == [s |-> Now, err |-> "copy"]
    <3>1. /\ session' = Reported(r.s, r.err)
          /\ query' = [query EXCEPT !.left = 0, !.errs = query.errs \cup {"copy"}]
        BY <2>1 DEF QueryCopy
    <3>2. Good(r.s, client) /\ StmtRel(Now, r) /\ r.err = "copy"
        BY <1>1, SameRel
    <3>3. 0 \in 0..client.max_stmts /\ query.errs \cup {"copy"} \in SUBSET {"copy"}
        BY <1>1, <1>3
    <3> HIDE DEF r
    <3> QED  BY <3>1, <3>2, <3>3
  <2>2. CASE ~(st.op = "COPY_FROM" /\ effective_read_only(session))
    <3>1. PICK r \in IF st.op = "COPY_FROM" THEN CopyFrom(Now) ELSE CopyTo(Now) :
            /\ session' = Reported(r.s, r.err)
            /\ query' = [query EXCEPT !.left = @ - 1,
                                      !.errs = @ \cup IF r.err # "none" THEN {"copy"} ELSE {}]
        BY <2>2 DEF QueryCopy
    <3>2. st.op = "COPY_FROM" => Now.txn.writes + 1 <= MaxWrites
        BY <1>1, <1>2 DEF MayIssue, TxnRec
    <3>3. Good(r.s, client) /\ StmtRel(Now, r) /\ r.err \in {"none", "exec", "copy"}
        BY <1>1, <3>1, <3>2, CopyResult
    <3> DEFINE errs == query.errs \cup IF r.err # "none" THEN {"copy"} ELSE {}
    <3>4. query.left - 1 \in 0..client.max_stmts /\ errs \in SUBSET {"copy"}
        BY <1>1, <1>2, <1>3 DEF QueryRec
    <3>5. query' = [query EXCEPT !.left = query.left - 1, !.errs = errs]
        BY <3>1
    <3> HIDE DEF errs
    <3> QED  BY <3>1, <3>3, <3>4, <3>5
  <2> QED  BY <2>1, <2>2
<1> HIDE DEF Now
<1>5. /\ Good(session', client) /\ session'.vars = r.s.vars /\ session'.ended = r.s.ended
      /\ session'.txn.implicit = r.s.txn.implicit
      /\ session'.txn.failed = r.s.txn.failed
      /\ r.err = "none" => session' = r.s
  <2>1. r.err = "exec" => ~r.s.txn.open \/ r.s.txn.failed
      BY <1>4 DEF StmtRel
  <2>2. r.err \in {"none"} \cup ErrClasses /\ r.err # "utility"
      BY <1>4 DEF ErrClasses
  <2> QED  BY <1>4, <2>1, <2>2, ReportedRest
<1>6. StepRight(session')
  <2>1. r.s.ended = "rewind" => session' = r.s
      BY <1>4, <1>5 DEF StmtRel
  <2> QED  BY <1>3, <1>4, <1>5, <2>1, StmtStep
<1>7. session'.txn.implicit => query.implicit \/ session'.txn.failed
    BY <1>1, <1>3, <1>4, <1>5 DEF StmtRel
<1>8. /\ query' \in QueryRec(client.max_stmts) /\ query'.errs \subseteq {"copy"}
      /\ query'.active = TRUE /\ query'.implicit = query.implicit
  <2>1. PICK left \in 0..client.max_stmts, errs \in SUBSET {"copy"} :
            query' = [query EXCEPT !.left = left, !.errs = errs]
      BY <1>4
  <2>2. query' \in QueryRec(client.max_stmts) /\ query'.errs = errs
      BY <1>3, <2>1 DEF QueryRec, ErrClasses
  <2>3. query'.active = query.active
      BY <1>3, <2>1 DEF QueryRec
  <2>4. query'.implicit = query.implicit
      BY <1>3, <2>1 DEF QueryRec
  <2> QED  BY <1>3, <2>2, <2>3, <2>4
<1>9. QueryGood'
    BY <1>2, <1>7, <1>8 DEF QueryGood, QueryRec
<1>10. PortalGood'
    BY <1>2, ParsedSame DEF SInv, PortalGood
<1> QED
    BY <1>2, <1>5, <1>6, <1>9, <1>10 DEF StepGood, SInv

LEMMA QueryCopyGarbledStep ==
    ASSUME SInv, NEW st \in Stmts, QueryCopyGarbled(st)
    PROVE  StepGood
<1>1. /\ Good(Now, client) /\ Now.ended = "no" /\ Now.txn = session.txn
      /\ client.max_stack \in Nat /\ client.max_stmts \in Nat
    BY NowReady, WorkloadType DEF Ready
<1>2. /\ query.active /\ query.left > 0 /\ session' = abort_implicit_txn(Now)
      /\ client' = client /\ prepared' = prepared /\ portal' = portal /\ in_error' = in_error
    BY DEF QueryCopyGarbled, InQuery
<1>3. /\ query \in QueryRec(client.max_stmts) /\ query.left \in Nat /\ query.errs \subseteq {"copy"}
      /\ query.active = TRUE
    BY <1>1, <1>2 DEF SInv, QueryGood, QueryRec
<1>4. PICK left \in 0..client.max_stmts : query' = [query EXCEPT !.left = left]
  <2>1. 0 \in 0..client.max_stmts /\ query.left - 1 \in 0..client.max_stmts
      BY <1>1, <1>2, <1>3 DEF QueryRec
  <2> DEFINE left == IF session.txn.implicit THEN 0 ELSE query.left - 1
  <2>2. left \in 0..client.max_stmts
      BY <2>1
  <2>3. query' = [query EXCEPT !.left = left]
      BY DEF QueryCopyGarbled
  <2> HIDE DEF left
  <2> QED  BY <2>2, <2>3
<1> HIDE DEF Now
<1>5. Good(session', client) /\ StepRight(session') /\ ~session'.txn.implicit
  <2>1. CASE Now.txn.open /\ Now.txn.implicit
    <3>1. session' = Aborted(Now)
        BY <1>2, <2>1 DEF abort_implicit_txn
    <3> DEFINE t == Aborted(Now)
    <3>2. /\ Good(t, client) /\ t.txn = NoTxn /\ t.ended = "abort"
          /\ "reset_custom" \notin Quirks => t.vars = Now.txn.before
        BY <1>1, <2>1, AbortedGood
    <3> HIDE DEF t
    <3>3. session' = t
        BY <3>1 DEF t
    <3> QED  BY <1>1, <3>2, <3>3 DEF StepRight, NoTxn
  <2>2. CASE ~(Now.txn.open /\ Now.txn.implicit)
    <3>1. session' = Now
        BY <1>2, <2>2 DEF abort_implicit_txn
    <3>2. ~Now.txn.implicit
        BY <1>1, <2>2, ClosedPlain
    <3> QED  BY <1>1, <3>1, <3>2, QuietRight
  <2> QED  BY <2>1, <2>2
<1>6. query' \in QueryRec(client.max_stmts) /\ query'.errs = query.errs
    BY <1>3, <1>4 DEF QueryRec
<1>7. query'.active = query.active
    BY <1>3, <1>4 DEF QueryRec
<1>8. QueryGood'
    BY <1>2, <1>3, <1>5, <1>6, <1>7 DEF QueryGood, QueryRec
<1>9. PortalGood'
    BY <1>2, ParsedSame DEF SInv, PortalGood
<1> QED
    BY <1>2, <1>5, <1>8, <1>9 DEF StepGood, SInv

LEMMA IdleType ==
    ASSUME NEW n \in Nat
    PROVE  Idle \in QueryRec(n) /\ Idle.errs = {} /\ ~Idle.active
    BY DEF Idle, QueryRec

LEMMA QueryEndStep ==
    ASSUME SInv, QueryEnd
    PROVE  StepGood
<1>1. /\ Ready(Now) /\ Good(Now, client) /\ Now.ended = "no" /\ Now.txn = session.txn
      /\ client.max_stmts \in Nat
    BY NowReady, WorkloadType DEF Ready
<1>2. /\ query' = Idle
      /\ client' = client /\ prepared' = prepared /\ portal' = portal /\ in_error' = in_error
    BY DEF QueryEnd
<1>3. PICK r : /\ r \in IF query.implicit /\ session.txn.implicit
                       THEN commit_taken_txn(Now) ELSE {Ok(Now)}
               /\ session' = Reported(r.s, r.err)
    BY DEF QueryEnd
<1> HIDE DEF Now
<1>4. /\ Good(session', client) /\ StepRight(session')
      /\ session'.txn.implicit => session'.txn.failed
  <2>1. CASE query.implicit /\ session.txn.implicit
    <3>1. Now.txn.open
        BY <1>1, <2>1, ClosedPlain
    <3>2. /\ Good(r.s, client) /\ StmtRel(Now, r)
          /\ r.s.txn.implicit => r.s.txn.failed
        BY <1>1, <1>3, <2>1, <3>1, CommitTaken
    <3>3. r.err \in {"none", "exec"}
        BY <1>3, <2>1 DEF commit_taken_txn, Ok, Fail
    <3>4. /\ session'.vars = r.s.vars /\ session'.ended = r.s.ended
          /\ session'.txn.implicit = r.s.txn.implicit
          /\ session'.txn.failed = r.s.txn.failed
          /\ r.err = "none" => session' = r.s
          /\ Good(session', client)
      <4>1. r.err = "exec" => ~r.s.txn.open \/ r.s.txn.failed
          BY <3>2 DEF StmtRel
      <4>2. r.err \in {"none"} \cup ErrClasses /\ r.err # "utility"
          BY <3>3 DEF ErrClasses
      <4> QED  BY <1>3, <3>2, <3>3, <4>1, <4>2, ReportedRest
    <3>5. query.errs \subseteq {"copy"}
        BY <2>1 DEF SInv, QueryGood
    <3>6. r.s.ended = "rewind" => session' = r.s
        BY <3>2, <3>4 DEF StmtRel
    <3>7. StepRight(session')
        BY <3>2, <3>4, <3>5, <3>6, StmtStep
    <3> QED  BY <3>2, <3>4, <3>7
  <2>2. CASE ~(query.implicit /\ session.txn.implicit)
    <3>1. session' = Now
        BY <1>3, <2>2 DEF Ok, Reported
    <3>2. session.txn.implicit => session.txn.failed
        BY <2>2 DEF SInv, QueryGood
    <3> QED  BY <1>1, <3>1, <3>2, QuietRight
  <2> QED  BY <2>1, <2>2
<1>5. QueryGood'
    BY <1>1, <1>2, <1>4, IdleType DEF QueryGood, QueryRec
<1>6. PortalGood'
    BY <1>2, ParsedSame DEF SInv, PortalGood
<1> QED
    BY <1>2, <1>4, <1>5, <1>6 DEF StepGood, SInv

\* A handler of the extended protocol: the message in progress is none.
LEMMA ExtendedStep ==
    ASSUME SInv, Listening, query' = query, client' = client,
           Good(session', client), StepRight(session'),
           session'.txn.implicit => session'.txn.failed, PortalGood'
    PROVE  StepGood
<1>1. QueryGood'
    BY QueryIdle DEF Listening
<1> QED
    BY <1>1 DEF StepGood, SInv

\* A handler that fails with the session s.
LEMMA ProtocolError ==
    ASSUME SInv, Listening, NEW s, Good(s, client), protocol_error(s),
           \/ s.ended = "no"
           \/ \E r : s = r.s /\ r.err # "none" /\ StmtRel(Now, r)
    PROVE  /\ Good(session', client) /\ StepRight(session')
           /\ session'.txn.implicit => session'.txn.failed
           /\ in_error' = TRUE
<1> DEFINE t == Reported(Failed(s), "exec")
<1>1. /\ Good(t, client) /\ t.ended = s.ended /\ t.vars = s.vars
      /\ t.txn.implicit => t.txn.failed
    BY ErrorReported
<1>2. session' = t /\ in_error' = TRUE
    BY DEF protocol_error
<1> HIDE DEF t
<1>3. StepRight(session')
  <2>1. CASE s.ended = "no"
      BY <1>1, <1>2, <2>1, QuietRight
  <2>2. ASSUME NEW r, s = r.s, r.err # "none", StmtRel(Now, r) PROVE StepRight(session')
    <3>1. query.errs \subseteq {"copy"}
        BY DEF SInv, QueryGood, Listening, Idle
    <3>2. r.s.ended # "rewind"
        BY <2>2 DEF StmtRel
    <3>3. session'.vars = r.s.vars /\ session'.ended = r.s.ended
        BY <1>1, <1>2, <2>2
    <3> QED  BY <2>2, <3>1, <3>2, <3>3, StmtStep
  <2> QED  BY <2>1, <2>2
<1> QED
    BY <1>1, <1>2, <1>3

\* A handler that leaves the block alone.
LEMMA QuietStep ==
    ASSUME SInv, Listening, session' \in {Now, Snapshot(Now)}
    PROVE  /\ Good(session', client) /\ StepRight(session')
           /\ session'.txn.implicit => session'.txn.failed
<1>1. Good(Now, client) /\ Now.ended = "no" /\ Now.txn = session.txn
    BY NowReady DEF Ready
<1>2. session.txn.implicit => session.txn.failed
    BY DEF SInv, QueryGood, Listening
<1> HIDE DEF Now
<1>3. CASE session' = Now
    BY <1>1, <1>2, <1>3, QuietRight
<1>4. CASE session' = Snapshot(Now)
  <2>1. /\ Good(Snapshot(Now), client) /\ Snapshot(Now).ended = Now.ended
      BY <1>1, SnapshotGood
  <2>2. Snapshot(Now).txn.implicit = Now.txn.implicit
      BY <1>1, SnapshotGood
  <2>3. Snapshot(Now).txn.failed = Now.txn.failed
      BY <1>1, SnapshotGood
  <2> QED  BY <1>1, <1>2, <1>4, <2>1, <2>2, <2>3, QuietRight
<1> QED
    BY <1>3, <1>4

LEMMA MalformedStep ==
    ASSUME SInv, Malformed
    PROVE  StepGood
<1>1. Good(Now, client) /\ Now.ended = "no"
    BY NowReady DEF Ready
<1>2. /\ Listening /\ protocol_error(Now)
      /\ query' = query /\ client' = client /\ prepared' = prepared /\ portal' = portal
    BY DEF Malformed
<1> HIDE DEF Now
<1>3. /\ Good(session', client) /\ StepRight(session')
      /\ session'.txn.implicit => session'.txn.failed
      /\ in_error' = TRUE
    BY <1>1, <1>2, ProtocolError
<1>4. PortalGood'
    BY <1>2, <1>3, ParsedSame DEF SInv, PortalGood
<1> QED
    BY <1>2, <1>3, <1>4, ExtendedStep

LEMMA ParseStep ==
    ASSUME SInv, NEW st \in Stmts, handle_parse(st)
    PROVE  StepGood
<1>1. Good(Now, client) /\ Now.ended = "no"
    BY NowReady DEF Ready
<1>2. Listening /\ query' = query /\ client' = client /\ portal' = portal
    BY DEF handle_parse
<1>3. CASE st.op = "SYNTAX" \/ Blocked(st)
  <2>1. protocol_error(Now) /\ prepared' = prepared
      BY <1>3 DEF handle_parse
  <2> HIDE DEF Now
  <2>2. /\ Good(session', client) /\ StepRight(session')
        /\ session'.txn.implicit => session'.txn.failed
        /\ in_error' = TRUE
      BY <1>1, <1>2, <2>1, ProtocolError
  <2>3. PortalGood'
      BY <1>2, <2>1, <2>2, ParsedSame DEF SInv, PortalGood
  <2> QED  BY <1>2, <2>2, <2>3, ExtendedStep
<1>4. CASE ~(st.op = "SYNTAX" \/ Blocked(st))
  <2>1. prepared' = st /\ session' = Now /\ in_error' = in_error
      BY <1>4 DEF handle_parse
  <2> HIDE DEF Now
  <2>2. st \in Parsed
      BY <1>4 DEF Parsed
  <2>3. PortalGood'
      BY <1>2, <2>1, <2>2, ParsedSame DEF SInv, PortalGood
  <2> QED  BY <1>2, <2>1, <2>3, QuietStep, ExtendedStep
<1> QED
    BY <1>3, <1>4

\* Bind and Describe fail before or after they take their snapshot.
LEMMA BindFails ==
    ASSUME SInv, Listening, query' = query, client' = client,
           protocol_error(Now) \/ protocol_error(Snapshot(Now)),
           prepared' = prepared, portal' = portal
    PROVE  StepGood
<1>1. Good(Now, client) /\ Now.ended = "no"
    BY NowReady DEF Ready
<1>2. Good(Snapshot(Now), client) /\ Snapshot(Now).ended = "no"
    BY <1>1, SnapshotGood
<1> DEFINE snap == Snapshot(Now)
<1>3. /\ Good(session', client) /\ StepRight(session')
      /\ session'.txn.implicit => session'.txn.failed
      /\ in_error' = TRUE
  <2>1. CASE protocol_error(Now)
    <3> HIDE DEF Now
    <3> QED  BY <1>1, <2>1, ProtocolError
  <2>2. CASE protocol_error(snap)
    <3>1. Good(snap, client) /\ snap.ended = "no"
        BY <1>2
    <3> HIDE DEF snap
    <3> QED  BY <2>2, <3>1, ProtocolError
  <2> QED  BY <2>1, <2>2
<1>4. PortalGood'
    BY <1>3, ParsedSame DEF SInv, PortalGood
<1> QED
    BY <1>3, <1>4, ExtendedStep

LEMMA BindStep ==
    ASSUME SInv, handle_bind
    PROVE  StepGood
<1>1. Listening /\ query' = query /\ client' = client /\ prepared' = prepared
    BY DEF handle_bind
<1>2. CASE (protocol_error(Now) \/ protocol_error(Snapshot(Now))) /\ portal' = portal
    BY <1>1, <1>2, BindFails
<1>3. CASE /\ prepared # NoStmt
           /\ portal' = [stmt |-> prepared, st |-> "bound", ran |-> 0]
           /\ session' = Snapshot(Now) /\ in_error' = in_error
  <2>1. PortalGood'
      BY <1>1, <1>3, ParsedSame DEF SInv, PortalGood
  <2>2. /\ Good(session', client) /\ StepRight(session')
        /\ session'.txn.implicit => session'.txn.failed
      BY <1>1, <1>3, QuietStep
  <2> QED  BY <1>1, <2>1, <2>2, ExtendedStep
<1> QED
    BY <1>2, <1>3 DEF handle_bind

LEMMA DescribeStep ==
    ASSUME SInv, handle_describe
    PROVE  StepGood
<1>1. /\ Listening /\ query' = query /\ client' = client
      /\ prepared' = prepared /\ portal' = portal
    BY DEF handle_describe
<1>2. CASE protocol_error(Now) \/ protocol_error(Snapshot(Now))
    BY <1>1, <1>2, BindFails
<1>3. CASE session' \in {Now, Snapshot(Now)} /\ in_error' = in_error
  <2>1. PortalGood'
      BY <1>1, <1>3, ParsedSame DEF SInv, PortalGood
  <2>2. /\ Good(session', client) /\ StepRight(session')
        /\ session'.txn.implicit => session'.txn.failed
      BY <1>1, <1>3, QuietStep
  <2> QED  BY <1>1, <2>1, <2>2, ExtendedStep
<1> QED
    BY <1>2, <1>3 DEF handle_describe

LEMMA CloseStep ==
    ASSUME SInv, handle_close
    PROVE  StepGood
<1>1. /\ Listening /\ query' = query /\ client' = client /\ in_error' = in_error
      /\ session' = Now
    BY DEF handle_close
<1>2. \/ prepared' = NoStmt /\ portal' = portal
      \/ portal' = NoPortal /\ prepared' = prepared
    BY DEF handle_close
<1> HIDE DEF Now
<1>3. PortalGood'
    BY <1>1, <1>2, ParsedSame DEF SInv, PortalGood, Parsed, NoPortal
<1> QED
    BY <1>1, <1>3, QuietStep, ExtendedStep

LEMMA SyncStep ==
    ASSUME SInv, Sync
    PROVE  StepGood
<1>1. /\ Good(Now, client) /\ Now.ended = "no" /\ Now.txn = session.txn
    BY NowReady DEF Ready
<1>2. /\ in_error' = FALSE /\ session' = Now
      /\ query' = query /\ client' = client /\ prepared' = prepared /\ portal' = portal
    BY DEF Sync
<1> HIDE DEF Now
<1>3. PortalGood'
    BY <1>2, ParsedSame DEF SInv, PortalGood
<1>4. QueryGood'
    BY <1>1, <1>2, QuerySame
<1> QED
    BY <1>1, <1>2, <1>3, <1>4, QuietRight DEF StepGood, SInv

LEMMA FreshGood ==
    ASSUME client \in Clients
    PROVE  /\ Good(Fresh, client) /\ Fresh.ended = "no" /\ ~Fresh.txn.implicit
           /\ NoStmt \in Parsed
           /\ NoPortal \in [stmt : Parsed, ran : 0..1, st : {"none", "bound", "suspended", "done"}]
           /\ NoPortal.st # "bound"
<1>1. client.max_stack \in Nat
    BY WorkloadType
<1> DEFINE cur == [c \in CursorNames |-> NoCursor]
<1>2. cur \in [CursorNames -> Cursor]
    BY DefaultsType
<1> HIDE DEF cur
<1>3. /\ Fresh = [txn |-> NoTxn, vars |-> Defaults, next_ro |-> None, ended |-> "no",
                  cursors |-> cur]
    BY DEF Fresh, cur
<1>4. Fresh \in SessionRec(client) /\ Fresh.txn = NoTxn /\ Fresh.cursors = cur
      /\ Fresh.ended = "no"
    BY <1>2, <1>3, DefaultsType, NoTxnType DEF SessionRec
<1>5. \A c \in CursorNames : cur[c] = NoCursor /\ cur[c].st = "none"
    BY DEF cur, NoCursor
<1>6. Good(Fresh, client)
    BY <1>1, <1>4, <1>5, ClosedGood
<1> QED
    BY <1>4, <1>6 DEF NoTxn, Parsed, NoPortal

LEMMA DisconnectStep ==
    ASSUME SInv, Disconnect
    PROVE  StepGood
<1>1. client \in Clients /\ client' = client /\ client.max_stmts \in Nat
    BY WorkloadType DEF SInv, Disconnect
<1>2. /\ session' = Fresh /\ query' = Idle /\ prepared' = NoStmt /\ portal' = NoPortal
      /\ in_error' = FALSE
    BY DEF Disconnect
<1>3. PortalGood'
    BY <1>1, <1>2, FreshGood, ParsedSame DEF PortalGood
<1>4. QueryGood'
    BY <1>1, <1>2, FreshGood, IdleType DEF QueryGood, QueryRec
<1> QED
    BY <1>1, <1>2, <1>3, <1>4, FreshGood, QuietRight DEF StepGood, SInv

\* The statement of a bound portal.
LEMMA ResultsGood ==
    ASSUME SInv, portal.st = "bound", MayIssue(session, portal.stmt),
           NEW r \in Results(portal.stmt)
    PROVE  Good(r.s, client) /\ StmtRel(Now, r)
<1>1. /\ Ready(Now) /\ Now.txn = session.txn /\ Now.vars = session.vars /\ MaxWrites \in Nat
    BY NowReady, SessionAssumption
<1>2. portal.stmt \in Stmts /\ portal.stmt.op # "SYNTAX"
    BY DEF SInv, PortalGood, Parsed
<1> DEFINE st == portal.stmt
<1>3. CASE st.op = "COPY_FROM"
  <2>1. CASE effective_read_only(session)
    <3>1. r = [s |-> Now, err |-> "copy"]
        BY <1>3, <2>1 DEF Results, Fail
    <3> HIDE DEF Now
    <3> QED  BY <1>1, <3>1, SameRel
  <2>2. CASE ~effective_read_only(session)
    <3>1. r \in CopyFrom(Now)
        BY <1>3, <2>2 DEF Results
    <3>2. session.txn.writes < MaxWrites
        BY <1>3 DEF MayIssue
    <3>3. Now.txn.writes + 1 <= MaxWrites
      <4>1. session.txn.writes \in Nat
          BY Parts, SessionAssumption DEF SInv, TxnRec
      <4> HIDE DEF Now
      <4> QED  BY <1>1, <3>2, <4>1
    <3> HIDE DEF Now
    <3> QED  BY <1>1, <3>1, <3>3, CopyResult
  <2> QED  BY <2>1, <2>2
<1>4. CASE st.op = "COPY_TO"
  <2>1. r \in CopyTo(Now)
      BY <1>4 DEF Results
  <2> HIDE DEF Now
  <2> QED  BY <1>1, <2>1, CopyResult
<1>5. CASE st.op \notin {"COPY_FROM", "COPY_TO"}
  <2>1. r \in run_statement(Now, st)
      BY <1>5 DEF Results
  <2> HIDE DEF Now
  <2>2. MayIssue(Now, st)
      BY <1>1 DEF MayIssue, LocalFields
  <2> QED  BY <1>1, <1>2, <1>5, <2>1, <2>2, StmtGood
<1> QED
    BY <1>3, <1>4, <1>5

LEMMA ExecuteStep ==
    ASSUME SInv, handle_execute
    PROVE  StepGood
<1>1. /\ Listening /\ query' = query /\ client' = client /\ prepared' = prepared
    BY DEF handle_execute
<1>2. Good(Now, client) /\ Now.ended = "no" /\ Now.txn = session.txn
    BY NowReady DEF Ready
<1>3. /\ portal \in [stmt : Parsed, ran : 0..1, st : {"none", "bound", "suspended", "done"}]
      /\ portal.st = "bound" => portal.stmt # NoStmt /\ portal.ran = 0
      /\ query.errs \subseteq {"copy"} /\ (session.txn.implicit => session.txn.failed)
    BY <1>1 DEF SInv, PortalGood, QueryGood, Listening, Idle
<1>4. CASE portal.st = "none" \/ Blocked(portal.stmt)
  <2>1. protocol_error(Now) /\ portal' = portal
      BY <1>4 DEF handle_execute
  <2> HIDE DEF Now
  <2>2. /\ Good(session', client) /\ StepRight(session')
        /\ session'.txn.implicit => session'.txn.failed
        /\ in_error' = TRUE
      BY <1>1, <1>2, <2>1, ProtocolError
  <2>3. PortalGood'
      BY <1>1, <2>1, <2>2, ParsedSame DEF SInv, PortalGood
  <2> QED  BY <1>1, <2>2, <2>3, ExtendedStep
<1>5. CASE ~Blocked(portal.stmt) /\ portal.st = "done"
  <2>1. session' = Now /\ portal' = portal /\ in_error' = in_error
      BY <1>5 DEF handle_execute
  <2> HIDE DEF Now
  <2>2. PortalGood'
      BY <1>1, <2>1, ParsedSame DEF SInv, PortalGood
  <2> QED  BY <1>1, <2>1, <2>2, QuietStep, ExtendedStep
<1>6. CASE ~Blocked(portal.stmt) /\ portal.st = "suspended"
  <2>1. /\ session' = Now /\ in_error' = in_error
        /\ \E st \in {"suspended", "done"} : portal' = [portal EXCEPT !.st = st]
      BY <1>6 DEF handle_execute
  <2> HIDE DEF Now
  <2>2. PortalGood'
      BY <1>1, <1>3, <2>1, ParsedSame DEF SInv, PortalGood
  <2> QED  BY <1>1, <2>1, <2>2, QuietStep, ExtendedStep
<1>7. CASE ~Blocked(portal.stmt) /\ portal.st = "bound"
  <2>1. PICK r \in Results(portal.stmt) :
          IF r.err # "none"
          THEN protocol_error(r.s) /\ portal' = portal
          ELSE /\ \E st \in IF HasRows(portal.stmt) THEN {"suspended", "done"} ELSE {"done"} :
                    portal' = [portal EXCEPT !.st = st, !.ran = @ + 1]
               /\ session' = r.s /\ in_error' = in_error
      BY <1>7 DEF handle_execute
  <2>2. MayIssue(session, portal.stmt)
      BY <1>7 DEF handle_execute
  <2>3. Good(r.s, client) /\ StmtRel(Now, r)
      BY <1>7, <2>2, ResultsGood
  <2>4. CASE r.err # "none"
    <3>1. protocol_error(r.s) /\ portal' = portal
        BY <2>1, <2>4
    <3>2. /\ Good(session', client) /\ StepRight(session')
          /\ session'.txn.implicit => session'.txn.failed
          /\ in_error' = TRUE
      <4> DEFINE s == r.s
      <4>1. Good(s, client) /\ \E q : s = q.s /\ q.err # "none" /\ StmtRel(Now, q)
          BY <2>3, <2>4
      <4>2. protocol_error(s)
          BY <3>1
      <4> HIDE DEF s, Now
      <4> QED  BY <1>1, <4>1, <4>2, ProtocolError
    <3>3. PortalGood'
        BY <1>1, <3>1, <3>2, ParsedSame DEF SInv, PortalGood
    <3> QED  BY <1>1, <3>2, <3>3, ExtendedStep
  <2>5. CASE r.err = "none"
    <3>1. session' = r.s /\ in_error' = in_error
        BY <2>1, <2>5
    <3>2. PICK st \in {"suspended", "done"} : portal' = [portal EXCEPT !.st = st, !.ran = @ + 1]
        BY <2>1, <2>5
    <3>3. /\ portal' \in [stmt : Parsed, ran : 0..1,
                          st : {"none", "bound", "suspended", "done"}]
          /\ portal'.st = st
      <4>1. portal.ran + 1 = 1 /\ 1 \in 0..1
          BY <1>3, <1>7
      <4>2. portal' = [portal EXCEPT !.st = st, !.ran = portal.ran + 1]
          BY <3>2
      <4> QED  BY <1>3, <4>1, <4>2
    <3>4. PortalGood'
        BY <1>1, <3>1, <3>3, ParsedSame DEF SInv, PortalGood
    <3> HIDE DEF Now
    <3>5. StepRight(session')
        BY <1>3, <2>3, <3>1, StmtStep
    <3>6. session'.txn.implicit => session'.txn.failed
        BY <1>2, <1>3, <2>3, <3>1 DEF StmtRel
    <3> QED  BY <1>1, <2>3, <3>1, <3>4, <3>5, <3>6, ExtendedStep
  <2> QED  BY <2>4, <2>5
<1> QED
    BY <1>3, <1>4, <1>5, <1>6, <1>7

\* Every step.
LEMMA StepInv ==
    ASSUME SInv, Next
    PROVE  StepGood
<1>1. ASSUME NEW n \in 1..client.max_stmts, ReceiveQuery(n) PROVE StepGood
    BY <1>1, ReceiveQueryStep
<1>2. ASSUME NEW st \in Stmts, QueryStatement(st) PROVE StepGood
    BY <1>2, QueryStatementStep
<1>3. ASSUME NEW st \in Stmts, QueryCopy(st) PROVE StepGood
    BY <1>3, QueryCopyStep
<1>4. ASSUME NEW st \in Stmts, QueryCopyGarbled(st) PROVE StepGood
    BY <1>4, QueryCopyGarbledStep
<1>5. CASE QueryEnd
    BY <1>5, QueryEndStep
<1>6. CASE Malformed
    BY <1>6, MalformedStep
<1>7. ASSUME NEW st \in Stmts, handle_parse(st) PROVE StepGood
    BY <1>7, ParseStep
<1>8. CASE handle_bind
    BY <1>8, BindStep
<1>9. CASE handle_describe
    BY <1>9, DescribeStep
<1>10. CASE handle_execute
    BY <1>10, ExecuteStep
<1>11. CASE handle_close
    BY <1>11, CloseStep
<1>12. CASE Sync
    BY <1>12, SyncStep
<1>13. CASE Disconnect
    BY <1>13, DisconnectStep
<1> QED
    BY <1>1, <1>2, <1>3, <1>4, <1>5, <1>6, <1>7, <1>8, <1>9, <1>10, <1>11, <1>12, <1>13
    DEF Next

LEMMA InitInv ==
    ASSUME Init
    PROVE  SInv
<1>1. client \in Clients /\ client.max_stmts \in Nat
    BY WorkloadType DEF Init
<1>2. /\ session = Fresh /\ query = Idle /\ prepared = NoStmt /\ portal = NoPortal
      /\ in_error = FALSE
    BY DEF Init
<1>3. PortalGood
    BY <1>1, <1>2, FreshGood DEF PortalGood
<1>4. QueryGood
    BY <1>1, <1>2, FreshGood, IdleType DEF QueryGood, QueryRec
<1> QED
    BY <1>1, <1>2, <1>3, <1>4, FreshGood DEF SInv

LEMMA StutterInv ==
    ASSUME SInv, UNCHANGED vars
    PROVE  SInv'
<1>1. /\ session' = session /\ query' = query /\ prepared' = prepared /\ portal' = portal
      /\ in_error' = in_error /\ client' = client
    BY DEF vars
<1>2. QueryGood' /\ PortalGood'
    BY <1>1, ParsedSame DEF SInv, QueryGood, PortalGood
<1> QED
    BY <1>1, <1>2 DEF SInv

\* The invariant holds after any sequence of messages, whatever the quirks: it is
\* inductive, every message keeps it (handle_query, handle_parse, handle_bind,
\* handle_execute, handle_close).
THEOREM Invariance == Spec => []SInv
<1>1. Init => SInv
    BY InitInv
<1>2. SInv /\ [Next]_vars => SInv'
    BY StepInv, StutterInv DEF StepGood
<1> QED
    BY <1>1, <1>2, PTL DEF Spec

-----------------------------------------------------------------------------
(* The theorems.                                                            *)

\* After any sequence of messages the session has its types: a closed
\* transaction has left nothing behind, the marks of the savepoints are
\* positions inside the logs that ROLLBACK TO and RELEASE cut, innermost last,
\* and a portal has run its statement at most once (server.rs: txn_savepoint,
\* txn_rollback_to, txn_release, handle_execute).
THEOREM Types == Spec => []TypeOK
<1>1. SInv => TypeOK
  <2> SUFFICES ASSUME SInv PROVE TypeOK
      OBVIOUS
  <2> DEFINE t == session.txn
  <2>1. /\ Good(session, client) /\ client \in Clients
        /\ session \in SessionRec(client) /\ t \in TxnRec(client)
        /\ t.guc_stack \in Seq(Entry) /\ session.cursors \in [CursorNames -> Cursor]
      BY Parts DEF SInv
  <2>2. MarksNested
      BY <2>1 DEF Good, Core, Nested, CursorsMarked, MarksNested
  <2>3. {t.open, t.implicit, t.failed, t.snap_set} \subseteq BOOLEAN
      BY <2>1 DEF TxnRec
  <2>4. \A e \in ToSet(t.guc_stack) : e.local \in BOOLEAN
                                      /\ DOMAIN e.saved \subseteq Fields \cup {"txn_ro"}
    <3>1. \A i \in DOMAIN t.guc_stack : t.guc_stack[i] \in Entry
        BY <2>1, ElementOfSeq, LenProperties
    <3>2. \A e \in Entry : e.local \in BOOLEAN /\ DOMAIN e.saved \subseteq CharFields
        BY DEF Entry, Saved
    <3> QED  BY <3>1, <3>2 DEF ToSet, CharFields
  <2>5. TxnType(t)
    <3>1. /\ t.read_only \in Flag /\ t.writes \in 0..MaxWrites
          /\ t.before \in Vars /\ t.want \in Vars /\ t.errs \subseteq ErrClasses
        BY <2>1 DEF TxnRec
    <3>2. /\ Len(t.guc_stack) <= client.max_stack /\ Len(t.saves) <= MaxSaves
          /\ ~t.open => t = NoTxn
        BY <2>1 DEF Good, Core, Bounded
    <3> HIDE DEF t
    <3> QED  BY <2>3, <2>4, <3>1, <3>2 DEF TxnType
  <2>6. /\ session.vars \in Vars /\ session.next_ro \in Flag
        /\ session.ended \in {"no", "commit", "abort", "rewind"}
        /\ session.cursors \in [CursorNames -> [st : {"none", "lazy", "open", "dead"},
                                               hold : BOOLEAN, depth : 0..MaxSaves]]
      BY <2>1 DEF SessionRec, Cursor
  <2>7. /\ prepared \in Stmts \cup {NoStmt}
        /\ portal \in [stmt : Stmts \cup {NoStmt}, ran : 0..1,
                       st : {"none", "bound", "suspended", "done"}]
        /\ in_error \in BOOLEAN
    <3>1. Parsed \subseteq Stmts \cup {NoStmt}
        BY DEF Parsed
    <3> QED  BY <3>1 DEF SInv, PortalGood
  <2> QED  BY <2>2, <2>5, <2>6, <2>7 DEF TypeOK, SInv, QueryGood
<1> QED
    BY <1>1, Invariance, PTL

\* Outside a transaction only WITH HOLD cursors are open; no one-shot mode of
\* SET TRANSACTION is pending inside a block; and an implicit block that
\* outlives its Query message is a failed one, for which only its rollback is
\* left (handle_query, begin_implicit_txn, commit_taken_txn).
THEOREM Boundaries == Spec => []BlockBoundary
<1>1. SInv => BlockBoundary
    BY DEF SInv, Good, Core, AtBoundary, QueryGood, BlockBoundary, HeldOutsideTxn,
           OneShotConsumed, ImplicitEndsWithQuery
<1> QED
    BY <1>1, Invariance, PTL

\* Whatever the quirks: no step commits a transaction in which the executor, the
\* parser or the extended protocol reported an error that no ROLLBACK TO undid,
\* nor an implicit block in which any statement but COPY failed, nor anything in
\* a Query message after such an error (handle_query, commit_taken_txn).
THEOREM Errors == Spec => ErrorsAbort
<1>1. SInv /\ [Next]_vars =>
        [session'.ended = "commit" =>
            /\ "exec" \notin session.txn.errs
            /\ session.txn.implicit => session.txn.errs \subseteq {"copy"}
            /\ query.errs \subseteq {"copy"}]_vars
  <2>1. ASSUME SInv, Next, session'.ended = "commit"
        PROVE  /\ "exec" \notin session.txn.errs
               /\ session.txn.implicit => session.txn.errs \subseteq {"copy"}
               /\ query.errs \subseteq {"copy"}
      BY <2>1, StepInv DEF StepGood, StepRight, CommitsRight
  <2> QED  BY <2>1
<1> QED
    BY <1>1, Invariance, PTL DEF Spec, ErrorsAbort

\* Where no setting is SET after it was SET LOCAL and no custom setting is reset by
\* RESET ALL in a block: however a block ends, an abort leaves the settings as
\* they were when it began, and a commit those that its last surviving SETs asked
\* for, every SET LOCAL undone (push_guc_entry, revert_guc_stack,
\* restore_saved_guc, txn_rollback_to).
THEOREM Settings ==
    ASSUME CommitsExact
    PROVE  Spec => SettingsAtEnd
<1>1. SInv /\ [Next]_vars =>
        [/\ session'.ended = "abort" => session'.vars = session.txn.before
         /\ session'.ended = "commit" /\ session.txn.open
              => session'.vars = session.txn.want]_vars
  <2>1. ASSUME SInv, Next
        PROVE  /\ session'.ended = "abort" => session'.vars = session.txn.before
               /\ session'.ended = "commit" /\ session.txn.open
                    => session'.vars = session.txn.want
    <3>1. StepRight(session') /\ "reset_custom" \notin Quirks
        BY <2>1, StepInv DEF StepGood, CommitsExact
    <3> QED  BY <3>1 DEF StepRight, CommitsRight
  <2> QED  BY <2>1
<1> QED
    BY <1>1, Invariance, PTL DEF Spec, SettingsAtEnd

\* Where no cursor older than the innermost savepoint is closed and no custom
\* setting is reset by RESET ALL in a block: ROLLBACK TO brings back the settings
\* and characteristics in force at the savepoint, whatever was set, released and
\* rolled back in between, and closes exactly the cursors declared since
\* (txn_rollback_to, txn_release, cursor_declare).
THEOREM Rollbacks ==
    ASSUME Quirks \cap {"redeclare", "reset_custom"} = {}
    PROVE  Spec => RollbackToRestores
<1>1. SInv /\ [Next]_vars =>
        [session'.ended = "rewind" =>
            LET m == Last(session'.txn.saves) IN
            /\ session'.vars = m.vars
            /\ session'.txn.read_only = m.ro
            /\ \A c \in CursorNames : session'.cursors[c] =
                    IF session.cursors[c].depth < Len(session'.txn.saves)
                    THEN session.cursors[c] ELSE NoCursor]_vars
  <2>1. ASSUME SInv, Next, session'.ended = "rewind"
        PROVE  LET m == Last(session'.txn.saves) IN
               /\ session'.vars = m.vars
               /\ session'.txn.read_only = m.ro
               /\ \A c \in CursorNames : session'.cursors[c] =
                       IF session.cursors[c].depth < Len(session'.txn.saves)
                       THEN session.cursors[c] ELSE NoCursor
    <3>1. RewindsRight(session, session')
        BY <2>1, StepInv DEF StepGood, StepRight
    <3>2. "reset_custom" \notin Quirks /\ "redeclare" \notin Quirks
        OBVIOUS
    <3> QED  BY <3>1, <3>2 DEF RewindsRight
  <2> QED  BY <2>1
<1> QED
    BY <1>1, Invariance, PTL DEF Spec, RollbackToRestores

=============================================================================
