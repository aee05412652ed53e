--------------------------- MODULE SequenceProofs ---------------------------
(***************************************************************************)
(* Proofs about sequence objects (SequenceObjects.tla), for any number of   *)
(* sessions, statements, savepoints, checkpoints and crashes, and any        *)
(* options of CREATE and ALTER SEQUENCE.                                     *)
(***************************************************************************)
EXTENDS SequenceObjects, TLAPS, SequenceTheorems, FiniteSetTheorems, WellFoundedInduction

\* The quirks that no theorem allows: concurrent DDL on one sequence, and what undo
\* and replay get wrong. "shrink" and "copy" are hypotheses of single theorems.
Orderly == Quirks \subseteq {"shrink", "copy"}
Exact == "copy" \notin Quirks

-----------------------------------------------------------------------------
(* Versions and the history.                                                *)

Version == [type : {"smallint", "bigint"}, increment : Ints, min : Ints, max : Ints,
            start : Ints, cycle : BOOLEAN, current : Option(Ints), is_called : BOOLEAN,
            created_xmin : Nat \ {0}, dropped_xmax : Nat]
OpRec == [op : DDL \cup {"advance"}, prev : Option(Version)]
Entry == [value : Ints, xid : Nat, copied : BOOLEAN]
Snapshot == [next_xid : Nat, active : SUBSET Nat]

\* The parameters make sense, and with them the position.
Sound(v) ==
    /\ v \in Version
    /\ v.increment # 0 /\ v.min < v.max /\ v.start \in v.min .. v.max
    /\ "shrink" \notin Quirks /\ v.current # None => v.current[1] \in v.min .. v.max

Live(v) == v.dropped_xmax = 0

\* v has gone past all these entries.
Past(v, e) ==
    /\ v.current # None /\ v.is_called
    /\ v.increment > 0 => e.value <= v.current[1]
    /\ v.increment < 0 => e.value >= v.current[1]

\* The transactions that have ended.
Ended == {x \in 1 .. next_xid - 1 : x \notin active}

-----------------------------------------------------------------------------
(* The versions and the write log of the transaction d that may have DDL in   *)
(* it, next to the ended transactions C; d is 0 when there is none.           *)

\* What is shown to the ended transactions.
IsShown(v, C) == v.created_xmin \in C /\ v.dropped_xmax \notin C
ShownParams(vs, C) == {Params(vs[i]) : i \in {k \in DOMAIN vs : IsShown(vs[k], C)}}
LiveParams(vs) == {Params(vs[i]) : i \in {k \in DOMAIN vs : Live(vs[k])}}

Fits(v, C, d) ==
    /\ Sound(v)
    /\ v.created_xmin \in C \cup {d}
    /\ v.dropped_xmax \in {0, d} \cup C
    /\ v.created_xmin = d => v.dropped_xmax \in {0, d}

Apart(v, w, C) ==
    /\ ~(v.created_xmin = w.created_xmin /\ v.created_xmin \in C)
    /\ ~(Live(v) /\ Live(w))
    /\ ~(IsShown(v, C) /\ IsShown(w, C))

Shape(vs, C, d) ==
    /\ vs \in Seq(Version)
    /\ \A i \in DOMAIN vs : Fits(vs[i], C, d)
    /\ \A i, j \in DOMAIN vs : i # j => Apart(vs[i], vs[j], C)

Ddl(w) == w.op \in DDL
IsFirst(W, j) == Ddl(W[j]) /\ \A h \in 1 .. j - 1 : ~Ddl(W[h])
IsLast(W, n, j) == Ddl(W[j]) /\ \A h \in j + 1 .. n : ~Ddl(W[h])
Follows(W, i, j) == i < j /\ Ddl(W[i]) /\ Ddl(W[j]) /\ \A h \in i + 1 .. j - 1 : ~Ddl(W[h])

\* What a write log may hold: DDL on the sequence there was before the block comes
\* first, and what the block itself has created is gone once it has dropped it.
LogShape(C, d, W) ==
    /\ W \in Seq(OpRec)
    /\ \A j \in DOMAIN W : Ddl(W[j]) =>
        /\ W[j].op = "create" <=> W[j].prev = None
        /\ W[j].prev # None =>
            /\ Sound(W[j].prev[1]) /\ Live(W[j].prev[1])
            /\ W[j].prev[1].created_xmin \in C \cup {d}
            /\ IsFirst(W, j) <=> W[j].prev[1].created_xmin \in C
    /\ \A i, j \in DOMAIN W : Follows(W, i, j) =>
        IF W[j].op = "create"
        THEN W[i].op = "drop" /\ W[i].prev[1].created_xmin \in C
        ELSE W[i].op # "drop" /\ W[j].prev[1].created_xmin = d

Xids(vs) == {vs[i].created_xmin : i \in DOMAIN vs} \cup {vs[i].dropped_xmax : i \in DOMAIN vs}

Untouched(vs, d) == \A i \in DOMAIN vs : vs[i].created_xmin # d /\ vs[i].dropped_xmax # d

\* The last op done, and what the first one has found.
LastDone(vs, C, d, w) ==
    IF w.op # "drop"
    THEN \E i \in DOMAIN vs : Live(vs[i]) /\ vs[i].created_xmin = d
    ELSE /\ \A i \in DOMAIN vs : ~Live(vs[i])
         /\ \E i \in DOMAIN vs : /\ vs[i].created_xmin = w.prev[1].created_xmin
                                 /\ vs[i].dropped_xmax = d
         /\ w.prev[1].created_xmin \in C => \A i \in DOMAIN vs : vs[i].created_xmin # d

FirstDone(vs, C, d, w) ==
    IF w.prev # None
    THEN \E i \in DOMAIN vs : vs[i] = [w.prev[1] EXCEPT !.dropped_xmax = d]
    ELSE \A i \in DOMAIN vs : vs[i].created_xmin \in C => vs[i].dropped_xmax \in C

\* The versions are those after the first n ops of the log.
After(vs, C, d, W, n) ==
    /\ (\A j \in 1 .. n : ~Ddl(W[j])) => Untouched(vs, d)
    /\ \A j \in 1 .. n : IsLast(W, n, j) => LastDone(vs, C, d, W[j])
    /\ \A j \in 1 .. n : IsFirst(W, j) => FirstDone(vs, C, d, W[j])

LogGood(vs, C, d, W) == LogShape(C, d, W) /\ After(vs, C, d, W, Len(W))

\* The transactions that have ended, and the one with the DDL.
Apt(C, d) == C \subseteq Nat \ {0} /\ d \in Nat /\ d \notin C

\* What undoing a DDL op brings back.
Brought(vs, prev) ==
    IF prev = None THEN \A i \in DOMAIN vs : ~Live(vs[i])
    ELSE \E i \in DOMAIN vs : vs[i] = prev[1]

-----------------------------------------------------------------------------
(* What a restart would read.                                               *)

RecordRec == [kind : DDL \cup {"advance"}, seq : Version, xid : Nat]

FilesGood ==
    /\ image.next_xid \in 1 .. next_xid
    /\ image.versions \in Seq(Version) /\ Len(image.versions) <= 1
    /\ \A i \in DOMAIN image.versions :
        /\ Sound(image.versions[i]) /\ Live(image.versions[i])
        /\ image.versions[i].created_xmin < image.next_xid
    /\ log \in Seq(RecordRec)
    /\ \A i \in DOMAIN log : log[i].xid < next_xid /\ (log[i].kind # "advance" => log[i].xid > 0)

\* The xids that the files show to have been used.
Logged == {x \in Nat \ {0} : x < image.next_xid \/ \E k \in DOMAIN log : x = log[k].xid}

\* The rebuilt versions show what the versions in memory show to everyone.
Rebuilt(R, vs, C, L) ==
    /\ Shape(R, C, 0)
    /\ \A i \in DOMAIN R : R[i].created_xmin \in L /\ R[i].dropped_xmax \in L \cup {0}
    /\ LiveParams(R) = ShownParams(vs, C)

-----------------------------------------------------------------------------
(* The inductive invariant.                                                 *)

Held(s) == Has(txn[s].writes, DDL)

TxnRec == [xid : Nat, level : {"RC", "RR"}, snap : Snapshot, writes : Seq(OpRec),
           saves : Seq(Nat), failed : BOOLEAN]

\* Each savepoint lies within the write log, and within those set after it.
SavesGood(t) ==
    \A i \in DOMAIN t.saves : /\ t.saves[i] <= Len(t.writes)
                              /\ \A j \in 1 .. i : t.saves[j] <= t.saves[i]

HistoryGood(h, n) == h \in Seq(Entry) /\ \A i \in DOMAIN h : h[i].xid < n

Types ==
    /\ next_xid \in 1 .. MaxXid
    /\ active = {txn[s].xid : s \in {o \in Sessions : InTxn(o)}}
    /\ active \subseteq 1 .. next_xid - 1
    /\ advanced \in BOOLEAN
    /\ txn \in [Sessions -> TxnRec]
    /\ \A s \in Sessions : SavesGood(txn[s]) /\ (~InTxn(s) => txn[s] = NoTxn)
    /\ \A s, o \in Sessions : InTxn(s) /\ txn[s].xid = txn[o].xid => s = o
    /\ HistoryGood(issued, next_xid)

\* One block at a time has DDL, and no one reads an old snapshot beside it.
Solo ==
    \A s \in Sessions : \A o \in Sessions \ {s} :
        Held(s) => ~Held(o) /\ txn[o].snap = NoSnapshot

\* A snapshot shows the versions that a new one would show.
SnapshotsFresh ==
    \A s \in Sessions : txn[s].snap # NoSnapshot =>
        \A x \in Xids(versions) \ {0, txn[s].xid} : InSnapshot(x, txn[s].snap) <=> x \in Ended

Blocks ==
    /\ (\A s \in Sessions : ~Held(s)) => Shape(versions, Ended, 0)
    /\ \A s \in Sessions : Held(s) => /\ Shape(versions, Ended, txn[s].xid)
                                     /\ LogGood(versions, Ended, txn[s].xid, txn[s].writes)

SInv ==
    /\ Types
    /\ Solo
    /\ SnapshotsFresh
    /\ Blocks
    /\ FilesGood
    /\ Replayable => Rebuilt(Recovered, versions, Ended, Logged)

-----------------------------------------------------------------------------
(* The recursive functions of the model.                                    *)

\* A set of numbers that is not empty has a least one.
LEMMA Least ==
    ASSUME NEW T, T \subseteq Nat, T # {}
    PROVE  \E x \in T : \A y \in T : x <= y
<1> DEFINE R == OpToRel(<, Nat)
<1>1. PICK m \in T : \A y \in T : ~ (<<y, m>> \in R)
    <2> HIDE DEF R
    <2>1. IsWellFoundedOn(R, Nat)
        BY NatLessThanWellFounded DEF R
    <2> QED  BY <2>1, WFMin
<1>2. ASSUME NEW y \in T PROVE m <= y
    <2>1. ~ (y < m)
        BY <1>1 DEF OpToRel
    <2> QED  BY <2>1
<1> QED  BY <1>2

PickStep(s, K, out, n) ==
    IF n = 0 THEN <<>> ELSE IF n \in K THEN Append(out[n - 1], s[n]) ELSE out[n - 1]

LEMMA PickExists ==
    ASSUME NEW s, Len(s) \in Nat, NEW K
    PROVE  \E out : /\ out = [n \in 0 .. Len(s) |-> PickStep(s, K, out, n)]
                    /\ Picked(s, K) = out[Len(s)]
<1> DEFINE N == Len(s)
           Sol(m, u) == u = [n \in 0 .. m |-> PickStep(s, K, u, n)]
           Bad == {m \in 0 .. N : ~\E u : Sol(m, u)}
<1>1. Bad = {}
  <2> SUFFICES ASSUME Bad # {} PROVE FALSE
      OBVIOUS
  <2>1. PICK m \in Bad : \A y \in Bad : m <= y
    <3>1. Bad \subseteq Nat
        BY SMT
    <3> HIDE DEF Bad
    <3> QED  BY <3>1, Least
  <2>2. CASE m = 0
    <3> DEFINE u == [n \in 0 .. 0 |-> <<>>]
    <3>1. Sol(0, u)
        BY DEF PickStep
    <3> QED  BY <2>2, <2>1, <3>1
  <2>3. CASE m # 0
    <3>1. m - 1 \in 0 .. N /\ m - 1 \notin Bad /\ m \in Nat
        BY <2>1, <2>3
    <3>2. PICK v : Sol(m - 1, v)
        BY <3>1
    <3> DEFINE u == [n \in 0 .. m |-> IF n = m THEN PickStep(s, K, v, n) ELSE v[n]]
    <3>3. \A n \in 0 .. m - 1 : v[n] = PickStep(s, K, v, n)
        BY <3>2
    <3>4. \A n \in 0 .. m : PickStep(s, K, u, n) = PickStep(s, K, v, n)
        BY <3>1 DEF PickStep
    <3>5. Sol(m, u)
        BY <3>1, <3>3, <3>4
    <3> QED  BY <3>5, <2>1
  <2> QED  BY <2>2, <2>3
<1>2. PICK u : Sol(N, u)
    BY <1>1
<1>3. Picked(s, K) = (CHOOSE w : Sol(N, w))[N]
    BY DEF Picked, PickStep
<1>4. Sol(N, CHOOSE w : Sol(N, w))
    BY <1>2
<1> QED  BY <1>3, <1>4

\* e lists K in order, and out is s at e.
Lists(S, s, K, out, e) ==
    /\ out \in Seq(S)
    /\ e \in [1 .. Len(out) -> K]
    /\ \A i \in 1 .. Len(out) : out[i] = s[e[i]]
    /\ \A i, j \in 1 .. Len(out) : i < j => e[i] < e[j]
    /\ \A k \in K : \E i \in 1 .. Len(out) : e[i] = k

LEMMA UpTo ==
    ASSUME NEW K, \A k \in K : k \in Nat /\ 1 <= k, NEW m \in Nat
    PROVE  /\ {k \in K : k <= 0} = {}
           /\ m \notin K => {k \in K : k <= m} = {k \in K : k <= m - 1}
           /\ m \in K => \A k : k \in {i \in K : i <= m} <=> k \in {i \in K : i <= m - 1} \/ k = m
<1>1. \A k \in K : ~(k <= 0)
    OBVIOUS
<1>2. m \notin K => \A k \in K : k <= m <=> k <= m - 1
    OBVIOUS
<1>3. m \in K => \A k \in K : k <= m <=> k <= m - 1 \/ k = m
    OBVIOUS
<1> QED  BY <1>1, <1>2, <1>3, Zenon

LEMMA PickedLists ==
    ASSUME NEW S, NEW s \in Seq(S), NEW K \in SUBSET (1 .. Len(s))
    PROVE  \E e : Lists(S, s, K, Picked(s, K), e)
<1> DEFINE N == Len(s)
<1>0. N \in Nat /\ \A k \in K : k \in Nat /\ 1 <= k /\ k <= N
    BY LenProperties
<1>1. PICK out : /\ out = [n \in 0 .. N |-> PickStep(s, K, out, n)]
                 /\ Picked(s, K) = out[N]
    BY <1>0, PickExists
<1> DEFINE P(n) == \E e : Lists(S, s, {k \in K : k <= n}, out[n], e)
           Bad == {n \in 0 .. N : ~P(n)}
<1>2. Bad = {}
  <2> SUFFICES ASSUME Bad # {} PROVE FALSE
      OBVIOUS
  <2>1. PICK m \in Bad : \A y \in Bad : m <= y
    <3>1. Bad \subseteq Nat
        BY <1>0, SMT
    <3> HIDE DEF Bad
    <3> QED  BY <3>1, Least
  <2>2. CASE m = 0
    <3>1. out[0] = <<>>
        BY <1>0, <1>1 DEF PickStep
    <3>2. {k \in K : k <= 0} = {}
        BY <1>0, UpTo
    <3>3. Lists(S, s, {}, <<>>, [i \in 1 .. 0 |-> 0])
        BY DEF Lists
    <3> QED  BY <2>1, <2>2, <3>1, <3>2, <3>3
  <2>3. CASE m # 0
    <3>1. m \in 1 .. N /\ m - 1 \in 0 .. N /\ m - 1 \notin Bad
      <4> HIDE DEF P
      <4> QED  BY <1>0, <2>1, <2>3
    <3>2. PICK e : Lists(S, s, {k \in K : k <= m - 1}, out[m - 1], e)
        BY <3>1
    <3>3. out[m] = PickStep(s, K, out, m)
        BY <1>1, <3>1
    <3> DEFINE o == out[m - 1]
               L == {k \in K : k <= m - 1}
    <3>4. Lists(S, s, L, o, e)
        BY <3>2
    <3>5. CASE m \notin K
      <4>0. m \in Nat
          BY <1>0, <3>1
      <4>1. {k \in K : k <= m} = L
          BY <4>0, <1>0, <3>5, UpTo, Zenon
      <4>2. out[m] = o
          BY <3>3, <3>5, <2>3 DEF PickStep
      <4> QED  BY <2>1, <3>4, <4>1, <4>2
    <3>6. CASE m \in K
      <4> DEFINE M == {k \in K : k <= m}
                 f == [i \in 1 .. Len(o) + 1 |-> IF i = Len(o) + 1 THEN m ELSE e[i]]
                 p == Append(o, s[m])
      <4>1. out[m] = p
          BY <3>3, <3>6, <2>3 DEF PickStep
      <4>2. \A k : k \in M <=> k \in L \/ k = m
          BY <1>0, <3>1, <3>6, UpTo
      <4>3. \A k \in L : k < m
          BY <1>0, <3>1
      <4>4. s[m] \in S /\ o \in Seq(S) /\ Len(o) \in Nat
          BY <3>1, <3>4, ElementOfSeq, LenProperties DEF Lists
      <4> HIDE DEF L, M, o
      <4>5. p \in Seq(S) /\ Len(p) = Len(o) + 1 /\ p[Len(o) + 1] = s[m]
            /\ \A i \in 1 .. Len(o) : p[i] = o[i]
          BY <4>4, AppendProperties
      <4> HIDE DEF p
      <4>11. \A i \in 1 .. Len(p) : i = Len(o) + 1 \/ i \in 1 .. Len(o)
          BY <4>4, <4>5
      <4>12. \A i \in 1 .. Len(o) : e[i] \in L /\ o[i] = s[e[i]]
          BY <3>4 DEF Lists
      <4>13. f[Len(o) + 1] = m /\ \A i \in 1 .. Len(o) : f[i] = e[i]
          BY <4>4
      <4>14. \A i \in 1 .. Len(p) : f[i] \in M
          BY <4>2, <4>11, <4>12, <4>13
      <4>6. f \in [1 .. Len(p) -> M]
          BY <4>5, <4>14
      <4> HIDE DEF f
      <4>7. \A i \in 1 .. Len(p) : p[i] = s[f[i]]
          BY <4>5, <4>11, <4>12, <4>13
      <4>8. ASSUME NEW i \in 1 .. Len(p), NEW j \in 1 .. Len(p), i < j PROVE f[i] < f[j]
        <5>1. i \in 1 .. Len(o)
            BY <4>4, <4>5, <4>8
        <5>2. CASE j = Len(o) + 1
            BY <4>3, <4>12, <4>13, <5>1, <5>2
        <5>3. CASE j # Len(o) + 1
          <6>1. j \in 1 .. Len(o)
              BY <4>11, <5>3
          <6>2. e[i] < e[j]
              BY <3>4, <4>8, <5>1, <6>1 DEF Lists
          <6> QED  BY <4>13, <5>1, <6>1, <6>2
        <5> QED  BY <5>2, <5>3
      <4>9. \A k \in M : \E i \in 1 .. Len(p) : f[i] = k
        <5>1. ASSUME NEW k \in L PROVE \E i \in 1 .. Len(p) : f[i] = k
          <6>1. PICK i \in 1 .. Len(o) : e[i] = k
              BY <3>4 DEF Lists
          <6> QED  BY <4>4, <4>5, <4>13, <6>1
        <5>2. Len(o) + 1 \in 1 .. Len(p) /\ f[Len(o) + 1] = m
            BY <4>4, <4>5, <4>13
        <5> QED  BY <4>2, <5>1, <5>2
      <4>10. Lists(S, s, M, p, f)
          BY <4>5, <4>6, <4>7, <4>8, <4>9 DEF Lists
      <4> QED  BY <2>1, <4>1, <4>10 DEF M
    <3> QED  BY <3>5, <3>6
  <2> QED  BY <2>2, <2>3
<1>3. {k \in K : k <= N} = K
    BY <1>0
<1>4. P(N)
  <2> HIDE DEF P
  <2> QED  BY <1>0, <1>2
<1> QED
    BY <1>1, <1>3, <1>4

\* The ops undone one by one.
UndoStep(vs, xid, writes, u, n) == IF n = 0 THEN vs ELSE undo_write_op(u[n - 1], xid, writes[Len(writes) - n + 1])

LEMMA UndoExists ==
    ASSUME NEW vs, NEW xid, NEW writes, Len(writes) \in Nat
    PROVE  \E u : /\ u[0] = vs
                  /\ \A n \in 1 .. Len(writes) : u[n] = undo_write_op(u[n - 1], xid, writes[Len(writes) - n + 1])
                  /\ undo_all(vs, xid, writes) = u[Len(writes)]
<1> DEFINE N == Len(writes)
           Sol(m, u) == u = [n \in 0 .. m |-> UndoStep(vs, xid, writes, u, n)]
           Bad == {m \in 0 .. N : ~\E u : Sol(m, u)}
<1>1. Bad = {}
  <2> SUFFICES ASSUME Bad # {} PROVE FALSE
      OBVIOUS
  <2>1. PICK m \in Bad : \A y \in Bad : m <= y
    <3>1. Bad \subseteq Nat
        BY SMT
    <3> HIDE DEF Bad
    <3> QED  BY <3>1, Least
  <2>2. CASE m = 0
    <3> DEFINE u == [n \in 0 .. 0 |-> vs]
    <3>1. Sol(0, u)
        BY DEF UndoStep
    <3> QED  BY <2>2, <2>1, <3>1
  <2>3. CASE m # 0
    <3>1. m - 1 \in 0 .. N /\ m - 1 \notin Bad /\ m \in Nat
        BY <2>1, <2>3
    <3>2. PICK v : Sol(m - 1, v)
        BY <3>1
    <3> DEFINE u == [n \in 0 .. m |-> IF n = m THEN UndoStep(vs, xid, writes, v, n) ELSE v[n]]
    <3>3. \A n \in 0 .. m - 1 : v[n] = UndoStep(vs, xid, writes, v, n)
        BY <3>2
    <3>4. \A n \in 0 .. m : UndoStep(vs, xid, writes, u, n) = UndoStep(vs, xid, writes, v, n)
        BY <3>1 DEF UndoStep
    <3>5. Sol(m, u)
        BY <3>1, <3>3, <3>4
    <3> QED  BY <3>5, <2>1
  <2> QED  BY <2>2, <2>3
<1>2. PICK u : Sol(N, u)
    BY <1>1
<1>3. undo_all(vs, xid, writes) = (CHOOSE w : Sol(N, w))[N]
    BY DEF undo_all, UndoStep
<1> DEFINE w == CHOOSE w : Sol(N, w)
<1>4. Sol(N, w)
    BY <1>2
<1>5. \A n \in 0 .. N : w[n] = UndoStep(vs, xid, writes, w, n)
    BY <1>4
<1> HIDE DEF w
<1>6. w[0] = vs /\ \A n \in 1 .. N : w[n] = undo_write_op(w[n - 1], xid, writes[Len(writes) - n + 1])
    BY <1>5 DEF UndoStep
<1> QED  BY <1>3, <1>6 DEF w

\* The records of the ops.
RecordStep(vs, xid, writes, u, n) == IF n = 0 THEN <<>> ELSE u[n - 1] \o RecordOf(vs, xid, writes[n])

RecordRun(vs, xid, writes, u) ==
    /\ u[0] = <<>>
    /\ \A n \in 1 .. Len(writes) : u[n] = u[n - 1] \o RecordOf(vs, xid, writes[n])
    /\ records_for_commit(vs, xid, writes) = u[Len(writes)]

LEMMA RecordsExist ==
    ASSUME NEW vs, NEW xid, NEW writes, Len(writes) \in Nat
    PROVE  \E u : RecordRun(vs, xid, writes, u)
<1> DEFINE N == Len(writes)
           Sol(m, u) == u = [n \in 0 .. m |-> RecordStep(vs, xid, writes, u, n)]
           Bad == {m \in 0 .. N : ~\E u : Sol(m, u)}
<1>1. Bad = {}
  <2> SUFFICES ASSUME Bad # {} PROVE FALSE
      OBVIOUS
  <2>1. PICK m \in Bad : \A y \in Bad : m <= y
    <3>1. Bad \subseteq Nat
        BY SMT
    <3> HIDE DEF Bad
    <3> QED  BY <3>1, Least
  <2>2. CASE m = 0
    <3> DEFINE u == [n \in 0 .. 0 |-> <<>>]
    <3>1. Sol(0, u)
        BY DEF RecordStep
    <3> QED  BY <2>2, <2>1, <3>1
  <2>3. CASE m # 0
    <3>1. m - 1 \in 0 .. N /\ m - 1 \notin Bad /\ m \in Nat
        BY <2>1, <2>3
    <3>2. PICK v : Sol(m - 1, v)
        BY <3>1
    <3> DEFINE u == [n \in 0 .. m |-> IF n = m THEN RecordStep(vs, xid, writes, v, n) ELSE v[n]]
    <3>3. \A n \in 0 .. m - 1 : v[n] = RecordStep(vs, xid, writes, v, n)
        BY <3>2
    <3>4. \A n \in 0 .. m : RecordStep(vs, xid, writes, u, n) = RecordStep(vs, xid, writes, v, n)
        BY <3>1 DEF RecordStep
    <3>5. Sol(m, u)
        BY <3>1, <3>3, <3>4
    <3> QED  BY <3>5, <2>1
  <2> QED  BY <2>2, <2>3
<1>2. PICK u : Sol(N, u)
    BY <1>1
<1>3. records_for_commit(vs, xid, writes) = (CHOOSE w : Sol(N, w))[N]
    BY DEF records_for_commit, RecordStep
<1> DEFINE w == CHOOSE w : Sol(N, w)
<1>4. Sol(N, w)
    BY <1>2
<1>5. \A n \in 0 .. N : w[n] = RecordStep(vs, xid, writes, w, n)
    BY <1>4
<1> HIDE DEF w
<1>6. w[0] = <<>> /\ \A n \in 1 .. N : w[n] = w[n - 1] \o RecordOf(vs, xid, writes[n])
  <2>1. 0 \in 0 .. N /\ \A n \in 1 .. N : n \in 0 .. N /\ n # 0
      OBVIOUS
  <2> HIDE DEF N
  <2> QED  BY <1>5, <2>1, Zenon DEF RecordStep
<1>7. RecordRun(vs, xid, writes, w)
    BY <1>3, <1>6 DEF w, RecordRun
<1> QED  BY <1>7

\* The records replayed one by one.
ReplayStep(vs, records, u, n) == IF n = 0 THEN vs ELSE apply_record(u[n - 1], records[n])

ReplayRun(vs, records, u) ==
    /\ u[0] = vs
    /\ \A n \in 1 .. Len(records) : u[n] = apply_record(u[n - 1], records[n])
    /\ Replayed(vs, records) = u[Len(records)]

LEMMA ReplayExists ==
    ASSUME NEW vs, NEW records, Len(records) \in Nat
    PROVE  \E u : ReplayRun(vs, records, u)
<1> DEFINE N == Len(records)
           Sol(m, u) == u = [n \in 0 .. m |-> ReplayStep(vs, records, u, n)]
           Bad == {m \in 0 .. N : ~\E u : Sol(m, u)}
<1>1. Bad = {}
  <2> SUFFICES ASSUME Bad # {} PROVE FALSE
      OBVIOUS
  <2>1. PICK m \in Bad : \A y \in Bad : m <= y
    <3>1. Bad \subseteq Nat
        BY SMT
    <3> HIDE DEF Bad
    <3> QED  BY <3>1, Least
  <2>2. CASE m = 0
    <3> DEFINE u == [n \in 0 .. 0 |-> vs]
    <3>1. Sol(0, u)
        BY DEF ReplayStep
    <3> QED  BY <2>2, <2>1, <3>1
  <2>3. CASE m # 0
    <3>1. m - 1 \in 0 .. N /\ m - 1 \notin Bad /\ m \in Nat
        BY <2>1, <2>3
    <3>2. PICK v : Sol(m - 1, v)
        BY <3>1
    <3> DEFINE u == [n \in 0 .. m |-> IF n = m THEN ReplayStep(vs, records, v, n) ELSE v[n]]
    <3>3. \A n \in 0 .. m - 1 : v[n] = ReplayStep(vs, records, v, n)
        BY <3>2
    <3>4. \A n \in 0 .. m : ReplayStep(vs, records, u, n) = ReplayStep(vs, records, v, n)
        BY <3>1 DEF ReplayStep
    <3>5. Sol(m, u)
        BY <3>1, <3>3, <3>4
    <3> QED  BY <3>5, <2>1
  <2> QED  BY <2>2, <2>3
<1>2. PICK u : Sol(N, u)
    BY <1>1
<1>3. Replayed(vs, records) = (CHOOSE w : Sol(N, w))[N]
    BY DEF Replayed, ReplayStep
<1> DEFINE w == CHOOSE w : Sol(N, w)
<1>4. Sol(N, w)
    BY <1>2
<1>5. \A n \in 0 .. N : w[n] = ReplayStep(vs, records, w, n)
    BY <1>4
<1> HIDE DEF w
<1>6. w[0] = vs /\ \A n \in 1 .. N : w[n] = apply_record(w[n - 1], records[n])
    BY <1>5 DEF ReplayStep
<1>7. ReplayRun(vs, records, w)
  <2>1. Replayed(vs, records) = w[N]
      BY <1>3 DEF w
  <2> QED  BY <1>6, <2>1 DEF ReplayRun
<1> QED  BY <1>7

\* Replay goes on where it was.
LEMMA ReplayConcat ==
    ASSUME NEW vs, NEW r1 \in Seq(RecordRec), NEW r2 \in Seq(RecordRec)
    PROVE  Replayed(vs, r1 \o r2) = Replayed(Replayed(vs, r1), r2)
<1> DEFINE N == Len(r1)
           M == Len(r2)
           r == r1 \o r2
<1>0. /\ N \in Nat /\ M \in Nat /\ r \in Seq(RecordRec) /\ Len(r) = N + M
      /\ \A n \in 1 .. N : r[n] = r1[n]
      /\ \A n \in 1 .. M : r[N + n] = r2[n]
    BY ConcatProperties, LenProperties
<1> HIDE DEF r, N, M
<1>1. PICK u : /\ u[0] = vs
               /\ \A n \in 1 .. N : u[n] = apply_record(u[n - 1], r1[n])
               /\ Replayed(vs, r1) = u[N]
  <2>1. Len(r1) = N /\ N \in Nat
      BY <1>0 DEF N
  <2>2. Len(r1) \in Nat
      BY <2>1
  <2>3. PICK u : ReplayRun(vs, r1, u)
      BY <2>2, ReplayExists
  <2> QED  BY <2>1, <2>3 DEF ReplayRun
<1>2. PICK v : /\ v[0] = u[N]
               /\ \A n \in 1 .. M : v[n] = apply_record(v[n - 1], r2[n])
               /\ Replayed(u[N], r2) = v[M]
  <2>1. Len(r2) = M /\ M \in Nat
      BY <1>0 DEF M
  <2>2. Len(r2) \in Nat
      BY <2>1
  <2>3. PICK v : ReplayRun(u[N], r2, v)
      BY <2>2, ReplayExists
  <2> QED  BY <2>1, <2>3 DEF ReplayRun
<1>3. PICK w : /\ w[0] = vs
               /\ \A n \in 1 .. N + M : w[n] = apply_record(w[n - 1], r[n])
               /\ Replayed(vs, r) = w[N + M]
  <2>1. Len(r) = N + M /\ N + M \in Nat
      BY <1>0
  <2>2. Len(r) \in Nat
      BY <2>1
  <2>3. PICK w : ReplayRun(vs, r, w)
      BY <2>2, ReplayExists
  <2> QED  BY <2>1, <2>3 DEF ReplayRun
<1>4. ASSUME NEW n \in Nat, n <= N PROVE w[n] = u[n]
  <2> DEFINE Bad == {k \in 0 .. N : w[k] # u[k]}
  <2>1. ASSUME Bad # {} PROVE FALSE
    <3>1. PICK m \in Bad : \A y \in Bad : m <= y
      <4>1. Bad \subseteq Nat
          BY <1>0
      <4> HIDE DEF Bad
      <4> QED  BY <2>1, <4>1, Least
    <3>2. m # 0
        BY <3>1, <1>1, <1>3
    <3>3. m \in 1 .. N /\ m \in 1 .. N + M /\ m - 1 \in 0 .. N /\ m - 1 \notin Bad
        BY <1>0, <3>1, <3>2
    <3>4. w[m - 1] = u[m - 1] /\ r[m] = r1[m]
        BY <3>3, <1>0
    <3>5. w[m] = u[m]
        BY <3>3, <3>4, <1>1, <1>3
    <3> QED  BY <3>1, <3>5
  <2>2. n \in 0 .. N
    <3>1. N \in Nat
        BY <1>0
    <3> QED  BY <1>4, <3>1
  <2> QED  BY <2>1, <2>2
<1>5. ASSUME NEW n \in Nat, n <= M PROVE w[N + n] = v[n]
  <2> DEFINE Bad == {k \in 0 .. M : w[N + k] # v[k]}
  <2>1. ASSUME Bad # {} PROVE FALSE
    <3>1. PICK m \in Bad : \A y \in Bad : m <= y
      <4>1. Bad \subseteq Nat
          BY <1>0
      <4> HIDE DEF Bad
      <4> QED  BY <2>1, <4>1, Least
    <3>2. m # 0
        BY <3>1, <1>0, <1>2, <1>4
    <3>3. /\ m \in 1 .. M /\ N + m \in 1 .. N + M /\ m - 1 \in 0 .. M
          /\ N + (m - 1) = (N + m) - 1 /\ ~(m <= m - 1)
        BY <1>0, <3>1, <3>2
    <3>6. m - 1 \notin Bad
        BY <3>1, <3>3
    <3>4. w[(N + m) - 1] = v[m - 1] /\ r[N + m] = r2[m]
        BY <3>3, <3>6, <1>0
    <3>5. w[N + m] = v[m]
      <4>1. w[N + m] = apply_record(w[(N + m) - 1], r[N + m])
          BY <1>3, <3>3
      <4>2. v[m] = apply_record(v[m - 1], r2[m])
          BY <1>2, <3>3
      <4> QED  BY <3>4, <4>1, <4>2
    <3>7. w[N + m] # v[m]
        BY <3>1
    <3> QED  BY <3>5, <3>7, Zenon
  <2>2. n \in 0 .. M
      BY <1>0, <1>5
  <2>3. n \notin Bad
      BY <2>1, Zenon
  <2> QED  BY <2>2, <2>3, Zenon
<1>6. w[N + M] = v[M]
    BY <1>0, <1>5
<1> QED
    BY <1>1, <1>2, <1>3, <1>6 DEF r

\* The place that a search from the front, or from the back, finds.
LEMMA MinOf ==
    ASSUME NEW I \in SUBSET Nat, I # {}
    PROVE  Min(I) \in I /\ \A y \in I : Min(I) <= y
<1>1. \E x \in I : \A y \in I : x <= y
    BY Least
<1> QED  BY <1>1 DEF Min

LEMMA FirstOf ==
    ASSUME NEW I, NEW N \in Nat, I \subseteq 1 .. N
    PROVE  LET m == IF I # {} THEN Min(I) ELSE 0
           IN  (m = 0 /\ I = {}) \/ (m \in 1 .. N /\ m \in I)
<1>1. I \in SUBSET Nat
    OBVIOUS
<1>2. CASE I = {}
    BY <1>2
<1>3. CASE I # {}
  <2>1. Min(I) \in I
      BY <1>1, <1>3, MinOf
  <2> QED  BY <1>3, <2>1
<1> QED  BY <1>2, <1>3

LEMMA LastOf ==
    ASSUME NEW I, NEW N \in Nat, I \subseteq 1 .. N
    PROVE  LET m == IF I # {} THEN Max(I) ELSE 0
           IN  (m = 0 /\ I = {}) \/ (m \in 1 .. N /\ m \in I /\ \A y \in I : y <= m)
<1>1. CASE I # {}
  <2> DEFINE T == {N - x : x \in I}
  <2>0. \A x \in I : x \in Nat /\ N - x \in Nat
      OBVIOUS
  <2>1. T \subseteq Nat /\ T # {}
      BY <1>1, <2>0
  <2>2. PICK y \in T : \A z \in T : y <= z
    <3> HIDE DEF T
    <3> QED  BY <2>1, Least
  <2>3. PICK m \in I : y = N - m
      BY <2>2
  <2>4. ASSUME NEW x \in I PROVE x <= m
    <3>1. N - x \in T
        OBVIOUS
    <3>2. N - m <= N - x
        BY <2>2, <2>3, <3>1
    <3> QED  BY <2>0, <2>3, <3>2
  <2>5. \E x \in I : \A z \in I : x >= z
      BY <2>0, <2>3, <2>4
  <2>6. Max(I) \in I /\ \A z \in I : Max(I) >= z
      BY <2>5 DEF Max
  <2>7. \A z \in I : z \in Nat
      BY <2>0
  <2> QED  BY <1>1, <2>6, <2>7
<1> QED  BY <1>1

LEMMA FindVisible ==
    ASSUME NEW vs, Len(vs) \in Nat, NEW snap, NEW own
    PROVE  LET i == find_sequence(vs, snap, own) IN
           \/ i = 0 /\ \A j \in 1 .. Len(vs) : ~seq_visible(vs[j], snap, own)
           \/ i \in 1 .. Len(vs) /\ seq_visible(vs[i], snap, own)
<1> DEFINE I == {i \in 1 .. Len(vs) : seq_visible(vs[i], snap, own)}
<1>1. find_sequence(vs, snap, own) = IF I # {} THEN Min(I) ELSE 0
    BY DEF find_sequence, SelectInSeq
<1>2. I \subseteq 1 .. Len(vs)
    OBVIOUS
<1>3. \A i : i \in I <=> i \in 1 .. Len(vs) /\ seq_visible(vs[i], snap, own)
    OBVIOUS
<1> HIDE DEF I
<1> QED  BY <1>1, <1>2, <1>3, FirstOf

\* The first version, or the last, that x has created, ...
CreatedBy(vs, x) == SelectInSeq(vs, LAMBDA v : v.created_xmin = x)

LEMMA FindCreated ==
    ASSUME NEW vs, Len(vs) \in Nat, NEW x
    PROVE  LET i == CreatedBy(vs, x) IN
           \/ i = 0 /\ \A j \in 1 .. Len(vs) : ~(vs[j].created_xmin = x)
           \/ i \in 1 .. Len(vs) /\ vs[i].created_xmin = x
<1> DEFINE I == {i \in 1 .. Len(vs) : vs[i].created_xmin = x}
<1>1. CreatedBy(vs, x) = IF I # {} THEN Min(I) ELSE 0
    BY DEF CreatedBy, SelectInSeq
<1>2. I \subseteq 1 .. Len(vs)
    OBVIOUS
<1>3. \A i : i \in I <=> i \in 1 .. Len(vs) /\ vs[i].created_xmin = x
    OBVIOUS
<1> HIDE DEF I
<1> QED  BY <1>1, <1>2, <1>3, FirstOf

LastCreatedBy(vs, x) == SelectLastInSeq(vs, LAMBDA v : v.created_xmin = x)

LEMMA FindLastCreated ==
    ASSUME NEW vs, Len(vs) \in Nat, NEW x
    PROVE  LET i == LastCreatedBy(vs, x) IN
           \/ i = 0 /\ \A j \in 1 .. Len(vs) : ~(vs[j].created_xmin = x)
           \/ i \in 1 .. Len(vs) /\ vs[i].created_xmin = x
<1> DEFINE I == {i \in 1 .. Len(vs) : vs[i].created_xmin = x}
<1>1. LastCreatedBy(vs, x) = IF I # {} THEN Max(I) ELSE 0
    BY DEF LastCreatedBy, SelectLastInSeq
<1>2. I \subseteq 1 .. Len(vs)
    OBVIOUS
<1>3. \A i : i \in I <=> i \in 1 .. Len(vs) /\ vs[i].created_xmin = x
    OBVIOUS
<1> HIDE DEF I
<1> QED  BY <1>1, <1>2, <1>3, LastOf

\* ... that y has dropped, ...
DroppedBy(vs, y) == SelectInSeq(vs, LAMBDA v : v.dropped_xmax = y)

LEMMA FindDropped ==
    ASSUME NEW vs, Len(vs) \in Nat, NEW y
    PROVE  LET i == DroppedBy(vs, y) IN
           \/ i = 0 /\ \A j \in 1 .. Len(vs) : ~(vs[j].dropped_xmax = y)
           \/ i \in 1 .. Len(vs) /\ vs[i].dropped_xmax = y
<1> DEFINE I == {i \in 1 .. Len(vs) : vs[i].dropped_xmax = y}
<1>1. DroppedBy(vs, y) = IF I # {} THEN Min(I) ELSE 0
    BY DEF DroppedBy, SelectInSeq
<1>2. I \subseteq 1 .. Len(vs)
    OBVIOUS
<1>3. \A i : i \in I <=> i \in 1 .. Len(vs) /\ vs[i].dropped_xmax = y
    OBVIOUS
<1> HIDE DEF I
<1> QED  BY <1>1, <1>2, <1>3, FirstOf

\* ... and that x has created and y dropped.
CreatedDropped(vs, x, y) == SelectInSeq(vs, LAMBDA v : v.created_xmin = x /\ v.dropped_xmax = y)

LEMMA FindCreatedDropped ==
    ASSUME NEW vs, Len(vs) \in Nat, NEW x, NEW y
    PROVE  LET i == CreatedDropped(vs, x, y) IN
           \/ i = 0 /\ \A j \in 1 .. Len(vs) : ~(vs[j].created_xmin = x /\ vs[j].dropped_xmax = y)
           \/ i \in 1 .. Len(vs) /\ vs[i].created_xmin = x /\ vs[i].dropped_xmax = y
<1> DEFINE I == {i \in 1 .. Len(vs) : vs[i].created_xmin = x /\ vs[i].dropped_xmax = y}
<1>1. CreatedDropped(vs, x, y) = IF I # {} THEN Min(I) ELSE 0
    BY DEF CreatedDropped, SelectInSeq
<1>2. I \subseteq 1 .. Len(vs)
    OBVIOUS
<1>3. \A i : i \in I <=> i \in 1 .. Len(vs) /\ vs[i].created_xmin = x /\ vs[i].dropped_xmax = y
    OBVIOUS
<1> HIDE DEF I
<1> QED  BY <1>1, <1>2, <1>3, FirstOf

-----------------------------------------------------------------------------
(* Options and new versions.                                                *)

LEMMA Options ==
    /\ \A S, o : o \in Option(S) <=> o = None \/ \E x \in S : o = <<x>>
    /\ \A x : <<x>> # None /\ <<x>>[1] = x
    BY DEF Option, None, Some

LEMMA Bounds ==
    /\ IntMax \in Nat \ {0} /\ SmallMax \in Nat /\ SmallMax <= IntMax
    /\ Ints = -IntMax - 1 .. IntMax
    /\ \A t : TypeMin(t) \in Ints /\ TypeMax(t) \in Ints /\ TypeMin(t) <= -1 /\ 0 <= TypeMax(t)
    BY SequencesAssumption DEF Ints, TypeMin, TypeMax

LEMMA OrElseIn ==
    ASSUME NEW S, NEW o \in Option(S), NEW x \in S
    PROVE  OrElse(o, x) \in S
    BY Options DEF OrElse

\* The parameters of a version that is there, or None.
Given(cur) == cur = None \/ \E v : Sound(v) /\ cur = <<v>>

\* What sequence_params accepts makes sense.
LEMMA ResolvedSound ==
    ASSUME NEW cur, Given(cur), NEW opts \in Opts, sequence_params(opts, cur)
    PROVE  LET p == Resolved(opts, cur) IN
           /\ p \in [type : {"smallint", "bigint"}, increment : Ints, min : Ints, max : Ints,
                     start : Ints, cycle : BOOLEAN]
           /\ p.increment # 0 /\ p.min < p.max /\ p.start \in p.min .. p.max
<1> DEFINE p == Resolved(opts, cur)
<1>1. opts.increment \in Option(Ints) /\ opts.type \in Option({"smallint", "bigint"})
      /\ opts.cycle \in Option(BOOLEAN) /\ opts.start \in Option(Ints)
      /\ opts.min \in Option(Ints) /\ opts.max \in Option(Ints)
    BY DEF Opts
<1>2. cur # None => cur[1] \in Version
    BY Options DEF Given, Sound
<1>3. p.type \in {"smallint", "bigint"}
  <2> DEFINE x == IF cur = None THEN "bigint" ELSE cur[1].type
  <2>1. x \in {"smallint", "bigint"}
      BY <1>2 DEF Version
  <2>2. p.type = OrElse(opts.type, x)
      BY DEF Resolved
  <2> HIDE DEF x, p
  <2>3. OrElse(opts.type, x) \in {"smallint", "bigint"}
      BY <1>1, <2>1, OrElseIn, Zenon
  <2> QED  BY <2>2, <2>3
<1>4. p.increment \in Ints
  <2> DEFINE x == IF cur = None THEN 1 ELSE cur[1].increment
  <2>1. cur # None => cur[1].increment \in Ints
      BY <1>2, Bounds DEF Version
  <2>2. p.increment = OrElse(opts.increment, x)
      BY DEF Resolved
  <2>3. p.increment # 0
      BY DEF sequence_params
  <2> HIDE DEF p
  <2>4. OrElse(opts.increment, x) \in Ints
    <3>1. CASE opts.increment = None
      <4>1. x \in Ints
          BY <2>1, Bounds
      <4> QED  BY <3>1, <4>1 DEF OrElse
    <3> QED  BY <1>1, <3>1, Options DEF OrElse
  <2> QED  BY <2>2, <2>4
<1>5. p.cycle \in BOOLEAN
    BY <1>1, <1>2, OrElseIn DEF Resolved, Version
<1>6. p.max \in Ints
  <2>1. \/ cur # None /\ p.max = OrElse(opts.max, cur[1].max)
        \/ p.max = OrElse(opts.max, -1)
        \/ p.max = OrElse(opts.max, TypeMax(p.type))
      BY DEF Resolved
  <2>2. TypeMax(p.type) \in Ints /\ -1 \in Ints
      BY Bounds
  <2>3. cur # None => cur[1].max \in Ints
      BY <1>2 DEF Version
  <2> HIDE DEF p
  <2>4. CASE cur # None /\ p.max = OrElse(opts.max, cur[1].max)
      BY <1>1, <2>3, <2>4, OrElseIn
  <2>5. OrElse(opts.max, -1) \in Ints
      BY <1>1, <2>2, OrElseIn
  <2>6. OrElse(opts.max, TypeMax(p.type)) \in Ints
      BY <1>1, <2>2, OrElseIn
  <2> QED  BY <2>1, <2>4, <2>5, <2>6
<1>7. p.min \in Ints
  <2>1. \/ cur # None /\ p.min = OrElse(opts.min, cur[1].min)
        \/ p.min = OrElse(opts.min, 1)
        \/ p.min = OrElse(opts.min, TypeMin(p.type))
      BY DEF Resolved
  <2>2. TypeMin(p.type) \in Ints /\ 1 \in Ints
      BY Bounds
  <2>3. cur # None => cur[1].min \in Ints
      BY <1>2 DEF Version
  <2> HIDE DEF p
  <2>4. CASE cur # None /\ p.min = OrElse(opts.min, cur[1].min)
      BY <1>1, <2>3, <2>4, OrElseIn
  <2>5. OrElse(opts.min, 1) \in Ints
      BY <1>1, <2>2, OrElseIn
  <2>6. OrElse(opts.min, TypeMin(p.type)) \in Ints
      BY <1>1, <2>2, OrElseIn
  <2> QED  BY <2>1, <2>4, <2>5, <2>6
<1>8. p.increment # 0 /\ p.min < p.max /\ p.start \in p.min .. p.max
    BY DEF sequence_params
<1>9. p.start \in Ints
  <2> HIDE DEF p
  <2> QED  BY <1>6, <1>7, <1>8, Bounds
<1>10. p = [type |-> p.type, increment |-> p.increment, min |-> p.min, max |-> p.max,
            start |-> p.start, cycle |-> p.cycle]
    BY DEF Resolved
<1> HIDE DEF p
<1>11. p \in [type : {"smallint", "bigint"}, increment : Ints, min : Ints, max : Ints,
              start : Ints, cycle : BOOLEAN]
    BY <1>3, <1>4, <1>5, <1>6, <1>7, <1>9, <1>10
<1> QED
    BY <1>8, <1>11 DEF p

LEMMA CreatedSound ==
    ASSUME NEW opts \in Opts, sequence_params(opts, None), NEW xid \in Nat \ {0}
    PROVE  LET v == NewVersion(Resolved(opts, None), xid) IN
           Sound(v) /\ Live(v) /\ v.created_xmin = xid /\ v.current = None /\ ~v.is_called
<1>1. Given(None)
    BY DEF Given
<1> DEFINE p == Resolved(opts, None)
<1>2. /\ p \in [type : {"smallint", "bigint"}, increment : Ints, min : Ints, max : Ints,
                start : Ints, cycle : BOOLEAN]
      /\ p.increment # 0 /\ p.min < p.max /\ p.start \in p.min .. p.max
    BY <1>1, ResolvedSound
<1> HIDE DEF p
<1>3. Sound(NewVersion(p, xid))
    BY <1>2, Options DEF Sound, NewVersion, Version
<1> QED
    BY <1>3 DEF p, NewVersion, Live

LEMMA AlteredSound ==
    ASSUME NEW v, Sound(v), NEW opts \in Opts, sequence_params(opts, Some(v)),
           NEW xid \in Nat \ {0},
           "shrink" \notin Quirks =>
                LET new == Altered(v, opts, xid)
                IN  new.current # None => new.current[1] \in new.min .. new.max
    PROVE  LET new == Altered(v, opts, xid)
               r == Restart(opts, new) IN
           /\ Sound(new) /\ Live(new) /\ new.created_xmin = xid
           /\ r = None => new.current = v.current /\ new.is_called = v.is_called
<1> DEFINE p == Resolved(opts, Some(v))
           r == Restart(opts, p)
           new == Altered(v, opts, xid)
<1>1. Given(Some(v))
    BY DEF Given, Some
<1>2. /\ p \in [type : {"smallint", "bigint"}, increment : Ints, min : Ints, max : Ints,
                start : Ints, cycle : BOOLEAN]
      /\ p.increment # 0 /\ p.min < p.max /\ p.start \in p.min .. p.max
    BY <1>1, ResolvedSound
<1>3. new = [NewVersion(p, xid) EXCEPT !.current = IF r = None THEN v.current ELSE r,
                                       !.is_called = r = None /\ v.is_called]
    BY DEF Altered
<1>4. v.current \in Option(Ints) /\ v.is_called \in BOOLEAN
    BY DEF Sound, Version
<1>5. r \in Option(Ints)
  <2>1. r = IF opts.restart_start THEN <<p.start>> ELSE opts.restart
      BY DEF Restart, Some
  <2>2. opts.restart \in Option(Ints) /\ opts.restart_start \in BOOLEAN
      BY DEF Opts
  <2> HIDE DEF p, r
  <2> QED  BY <1>2, <2>1, <2>2, Options
<1> HIDE DEF p, r, new
<1>6. /\ new.type = p.type /\ new.increment = p.increment /\ new.min = p.min
      /\ new.max = p.max /\ new.start = p.start /\ new.cycle = p.cycle
      /\ new.current = (IF r = None THEN v.current ELSE r)
      /\ new.is_called = (r = None /\ v.is_called)
      /\ new.created_xmin = xid /\ new.dropped_xmax = 0
    BY <1>3 DEF NewVersion
<1>7. new = [type |-> p.type, increment |-> p.increment, min |-> p.min, max |-> p.max,
             start |-> p.start, cycle |-> p.cycle, current |-> IF r = None THEN v.current ELSE r,
             is_called |-> r = None /\ v.is_called, created_xmin |-> xid, dropped_xmax |-> 0]
    BY <1>3 DEF NewVersion
<1>8. new \in Version
    BY <1>2, <1>4, <1>5, <1>7 DEF Version
<1>9. Sound(new)
    BY <1>2, <1>6, <1>8 DEF Sound, new
<1>10. Restart(opts, new) = r
    BY <1>6 DEF Restart, r
<1> QED
    BY <1>4, <1>6, <1>9, <1>10 DEF Live, new

-----------------------------------------------------------------------------
(* Lists of versions: fewer, one changed, one more.                         *)

LEMMA VersionLen ==
    ASSUME NEW vs \in Seq(Version)
    PROVE  Len(vs) \in Nat /\ DOMAIN vs = 1 .. Len(vs) /\ \A i \in DOMAIN vs : vs[i] \in Version
    BY LenProperties, ElementOfSeq

LEMMA ShapeSub ==
    ASSUME NEW vs, NEW C, NEW d, Shape(vs, C, d), NEW ks \in Seq(Version),
           NEW e \in [DOMAIN ks -> DOMAIN vs], \A i \in DOMAIN ks : ks[i] = vs[e[i]],
           \A i, j \in DOMAIN ks : i # j => e[i] # e[j]
    PROVE  Shape(ks, C, d)
    BY DEF Shape

LEMMA ShapeSet ==
    ASSUME NEW vs, NEW C, NEW d, Shape(vs, C, d), NEW i \in DOMAIN vs, NEW v, Fits(v, C, d),
           \A j \in DOMAIN vs : j # i => Apart(v, vs[j], C)
    PROVE  /\ Shape([vs EXCEPT ![i] = v], C, d)
           /\ Len([vs EXCEPT ![i] = v]) = Len(vs)
           /\ DOMAIN [vs EXCEPT ![i] = v] = DOMAIN vs
           /\ \A j \in DOMAIN vs : [vs EXCEPT ![i] = v][j] = IF j = i THEN v ELSE vs[j]
<1> DEFINE ws == [vs EXCEPT ![i] = v]
<1>1. vs \in Seq(Version) /\ v \in Version
    BY DEF Shape, Fits, Sound
<1>2. Len(vs) \in Nat /\ DOMAIN vs = 1 .. Len(vs)
    BY <1>1, VersionLen
<1>3. ws \in Seq(Version) /\ Len(ws) = Len(vs)
    BY <1>1, <1>2, ExceptSeq
<1>4. DOMAIN ws = DOMAIN vs /\ \A j \in DOMAIN vs : ws[j] = IF j = i THEN v ELSE vs[j]
    BY <1>1
<1> HIDE DEF ws
<1>5. \A j \in DOMAIN ws : Fits(ws[j], C, d)
    BY <1>4 DEF Shape
<1>6. \A j, k \in DOMAIN ws : j # k => Apart(ws[j], ws[k], C)
  <2>1. \A j \in DOMAIN vs : j # i => Apart(vs[j], v, C)
      BY DEF Apart
  <2> QED  BY <1>4, <2>1 DEF Shape
<1>7. Shape(ws, C, d)
    BY <1>3, <1>5, <1>6 DEF Shape
<1> QED  BY <1>3, <1>4, <1>7 DEF ws

LEMMA ShapeAppend ==
    ASSUME NEW vs, NEW C, NEW d, Shape(vs, C, d), NEW v, Fits(v, C, d),
           \A j \in DOMAIN vs : Apart(v, vs[j], C)
    PROVE  /\ Shape(Append(vs, v), C, d)
           /\ Len(Append(vs, v)) = Len(vs) + 1
           /\ DOMAIN Append(vs, v) = DOMAIN vs \cup {Len(vs) + 1}
           /\ Append(vs, v)[Len(vs) + 1] = v
           /\ \A j \in DOMAIN vs : Append(vs, v)[j] = vs[j]
<1> DEFINE ws == Append(vs, v)
<1>1. vs \in Seq(Version) /\ v \in Version
    BY DEF Shape, Fits, Sound
<1>2. Len(vs) \in Nat /\ DOMAIN vs = 1 .. Len(vs)
    BY <1>1, VersionLen
<1>3. /\ ws \in Seq(Version) /\ Len(ws) = Len(vs) + 1 /\ ws[Len(vs) + 1] = v
      /\ \A j \in 1 .. Len(vs) : ws[j] = vs[j]
    BY <1>1, AppendProperties
<1> HIDE DEF ws
<1>4. DOMAIN ws = 1 .. Len(vs) + 1
    BY <1>3, VersionLen
<1>5. DOMAIN ws = DOMAIN vs \cup {Len(vs) + 1}
    BY <1>2, <1>4
<1>6. \A j \in DOMAIN ws : Fits(ws[j], C, d)
    BY <1>2, <1>3, <1>5 DEF Shape
<1>7. \A j, k \in DOMAIN ws : j # k => Apart(ws[j], ws[k], C)
  <2>1. \A j \in DOMAIN vs : Apart(vs[j], v, C)
      BY DEF Apart
  <2> QED  BY <1>2, <1>3, <1>5, <2>1 DEF Shape
<1>8. Shape(ws, C, d)
    BY <1>3, <1>6, <1>7 DEF Shape
<1> QED  BY <1>2, <1>3, <1>5, <1>8 DEF ws

\* What undo_write_op keeps.
LEMMA KeptList ==
    ASSUME NEW vs, NEW C, NEW d, Shape(vs, C, d), NEW K \in SUBSET DOMAIN vs
    PROVE  LET ks == Picked(vs, K) IN
           /\ Shape(ks, C, d)
           /\ \A i \in DOMAIN ks : \E k \in K : ks[i] = vs[k]
           /\ \A k \in K : \E i \in DOMAIN ks : ks[i] = vs[k]
           /\ \A i, j \in DOMAIN ks : i # j => \E k, l \in K : k # l /\ ks[i] = vs[k] /\ ks[j] = vs[l]
<1> DEFINE ks == Picked(vs, K)
<1>1. vs \in Seq(Version) /\ Len(vs) \in Nat /\ DOMAIN vs = 1 .. Len(vs)
    BY VersionLen DEF Shape
<1>2. PICK e : Lists(Version, vs, K, ks, e)
  <2>1. K \in SUBSET (1 .. Len(vs))
      BY <1>1
  <2> QED  BY <1>1, <2>1, PickedLists
<1> HIDE DEF ks
<1>3. ks \in Seq(Version) /\ Len(ks) \in Nat /\ DOMAIN ks = 1 .. Len(ks)
    BY <1>2, VersionLen DEF Lists
<1>4. /\ e \in [DOMAIN ks -> K]
      /\ \A i \in DOMAIN ks : ks[i] = vs[e[i]]
      /\ \A k \in K : \E i \in DOMAIN ks : e[i] = k
    BY <1>2, <1>3 DEF Lists
<1>5. ASSUME NEW i \in DOMAIN ks, NEW j \in DOMAIN ks, i # j PROVE e[i] # e[j]
  <2>1. i \in Nat /\ j \in Nat /\ e[i] \in Nat /\ e[j] \in Nat
      BY <1>1, <1>3, <1>4
  <2>2. (i < j => e[i] < e[j]) /\ (j < i => e[j] < e[i])
      BY <1>2, <1>3 DEF Lists
  <2> QED  BY <1>5, <2>1, <2>2
<1>6. Shape(ks, C, d)
    BY <1>3, <1>4, <1>5, ShapeSub
<1> QED  BY <1>4, <1>5, <1>6 DEF ks

\* What the ended transactions are shown depends on who is shown and how.
LEMMA ShownEq ==
    ASSUME NEW vs, NEW ws, NEW C,
           \A i \in DOMAIN vs : IsShown(vs[i], C) =>
                \E j \in DOMAIN ws : IsShown(ws[j], C) /\ Params(ws[j]) = Params(vs[i]),
           \A j \in DOMAIN ws : IsShown(ws[j], C) =>
                \E i \in DOMAIN vs : IsShown(vs[i], C) /\ Params(vs[i]) = Params(ws[j])
    PROVE  ShownParams(ws, C) = ShownParams(vs, C)
<1>1. ASSUME NEW p PROVE p \in ShownParams(ws, C) <=> p \in ShownParams(vs, C)
    BY DEF ShownParams
<1> QED  BY <1>1

\* The only live version.
LEMMA OneOnly ==
    ASSUME NEW vs, NEW C, NEW d, Shape(vs, C, d), NEW i \in DOMAIN vs, NEW j \in DOMAIN vs
    PROVE  /\ Live(vs[i]) /\ Live(vs[j]) => i = j
           /\ IsShown(vs[i], C) /\ IsShown(vs[j], C) => i = j
           /\ vs[i].created_xmin = vs[j].created_xmin /\ vs[i].created_xmin \in C => i = j
    BY DEF Shape, Apart


-----------------------------------------------------------------------------
(* Undoing one op.                                                          *)

LEMMA LogLen ==
    ASSUME NEW C, NEW d, NEW W, LogShape(C, d, W)
    PROVE  W \in Seq(OpRec) /\ Len(W) \in Nat /\ DOMAIN W = 1 .. Len(W) /\ \A j \in DOMAIN W : W[j] \in OpRec
<1>1. W \in Seq(OpRec)
    BY DEF LogShape
<1> QED  BY <1>1, LenProperties, ElementOfSeq

\* The log before its last op.
LEMMA LogBack ==
    ASSUME NEW vs, NEW ws, NEW C, NEW d, NEW W, LogShape(C, d, W), NEW n \in DOMAIN W,
           Ddl(W[n]), After(vs, C, d, W, n)
    PROVE  /\ LastDone(vs, C, d, W[n])
           /\ IsFirst(W, n) => FirstDone(vs, C, d, W[n])
           /\ \A j \in 1 .. n - 1 : IsFirst(W, j) => FirstDone(vs, C, d, W[j])
           /\ /\ IsFirst(W, n) => Untouched(ws, d)
              /\ \A j \in 1 .. n - 1 : Follows(W, j, n) => LastDone(ws, C, d, W[j])
              /\ \A j \in 1 .. n - 1 : IsFirst(W, j) => FirstDone(ws, C, d, W[j])
              => After(ws, C, d, W, n - 1)
<1>1. Len(W) \in Nat /\ n \in 1 .. Len(W)
    BY LogLen
<1>2. n \in 1 .. n /\ n + 1 .. n = {} /\ \A j \in 1 .. n - 1 : j \in 1 .. n
    BY <1>1
<1>3. IsLast(W, n, n)
    BY <1>2 DEF IsLast
<1>4. \A j \in 1 .. n - 1 : IsLast(W, n - 1, j) => Follows(W, j, n)
    BY <1>1 DEF IsLast, Follows
<1>5. (\A j \in 1 .. n - 1 : ~Ddl(W[j])) => IsFirst(W, n)
    BY DEF IsFirst
<1> QED
    BY <1>2, <1>3, <1>4, <1>5 DEF After

\* A step that leaves C what it is shown.
Undone(vs, ws, C, d, prev) ==
    Shape(ws, C, d) /\ Brought(ws, prev) /\ ShownParams(ws, C) = ShownParams(vs, C)

\* The versions of others.
Others(vs, d) == {i \in DOMAIN vs : vs[i].created_xmin # d}

AreOthers(ks, vs, C, d) ==
    /\ Shape(ks, C, d)
    /\ \A i \in DOMAIN ks : \E k \in DOMAIN vs : ks[i] = vs[k]
    /\ \A i \in DOMAIN ks : ks[i].created_xmin # d /\ ks[i].created_xmin \in C
    /\ \A k \in DOMAIN vs : vs[k].created_xmin # d => \E i \in DOMAIN ks : ks[i] = vs[k]
    /\ ShownParams(ks, C) = ShownParams(vs, C)

LEMMA KeptOthers ==
    ASSUME NEW vs, NEW C, NEW d, Apt(C, d), Shape(vs, C, d)
    PROVE  AreOthers(Picked(vs, Others(vs, d)), vs, C, d)
<1> DEFINE K == Others(vs, d)
           ks == Picked(vs, K)
<1>1. K \in SUBSET DOMAIN vs /\ \A k : k \in K <=> k \in DOMAIN vs /\ vs[k].created_xmin # d
    BY DEF Others
<1> HIDE DEF K
<1>2. /\ Shape(ks, C, d)
      /\ \A i \in DOMAIN ks : \E k \in K : ks[i] = vs[k]
      /\ \A k \in K : \E i \in DOMAIN ks : ks[i] = vs[k]
    BY <1>1, KeptList
<1> HIDE DEF ks
<1>3. \A i \in DOMAIN ks : ks[i].created_xmin # d /\ ks[i].created_xmin \in C
    BY <1>1, <1>2 DEF Shape, Fits
<1>4. ShownParams(ks, C) = ShownParams(vs, C)
  <2>1. \A k \in DOMAIN vs : IsShown(vs[k], C) => k \in K
      BY <1>1 DEF IsShown, Apt
  <2>2. \A k \in DOMAIN vs : IsShown(vs[k], C) => \E i \in DOMAIN ks : ks[i] = vs[k]
      BY <1>2, <2>1
  <2>3. \A i \in DOMAIN ks : \E k \in DOMAIN vs : ks[i] = vs[k]
      BY <1>1, <1>2
  <2> QED  BY <2>2, <2>3, ShownEq
<1>5. AreOthers(ks, vs, C, d)
    BY <1>1, <1>2, <1>3, <1>4 DEF AreOthers
<1> QED  BY <1>5 DEF ks, K

LEMMA UndoCreate ==
    ASSUME NEW vs, NEW C, NEW d, NEW W, Apt(C, d), Shape(vs, C, d), LogShape(C, d, W),
           NEW n \in DOMAIN W, After(vs, C, d, W, n), W[n].op = "create"
    PROVE  LET ws == undo_write_op(vs, d, W[n]) IN
           Undone(vs, ws, C, d, W[n].prev) /\ After(ws, C, d, W, n - 1)
<1> DEFINE ws == Picked(vs, Others(vs, d))
<1>1. undo_write_op(vs, d, W[n]) = ws
    BY DEF undo_write_op, Others
<1>2. Ddl(W[n]) /\ W[n].op # "drop"
    BY DEF Ddl, DDL
<1>3. W[n].prev = None
    BY <1>2 DEF LogShape
<1>4. /\ Shape(ws, C, d)
      /\ \A i \in DOMAIN ws : \E k \in DOMAIN vs : ws[i] = vs[k]
      /\ \A i \in DOMAIN ws : ws[i].created_xmin # d /\ ws[i].created_xmin \in C
      /\ \A k \in DOMAIN vs : vs[k].created_xmin # d => \E i \in DOMAIN ws : ws[i] = vs[k]
      /\ ShownParams(ws, C) = ShownParams(vs, C)
  <2>1. AreOthers(ws, vs, C, d)
      BY KeptOthers
  <2> HIDE DEF ws
  <2> QED  BY <2>1 DEF AreOthers
<1> HIDE DEF ws
<1>5. \E i \in DOMAIN vs : Live(vs[i]) /\ vs[i].created_xmin = d
    BY <1>2, LogBack DEF LastDone
<1>6. \A i \in DOMAIN ws : ~Live(ws[i])
    BY <1>4, <1>5, OneOnly
<1>7. IsFirst(W, n) => Untouched(ws, d)
  <2>1. ASSUME IsFirst(W, n) PROVE \A i \in DOMAIN vs : vs[i].created_xmin \in C => vs[i].dropped_xmax \in C
      BY <1>2, <1>3, <2>1, LogBack DEF FirstDone
  <2> QED  BY <1>4, <2>1 DEF Untouched, Apt
<1>8. ASSUME NEW j \in 1 .. n - 1, IsFirst(W, j) PROVE FirstDone(ws, C, d, W[j])
  <2>1. FirstDone(vs, C, d, W[j])
      BY <1>2, <1>8, LogBack
  <2>2. j \in DOMAIN W
      BY LogLen
  <2>3. CASE W[j].prev # None
    <3>1. PICK i \in DOMAIN vs : vs[i] = [W[j].prev[1] EXCEPT !.dropped_xmax = d]
        BY <2>1, <2>3 DEF FirstDone
    <3>2. W[j].prev[1].created_xmin \in C /\ W[j].prev[1] \in Version
        BY <1>8, <2>2, <2>3 DEF LogShape, IsFirst, Sound
    <3>3. vs[i].created_xmin # d
      <4> DEFINE p == W[j].prev[1]
      <4>1. p.created_xmin \in C /\ p \in Version /\ vs[i] = [p EXCEPT !.dropped_xmax = d]
          BY <3>1, <3>2
      <4> HIDE DEF p
      <4>2. vs[i].created_xmin = p.created_xmin
          BY <4>1 DEF Version
      <4> QED  BY <4>1, <4>2 DEF Apt
    <3>4. PICK k \in DOMAIN ws : ws[k] = vs[i]
        BY <1>4, <3>3
    <3> QED  BY <2>3, <3>1, <3>4 DEF FirstDone
  <2>4. CASE W[j].prev = None
      BY <1>4, <2>1, <2>4 DEF FirstDone
  <2> QED  BY <2>3, <2>4
<1>9. ASSUME NEW j \in 1 .. n - 1, Follows(W, j, n) PROVE LastDone(ws, C, d, W[j])
  <2>1. j \in DOMAIN W
      BY LogLen
  <2>2. W[j].op = "drop" /\ W[j].prev[1].created_xmin \in C
      BY <1>9, <2>1 DEF LogShape
  <2>3. Ddl(W[j]) /\ W[j].prev # None
      BY <1>9, <2>1, <2>2 DEF LogShape, Follows
  <2>4. IsFirst(W, j) /\ W[j].prev[1] \in Version
      BY <2>1, <2>2, <2>3 DEF LogShape, Sound
  <2>5. PICK i \in DOMAIN ws : ws[i] = [W[j].prev[1] EXCEPT !.dropped_xmax = d]
      BY <1>8, <2>3, <2>4 DEF FirstDone
  <2>6. ws[i].created_xmin = W[j].prev[1].created_xmin /\ ws[i].dropped_xmax = d
      BY <2>4, <2>5 DEF Version
  <2> QED  BY <1>4, <1>6, <2>2, <2>6 DEF LastDone
<1>10. After(ws, C, d, W, n - 1)
    BY <1>2, <1>7, <1>8, <1>9, LogBack
<1>11. Undone(vs, ws, C, d, W[n].prev)
    BY <1>3, <1>4, <1>6 DEF Undone, Brought
<1> QED  BY <1>1, <1>10, <1>11


\* A DDL op that is not CREATE has found a version.
LEMMA OpPrev ==
    ASSUME NEW C, NEW d, NEW W, Apt(C, d), LogShape(C, d, W), NEW n \in DOMAIN W,
           W[n].op \in {"alter", "drop"}
    PROVE  /\ Ddl(W[n]) /\ W[n].prev # None
           /\ W[n].prev[1] \in Version /\ Sound(W[n].prev[1]) /\ Live(W[n].prev[1])
           /\ IsFirst(W, n) => W[n].prev[1].created_xmin \in C
           /\ ~IsFirst(W, n) => W[n].prev[1].created_xmin = d
           /\ d # 0 => Fits(W[n].prev[1], C, d)
<1>1. Ddl(W[n]) /\ W[n].op # "create"
    BY DEF Ddl, DDL
<1>2. W[n].prev # None
    BY <1>1 DEF LogShape
<1> DEFINE p == W[n].prev[1]
<1>3. Sound(p) /\ Live(p) /\ p.created_xmin \in C \cup {d} /\ (IsFirst(W, n) <=> p.created_xmin \in C)
    BY <1>1, <1>2 DEF LogShape
<1> HIDE DEF p
<1>4. p \in Version /\ (d # 0 => Fits(p, C, d))
    BY <1>3 DEF Sound, Fits, Live, Apt
<1> QED  BY <1>1, <1>2, <1>3, <1>4 DEF p

\* What undoing the block's first DDL op brings back in its place.
LEMMA PutBack ==
    ASSUME NEW vs, NEW C, NEW d, Apt(C, d), d # 0, Shape(vs, C, d), NEW p, Fits(p, C, d), Live(p),
           p.created_xmin \in C, \A i \in DOMAIN vs : ~Live(vs[i]),
           \A i \in DOMAIN vs : vs[i].created_xmin # d,
           NEW b \in DOMAIN vs, vs[b] = [p EXCEPT !.dropped_xmax = d],
           NEW i \in DOMAIN vs, vs[i].created_xmin = p.created_xmin
    PROVE  LET ws == [vs EXCEPT ![i] = p] IN
           Undone(vs, ws, C, d, <<p>>) /\ Untouched(ws, d)
<1> DEFINE ws == [vs EXCEPT ![i] = p]
<1>1. p \in Version
    BY DEF Fits, Sound
<1>2. vs[b].created_xmin = p.created_xmin /\ vs[b].dropped_xmax = d /\ Params(vs[b]) = Params(p)
    BY <1>1 DEF Version, Params
<1>3. i = b
  <2>1. vs[i].created_xmin = vs[b].created_xmin /\ vs[i].created_xmin \in C
      BY <1>2
  <2> QED  BY <2>1, OneOnly
<1>4. IsShown(vs[i], C) /\ IsShown(p, C)
    BY <1>2, <1>3 DEF IsShown, Apt, Live
<1>5. \A j \in DOMAIN vs : j # i => ~IsShown(vs[j], C)
    BY <1>4, OneOnly
<1>6. \A j \in DOMAIN vs : j # i => vs[j].created_xmin # p.created_xmin
    BY <1>2, <1>3, OneOnly
<1>7. \A j \in DOMAIN vs : j # i => Apart(p, vs[j], C)
    BY <1>5, <1>6 DEF Apart
<1>8. /\ Shape(ws, C, d) /\ DOMAIN ws = DOMAIN vs
      /\ \A j \in DOMAIN vs : ws[j] = IF j = i THEN p ELSE vs[j]
    BY <1>7, ShapeSet
<1> HIDE DEF ws
<1>9. ShownParams(ws, C) = ShownParams(vs, C)
  <2>1. \A j \in DOMAIN vs : /\ IsShown(ws[j], C) <=> IsShown(vs[j], C)
                             /\ Params(ws[j]) = Params(vs[j])
      BY <1>2, <1>3, <1>4, <1>8
  <2> QED  BY <1>8, <2>1, ShownEq
<1>10. Untouched(ws, d)
  <2>1. ASSUME NEW j \in DOMAIN vs, j # i PROVE vs[j].dropped_xmax # d
    <3>1. vs[j].created_xmin \in C
        BY DEF Shape, Fits
    <3> QED  BY <1>5, <2>1, <3>1 DEF IsShown, Apt
  <2>2. p.created_xmin # d /\ p.dropped_xmax # d
      BY DEF Live, Apt
  <2> QED  BY <1>8, <2>1, <2>2 DEF Untouched
<1>11. Brought(ws, <<p>>)
    BY <1>8, Options DEF Brought
<1> QED  BY <1>8, <1>9, <1>10, <1>11 DEF Undone, ws

LEMMA UndoAlterFirst ==
    ASSUME NEW vs, NEW C, NEW d, NEW W, Apt(C, d), d # 0, Shape(vs, C, d), LogShape(C, d, W),
           NEW n \in DOMAIN W, After(vs, C, d, W, n), W[n].op = "alter", IsFirst(W, n)
    PROVE  LET ws == undo_write_op(vs, d, W[n]) IN
           Undone(vs, ws, C, d, W[n].prev) /\ Untouched(ws, d)
<1> DEFINE p == W[n].prev[1]
           ks == Picked(vs, Others(vs, d))
           x == p.created_xmin
           i == CreatedBy(ks, x)
           ws == undo_write_op(vs, d, W[n])
<1>1. /\ Ddl(W[n]) /\ W[n].prev # None
      /\ p \in Version /\ Live(p) /\ p.created_xmin \in C /\ Fits(p, C, d)
    BY OpPrev
<1>2. AreOthers(ks, vs, C, d)
    BY KeptOthers
<1>3. Len(ks) \in Nat /\ DOMAIN ks = 1 .. Len(ks)
    BY <1>2, VersionLen DEF AreOthers, Shape
<1>4. \/ i = 0 /\ \A j \in DOMAIN ks : ks[j].created_xmin # x
      \/ i \in DOMAIN ks /\ ks[i].created_xmin = x
  <2>1. \/ i = 0 /\ \A j \in 1 .. Len(ks) : ~(ks[j].created_xmin = x)
        \/ i \in 1 .. Len(ks) /\ ks[i].created_xmin = x
    <3> HIDE DEF ks, x
    <3> QED  BY <1>3, FindCreated
  <2> QED  BY <1>3, <2>1
<1>5. ws = IF i = 0 THEN Append(ks, p) ELSE [ks EXCEPT ![i] = p]
    BY DEF undo_write_op, Others, CreatedBy, SelectInSeq
<1> HIDE DEF ks, i, ws
<1>6. (\E k \in DOMAIN vs : Live(vs[k]) /\ vs[k].created_xmin = d) /\ FirstDone(vs, C, d, W[n])
    BY <1>1, LogBack DEF LastDone
<1>7. PICK b0 \in DOMAIN vs : vs[b0] = [p EXCEPT !.dropped_xmax = d]
    BY <1>1, <1>6 DEF FirstDone
<1>8. vs[b0].created_xmin = x
    BY <1>1, <1>7 DEF Version
<1>9. x # d
    BY <1>1 DEF Apt
<1> HIDE DEF p, x
<1>10. PICK b \in DOMAIN ks : ks[b] = vs[b0]
    BY <1>2, <1>8, <1>9 DEF AreOthers
<1>11. i \in DOMAIN ks /\ ks[i].created_xmin = x
    BY <1>4, <1>8, <1>10
<1>12. ASSUME NEW j \in DOMAIN ks PROVE ~Live(ks[j])
  <2>1. PICK k \in DOMAIN vs : ks[j] = vs[k]
      BY <1>2 DEF AreOthers
  <2>2. ks[j].created_xmin # d
      BY <1>2 DEF AreOthers
  <2>3. PICK o \in DOMAIN vs : Live(vs[o]) /\ vs[o].created_xmin = d
      BY <1>6
  <2>4. ASSUME Live(ks[j]) PROVE FALSE
    <3>1. k = o
        BY <2>1, <2>3, <2>4, OneOnly
    <3> QED  BY <2>1, <2>2, <2>3, <3>1
  <2> QED  BY <2>4
<1>13. ws = [ks EXCEPT ![i] = p]
  <2>1. i # 0
      BY <1>3, <1>11
  <2> QED  BY <1>5, <2>1, Zenon
<1>14. Undone(ks, ws, C, d, <<p>>) /\ Untouched(ws, d)
  <2>1. Shape(ks, C, d) /\ \A j \in DOMAIN ks : ks[j].created_xmin # d
      BY <1>2 DEF AreOthers
  <2>2. ks[b] = [p EXCEPT !.dropped_xmax = d] /\ ks[i].created_xmin = p.created_xmin
      BY <1>7, <1>10, <1>11 DEF x
  <2>3. Undone(ks, [ks EXCEPT ![i] = p], C, d, <<p>>) /\ Untouched([ks EXCEPT ![i] = p], d)
      BY <1>1, <1>11, <1>12, <2>1, <2>2, PutBack DEF p
  <2> QED  BY <1>13, <2>3
<1>15. W[n].prev \in Option(Version)
    BY LogLen DEF OpRec
<1>16. W[n].prev = <<p>>
    BY <1>1, <1>15, Options DEF p
<1>17. Undone(vs, ws, C, d, <<p>>)
    BY <1>2, <1>14 DEF Undone, AreOthers
<1> QED  BY <1>14, <1>16, <1>17 DEF ws


\* Undoing an op on a version of the block's own.
LEMMA UndoAlterOwn ==
    ASSUME NEW vs, NEW C, NEW d, NEW W, Apt(C, d), d # 0, Shape(vs, C, d), LogShape(C, d, W),
           NEW n \in DOMAIN W, After(vs, C, d, W, n), W[n].op = "alter", ~IsFirst(W, n)
    PROVE  LET ws == undo_write_op(vs, d, W[n]) IN
           /\ Undone(vs, ws, C, d, W[n].prev)
           /\ \A k \in DOMAIN vs : vs[k].created_xmin \in C => \E i \in DOMAIN ws : ws[i] = vs[k]
           /\ \A i \in DOMAIN ws : ws[i].created_xmin \in C => \E k \in DOMAIN vs : ws[i] = vs[k]
           /\ \E i \in DOMAIN ws : Live(ws[i]) /\ ws[i].created_xmin = d
<1> DEFINE p == W[n].prev[1]
           ks == Picked(vs, Others(vs, d))
           i0 == CreatedBy(ks, p.created_xmin)
           ws == undo_write_op(vs, d, W[n])
           N == Len(ks) + 1
<1>1. /\ Ddl(W[n]) /\ W[n].prev # None
      /\ p \in Version /\ Live(p) /\ p.created_xmin = d /\ Fits(p, C, d)
    BY OpPrev
<1>2. AreOthers(ks, vs, C, d)
    BY KeptOthers
<1>3. Len(ks) \in Nat /\ DOMAIN ks = 1 .. Len(ks)
    BY <1>2, VersionLen DEF AreOthers, Shape
<1>4. ws = IF i0 = 0 THEN Append(ks, p) ELSE [ks EXCEPT ![i0] = p]
    BY DEF undo_write_op, Others, CreatedBy, SelectInSeq
<1> HIDE DEF ks, p, ws
<1>5. i0 = 0
  <2>1. \/ i0 = 0
        \/ i0 \in 1 .. Len(ks) /\ ks[i0].created_xmin = p.created_xmin
      BY <1>3, FindCreated
  <2> QED  BY <1>1, <1>2, <1>3, <2>1 DEF AreOthers
<1> HIDE DEF i0
<1>6. ws = Append(ks, p)
    BY <1>4, <1>5
<1>7. PICK o \in DOMAIN vs : Live(vs[o]) /\ vs[o].created_xmin = d
  <2>1. LastDone(vs, C, d, W[n])
      BY <1>1, LogBack
  <2> QED  BY <2>1 DEF LastDone
<1>8. ASSUME NEW j \in DOMAIN ks PROVE ~Live(ks[j]) /\ ks[j].created_xmin # d
  <2>1. PICK k \in DOMAIN vs : ks[j] = vs[k]
      BY <1>2 DEF AreOthers
  <2>2. ks[j].created_xmin # d
      BY <1>2 DEF AreOthers
  <2>3. Live(vs[k]) => k = o
      BY <1>7, OneOnly
  <2> QED  BY <1>7, <2>1, <2>2, <2>3
<1>9. \A j \in DOMAIN ks : Apart(p, ks[j], C)
    BY <1>1, <1>8 DEF Apart, IsShown, Apt
<1>10. /\ Shape(ws, C, d) /\ DOMAIN ws = DOMAIN ks \cup {N} /\ ws[N] = p
       /\ \A j \in DOMAIN ks : ws[j] = ks[j]
    BY <1>1, <1>2, <1>6, <1>9, ShapeAppend DEF AreOthers
<1> HIDE DEF N
<1>11. ShownParams(ws, C) = ShownParams(vs, C)
  <2>1. ~IsShown(p, C)
      BY <1>1 DEF IsShown, Apt
  <2>2. ShownParams(ws, C) = ShownParams(ks, C)
      BY <1>10, <2>1, ShownEq
  <2> QED  BY <1>2, <2>2 DEF AreOthers
<1>12. W[n].prev = <<p>>
  <2>1. W[n].prev \in Option(Version)
      BY LogLen DEF OpRec
  <2> QED  BY <1>1, <2>1, Options DEF p
<1>13. Undone(vs, ws, C, d, <<p>>)
  <2>1. Brought(ws, <<p>>)
      BY <1>10, Options DEF Brought
  <2> QED  BY <1>10, <1>11, <2>1 DEF Undone
<1>14. ASSUME NEW k \in DOMAIN vs, vs[k].created_xmin \in C PROVE \E i \in DOMAIN ws : ws[i] = vs[k]
  <2>1. vs[k].created_xmin # d
      BY <1>14 DEF Apt
  <2>2. PICK i \in DOMAIN ks : ks[i] = vs[k]
      BY <1>2, <2>1 DEF AreOthers
  <2> QED  BY <1>10, <2>2
<1>15. ASSUME NEW i \in DOMAIN ws, ws[i].created_xmin \in C PROVE \E k \in DOMAIN vs : ws[i] = vs[k]
  <2>1. i # N
      BY <1>1, <1>10, <1>15 DEF Apt
  <2>2. i \in DOMAIN ks /\ ws[i] = ks[i]
      BY <1>10, <2>1
  <2> QED  BY <1>2, <2>2 DEF AreOthers
<1>16. \E i \in DOMAIN ws : Live(ws[i]) /\ ws[i].created_xmin = d
    BY <1>1, <1>10
<1> QED  BY <1>12, <1>13, <1>14, <1>15, <1>16 DEF ws

LEMMA UndoDropFirst ==
    ASSUME NEW vs, NEW C, NEW d, NEW W, Apt(C, d), d # 0, Shape(vs, C, d), LogShape(C, d, W),
           NEW n \in DOMAIN W, After(vs, C, d, W, n), W[n].op = "drop", IsFirst(W, n)
    PROVE  LET ws == undo_write_op(vs, d, W[n]) IN
           Undone(vs, ws, C, d, W[n].prev) /\ Untouched(ws, d)
<1> DEFINE p == W[n].prev[1]
           x == p.created_xmin
           i == CreatedBy(vs, x)
           ws == undo_write_op(vs, d, W[n])
<1>1. /\ Ddl(W[n]) /\ W[n].prev # None
      /\ p \in Version /\ Live(p) /\ x \in C /\ Fits(p, C, d)
    BY OpPrev
<1>2. Len(vs) \in Nat /\ DOMAIN vs = 1 .. Len(vs)
    BY VersionLen DEF Shape
<1>3. ws = IF CreatedDropped(vs, x, d) = 0 THEN vs
           ELSE [vs EXCEPT ![i] = [p EXCEPT !.dropped_xmax = 0]]
    BY DEF undo_write_op, CreatedBy, CreatedDropped, SelectInSeq
<1>4. [p EXCEPT !.dropped_xmax = 0] = p
    BY <1>1 DEF Version, Live
<1> HIDE DEF ws
<1>5. /\ \A j \in DOMAIN vs : ~Live(vs[j])
      /\ \E j \in DOMAIN vs : vs[j].created_xmin = x /\ vs[j].dropped_xmax = d
      /\ \A j \in DOMAIN vs : vs[j].created_xmin # d
  <2>1. LastDone(vs, C, d, W[n])
      BY <1>1, LogBack
  <2> QED  BY <1>1, <2>1 DEF LastDone
<1>6. PICK b \in DOMAIN vs : vs[b] = [p EXCEPT !.dropped_xmax = d]
  <2>1. FirstDone(vs, C, d, W[n])
      BY <1>1, LogBack
  <2> QED  BY <1>1, <2>1 DEF FirstDone
<1>7. W[n].prev = <<p>>
  <2>1. W[n].prev \in Option(Version)
      BY LogLen DEF OpRec
  <2> QED  BY <1>1, <2>1, Options
<1> HIDE DEF p
<1>8. CreatedDropped(vs, x, d) # 0 /\ i \in DOMAIN vs /\ vs[i].created_xmin = x
  <2> HIDE DEF x
  <2>1. \/ i = 0 /\ \A j \in 1 .. Len(vs) : ~(vs[j].created_xmin = x)
        \/ i \in 1 .. Len(vs) /\ vs[i].created_xmin = x
      BY <1>2, FindCreated
  <2>2. \/ /\ CreatedDropped(vs, x, d) = 0
           /\ \A j \in 1 .. Len(vs) : ~(vs[j].created_xmin = x /\ vs[j].dropped_xmax = d)
        \/ CreatedDropped(vs, x, d) \in 1 .. Len(vs)
      BY <1>2, FindCreatedDropped
  <2> HIDE DEF i
  <2> QED  BY <1>2, <1>5, <2>1, <2>2
<1> HIDE DEF i
<1>9. ws = [vs EXCEPT ![i] = p]
    BY <1>3, <1>4, <1>8
<1>10. Undone(vs, [vs EXCEPT ![i] = p], C, d, <<p>>) /\ Untouched([vs EXCEPT ![i] = p], d)
    BY <1>1, <1>5, <1>6, <1>8, PutBack
<1> QED  BY <1>7, <1>9, <1>10 DEF ws, p

LEMMA UndoDropOwn ==
    ASSUME NEW vs, NEW C, NEW d, NEW W, Apt(C, d), d # 0, Shape(vs, C, d), LogShape(C, d, W),
           NEW n \in DOMAIN W, After(vs, C, d, W, n), W[n].op = "drop", ~IsFirst(W, n)
    PROVE  LET ws == undo_write_op(vs, d, W[n]) IN
           /\ Undone(vs, ws, C, d, W[n].prev)
           /\ \A k \in DOMAIN vs : vs[k].created_xmin \in C => \E i \in DOMAIN ws : ws[i] = vs[k]
           /\ \A i \in DOMAIN ws : ws[i].created_xmin \in C => \E k \in DOMAIN vs : ws[i] = vs[k]
           /\ \E i \in DOMAIN ws : Live(ws[i]) /\ ws[i].created_xmin = d
<1> DEFINE p == W[n].prev[1]
           x == p.created_xmin
           i0 == CreatedBy(vs, x)
           ws == undo_write_op(vs, d, W[n])
<1>1. /\ Ddl(W[n]) /\ W[n].prev # None
      /\ p \in Version /\ Live(p) /\ x = d /\ Fits(p, C, d)
    BY OpPrev
<1>2. Len(vs) \in Nat /\ DOMAIN vs = 1 .. Len(vs)
    BY VersionLen DEF Shape
<1>3. ws = IF CreatedDropped(vs, x, d) = 0 THEN vs
           ELSE [vs EXCEPT ![i0] = [p EXCEPT !.dropped_xmax = 0]]
    BY DEF undo_write_op, CreatedBy, CreatedDropped, SelectInSeq
<1>4. [p EXCEPT !.dropped_xmax = 0] = p
    BY <1>1 DEF Version, Live
<1> HIDE DEF ws
<1>5. /\ \A j \in DOMAIN vs : ~Live(vs[j])
      /\ \E j \in DOMAIN vs : vs[j].created_xmin = x /\ vs[j].dropped_xmax = d
  <2>1. LastDone(vs, C, d, W[n])
      BY <1>1, LogBack
  <2> QED  BY <2>1 DEF LastDone
<1>7. W[n].prev = <<p>>
  <2>1. W[n].prev \in Option(Version)
      BY LogLen DEF OpRec
  <2> QED  BY <1>1, <2>1, Options
<1> HIDE DEF p
<1>8. CreatedDropped(vs, x, d) # 0 /\ i0 \in DOMAIN vs /\ vs[i0].created_xmin = x
  <2> HIDE DEF x
  <2>1. \/ i0 = 0 /\ \A j \in 1 .. Len(vs) : ~(vs[j].created_xmin = x)
        \/ i0 \in 1 .. Len(vs) /\ vs[i0].created_xmin = x
      BY <1>2, FindCreated
  <2>2. \/ /\ CreatedDropped(vs, x, d) = 0
           /\ \A j \in 1 .. Len(vs) : ~(vs[j].created_xmin = x /\ vs[j].dropped_xmax = d)
        \/ CreatedDropped(vs, x, d) \in 1 .. Len(vs)
      BY <1>2, FindCreatedDropped
  <2> HIDE DEF i0
  <2> QED  BY <1>2, <1>5, <2>1, <2>2
<1> HIDE DEF i0
<1>9. ws = [vs EXCEPT ![i0] = p]
    BY <1>3, <1>4, <1>8
<1>10. \A j \in DOMAIN vs : j # i0 => Apart(p, vs[j], C)
    BY <1>1, <1>5 DEF Apart, IsShown, Apt
<1>11. /\ Shape(ws, C, d) /\ DOMAIN ws = DOMAIN vs
       /\ \A j \in DOMAIN vs : ws[j] = IF j = i0 THEN p ELSE vs[j]
    BY <1>1, <1>8, <1>9, <1>10, ShapeSet
<1>12. p.created_xmin \notin C /\ vs[i0].created_xmin \notin C
    BY <1>1, <1>8 DEF Apt
<1>13. ShownParams(ws, C) = ShownParams(vs, C)
  <2>1. ~IsShown(p, C) /\ ~IsShown(vs[i0], C)
      BY <1>12 DEF IsShown
  <2> QED  BY <1>8, <1>11, <2>1, ShownEq
<1>14. Undone(vs, ws, C, d, <<p>>)
  <2>1. Brought(ws, <<p>>)
      BY <1>8, <1>11, Options DEF Brought
  <2> QED  BY <1>11, <1>13, <2>1 DEF Undone
<1>15. \A k \in DOMAIN vs : vs[k].created_xmin \in C => \E i \in DOMAIN ws : ws[i] = vs[k]
    BY <1>11, <1>12
<1>16. \A i \in DOMAIN ws : ws[i].created_xmin \in C => \E k \in DOMAIN vs : ws[i] = vs[k]
    BY <1>11, <1>12
<1>17. \E i \in DOMAIN ws : Live(ws[i]) /\ ws[i].created_xmin = d
    BY <1>1, <1>8, <1>11
<1> QED  BY <1>7, <1>14, <1>15, <1>16, <1>17 DEF ws, p


\* Undoing an op takes the versions back to where they were before it.
LEMMA UndoOp ==
    ASSUME NEW vs, NEW C, NEW d, NEW W, Apt(C, d), d # 0, Shape(vs, C, d), LogShape(C, d, W),
           NEW n \in DOMAIN W, After(vs, C, d, W, n)
    PROVE  LET ws == undo_write_op(vs, d, W[n]) IN
           /\ Shape(ws, C, d) /\ After(ws, C, d, W, n - 1)
           /\ ShownParams(ws, C) = ShownParams(vs, C)
           /\ IF Ddl(W[n]) THEN Brought(ws, W[n].prev) ELSE ws = vs
<1> DEFINE ws == undo_write_op(vs, d, W[n])
<1>1. CASE W[n].op = "create"
  <2>1. Undone(vs, ws, C, d, W[n].prev) /\ After(ws, C, d, W, n - 1)
      BY <1>1, UndoCreate
  <2>2. Ddl(W[n])
      BY <1>1 DEF Ddl, DDL
  <2> HIDE DEF ws
  <2>3. Shape(ws, C, d) /\ After(ws, C, d, W, n - 1) /\ ShownParams(ws, C) = ShownParams(vs, C)
        /\ Brought(ws, W[n].prev)
      BY <2>1 DEF Undone
  <2> QED  BY <2>2, <2>3 DEF ws
<1>2. CASE W[n].op \in {"alter", "drop"} /\ IsFirst(W, n)
  <2>1. Undone(vs, ws, C, d, W[n].prev) /\ Untouched(ws, d)
      BY <1>2, UndoAlterFirst, UndoDropFirst
  <2>2. Ddl(W[n])
      BY <1>2 DEF Ddl, DDL
  <2> HIDE DEF ws
  <2>3. \A j \in 1 .. n - 1 : ~Ddl(W[j])
      BY <1>2 DEF IsFirst
  <2>4. After(ws, C, d, W, n - 1)
      BY <2>1, <2>3 DEF After, IsFirst, IsLast
  <2> QED  BY <2>1, <2>2, <2>4 DEF Undone, ws
<1>3. CASE W[n].op \in {"alter", "drop"} /\ ~IsFirst(W, n)
  <2>1. /\ Undone(vs, ws, C, d, W[n].prev)
        /\ \A k \in DOMAIN vs : vs[k].created_xmin \in C => \E i \in DOMAIN ws : ws[i] = vs[k]
        /\ \A i \in DOMAIN ws : ws[i].created_xmin \in C => \E k \in DOMAIN vs : ws[i] = vs[k]
        /\ \E i \in DOMAIN ws : Live(ws[i]) /\ ws[i].created_xmin = d
    <3>1. CASE W[n].op = "alter"
        BY <1>3, <3>1, UndoAlterOwn
    <3>2. CASE W[n].op = "drop"
        BY <1>3, <3>2, UndoDropOwn
    <3> QED  BY <1>3, <3>1, <3>2
  <2>2. Ddl(W[n]) /\ W[n].op # "create"
      BY <1>3 DEF Ddl, DDL
  <2> HIDE DEF ws
  <2>3. ASSUME NEW j \in 1 .. n - 1, Follows(W, j, n) PROVE LastDone(ws, C, d, W[j])
    <3>1. j \in DOMAIN W
        BY LogLen
    <3>2. W[j].op # "drop"
        BY <2>2, <2>3, <3>1 DEF LogShape
    <3> QED  BY <2>1, <3>2 DEF LastDone
  <2>4. ASSUME NEW j \in 1 .. n - 1, IsFirst(W, j) PROVE FirstDone(ws, C, d, W[j])
    <3>1. FirstDone(vs, C, d, W[j])
        BY <2>2, <2>4, LogBack
    <3>2. j \in DOMAIN W
        BY LogLen
    <3>3. CASE W[j].prev # None
      <4>1. PICK b \in DOMAIN vs : vs[b] = [W[j].prev[1] EXCEPT !.dropped_xmax = d]
          BY <3>1, <3>3 DEF FirstDone
      <4>2. W[j].prev[1].created_xmin \in C /\ W[j].prev[1] \in Version
          BY <2>4, <3>2, <3>3 DEF LogShape, IsFirst, Sound
      <4>3. vs[b].created_xmin \in C
          BY <4>1, <4>2 DEF Version
      <4> QED  BY <2>1, <3>3, <4>1, <4>3 DEF FirstDone
    <3>4. CASE W[j].prev = None
      <4>1. \A i \in DOMAIN vs : vs[i].created_xmin \in C => vs[i].dropped_xmax \in C
          BY <3>1, <3>4 DEF FirstDone
      <4>2. \A i \in DOMAIN ws : ws[i].created_xmin \in C => ws[i].dropped_xmax \in C
          BY <2>1, <4>1
      <4> QED  BY <3>4, <4>2 DEF FirstDone
    <3> QED  BY <3>3, <3>4
  <2>5. After(ws, C, d, W, n - 1)
      BY <1>3, <2>2, <2>3, <2>4, LogBack
  <2> QED  BY <2>1, <2>2, <2>5 DEF Undone, ws
<1>4. CASE W[n].op = "advance"
  <2>1. ws = vs
      BY <1>4 DEF undo_write_op
  <2>2. ~Ddl(W[n])
      BY <1>4 DEF Ddl, DDL
  <2> HIDE DEF ws
  <2>3. Len(W) \in Nat /\ n \in 1 .. Len(W)
      BY LogLen
  <2>4. /\ \A j \in 1 .. n : Ddl(W[j]) => j \in 1 .. n - 1
        /\ \A j \in 1 .. n - 1 : j \in 1 .. n /\ (IsLast(W, n - 1, j) => IsLast(W, n, j))
    <3>1. \A j \in 1 .. n : j = n \/ j \in 1 .. n - 1
        BY <2>3
    <3>2. \A j \in 1 .. n - 1 : \A h \in j + 1 .. n : h = n \/ h \in j + 1 .. n - 1
        BY <2>3
    <3>3. \A j \in 1 .. n - 1 : j \in 1 .. n
        BY <2>3
    <3> QED  BY <2>2, <3>1, <3>2, <3>3 DEF IsLast
  <2>5. After(vs, C, d, W, n - 1)
      BY <2>4 DEF After
  <2> QED  BY <2>1, <2>2, <2>5 DEF ws
<1>5. W[n].op \in DDL \cup {"advance"}
    BY LogLen DEF OpRec
<1> QED  BY <1>1, <1>2, <1>3, <1>4, <1>5 DEF DDL


\* Undoing shows no xid that was not there.
LEMMA UndoXids ==
    ASSUME NEW vs, NEW C, NEW d, NEW W, Apt(C, d), d # 0, Shape(vs, C, d), LogShape(C, d, W),
           NEW n \in DOMAIN W, After(vs, C, d, W, n)
    PROVE  Xids(undo_write_op(vs, d, W[n])) \subseteq Xids(vs) \cup {0, d}
<1> DEFINE p == W[n].prev[1]
           q == [p EXCEPT !.dropped_xmax = 0]
           ks == Picked(vs, Others(vs, d))
           ws == undo_write_op(vs, d, W[n])
           Bad == {i \in DOMAIN ws : ws[i] # p /\ \A k \in DOMAIN vs : ws[i] # vs[k]}
<1>1. \A i \in DOMAIN vs : vs[i].created_xmin \in Xids(vs) /\ vs[i].dropped_xmax \in Xids(vs)
    BY DEF Xids
<1>2. AreOthers(ks, vs, C, d)
    BY KeptOthers
<1>3. ks \in Seq(Version) /\ vs \in Seq(Version) /\ \A i \in DOMAIN ks : \E k \in DOMAIN vs : ks[i] = vs[k]
    BY <1>2 DEF AreOthers, Shape
<1>4. ASSUME W[n].op \in {"alter", "drop"}
      PROVE  q = p /\ p.dropped_xmax = 0 /\ p.created_xmin \in Xids(vs) \cup {0, d}
  <2>1. /\ Ddl(W[n]) /\ W[n].prev # None /\ p \in Version /\ Live(p)
        /\ ~IsFirst(W, n) => p.created_xmin = d
      BY <1>4, OpPrev
  <2>2. ASSUME IsFirst(W, n) PROVE p.created_xmin \in Xids(vs)
    <3>1. FirstDone(vs, C, d, W[n])
        BY <2>1, <2>2, LogBack
    <3>2. PICK b \in DOMAIN vs : vs[b] = [p EXCEPT !.dropped_xmax = d]
        BY <2>1, <3>1 DEF FirstDone
    <3>3. vs[b].created_xmin = p.created_xmin
        BY <2>1, <3>2 DEF Version
    <3> QED  BY <1>1, <3>3
  <2> QED  BY <2>1, <2>2 DEF Live, Version
<1>5. \/ ws = ks
      \/ ws = vs
      \/ W[n].op = "drop" /\ \E i : ws = [vs EXCEPT ![i] = q]
      \/ W[n].op = "alter" /\ (ws = Append(ks, p) \/ \E i : ws = [ks EXCEPT ![i] = p])
  <2>1. W[n].op \in {"create", "alter", "drop", "advance"}
      BY LogLen DEF OpRec, DDL
  <2>2. CASE W[n].op = "create"
      BY <2>2 DEF undo_write_op, Others
  <2>3. CASE W[n].op = "advance"
      BY <2>3 DEF undo_write_op
  <2>4. CASE W[n].op = "drop"
    <3>1. ws = IF CreatedDropped(vs, p.created_xmin, d) = 0 THEN vs
               ELSE [vs EXCEPT ![CreatedBy(vs, p.created_xmin)] = q]
        BY <2>4 DEF undo_write_op, CreatedBy, CreatedDropped, SelectInSeq
    <3> HIDE DEF ws, q
    <3> QED  BY <2>4, <3>1
  <2>5. CASE W[n].op = "alter"
    <3>1. ws = IF CreatedBy(ks, p.created_xmin) = 0 THEN Append(ks, p)
               ELSE [ks EXCEPT ![CreatedBy(ks, p.created_xmin)] = p]
        BY <2>5 DEF undo_write_op, Others, CreatedBy, SelectInSeq
    <3> HIDE DEF ws, p, ks
    <3> QED  BY <2>5, <3>1
  <2> QED  BY <2>1, <2>2, <2>3, <2>4, <2>5
<1> HIDE DEF ws, ks, p, q
<1>6. ASSUME NEW i \in DOMAIN ws
      PROVE  (\E k \in DOMAIN vs : ws[i] = vs[k]) \/ (W[n].op \in {"alter", "drop"} /\ ws[i] = p)
  <2>1. CASE ws = ks
      BY <1>3, <2>1
  <2>2. CASE ws = vs
      BY <2>2
  <2>3. CASE W[n].op = "drop" /\ \E j : ws = [vs EXCEPT ![j] = q]
      BY <1>3, <1>4, <2>3
  <2>4. CASE W[n].op = "alter" /\ ws = Append(ks, p)
    <3>1. \A j \in DOMAIN Append(ks, p) : (j \in DOMAIN ks /\ Append(ks, p)[j] = ks[j]) \/ Append(ks, p)[j] = p
        BY <1>3
    <3> QED  BY <1>3, <2>4, <3>1
  <2>5. CASE W[n].op = "alter" /\ \E j : ws = [ks EXCEPT ![j] = p]
      BY <1>3, <2>5
  <2> QED  BY <1>5, <2>1, <2>2, <2>3, <2>4, <2>5
<1>7. \A i \in DOMAIN ws : /\ ws[i].created_xmin \in Xids(vs) \cup {0, d}
                           /\ ws[i].dropped_xmax \in Xids(vs) \cup {0, d}
    BY <1>1, <1>4, <1>6
<1>8. Xids(ws) \subseteq Xids(vs) \cup {0, d}
    BY <1>7 DEF Xids
<1> QED  BY <1>8 DEF ws

\* v is what undoing leaves of vs when k ops of the log are left.
UndoneTo(vs, v, C, d, W, k) ==
    /\ Shape(v, C, d)
    /\ After(v, C, d, W, k)
    /\ ShownParams(v, C) = ShownParams(vs, C)
    /\ Xids(v) \subseteq Xids(vs) \cup {0, d}
    /\ (\A j \in k + 1 .. Len(W) : ~Ddl(W[j])) => v = vs
    /\ \A j \in k + 1 .. Len(W) : Ddl(W[j]) /\ (\A h \in k + 1 .. j - 1 : ~Ddl(W[h])) => Brought(v, W[j].prev)

LEMMA UndoNext ==
    ASSUME NEW vs, NEW v, NEW C, NEW d, NEW W, Apt(C, d), d # 0, LogShape(C, d, W),
           NEW n \in DOMAIN W, UndoneTo(vs, v, C, d, W, n)
    PROVE  UndoneTo(vs, undo_write_op(v, d, W[n]), C, d, W, n - 1)
<1> DEFINE ws == undo_write_op(v, d, W[n])
<1>1. /\ Shape(ws, C, d) /\ After(ws, C, d, W, n - 1)
      /\ ShownParams(ws, C) = ShownParams(v, C)
      /\ IF Ddl(W[n]) THEN Brought(ws, W[n].prev) ELSE ws = v
    BY UndoOp DEF UndoneTo
<1> HIDE DEF ws
<1>2. Len(W) \in Nat /\ n \in 1 .. Len(W)
    BY LogLen
<1> DEFINE m == n - 1
<1>3. /\ n \in m + 1 .. Len(W) /\ m + 1 = n
      /\ \A j \in m + 1 .. Len(W) : j = n \/ (j \in n + 1 .. Len(W) /\ n \in m + 1 .. j - 1
                                              /\ \A h \in n + 1 .. j - 1 : h \in m + 1 .. j - 1)
      /\ \A j \in n + 1 .. Len(W) : j \in m + 1 .. Len(W)
    BY <1>2
<1>4. (\A j \in m + 1 .. Len(W) : ~Ddl(W[j])) => ws = vs
    BY <1>1, <1>3 DEF UndoneTo
<1>5. ASSUME NEW j \in m + 1 .. Len(W), Ddl(W[j]), \A h \in m + 1 .. j - 1 : ~Ddl(W[h])
      PROVE  Brought(ws, W[j].prev)
  <2>1. CASE j = n
      BY <1>1, <1>5, <2>1
  <2>2. CASE j # n
      BY <1>1, <1>3, <1>5, <2>2 DEF UndoneTo
  <2> QED  BY <2>1, <2>2
<1> HIDE DEF m
<1>6. ShownParams(ws, C) = ShownParams(vs, C)
    BY <1>1 DEF UndoneTo
<1>7. Xids(ws) \subseteq Xids(vs) \cup {0, d}
  <2>1. Xids(ws) \subseteq Xids(v) \cup {0, d}
      BY UndoXids DEF UndoneTo, ws
  <2> QED  BY <2>1 DEF UndoneTo
<1>8. UndoneTo(vs, ws, C, d, W, m)
    BY <1>1, <1>4, <1>5, <1>6, <1>7 DEF UndoneTo, m
<1> QED  BY <1>8 DEF ws, m

\* Undoing all that follows the first m ops.
LEMMA UndoLog ==
    ASSUME NEW vs, NEW C, NEW d, NEW W, Apt(C, d), d # 0, Shape(vs, C, d), LogGood(vs, C, d, W),
           NEW m \in 0 .. Len(W)
    PROVE  UndoneTo(vs, undo_all(vs, d, SubSeq(W, m + 1, Len(W))), C, d, W, m)
<1> DEFINE N == Len(W)
           U == SubSeq(W, m + 1, N)
           L == N - m
<1>1. LogShape(C, d, W) /\ After(vs, C, d, W, N)
    BY DEF LogGood
<1>2. W \in Seq(OpRec) /\ N \in Nat /\ DOMAIN W = 1 .. N
    BY <1>1, LogLen
<1>3. Len(U) = L /\ L \in Nat /\ \A n \in 1 .. L : U[L - n + 1] = W[N - n + 1]
  <2>1. m + 1 \in 1 .. N + 1
      BY <1>2
  <2>2. Len(U) = L /\ L \in Nat /\ \A i \in 1 .. L : U[i] = W[m + i]
      BY <1>2, <2>1
  <2>3. \A n \in 1 .. L : L - n + 1 \in 1 .. L /\ m + (L - n + 1) = N - n + 1
      BY <1>2
  <2> HIDE DEF U, L
  <2> QED  BY <2>2, <2>3
<1> HIDE DEF U
<1>4. PICK u : /\ u[0] = vs
               /\ \A n \in 1 .. L : u[n] = undo_write_op(u[n - 1], d, U[L - n + 1])
               /\ undo_all(vs, d, U) = u[L]
  <2>1. \E u : /\ u[0] = vs
               /\ \A n \in 1 .. Len(U) : u[n] = undo_write_op(u[n - 1], d, U[Len(U) - n + 1])
               /\ undo_all(vs, d, U) = u[Len(U)]
    <3>1. Len(U) \in Nat
        BY <1>3
    <3> QED  BY <3>1, UndoExists
  <2> HIDE DEF L
  <2> QED  BY <1>3, <2>1
<1> DEFINE P(n) == UndoneTo(vs, u[n], C, d, W, N - n)
           Bad == {n \in 0 .. L : ~P(n)}
<1>5. P(0)
  <2>1. N - 0 = N /\ N + 1 .. N = {}
      BY <1>2
  <2> QED  BY <1>1, <1>4, <2>1 DEF UndoneTo
<1>6. Bad = {}
  <2> SUFFICES ASSUME Bad # {} PROVE FALSE
      OBVIOUS
  <2>1. PICK k \in Bad : \A y \in Bad : k <= y
    <3>1. Bad \subseteq Nat
        BY <1>3
    <3> HIDE DEF Bad
    <3> QED  BY <3>1, Least
  <2>2. k # 0
      BY <1>5, <2>1
  <2>3. k \in 1 .. L /\ k - 1 \in 0 .. L /\ ~(k <= k - 1)
    <3> HIDE DEF P
    <3> QED  BY <1>3, <2>1, <2>2
  <2>4. P(k - 1)
    <3> HIDE DEF P
    <3> QED  BY <2>1, <2>3
  <2> DEFINE n == N - k + 1
  <2>5. n \in DOMAIN W /\ N - (k - 1) = n /\ n - 1 = N - k
      BY <1>2, <2>3
  <2>6. u[k] = undo_write_op(u[k - 1], d, W[n])
      BY <1>3, <1>4, <2>3
  <2> HIDE DEF n
  <2>7. UndoneTo(vs, u[k - 1], C, d, W, n)
      BY <2>4, <2>5
  <2>8. UndoneTo(vs, u[k], C, d, W, n - 1)
      BY <1>1, <2>5, <2>6, <2>7, UndoNext
  <2> QED  BY <2>1, <2>5, <2>8
<1>7. P(L)
  <2> HIDE DEF P
  <2>1. L \in 0 .. L
      BY <1>3
  <2> QED  BY <1>6, <2>1
<1>8. N - L = m
    BY <1>2
<1> QED  BY <1>4, <1>7, <1>8 DEF U


-----------------------------------------------------------------------------
(* Write logs that grow and are cut.                                        *)

NoDdl(W) == \A j \in DOMAIN W : ~Ddl(W[j])

LEMMA HasFirst ==
    ASSUME NEW W, Len(W) \in Nat, NEW k \in 1 .. Len(W), Ddl(W[k])
    PROVE  /\ \E j \in 1 .. Len(W) : IsFirst(W, j)
           /\ \E j \in 1 .. Len(W) : IsLast(W, Len(W), j)
<1> DEFINE I == {j \in 1 .. Len(W) : Ddl(W[j])}
<1>1. I \subseteq 1 .. Len(W) /\ I # {} /\ \A j : j \in I <=> j \in 1 .. Len(W) /\ Ddl(W[j])
    OBVIOUS
<1> HIDE DEF I
<1>2. PICK a \in I : \A y \in I : a <= y
  <2>1. I \subseteq Nat
      BY <1>1
  <2> QED  BY <1>1, <2>1, Least
<1>3. PICK b \in I : \A y \in I : y <= b
    BY <1>1, LastOf
<1>4. a \in 1 .. Len(W) /\ b \in 1 .. Len(W) /\ Ddl(W[a]) /\ Ddl(W[b])
    BY <1>1
<1>5. \A h \in 1 .. a - 1 : h \notin I /\ h \in 1 .. Len(W)
    BY <1>2, <1>4
<1>6. \A h \in b + 1 .. Len(W) : h \notin I /\ h \in 1 .. Len(W)
    BY <1>3, <1>4
<1>7. IsFirst(W, a) /\ IsLast(W, Len(W), b)
    BY <1>1, <1>4, <1>5, <1>6 DEF IsFirst, IsLast
<1> QED  BY <1>4, <1>7

\* A log that goes on without DDL after the first m ops of W.
LEMMA LogCut ==
    ASSUME NEW vs, NEW C, NEW d, NEW W, LogShape(C, d, W), NEW m \in 0 .. Len(W),
           After(vs, C, d, W, m), NEW W1 \in Seq(OpRec), m <= Len(W1),
           \A j \in 1 .. m : W1[j] = W[j],
           \A j \in DOMAIN W1 : j <= m \/ ~Ddl(W1[j])
    PROVE  LogGood(vs, C, d, W1)
<1>1. Len(W) \in Nat /\ DOMAIN W = 1 .. Len(W) /\ m \in Nat
    BY LogLen
<1>2. Len(W1) \in Nat /\ DOMAIN W1 = 1 .. Len(W1)
    BY LenProperties
<1> DEFINE N == Len(W1)
<1>3. \A j \in 1 .. N : Ddl(W1[j]) => j \in 1 .. m /\ W1[j] = W[j]
    BY <1>1, <1>2
<1>4. \A j \in 1 .. m : j \in DOMAIN W /\ j \in DOMAIN W1 /\ \A h \in 1 .. j - 1 : h \in 1 .. m
    BY <1>1, <1>2
<1>5. \A j \in 1 .. m : IsFirst(W1, j) <=> IsFirst(W, j)
    BY <1>4 DEF IsFirst
<1>6. ASSUME NEW i \in DOMAIN W1, NEW j \in DOMAIN W1, Follows(W1, i, j)
      PROVE  i \in 1 .. m /\ j \in 1 .. m /\ Follows(W, i, j)
  <2>1. i \in 1 .. m /\ j \in 1 .. m
      BY <1>2, <1>3, <1>6 DEF Follows
  <2>2. \A h \in i + 1 .. j - 1 : h \in 1 .. m
      BY <1>1, <2>1
  <2> QED  BY <1>6, <2>1, <2>2 DEF Follows
<1>7. LogShape(C, d, W1)
  <2>1. ASSUME NEW j \in DOMAIN W1, Ddl(W1[j])
        PROVE  /\ W1[j].op = "create" <=> W1[j].prev = None
               /\ W1[j].prev # None =>
                    /\ Sound(W1[j].prev[1]) /\ Live(W1[j].prev[1])
                    /\ W1[j].prev[1].created_xmin \in C \cup {d}
                    /\ IsFirst(W1, j) <=> W1[j].prev[1].created_xmin \in C
    <3>1. j \in 1 .. m /\ W1[j] = W[j]
        BY <1>2, <1>3, <2>1
    <3>2. j \in DOMAIN W /\ (IsFirst(W1, j) <=> IsFirst(W, j))
        BY <1>4, <1>5, <3>1
    <3> QED  BY <2>1, <3>1, <3>2 DEF LogShape
  <2>2. ASSUME NEW i \in DOMAIN W1, NEW j \in DOMAIN W1, Follows(W1, i, j)
        PROVE  IF W1[j].op = "create"
               THEN W1[i].op = "drop" /\ W1[i].prev[1].created_xmin \in C
               ELSE W1[i].op # "drop" /\ W1[j].prev[1].created_xmin = d
    <3>1. i \in 1 .. m /\ j \in 1 .. m /\ Follows(W, i, j)
        BY <1>6, <2>2
    <3>2. i \in DOMAIN W /\ j \in DOMAIN W /\ W1[i] = W[i] /\ W1[j] = W[j]
        BY <1>4, <3>1
    <3> QED  BY <3>1, <3>2 DEF LogShape
  <2> QED  BY <2>1, <2>2 DEF LogShape
<1>8. After(vs, C, d, W1, N)
  <2>1. (\A j \in 1 .. N : ~Ddl(W1[j])) => Untouched(vs, d)
      BY <1>2, <1>4 DEF After
  <2>2. ASSUME NEW j \in 1 .. N, IsLast(W1, N, j) PROVE LastDone(vs, C, d, W1[j])
    <3>1. j \in 1 .. m /\ W1[j] = W[j]
        BY <1>3, <2>2 DEF IsLast
    <3>2. \A h \in j + 1 .. m : h \in j + 1 .. N /\ h \in 1 .. m
        BY <1>1, <1>2, <3>1
    <3>3. IsLast(W, m, j)
        BY <2>2, <3>1, <3>2 DEF IsLast
    <3> QED  BY <3>1, <3>3 DEF After
  <2>3. ASSUME NEW j \in 1 .. N, IsFirst(W1, j) PROVE FirstDone(vs, C, d, W1[j])
    <3>1. j \in 1 .. m /\ W1[j] = W[j]
        BY <1>3, <2>3 DEF IsFirst
    <3> QED  BY <1>5, <2>3, <3>1 DEF After
  <2> QED  BY <2>1, <2>2, <2>3 DEF After
<1> QED  BY <1>7, <1>8 DEF LogGood

\* A log that gets a DDL op.
LEMMA LogAppend ==
    ASSUME NEW ws, NEW C, NEW d, NEW W, LogShape(C, d, W), NEW W1 \in Seq(OpRec),
           Len(W1) = Len(W) + 1, \A j \in DOMAIN W : W1[j] = W[j],
           NEW w, W1[Len(W) + 1] = w, Ddl(w),
           w.op = "create" <=> w.prev = None,
           w.prev # None => /\ Sound(w.prev[1]) /\ Live(w.prev[1])
                            /\ w.prev[1].created_xmin \in C \cup {d}
                            /\ NoDdl(W) <=> w.prev[1].created_xmin \in C,
           \A i \in DOMAIN W : IsLast(W, Len(W), i) =>
                IF w.op = "create"
                THEN W[i].op = "drop" /\ W[i].prev[1].created_xmin \in C
                ELSE W[i].op # "drop" /\ w.prev[1].created_xmin = d,
           LastDone(ws, C, d, w),
           NoDdl(W) => FirstDone(ws, C, d, w),
           \A j \in DOMAIN W : IsFirst(W, j) => FirstDone(ws, C, d, W[j])
    PROVE  LogGood(ws, C, d, W1)
<1> DEFINE n == Len(W)
           N == n + 1
<1>1. n \in Nat /\ DOMAIN W = 1 .. n
    BY LogLen
<1>2. Len(W1) = N /\ DOMAIN W1 = 1 .. N
    BY <1>1, LenProperties
<1>3. /\ \A j \in DOMAIN W1 : j \in DOMAIN W \/ j = N
      /\ \A j \in DOMAIN W : j \in DOMAIN W1 /\ j # N /\ \A h \in 1 .. j - 1 : h \in DOMAIN W
      /\ 1 .. N - 1 = DOMAIN W /\ N \in DOMAIN W1 /\ N + 1 .. N = {}
      /\ \A i, j \in DOMAIN W : \A h \in i + 1 .. j - 1 : h \in DOMAIN W
      /\ \A i \in DOMAIN W : i + 1 .. N - 1 = i + 1 .. n /\ N \in i + 1 .. N
      /\ \A i \in DOMAIN W : ~(N < i)
      /\ \A i \in DOMAIN W : \A h \in i + 1 .. n : h \in DOMAIN W
    BY <1>1, <1>2
<1>4. W1[N] = w
    OBVIOUS
<1> HIDE DEF N
<1>5. /\ \A j \in DOMAIN W : IsFirst(W1, j) <=> IsFirst(W, j)
      /\ IsFirst(W1, N) <=> NoDdl(W)
    BY <1>3, <1>4 DEF IsFirst, NoDdl
<1>6. ASSUME NEW i \in DOMAIN W1, NEW j \in DOMAIN W1, Follows(W1, i, j)
      PROVE  \/ i \in DOMAIN W /\ j \in DOMAIN W /\ Follows(W, i, j)
             \/ i \in DOMAIN W /\ j = N /\ IsLast(W, n, i)
  <2>1. i < j /\ Ddl(W1[i]) /\ Ddl(W1[j]) /\ \A h \in i + 1 .. j - 1 : ~Ddl(W1[h])
      BY <1>6 DEF Follows
  <2>2. i \in DOMAIN W
    <3>1. CASE i = N /\ j = N
        BY <1>1, <2>1, <3>1 DEF N
    <3> QED  BY <1>3, <2>1, <3>1
  <2>3. CASE j \in DOMAIN W
      BY <1>3, <2>1, <2>2, <2>3 DEF Follows
  <2>4. CASE j = N
    <3>1. \A h \in i + 1 .. n : ~Ddl(W1[h])
        BY <1>3, <2>1, <2>2, <2>4
    <3> QED  BY <1>3, <2>1, <2>2, <2>4, <3>1 DEF IsLast
  <2> QED  BY <1>3, <2>3, <2>4
<1>7. LogShape(C, d, W1)
  <2>1. ASSUME NEW j \in DOMAIN W1, Ddl(W1[j])
        PROVE  /\ W1[j].op = "create" <=> W1[j].prev = None
               /\ W1[j].prev # None =>
                    /\ Sound(W1[j].prev[1]) /\ Live(W1[j].prev[1])
                    /\ W1[j].prev[1].created_xmin \in C \cup {d}
                    /\ IsFirst(W1, j) <=> W1[j].prev[1].created_xmin \in C
    <3>1. CASE j \in DOMAIN W
        BY <1>5, <2>1, <3>1 DEF LogShape
    <3>2. CASE j = N
        BY <1>4, <1>5, <3>2
    <3> QED  BY <1>3, <3>1, <3>2
  <2>2. ASSUME NEW i \in DOMAIN W1, NEW j \in DOMAIN W1, Follows(W1, i, j)
        PROVE  IF W1[j].op = "create"
               THEN W1[i].op = "drop" /\ W1[i].prev[1].created_xmin \in C
               ELSE W1[i].op # "drop" /\ W1[j].prev[1].created_xmin = d
    <3>1. CASE i \in DOMAIN W /\ j \in DOMAIN W /\ Follows(W, i, j)
        BY <3>1 DEF LogShape
    <3>2. CASE i \in DOMAIN W /\ j = N /\ IsLast(W, n, i)
        BY <1>4, <3>2
    <3> QED  BY <1>6, <2>2, <3>1, <3>2
  <2> QED  BY <2>1, <2>2 DEF LogShape
<1>8. After(ws, C, d, W1, N)
  <2>1. ~\A j \in 1 .. N : ~Ddl(W1[j])
      BY <1>2, <1>3, <1>4
  <2>2. ASSUME NEW j \in 1 .. N, IsLast(W1, N, j) PROVE j = N
    <3>1. CASE j \in DOMAIN W
        BY <1>3, <1>4, <2>2, <3>1 DEF IsLast
    <3> QED  BY <1>2, <1>3, <3>1
  <2>3. ASSUME NEW j \in 1 .. N, IsFirst(W1, j) PROVE FirstDone(ws, C, d, W1[j])
    <3>1. CASE j \in DOMAIN W
        BY <1>5, <2>3, <3>1
    <3>2. CASE j = N
        BY <1>4, <1>5, <2>3, <3>2
    <3> QED  BY <1>2, <1>3, <3>1, <3>2
  <2> QED  BY <1>4, <2>1, <2>2, <2>3 DEF After
<1> QED  BY <1>2, <1>7, <1>8 DEF LogGood


-----------------------------------------------------------------------------
(* Statements.                                                              *)

\* The session sees the live version and no other.
Reads(vs, snap, d) == \A i \in DOMAIN vs : seq_visible(vs[i], snap, d) <=> Live(vs[i])

LEMMA ReadLive ==
    ASSUME NEW vs \in Seq(Version), NEW snap, NEW d, Reads(vs, snap, d)
    PROVE  LET i == find_sequence(vs, snap, d) IN
           \/ i = 0 /\ \A j \in DOMAIN vs : ~Live(vs[j])
           \/ i \in DOMAIN vs /\ Live(vs[i])
<1> DEFINE i == find_sequence(vs, snap, d)
<1>1. Len(vs) \in Nat /\ DOMAIN vs = 1 .. Len(vs)
    BY VersionLen
<1>2. \/ i = 0 /\ \A j \in 1 .. Len(vs) : ~seq_visible(vs[j], snap, d)
      \/ i \in 1 .. Len(vs) /\ seq_visible(vs[i], snap, d)
    BY <1>1, FindVisible
<1> HIDE DEF i
<1>3. \/ i = 0 /\ \A j \in DOMAIN vs : ~Live(vs[j])
      \/ i \in DOMAIN vs /\ Live(vs[i])
    BY <1>1, <1>2 DEF Reads
<1> QED  BY <1>3 DEF i

\* What nextval returns.
LEMMA NextSound ==
    ASSUME NEW v, Sound(v), NextPosition(v) # None
    PROVE  /\ NextPosition(v)[1] \in Ints /\ NextPosition(v) = <<NextPosition(v)[1]>>
           /\ "shrink" \notin Quirks => NextPosition(v)[1] \in v.min .. v.max
<1>1. /\ v.min \in Ints /\ v.max \in Ints /\ v.start \in Ints /\ v.increment \in Ints
      /\ v.min < v.max /\ v.start \in v.min .. v.max
      /\ v.current \in Option(Ints) /\ v.is_called \in BOOLEAN
      /\ "shrink" \notin Quirks /\ v.current # None => v.current[1] \in v.min .. v.max
    BY DEF Sound, Version
<1>2. \A x \in Ints : x \in Int
    BY Bounds
<1>3. CASE v.current = None
    BY <1>1, <1>3, Options DEF NextPosition, Some
<1>4. CASE v.current # None /\ ~v.is_called
    BY <1>1, <1>4, Options DEF NextPosition, Some
<1>5. CASE v.current # None /\ v.is_called
  <2> DEFINE n == v.current[1] + v.increment
  <2>1. v.current[1] \in Ints
      BY <1>1, <1>5, Options
  <2>2. NextPosition(v) = IF n \notin Ints THEN None
                          ELSE IF ~Over(v, n) THEN <<n>>
                          ELSE IF v.cycle THEN IF v.increment > 0 THEN <<v.min>> ELSE <<v.max>>
                          ELSE None
      BY <1>5 DEF NextPosition, Some, Ints
  <2>3. n \in Int /\ v.min \in Int /\ v.max \in Int /\ v.increment \in Int /\ v.current[1] \in Int
      BY <1>1, <1>2, <2>1
  <2>4. v.current[1] \in v.min .. v.max /\ ~Over(v, n) => n \in v.min .. v.max
      BY <2>3 DEF Over
  <2> HIDE DEF n
  <2>5. v.min \in v.min .. v.max /\ v.max \in v.min .. v.max
      BY <1>1, <2>3
  <2>6. CASE n \in Ints /\ ~Over(v, n)
      BY <1>1, <1>5, <2>2, <2>4, <2>6, Options
  <2>7. CASE n \in Ints /\ Over(v, n) /\ v.cycle
      BY <1>1, <1>5, <2>2, <2>5, <2>7, Options
  <2> QED  BY <2>2, <2>6, <2>7
<1> QED  BY <1>3, <1>4, <1>5

\* A version whose position has moved.
MovedTo(v, w) ==
    /\ Sound(w) /\ Params(w) = Params(v)
    /\ w.created_xmin = v.created_xmin /\ w.dropped_xmax = v.dropped_xmax

LEMMA MovedSound ==
    ASSUME NEW v, Sound(v), NEW x \in Ints, NEW c \in BOOLEAN,
           "shrink" \notin Quirks => x \in v.min .. v.max
    PROVE  LET w == [v EXCEPT !.current = <<x>>, !.is_called = c] IN
           MovedTo(v, w) /\ w.current = <<x>> /\ w.is_called = c
<1> DEFINE w == [v EXCEPT !.current = <<x>>, !.is_called = c]
<1>1. v \in Version
    BY DEF Sound
<1>2. /\ w.current = <<x>> /\ w.is_called = c /\ w.type = v.type /\ w.increment = v.increment
      /\ w.min = v.min /\ w.max = v.max /\ w.start = v.start /\ w.cycle = v.cycle
      /\ w.created_xmin = v.created_xmin /\ w.dropped_xmax = v.dropped_xmax
    BY <1>1 DEF Version
<1>3. <<x>> \in Option(Ints)
    BY Options
<1>4. w \in Version
    BY <1>1, <1>3 DEF Version
<1> HIDE DEF w
<1>5. Sound(w)
    BY <1>2, <1>4, Options DEF Sound
<1>6. MovedTo(v, w)
    BY <1>2, <1>5 DEF MovedTo, Params
<1> QED  BY <1>2, <1>6 DEF w

LEMMA MoveGood ==
    ASSUME NEW vs, NEW C, NEW d, Apt(C, d), d # 0, Shape(vs, C, d), NEW i \in DOMAIN vs, Live(vs[i]),
           NEW w, MovedTo(vs[i], w)
    PROVE  LET ws == [vs EXCEPT ![i] = w] IN
           /\ Shape(ws, C, d) /\ ShownParams(ws, C) = ShownParams(vs, C)
           /\ Xids(ws) = Xids(vs) /\ DOMAIN ws = DOMAIN vs
           /\ \A j \in DOMAIN vs : ws[j] = IF j = i THEN w ELSE vs[j]
           /\ \A W : LogGood(vs, C, d, W) => LogGood(ws, C, d, W)
<1> DEFINE ws == [vs EXCEPT ![i] = w]
<1>1. Fits(w, C, d) /\ \A j \in DOMAIN vs : j # i => Apart(w, vs[j], C)
    BY DEF Shape, MovedTo, Fits, Apart, Live, IsShown
<1>2. /\ Shape(ws, C, d) /\ DOMAIN ws = DOMAIN vs
      /\ \A j \in DOMAIN vs : ws[j] = IF j = i THEN w ELSE vs[j]
    BY <1>1, ShapeSet
<1> HIDE DEF ws
<1>3. \A j \in DOMAIN vs : /\ ws[j].created_xmin = vs[j].created_xmin
                           /\ ws[j].dropped_xmax = vs[j].dropped_xmax
                           /\ Params(ws[j]) = Params(vs[j])
                           /\ ~Live(vs[j]) => ws[j] = vs[j]
    BY <1>2 DEF MovedTo
<1>4. ShownParams(ws, C) = ShownParams(vs, C)
    BY <1>2, <1>3, ShownEq DEF IsShown
<1>5. Xids(ws) = Xids(vs)
  <2>1. \A x : x \in Xids(ws) <=> x \in Xids(vs)
      BY <1>2, <1>3 DEF Xids
  <2> QED  BY <2>1
<1>6. ASSUME NEW W, LogGood(vs, C, d, W) PROVE LogGood(ws, C, d, W)
  <2>1. LogShape(C, d, W) /\ After(vs, C, d, W, Len(W))
      BY <1>6 DEF LogGood
  <2>2. Untouched(vs, d) => Untouched(ws, d)
      BY <1>2, <1>3 DEF Untouched
  <2>3. ASSUME NEW o, LastDone(vs, C, d, o) PROVE LastDone(ws, C, d, o)
      BY <1>2, <1>3, <2>3 DEF LastDone, Live
  <2>4. ASSUME NEW j \in DOMAIN W, IsFirst(W, j), FirstDone(vs, C, d, W[j]) PROVE FirstDone(ws, C, d, W[j])
    <3>1. CASE W[j].prev # None
      <4>1. PICK b \in DOMAIN vs : vs[b] = [W[j].prev[1] EXCEPT !.dropped_xmax = d]
          BY <2>4, <3>1 DEF FirstDone
      <4>2. W[j].prev[1] \in Version
          BY <2>1, <2>4, <3>1 DEF LogShape, IsFirst, Sound
      <4>3. ~Live(vs[b])
          BY <4>1, <4>2 DEF Version, Live
      <4> QED  BY <1>2, <1>3, <3>1, <4>1, <4>3 DEF FirstDone
    <3>2. CASE W[j].prev = None
        BY <1>2, <1>3, <2>4, <3>2 DEF FirstDone
    <3> QED  BY <3>1, <3>2
  <2>5. \A j \in 1 .. Len(W) : j \in DOMAIN W
      BY <2>1, LogLen
  <2>6. After(ws, C, d, W, Len(W))
      BY <2>1, <2>2, <2>3, <2>4, <2>5 DEF After
  <2> QED  BY <2>1, <2>6 DEF LogGood
<1> QED  BY <1>2, <1>4, <1>5, <1>6 DEF ws


\* The outcome moves the position of the live version i to x.
Moves(vs, out, i, x, c) ==
    /\ i \in DOMAIN vs /\ Live(vs[i]) /\ x \in Ints /\ c \in BOOLEAN
    /\ "shrink" \notin Quirks => x \in vs[i].min .. vs[i].max
    /\ out.versions = [vs EXCEPT ![i] = [vs[i] EXCEPT !.current = <<x>>, !.is_called = c]]
    /\ out.ops = <<>> /\ out.advanced = TRUE /\ out.moved \in BOOLEAN

LEMMA FailedIs ==
    ASSUME NEW vs
    PROVE  LET out == Failed(vs) IN
           /\ out.ok = FALSE /\ out.versions = vs /\ out.ops = <<>> /\ out.advanced = FALSE
           /\ out.value = None /\ out.moved = FALSE
    BY DEF Failed, Outcome

LEMMA NextvalOutcome ==
    ASSUME NEW vs \in Seq(Version), \A i \in DOMAIN vs : Sound(vs[i]),
           NEW snap, NEW d, Reads(vs, snap, d)
    PROVE  LET out == seq_nextval(vs, snap, d) IN
           \/ out = Failed(vs)
           \/ \E i \in DOMAIN vs : \E x \in Ints :
                /\ Moves(vs, out, i, x, TRUE) /\ NextPosition(vs[i]) = <<x>>
                /\ out.ok = TRUE /\ out.value = <<x>>
                /\ out.moved = (vs[i].is_called /\ x # vs[i].current[1] + vs[i].increment)
<1> DEFINE out == seq_nextval(vs, snap, d)
           i == find_sequence(vs, snap, d)
           n == NextPosition(vs[i])
           x == n[1]
<1>1. \/ i = 0
      \/ i \in DOMAIN vs /\ Live(vs[i])
    BY ReadLive
<1>2. out = IF i = 0 \/ n = None THEN Failed(vs)
            ELSE [Outcome([vs EXCEPT ![i].current = n, ![i].is_called = TRUE]) EXCEPT
                    !.advanced = TRUE, !.value = n,
                    !.moved = vs[i].is_called /\ n[1] # vs[i].current[1] + vs[i].increment]
    BY DEF seq_nextval
<1>3. CASE i = 0 \/ n = None
    BY <1>2, <1>3
<1>4. CASE ~(i = 0 \/ n = None)
  <2>1. i \in DOMAIN vs /\ Live(vs[i])
      BY <1>1, <1>4
  <2>2. x \in Ints /\ n = <<x>> /\ ("shrink" \notin Quirks => x \in vs[i].min .. vs[i].max)
      BY <1>4, <2>1, NextSound
  <2>3. vs[i] \in Version
      BY <2>1, VersionLen
  <2> HIDE DEF i, n, x, out
  <2>4. out = [Outcome([vs EXCEPT ![i].current = n, ![i].is_called = TRUE]) EXCEPT
                    !.advanced = TRUE, !.value = n,
                    !.moved = vs[i].is_called /\ n[1] # vs[i].current[1] + vs[i].increment]
      BY <1>2, <1>4
  <2>5. [vs EXCEPT ![i].current = n, ![i].is_called = TRUE] =
            [vs EXCEPT ![i] = [vs[i] EXCEPT !.current = <<x>>, !.is_called = TRUE]]
      BY <2>1, <2>2, <2>3
  <2>6. /\ out.versions = [vs EXCEPT ![i] = [vs[i] EXCEPT !.current = <<x>>, !.is_called = TRUE]]
        /\ out.ops = <<>> /\ out.advanced = TRUE /\ out.ok = TRUE /\ out.value = <<x>>
        /\ out.moved = (vs[i].is_called /\ x # vs[i].current[1] + vs[i].increment)
      BY <2>2, <2>4, <2>5 DEF Outcome, x
  <2>7. Moves(vs, out, i, x, TRUE)
      BY <2>1, <2>2, <2>3, <2>6 DEF Moves, Version
  <2>8. NextPosition(vs[i]) = <<x>>
      BY <2>2 DEF n
  <2> QED  BY <2>1, <2>2, <2>6, <2>7, <2>8 DEF out
<1> QED  BY <1>3, <1>4

LEMMA SetvalOutcome ==
    ASSUME NEW vs \in Seq(Version), \A i \in DOMAIN vs : Sound(vs[i]),
           NEW snap, NEW d, Reads(vs, snap, d), NEW value, NEW c \in BOOLEAN
    PROVE  LET out == seq_setval(vs, snap, d, value, c) IN
           \/ out = Failed(vs)
           \/ /\ \E i \in DOMAIN vs : Moves(vs, out, i, value, c)
              /\ out.ok = TRUE /\ out.value = None /\ out.moved = TRUE
<1> DEFINE out == seq_setval(vs, snap, d, value, c)
           i == find_sequence(vs, snap, d)
<1>1. \/ i = 0
      \/ i \in DOMAIN vs /\ Live(vs[i])
    BY ReadLive
<1>2. out = IF i = 0 \/ value \notin vs[i].min .. vs[i].max THEN Failed(vs)
            ELSE [Outcome([vs EXCEPT ![i].current = Some(value), ![i].is_called = c]) EXCEPT
                    !.advanced = TRUE, !.moved = TRUE]
    BY DEF seq_setval
<1> HIDE DEF i, out
<1>3. CASE i = 0 \/ value \notin vs[i].min .. vs[i].max
    BY <1>2, <1>3 DEF out
<1>4. CASE ~(i = 0 \/ value \notin vs[i].min .. vs[i].max)
  <2>1. i \in DOMAIN vs /\ Live(vs[i]) /\ vs[i] \in Version
      BY <1>1, <1>4, VersionLen
  <2>2. value \in Ints
    <3>1. vs[i].min \in Ints /\ vs[i].max \in Ints
        BY <2>1 DEF Version
    <3> QED  BY <1>4, <3>1, Bounds
  <2>3. out = [Outcome([vs EXCEPT ![i].current = Some(value), ![i].is_called = c]) EXCEPT
                    !.advanced = TRUE, !.moved = TRUE]
      BY <1>2, <1>4
  <2>4. [vs EXCEPT ![i].current = Some(value), ![i].is_called = c] =
            [vs EXCEPT ![i] = [vs[i] EXCEPT !.current = <<value>>, !.is_called = c]]
      BY <2>1 DEF Some
  <2>5. /\ out.versions = [vs EXCEPT ![i] = [vs[i] EXCEPT !.current = <<value>>, !.is_called = c]]
        /\ out.ops = <<>> /\ out.advanced = TRUE /\ out.ok = TRUE /\ out.value = None
        /\ out.moved = TRUE
      BY <2>3, <2>4 DEF Outcome
  <2>6. Moves(vs, out, i, value, c)
      BY <1>4, <2>1, <2>2, <2>5 DEF Moves
  <2> QED  BY <2>1, <2>5, <2>6 DEF out
<1> QED  BY <1>3, <1>4

\* Two versions of d there are only if d had one before.
OneMore(vs, ws, d) ==
    \A i, j \in DOMAIN ws :
        i # j /\ ws[i].created_xmin = d /\ ws[j].created_xmin = d =>
            \E k \in DOMAIN vs : vs[k].created_xmin = d

\* What a statement does to the versions and to its transaction's log.
Done(vs, out, C, d, W) ==
    /\ OneMore(vs, out.versions, d)
    /\ Shape(out.versions, C, d)
    /\ ShownParams(out.versions, C) = ShownParams(vs, C)
    /\ out.ops \in Seq(OpRec)
    /\ LogGood(out.versions, C, d, W \o out.ops)
    /\ Xids(out.versions) \subseteq Xids(vs) \cup {0, d}
    /\ out.ops = <<>> => Xids(out.versions) = Xids(vs)
    /\ out.ok \in BOOLEAN /\ out.advanced \in BOOLEAN /\ out.moved \in BOOLEAN
    /\ out.value \in Option(Ints)
    /\ out.value # None => out.ok /\ out.advanced /\ out.ops = <<>>
    /\ out.ops # <<>> => out.ok

LEMMA FailedDone ==
    ASSUME NEW vs, NEW C, NEW d, Apt(C, d), d # 0, Shape(vs, C, d), NEW W, LogGood(vs, C, d, W)
    PROVE  Done(vs, Failed(vs), C, d, W)
<1> DEFINE out == Failed(vs)
<1>1. /\ out.ok = FALSE /\ out.versions = vs /\ out.ops = <<>> /\ out.advanced = FALSE
      /\ out.value = None /\ out.moved = FALSE
    BY FailedIs
<1> HIDE DEF out
<1>2. W \o out.ops = W
  <2>1. W \in Seq(OpRec)
      BY LogLen DEF LogGood
  <2>2. W \o <<>> = W
      BY <2>1, ConcatEmptySeq, Zenon
  <2> QED  BY <1>1, <2>2
<1>3. out.ops \in Seq(OpRec) /\ out.value \in Option(Ints)
    BY <1>1, EmptySeq, Options
<1>4. LogGood(out.versions, C, d, W \o out.ops)
    BY <1>1, <1>2
<1>5. OneMore(vs, out.versions, d)
    BY <1>1 DEF OneMore
<1> QED  BY <1>1, <1>3, <1>4, <1>5 DEF Done, out

LEMMA MovesDone ==
    ASSUME NEW vs, NEW C, NEW d, Apt(C, d), d # 0, Shape(vs, C, d), NEW W, LogGood(vs, C, d, W),
           NEW out, NEW i, NEW x, NEW c, Moves(vs, out, i, x, c),
           out.ok \in BOOLEAN, out.value \in Option(Ints), out.value # None => out.ok
    PROVE  Done(vs, out, C, d, W)
<1> DEFINE w == [vs[i] EXCEPT !.current = <<x>>, !.is_called = c]
<1>1. i \in DOMAIN vs /\ Live(vs[i]) /\ Sound(vs[i])
    BY DEF Moves, Shape, Fits
<1>2. MovedTo(vs[i], w)
    BY <1>1, MovedSound DEF Moves
<1> HIDE DEF w
<1>3. out.versions = [vs EXCEPT ![i] = w] /\ out.ops = <<>> /\ out.advanced = TRUE /\ out.moved \in BOOLEAN
    BY DEF Moves, w
<1>4. /\ Shape(out.versions, C, d) /\ ShownParams(out.versions, C) = ShownParams(vs, C)
      /\ Xids(out.versions) = Xids(vs) /\ LogGood(out.versions, C, d, W)
    BY <1>1, <1>2, <1>3, MoveGood
<1>5. W \o out.ops = W
  <2>1. W \in Seq(OpRec)
      BY LogLen DEF LogGood
  <2>2. W \o <<>> = W
      BY <2>1, ConcatEmptySeq, Zenon
  <2> QED  BY <1>3, <2>2
<1>6. out.ops \in Seq(OpRec)
    BY <1>3, EmptySeq
<1>7. LogGood(out.versions, C, d, W \o out.ops)
    BY <1>4, <1>5
<1>8. OneMore(vs, out.versions, d)
  <2>1. /\ DOMAIN out.versions = DOMAIN vs
        /\ \A j \in DOMAIN vs : out.versions[j] = IF j = i THEN w ELSE vs[j]
      BY <1>1, <1>2, <1>3, MoveGood
  <2>2. w.created_xmin = vs[i].created_xmin
      BY <1>2 DEF MovedTo
  <2> QED  BY <2>1, <2>2 DEF OneMore
<1> QED  BY <1>3, <1>4, <1>6, <1>7, <1>8 DEF Done


\* The log and the live version.
LEMMA LiveLog ==
    ASSUME NEW vs, NEW C, NEW d, Apt(C, d), d # 0, Shape(vs, C, d), NEW W, LogGood(vs, C, d, W)
    PROVE  /\ NoDdl(W) => Untouched(vs, d)
           /\ \A i \in DOMAIN vs : Live(vs[i]) =>
                /\ NoDdl(W) <=> vs[i].created_xmin \in C
                /\ \A j \in DOMAIN W : IsLast(W, Len(W), j) => W[j].op # "drop" /\ vs[i].created_xmin = d
           /\ (\A i \in DOMAIN vs : ~Live(vs[i])) =>
                \A j \in DOMAIN W : IsLast(W, Len(W), j) =>
                    /\ W[j].op = "drop" /\ W[j].prev # None /\ W[j].prev[1].created_xmin \in C \cup {d}
                    /\ \E i \in DOMAIN vs : vs[i].created_xmin = W[j].prev[1].created_xmin
<1>1. LogShape(C, d, W) /\ After(vs, C, d, W, Len(W))
    BY DEF LogGood
<1>2. Len(W) \in Nat /\ DOMAIN W = 1 .. Len(W)
    BY <1>1, LogLen
<1>3. NoDdl(W) => Untouched(vs, d)
    BY <1>1, <1>2 DEF After, NoDdl
<1>4. \A j \in DOMAIN W : IsLast(W, Len(W), j) => LastDone(vs, C, d, W[j])
    BY <1>1, <1>2 DEF After
<1>5. ASSUME NEW i \in DOMAIN vs, Live(vs[i]), NEW j \in DOMAIN W, IsLast(W, Len(W), j)
      PROVE  W[j].op # "drop" /\ vs[i].created_xmin = d
  <2>1. LastDone(vs, C, d, W[j])
      BY <1>4, <1>5
  <2>2. W[j].op # "drop"
      BY <1>5, <2>1 DEF LastDone
  <2>3. PICK k \in DOMAIN vs : Live(vs[k]) /\ vs[k].created_xmin = d
      BY <2>1, <2>2 DEF LastDone
  <2>4. k = i
      BY <1>5, <2>3, OneOnly
  <2> QED  BY <2>2, <2>3, <2>4
<1>6. ASSUME NEW i \in DOMAIN vs, Live(vs[i]) PROVE NoDdl(W) <=> vs[i].created_xmin \in C
  <2>1. vs[i].created_xmin \in C \cup {d}
      BY DEF Shape, Fits
  <2>2. NoDdl(W) => vs[i].created_xmin # d
      BY <1>3 DEF Untouched
  <2>3. ASSUME ~NoDdl(W) PROVE vs[i].created_xmin = d
    <3>1. PICK k \in 1 .. Len(W) : Ddl(W[k])
        BY <1>2, <2>3 DEF NoDdl
    <3>2. PICK j \in 1 .. Len(W) : IsLast(W, Len(W), j)
        BY <1>2, <3>1, HasFirst
    <3> QED  BY <1>2, <1>5, <1>6, <3>2
  <2> QED  BY <2>1, <2>2, <2>3 DEF Apt
<1>7. ASSUME \A i \in DOMAIN vs : ~Live(vs[i]), NEW j \in DOMAIN W, IsLast(W, Len(W), j)
      PROVE  /\ W[j].op = "drop" /\ W[j].prev # None /\ W[j].prev[1].created_xmin \in C \cup {d}
             /\ \E i \in DOMAIN vs : vs[i].created_xmin = W[j].prev[1].created_xmin
  <2>1. LastDone(vs, C, d, W[j])
      BY <1>4, <1>7
  <2>2. W[j].op = "drop" /\ \E i \in DOMAIN vs : vs[i].created_xmin = W[j].prev[1].created_xmin
      BY <1>7, <2>1 DEF LastDone
  <2>3. Ddl(W[j])
      BY <2>2 DEF Ddl, DDL
  <2>4. W[j].prev # None /\ W[j].prev[1].created_xmin \in C \cup {d}
      BY <1>1, <2>2, <2>3 DEF LogShape
  <2> QED  BY <2>2, <2>4
<1> QED  BY <1>3, <1>5, <1>6, <1>7

\* What the first op has found stays when only the block's own versions change.
LEMMA FirstKept ==
    ASSUME NEW vs, NEW ws, NEW C, NEW d, NEW W, LogShape(C, d, W),
           \A k \in DOMAIN vs : vs[k].created_xmin \in C => \E i \in DOMAIN ws : ws[i] = vs[k],
           \A i \in DOMAIN ws : ws[i].created_xmin \in C => \E k \in DOMAIN vs : ws[i] = vs[k],
           NEW j \in DOMAIN W, IsFirst(W, j), FirstDone(vs, C, d, W[j])
    PROVE  FirstDone(ws, C, d, W[j])
<1>1. CASE W[j].prev # None
  <2>1. PICK b \in DOMAIN vs : vs[b] = [W[j].prev[1] EXCEPT !.dropped_xmax = d]
      BY <1>1 DEF FirstDone
  <2>2. W[j].prev[1].created_xmin \in C /\ W[j].prev[1] \in Version
      BY <1>1 DEF LogShape, IsFirst, Sound
  <2>3. vs[b].created_xmin \in C
    <3> DEFINE p == W[j].prev[1]
    <3>1. p.created_xmin \in C /\ p \in Version /\ vs[b] = [p EXCEPT !.dropped_xmax = d]
        BY <2>1, <2>2
    <3> HIDE DEF p
    <3>2. vs[b].created_xmin = p.created_xmin
        BY <3>1 DEF Version
    <3> QED  BY <3>1, <3>2
  <2>4. PICK i \in DOMAIN ws : ws[i] = vs[b]
      BY <2>3
  <2> QED  BY <1>1, <2>1, <2>4 DEF FirstDone
<1>2. CASE W[j].prev = None
  <2>1. \A i \in DOMAIN vs : vs[i].created_xmin \in C => vs[i].dropped_xmax \in C
      BY <1>2 DEF FirstDone
  <2>2. \A i \in DOMAIN ws : ws[i].created_xmin \in C => ws[i].dropped_xmax \in C
      BY <2>1
  <2> QED  BY <1>2, <2>2 DEF FirstDone
<1> QED  BY <1>1, <1>2

LEMMA LogPlus ==
    ASSUME NEW W \in Seq(OpRec), NEW w \in OpRec
    PROVE  LET W1 == W \o <<w>> IN
           /\ W1 \in Seq(OpRec) /\ Len(W1) = Len(W) + 1 /\ W1[Len(W) + 1] = w
           /\ \A j \in DOMAIN W : W1[j] = W[j]
           /\ <<w>> \in Seq(OpRec) /\ <<w>> # <<>>
<1>1. Append(W, w) = W \o <<w>>
    BY AppendIsConcat
<1>2. Len(W) \in Nat /\ DOMAIN W = 1 .. Len(W)
    BY LenProperties
<1>3. /\ Append(W, w) \in Seq(OpRec) /\ Len(Append(W, w)) = Len(W) + 1
      /\ Append(W, w)[Len(W) + 1] = w /\ \A j \in 1 .. Len(W) : Append(W, w)[j] = W[j]
    BY AppendProperties
<1>4. <<w>> \in Seq(OpRec) /\ <<w>> # <<>>
    OBVIOUS
<1> QED  BY <1>1, <1>2, <1>3, <1>4

\* Marking the live version dropped.
IsDropped(vs, ws, i, C, d) ==
    LET v == [vs[i] EXCEPT !.dropped_xmax = d] IN
    /\ Shape(ws, C, d) /\ ShownParams(ws, C) = ShownParams(vs, C)
    /\ Xids(ws) \subseteq Xids(vs) \cup {d}
    /\ DOMAIN ws = DOMAIN vs /\ \A j \in DOMAIN vs : ws[j] = IF j = i THEN v ELSE vs[j]
    /\ \A j \in DOMAIN ws : ~Live(ws[j])
    /\ v.created_xmin = vs[i].created_xmin /\ v.dropped_xmax = d

LEMMA DropLive ==
    ASSUME NEW vs, NEW C, NEW d, Apt(C, d), d # 0, Shape(vs, C, d), NEW i \in DOMAIN vs, Live(vs[i])
    PROVE  IsDropped(vs, [vs EXCEPT ![i].dropped_xmax = d], i, C, d)
<1> DEFINE v == [vs[i] EXCEPT !.dropped_xmax = d]
           ws == [vs EXCEPT ![i].dropped_xmax = d]
<1>1. Sound(vs[i]) /\ vs[i] \in Version /\ vs[i].created_xmin \in C \cup {d} /\ d \in Nat
    BY DEF Shape, Fits, Sound, Apt
<1>2. ws = [vs EXCEPT ![i] = v]
    OBVIOUS
<1>3. /\ v.created_xmin = vs[i].created_xmin /\ v.dropped_xmax = d /\ v \in Version
      /\ v.increment = vs[i].increment /\ v.min = vs[i].min /\ v.max = vs[i].max
      /\ v.start = vs[i].start /\ v.current = vs[i].current /\ v.type = vs[i].type
      /\ v.cycle = vs[i].cycle
    BY <1>1 DEF Version
<1> HIDE DEF v, ws
<1>4. Sound(v) /\ Params(v) = Params(vs[i])
    BY <1>1, <1>3 DEF Sound, Params
<1>5. Fits(v, C, d)
    BY <1>1, <1>3, <1>4 DEF Fits
<1>6. IsShown(v, C) <=> IsShown(vs[i], C)
    BY <1>3 DEF IsShown, Live, Apt
<1>7. ~Live(v)
    BY <1>3 DEF Live
<1>8. \A j \in DOMAIN vs : j # i => Apart(v, vs[j], C)
    BY <1>3, <1>6, <1>7 DEF Shape, Apart
<1>9. /\ Shape(ws, C, d) /\ DOMAIN ws = DOMAIN vs
      /\ \A j \in DOMAIN vs : ws[j] = IF j = i THEN v ELSE vs[j]
    BY <1>2, <1>5, <1>8, ShapeSet
<1>10. ShownParams(ws, C) = ShownParams(vs, C)
  <2>1. \A j \in DOMAIN vs : /\ IsShown(ws[j], C) <=> IsShown(vs[j], C)
                             /\ Params(ws[j]) = Params(vs[j])
      BY <1>4, <1>6, <1>9
  <2> QED  BY <1>9, <2>1, ShownEq
<1>11. Xids(ws) \subseteq Xids(vs) \cup {d}
    BY <1>3, <1>9 DEF Xids
<1>12. \A j \in DOMAIN ws : ~Live(ws[j])
    BY <1>7, <1>9, OneOnly
<1> QED  BY <1>3, <1>9, <1>10, <1>11, <1>12 DEF v, ws, IsDropped

LEMMA CreateDone ==
    ASSUME NEW vs, NEW C, NEW d, Apt(C, d), d # 0, Shape(vs, C, d), NEW W, LogGood(vs, C, d, W),
           NEW snap, Reads(vs, snap, d), NEW opts \in Opts,
           \A j \in DOMAIN vs : vs[j].created_xmin # d
    PROVE  LET out == exec_create_sequence(vs, snap, d, opts) IN
           /\ Done(vs, out, C, d, W) /\ out.value = None /\ out.advanced = FALSE
           /\ \/ out = Failed(vs)
              \/ /\ out.moved = TRUE /\ out.ok = TRUE /\ out.ops = <<Op("create", None)>>
                 /\ \A i \in DOMAIN vs : ~Live(vs[i])
                 /\ DOMAIN out.versions = DOMAIN vs \cup {Len(vs) + 1}
                 /\ \A i \in DOMAIN vs : out.versions[i] = vs[i]
<1> DEFINE out == exec_create_sequence(vs, snap, d, opts)
           i == find_sequence(vs, snap, d)
           new == NewVersion(Resolved(opts, None), d)
           ws == Append(vs, new)
           w == Op("create", None)
           N == Len(vs) + 1
<1>1. vs \in Seq(Version) /\ LogShape(C, d, W) /\ After(vs, C, d, W, Len(W)) /\ W \in Seq(OpRec)
    BY LogLen DEF Shape, LogGood
<1>2. out = IF i # 0 \/ ~sequence_params(opts, None) THEN Failed(vs)
            ELSE [Outcome(ws) EXCEPT !.ops = <<w>>, !.moved = TRUE]
    BY DEF exec_create_sequence
<1>3. CASE i # 0 \/ ~sequence_params(opts, None)
  <2>1. out = Failed(vs)
      BY <1>2, <1>3
  <2> HIDE DEF out
  <2> QED  BY <2>1, FailedDone, FailedIs DEF out
<1>4. CASE i = 0 /\ sequence_params(opts, None)
  <2>1. out = [Outcome(ws) EXCEPT !.ops = <<w>>, !.moved = TRUE]
      BY <1>2, <1>4
  <2>2. \A j \in DOMAIN vs : ~Live(vs[j])
      BY <1>1, <1>4, VersionLen, ReadLive
  <2>3. d \in Nat \ {0}
      BY DEF Apt
  <2>4. Sound(new) /\ Live(new) /\ new.created_xmin = d
      BY <1>4, <2>3, CreatedSound
  <2>5. w \in OpRec /\ w.op = "create" /\ w.prev = None /\ Ddl(w)
      BY Options DEF Op, OpRec, Ddl, DDL
  <2> HIDE DEF out, new, i, w
  <2>6. /\ out.versions = ws /\ out.ops = <<w>> /\ out.moved = TRUE /\ out.ok = TRUE
        /\ out.advanced = FALSE /\ out.value = None
      BY <2>1 DEF Outcome
  <2>7. Fits(new, C, d) /\ ~IsShown(new, C)
      BY <2>4 DEF Fits, Live, IsShown, Apt
  <2>8. \A j \in DOMAIN vs : Apart(new, vs[j], C)
      BY <2>2, <2>4, <2>7 DEF Apart, Apt
  <2>9. /\ Shape(ws, C, d) /\ DOMAIN ws = DOMAIN vs \cup {N} /\ ws[N] = new
        /\ \A j \in DOMAIN vs : ws[j] = vs[j]
      BY <2>7, <2>8, ShapeAppend
  <2> HIDE DEF ws, N
  <2>10. ShownParams(ws, C) = ShownParams(vs, C)
      BY <2>7, <2>9, ShownEq
  <2>11. Xids(ws) \subseteq Xids(vs) \cup {0, d}
      BY <2>4, <2>9 DEF Xids, Live
  <2>12. LastDone(ws, C, d, w)
      BY <2>4, <2>5, <2>9 DEF LastDone
  <2>13. NoDdl(W) => FirstDone(ws, C, d, w)
    <3>1. ASSUME NoDdl(W), NEW j \in DOMAIN vs PROVE vs[j].dropped_xmax \in C
      <4>1. vs[j].dropped_xmax # d
          BY <3>1, LiveLog DEF Untouched
      <4> QED  BY <2>2, <4>1 DEF Shape, Fits, Live
    <3>2. ws[N].created_xmin \notin C
        BY <2>4, <2>9 DEF Apt
    <3> QED  BY <2>5, <2>9, <3>1, <3>2 DEF FirstDone
  <2>14. ASSUME NEW j \in DOMAIN W, IsLast(W, Len(W), j)
         PROVE  W[j].op = "drop" /\ W[j].prev[1].created_xmin \in C
    <3>1. /\ W[j].op = "drop" /\ W[j].prev[1].created_xmin \in C \cup {d}
          /\ \E k \in DOMAIN vs : vs[k].created_xmin = W[j].prev[1].created_xmin
        BY <2>2, <2>14, LiveLog
    <3> QED  BY <3>1
  <2>15. ASSUME NEW j \in DOMAIN W, IsFirst(W, j) PROVE FirstDone(ws, C, d, W[j])
    <3>1. FirstDone(vs, C, d, W[j])
        BY <1>1, <2>15, LogLen DEF After
    <3>2. \A k \in DOMAIN vs : vs[k].created_xmin \in C => \E l \in DOMAIN ws : ws[l] = vs[k]
        BY <2>9
    <3>3. \A l \in DOMAIN ws : ws[l].created_xmin \in C => \E k \in DOMAIN vs : ws[l] = vs[k]
        BY <2>4, <2>9 DEF Apt
    <3> QED  BY <1>1, <2>15, <3>1, <3>2, <3>3, FirstKept
  <2> DEFINE W1 == W \o <<w>>
  <2>16. /\ W1 \in Seq(OpRec) /\ Len(W1) = Len(W) + 1 /\ W1[Len(W) + 1] = w
         /\ \A j \in DOMAIN W : W1[j] = W[j]
         /\ <<w>> \in Seq(OpRec) /\ <<w>> # <<>>
      BY <1>1, <2>5, LogPlus
  <2> HIDE DEF W1
  <2>17. LogGood(ws, C, d, W1)
      BY <1>1, <2>5, <2>12, <2>13, <2>14, <2>15, <2>16, LogAppend
  <2>19. OneMore(vs, ws, d)
      BY <2>9 DEF OneMore
  <2>18. Done(vs, out, C, d, W)
      BY <2>6, <2>9, <2>10, <2>11, <2>16, <2>17, <2>19, Options DEF Done, W1
  <2> QED  BY <2>2, <2>6, <2>9, <2>18 DEF out, w, N
<1> QED  BY <1>3, <1>4

\* The op of a statement on the live version.
LEMMA LiveOp ==
    ASSUME NEW vs, NEW C, NEW d, Apt(C, d), d # 0, Shape(vs, C, d), NEW W, LogGood(vs, C, d, W),
           NEW i \in DOMAIN vs, Live(vs[i]), NEW kind \in {"alter", "drop"}, NEW ws,
           LastDone(ws, C, d, Op(kind, Some(vs[i]))),
           \E k \in DOMAIN ws : ws[k] = [vs[i] EXCEPT !.dropped_xmax = d],
           \A k \in DOMAIN vs : k # i => \E l \in DOMAIN ws : ws[l] = vs[k],
           \A l \in DOMAIN ws : ws[l].created_xmin \in C =>
                ws[l].created_xmin = vs[i].created_xmin \/ \E k \in DOMAIN vs : ws[l] = vs[k]
    PROVE  LET w == Op(kind, Some(vs[i])) IN
           /\ <<w>> \in Seq(OpRec) /\ <<w>> # <<>>
           /\ LogGood(ws, C, d, W \o <<w>>)
<1> DEFINE w == Op(kind, Some(vs[i]))
           W1 == W \o <<w>>
<1>1. LogShape(C, d, W) /\ After(vs, C, d, W, Len(W)) /\ W \in Seq(OpRec)
    BY LogLen DEF LogGood
<1>2. vs[i] \in Version /\ Sound(vs[i]) /\ vs[i].created_xmin \in C \cup {d}
    BY DEF Shape, Fits, Sound
<1>3. /\ w.op = kind /\ w.prev = <<vs[i]>> /\ w.prev # None /\ w.prev[1] = vs[i] /\ Ddl(w)
      /\ w.op # "create"
    BY Options DEF Op, Some, Ddl, DDL
<1>4. w \in OpRec
    BY <1>2, Options DEF Op, OpRec, Some, DDL
<1> HIDE DEF w
<1>5. /\ W1 \in Seq(OpRec) /\ Len(W1) = Len(W) + 1 /\ W1[Len(W) + 1] = w
      /\ \A j \in DOMAIN W : W1[j] = W[j]
      /\ <<w>> \in Seq(OpRec) /\ <<w>> # <<>>
    BY <1>1, <1>4, LogPlus
<1> HIDE DEF W1
<1>6. NoDdl(W) <=> vs[i].created_xmin \in C
    BY LiveLog
<1>7. NoDdl(W) => FirstDone(ws, C, d, w)
    BY <1>3 DEF FirstDone
<1>8. ASSUME NEW j \in DOMAIN W, IsFirst(W, j) PROVE FirstDone(ws, C, d, W[j])
  <2>1. FirstDone(vs, C, d, W[j])
      BY <1>1, <1>8, LogLen DEF After
  <2>2. vs[i].created_xmin \notin C
      BY <1>6, <1>8 DEF NoDdl, IsFirst
  <2>3. \A k \in DOMAIN vs : vs[k].created_xmin \in C => \E l \in DOMAIN ws : ws[l] = vs[k]
      BY <2>2
  <2>4. \A l \in DOMAIN ws : ws[l].created_xmin \in C => \E k \in DOMAIN vs : ws[l] = vs[k]
      BY <2>2
  <2> QED  BY <1>1, <1>8, <2>1, <2>3, <2>4, FirstKept
<1>9. ASSUME NEW j \in DOMAIN W, IsLast(W, Len(W), j)
      PROVE  W[j].op # "drop" /\ w.prev[1].created_xmin = d
    BY <1>3, <1>9, LiveLog
<1>10. LastDone(ws, C, d, w)
    BY DEF w
<1>11. LogGood(ws, C, d, W1)
    BY <1>1, <1>2, <1>3, <1>5, <1>6, <1>7, <1>8, <1>9, <1>10, LogAppend
<1> QED  BY <1>5, <1>11 DEF w, W1

\* What a DROP that finds the sequence leaves.
DropTakes(vs, out) ==
    \E i \in DOMAIN vs :
        /\ Live(vs[i]) /\ out.ops = <<Op("drop", Some(vs[i]))>>
        /\ \A j \in DOMAIN out.versions : ~Live(out.versions[j])
        /\ DOMAIN out.versions = DOMAIN vs
        /\ \A j \in DOMAIN vs : out.versions[j].created_xmin = vs[j].created_xmin

LEMMA DropDone ==
    ASSUME NEW vs, NEW C, NEW d, Apt(C, d), d # 0, Shape(vs, C, d), NEW W, LogGood(vs, C, d, W),
           NEW snap, Reads(vs, snap, d)
    PROVE  LET out == exec_drop_sequence(vs, snap, d) IN
           /\ Done(vs, out, C, d, W) /\ out.value = None /\ out.advanced = FALSE
           /\ out.moved = FALSE
           /\ out = Failed(vs) \/ (out.ok = TRUE /\ DropTakes(vs, out))
<1> DEFINE out == exec_drop_sequence(vs, snap, d)
           i == find_sequence(vs, snap, d)
           ws == [vs EXCEPT ![i].dropped_xmax = d]
           w == Op("drop", Some(vs[i]))
           v == [vs[i] EXCEPT !.dropped_xmax = d]
<1>1. vs \in Seq(Version) /\ LogShape(C, d, W) /\ After(vs, C, d, W, Len(W)) /\ W \in Seq(OpRec)
    BY LogLen DEF Shape, LogGood
<1>2. out = IF i = 0 THEN Failed(vs) ELSE [Outcome(ws) EXCEPT !.ops = <<w>>]
    BY DEF exec_drop_sequence
<1>3. CASE i = 0
  <2>1. out = Failed(vs)
      BY <1>2, <1>3
  <2> HIDE DEF out
  <2> QED  BY <2>1, FailedDone, FailedIs DEF out
<1>4. CASE i # 0
  <2>1. i \in DOMAIN vs /\ Live(vs[i])
      BY <1>1, <1>4, ReadLive
  <2> HIDE DEF i
  <2>0. IsDropped(vs, ws, i, C, d)
      BY <2>1, DropLive
  <2>2. /\ Shape(ws, C, d) /\ ShownParams(ws, C) = ShownParams(vs, C)
        /\ Xids(ws) \subseteq Xids(vs) \cup {d}
        /\ DOMAIN ws = DOMAIN vs /\ \A j \in DOMAIN vs : ws[j] = IF j = i THEN v ELSE vs[j]
        /\ \A j \in DOMAIN ws : ~Live(ws[j])
        /\ v.created_xmin = vs[i].created_xmin /\ v.dropped_xmax = d
    <3> HIDE DEF ws
    <3> QED  BY <2>0 DEF IsDropped
  <2>3. out = [Outcome(ws) EXCEPT !.ops = <<w>>]
      BY <1>2, <1>4
  <2>4. w.op = "drop" /\ w.prev[1] = vs[i]
      BY Options DEF Op, Some
  <2> HIDE DEF out, ws, w
  <2>5. /\ out.versions = ws /\ out.ops = <<w>> /\ out.moved = FALSE /\ out.ok = TRUE
        /\ out.advanced = FALSE /\ out.value = None
      BY <2>3 DEF Outcome
  <2>6. LastDone(ws, C, d, w)
    <3>1. \E k \in DOMAIN ws : ws[k].created_xmin = vs[i].created_xmin /\ ws[k].dropped_xmax = d
        BY <2>1, <2>2
    <3>2. vs[i].created_xmin \in C => \A k \in DOMAIN vs : vs[k].created_xmin # d
        BY <2>1, LiveLog DEF Untouched
    <3>3. vs[i].created_xmin \in C => \A k \in DOMAIN ws : ws[k].created_xmin # d
        BY <2>2, <3>2
    <3> QED  BY <2>2, <2>4, <3>1, <3>3 DEF LastDone
  <2>7. \E k \in DOMAIN ws : ws[k] = v
      BY <2>1, <2>2
  <2>8. \A k \in DOMAIN vs : k # i => \E l \in DOMAIN ws : ws[l] = vs[k]
      BY <2>2
  <2>9. \A l \in DOMAIN ws : ws[l].created_xmin \in C =>
            ws[l].created_xmin = vs[i].created_xmin \/ \E k \in DOMAIN vs : ws[l] = vs[k]
      BY <2>2
  <2> HIDE DEF v
  <2>10. <<w>> \in Seq(OpRec) /\ <<w>> # <<>> /\ LogGood(ws, C, d, W \o <<w>>)
      BY <2>1, <2>6, <2>7, <2>8, <2>9, LiveOp DEF w, v
  <2>11. Done(vs, out, C, d, W)
    <3>1. Xids(ws) \subseteq Xids(vs) \cup {0, d}
        BY <2>2
    <3>2. OneMore(vs, ws, d)
        BY <2>2 DEF OneMore
    <3> QED  BY <2>2, <2>5, <2>10, <3>1, <3>2, Options DEF Done
  <2>12. \A j \in DOMAIN vs : ws[j].created_xmin = vs[j].created_xmin
      BY <2>2
  <2>13. out.ops = <<Op("drop", Some(vs[i]))>>
      BY <2>5 DEF w
  <2>14. /\ \A j \in DOMAIN out.versions : ~Live(out.versions[j])
         /\ DOMAIN out.versions = DOMAIN vs
         /\ \A j \in DOMAIN vs : out.versions[j].created_xmin = vs[j].created_xmin
      BY <2>2, <2>5, <2>12
  <2>15. DropTakes(vs, out)
      BY <2>1, <2>13, <2>14 DEF DropTakes
  <2> QED  BY <2>5, <2>11, <2>15 DEF out
<1> QED  BY <1>3, <1>4


\* The position stays within the bounds that ALTER SEQUENCE sets.
AlterKeeps(vs, opts, d) ==
    \A i \in DOMAIN vs : Live(vs[i]) /\ "shrink" \notin Quirks =>
        LET new == Altered(vs[i], opts, d)
        IN  new.current # None => new.current[1] \in new.min .. new.max

AlterAdds(vs, out) ==
    LET N == Len(vs) + 1 IN
    \E i \in DOMAIN vs :
        /\ Live(vs[i]) /\ out.ops = <<Op("alter", Some(vs[i]))>> /\ out.ok = TRUE
        /\ DOMAIN out.versions = DOMAIN vs \cup {N} /\ N \notin DOMAIN vs
        /\ \A j \in DOMAIN vs : ~Live(out.versions[j])
        /\ Live(out.versions[N])
        /\ ~out.moved => /\ out.versions[N].current = vs[i].current
                         /\ out.versions[N].is_called = vs[i].is_called
                         /\ (out.versions[N].increment > 0) = (vs[i].increment > 0)

LEMMA AlterDone ==
    ASSUME NEW vs, NEW C, NEW d, Apt(C, d), d # 0, Shape(vs, C, d), NEW W, LogGood(vs, C, d, W),
           NEW snap, Reads(vs, snap, d), NEW opts \in Opts, AlterKeeps(vs, opts, d)
    PROVE  LET out == exec_alter_sequence(vs, snap, d, opts) IN
           /\ Done(vs, out, C, d, W) /\ out.value = None
           /\ out = Failed(vs) \/ AlterAdds(vs, out)
<1> DEFINE out == exec_alter_sequence(vs, snap, d, opts)
           i == find_sequence(vs, snap, d)
           u == [vs EXCEPT ![i].dropped_xmax = d]
           new == Altered(vs[i], opts, d)
           r == Restart(opts, new)
           ws == Append(u, new)
           w == Op("alter", Some(vs[i]))
           v == [vs[i] EXCEPT !.dropped_xmax = d]
           moved == r # None \/ (new.increment > 0) # (vs[i].increment > 0)
           N == Len(vs) + 1
<1>1. vs \in Seq(Version) /\ LogShape(C, d, W) /\ After(vs, C, d, W, Len(W)) /\ W \in Seq(OpRec)
    BY LogLen DEF Shape, LogGood
<1>2. out = IF i = 0 \/ ~sequence_params(opts, Some(vs[i])) THEN Failed(vs)
            ELSE [Outcome(ws) EXCEPT !.ops = <<w>>, !.advanced = (r # None), !.moved = moved]
    BY DEF exec_alter_sequence
<1>3. CASE i = 0 \/ ~sequence_params(opts, Some(vs[i]))
  <2>1. out = Failed(vs)
      BY <1>2, <1>3
  <2> HIDE DEF out
  <2> QED  BY <2>1, FailedDone, FailedIs DEF out
<1>4. CASE i # 0 /\ sequence_params(opts, Some(vs[i]))
  <2>1. i \in DOMAIN vs /\ Live(vs[i]) /\ Sound(vs[i])
    <3>1. i \in DOMAIN vs /\ Live(vs[i])
        BY <1>1, <1>4, ReadLive
    <3> HIDE DEF i
    <3> QED  BY <3>1 DEF Shape, Fits
  <2>2. out = [Outcome(ws) EXCEPT !.ops = <<w>>, !.advanced = (r # None), !.moved = moved]
      BY <1>2, <1>4
  <2>3. d \in Nat \ {0}
      BY DEF Apt
  <2>4. /\ Sound(new) /\ Live(new) /\ new.created_xmin = d
        /\ r = None => new.current = vs[i].current /\ new.is_called = vs[i].is_called
    <3> HIDE DEF i
    <3>1. "shrink" \notin Quirks =>
            LET v1 == Altered(vs[i], opts, d)
            IN  v1.current # None => v1.current[1] \in v1.min .. v1.max
        BY <2>1 DEF AlterKeeps
    <3> QED  BY <1>4, <2>1, <2>3, <3>1, AlteredSound
  <2> HIDE DEF i
  <2>5. IsDropped(vs, u, i, C, d)
      BY <2>1, DropLive
  <2> HIDE DEF u
  <2>6. /\ Shape(u, C, d) /\ ShownParams(u, C) = ShownParams(vs, C)
        /\ Xids(u) \subseteq Xids(vs) \cup {d}
        /\ DOMAIN u = DOMAIN vs /\ \A j \in DOMAIN vs : u[j] = IF j = i THEN v ELSE vs[j]
        /\ \A j \in DOMAIN u : ~Live(u[j])
        /\ v.created_xmin = vs[i].created_xmin /\ v.dropped_xmax = d
      BY <2>5 DEF IsDropped
  <2>7. w.op = "alter" /\ w.prev[1] = vs[i]
      BY Options DEF Op, Some
  <2>8. moved \in BOOLEAN /\ (r # None) \in BOOLEAN
      OBVIOUS
  <2>9. ~moved => /\ new.current = vs[i].current /\ new.is_called = vs[i].is_called
                  /\ (new.increment > 0) = (vs[i].increment > 0)
      BY <2>4
  <2> HIDE DEF out, new, w, r, moved, v
  <2>10. /\ out.versions = ws /\ out.ops = <<w>> /\ out.moved = moved /\ out.ok = TRUE
         /\ out.advanced = (r # None) /\ out.value = None
      BY <2>2 DEF Outcome
  <2>11. Fits(new, C, d) /\ ~IsShown(new, C)
      BY <2>4 DEF Fits, Live, IsShown, Apt
  <2>12. \A j \in DOMAIN u : Apart(new, u[j], C)
      BY <2>4, <2>6, <2>11 DEF Apart, Apt
  <2>13. Len(u) = Len(vs) /\ Len(vs) \in Nat /\ DOMAIN vs = 1 .. Len(vs)
    <3>1. u \in Seq(Version)
        BY <2>6 DEF Shape
    <3> QED  BY <1>1, <2>6, <3>1, LenProperties
  <2>14. /\ Shape(ws, C, d) /\ DOMAIN ws = DOMAIN u \cup {Len(u) + 1} /\ ws[Len(u) + 1] = new
         /\ \A j \in DOMAIN u : ws[j] = u[j]
      BY <2>6, <2>11, <2>12, ShapeAppend
  <2>15. N \notin DOMAIN vs
      BY <2>13
  <2>16. /\ DOMAIN ws = DOMAIN vs \cup {N} /\ ws[N] = new
         /\ \A j \in DOMAIN vs : ws[j] = u[j]
      BY <2>6, <2>13, <2>14
  <2> HIDE DEF ws, N
  <2>17. ShownParams(ws, C) = ShownParams(vs, C)
    <3>1. ShownParams(ws, C) = ShownParams(u, C)
        BY <2>6, <2>11, <2>16, ShownEq
    <3> QED  BY <2>6, <3>1
  <2>18. Xids(ws) \subseteq Xids(vs) \cup {0, d}
    <3>1. Xids(ws) \subseteq Xids(u) \cup {0, d}
        BY <2>4, <2>6, <2>16 DEF Xids, Live
    <3> QED  BY <2>6, <3>1
  <2>19. LastDone(ws, C, d, w)
      BY <2>4, <2>7, <2>16 DEF LastDone
  <2>20. \E k \in DOMAIN ws : ws[k] = v
      BY <2>1, <2>6, <2>16
  <2>21. \A k \in DOMAIN vs : k # i => \E l \in DOMAIN ws : ws[l] = vs[k]
      BY <2>6, <2>16
  <2>22. \A l \in DOMAIN ws : ws[l].created_xmin \in C =>
            ws[l].created_xmin = vs[i].created_xmin \/ \E k \in DOMAIN vs : ws[l] = vs[k]
      BY <2>4, <2>6, <2>16 DEF Apt
  <2>23. <<w>> \in Seq(OpRec) /\ <<w>> # <<>> /\ LogGood(ws, C, d, W \o <<w>>)
      BY <2>1, <2>19, <2>20, <2>21, <2>22, LiveOp DEF w, v
  <2>28. OneMore(vs, ws, d)
      BY <2>6, <2>16 DEF OneMore
  <2>24. Done(vs, out, C, d, W)
      BY <2>8, <2>10, <2>14, <2>17, <2>18, <2>23, <2>28, Options DEF Done
  <2>25. /\ \A j \in DOMAIN vs : ~Live(ws[j])
         /\ Live(ws[N])
      BY <2>4, <2>6, <2>16
  <2>26. /\ out.ok = TRUE /\ out.value = None
         /\ Live(vs[i]) /\ out.ops = <<w>>
         /\ DOMAIN out.versions = DOMAIN vs \cup {N} /\ N \notin DOMAIN vs
         /\ \A j \in DOMAIN vs : ~Live(out.versions[j])
         /\ Live(out.versions[N])
         /\ ~out.moved => /\ out.versions[N].current = vs[i].current
                          /\ out.versions[N].is_called = vs[i].is_called
                          /\ (out.versions[N].increment > 0) = (vs[i].increment > 0)
      BY <2>1, <2>9, <2>10, <2>15, <2>16, <2>25
  <2>27. AlterAdds(vs, out)
      BY <2>1, <2>26 DEF AlterAdds, w, N
  <2> QED  BY <2>24, <2>26, <2>27 DEF out
<1> QED  BY <1>3, <1>4


\* What the clients are kept from, in terms of the live version.
Allowed(q, vs, d) ==
    /\ q.kind = "create" => \A j \in DOMAIN vs : vs[j].created_xmin # d
    /\ q.kind = "alter" => AlterKeeps(vs, q.opts, d)

LEMMA NextvalDone ==
    ASSUME NEW vs, NEW C, NEW d, Apt(C, d), d # 0, Shape(vs, C, d), NEW W, LogGood(vs, C, d, W),
           NEW snap, Reads(vs, snap, d)
    PROVE  LET out == seq_nextval(vs, snap, d)
               out1 == [out EXCEPT !.ok = FALSE, !.value = None] IN
           /\ Done(vs, out, C, d, W) /\ out.ops = <<>>
           /\ Done(vs, out1, C, d, W) /\ out1.ops = <<>> /\ out1.ok = FALSE
<1> DEFINE out == seq_nextval(vs, snap, d)
           out1 == [out EXCEPT !.ok = FALSE, !.value = None]
<1>1. vs \in Seq(Version) /\ \A i \in DOMAIN vs : Sound(vs[i])
    BY DEF Shape, Fits
<1>2. CASE out = Failed(vs)
  <2>1. out1 = Failed(vs)
      BY <1>2 DEF Failed, Outcome
  <2> HIDE DEF out, out1
  <2> QED  BY <1>2, <2>1, FailedDone, FailedIs DEF out, out1
<1>3. CASE out # Failed(vs)
  <2>1. PICK i \in DOMAIN vs, x \in Ints :
                /\ Moves(vs, out, i, x, TRUE)
                /\ out.ok = TRUE /\ out.value = <<x>>
      BY <1>1, <1>3, NextvalOutcome
  <2>2. /\ out1.ok = FALSE /\ out1.value = None /\ out1.versions = out.versions
        /\ out1.ops = out.ops /\ out1.advanced = out.advanced /\ out1.moved = out.moved
      BY DEF seq_nextval, Failed, Outcome
  <2> HIDE DEF out, out1
  <2>3. Moves(vs, out1, i, x, TRUE)
      BY <2>1, <2>2 DEF Moves
  <2>4. out.value \in Option(Ints) /\ out1.value \in Option(Ints)
      BY <2>1, <2>2, Options
  <2>5. Done(vs, out, C, d, W)
      BY <2>1, <2>4, MovesDone
  <2>6. Done(vs, out1, C, d, W)
      BY <2>2, <2>3, <2>4, MovesDone
  <2>7. out.ops = <<>>
      BY <2>1 DEF Moves
  <2> QED  BY <2>2, <2>5, <2>6, <2>7 DEF out, out1
<1> QED  BY <1>2, <1>3

LEMMA SetvalDone ==
    ASSUME NEW vs, NEW C, NEW d, Apt(C, d), d # 0, Shape(vs, C, d), NEW W, LogGood(vs, C, d, W),
           NEW snap, Reads(vs, snap, d), NEW value, NEW c \in BOOLEAN
    PROVE  LET out == seq_setval(vs, snap, d, value, c) IN
           Done(vs, out, C, d, W) /\ out.ops = <<>>
<1> DEFINE out == seq_setval(vs, snap, d, value, c)
<1>1. vs \in Seq(Version) /\ \A i \in DOMAIN vs : Sound(vs[i])
    BY DEF Shape, Fits
<1>2. \/ out = Failed(vs)
      \/ /\ \E i \in DOMAIN vs : Moves(vs, out, i, value, c)
         /\ out.ok = TRUE /\ out.value = None /\ out.moved = TRUE
    BY <1>1, SetvalOutcome
<1> HIDE DEF out
<1>3. CASE out = Failed(vs)
    BY <1>3, FailedDone, FailedIs DEF out
<1>4. CASE /\ \E i \in DOMAIN vs : Moves(vs, out, i, value, c)
           /\ out.ok = TRUE /\ out.value = None
  <2>1. PICK i \in DOMAIN vs : Moves(vs, out, i, value, c)
      BY <1>4
  <2>2. out.value \in Option(Ints)
      BY <1>4, Options
  <2>3. Done(vs, out, C, d, W)
      BY <1>4, <2>1, <2>2, MovesDone
  <2>4. out.ops = <<>>
      BY <2>1 DEF Moves
  <2> QED  BY <2>3, <2>4 DEF out
<1> QED  BY <1>2, <1>3, <1>4

\* Every statement.
LEMMA StatementKinds ==
    ASSUME NEW q \in Statements
    PROVE  \/ q.kind \in {"nextval", "fail", "drop"}
           \/ q.kind = "setval" /\ q.is_called \in BOOLEAN
           \/ q.kind \in {"create", "alter"} /\ q.opts \in Opts
    BY SequencesAssumption DEF Statements

LEMMA StatementDone ==
    ASSUME NEW vs, NEW C, NEW d, Apt(C, d), d # 0, Shape(vs, C, d), NEW W, LogGood(vs, C, d, W),
           NEW snap, Reads(vs, snap, d), NEW q \in Statements, Allowed(q, vs, d)
    PROVE  LET out == execute(q, vs, snap, d) IN
           Done(vs, out, C, d, W) /\ (q.kind \notin DDL => out.ops = <<>>)
<1> DEFINE out == execute(q, vs, snap, d)
<1>1. CASE q.kind = "nextval"
  <2>1. out = seq_nextval(vs, snap, d)
      BY <1>1 DEF execute
  <2> HIDE DEF out
  <2>2. Done(vs, seq_nextval(vs, snap, d), C, d, W) /\ seq_nextval(vs, snap, d).ops = <<>>
      BY NextvalDone
  <2> QED  BY <2>1, <2>2 DEF out
<1>2. CASE q.kind = "fail"
  <2> DEFINE out1 == [seq_nextval(vs, snap, d) EXCEPT !.ok = FALSE, !.value = None]
  <2>1. out = out1
      BY <1>2 DEF execute
  <2>2. Done(vs, out1, C, d, W) /\ out1.ops = <<>>
      BY NextvalDone
  <2> HIDE DEF out, out1
  <2> QED  BY <2>1, <2>2 DEF out
<1>3. CASE q.kind = "setval"
  <2> DEFINE out1 == seq_setval(vs, snap, d, q.value, q.is_called)
  <2>1. out = out1
      BY <1>3 DEF execute
  <2>2. q.is_called \in BOOLEAN
      BY <1>3, StatementKinds
  <2>3. Done(vs, out1, C, d, W) /\ out1.ops = <<>>
      BY <2>2, SetvalDone
  <2> HIDE DEF out, out1
  <2> QED  BY <2>1, <2>3 DEF out
<1>4. CASE q.kind = "create"
  <2> DEFINE out1 == exec_create_sequence(vs, snap, d, q.opts)
  <2>1. out = out1
      BY <1>4 DEF execute
  <2>2. q.opts \in Opts /\ \A j \in DOMAIN vs : vs[j].created_xmin # d
      BY <1>4, StatementKinds DEF Allowed
  <2>3. Done(vs, out1, C, d, W)
      BY <2>2, CreateDone
  <2> HIDE DEF out, out1
  <2> QED  BY <1>4, <2>1, <2>3 DEF out, DDL
<1>5. CASE q.kind = "alter"
  <2> DEFINE out1 == exec_alter_sequence(vs, snap, d, q.opts)
  <2>1. out = out1
      BY <1>5 DEF execute
  <2>2. q.opts \in Opts /\ AlterKeeps(vs, q.opts, d)
      BY <1>5, StatementKinds DEF Allowed
  <2>3. Done(vs, out1, C, d, W)
      BY <2>2, AlterDone
  <2> HIDE DEF out, out1
  <2> QED  BY <1>5, <2>1, <2>3 DEF out, DDL
<1>6. CASE q.kind = "drop"
  <2> DEFINE out1 == exec_drop_sequence(vs, snap, d)
  <2>1. out = out1
      BY <1>6 DEF execute
  <2>2. Done(vs, out1, C, d, W)
      BY DropDone
  <2> HIDE DEF out, out1
  <2> QED  BY <1>6, <2>1, <2>2 DEF out, DDL
<1> QED  BY <1>1, <1>2, <1>3, <1>4, <1>5, <1>6, StatementKinds

\* A snapshot that shows what has ended.
Shows(vs, snap, C, d) == \A x \in Xids(vs) \ {0, d} : InSnapshot(x, snap) <=> x \in C

LEMMA ShowsReads ==
    ASSUME NEW vs, NEW C, NEW d, Apt(C, d), d # 0, Shape(vs, C, d), NEW snap, Shows(vs, snap, C, d)
    PROVE  Reads(vs, snap, d)
<1> SUFFICES ASSUME NEW i \in DOMAIN vs PROVE seq_visible(vs[i], snap, d) <=> Live(vs[i])
    BY DEF Reads
<1>1. vs[i].created_xmin \in Xids(vs) /\ vs[i].dropped_xmax \in Xids(vs)
    BY DEF Xids
<1>2. /\ vs[i].created_xmin \in C \cup {d} /\ vs[i].dropped_xmax \in {0, d} \cup C
    BY DEF Shape, Fits
<1>3. 0 \notin C
    BY DEF Apt
<1>4. vs[i].created_xmin # d => InSnapshot(vs[i].created_xmin, snap)
    BY <1>1, <1>2, <1>3 DEF Shows
<1>5. vs[i].dropped_xmax \notin {0, d} => InSnapshot(vs[i].dropped_xmax, snap)
    BY <1>1, <1>2 DEF Shows
<1> QED  BY <1>2, <1>4, <1>5 DEF seq_visible, Live


-----------------------------------------------------------------------------
(* Transactions begin and end.                                              *)

\* Versions that no open transaction has touched.
LEMMA ShapeOpen ==
    ASSUME NEW vs, NEW C, NEW d, Apt(C, d), d # 0, Shape(vs, C, 0)
    PROVE  Shape(vs, C, d) /\ Untouched(vs, d)
<1>1. ASSUME NEW i \in DOMAIN vs
      PROVE  Fits(vs[i], C, d) /\ vs[i].created_xmin # d /\ vs[i].dropped_xmax # d
  <2>1. Fits(vs[i], C, 0)
      BY DEF Shape
  <2>2. vs[i].created_xmin # 0
      BY <2>1 DEF Fits, Sound, Version
  <2> QED  BY <2>1, <2>2 DEF Fits, Apt
<1> QED  BY <1>1 DEF Shape, Untouched

LEMMA ShapeClosed ==
    ASSUME NEW vs, NEW C, NEW d, Apt(C, d), d # 0, Shape(vs, C, d), Untouched(vs, d)
    PROVE  Shape(vs, C, 0)
<1>1. ASSUME NEW i \in DOMAIN vs PROVE Fits(vs[i], C, 0)
  <2>1. Fits(vs[i], C, d)
      BY DEF Shape
  <2>2. vs[i].created_xmin # 0
      BY <2>1 DEF Fits, Sound, Version
  <2> QED  BY <2>1, <2>2 DEF Fits, Untouched
<1> QED  BY <1>1 DEF Shape

LEMMA NoDdlGood ==
    ASSUME NEW vs, NEW C, NEW d, NEW W \in Seq(OpRec), NoDdl(W), Untouched(vs, d)
    PROVE  LogGood(vs, C, d, W)
<1>1. DOMAIN W = 1 .. Len(W)
    BY LenProperties
<1> QED  BY <1>1 DEF LogGood, LogShape, After, NoDdl, IsLast, IsFirst, Follows

\* Another transaction ends.
LEMMA GrowShape ==
    ASSUME NEW vs, NEW C, NEW d, Shape(vs, C, d), NEW x, x \notin C \cup {0, d}
    PROVE  /\ Shape(vs, C \cup {x}, d) /\ ShownParams(vs, C \cup {x}) = ShownParams(vs, C)
           /\ \A i \in DOMAIN vs : IsShown(vs[i], C \cup {x}) <=> IsShown(vs[i], C)
<1> DEFINE D == C \cup {x}
<1>1. ASSUME NEW i \in DOMAIN vs
      PROVE  /\ Fits(vs[i], D, d)
             /\ IsShown(vs[i], D) <=> IsShown(vs[i], C)
             /\ vs[i].created_xmin \in D <=> vs[i].created_xmin \in C
  <2>1. Fits(vs[i], C, d)
      BY DEF Shape
  <2>2. vs[i].created_xmin # x /\ vs[i].dropped_xmax # x
      BY <2>1 DEF Fits
  <2> QED  BY <2>1, <2>2 DEF Fits, IsShown
<1>2. Shape(vs, D, d)
    BY <1>1 DEF Shape, Apart
<1>3. ShownParams(vs, D) = ShownParams(vs, C)
    BY <1>1 DEF ShownParams
<1> QED  BY <1>1, <1>2, <1>3

LEMMA GrowLog ==
    ASSUME NEW vs, NEW C, NEW d, Shape(vs, C, d), NEW W, LogGood(vs, C, d, W),
           NEW x, x \notin C \cup {0, d}
    PROVE  LogGood(vs, C \cup {x}, d, W)
<1> DEFINE D == C \cup {x}
<1>1. LogShape(C, d, W) /\ After(vs, C, d, W, Len(W)) /\ DOMAIN W = 1 .. Len(W)
    BY LogLen DEF LogGood
<1>2. \A i \in DOMAIN vs : /\ vs[i].created_xmin # x /\ vs[i].dropped_xmax # x
    BY DEF Shape, Fits
<1>3. \A j \in DOMAIN W : Ddl(W[j]) /\ W[j].prev # None => W[j].prev[1].created_xmin # x
    BY <1>1 DEF LogShape
<1>4. LogShape(D, d, W)
  <2>1. \A j \in DOMAIN W : Ddl(W[j]) =>
            /\ W[j].op = "create" <=> W[j].prev = None
            /\ W[j].prev # None =>
                /\ Sound(W[j].prev[1]) /\ Live(W[j].prev[1])
                /\ W[j].prev[1].created_xmin \in D \cup {d}
                /\ IsFirst(W, j) <=> W[j].prev[1].created_xmin \in D
      BY <1>1, <1>3 DEF LogShape
  <2>2. \A i, j \in DOMAIN W : Follows(W, i, j) =>
            IF W[j].op = "create"
            THEN W[i].op = "drop" /\ W[i].prev[1].created_xmin \in D
            ELSE W[i].op # "drop" /\ W[j].prev[1].created_xmin = d
      BY <1>1 DEF LogShape
  <2> QED  BY <1>1, <2>1, <2>2 DEF LogShape
<1>5. After(vs, D, d, W, Len(W))
  <2>1. ASSUME NEW j \in 1 .. Len(W), IsLast(W, Len(W), j) PROVE LastDone(vs, D, d, W[j])
    <3>1. LastDone(vs, C, d, W[j])
        BY <1>1, <2>1 DEF After
    <3>2. W[j].op = "drop" => W[j].prev # None
        BY <1>1, <2>1 DEF LogShape, IsLast
    <3>3. W[j].op = "drop" => W[j].prev[1].created_xmin # x
        BY <1>1, <1>3, <2>1, <3>2 DEF IsLast
    <3> QED  BY <3>1, <3>3 DEF LastDone
  <2>2. ASSUME NEW j \in 1 .. Len(W), IsFirst(W, j) PROVE FirstDone(vs, D, d, W[j])
    <3>1. FirstDone(vs, C, d, W[j])
        BY <1>1, <2>2 DEF After
    <3> QED  BY <1>2, <3>1 DEF FirstDone
  <2> QED  BY <1>1, <2>1, <2>2 DEF After
<1> QED  BY <1>4, <1>5 DEF LogGood

\* The transaction itself ends, and has made at most one version.
LEMMA EndShape ==
    ASSUME NEW vs, NEW C, NEW d, Apt(C, d), d # 0, Shape(vs, C, d),
           \A i, j \in DOMAIN vs : vs[i].created_xmin = d /\ vs[j].created_xmin = d => i = j
    PROVE  /\ Shape(vs, C \cup {d}, 0)
           /\ ShownParams(vs, C \cup {d}) = LiveParams(vs)
<1> DEFINE D == C \cup {d}
<1>1. ASSUME NEW i \in DOMAIN vs
      PROVE  /\ Fits(vs[i], D, 0)
             /\ IsShown(vs[i], D) <=> Live(vs[i])
  <2>1. Fits(vs[i], C, d)
      BY DEF Shape
  <2>2. vs[i].created_xmin # 0
      BY <2>1 DEF Fits, Sound, Version
  <2> QED  BY <2>1, <2>2 DEF Fits, IsShown, Live, Apt
<1>2. ASSUME NEW i \in DOMAIN vs, NEW j \in DOMAIN vs, i # j PROVE Apart(vs[i], vs[j], D)
  <2>1. Apart(vs[i], vs[j], C)
      BY <1>2 DEF Shape
  <2>2. ~(vs[i].created_xmin = d /\ vs[j].created_xmin = d)
      BY <1>2
  <2> QED  BY <1>1, <2>1, <2>2 DEF Apart
<1>3. Shape(vs, D, 0)
    BY <1>1, <1>2 DEF Shape
<1>4. ShownParams(vs, D) = LiveParams(vs)
    BY <1>1 DEF ShownParams, LiveParams
<1> QED  BY <1>3, <1>4

\* What a restart would rebuild goes on showing the same.
LEMMA GrowRebuilt ==
    ASSUME NEW R, NEW vs, NEW C, NEW d, NEW L, Rebuilt(R, vs, C, L), Shape(vs, C, d), NEW ws, NEW D, NEW M,
           D = C \/ (\E x : x \notin C \cup {0, d} /\ D = C \cup {x}) \/ (Untouched(vs, d) /\ d \notin C \cup {0} /\ D = C \cup {d}),
           ShownParams(ws, D) = ShownParams(vs, D), L \subseteq M
    PROVE  Rebuilt(R, ws, D, M)
<1>1. /\ Shape(R, C, 0)
      /\ \A i \in DOMAIN R : R[i].created_xmin \in L /\ R[i].dropped_xmax \in L \cup {0}
      /\ LiveParams(R) = ShownParams(vs, C)
    BY DEF Rebuilt
<1>2. Shape(R, D, 0) /\ ShownParams(vs, D) = ShownParams(vs, C)
  <2>1. CASE D = C
      BY <1>1, <2>1
  <2>2. ASSUME NEW x, x \notin C \cup {0, d}, D = C \cup {x}
        PROVE  Shape(R, D, 0) /\ ShownParams(vs, D) = ShownParams(vs, C)
    <3>1. Shape(R, C \cup {x}, 0)
        BY <1>1, <2>2, GrowShape
    <3>2. ShownParams(vs, C \cup {x}) = ShownParams(vs, C)
        BY <2>2, GrowShape
    <3> QED  BY <2>2, <3>1, <3>2
  <2>3. CASE Untouched(vs, d) /\ d \notin C \cup {0} /\ D = C \cup {d}
    <3>1. Shape(R, C \cup {d}, 0)
        BY <1>1, <2>3, GrowShape
    <3>2. \A i \in DOMAIN vs : IsShown(vs[i], D) <=> IsShown(vs[i], C)
        BY <2>3 DEF IsShown, Untouched
    <3>3. ShownParams(vs, D) = ShownParams(vs, C)
        BY <3>2 DEF ShownParams
    <3> QED  BY <2>3, <3>1, <3>3
  <2> QED  BY <2>1, <2>2, <2>3
<1> QED  BY <1>1, <1>2 DEF Rebuilt


-----------------------------------------------------------------------------
(* Sessions.                                                                *)

LEMMA EndedIs ==
    ASSUME Types
    PROVE  /\ Ended \subseteq Nat \ {0} /\ next_xid \in Nat \ {0} /\ next_xid \notin Ended
           /\ \A x \in Nat \ {0} : InSnapshot(x, Fresh) <=> x \in Ended
           /\ \A x \in Nat \ {0} : x # next_xid =>
                (InSnapshot(x, [next_xid |-> next_xid + 1, active |-> active \cup {next_xid}]) <=> x \in Ended)
           /\ \A s \in Sessions : InTxn(s) =>
                txn[s].xid \in Nat \ {0} /\ txn[s].xid < next_xid /\ txn[s].xid \notin Ended
<1>1. next_xid \in Nat \ {0}
    BY SequencesAssumption DEF Types
<1>2. \A s \in Sessions : InTxn(s) => txn[s].xid \in active
    BY DEF Types
<1>3. \A x \in active : x \in 1 .. next_xid - 1
    BY DEF Types
<1> QED  BY <1>1, <1>2, <1>3 DEF Ended, InSnapshot, Fresh

\* The transaction that a session's next statement is part of.
Own(s) == IF InTxn(s) THEN txn[s].xid ELSE next_xid

LEMMA HeldIs ==
    ASSUME NEW s
    PROVE  Held(s) <=> ~NoDdl(txn[s].writes)
    BY DEF Held, Has, NoDdl, Ddl

LEMMA OwnApt ==
    ASSUME Types, NEW s \in Sessions
    PROVE  Apt(Ended, Own(s)) /\ Own(s) # 0 /\ Own(s) \in Nat \ {0}
    BY EndedIs DEF Apt, Own

LEMMA Ready ==
    ASSUME SInv, NEW s \in Sessions, \A o \in Sessions \ {s} : ~Held(o)
    PROVE  /\ Shape(versions, Ended, Own(s))
           /\ LogGood(versions, Ended, Own(s), txn[s].writes)
           /\ ~Held(s) => Untouched(versions, Own(s)) /\ Shape(versions, Ended, 0)
<1>1. Apt(Ended, Own(s)) /\ Own(s) # 0
    BY OwnApt DEF SInv
<1>2. CASE Held(s)
  <2>1. InTxn(s)
    <3>1. txn[s] # NoTxn
        BY <1>2 DEF Held, Has, NoTxn
    <3> QED  BY <3>1 DEF SInv, Types
  <2> QED  BY <1>2, <2>1 DEF SInv, Blocks, Own
<1>3. CASE ~Held(s)
  <2>1. Shape(versions, Ended, 0)
      BY <1>3 DEF SInv, Blocks
  <2>2. Shape(versions, Ended, Own(s)) /\ Untouched(versions, Own(s))
      BY <1>1, <2>1, ShapeOpen
  <2>3. txn[s].writes \in Seq(OpRec)
      BY DEF SInv, Types, TxnRec
  <2>4. LogGood(versions, Ended, Own(s), txn[s].writes)
      BY <1>3, <2>2, <2>3, HeldIs, NoDdlGood
  <2> QED  BY <2>1, <2>2, <2>4
<1> QED  BY <1>2, <1>3

\* The snapshot of the next statement.
Sees(s) ==
    IF InTxn(s) THEN stmt_snapshot(txn[s])
    ELSE [next_xid |-> next_xid + 1, active |-> active \cup {next_xid}]

LEMMA XidsIn ==
    ASSUME NEW vs, NEW C, NEW d, Shape(vs, C, d), Apt(C, d)
    PROVE  /\ Xids(vs) \subseteq C \cup {0, d}
           /\ \A x \in Xids(vs) : x \in Nat
<1>1. \A i \in DOMAIN vs : vs[i].created_xmin \in C \cup {d} /\ vs[i].dropped_xmax \in {0, d} \cup C
    BY DEF Shape, Fits
<1>2. Xids(vs) \subseteq C \cup {0, d}
    BY <1>1 DEF Xids
<1>3. \A x \in C \cup {0, d} : x \in Nat
    BY DEF Apt
<1> QED  BY <1>2, <1>3

LEMMA ReadyReads ==
    ASSUME SInv, NEW s \in Sessions, \A o \in Sessions \ {s} : ~Held(o)
    PROVE  /\ Reads(versions, Sees(s), Own(s)) /\ Reads(versions, Fresh, Own(s))
           /\ Shows(versions, Fresh, Ended, Own(s))
<1>0. Types
    BY DEF SInv
<1>1. Apt(Ended, Own(s)) /\ Own(s) # 0 /\ Shape(versions, Ended, Own(s))
    BY <1>0, OwnApt, Ready
<1>2. \A x \in Xids(versions) : x \in Nat
    BY <1>1, XidsIn
<1>3. Shows(versions, Fresh, Ended, Own(s))
    BY <1>0, <1>2, EndedIs DEF Shows
<1>4. Shows(versions, Sees(s), Ended, Own(s))
  <2>1. CASE ~InTxn(s)
      BY <1>0, <1>2, <2>1, EndedIs DEF Shows, Sees, Own
  <2>2. CASE InTxn(s) /\ Sees(s) = Fresh
      BY <1>3, <2>2
  <2>3. CASE InTxn(s) /\ Sees(s) # Fresh
    <3>1. Sees(s) = txn[s].snap /\ txn[s].snap # NoSnapshot
        BY <2>3 DEF Sees, stmt_snapshot
    <3>2. \A x \in Xids(versions) \ {0, txn[s].xid} : InSnapshot(x, txn[s].snap) <=> x \in Ended
        BY <3>1 DEF SInv, SnapshotsFresh
    <3> QED  BY <2>3, <3>1, <3>2 DEF Shows, Own
  <2> QED  BY <2>1, <2>2, <2>3
<1> QED  BY <1>1, <1>3, <1>4, ShowsReads

\* What the bounds let a client do.
LEMMA MayIssueIs ==
    ASSUME Orderly, SInv, NEW s \in Sessions, NEW q, MayIssue(s, q, versions, Own(s))
    PROVE  /\ \A o \in Sessions \ {s} : ~Held(o)
           /\ q.kind \in DDL => \A o \in Sessions \ {s} : txn[o].snap = NoSnapshot
           /\ Allowed(q, versions, Own(s))
<1>1. "overlap" \notin Quirks /\ "recreate" \notin Quirks
    BY DEF Orderly
<1>2. \A o \in Sessions \ {s} : ~Held(o)
    BY <1>1 DEF MayIssue, Alone, Held
<1>3. q.kind \in DDL => \A o \in Sessions \ {s} : txn[o].snap = NoSnapshot
    BY <1>1 DEF MayIssue
<1>4. q.kind = "create" => \A j \in DOMAIN versions : versions[j].created_xmin # Own(s)
    BY <1>1 DEF MayIssue
<1>5. ASSUME q.kind = "alter" PROVE AlterKeeps(versions, q.opts, Own(s))
  <2> DEFINE i == find_sequence(versions, Fresh, Own(s))
  <2>1. versions \in Seq(Version) /\ Shape(versions, Ended, Own(s))
      BY <1>2, Ready DEF Shape
  <2>2. Reads(versions, Fresh, Own(s))
      BY <1>2, ReadyReads
  <2>3. \/ i = 0 /\ \A j \in DOMAIN versions : ~Live(versions[j])
        \/ i \in DOMAIN versions /\ Live(versions[i])
      BY <2>1, <2>2, ReadLive
  <2>4. "shrink" \notin Quirks /\ i # 0 =>
          LET new == Altered(versions[i], q.opts, Own(s))
          IN  new.current # None => new.current[1] \in new.min .. new.max
      BY <1>5 DEF MayIssue
  <2> HIDE DEF i
  <2>5. \A j \in DOMAIN versions : Live(versions[j]) => i = j /\ i # 0
    <3>1. \A j \in DOMAIN versions : j # 0
        BY <2>1, VersionLen
    <3> QED  BY <2>1, <2>3, <3>1, OneOnly
  <2> QED  BY <2>4, <2>5 DEF AlterKeeps
<1> QED  BY <1>2, <1>3, <1>4, <1>5 DEF Allowed


-----------------------------------------------------------------------------
(* Types.                                                                   *)

\* One session's transaction goes on.
LEMMA TypesOn ==
    ASSUME Types, NEW s \in Sessions, InTxn(s), NEW t \in TxnRec, t.xid = txn[s].xid, SavesGood(t),
           txn' = [txn EXCEPT ![s] = t], next_xid' = next_xid, active' = active,
           advanced' \in BOOLEAN, HistoryGood(issued', next_xid)
    PROVE  Types'
<1>1. txn \in [Sessions -> TxnRec]
    BY DEF Types
<1>2. \A o \in Sessions : txn'[o] = IF o = s THEN t ELSE txn[o]
    BY <1>1
<1>3. txn' \in [Sessions -> TxnRec]
    BY <1>1
<1>4. \A o \in Sessions : txn'[o].xid = txn[o].xid /\ (InTxn(o)' <=> InTxn(o))
    BY <1>2 DEF InTxn
<1>5. active' = {txn'[o].xid : o \in {p \in Sessions : InTxn(p)'}}
    BY <1>4 DEF Types
<1>6. \A o \in Sessions : SavesGood(txn'[o]) /\ (~InTxn(o)' => txn'[o] = NoTxn)
    BY <1>2, <1>4 DEF Types
<1>7. \A o, p \in Sessions : InTxn(o)' /\ txn'[o].xid = txn'[p].xid => o = p
    BY <1>4 DEF Types
<1> QED  BY <1>3, <1>5, <1>6, <1>7 DEF Types, SavesGood

\* It ends.
LEMMA NoTxnIs ==
    NoTxn \in TxnRec /\ SavesGood(NoTxn) /\ NoTxn.xid = 0 /\ NoTxn.writes = <<>> /\ NoTxn.snap = NoSnapshot
<1>1. <<>> \in Seq(OpRec) /\ <<>> \in Seq(Nat) /\ NoSnapshot \in Snapshot
    BY EmptySeq DEF NoSnapshot, Snapshot
<1>2. NoTxn \in TxnRec
    BY <1>1 DEF NoTxn, TxnRec
<1> QED  BY <1>2 DEF NoTxn, SavesGood

LEMMA TypesEnd ==
    ASSUME Types, NEW s \in Sessions, InTxn(s),
           txn' = [txn EXCEPT ![s] = NoTxn], next_xid' = next_xid, active' = active \ {txn[s].xid},
           advanced' = advanced, HistoryGood(issued', next_xid)
    PROVE  /\ Types' /\ Ended' = Ended \cup {txn[s].xid}
           /\ ~InTxn(s)' /\ \A o \in Sessions \ {s} : txn'[o] = txn[o] /\ txn[o].xid # txn[s].xid
<1>1. txn \in [Sessions -> TxnRec]
    BY DEF Types
<1>2. \A o \in Sessions : txn'[o] = IF o = s THEN NoTxn ELSE txn[o]
    BY <1>1
<1>3. txn' \in [Sessions -> TxnRec]
    BY <1>1, NoTxnIs
<1>4. \A o \in Sessions : InTxn(o)' <=> InTxn(o) /\ o # s
    BY <1>2, NoTxnIs DEF InTxn
<1>5. \A o \in Sessions : o # s => txn[o].xid # txn[s].xid
    BY DEF Types
<1>6. active' = {txn'[o].xid : o \in {p \in Sessions : InTxn(p)'}}
    BY <1>2, <1>4, <1>5 DEF Types
<1>7. \A o \in Sessions : SavesGood(txn'[o]) /\ (~InTxn(o)' => txn'[o] = NoTxn)
    BY <1>2, <1>4, NoTxnIs DEF Types
<1>8. \A o, p \in Sessions : InTxn(o)' /\ txn'[o].xid = txn'[p].xid => o = p
    BY <1>2, <1>4 DEF Types, InTxn
<1>9. Types'
    BY <1>3, <1>6, <1>7, <1>8 DEF Types, SavesGood
<1>10. txn[s].xid \in 1 .. next_xid - 1
    BY DEF Types
<1>11. Ended' = Ended \cup {txn[s].xid}
    BY <1>10 DEF Ended
<1> QED  BY <1>2, <1>4, <1>5, <1>9, <1>11

\* A new xid.
LEMMA TypesNext ==
    ASSUME Types, txn' = txn, next_xid < MaxXid, next_xid' = next_xid + 1, active' = active,
           advanced' \in BOOLEAN, HistoryGood(issued', next_xid + 1)
    PROVE  Types' /\ Ended' = Ended \cup {next_xid} /\ \A s \in Sessions : InTxn(s)' <=> InTxn(s)
<1>1. next_xid \in Nat \ {0} /\ MaxXid \in Nat
    BY SequencesAssumption DEF Types
<1>2. active \subseteq 1 .. next_xid - 1
    BY DEF Types
<1>3. active' \subseteq 1 .. next_xid' - 1 /\ next_xid' \in 1 .. MaxXid
    BY <1>1, <1>2
<1>4. Types'
    BY <1>3 DEF Types, InTxn
<1>5. Ended' = Ended \cup {next_xid}
    BY <1>1, <1>2 DEF Ended
<1> QED  BY <1>4, <1>5 DEF InTxn

\* What a statement's value adds to the history.
Adds(h, h1, out, xid, copied) ==
    \A k \in DOMAIN h1 :
        \/ ~out.moved /\ k \in DOMAIN h /\ h1[k] = h[k]
        \/ /\ out.value # None /\ k = Len(h1)
           /\ h1[k] = [value |-> out.value[1], xid |-> xid, copied |-> copied]

LEMMA IssueGood ==
    ASSUME NEW n \in Nat, HistoryGood(issued, n), NEW out, out.moved \in BOOLEAN,
           out.value \in Option(Ints), NEW xid \in Nat, xid < n, NEW copied \in BOOLEAN,
           Issue(out, xid, copied)
    PROVE  HistoryGood(issued', n) /\ Adds(issued, issued', out, xid, copied)
<1> DEFINE h == IF out.moved THEN <<>> ELSE issued
           e == [value |-> out.value[1], xid |-> xid, copied |-> copied]
<1>1. h \in Seq(Entry) /\ HistoryGood(h, n)
      /\ Len(h) \in Nat /\ DOMAIN h = 1 .. Len(h)
  <2>1. CASE out.moved
      BY <2>1, EmptySeq DEF HistoryGood
  <2>2. CASE ~out.moved
      BY <2>2, LenProperties DEF HistoryGood
  <2> QED  BY <2>1, <2>2
<1>2. issued' = h \o (IF out.value = None THEN <<>> ELSE <<e>>)
    BY DEF Issue
<1>3. \A k \in DOMAIN h : ~out.moved /\ k \in DOMAIN issued /\ h[k] = issued[k]
    BY <1>1
<1> HIDE DEF h
<1>4. CASE out.value = None
  <2>1. issued' = h
    <3>1. h \o <<>> = h
        BY <1>1, ConcatEmptySeq, Zenon
    <3> QED  BY <1>2, <1>4, <3>1
  <2> QED  BY <1>1, <1>3, <2>1 DEF Adds
<1>5. CASE out.value # None
  <2>1. e \in Entry
      BY <1>5, Options DEF Entry
  <2>2. e.xid = xid
      OBVIOUS
  <2> HIDE DEF e
  <2>3. issued' = Append(h, e)
    <3>1. Append(h, e) = h \o <<e>>
        BY <1>1, <2>1, AppendIsConcat
    <3> QED  BY <1>2, <1>5, <3>1
  <2>4. /\ Append(h, e) \in Seq(Entry) /\ Len(Append(h, e)) = Len(h) + 1
        /\ Append(h, e)[Len(h) + 1] = e /\ \A j \in 1 .. Len(h) : Append(h, e)[j] = h[j]
        /\ DOMAIN Append(h, e) = 1 .. Len(Append(h, e))
      BY <1>1, <2>1, AppendProperties, LenProperties
  <2>5. \A k \in DOMAIN issued' : k \in DOMAIN h \/ k = Len(h) + 1
      BY <1>1, <2>3, <2>4
  <2>6. \A k \in DOMAIN h : issued'[k] = h[k]
      BY <1>1, <2>3, <2>4
  <2>7. HistoryGood(issued', n)
      BY <1>1, <2>2, <2>3, <2>4, <2>5, <2>6 DEF HistoryGood
  <2>8. \A k \in DOMAIN issued' :
            \/ ~out.moved /\ k \in DOMAIN issued /\ issued'[k] = issued[k]
            \/ k = Len(issued') /\ issued'[k] = e
      BY <1>3, <2>3, <2>4, <2>5, <2>6
  <2> QED  BY <1>5, <2>7, <2>8 DEF e, Adds
<1> QED  BY <1>4, <1>5


-----------------------------------------------------------------------------
(* Steps of a block.                                                        *)

LEMMA Concat ==
    ASSUME NEW S, NEW W \in Seq(S), NEW M \in Seq(S)
    PROVE  /\ W \o M \in Seq(S) /\ Len(W) \in Nat /\ Len(M) \in Nat
           /\ DOMAIN W = 1 .. Len(W) /\ DOMAIN M = 1 .. Len(M)
           /\ Len(W \o M) = Len(W) + Len(M) /\ DOMAIN (W \o M) = 1 .. Len(W) + Len(M)
           /\ Len(W \o M) \in Nat /\ Len(W) <= Len(W \o M)
           /\ \A j \in DOMAIN W : (W \o M)[j] = W[j]
           /\ \A j \in DOMAIN M : (W \o M)[Len(W) + j] = M[j]
    BY ConcatProperties, LenProperties

\* A log that goes on without DDL.
LEMMA LogMark ==
    ASSUME NEW W \in Seq(OpRec), NEW M \in Seq(OpRec), NoDdl(M)
    PROVE  /\ W \o M \in Seq(OpRec) /\ Len(W) <= Len(W \o M)
           /\ NoDdl(W \o M) <=> NoDdl(W)
           /\ \A vs, C, d : LogGood(vs, C, d, W) => LogGood(vs, C, d, W \o M)
<1> DEFINE W1 == W \o M
           n == Len(W)
<1>1. /\ W1 \in Seq(OpRec) /\ n \in Nat /\ Len(M) \in Nat
      /\ DOMAIN W = 1 .. n /\ DOMAIN M = 1 .. Len(M)
      /\ Len(W1) = n + Len(M) /\ DOMAIN W1 = 1 .. n + Len(M)
      /\ \A j \in DOMAIN W : W1[j] = W[j]
      /\ \A j \in DOMAIN M : W1[n + j] = M[j]
    BY Concat
<1> HIDE DEF W1, n
<1>2. ASSUME NEW j \in DOMAIN W1 PROVE j \in DOMAIN W \/ (~(j <= n) /\ ~Ddl(W1[j]))
  <2>1. CASE ~(j <= n)
    <3>1. j - n \in DOMAIN M /\ n + (j - n) = j
        BY <1>1, <2>1
    <3>2. W1[j] = M[j - n]
        BY <1>1, <3>1
    <3> QED  BY <2>1, <3>1, <3>2 DEF NoDdl
  <2> QED  BY <1>1, <2>1
<1>3. n <= Len(W1) /\ \A j \in DOMAIN W : j \in DOMAIN W1
    BY <1>1
<1>4. NoDdl(W1) <=> NoDdl(W)
    BY <1>1, <1>2, <1>3 DEF NoDdl
<1>5. ASSUME NEW vs, NEW C, NEW d, LogGood(vs, C, d, W) PROVE LogGood(vs, C, d, W1)
  <2>1. LogShape(C, d, W) /\ After(vs, C, d, W, n)
      BY <1>5 DEF LogGood, n
  <2>2. n \in 0 .. Len(W)
      BY <1>1 DEF n
  <2>3. \A j \in 1 .. n : W1[j] = W[j]
      BY <1>1
  <2>4. \A j \in DOMAIN W1 : j <= n \/ ~Ddl(W1[j])
      BY <1>1, <1>2
  <2> QED  BY <1>1, <1>3, <2>1, <2>2, <2>3, <2>4, LogCut
<1> QED  BY <1>1, <1>3, <1>4, <1>5 DEF W1, n

LEMMA MarkerIs ==
    ASSUME NEW out
    PROVE  Marker(out) \in Seq(OpRec) /\ NoDdl(Marker(out))
<1>1. Op("advance", None) \in OpRec /\ ~Ddl(Op("advance", None))
    BY Options DEF Op, OpRec, Ddl, DDL
<1>2. <<Op("advance", None)>> \in Seq(OpRec) /\ NoDdl(<<Op("advance", None)>>)
    BY <1>1 DEF NoDdl
<1>3. <<>> \in Seq(OpRec) /\ NoDdl(<<>>)
    BY EmptySeq DEF NoDdl
<1> QED  BY <1>2, <1>3 DEF Marker

\* The versions and the one block with DDL.
LEMMA BlocksOf ==
    ASSUME NEW s \in Sessions, NEW C, NEW d, Ended' = C, txn'[s].xid = d, d # 0, Apt(C, d),
           Shape(versions', C, d), LogGood(versions', C, d, txn'[s].writes),
           \A o \in Sessions \ {s} : ~Held(o)'
    PROVE  Blocks'
<1>1. ASSUME ~Held(s)' PROVE Shape(versions', C, 0)
  <2>1. NoDdl(txn'[s].writes)
      BY <1>1 DEF Held, Has, NoDdl, Ddl
  <2>2. Untouched(versions', d)
      BY <2>1, LiveLog
  <2> QED  BY <2>2, ShapeClosed
<1> QED  BY <1>1 DEF Blocks

LEMMA FilesKept ==
    ASSUME SInv, log' = log, image' = image, next_xid' >= next_xid, next_xid' \in Nat
    PROVE  FilesGood' /\ Recovered' = Recovered /\ Logged' = Logged /\ Replayable' = Replayable
<1>1. FilesGood /\ next_xid \in Nat
    BY SequencesAssumption DEF SInv, Types
<1>2. image.next_xid \in 1 .. next_xid'
    BY <1>1 DEF FilesGood
<1>3. ASSUME NEW i \in DOMAIN log PROVE log[i].xid < next_xid'
  <2>1. log[i] \in RecordRec
      BY <1>1 DEF FilesGood
  <2>2. log[i].xid \in Nat /\ log[i].xid < next_xid
      BY <1>1, <2>1 DEF FilesGood, RecordRec
  <2> QED  BY <1>1, <2>2
<1>4. FilesGood'
    BY <1>1, <1>2, <1>3 DEF FilesGood
<1> QED  BY <1>4 DEF Recovered, Logged, Replayable

LEMMA SessionStep ==
    ASSUME SInv, Types', NEW s \in Sessions, InTxn(s), \A o \in Sessions \ {s} : ~Held(o),
           \A o \in Sessions \ {s} : txn'[o] = txn[o], txn'[s].xid = txn[s].xid,
           txn'[s].snap \in {txn[s].snap, Fresh},
           UNCHANGED <<next_xid, active, image, log>>,
           Shape(versions', Ended, txn[s].xid),
           LogGood(versions', Ended, txn[s].xid, txn'[s].writes),
           ShownParams(versions', Ended) = ShownParams(versions, Ended),
           Xids(versions') \subseteq Xids(versions) \cup {0, txn[s].xid},
           \/ Xids(versions') = Xids(versions) /\ (Held(s)' => Held(s))
           \/ \A o \in Sessions \ {s} : txn[o].snap = NoSnapshot
    PROVE  SInv'
<1> DEFINE d == txn[s].xid
<1>0. Types /\ Ended' = Ended
    BY DEF SInv, Ended
<1>1. Apt(Ended, d) /\ d # 0
    BY <1>0, OwnApt DEF Own
<1>2. \A o \in Sessions \ {s} : Held(o)' = Held(o)
    BY DEF Held
<1>3. Solo'
  <2>1. ASSUME NEW o \in Sessions \ {s}, Held(s)' PROVE txn[o].snap = NoSnapshot
      BY <2>1 DEF SInv, Solo
  <2> QED  BY <1>2, <2>1 DEF Solo
<1>4. SnapshotsFresh'
  <2>1. SUFFICES ASSUME NEW o \in Sessions, txn'[o].snap # NoSnapshot,
                        NEW x \in Xids(versions') \ {0, txn'[o].xid}
                 PROVE  InSnapshot(x, txn'[o].snap) <=> x \in Ended
    <3>1. Xids(versions)' = Xids(versions')
        BY DEF Xids
    <3>2. \A x, snap : InSnapshot(x, snap)' = InSnapshot(x, snap')
        BY DEF InSnapshot
    <3> QED  BY <1>0, <2>1, <3>1 DEF SnapshotsFresh, InSnapshot
  <2>2. CASE o # s
    <3>1. x \in Xids(versions) \ {0, txn[o].xid} /\ txn'[o] = txn[o]
        BY <2>1, <2>2
    <3> QED  BY <2>1, <3>1 DEF SInv, SnapshotsFresh
  <2>3. CASE o = s /\ txn'[s].snap = txn[s].snap
    <3>1. x \in Xids(versions) \ {0, txn[s].xid}
        BY <2>1, <2>3
    <3> QED  BY <2>1, <2>3, <3>1 DEF SInv, SnapshotsFresh
  <2>4. CASE o = s /\ txn'[s].snap = Fresh
    <3>1. x \in Nat \ {0}
        BY <1>1, <2>1, XidsIn
    <3> QED  BY <1>0, <2>4, <3>1, EndedIs
  <2> QED  BY <2>2, <2>3, <2>4
<1>5. Blocks'
    BY <1>0, <1>1, <1>2, BlocksOf
<1>6. FilesGood' /\ Recovered' = Recovered /\ Logged' = Logged /\ Replayable' = Replayable
    BY <1>0, EndedIs, FilesKept
<1>7. ASSUME Replayable' PROVE Rebuilt(Recovered, versions, Ended, Logged)'
  <2>1. Rebuilt(Recovered, versions, Ended, Logged)
      BY <1>6, <1>7 DEF SInv
  <2>2. Rebuilt(Recovered, versions', Ended, Logged)
      BY <2>1 DEF Rebuilt
  <2> QED  BY <1>0, <1>6, <2>2
<1> QED  BY <1>3, <1>4, <1>5, <1>6, <1>7 DEF SInv


LEMMA FreshIs ==
    ASSUME Types
    PROVE  Fresh \in Snapshot /\ \A s \in Sessions : InTxn(s) =>
                stmt_snapshot(txn[s]) \in Snapshot /\ stmt_snapshot(txn[s]) \in {txn[s].snap, Fresh}
<1>1. next_xid \in Nat /\ active \subseteq Nat
    BY SequencesAssumption DEF Types
<1>2. Fresh \in Snapshot
    BY <1>1 DEF Fresh, Snapshot
<1>3. \A s \in Sessions : txn[s].snap \in Snapshot
    BY DEF Types, TxnRec
<1> QED  BY <1>2, <1>3 DEF stmt_snapshot

\* A statement of a block.
LEMMA ExecuteKeeps ==
    ASSUME Orderly, SInv, NEW s \in Sessions, NEW q \in Statements, txn_execute(s, q)
    PROVE  SInv'
<1> DEFINE t == txn[s]
           d == t.xid
           W == t.writes
           out == execute(q, versions, stmt_snapshot(t), d)
           M == IF out.ok THEN Marker(out) ELSE <<>>
           snap == IF t.level = "RR" THEN stmt_snapshot(t) ELSE t.snap
           t1 == [t EXCEPT !.snap = snap, !.writes = W \o out.ops \o M, !.failed = ~out.ok]
<1>0. Types /\ InTxn(s)
    BY DEF txn_execute, SInv
<1>1. t \in TxnRec /\ SavesGood(t) /\ Own(s) = d /\ Sees(s) = stmt_snapshot(t)
    BY <1>0 DEF Types, Own, Sees
<1>2. /\ MayIssue(s, q, versions, d) /\ versions' = out.versions /\ advanced' = FALSE
      /\ Issue(out, d, FALSE) /\ UNCHANGED <<next_xid, active, log, image>>
    BY DEF txn_execute
<1>3. txn' = [txn EXCEPT ![s] = t1]
  <2>1. txn' = [txn EXCEPT ![s].snap = IF t.level = "RR" THEN stmt_snapshot(t) ELSE @,
                           ![s].writes = @ \o out.ops \o M, ![s].failed = ~out.ok]
      BY DEF txn_execute
  <2>2. txn \in [Sessions -> TxnRec]
      BY <1>0 DEF Types
  <2> HIDE DEF out, M
  <2> QED  BY <2>1, <2>2 DEF TxnRec
<1>4. /\ \A o \in Sessions \ {s} : ~Held(o)
      /\ q.kind \in DDL => \A o \in Sessions \ {s} : txn[o].snap = NoSnapshot
      /\ Allowed(q, versions, d)
    BY <1>1, <1>2, MayIssueIs
<1>5. Apt(Ended, d) /\ d # 0 /\ d \in Nat
    BY <1>0, <1>1, OwnApt
<1>6. Shape(versions, Ended, d) /\ LogGood(versions, Ended, d, W)
    BY <1>1, <1>4, Ready
<1>7. Reads(versions, stmt_snapshot(t), d)
    BY <1>1, <1>4, ReadyReads
<1>8. Done(versions, out, Ended, d, W) /\ (q.kind \notin DDL => out.ops = <<>>)
    BY <1>4, <1>5, <1>6, <1>7, StatementDone
<1>9. W \in Seq(OpRec) /\ M \in Seq(OpRec) /\ NoDdl(M)
  <2>1. Marker(out) \in Seq(OpRec) /\ NoDdl(Marker(out)) /\ <<>> \in Seq(OpRec) /\ NoDdl(<<>>)
      BY MarkerIs, EmptySeq DEF NoDdl
  <2> QED  BY <1>1, <2>1 DEF TxnRec
<1>10. snap \in {t.snap, Fresh} /\ snap \in Snapshot
    BY <1>0, <1>1, FreshIs DEF TxnRec
<1> HIDE DEF out, M, t, snap
<1>11. /\ Shape(versions', Ended, d) /\ ShownParams(versions', Ended) = ShownParams(versions, Ended)
       /\ out.ops \in Seq(OpRec) /\ LogGood(versions', Ended, d, W \o out.ops)
       /\ Xids(versions') \subseteq Xids(versions) \cup {0, d}
       /\ out.ops = <<>> => Xids(versions') = Xids(versions)
       /\ out.ok \in BOOLEAN /\ out.moved \in BOOLEAN /\ out.value \in Option(Ints)
    BY <1>2, <1>8 DEF Done
<1>12. /\ W \o out.ops \in Seq(OpRec) /\ Len(W) \in Nat /\ Len(out.ops) \in Nat
       /\ Len(W \o out.ops) \in Nat /\ Len(W) <= Len(W \o out.ops)
    BY <1>9, <1>11, Concat
<1>13. /\ W \o out.ops \o M \in Seq(OpRec) /\ Len(W \o out.ops) <= Len(W \o out.ops \o M)
       /\ NoDdl(W \o out.ops \o M) <=> NoDdl(W \o out.ops)
       /\ LogGood(versions', Ended, d, W \o out.ops \o M)
    BY <1>9, <1>11, <1>12, LogMark
<1>14. /\ t1 \in TxnRec /\ t1.xid = d /\ t1.writes = W \o out.ops \o M /\ t1.snap = snap
       /\ t1.saves = t.saves
    BY <1>1, <1>10, <1>11, <1>13 DEF TxnRec
<1> HIDE DEF t1
<1>15. SavesGood(t1)
  <2>1. Len(t1.writes) \in Nat /\ Len(W) <= Len(t1.writes)
    <3>1. Len(t1.writes) \in Nat
      <4>1. t1.writes \in Seq(OpRec)
          BY <1>13, <1>14
      <4> QED  BY <4>1, LenProperties
    <3>2. Len(W) <= Len(W \o out.ops) /\ Len(W) \in Nat /\ Len(W \o out.ops) \in Nat
        BY <1>12
    <3>3. Len(W \o out.ops) <= Len(t1.writes)
        BY <1>13, <1>14
    <3> HIDE DEF W
    <3> QED  BY <3>1, <3>2, <3>3
  <2>2. \A i \in DOMAIN t.saves : t.saves[i] \in Nat
    <3>1. t.saves \in Seq(Nat)
        BY <1>1 DEF TxnRec
    <3> QED  BY <3>1, LenProperties
  <2>3. \A i \in DOMAIN t.saves : /\ t.saves[i] <= Len(t.writes)
                                  /\ \A j \in 1 .. i : t.saves[j] <= t.saves[i]
      BY <1>1 DEF SavesGood
  <2>4. \A i \in DOMAIN t.saves : t.saves[i] <= Len(t1.writes)
      BY <1>12, <2>1, <2>2, <2>3
  <2> QED  BY <1>14, <2>3, <2>4 DEF SavesGood
<1>16. HistoryGood(issued', next_xid)
  <2>1. d < next_xid
      BY <1>0, EndedIs DEF t
  <2>2. HistoryGood(issued, next_xid) /\ next_xid \in Nat
      BY <1>0, EndedIs DEF Types
  <2> DEFINE c == FALSE
  <2>3. Issue(out, d, c) /\ d \in Nat /\ c \in BOOLEAN
      BY <1>2, <1>5
  <2>4. out.moved \in BOOLEAN /\ out.value \in Option(Ints)
      BY <1>11
  <2> HIDE DEF d, c
  <2> QED  BY <2>1, <2>2, <2>3, <2>4, IssueGood
<1>17. Types'
    BY <1>0, <1>2, <1>3, <1>14, <1>15, <1>16, TypesOn DEF t
<1>18. txn'[s] = t1 /\ \A o \in Sessions \ {s} : txn'[o] = txn[o]
    BY <1>0, <1>3 DEF Types
<1>19. \/ Xids(versions') = Xids(versions) /\ (Held(s)' => Held(s))
       \/ \A o \in Sessions \ {s} : txn[o].snap = NoSnapshot
  <2>1. CASE out.ops = <<>>
    <3>1. W \o out.ops = W
        BY <1>9, <2>1, ConcatEmptySeq, Zenon
    <3>2. NoDdl(W) => NoDdl(txn'[s].writes)
        BY <1>13, <1>14, <1>18, <3>1
    <3> QED  BY <1>11, <2>1, <3>2 DEF Held, Has, NoDdl, Ddl, t
  <2> QED  BY <1>4, <1>8, <2>1
<1> QED
    BY <1>0, <1>2, <1>4, <1>10, <1>11, <1>13, <1>14, <1>17, <1>18, <1>19, SessionStep DEF t


\* A step that leaves the versions and the files.
LEMMA QuietStep ==
    ASSUME SInv, Types', versions' = versions, log' = log, image' = image, Ended' = Ended,
           next_xid' >= next_xid,
           \A o \in Sessions : /\ txn'[o].snap # NoSnapshot => txn'[o].snap = txn[o].snap /\ txn'[o].xid = txn[o].xid
                               /\ txn[o].snap = NoSnapshot => txn'[o].snap = NoSnapshot
                               /\ Held(o)' <=> Held(o)
                               /\ Held(o) => txn'[o].writes = txn[o].writes /\ txn'[o].xid = txn[o].xid
    PROVE  SInv'
<1>1. Solo'
    BY DEF SInv, Solo
<1>2. SnapshotsFresh'
  <2>1. Xids(versions)' = Xids(versions)
      OBVIOUS
  <2>2. \A o \in Sessions : txn'[o].snap # NoSnapshot =>
            \A x \in Xids(versions) \ {0, txn'[o].xid} : InSnapshot(x, txn'[o].snap) <=> x \in Ended
      BY DEF SInv, SnapshotsFresh
  <2> QED  BY <2>1, <2>2 DEF SnapshotsFresh, InSnapshot
<1>3. Blocks'
  <2>1. (\A s \in Sessions : ~Held(s)') => Shape(versions', Ended', 0)
      BY DEF SInv, Blocks
  <2>2. \A s \in Sessions : Held(s)' => /\ Shape(versions', Ended', txn'[s].xid)
                                       /\ LogGood(versions', Ended', txn'[s].xid, txn'[s].writes)
      BY DEF SInv, Blocks
  <2> QED  BY <2>1, <2>2 DEF Blocks
<1>4. FilesGood' /\ Recovered' = Recovered /\ Logged' = Logged /\ Replayable' = Replayable
  <2>1. next_xid' \in Nat
      BY SequencesAssumption DEF Types
  <2> QED  BY <2>1, FilesKept
<1>5. Replayable' => Rebuilt(Recovered, versions, Ended, Logged)'
    BY <1>4 DEF SInv
<1> QED  BY <1>1, <1>2, <1>3, <1>4, <1>5 DEF SInv

\* A transaction without DDL ends beside others.
LEMMA OtherEnd ==
    ASSUME SInv, Types', NEW s \in Sessions, ~Held(s), InTxn(s),
           txn'[s] = NoTxn, \A o \in Sessions \ {s} : txn'[o] = txn[o] /\ txn[o].xid # txn[s].xid,
           Ended' = Ended \cup {txn[s].xid}, UNCHANGED <<versions, log, image, next_xid>>
    PROVE  SInv'
<1> DEFINE x == txn[s].xid
<1>0. Types
    BY DEF SInv
<1>1. x \in Nat \ {0} /\ x \notin Ended
    BY <1>0, EndedIs
<1>2. \A o \in Sessions : (Held(o)' <=> Held(o)) /\ (Held(o) => o # s /\ txn'[o] = txn[o] /\ x # txn[o].xid)
  <2>1. ~Held(s)'
      BY NoTxnIs DEF Held, Has
  <2> QED  BY <2>1 DEF Held
<1>3. Solo'
  <2>1. \A o \in Sessions : txn'[o].snap = NoSnapshot \/ txn'[o] = txn[o]
      BY NoTxnIs
  <2> QED  BY <1>2, <2>1 DEF SInv, Solo
<1>4. x \notin Xids(versions)
  <2>1. CASE \A o \in Sessions : ~Held(o)
    <3>1. Shape(versions, Ended, 0) /\ Apt(Ended, 0)
        BY <1>0, <2>1, EndedIs DEF SInv, Blocks, Apt
    <3> QED  BY <1>1, <3>1, XidsIn
  <2>2. ASSUME NEW o \in Sessions, Held(o) PROVE x \notin Xids(versions)
    <3>1. Shape(versions, Ended, txn[o].xid) /\ InTxn(o) /\ txn[o].xid # x
      <4>1. txn[o] # NoTxn
          BY <2>2, NoTxnIs DEF Held, Has
      <4> QED  BY <1>0, <1>2, <2>2, <4>1 DEF SInv, Blocks, Types
    <3>2. Apt(Ended, txn[o].xid)
        BY <1>0, <3>1, OwnApt DEF Own
    <3> QED  BY <1>1, <3>1, <3>2, XidsIn
  <2> QED  BY <2>1, <2>2
<1>5. SnapshotsFresh'
  <2>1. Xids(versions)' = Xids(versions)
      OBVIOUS
  <2>2. ASSUME NEW o \in Sessions, txn'[o].snap # NoSnapshot, NEW y \in Xids(versions) \ {0, txn'[o].xid}
        PROVE  InSnapshot(y, txn'[o].snap) <=> y \in Ended'
    <3>1. o # s /\ txn'[o] = txn[o]
        BY <2>2, NoTxnIs
    <3> QED  BY <1>4, <2>2, <3>1 DEF SInv, SnapshotsFresh
  <2> QED  BY <2>1, <2>2 DEF SnapshotsFresh, InSnapshot
<1>6. (\A o \in Sessions : ~Held(o)) => Shape(versions, Ended \cup {x}, 0)
  <2>1. ASSUME \A o \in Sessions : ~Held(o) PROVE Shape(versions, Ended \cup {x}, 0)
    <3>1. Shape(versions, Ended, 0)
        BY <2>1 DEF SInv, Blocks
    <3> QED  BY <1>1, <3>1, GrowShape
  <2> QED  BY <2>1
<1>7. ASSUME NEW o \in Sessions, Held(o)
      PROVE  /\ Shape(versions, Ended \cup {x}, txn[o].xid)
             /\ LogGood(versions, Ended \cup {x}, txn[o].xid, txn[o].writes)
  <2>1. Shape(versions, Ended, txn[o].xid) /\ LogGood(versions, Ended, txn[o].xid, txn[o].writes)
      BY <1>7 DEF SInv, Blocks
  <2>2. x \notin Ended \cup {0, txn[o].xid}
      BY <1>1, <1>2, <1>7
  <2> QED  BY <2>1, <2>2, GrowShape, GrowLog
<1>8. Blocks'
  <2>1. (\A o \in Sessions : ~Held(o)') => Shape(versions', Ended', 0)
      BY <1>2, <1>6
  <2>2. \A o \in Sessions : Held(o)' => /\ Shape(versions', Ended', txn'[o].xid)
                                       /\ LogGood(versions', Ended', txn'[o].xid, txn'[o].writes)
      BY <1>2, <1>7
  <2> QED  BY <2>1, <2>2 DEF Blocks
<1>9. FilesGood' /\ Recovered' = Recovered /\ Logged' = Logged /\ Replayable' = Replayable
  <2>1. next_xid' \in Nat /\ next_xid' >= next_xid
      BY <1>0, EndedIs
  <2> QED  BY <2>1, FilesKept
<1>10. ASSUME Replayable' PROVE Rebuilt(Recovered, versions, Ended, Logged)'
  <2>1. Rebuilt(Recovered, versions, Ended, Logged)
      BY <1>9, <1>10 DEF SInv
  <2>2. Shape(versions, Ended, 0) \/ \E o \in Sessions : Shape(versions, Ended, txn[o].xid) /\ x # txn[o].xid
      BY <1>2 DEF SInv, Blocks
  <2>3. PICK d : Shape(versions, Ended, d) /\ x \notin Ended \cup {0, d}
      BY <1>1, <2>2
  <2>4. Rebuilt(Recovered, versions, Ended \cup {x}, Logged)
      BY <2>1, <2>3, GrowRebuilt
  <2> QED  BY <1>9, <2>4
<1> QED  BY <1>3, <1>5, <1>8, <1>9, <1>10 DEF SInv

\* A transaction ends that may have had DDL.
LEMMA EndStep ==
    ASSUME SInv, Types', NEW s \in Sessions, \A o \in Sessions \ {s} : ~Held(o),
           txn'[s] = NoTxn, \A o \in Sessions \ {s} : txn'[o] = txn[o],
           Ended' = Ended \cup {Own(s)}, Shape(versions', Ended', 0), FilesGood',
           Replayable' => Rebuilt(Recovered, versions, Ended, Logged)',
           \/ Xids(versions') \subseteq Xids(versions) /\ Untouched(versions, Own(s))
           \/ \A o \in Sessions \ {s} : txn[o].snap = NoSnapshot
    PROVE  SInv'
<1>1. \A o \in Sessions : ~Held(o)'
  <2>1. ~Held(s)'
      BY NoTxnIs DEF Held, Has
  <2> QED  BY <2>1 DEF Held
<1>2. Solo' /\ Blocks'
    BY <1>1 DEF Solo, Blocks
<1>3. SnapshotsFresh'
  <2>1. Xids(versions)' = Xids(versions')
      OBVIOUS
  <2>2. ASSUME NEW o \in Sessions, txn'[o].snap # NoSnapshot, NEW y \in Xids(versions') \ {0, txn'[o].xid}
        PROVE  InSnapshot(y, txn'[o].snap) <=> y \in Ended'
    <3>1. o # s /\ txn'[o] = txn[o]
        BY <2>2, NoTxnIs
    <3>2. y \in Xids(versions) /\ Untouched(versions, Own(s))
        BY <2>2, <3>1
    <3>3. y # Own(s)
      <4>1. \A i \in DOMAIN versions : versions[i].created_xmin # Own(s) /\ versions[i].dropped_xmax # Own(s)
          BY <3>2 DEF Untouched
      <4> QED  BY <3>2, <4>1 DEF Xids
    <3> QED  BY <2>2, <3>1, <3>2, <3>3 DEF SInv, SnapshotsFresh
  <2> QED  BY <2>1, <2>2 DEF SnapshotsFresh, InSnapshot
<1> QED  BY <1>2, <1>3 DEF SInv


LEMMA Cut ==
    ASSUME NEW W \in Seq(OpRec), NEW m \in 0 .. Len(W)
    PROVE  LET A == SubSeq(W, 1, m)
               B == SubSeq(W, m + 1, Len(W)) IN
           /\ A \in Seq(OpRec) /\ Len(A) = m /\ DOMAIN A = 1 .. m /\ m \in Nat
           /\ \A j \in 1 .. m : A[j] = W[j]
           /\ B \in Seq(OpRec) /\ Len(B) = Len(W) - m /\ DOMAIN B = 1 .. Len(W) - m
           /\ \A j \in 1 .. Len(W) - m : B[j] = W[m + j] /\ m + j \in m + 1 .. Len(W)
           /\ \A j \in m + 1 .. Len(W) : j - m \in DOMAIN B /\ B[j - m] = W[j]
<1> DEFINE A == SubSeq(W, 1, m)
           B == SubSeq(W, m + 1, Len(W))
           N == Len(W)
<1>1. N \in Nat /\ m \in Nat /\ m <= N /\ \A i \in 1 .. N : W[i] \in OpRec
    BY LenProperties
<1>2. A \in Seq(OpRec) /\ Len(A) = m /\ \A j \in 1 .. m : A[j] = W[j]
    BY <1>1, SubSeqProperties
<1>3. B \in Seq(OpRec) /\ Len(B) = N - m /\ \A j \in 1 .. N - m : B[j] = W[m + j]
  <2>1. m + 1 \in 1 .. N + 1 /\ N \in m .. N
      BY <1>1
  <2> QED  BY <1>1, <2>1
<1>4. DOMAIN A = 1 .. m /\ DOMAIN B = 1 .. N - m
    BY <1>2, <1>3, LenProperties
<1> HIDE DEF A, B
<1>5. \A j \in m + 1 .. N : j - m \in 1 .. N - m /\ m + (j - m) = j
    BY <1>1
<1>6. \A j \in 1 .. N - m : m + j \in m + 1 .. N
    BY <1>1
<1> QED  BY <1>1, <1>2, <1>3, <1>4, <1>5, <1>6 DEF A, B

LEMMA CutNone ==
    ASSUME NEW W \in Seq(OpRec)
    PROVE  SubSeq(W, 1, Len(W)) = W
    BY LenProperties

LEMMA MarkersIs ==
    ASSUME NEW W \in Seq(OpRec)
    PROVE  Markers(W) \in Seq(OpRec) /\ NoDdl(Markers(W))
<1> DEFINE K == {i \in DOMAIN W : W[i].op = "advance"}
<1>1. K \in SUBSET (1 .. Len(W))
    BY LenProperties
<1>2. PICK e : Lists(OpRec, W, K, Picked(W, K), e)
    BY <1>1, PickedLists
<1>3. Markers(W) = Picked(W, K)
    BY DEF Markers
<1> DEFINE M == Picked(W, K)
<1> HIDE DEF M
<1>4. /\ M \in Seq(OpRec) /\ e \in [1 .. Len(M) -> K]
      /\ \A i \in 1 .. Len(M) : M[i] = W[e[i]]
    BY <1>2 DEF Lists, M
<1>5. \A i \in DOMAIN M : M[i].op = "advance"
    BY <1>4, LenProperties
<1> QED  BY <1>3, <1>4, <1>5 DEF NoDdl, Ddl, DDL, M

LEMMA PickedHistory ==
    ASSUME NEW n, HistoryGood(issued, n), NEW K \in SUBSET DOMAIN issued
    PROVE  /\ HistoryGood(Picked(issued, K), n)
           /\ \E e : Lists(Entry, issued, K, Picked(issued, K), e)
<1>1. issued \in Seq(Entry) /\ DOMAIN issued = 1 .. Len(issued)
    BY LenProperties DEF HistoryGood
<1>2. PICK e : Lists(Entry, issued, K, Picked(issued, K), e)
    BY <1>1, PickedLists
<1> DEFINE h == Picked(issued, K)
<1> HIDE DEF h
<1>3. /\ h \in Seq(Entry) /\ e \in [1 .. Len(h) -> K]
      /\ \A i \in 1 .. Len(h) : h[i] = issued[e[i]]
    BY <1>2 DEF Lists, h
<1>4. DOMAIN h = 1 .. Len(h)
    BY <1>3, LenProperties
<1>5. HistoryGood(h, n)
    BY <1>1, <1>3, <1>4 DEF HistoryGood
<1> QED  BY <1>2, <1>5 DEF h

LEMMA ForgetGood ==
    ASSUME NEW n, HistoryGood(issued, n), NEW xid, NEW writes, Forget(xid, writes)
    PROVE  HistoryGood(issued', n)
<1> DEFINE K == {i \in DOMAIN issued : issued[i].xid # xid}
<1>1. issued' = issued \/ issued' = Picked(issued, K)
    BY DEF Forget
<1>2. K \in SUBSET DOMAIN issued
    OBVIOUS
<1>3. HistoryGood(Picked(issued, K), n)
    BY <1>2, PickedHistory
<1> QED  BY <1>1, <1>3

\* Undoing no DDL.
LEMMA UndoQuiet ==
    ASSUME NEW vs, NEW d, NEW W \in Seq(OpRec), NoDdl(W)
    PROVE  undo_all(vs, d, W) = vs
<1> DEFINE N == Len(W)
<1>1. N \in Nat /\ DOMAIN W = 1 .. N /\ \A j \in 1 .. N : W[j] \in OpRec
    BY LenProperties
<1>2. PICK u : /\ u[0] = vs
               /\ \A n \in 1 .. N : u[n] = undo_write_op(u[n - 1], d, W[N - n + 1])
               /\ undo_all(vs, d, W) = u[N]
    BY <1>1, UndoExists
<1>3. ASSUME NEW v, NEW n \in 1 .. N PROVE undo_write_op(v, d, W[N - n + 1]) = v
  <2>1. N - n + 1 \in 1 .. N
      BY <1>1
  <2>2. W[N - n + 1].op = "advance"
      BY <1>1, <2>1 DEF NoDdl, Ddl, OpRec
  <2> HIDE DEF N
  <2> QED  BY <2>2 DEF undo_write_op
<1> HIDE DEF N
<1> DEFINE Bad == {n \in 0 .. N : u[n] # vs}
<1>4. ASSUME Bad # {} PROVE FALSE
  <2>1. PICK m \in Bad : \A y \in Bad : m <= y
    <3>1. Bad \subseteq Nat
        BY <1>1
    <3> HIDE DEF Bad
    <3> QED  BY <1>4, <3>1, Least
  <2>2. m # 0
      BY <1>2, <2>1
  <2>3. m \in 1 .. N /\ m - 1 \in 0 .. N /\ m - 1 \notin Bad
      BY <1>1, <2>1, <2>2
  <2>4. u[m - 1] = vs
      BY <2>3
  <2>5. u[m] = undo_write_op(vs, d, W[N - m + 1])
      BY <1>2, <2>3, <2>4
  <2>6. u[m] = vs
      BY <1>3, <2>3, <2>5
  <2> QED  BY <2>1, <2>6
<1>5. N \in 0 .. N
    BY <1>1
<1> QED  BY <1>2, <1>4, <1>5

LEMMA HistoryGrow ==
    ASSUME NEW h, NEW n \in Nat, NEW m \in Nat, n <= m, HistoryGood(h, n)
    PROVE  HistoryGood(h, m)
<1>1. ASSUME NEW i \in DOMAIN h PROVE h[i].xid < m
  <2>1. h[i] \in Entry /\ h[i].xid < n
      BY LenProperties DEF HistoryGood
  <2> QED  BY <2>1 DEF Entry
<1> QED  BY <1>1 DEF HistoryGood

LEMMA BeginKeeps ==
    ASSUME SInv, NEW s \in Sessions, Begin(s)
    PROVE  SInv'
<1>0. Types /\ ~InTxn(s)
    BY DEF SInv, Begin
<1>1. /\ next_xid < MaxXid /\ next_xid' = next_xid + 1 /\ active' = active \cup {next_xid}
      /\ UNCHANGED <<versions, advanced, log, image, issued>>
    BY DEF Begin
<1>2. PICK l \in Level : txn' = [txn EXCEPT ![s] = [NoTxn EXCEPT !.xid = next_xid, !.level = l]]
    BY DEF Begin
<1> DEFINE t == [NoTxn EXCEPT !.xid = next_xid, !.level = l]
<1>3. next_xid \in Nat \ {0} /\ MaxXid \in Nat /\ l \in {"RC", "RR"}
    BY <1>0, EndedIs, SequencesAssumption
<1>4. t \in TxnRec /\ t.xid = next_xid /\ t.writes = <<>> /\ t.saves = <<>> /\ t.snap = NoSnapshot
  <2>1. NoTxn \in TxnRec /\ NoTxn.writes = <<>> /\ NoTxn.snap = NoSnapshot /\ NoTxn.saves = <<>>
      BY NoTxnIs DEF NoTxn
  <2> QED  BY <1>3, <2>1 DEF TxnRec
<1>5. SavesGood(t)
    BY <1>4 DEF SavesGood
<1> HIDE DEF t
<1>6. txn \in [Sessions -> TxnRec]
    BY <1>0 DEF Types
<1>7. txn' \in [Sessions -> TxnRec] /\ \A o \in Sessions : txn'[o] = IF o = s THEN t ELSE txn[o]
    BY <1>2, <1>4, <1>6 DEF t
<1>8. \A o \in Sessions : InTxn(o)' <=> InTxn(o) \/ o = s
    BY <1>3, <1>4, <1>7 DEF InTxn
<1>9. \A o \in Sessions : InTxn(o) => txn[o].xid \in 1 .. next_xid - 1
    BY <1>0 DEF Types
<1>10. active' = {txn'[o].xid : o \in {p \in Sessions : InTxn(p)'}}
  <2>1. active = {txn[o].xid : o \in {p \in Sessions : InTxn(p)}}
      BY <1>0 DEF Types
  <2> QED  BY <1>0, <1>1, <1>4, <1>7, <1>8, <2>1
<1>11. active' \subseteq 1 .. next_xid' - 1 /\ next_xid' \in 1 .. MaxXid
  <2>1. active \subseteq 1 .. next_xid - 1
      BY <1>0 DEF Types
  <2> QED  BY <1>1, <1>3, <2>1
<1>12. \A o, p \in Sessions : InTxn(o)' /\ txn'[o].xid = txn'[p].xid => o = p
  <2>1. \A o, p \in Sessions : InTxn(o) /\ txn[o].xid = txn[p].xid => o = p
      BY <1>0 DEF Types
  <2>2. \A o \in Sessions : txn[o].xid # next_xid
      BY <1>3, <1>9 DEF InTxn
  <2> QED  BY <1>4, <1>7, <1>8, <2>1, <2>2
<1>13. \A o \in Sessions : SavesGood(txn'[o]) /\ (~InTxn(o)' => txn'[o] = NoTxn)
    BY <1>0, <1>5, <1>7, <1>8 DEF Types
<1>14. HistoryGood(issued', next_xid')
  <2>1. HistoryGood(issued, next_xid) /\ next_xid <= next_xid + 1
      BY <1>0, <1>3 DEF Types
  <2>2. HistoryGood(issued, next_xid + 1)
      BY <1>3, <2>1, HistoryGrow
  <2> QED  BY <1>1, <2>2
<1>15. Types'
    BY <1>0, <1>1, <1>7, <1>10, <1>11, <1>12, <1>13, <1>14 DEF Types, SavesGood
<1>16. Ended' = Ended
    BY <1>1, <1>3 DEF Ended
<1>17. txn[s] = NoTxn
    BY <1>0 DEF Types
<1>18. ~Held(s) /\ ~Held(s)'
    BY <1>4, <1>7, <1>17, NoTxnIs DEF Held, Has
<1>19. \A o \in Sessions : Held(o)' <=> Held(o)
  <2>1. \A o \in Sessions \ {s} : Held(o)' <=> Held(o)
      BY <1>7 DEF Held
  <2> QED  BY <1>18, <2>1
<1>20. next_xid' >= next_xid
    BY <1>1, <1>3
<1> QED  BY <1>1, <1>4, <1>7, <1>15, <1>16, <1>17, <1>18, <1>19, <1>20, NoTxnIs, QuietStep


LEMMA RefusedKeeps ==
    ASSUME SInv, NEW s \in Sessions, CommitRefused(s)
    PROVE  SInv'
<1> DEFINE t == [txn[s] EXCEPT !.failed = TRUE]
<1>0. Types /\ InTxn(s) /\ txn \in [Sessions -> TxnRec]
    BY DEF SInv, CommitRefused, Types
<1>1. txn' = [txn EXCEPT ![s] = t] /\ UNCHANGED <<versions, next_xid, active, advanced, log, image, issued>>
    BY DEF CommitRefused
<1>2. /\ t \in TxnRec /\ t.xid = txn[s].xid /\ t.writes = txn[s].writes /\ t.saves = txn[s].saves
      /\ t.snap = txn[s].snap
    BY <1>0 DEF TxnRec
<1> HIDE DEF t
<1>3. SavesGood(t)
  <2>1. SavesGood(txn[s])
      BY <1>0 DEF Types
  <2> QED  BY <1>2, <2>1 DEF SavesGood
<1>4. HistoryGood(issued', next_xid) /\ advanced' \in BOOLEAN
    BY <1>0, <1>1 DEF Types
<1>5. Types'
    BY <1>0, <1>1, <1>2, <1>3, <1>4, TypesOn
<1>6. \A o \in Sessions : /\ txn'[o].snap = txn[o].snap /\ txn'[o].xid = txn[o].xid
                          /\ txn'[o].writes = txn[o].writes
    BY <1>0, <1>1, <1>2
<1>7. Ended' = Ended /\ next_xid' >= next_xid
    BY <1>0, <1>1, EndedIs DEF Ended
<1>8. \A o \in Sessions : Held(o)' <=> Held(o)
    BY <1>6 DEF Held
<1> QED  BY <1>1, <1>5, <1>6, <1>7, <1>8, QuietStep

LEMMA SavepointKeeps ==
    ASSUME SInv, NEW s \in Sessions, txn_savepoint(s)
    PROVE  SInv'
<1> DEFINE W == txn[s].writes
           S == txn[s].saves
           t == [txn[s] EXCEPT !.saves = Append(S, Len(W))]
<1>0. Types /\ InTxn(s) /\ txn \in [Sessions -> TxnRec]
    BY DEF SInv, txn_savepoint, Types
<1>1. UNCHANGED <<versions, next_xid, active, advanced, log, image, issued>>
    BY DEF txn_savepoint
<1>2. txn' = [txn EXCEPT ![s] = t]
    BY <1>0 DEF txn_savepoint
<1>3. W \in Seq(OpRec) /\ S \in Seq(Nat) /\ Len(W) \in Nat /\ txn[s] \in TxnRec
  <2>1. W \in Seq(OpRec) /\ S \in Seq(Nat) /\ txn[s] \in TxnRec
      BY <1>0 DEF TxnRec
  <2> QED  BY <2>1, LenProperties
<1> DEFINE n == Len(S)
           S1 == Append(S, Len(W))
<1>4. /\ S1 \in Seq(Nat) /\ n \in Nat /\ DOMAIN S = 1 .. n /\ DOMAIN S1 = 1 .. n + 1 /\ S1[n + 1] = Len(W)
      /\ \A j \in 1 .. n : S1[j] = S[j] /\ S[j] \in Nat
    BY <1>3, AppendProperties, LenProperties, SMTT(30)
<1> HIDE DEF S1
<1>5. /\ t \in TxnRec /\ t.xid = txn[s].xid /\ t.writes = W /\ t.saves = S1
      /\ t.snap = txn[s].snap
    BY <1>3, <1>4 DEF TxnRec, S1
<1> HIDE DEF t
<1>6. SavesGood(t)
  <2>1. \A i \in 1 .. n : S[i] <= Len(W) /\ \A j \in 1 .. i : S[j] <= S[i]
      BY <1>0, <1>4 DEF Types, SavesGood
  <2> HIDE DEF S, W, n
  <2>2. ASSUME NEW i \in 1 .. n + 1
        PROVE  S1[i] <= Len(W) /\ \A j \in 1 .. i : S1[j] <= S1[i]
    <3>1. CASE i \in 1 .. n
      <4>1. \A j \in 1 .. i : j \in 1 .. n
          BY <1>4, <3>1
      <4> QED  BY <1>4, <2>1, <3>1, <4>1
    <3>2. CASE i = n + 1
      <4>1. \A j \in 1 .. i : j \in 1 .. n \/ j = n + 1
          BY <1>4, <3>2
      <4> QED  BY <1>3, <1>4, <2>1, <3>2, <4>1
    <3> QED  BY <1>4, <2>2, <3>1, <3>2
  <2> QED  BY <1>4, <1>5, <2>2 DEF SavesGood
<1>7. HistoryGood(issued', next_xid) /\ advanced' \in BOOLEAN
    BY <1>0, <1>1 DEF Types
<1>8. Types'
    BY <1>0, <1>1, <1>2, <1>5, <1>6, <1>7, TypesOn
<1>9. \A o \in Sessions : /\ txn'[o].snap = txn[o].snap /\ txn'[o].xid = txn[o].xid
                          /\ txn'[o].writes = txn[o].writes
    BY <1>0, <1>2, <1>5
<1>10. Ended' = Ended /\ next_xid' >= next_xid
    BY <1>0, <1>1, EndedIs DEF Ended
<1>11. \A o \in Sessions : Held(o)' <=> Held(o)
    BY <1>9 DEF Held
<1> QED  BY <1>1, <1>8, <1>9, <1>10, <1>11, QuietStep

\* All the versions of d are gone, and its other marks.
LEMMA UndoneAll ==
    ASSUME NEW vs, NEW C, NEW d, NEW W, Apt(C, d), d # 0, Shape(vs, C, d), LogGood(vs, C, d, W)
    PROVE  LET ws == undo_all(vs, d, W) IN
           /\ Shape(ws, C \cup {d}, 0) /\ Untouched(ws, d)
           /\ ShownParams(ws, C \cup {d}) = ShownParams(vs, C)
           /\ Shape(ws, C, 0) /\ Shape(ws, C, d) /\ ShownParams(ws, C) = ShownParams(vs, C)
<1> DEFINE ws == undo_all(vs, d, W)
<1>1. W \in Seq(OpRec) /\ Len(W) \in Nat
    BY LogLen DEF LogGood
<1>2. SubSeq(W, 0 + 1, Len(W)) = W
    BY <1>1, CutNone
<1>3. 0 \in 0 .. Len(W)
    BY <1>1
<1>4. UndoneTo(vs, ws, C, d, W, 0)
  <2>1. UndoneTo(vs, undo_all(vs, d, SubSeq(W, 0 + 1, Len(W))), C, d, W, 0)
      BY <1>3, UndoLog
  <2> QED  BY <1>2, <2>1
<1> HIDE DEF ws
<1>5. Shape(ws, C, d) /\ After(ws, C, d, W, 0) /\ ShownParams(ws, C) = ShownParams(vs, C)
    BY <1>4 DEF UndoneTo
<1>6. Untouched(ws, d)
    BY <1>5 DEF After
<1>7. Shape(ws, C, 0)
    BY <1>5, <1>6, ShapeClosed
<1>8. Shape(ws, C \cup {d}, 0) /\ ShownParams(ws, C \cup {d}) = ShownParams(ws, C)
  <2>1. d \notin C \cup {0, 0}
      BY DEF Apt
  <2> QED  BY <1>7, <2>1, GrowShape
<1> QED  BY <1>5, <1>6, <1>7, <1>8 DEF ws

LEMMA RollbackKeeps ==
    ASSUME SInv, NEW s \in Sessions, txn_rollback(s)
    PROVE  SInv'
<1> DEFINE d == txn[s].xid
           W == txn[s].writes
<1>0. Types /\ InTxn(s) /\ txn \in [Sessions -> TxnRec]
    BY DEF SInv, txn_rollback, Types
<1>1. /\ versions' = undo_all(versions, d, W) /\ Forget(d, W)
      /\ txn' = [txn EXCEPT ![s] = NoTxn] /\ active' = active \ {d}
      /\ UNCHANGED <<next_xid, advanced, image, log>>
    BY DEF txn_rollback, End
<1>2. HistoryGood(issued', next_xid)
    BY <1>0, <1>1, ForgetGood DEF Types
<1>3. /\ Types' /\ Ended' = Ended \cup {d}
      /\ \A o \in Sessions \ {s} : txn'[o] = txn[o] /\ txn[o].xid # txn[s].xid
    BY <1>0, <1>1, <1>2, TypesEnd
<1>4. txn'[s] = NoTxn
    BY <1>0, <1>1
<1>5. W \in Seq(OpRec)
    BY <1>0 DEF TxnRec
<1>6. CASE ~Held(s)
  <2>1. versions' = versions
      BY <1>1, <1>5, <1>6, HeldIs, UndoQuiet
  <2> QED  BY <1>0, <1>1, <1>3, <1>4, <1>6, <2>1, OtherEnd
<1>7. CASE Held(s)
  <2>1. \A o \in Sessions \ {s} : ~Held(o) /\ txn[o].snap = NoSnapshot
      BY <1>7 DEF SInv, Solo
  <2>2. Own(s) = d
      BY <1>0 DEF Own
  <2>3. /\ Apt(Ended, d) /\ d # 0 /\ Shape(versions, Ended, d) /\ LogGood(versions, Ended, d, W)
      BY <1>0, <2>1, <2>2, OwnApt, Ready
  <2> HIDE DEF d, W
  <2>4. /\ Shape(versions', Ended \cup {d}, 0) /\ Untouched(versions', d)
        /\ ShownParams(versions', Ended \cup {d}) = ShownParams(versions, Ended)
        /\ Shape(versions', Ended, d) /\ ShownParams(versions', Ended) = ShownParams(versions, Ended)
      BY <1>1, <2>3, UndoneAll
  <2>5. FilesGood' /\ Recovered' = Recovered /\ Logged' = Logged /\ Replayable' = Replayable
    <3>1. next_xid' \in Nat /\ next_xid' >= next_xid
        BY <1>0, <1>1, EndedIs
    <3> QED  BY <1>1, <3>1, FilesKept
  <2>6. ASSUME Replayable' PROVE Rebuilt(Recovered, versions, Ended, Logged)'
    <3>1. Rebuilt(Recovered, versions, Ended, Logged)
        BY <2>5, <2>6 DEF SInv
    <3>2. Rebuilt(Recovered, versions', Ended, Logged)
        BY <2>4, <3>1 DEF Rebuilt
    <3>3. d \notin Ended \cup {0}
        BY <2>3 DEF Apt
    <3>4. Rebuilt(Recovered, versions', Ended \cup {d}, Logged)
        BY <2>4, <3>2, <3>3, GrowRebuilt
    <3> QED  BY <1>3, <2>5, <3>4 DEF d
  <2>7. Ended' = Ended \cup {d}
      BY <1>3 DEF d
  <2> QED  BY <1>3, <1>4, <2>1, <2>2, <2>4, <2>5, <2>6, <2>7, EndStep
<1> QED  BY <1>6, <1>7


LEMMA RollbackToKeeps ==
    ASSUME SInv, NEW s \in Sessions, txn_rollback_to(s)
    PROVE  SInv'
<1> DEFINE d == txn[s].xid
           W == txn[s].writes
           S == txn[s].saves
           m == Last(S)
           B == SubSeq(W, m + 1, Len(W))
           A == SubSeq(W, 1, m)
           W1 == A \o Markers(B)
           t == [txn[s] EXCEPT !.writes = W1, !.failed = FALSE]
<1>0. Types /\ InTxn(s) /\ txn \in [Sessions -> TxnRec] /\ txn[s] \in TxnRec
    BY DEF SInv, txn_rollback_to, Types
<1>1. /\ S # <<>> /\ versions' = undo_all(versions, d, B) /\ Forget(d, B)
      /\ UNCHANGED <<next_xid, active, advanced, log, image>>
    BY DEF txn_rollback_to
<1>2. txn' = [txn EXCEPT ![s] = t]
    BY <1>0 DEF txn_rollback_to
<1>3. W \in Seq(OpRec) /\ S \in Seq(Nat) /\ Len(W) \in Nat /\ SavesGood(txn[s])
  <2>1. W \in Seq(OpRec) /\ S \in Seq(Nat) /\ SavesGood(txn[s])
      BY <1>0 DEF TxnRec, Types
  <2> QED  BY <2>1, LenProperties
<1>4. m \in 0 .. Len(W) /\ \A i \in DOMAIN S : S[i] <= m
  <2>1. Len(S) \in Nat /\ Len(S) # 0 /\ DOMAIN S = 1 .. Len(S)
      BY <1>1, <1>3, EmptySeq, LenProperties
  <2>2. m = S[Len(S)] /\ Len(S) \in DOMAIN S /\ 1 .. Len(S) = DOMAIN S
      BY <2>1 DEF Last
  <2>3. m <= Len(W) /\ \A i \in DOMAIN S : S[i] <= m
      BY <1>3, <2>2 DEF SavesGood
  <2>4. m \in Nat
      BY <1>3, <2>1, <2>2
  <2> HIDE DEF m
  <2> QED  BY <1>3, <2>3, <2>4
<1>5. /\ A \in Seq(OpRec) /\ Len(A) = m /\ DOMAIN A = 1 .. m /\ m \in Nat
      /\ \A j \in 1 .. m : A[j] = W[j]
      /\ B \in Seq(OpRec) /\ Len(B) = Len(W) - m /\ DOMAIN B = 1 .. Len(W) - m
      /\ \A j \in 1 .. Len(W) - m : B[j] = W[m + j] /\ m + j \in m + 1 .. Len(W)
      /\ \A j \in m + 1 .. Len(W) : j - m \in DOMAIN B /\ B[j - m] = W[j]
  <2> HIDE DEF m, W
  <2> QED  BY <1>3, <1>4, Cut
<1> DEFINE M == Markers(B)
<1>6. M \in Seq(OpRec) /\ NoDdl(M)
    BY <1>5, MarkersIs
<1> HIDE DEF M, A
<1>7. /\ W1 \in Seq(OpRec) /\ m <= Len(W1) /\ Len(W1) \in Nat
      /\ NoDdl(W1) <=> NoDdl(A)
      /\ \A vs, C, e : LogGood(vs, C, e, A) => LogGood(vs, C, e, W1)
  <2>1. A \o M \in Seq(OpRec) /\ Len(A) <= Len(A \o M) /\ NoDdl(A \o M) <=> NoDdl(A)
      BY <1>5, <1>6, LogMark
  <2>2. \A vs, C, e : LogGood(vs, C, e, A) => LogGood(vs, C, e, A \o M)
      BY <1>5, <1>6, LogMark
  <2> QED  BY <1>5, <1>6, <2>1, <2>2, LogMark, LenProperties DEF M
<1> HIDE DEF W1
<1>8. t \in TxnRec /\ t.xid = d /\ t.writes = W1 /\ t.saves = S /\ t.snap = txn[s].snap
    BY <1>0, <1>7 DEF TxnRec
<1> HIDE DEF t
<1>9. SavesGood(t)
  <2>1. \A i \in DOMAIN S : S[i] \in Nat
      BY <1>3, LenProperties
  <2>2. \A i \in DOMAIN S : S[i] <= Len(W1)
    <3> HIDE DEF S, m
    <3> QED  BY <1>4, <1>5, <1>7, <2>1
  <2> QED  BY <1>3, <1>8, <2>2 DEF SavesGood
<1>10. HistoryGood(issued', next_xid) /\ advanced' \in BOOLEAN
    BY <1>0, <1>1, ForgetGood DEF Types
<1>11. Types'
    BY <1>0, <1>1, <1>2, <1>8, <1>9, <1>10, TypesOn
<1>12. txn'[s] = t /\ \A o \in Sessions \ {s} : txn'[o] = txn[o]
    BY <1>0, <1>2
<1>13. NoDdl(W) => NoDdl(A) /\ NoDdl(B)
  <2>1. DOMAIN W = 1 .. Len(W)
      BY <1>3, LenProperties
  <2>2. \A j \in 1 .. m : j \in 1 .. Len(W)
    <3> HIDE DEF m, W
    <3> QED  BY <1>3, <1>4
  <2>3. \A j \in m + 1 .. Len(W) : j \in 1 .. Len(W)
    <3> HIDE DEF m, W
    <3> QED  BY <1>3, <1>4
  <2> HIDE DEF m, W, B
  <2> QED  BY <1>5, <2>1, <2>2, <2>3 DEF NoDdl
<1>14. CASE ~Held(s)
  <2>1. NoDdl(W) /\ NoDdl(W1) /\ NoDdl(B)
      BY <1>7, <1>13, <1>14, HeldIs
  <2>2. versions' = versions
    <3> HIDE DEF B
    <3> QED  BY <1>1, <1>5, <2>1, UndoQuiet
  <2>3. ~Held(s)'
      BY <1>8, <1>12, <2>1 DEF Held, Has, NoDdl, Ddl
  <2>4. Ended' = Ended /\ next_xid' >= next_xid
      BY <1>0, <1>1, EndedIs DEF Ended
  <2>5. \A o \in Sessions \ {s} : Held(o)' <=> Held(o)
      BY <1>12 DEF Held
  <2> QED  BY <1>1, <1>8, <1>11, <1>12, <1>14, <2>2, <2>3, <2>4, <2>5, QuietStep
<1>15. CASE Held(s)
  <2>1. \A o \in Sessions \ {s} : ~Held(o) /\ txn[o].snap = NoSnapshot
      BY <1>15 DEF SInv, Solo
  <2>2. Own(s) = d
      BY <1>0 DEF Own
  <2>3. /\ Apt(Ended, d) /\ d # 0 /\ Shape(versions, Ended, d) /\ LogGood(versions, Ended, d, W)
      BY <1>0, <2>1, <2>2, OwnApt, Ready
  <2>4. UndoneTo(versions, versions', Ended, d, W, m)
    <3> HIDE DEF d, W, m
    <3> QED  BY <1>1, <1>4, <2>3, UndoLog
  <2> HIDE DEF d, W, m
  <2>5. Shape(versions', Ended, d) /\ After(versions', Ended, d, W, m)
        /\ Xids(versions') \subseteq Xids(versions) \cup {0, d}
        /\ ShownParams(versions', Ended) = ShownParams(versions, Ended)
      BY <2>4 DEF UndoneTo
  <2>6. LogGood(versions', Ended, d, A)
    <3>1. LogShape(Ended, d, W)
        BY <2>3 DEF LogGood
    <3>2. \A j \in DOMAIN A : j <= m
        BY <1>5
    <3>3. m <= Len(A)
        BY <1>5
    <3> QED  BY <1>4, <1>5, <2>5, <3>1, <3>2, <3>3, LogCut
  <2>7. LogGood(versions', Ended, d, txn'[s].writes)
      BY <1>7, <1>8, <1>12, <2>6
  <2> QED  BY <1>0, <1>1, <1>8, <1>11, <1>12, <2>1, <2>5, <2>7, SessionStep DEF d
<1> QED  BY <1>14, <1>15


\* COPY FROM that fills a column from the sequence.
LEMMA CopyKeeps ==
    ASSUME Orderly, SInv, NEW s \in Sessions, copy_from_ingest(s)
    PROVE  SInv'
<1> DEFINE t == txn[s]
           d == Own(s)
           W == t.writes
           out == seq_nextval(versions, Sees(s), d)
           q == [kind |-> "copy"]
<1>0. Types /\ t \in TxnRec /\ SavesGood(t) /\ txn \in [Sessions -> TxnRec] /\ (~InTxn(s) => t = NoTxn)
    BY DEF SInv, Types
<1>1. /\ MayIssue(s, q, versions, d) /\ versions' = out.versions /\ advanced' = (advanced \/ out.advanced)
      /\ UNCHANGED <<active, log, image>> /\ ~t.failed
      /\ InTxn(s) \/ next_xid < MaxXid
    BY DEF copy_from_ingest, Own, Sees
<1>2. /\ next_xid' = IF InTxn(s) THEN next_xid ELSE next_xid + 1
      /\ txn' = [txn EXCEPT ![s] = [t EXCEPT !.snap = IF InTxn(s) /\ t.level = "RR" THEN Sees(s) ELSE t.snap,
                                             !.failed = InTxn(s) /\ ~out.ok]]
  <2>1. /\ next_xid' = IF InTxn(s) THEN next_xid ELSE d + 1
        /\ txn' = [txn EXCEPT ![s].snap = IF InTxn(s) /\ t.level = "RR" THEN Sees(s) ELSE @,
                              ![s].failed = InTxn(s) /\ ~out.ok]
      BY DEF copy_from_ingest, Own, Sees
  <2> HIDE DEF out
  <2> QED  BY <1>0, <2>1 DEF TxnRec, Own
<1>3. Issue(out, t.xid, TRUE)
    BY DEF copy_from_ingest, Own, Sees
<1>4. \A o \in Sessions \ {s} : ~Held(o)
    BY <1>1, MayIssueIs
<1>5. Apt(Ended, d) /\ d # 0 /\ d \in Nat
    BY <1>0, OwnApt
<1>6. /\ Shape(versions, Ended, d) /\ LogGood(versions, Ended, d, W)
      /\ ~Held(s) => Untouched(versions, d) /\ Shape(versions, Ended, 0)
    BY <1>4, Ready
<1>7. Done(versions, out, Ended, d, W) /\ out.ops = <<>>
  <2>1. Reads(versions, Sees(s), d)
      BY <1>4, ReadyReads
  <2> HIDE DEF d, W
  <2> QED  BY <1>5, <1>6, <2>1, NextvalDone
<1> HIDE DEF out
<1>8. W \o out.ops = W
  <2>1. W \in Seq(OpRec)
      BY <1>0 DEF TxnRec
  <2> QED  BY <1>7, <2>1, ConcatEmptySeq, Zenon
<1>9. /\ Shape(versions', Ended, d) /\ ShownParams(versions', Ended) = ShownParams(versions, Ended)
      /\ LogGood(versions', Ended, d, W)
      /\ Xids(versions') = Xids(versions)
      /\ out.ok \in BOOLEAN /\ out.moved \in BOOLEAN /\ out.value \in Option(Ints) /\ out.advanced \in BOOLEAN
    BY <1>1, <1>7, <1>8 DEF Done
<1>10. advanced' \in BOOLEAN
    BY <1>0, <1>1, <1>9 DEF Types
<1>11. HistoryGood(issued', next_xid) /\ next_xid \in Nat
  <2>1. t.xid < next_xid /\ t.xid \in Nat
    <3>1. ~InTxn(s) => t.xid = 0
        BY DEF InTxn
    <3> QED  BY <1>0, <3>1, EndedIs
  <2>2. HistoryGood(issued, next_xid) /\ next_xid \in Nat
      BY <1>0, EndedIs DEF Types
  <2> DEFINE c == TRUE
             x == t.xid
  <2>3. Issue(out, x, c) /\ c \in BOOLEAN /\ x \in Nat /\ x < next_xid
      BY <1>3, <2>1
  <2> HIDE DEF x, c
  <2> QED  BY <1>9, <2>2, <2>3, IssueGood
<1>12. CASE InTxn(s)
  <2> DEFINE snap == IF t.level = "RR" THEN Sees(s) ELSE t.snap
             t1 == [t EXCEPT !.snap = snap, !.failed = ~out.ok]
  <2>1. txn' = [txn EXCEPT ![s] = t1] /\ next_xid' = next_xid /\ d = t.xid
      BY <1>2, <1>12 DEF Own
  <2>2. snap \in {t.snap, Fresh} /\ snap \in Snapshot
      BY <1>0, <1>12, FreshIs DEF TxnRec, Sees
  <2> HIDE DEF snap
  <2>3. t1 \in TxnRec /\ t1.xid = t.xid /\ t1.writes = W /\ t1.snap = snap /\ t1.saves = t.saves
      BY <1>0, <1>9, <2>2 DEF TxnRec
  <2> HIDE DEF t1
  <2>4. SavesGood(t1)
      BY <1>0, <2>3 DEF SavesGood
  <2>5. Types'
      BY <1>0, <1>1, <1>10, <1>11, <1>12, <2>1, <2>3, <2>4, TypesOn DEF t
  <2>6. txn'[s] = t1 /\ \A o \in Sessions \ {s} : txn'[o] = txn[o]
      BY <1>0, <2>1
  <2>7. Held(s)' => Held(s)
      BY <2>3, <2>6 DEF Held
  <2> QED
      BY <1>1, <1>4, <1>9, <1>12, <2>1, <2>2, <2>3, <2>5, <2>6, <2>7, SessionStep DEF t
<1>13. CASE ~InTxn(s)
  <2>1. d = next_xid /\ next_xid' = next_xid + 1 /\ next_xid < MaxXid /\ t = NoTxn
      BY <1>0, <1>1, <1>2, <1>13 DEF Own
  <2>2. txn' = txn
    <3>1. t = [t EXCEPT !.snap = t.snap, !.failed = FALSE]
        BY <1>0, <1>1 DEF TxnRec
    <3>2. txn' = [txn EXCEPT ![s] = [t EXCEPT !.snap = t.snap, !.failed = FALSE]]
        BY <1>2, <1>13
    <3> QED  BY <1>0, <3>1, <3>2
  <2>3. HistoryGood(issued', next_xid + 1)
    <3>1. next_xid + 1 \in Nat /\ next_xid <= next_xid + 1
        BY <1>11
    <3> QED  BY <1>11, <3>1, HistoryGrow
  <2>4. Types' /\ Ended' = Ended \cup {next_xid}
      BY <1>0, <1>1, <1>10, <2>1, <2>2, <2>3, TypesNext
  <2>5. ~Held(s) /\ NoDdl(W)
      BY <2>1, NoTxnIs, HeldIs DEF NoDdl
  <2>6. Untouched(versions', d)
      BY <1>5, <1>9, <2>5, LiveLog
  <2>7. Shape(versions', Ended, 0)
      BY <1>5, <1>9, <2>6, ShapeClosed
  <2>8. d \notin Ended \cup {0, 0} /\ d \notin Ended \cup {0}
      BY <1>5 DEF Apt
  <2>9. Shape(versions', Ended', 0) /\ ShownParams(versions', Ended') = ShownParams(versions, Ended)
    <3>1. /\ Shape(versions', Ended \cup {d}, 0)
          /\ ShownParams(versions', Ended \cup {d}) = ShownParams(versions', Ended)
        BY <2>7, <2>8, GrowShape
    <3> QED  BY <1>9, <2>1, <2>4, <3>1
  <2>10. FilesGood' /\ Recovered' = Recovered /\ Logged' = Logged /\ Replayable' = Replayable
    <3>1. next_xid' \in Nat /\ next_xid' >= next_xid
        BY <1>11, <2>1
    <3> QED  BY <1>1, <3>1, FilesKept
  <2>11. ASSUME Replayable' PROVE Rebuilt(Recovered, versions, Ended, Logged)'
    <3>1. Rebuilt(Recovered, versions, Ended, Logged)
        BY <2>10, <2>11 DEF SInv
    <3>2. Shape(versions, Ended, 0)
        BY <1>6, <2>5
    <3>3. Ended' = Ended \cup {d}
        BY <2>1, <2>4
    <3>4. Rebuilt(Recovered, versions', Ended', Logged)
      <4> DEFINE D == Ended \cup {d}
                 z == 0
      <4>1. d \notin Ended \cup {0, z}
          BY <2>8
      <4>2. ShownParams(versions', D) = ShownParams(versions, D)
        <5>1. ShownParams(versions, D) = ShownParams(versions, Ended)
            BY <2>8, <3>2, GrowShape
        <5> QED  BY <2>9, <3>3, <5>1
      <4>3. Shape(versions, Ended, z)
          BY <3>2
      <4>4. \E x : x \notin Ended \cup {0, z} /\ D = Ended \cup {x}
          BY <4>1
      <4> HIDE DEF z, d, D
      <4>5. Rebuilt(Recovered, versions', D, Logged)
          BY <3>1, <4>2, <4>3, <4>4, GrowRebuilt
      <4> QED  BY <3>3, <4>5 DEF D
    <3> QED  BY <2>10, <3>4
  <2>12. Untouched(versions, d)
      BY <1>6, <2>5
  <2> QED  BY <1>4, <1>9, <2>1, <2>2, <2>4, <2>9, <2>10, <2>11, <2>12, EndStep
<1> QED  BY <1>12, <1>13


-----------------------------------------------------------------------------
(* What a commit logs, and what replaying it makes.                         *)

LEMMA HasPrev ==
    ASSUME NEW W, Len(W) \in Nat, NEW n \in 1 .. Len(W), Ddl(W[n]), ~IsFirst(W, n)
    PROVE  \E i \in 1 .. n - 1 : i \in 1 .. Len(W) /\ Follows(W, i, n)
<1> DEFINE I == {h \in 1 .. n - 1 : Ddl(W[h])}
<1>1. I \subseteq 1 .. n - 1 /\ I # {} /\ n - 1 \in Nat
    BY DEF IsFirst
<1>2. PICK b \in I : \A y \in I : y <= b
    BY <1>1, LastOf
<1>3. b \in 1 .. n - 1 /\ Ddl(W[b])
    BY <1>2
<1>4. \A h \in b + 1 .. n - 1 : h \in 1 .. n - 1 /\ ~(h <= b)
    BY <1>3
<1>5. \A h \in b + 1 .. n - 1 : ~Ddl(W[h])
    BY <1>2, <1>4
<1>6. b < n /\ b \in 1 .. Len(W)
    BY <1>3
<1> QED  BY <1>3, <1>5, <1>6 DEF Follows

LEMMA HasNext ==
    ASSUME NEW W, Len(W) \in Nat, NEW n \in 1 .. Len(W), Ddl(W[n]), ~IsLast(W, Len(W), n)
    PROVE  \E j \in n + 1 .. Len(W) : j \in 1 .. Len(W) /\ Follows(W, n, j)
<1> DEFINE I == {h \in n + 1 .. Len(W) : Ddl(W[h])}
<1>1. I \subseteq Nat /\ I # {}
    BY DEF IsLast
<1>2. PICK b \in I : \A y \in I : b <= y
    BY <1>1, Least
<1>3. b \in n + 1 .. Len(W) /\ Ddl(W[b])
    BY <1>2
<1>4. \A h \in n + 1 .. b - 1 : h \in n + 1 .. Len(W) /\ ~(b <= h)
    BY <1>3
<1>5. \A h \in n + 1 .. b - 1 : ~Ddl(W[h])
    BY <1>2, <1>4
<1>6. n < b /\ b \in 1 .. Len(W)
    BY <1>3
<1> QED  BY <1>3, <1>5, <1>6 DEF Follows

\* There is a version of d once it has created or altered the sequence.
LEMMA OwnMade ==
    ASSUME NEW vs, NEW C, NEW d, Apt(C, d), NEW W, LogGood(vs, C, d, W),
           NEW n \in DOMAIN W, W[n].op \in {"create", "alter"}
    PROVE  \E k \in DOMAIN vs : vs[k].created_xmin = d
<1>1. LogShape(C, d, W) /\ After(vs, C, d, W, Len(W))
    BY DEF LogGood
<1>2. Len(W) \in Nat /\ DOMAIN W = 1 .. Len(W) /\ Ddl(W[n])
    BY <1>1, LogLen DEF Ddl, DDL
<1>3. PICK j \in 1 .. Len(W) : IsLast(W, Len(W), j)
    BY <1>2, HasFirst
<1>4. LastDone(vs, C, d, W[j]) /\ Ddl(W[j])
    BY <1>1, <1>3 DEF After, IsLast
<1>5. CASE W[j].op # "drop"
    BY <1>4, <1>5 DEF LastDone
<1>6. CASE W[j].op = "drop"
  <2>1. W[j].prev # None /\ W[j].prev[1].created_xmin \in C \cup {d} /\ (IsFirst(W, j) <=> W[j].prev[1].created_xmin \in C)
      BY <1>1, <1>2, <1>4, <1>6 DEF LogShape
  <2>2. ~IsFirst(W, j)
    <3>1. SUFFICES ASSUME IsFirst(W, j) PROVE FALSE
        OBVIOUS
    <3>2. n # j
        BY <1>6
    <3>3. n \in 1 .. j - 1 \/ n \in j + 1 .. Len(W)
        BY <1>2, <3>2
    <3> QED  BY <1>2, <1>3, <3>1, <3>3 DEF IsFirst, IsLast
  <2>3. W[j].prev[1].created_xmin = d
      BY <2>1, <2>2
  <2> QED  BY <1>4, <1>6, <2>3 DEF LastDone
<1> QED  BY <1>5, <1>6

\* The write logs that commit and whose records replay right: they create the
\* sequence that was not there, drop the one that was, or do neither.
Simple(vs, C, d, W) ==
    \A n \in DOMAIN W :
        /\ W[n].op # "alter"
        /\ W[n].op = "create" => /\ IsFirst(W, n)
                                 /\ \A k \in DOMAIN vs : ~IsShown(vs[k], C)
                                 /\ \E k \in DOMAIN vs : vs[k].created_xmin = d
        /\ W[n].op = "drop" => /\ IsLast(W, Len(W), n)
                               /\ \A k \in DOMAIN vs : ~Live(vs[k])
                               /\ \E k \in DOMAIN vs : vs[k].dropped_xmax = d

OwnOne(vs, d) == \A i, j \in DOMAIN vs : vs[i].created_xmin = d /\ vs[j].created_xmin = d => i = j

LEMMA SimpleLog ==
    ASSUME NEW vs, NEW C, NEW d, Apt(C, d), NEW W, LogGood(vs, C, d, W),
           \A n \in DOMAIN W : W[n].op # "alter",
           (\E n \in DOMAIN W : W[n].op = "create") /\ (\E k \in DOMAIN vs : vs[k].created_xmin = d) =>
                \A k \in DOMAIN vs : ~IsShown(vs[k], C)
    PROVE  Simple(vs, C, d, W)
<1>1. LogShape(C, d, W) /\ After(vs, C, d, W, Len(W))
    BY DEF LogGood
<1>2. Len(W) \in Nat /\ DOMAIN W = 1 .. Len(W)
    BY <1>1, LogLen
<1>3. ASSUME NEW n \in DOMAIN W, W[n].op = "create"
      PROVE  /\ IsFirst(W, n)
             /\ \A k \in DOMAIN vs : ~IsShown(vs[k], C)
             /\ \E k \in DOMAIN vs : vs[k].created_xmin = d
  <2>1. (\E k \in DOMAIN vs : vs[k].created_xmin = d) /\ \A k \in DOMAIN vs : ~IsShown(vs[k], C)
      BY <1>3, OwnMade
  <2>2. Ddl(W[n])
      BY <1>3 DEF Ddl, DDL
  <2>3. IsFirst(W, n)
    <3>1. SUFFICES ASSUME ~IsFirst(W, n) PROVE FALSE
        OBVIOUS
    <3>2. PICK i \in 1 .. n - 1 : i \in 1 .. Len(W) /\ Follows(W, i, n)
        BY <1>2, <2>2, <3>1, HasPrev
    <3>3. W[i].op = "drop" /\ W[i].prev[1].created_xmin \in C /\ Ddl(W[i])
        BY <1>1, <1>2, <1>3, <3>2 DEF LogShape, Follows
    <3>4. IsFirst(W, i) /\ W[i].prev # None /\ W[i].prev[1] \in Version
        BY <1>1, <1>2, <3>2, <3>3 DEF LogShape, Sound
    <3>5. PICK b \in DOMAIN vs : vs[b] = [W[i].prev[1] EXCEPT !.dropped_xmax = d]
        BY <1>1, <3>2, <3>4 DEF After, FirstDone
    <3>6. IsShown(vs[b], C)
        BY <3>3, <3>4, <3>5 DEF IsShown, Version, Apt
    <3> QED  BY <2>1, <3>6
  <2> QED  BY <2>1, <2>3
<1>4. ASSUME NEW n \in DOMAIN W, W[n].op = "drop"
      PROVE  /\ IsLast(W, Len(W), n)
             /\ \A k \in DOMAIN vs : ~Live(vs[k])
             /\ \E k \in DOMAIN vs : vs[k].dropped_xmax = d
  <2>1. Ddl(W[n])
      BY <1>4 DEF Ddl, DDL
  <2>2. IsLast(W, Len(W), n)
    <3>1. SUFFICES ASSUME ~IsLast(W, Len(W), n) PROVE FALSE
        OBVIOUS
    <3>2. PICK j \in n + 1 .. Len(W) : j \in 1 .. Len(W) /\ Follows(W, n, j)
        BY <1>2, <2>1, <3>1, HasNext
    <3>3. W[j].op = "create"
        BY <1>1, <1>2, <1>4, <3>2 DEF LogShape
    <3>4. IsFirst(W, j) /\ n \in 1 .. j - 1
        BY <1>2, <1>3, <3>2, <3>3
    <3> QED  BY <2>1, <3>4 DEF IsFirst
  <2>3. LastDone(vs, C, d, W[n])
      BY <1>1, <1>2, <2>2 DEF After
  <2> QED  BY <1>4, <2>2, <2>3 DEF LastDone
<1> QED  BY <1>3, <1>4 DEF Simple


\* The record r of the op w, or none.
Logs(vs, d, w, r) ==
    /\ r \in RecordRec /\ r.kind = w.op /\ r.xid = (IF w.op = "advance" THEN 0 ELSE d)
    /\ w.op # "drop" => \E k \in DOMAIN vs : r.seq = vs[k] /\ (IF w.op = "advance" THEN Live(vs[k]) /\ vs[k].current # None
                                                               ELSE vs[k].created_xmin = d)
LogsNone(vs, d, w) ==
    /\ w.op \in {"create", "alter"} => \A k \in DOMAIN vs : vs[k].created_xmin # d
    /\ w.op = "drop" => \A k \in DOMAIN vs : vs[k].dropped_xmax # d
    /\ w.op = "advance" => (\A k \in DOMAIN vs : ~Live(vs[k])) \/ \E k \in DOMAIN vs : Live(vs[k]) /\ vs[k].current = None

LEMMA RecordIs ==
    ASSUME NEW vs \in Seq(Version), NEW d \in Nat, NEW w \in OpRec
    PROVE  LET rs == RecordOf(vs, d, w) IN
           \/ rs = <<>> /\ LogsNone(vs, d, w)
           \/ \E r : rs = <<r>> /\ Logs(vs, d, w, r)
<1> DEFINE rs == RecordOf(vs, d, w)
           a == CreatedBy(vs, d)
           b == DroppedBy(vs, d)
           c == LastCreatedBy(vs, d)
           e == DroppedBy(vs, 0)
<1>1. Len(vs) \in Nat /\ DOMAIN vs = 1 .. Len(vs) /\ \A k \in DOMAIN vs : vs[k] \in Version
    BY VersionLen
<1>2. w.op \in {"create", "alter", "drop", "advance"}
    BY DEF OpRec, DDL
<1>3. w.op = "create" => rs = IF a # 0 THEN <<Record("create", vs[a], d)>> ELSE <<>>
    BY DEF RecordOf, CreatedBy
<1>4. w.op = "drop" => rs = IF b # 0 THEN <<Record("drop", vs[1], d)>> ELSE <<>>
    BY DEF RecordOf, DroppedBy
<1>5. w.op = "alter" => rs = IF c # 0 THEN <<Record("alter", vs[c], d)>> ELSE <<>>
    BY DEF RecordOf, LastCreatedBy
<1>6. w.op = "advance" => rs = IF e # 0 /\ vs[e].current # None THEN <<Record("advance", vs[e], 0)>> ELSE <<>>
    BY DEF RecordOf, DroppedBy
<1>7. /\ (a = 0 /\ \A k \in DOMAIN vs : vs[k].created_xmin # d) \/ (a \in DOMAIN vs /\ vs[a].created_xmin = d)
      /\ (b = 0 /\ \A k \in DOMAIN vs : vs[k].dropped_xmax # d) \/ b \in DOMAIN vs
      /\ (c = 0 /\ \A k \in DOMAIN vs : vs[k].created_xmin # d) \/ (c \in DOMAIN vs /\ vs[c].created_xmin = d)
      /\ (e = 0 /\ \A k \in DOMAIN vs : ~Live(vs[k])) \/ (e \in DOMAIN vs /\ Live(vs[e]))
  <2>1. (a = 0 /\ \A k \in DOMAIN vs : vs[k].created_xmin # d) \/ (a \in DOMAIN vs /\ vs[a].created_xmin = d)
      BY <1>1, FindCreated
  <2>2. (b = 0 /\ \A k \in DOMAIN vs : vs[k].dropped_xmax # d) \/ b \in DOMAIN vs
      BY <1>1, FindDropped
  <2>3. (c = 0 /\ \A k \in DOMAIN vs : vs[k].created_xmin # d) \/ (c \in DOMAIN vs /\ vs[c].created_xmin = d)
      BY <1>1, FindLastCreated
  <2>4. (e = 0 /\ \A k \in DOMAIN vs : ~Live(vs[k])) \/ (e \in DOMAIN vs /\ Live(vs[e]))
      BY <1>1, FindDropped DEF Live
  <2> QED  BY <2>1, <2>2, <2>3, <2>4
<1> HIDE DEF rs, a, b, c, e
<1>8. \A kind \in {"create", "alter", "drop", "advance"}, k \in DOMAIN vs, x \in Nat :
        /\ Record(kind, vs[k], x) \in RecordRec
        /\ Record(kind, vs[k], x).kind = kind /\ Record(kind, vs[k], x).seq = vs[k]
        /\ Record(kind, vs[k], x).xid = x
    BY <1>1 DEF Record, RecordRec, DDL
<1>10. 0 \notin DOMAIN vs /\ (\A k \in DOMAIN vs : 1 \in DOMAIN vs)
    BY <1>1
<1>11. CASE w.op = "create"
  <2>1. CASE a = 0
      BY <1>3, <1>7, <1>10, <1>11, <2>1 DEF LogsNone, rs
  <2>2. CASE a # 0
    <3>1. Logs(vs, d, w, Record("create", vs[a], d))
      <4>1. a \in DOMAIN vs /\ vs[a].created_xmin = d
          BY <1>7, <2>2
      <4> DEFINE r == Record("create", vs[a], d)
      <4>2. r \in RecordRec /\ r.kind = "create" /\ r.seq = vs[a] /\ r.xid = d
          BY <1>8, <4>1
      <4> HIDE DEF r
      <4>3. Logs(vs, d, w, r)
          BY <1>11, <4>1, <4>2 DEF Logs
      <4> QED  BY <4>3 DEF r
    <3>2. rs = <<Record("create", vs[a], d)>>
        BY <1>3, <1>11, <2>2
    <3> QED  BY <3>1, <3>2 DEF rs
  <2> QED  BY <2>1, <2>2
<1>12. CASE w.op = "drop"
  <2>1. CASE b = 0
      BY <1>4, <1>7, <1>10, <1>12, <2>1 DEF LogsNone, rs
  <2>2. CASE b # 0
    <3>1. Logs(vs, d, w, Record("drop", vs[1], d))
        BY <1>7, <1>8, <1>10, <1>12, <2>2 DEF Logs
    <3>2. rs = <<Record("drop", vs[1], d)>>
        BY <1>4, <1>12, <2>2
    <3> QED  BY <3>1, <3>2 DEF rs
  <2> QED  BY <2>1, <2>2
<1>13. CASE w.op = "alter"
  <2>1. CASE c = 0
      BY <1>5, <1>7, <1>10, <1>13, <2>1 DEF LogsNone, rs
  <2>2. CASE c # 0
    <3>1. Logs(vs, d, w, Record("alter", vs[c], d))
      <4>1. c \in DOMAIN vs /\ vs[c].created_xmin = d
          BY <1>7, <2>2
      <4> DEFINE r == Record("alter", vs[c], d)
      <4>2. r \in RecordRec /\ r.kind = "alter" /\ r.seq = vs[c] /\ r.xid = d
          BY <1>8, <4>1
      <4> HIDE DEF r
      <4>3. Logs(vs, d, w, r)
          BY <1>13, <4>1, <4>2 DEF Logs
      <4> QED  BY <4>3 DEF r
    <3>2. rs = <<Record("alter", vs[c], d)>>
        BY <1>5, <1>13, <2>2
    <3> QED  BY <3>1, <3>2 DEF rs
  <2> QED  BY <2>1, <2>2
<1>14. CASE w.op = "advance"
  <2>1. CASE e = 0 \/ vs[e].current = None
      BY <1>6, <1>7, <1>10, <1>14, <2>1 DEF LogsNone, rs
  <2>2. CASE e # 0 /\ vs[e].current # None
    <3>1. Logs(vs, d, w, Record("advance", vs[e], 0))
        BY <1>7, <1>8, <1>14, <2>2 DEF Logs
    <3>2. rs = <<Record("advance", vs[e], 0)>>
        BY <1>6, <1>14, <2>2
    <3> QED  BY <3>1, <3>2 DEF rs
  <2> QED  BY <2>1, <2>2
<1> QED  BY <1>2, <1>11, <1>12, <1>13, <1>14

\* The records of a write log are those of its ops.
LEMMA RecordsAre ==
    ASSUME NEW vs \in Seq(Version), NEW d \in Nat, NEW W \in Seq(OpRec)
    PROVE  LET rs == records_for_commit(vs, d, W) IN
           /\ rs \in Seq(RecordRec)
           /\ \A l \in DOMAIN rs : \E n \in DOMAIN W : Logs(vs, d, W[n], rs[l])
           /\ \A n \in DOMAIN W : LogsNone(vs, d, W[n]) \/ \E l \in DOMAIN rs : Logs(vs, d, W[n], rs[l])
<1> DEFINE N == Len(W)
<1>1. N \in Nat /\ DOMAIN W = 1 .. N /\ \A n \in 1 .. N : W[n] \in OpRec
    BY LenProperties
<1>2. PICK u : RecordRun(vs, d, W, u)
  <2>1. Len(W) \in Nat
      BY <1>1
  <2> QED  BY <2>1, RecordsExist
<1> DEFINE P(n) == /\ u[n] \in Seq(RecordRec)
                   /\ \A l \in DOMAIN u[n] : \E j \in 1 .. n : Logs(vs, d, W[j], u[n][l])
                   /\ \A j \in 1 .. n : LogsNone(vs, d, W[j]) \/ \E l \in DOMAIN u[n] : Logs(vs, d, W[j], u[n][l])
           Bad == {n \in 0 .. N : ~P(n)}
<1>3. P(0)
  <2>1. <<>> \in Seq(RecordRec) /\ DOMAIN <<>> = {} /\ 1 .. 0 = {}
      BY EmptySeq
  <2> QED  BY <1>2, <2>1 DEF RecordRun
<1>4. ASSUME NEW n \in 1 .. N, P(n - 1) PROVE P(n)
  <2> DEFINE r == RecordOf(vs, d, W[n])
             v == u[n - 1]
  <2>1. u[n] = v \o r /\ v \in Seq(RecordRec)
      BY <1>2, <1>4 DEF RecordRun
  <2>2. \/ r = <<>> /\ LogsNone(vs, d, W[n])
        \/ \E x : r = <<x>> /\ Logs(vs, d, W[n], x)
      BY <1>1, RecordIs
  <2>3. /\ n \in 1 .. n /\ \A j \in 1 .. n - 1 : j \in 1 .. n
        /\ \A j \in 1 .. n : j = n \/ j \in 1 .. n - 1
      BY <1>1
  <2>4. CASE r = <<>> /\ LogsNone(vs, d, W[n])
    <3>1. u[n] = v
        BY <2>1, <2>4, ConcatEmptySeq, Zenon
    <3> QED  BY <1>4, <2>3, <2>4, <3>1
  <2>5. ASSUME NEW x, r = <<x>>, Logs(vs, d, W[n], x) PROVE P(n)
    <3>1. x \in RecordRec
        BY <2>5 DEF Logs
    <3>2. r \in Seq(RecordRec) /\ DOMAIN r = {1} /\ r[1] = x
        BY <2>5, <3>1
    <3> HIDE DEF r, v
    <3>3. /\ v \o r \in Seq(RecordRec) /\ Len(v) \in Nat /\ DOMAIN v = 1 .. Len(v)
          /\ Len(v \o r) = Len(v) + Len(r) /\ DOMAIN (v \o r) = 1 .. Len(v) + Len(r)
          /\ DOMAIN r = 1 .. Len(r) /\ Len(r) \in Nat
          /\ \A l \in DOMAIN v : (v \o r)[l] = v[l]
          /\ \A l \in DOMAIN r : (v \o r)[Len(v) + l] = r[l]
      <4>1. v \in Seq(RecordRec) /\ r \in Seq(RecordRec)
          BY <2>1, <3>2
      <4> QED  BY <4>1, Concat
    <3>4. Len(r) = 1
        BY <3>2, <3>3
    <3>5. /\ \A l \in DOMAIN u[n] : l \in DOMAIN v \/ l = Len(v) + 1
          /\ \A l \in DOMAIN v : l \in DOMAIN u[n]
          /\ Len(v) + 1 \in DOMAIN u[n] /\ u[n][Len(v) + 1] = x
        BY <2>1, <3>2, <3>3, <3>4
    <3>6. /\ \A l \in DOMAIN v : \E j \in 1 .. n - 1 : Logs(vs, d, W[j], v[l])
          /\ \A j \in 1 .. n - 1 : LogsNone(vs, d, W[j]) \/ \E l \in DOMAIN v : Logs(vs, d, W[j], v[l])
        BY <1>4 DEF v
    <3>7. ASSUME NEW l \in DOMAIN u[n] PROVE \E j \in 1 .. n : Logs(vs, d, W[j], u[n][l])
      <4>1. CASE l \in DOMAIN v
        <5>1. u[n][l] = v[l]
            BY <2>1, <3>3, <4>1
        <5> QED  BY <2>3, <3>6, <4>1, <5>1
      <4>2. CASE l = Len(v) + 1
          BY <2>3, <2>5, <3>5, <4>2
      <4> QED  BY <3>5, <4>1, <4>2
    <3>8. \A j \in 1 .. n : LogsNone(vs, d, W[j]) \/ \E l \in DOMAIN u[n] : Logs(vs, d, W[j], u[n][l])
        BY <2>1, <2>3, <2>5, <3>3, <3>5, <3>6, SMTT(30)
    <3>9. u[n] \in Seq(RecordRec)
        BY <2>1, <3>3
    <3> QED  BY <3>7, <3>8, <3>9
  <2> QED  BY <2>2, <2>4, <2>5
<1>5. Bad = {}
  <2> SUFFICES ASSUME Bad # {} PROVE FALSE
      OBVIOUS
  <2> HIDE DEF P
  <2>1. PICK m \in Bad : \A y \in Bad : m <= y
    <3>1. Bad \subseteq Nat
        BY <1>1
    <3> HIDE DEF Bad
    <3> QED  BY <3>1, Least
  <2>2. m # 0
      BY <1>3, <2>1
  <2>3. m \in 1 .. N /\ m - 1 \in 0 .. N /\ ~(m <= m - 1)
      BY <1>1, <2>1, <2>2
  <2>4. P(m - 1)
      BY <2>1, <2>3
  <2> QED  BY <1>4, <2>1, <2>3, <2>4
<1>6. P(N)
  <2> HIDE DEF P
  <2>1. N \in 0 .. N
      BY <1>1
  <2> QED  BY <1>5, <2>1
<1> QED  BY <1>1, <1>2, <1>6 DEF RecordRun


LEMMA ReplayNone ==
    ASSUME NEW X
    PROVE  Replayed(X, <<>>) = X
<1>1. Len(<<>>) = 0 /\ Len(<<>>) \in Nat
    OBVIOUS
<1> DEFINE rs == <<>>
<1>2. PICK u : u[0] = X /\ Replayed(X, rs) = u[Len(rs)]
  <2>1. Len(rs) \in Nat
      BY <1>1
  <2> HIDE DEF rs
  <2>2. PICK u : ReplayRun(X, rs, u)
      BY <2>1, ReplayExists
  <2> QED  BY <2>2 DEF ReplayRun
<1> QED  BY <1>1, <1>2

LEMMA ReplayOne ==
    ASSUME NEW X, NEW r
    PROVE  Replayed(X, <<r>>) = apply_record(X, r)
<1> DEFINE rs == <<r>>
<1>1. Len(rs) = 1 /\ Len(rs) \in Nat /\ rs[1] = r
    OBVIOUS
<1> HIDE DEF rs
<1>2. PICK u : /\ u[0] = X
               /\ \A n \in 1 .. Len(rs) : u[n] = apply_record(u[n - 1], rs[n])
               /\ Replayed(X, rs) = u[Len(rs)]
  <2>1. PICK u : ReplayRun(X, rs, u)
      BY <1>1, ReplayExists
  <2> QED  BY <2>1 DEF ReplayRun
<1>3. 1 \in 1 .. Len(rs) /\ 1 - 1 = 0
    BY <1>1
<1>4. u[1] = apply_record(X, r)
    BY <1>1, <1>2, <1>3
<1> QED  BY <1>1, <1>2, <1>4 DEF rs

LEMMA ApplyIs ==
    ASSUME NEW X, Len(X) \in Nat, DOMAIN X = 1 .. Len(X), NEW r
    PROVE  LET Y == apply_record(X, r) IN
           /\ r.kind = "create" => Y = Append(X, [r.seq EXCEPT !.created_xmin = r.xid, !.dropped_xmax = 0])
           /\ r.kind = "drop" =>
                \/ Y = X /\ \A i \in DOMAIN X : ~Live(X[i])
                \/ \E i \in DOMAIN X : Live(X[i]) /\ Y = [X EXCEPT ![i].dropped_xmax = r.xid]
           /\ r.kind = "advance" =>
                \/ Y = X /\ \A i \in DOMAIN X : ~Live(X[i])
                \/ \E i \in DOMAIN X : /\ Live(X[i])
                                       /\ Y = [X EXCEPT ![i].current = r.seq.current, ![i].is_called = r.seq.is_called]
<1> DEFINE e == DroppedBy(X, 0)
           Y == apply_record(X, r)
<1>1. (e = 0 /\ \A k \in DOMAIN X : ~Live(X[k])) \/ (e \in DOMAIN X /\ Live(X[e]))
    BY FindDropped DEF Live
<1>2. r.kind = "create" => Y = Append(X, [r.seq EXCEPT !.created_xmin = r.xid, !.dropped_xmax = 0])
    BY DEF apply_record
<1>3. r.kind = "drop" => Y = IF e # 0 THEN [X EXCEPT ![e].dropped_xmax = r.xid] ELSE X
    BY DEF apply_record, DroppedBy
<1>4. r.kind = "advance" => Y = IF e # 0 THEN [X EXCEPT ![e].current = r.seq.current, ![e].is_called = r.seq.is_called] ELSE X
    BY DEF apply_record, DroppedBy
<1> HIDE DEF e, Y
<1>5. e = 0 <=> e \notin DOMAIN X
    BY <1>1
<1>6. r.kind = "drop" =>
        \/ Y = X /\ \A i \in DOMAIN X : ~Live(X[i])
        \/ \E i \in DOMAIN X : Live(X[i]) /\ Y = [X EXCEPT ![i].dropped_xmax = r.xid]
    BY <1>1, <1>3, <1>5
<1>7. r.kind = "advance" =>
        \/ Y = X /\ \A i \in DOMAIN X : ~Live(X[i])
        \/ \E i \in DOMAIN X : /\ Live(X[i])
                               /\ Y = [X EXCEPT ![i].current = r.seq.current, ![i].is_called = r.seq.is_called]
    BY <1>1, <1>4, <1>5
<1> QED  BY <1>2, <1>6, <1>7 DEF Y

DropsLive(X, Y, d) ==
    \/ Y = X /\ \A i \in DOMAIN X : ~Live(X[i])
    \/ \E i \in DOMAIN X : Live(X[i]) /\ Y = [X EXCEPT ![i].dropped_xmax = d]

LEMMA ApplyDrop ==
    ASSUME NEW X, Len(X) \in Nat, DOMAIN X = 1 .. Len(X), NEW r, r.kind = "drop", NEW d, r.xid = d
    PROVE  DropsLive(X, apply_record(X, r), d)
<1> DEFINE e == DroppedBy(X, 0)
           Y == apply_record(X, r)
<1>1. (e = 0 /\ \A k \in DOMAIN X : ~Live(X[k])) \/ (e \in DOMAIN X /\ Live(X[e]))
    BY FindDropped DEF Live
<1>2. Y = IF e # 0 THEN [X EXCEPT ![e].dropped_xmax = d] ELSE X
    BY DEF apply_record, DroppedBy
<1> HIDE DEF e, Y
<1>3. e = 0 <=> e \notin DOMAIN X
    BY <1>1
<1> QED  BY <1>1, <1>2, <1>3 DEF Y, DropsLive

SamePos(a, b) == a.current = b.current /\ a.is_called = b.is_called /\ a.increment = b.increment

\* No advance of the live version would be logged.
Still(vs) == (\A k \in DOMAIN vs : ~Live(vs[k])) \/ \E k \in DOMAIN vs : Live(vs[k]) /\ vs[k].current = None

Carried(R, vs, d, W, X, n) ==
    \A i \in DOMAIN X : Live(X[i]) =>
        \/ \E k \in DOMAIN vs : (Live(vs[k]) \/ vs[k].created_xmin = d) /\ SamePos(X[i], vs[k])
        \/ /\ (\A j \in 1 .. n : W[j].op # "advance") \/ Still(vs)
           /\ \E j \in DOMAIN R : Live(R[j]) /\ SamePos(X[i], R[j])

OwnParams(vs, d) == {Params(vs[k]) : k \in {i \in DOMAIN vs : vs[i].created_xmin = d}}

\* X is R with the records of the first n ops replayed.
Committed(R, vs, C, d, L, W, X, n) ==
    /\ Shape(X, C \cup {d}, 0)
    /\ Xids(X) \subseteq L \cup {0, d}
    /\ (\A j \in 1 .. n : ~Ddl(W[j])) => Untouched(X, d) /\ LiveParams(X) = LiveParams(R)
    /\ \A j \in 1 .. n : W[j].op = "create" /\ IsLast(W, n, j) => LiveParams(X) = OwnParams(vs, d)
    /\ \A j \in 1 .. n : W[j].op = "drop" /\ IsLast(W, n, j) => LiveParams(X) = {}
    /\ Carried(R, vs, d, W, X, n)

\* The start of the replay: R, the versions at the commit and their write log.
AtCommit(R, vs, C, d, L, W) ==
    /\ Apt(C, d) /\ d # 0
    /\ Shape(vs, C, d) /\ LogGood(vs, C, d, W) /\ OwnOne(vs, d) /\ Simple(vs, C, d, W)
    /\ Rebuilt(R, vs, C, L)

LEMMA LastUpTo ==
    ASSUME NEW W, NEW n \in Nat, NEW k \in 1 .. n, Ddl(W[k])
    PROVE  \E j \in 1 .. n : IsLast(W, n, j)
<1> DEFINE I == {j \in 1 .. n : Ddl(W[j])}
<1>1. I \subseteq 1 .. n /\ I # {}
    OBVIOUS
<1>2. PICK b \in I : \A y \in I : y <= b
    BY <1>1, LastOf
<1>3. b \in 1 .. n /\ Ddl(W[b])
    BY <1>2
<1>4. \A h \in b + 1 .. n : h \in 1 .. n /\ ~(h <= b)
    BY <1>3
<1>5. \A h \in b + 1 .. n : ~Ddl(W[h])
    BY <1>2, <1>4
<1> QED  BY <1>3, <1>5 DEF IsLast

\* The live version that replay has made so far and the one at the commit.
LEMMA LiveAgree ==
    ASSUME NEW R, NEW vs, NEW C, NEW d, NEW L, NEW W, AtCommit(R, vs, C, d, L, W),
           NEW X, NEW n \in 0 .. Len(W), Committed(R, vs, C, d, L, W, X, n),
           NEW i \in DOMAIN X, Live(X[i]), NEW k \in DOMAIN vs, Live(vs[k])
    PROVE  Params(X[i]) = Params(vs[k])
<1>1. /\ Apt(C, d) /\ d # 0 /\ Shape(vs, C, d) /\ LogGood(vs, C, d, W) /\ OwnOne(vs, d)
      /\ Simple(vs, C, d, W) /\ Rebuilt(R, vs, C, L)
    BY DEF AtCommit
<1>2. W \in Seq(OpRec) /\ Len(W) \in Nat /\ DOMAIN W = 1 .. Len(W) /\ \A j \in DOMAIN W : W[j] \in OpRec
    BY <1>1, LogLen DEF LogGood
<1>3. 1 .. n \subseteq DOMAIN W /\ n \in Nat
    BY <1>2
<1>4. NoDdl(W) <=> vs[k].created_xmin \in C
    BY <1>1, LiveLog
<1>5. Params(X[i]) \in LiveParams(X)
    BY DEF LiveParams
<1>6. CASE \A j \in 1 .. n : ~Ddl(W[j])
  <2>1. LiveParams(X) = ShownParams(vs, C)
      BY <1>1, <1>6 DEF Committed, Rebuilt
  <2>2. PICK m \in DOMAIN vs : IsShown(vs[m], C) /\ Params(vs[m]) = Params(X[i])
      BY <1>5, <2>1 DEF ShownParams
  <2>3. NoDdl(W)
    <3>1. SUFFICES ASSUME NEW j \in DOMAIN W, Ddl(W[j]) PROVE FALSE
        BY DEF NoDdl
    <3>2. W[j].op \in {"create", "alter", "drop"}
        BY <3>1 DEF Ddl, DDL
    <3> QED  BY <1>1, <2>2, <3>2 DEF Simple
  <2>4. IsShown(vs[k], C)
      BY <1>1, <1>4, <2>3 DEF IsShown, Live, Apt
  <2> QED  BY <1>1, <2>2, <2>4, OneOnly
<1>7. CASE ~\A j \in 1 .. n : ~Ddl(W[j])
  <2>1. PICK j \in 1 .. n : IsLast(W, n, j)
      BY <1>3, <1>7, LastUpTo
  <2>2. W[j].op \in {"create", "alter", "drop"} /\ Ddl(W[j]) /\ j \in DOMAIN W
      BY <1>3, <2>1 DEF Ddl, DDL, IsLast
  <2>3. W[j].op = "create"
    <3>1. W[j].op # "drop"
        BY <1>5, <2>1 DEF Committed
    <3> QED  BY <1>1, <2>2, <3>1 DEF Simple
  <2>4. LiveParams(X) = OwnParams(vs, d)
      BY <2>1, <2>3 DEF Committed
  <2>5. PICK m \in DOMAIN vs : vs[m].created_xmin = d /\ Params(vs[m]) = Params(X[i])
      BY <1>5, <2>4 DEF OwnParams
  <2>6. vs[k].created_xmin = d
    <3>1. vs[k].created_xmin \in C \cup {d}
        BY <1>1 DEF Shape, Fits
    <3> QED  BY <1>4, <2>2, <3>1 DEF NoDdl
  <2> QED  BY <1>1, <2>5, <2>6 DEF OwnOne
<1> QED  BY <1>6, <1>7


\* An op that is not DDL leaves the last one, ...
LEMMA StayOn ==
    ASSUME NEW R, NEW vs, NEW C, NEW d, NEW L, NEW W, NEW n \in Nat \ {0}, ~Ddl(W[n]), NEW X, NEW Y,
           Committed(R, vs, C, d, L, W, X, n - 1), Shape(Y, C \cup {d}, 0), Xids(Y) = Xids(X),
           LiveParams(Y) = LiveParams(X), Untouched(X, d) => Untouched(Y, d), Carried(R, vs, d, W, Y, n)
    PROVE  Committed(R, vs, C, d, L, W, Y, n)
<1>1. \A j \in 1 .. n : j \in 1 .. n - 1 \/ j = n
    OBVIOUS
<1>2. \A j \in 1 .. n - 1 : j \in 1 .. n /\ \A h \in j + 1 .. n - 1 : h \in j + 1 .. n
    OBVIOUS
<1>3. \A j \in 1 .. n : IsLast(W, n, j) => j \in 1 .. n - 1 /\ IsLast(W, n - 1, j)
    BY <1>1, <1>2 DEF IsLast
<1>4. (\A j \in 1 .. n : ~Ddl(W[j])) => \A j \in 1 .. n - 1 : ~Ddl(W[j])
    BY <1>2
<1> QED  BY <1>3, <1>4 DEF Committed

\* ... and a DDL op is the last one.
LEMMA GoOn ==
    ASSUME NEW R, NEW vs, NEW C, NEW d, NEW L, NEW W, NEW n \in Nat \ {0}, Ddl(W[n]), NEW Y,
           Shape(Y, C \cup {d}, 0), Xids(Y) \subseteq L \cup {0, d},
           W[n].op = "create" => LiveParams(Y) = OwnParams(vs, d),
           W[n].op = "drop" => LiveParams(Y) = {}, Carried(R, vs, d, W, Y, n)
    PROVE  Committed(R, vs, C, d, L, W, Y, n)
<1>1. n \in 1 .. n /\ \A j \in 1 .. n : j # n => n \in j + 1 .. n
    OBVIOUS
<1>2. \A j \in 1 .. n : IsLast(W, n, j) => j = n
    BY <1>1 DEF IsLast
<1> QED  BY <1>1, <1>2 DEF Committed

LEMMA CommitAdvance ==
    ASSUME NEW R, NEW vs, NEW C, NEW d, NEW L, NEW W, AtCommit(R, vs, C, d, L, W),
           NEW X, NEW n \in 1 .. Len(W), Committed(R, vs, C, d, L, W, X, n - 1), W[n].op = "advance"
    PROVE  Committed(R, vs, C, d, L, W, Replayed(X, RecordOf(vs, d, W[n])), n)
<1> DEFINE rs == RecordOf(vs, d, W[n])
           Y == Replayed(X, rs)
           D == C \cup {d}
<1>1. /\ Apt(C, d) /\ d # 0 /\ Shape(vs, C, d) /\ LogGood(vs, C, d, W) /\ vs \in Seq(Version) /\ d \in Nat
    BY DEF AtCommit, Shape, Apt
<1>2. W[n] \in OpRec /\ n \in Nat \ {0} /\ n - 1 \in 0 .. Len(W) /\ ~Ddl(W[n])
    BY <1>1, LogLen DEF LogGood, Ddl, DDL
<1>3. Shape(X, D, 0) /\ Carried(R, vs, d, W, X, n - 1) /\ X \in Seq(Version)
    BY DEF Committed, Shape
<1>4. Len(X) \in Nat /\ DOMAIN X = 1 .. Len(X)
    BY <1>3, VersionLen
<1>5. \/ rs = <<>> /\ LogsNone(vs, d, W[n])
      \/ \E r : rs = <<r>> /\ Logs(vs, d, W[n], r)
    BY <1>1, <1>2, RecordIs
<1> HIDE DEF rs, Y
<1>6. ASSUME Y = X, Still(vs) \/ \A i \in DOMAIN X : ~Live(X[i]) PROVE Committed(R, vs, C, d, L, W, Y, n)
  <2>1. Carried(R, vs, d, W, X, n)
      BY <1>3, <1>6 DEF Carried
  <2> QED  BY <1>2, <1>3, <1>6, <2>1, StayOn
<1>7. CASE rs = <<>> /\ LogsNone(vs, d, W[n])
  <2>1. Y = X
      BY <1>7, ReplayNone DEF Y
  <2>2. Still(vs)
      BY <1>7 DEF LogsNone, Still
  <2> QED  BY <1>6, <2>1, <2>2 DEF Y, rs
<1>8. ASSUME NEW r, rs = <<r>>, Logs(vs, d, W[n], r) PROVE Committed(R, vs, C, d, L, W, Y, n)
  <2>1. Y = apply_record(X, r) /\ r.kind = "advance"
      BY <1>8, ReplayOne DEF Logs, Y
  <2>2. PICK k \in DOMAIN vs : r.seq = vs[k] /\ Live(vs[k]) /\ vs[k].current # None
      BY <1>8 DEF Logs
  <2>3. \/ Y = X /\ \A i \in DOMAIN X : ~Live(X[i])
        \/ \E i \in DOMAIN X : /\ Live(X[i])
                               /\ Y = [X EXCEPT ![i].current = r.seq.current, ![i].is_called = r.seq.is_called]
      BY <1>4, <2>1, ApplyIs
  <2>4. CASE Y = X /\ \A i \in DOMAIN X : ~Live(X[i])
      BY <1>6, <2>4
  <2>5. ASSUME NEW i \in DOMAIN X, Live(X[i]),
               Y = [X EXCEPT ![i].current = r.seq.current, ![i].is_called = r.seq.is_called]
        PROVE  Committed(R, vs, C, d, L, W, Y, n)
    <3>1. Params(X[i]) = Params(vs[k])
        BY <1>2, <2>2, <2>5, LiveAgree
    <3>2. Sound(X[i]) /\ Sound(vs[k]) /\ X[i] \in Version /\ vs[k] \in Version
        BY <1>1, <1>3 DEF Shape, Fits, Sound
    <3>3. X[i].min = vs[k].min /\ X[i].max = vs[k].max /\ X[i].increment = vs[k].increment
        BY <3>1 DEF Params
    <3>4. PICK x \in Ints : vs[k].current = <<x>>
        BY <2>2, <3>2, Options DEF Version
    <3> DEFINE c == vs[k].is_called
               w == [X[i] EXCEPT !.current = <<x>>, !.is_called = c]
    <3>5. c \in BOOLEAN /\ ("shrink" \notin Quirks => x \in X[i].min .. X[i].max)
        BY <2>2, <3>2, <3>3, <3>4, Options DEF Version, Sound
    <3> HIDE DEF c
    <3>6. MovedTo(X[i], w) /\ w.current = <<x>> /\ w.is_called = c
      <4>1. MovedTo(X[i], w)
        <5> DEFINE b == X[i]
        <5>1. Sound(b) /\ ("shrink" \notin Quirks => x \in b.min .. b.max)
            BY <3>2, <3>5
        <5> HIDE DEF b
        <5>2. MovedTo(b, [b EXCEPT !.current = <<x>>, !.is_called = c])
            BY <3>5, <5>1, MovedSound
        <5> QED  BY <5>2 DEF b
      <4>2. w.current = <<x>> /\ w.is_called = c
          BY <3>2 DEF Version
      <4> QED  BY <4>1, <4>2
    <3>7. Y = [X EXCEPT ![i] = w]
        BY <1>3, <2>2, <2>5, <3>2, <3>4 DEF Version, c
    <3> HIDE DEF w
    <3>8. Sound(w) /\ Params(w) = Params(X[i]) /\ w.created_xmin = X[i].created_xmin /\ w.dropped_xmax = X[i].dropped_xmax
        BY <3>6 DEF MovedTo
    <3>9. Fits(w, D, 0) /\ \A j \in DOMAIN X : j # i => Apart(w, X[j], D)
        BY <1>3, <3>8 DEF Shape, Fits, Apart, Live, IsShown
    <3>10. /\ Shape(Y, D, 0) /\ DOMAIN Y = DOMAIN X
           /\ \A j \in DOMAIN X : Y[j] = IF j = i THEN w ELSE X[j]
        BY <1>3, <3>7, <3>9, ShapeSet
    <3>11. \A j \in DOMAIN X : /\ Y[j].created_xmin = X[j].created_xmin
                               /\ Y[j].dropped_xmax = X[j].dropped_xmax /\ Params(Y[j]) = Params(X[j])
        BY <3>8, <3>10
    <3>12. Xids(Y) = Xids(X)
      <4>1. \A z : z \in Xids(Y) <=> z \in Xids(X)
          BY <3>10, <3>11 DEF Xids
      <4> QED  BY <4>1
    <3>13. LiveParams(Y) = LiveParams(X)
      <4>1. \A z : z \in LiveParams(Y) <=> z \in LiveParams(X)
          BY <3>10, <3>11 DEF LiveParams, Live
      <4> QED  BY <4>1
    <3>14. Untouched(X, d) => Untouched(Y, d)
        BY <3>10, <3>11 DEF Untouched
    <3>15. SamePos(w, vs[k])
        BY <3>3, <3>4, <3>6, <3>8 DEF SamePos, Params, c
    <3>16. Carried(R, vs, d, W, Y, n)
      <4>1. ASSUME NEW j \in DOMAIN Y, Live(Y[j]) PROVE j = i
        <5>1. Live(X[j]) /\ j \in DOMAIN X
            BY <3>10, <3>11, <4>1 DEF Live
        <5> QED  BY <1>3, <2>5, <5>1, OneOnly
      <4> QED  BY <2>2, <3>10, <3>15, <4>1 DEF Carried
    <3> QED  BY <1>2, <3>10, <3>12, <3>13, <3>14, <3>16, StayOn
  <2> QED  BY <2>3, <2>4, <2>5
<1> QED  BY <1>5, <1>7, <1>8 DEF Y, rs

LEMMA CommitCreate ==
    ASSUME NEW R, NEW vs, NEW C, NEW d, NEW L, NEW W, AtCommit(R, vs, C, d, L, W),
           NEW X, NEW n \in 1 .. Len(W), Committed(R, vs, C, d, L, W, X, n - 1), W[n].op = "create"
    PROVE  Committed(R, vs, C, d, L, W, Replayed(X, RecordOf(vs, d, W[n])), n)
<1> DEFINE rs == RecordOf(vs, d, W[n])
           Y == Replayed(X, rs)
           D == C \cup {d}
<1>1. /\ Apt(C, d) /\ d # 0 /\ Shape(vs, C, d) /\ LogGood(vs, C, d, W) /\ vs \in Seq(Version) /\ d \in Nat
      /\ OwnOne(vs, d) /\ Simple(vs, C, d, W) /\ Rebuilt(R, vs, C, L)
    BY DEF AtCommit, Shape, Apt
<1>2. W[n] \in OpRec /\ n \in Nat \ {0} /\ n \in DOMAIN W /\ Ddl(W[n])
    BY <1>1, LogLen DEF LogGood, Ddl, DDL
<1>3. Shape(X, D, 0) /\ X \in Seq(Version) /\ Xids(X) \subseteq L \cup {0, d}
    BY DEF Committed, Shape
<1>4. Len(X) \in Nat /\ DOMAIN X = 1 .. Len(X)
    BY <1>3, VersionLen
<1>5. IsFirst(W, n) /\ (\A k \in DOMAIN vs : ~IsShown(vs[k], C)) /\ \E k \in DOMAIN vs : vs[k].created_xmin = d
    BY <1>1, <1>2 DEF Simple
<1>6. PICK r : rs = <<r>> /\ Logs(vs, d, W[n], r)
  <2>1. \/ rs = <<>> /\ LogsNone(vs, d, W[n])
        \/ \E r : rs = <<r>> /\ Logs(vs, d, W[n], r)
      BY <1>1, <1>2, RecordIs
  <2>2. ~LogsNone(vs, d, W[n])
      BY <1>5 DEF LogsNone
  <2> QED  BY <2>1, <2>2
<1> HIDE DEF rs
<1>7. PICK k \in DOMAIN vs : r.seq = vs[k] /\ vs[k].created_xmin = d /\ r.xid = d /\ r.kind = "create"
    BY <1>6 DEF Logs
<1> DEFINE v == [vs[k] EXCEPT !.created_xmin = d, !.dropped_xmax = 0]
<1>8. Y = Append(X, v)
  <2>1. Y = apply_record(X, r)
      BY <1>6, ReplayOne
  <2>2. apply_record(X, r) = Append(X, [r.seq EXCEPT !.created_xmin = r.xid, !.dropped_xmax = 0])
      BY <1>4, <1>7, ApplyIs
  <2> QED  BY <1>7, <2>1, <2>2
<1>9. Sound(vs[k]) /\ vs[k] \in Version
    BY <1>1 DEF Shape, Fits, Sound
<1>10. /\ v \in Version /\ v.created_xmin = d /\ v.dropped_xmax = 0 /\ v.current = vs[k].current
       /\ v.is_called = vs[k].is_called /\ v.increment = vs[k].increment /\ v.min = vs[k].min /\ v.max = vs[k].max
       /\ v.start = vs[k].start /\ v.type = vs[k].type /\ v.cycle = vs[k].cycle
    BY <1>1, <1>9 DEF Version
<1> HIDE DEF v, Y
<1>11. Sound(v) /\ Live(v) /\ Params(v) = Params(vs[k]) /\ SamePos(v, vs[k])
    BY <1>9, <1>10 DEF Sound, Live, Params, SamePos
<1>12. Untouched(X, d) /\ LiveParams(X) = {}
  <2>1. \A j \in 1 .. n - 1 : ~Ddl(W[j])
      BY <1>5 DEF IsFirst
  <2>2. Untouched(X, d) /\ LiveParams(X) = ShownParams(vs, C)
      BY <1>1, <2>1 DEF Committed, Rebuilt
  <2> QED  BY <1>5, <2>2 DEF ShownParams
<1>13. \A j \in DOMAIN X : ~Live(X[j])
    BY <1>12 DEF LiveParams
<1>14. \A j \in DOMAIN X : Apart(v, X[j], D)
  <2>1. ASSUME NEW j \in DOMAIN X PROVE Apart(v, X[j], D)
    <3>1. X[j].created_xmin # d /\ X[j].dropped_xmax \in {0} \cup D /\ X[j].dropped_xmax # 0
        BY <1>3, <1>12, <1>13 DEF Untouched, Shape, Fits, Live
    <3> QED  BY <1>10, <1>13, <3>1 DEF Apart, IsShown
  <2> QED  BY <2>1
<1>15. Fits(v, D, 0)
    BY <1>1, <1>10, <1>11 DEF Fits
<1>16. /\ Shape(Y, D, 0) /\ DOMAIN Y = DOMAIN X \cup {Len(X) + 1}
       /\ Y[Len(X) + 1] = v /\ \A j \in DOMAIN X : Y[j] = X[j]
  <2> HIDE DEF D
  <2> QED  BY <1>3, <1>8, <1>14, <1>15, ShapeAppend
<1>17. Xids(Y) \subseteq L \cup {0, d}
  <2>1. \A j \in DOMAIN X : X[j].created_xmin \in L \cup {0, d} /\ X[j].dropped_xmax \in L \cup {0, d}
      BY <1>3 DEF Xids
  <2>2. \A j \in DOMAIN Y : Y[j].created_xmin \in L \cup {0, d} /\ Y[j].dropped_xmax \in L \cup {0, d}
      BY <1>10, <1>16, <2>1
  <2> QED  BY <2>2 DEF Xids
<1>18. \A j \in DOMAIN Y : Live(Y[j]) <=> j = Len(X) + 1
  <2>1. Len(X) + 1 \notin DOMAIN X
      BY <1>4
  <2> QED  BY <1>11, <1>13, <1>16, <2>1
<1>19. LiveParams(Y) = OwnParams(vs, d)
  <2>1. \A z : z \in LiveParams(Y) <=> z = Params(vs[k])
      BY <1>11, <1>16, <1>18 DEF LiveParams
  <2>2. \A z : z \in OwnParams(vs, d) <=> z = Params(vs[k])
      BY <1>1, <1>7 DEF OwnParams, OwnOne
  <2> QED  BY <2>1, <2>2
<1>20. Carried(R, vs, d, W, Y, n)
    BY <1>7, <1>11, <1>16, <1>18 DEF Carried
<1>21. W[n].op # "drop"
    OBVIOUS
<1>22. Committed(R, vs, C, d, L, W, Y, n)
    BY <1>2, <1>16, <1>17, <1>19, <1>20, <1>21, GoOn
<1> QED  BY <1>22 DEF Y, rs

LEMMA CommitDrop ==
    ASSUME NEW R, NEW vs, NEW C, NEW d, NEW L, NEW W, AtCommit(R, vs, C, d, L, W),
           NEW X, NEW n \in 1 .. Len(W), Committed(R, vs, C, d, L, W, X, n - 1), W[n].op = "drop"
    PROVE  Committed(R, vs, C, d, L, W, Replayed(X, RecordOf(vs, d, W[n])), n)
<1> DEFINE rs == RecordOf(vs, d, W[n])
           Y == Replayed(X, rs)
           D == C \cup {d}
<1>1. /\ Apt(C, d) /\ d # 0 /\ Shape(vs, C, d) /\ LogGood(vs, C, d, W) /\ vs \in Seq(Version) /\ d \in Nat
      /\ Simple(vs, C, d, W)
    BY DEF AtCommit, Shape, Apt
<1>2. W[n] \in OpRec /\ n \in Nat \ {0} /\ n \in DOMAIN W /\ Ddl(W[n])
    BY <1>1, LogLen DEF LogGood, Ddl, DDL
<1>3. Shape(X, D, 0) /\ X \in Seq(Version) /\ Xids(X) \subseteq L \cup {0, d}
    BY DEF Committed, Shape
<1>4. Len(X) \in Nat /\ DOMAIN X = 1 .. Len(X)
    BY <1>3, VersionLen
<1>5. PICK r : rs = <<r>> /\ Logs(vs, d, W[n], r)
  <2>1. \/ rs = <<>> /\ LogsNone(vs, d, W[n])
        \/ \E r : rs = <<r>> /\ Logs(vs, d, W[n], r)
      BY <1>1, <1>2, RecordIs
  <2>2. ~LogsNone(vs, d, W[n])
      BY <1>1, <1>2 DEF LogsNone, Simple
  <2> QED  BY <2>1, <2>2
<1> HIDE DEF rs
<1>6. Y = apply_record(X, r) /\ r.xid = d /\ r.kind = "drop"
    BY <1>5, ReplayOne DEF Logs
<1> HIDE DEF Y
<1>7. \/ Y = X /\ \A i \in DOMAIN X : ~Live(X[i])
      \/ \E i \in DOMAIN X : Live(X[i]) /\ Y = [X EXCEPT ![i].dropped_xmax = d]
  <2>1. DropsLive(X, apply_record(X, r), d)
      BY <1>4, <1>6, ApplyDrop
  <2> QED  BY <1>6, <2>1 DEF DropsLive
<1>8. Shape(Y, D, 0) /\ Xids(Y) \subseteq L \cup {0, d} /\ \A i \in DOMAIN Y : ~Live(Y[i])
  <2>1. CASE Y = X /\ \A i \in DOMAIN X : ~Live(X[i])
      BY <1>3, <2>1
  <2>2. ASSUME NEW i \in DOMAIN X, Live(X[i]), Y = [X EXCEPT ![i].dropped_xmax = d]
        PROVE  Shape(Y, D, 0) /\ Xids(Y) \subseteq L \cup {0, d} /\ \A j \in DOMAIN Y : ~Live(Y[j])
    <3> DEFINE w == [X[i] EXCEPT !.dropped_xmax = d]
    <3>1. Sound(X[i]) /\ X[i] \in Version /\ X[i].created_xmin \in D \cup {0} /\ X[i].created_xmin # 0
        BY <1>3 DEF Shape, Fits, Sound, Version
    <3>2. Y = [X EXCEPT ![i] = w]
        BY <2>2
    <3>3. /\ w \in Version /\ w.dropped_xmax = d /\ w.created_xmin = X[i].created_xmin
          /\ w.current = X[i].current /\ w.increment = X[i].increment
          /\ w.min = X[i].min /\ w.max = X[i].max /\ w.start = X[i].start
        BY <1>1, <3>1 DEF Version
    <3> HIDE DEF w
    <3>4. Fits(w, D, 0)
        BY <3>1, <3>3 DEF Fits, Sound
    <3>5. \A j \in DOMAIN X : j # i => Apart(w, X[j], D)
        BY <1>1, <1>3, <3>3 DEF Shape, Apart, IsShown, Live
    <3>6. /\ Shape(Y, D, 0) /\ DOMAIN Y = DOMAIN X
          /\ \A j \in DOMAIN X : Y[j] = IF j = i THEN w ELSE X[j]
        BY <1>3, <3>2, <3>4, <3>5, ShapeSet
    <3>7. \A j \in DOMAIN Y : ~Live(Y[j])
      <4>1. \A j \in DOMAIN X : j # i => ~Live(X[j])
          BY <1>3, <2>2, OneOnly
      <4> QED  BY <1>1, <3>3, <3>6, <4>1 DEF Live
    <3>8. \A j \in DOMAIN X : X[j].created_xmin \in L \cup {0, d} /\ X[j].dropped_xmax \in L \cup {0, d}
        BY <1>3 DEF Xids
    <3>9. \A j \in DOMAIN Y : Y[j].created_xmin \in L \cup {0, d} /\ Y[j].dropped_xmax \in L \cup {0, d}
        BY <3>3, <3>6, <3>8
    <3>10. Xids(Y) \subseteq L \cup {0, d}
        BY <3>9 DEF Xids
    <3> QED  BY <3>6, <3>7, <3>10
  <2> QED  BY <1>7, <2>1, <2>2
<1>9. LiveParams(Y) = {} /\ Carried(R, vs, d, W, Y, n)
    BY <1>8 DEF LiveParams, Carried
<1>10. Committed(R, vs, C, d, L, W, Y, n)
    BY <1>2, <1>8, <1>9, GoOn
<1> QED  BY <1>10 DEF Y, rs


\* Nothing is replayed yet.
LEMMA CommitNone ==
    ASSUME NEW R, NEW vs, NEW C, NEW d, NEW L, NEW W, AtCommit(R, vs, C, d, L, W)
    PROVE  Committed(R, vs, C, d, L, W, R, 0)
<1>1. Apt(C, d) /\ d # 0 /\ Rebuilt(R, vs, C, L) /\ Shape(R, C, 0)
    BY DEF AtCommit, Rebuilt
<1>2. Shape(R, C \cup {d}, 0)
  <2> DEFINE z == 0
  <2>1. Shape(R, C, z) /\ d \notin C \cup {0, z}
      BY <1>1 DEF Apt
  <2> HIDE DEF z
  <2>2. Shape(R, C \cup {d}, z)
      BY <2>1, GrowShape
  <2> QED  BY <2>2 DEF z
<1>3. \A i \in DOMAIN R : R[i].created_xmin \in L /\ R[i].dropped_xmax \in L \cup {0}
    BY <1>1 DEF Rebuilt
<1>4. Xids(R) \subseteq L \cup {0, d}
    BY <1>3 DEF Xids
<1>5. Untouched(R, d)
    BY <1>1 DEF Untouched, Shape, Fits, Apt, Sound, Version
<1>6. Carried(R, vs, d, W, R, 0)
    BY DEF Carried, SamePos
<1>7. 1 .. 0 = {}
    OBVIOUS
<1> QED  BY <1>2, <1>4, <1>5, <1>6, <1>7 DEF Committed

\* The records of the whole write log, replayed.
LEMMA CommitRecords ==
    ASSUME NEW R, NEW vs, NEW C, NEW d, NEW L, NEW W, AtCommit(R, vs, C, d, L, W)
    PROVE  Committed(R, vs, C, d, L, W, Replayed(R, records_for_commit(vs, d, W)), Len(W))
<1> DEFINE N == Len(W)
<1>1. /\ W \in Seq(OpRec) /\ N \in Nat /\ DOMAIN W = 1 .. N /\ \A n \in 1 .. N : W[n] \in OpRec
      /\ vs \in Seq(Version) /\ d \in Nat /\ Simple(vs, C, d, W)
    BY LogLen DEF AtCommit, LogGood, Shape, Apt
<1>2. PICK u : RecordRun(vs, d, W, u)
    BY <1>1, RecordsExist
<1> DEFINE P(n) == u[n] \in Seq(RecordRec) /\ Committed(R, vs, C, d, L, W, Replayed(R, u[n]), n)
           Bad == {n \in 0 .. N : ~P(n)}
<1>3. P(0)
  <2>1. u[0] = <<>> /\ <<>> \in Seq(RecordRec)
      BY <1>2, EmptySeq DEF RecordRun
  <2>2. Replayed(R, u[0]) = R
      BY <2>1, ReplayNone
  <2> QED  BY <2>1, <2>2, CommitNone
<1>4. ASSUME NEW n \in 1 .. N, P(n - 1) PROVE P(n)
  <2> DEFINE v == u[n - 1]
             r == RecordOf(vs, d, W[n])
             X == Replayed(R, v)
  <2>1. u[n] = v \o r /\ v \in Seq(RecordRec) /\ Committed(R, vs, C, d, L, W, X, n - 1)
      BY <1>2, <1>4 DEF RecordRun
  <2>2. r \in Seq(RecordRec)
    <3>1. \/ r = <<>> /\ LogsNone(vs, d, W[n])
          \/ \E x : r = <<x>> /\ Logs(vs, d, W[n], x)
        BY <1>1, RecordIs
    <3> HIDE DEF r
    <3>2. r = <<>> \/ \E x \in RecordRec : r = <<x>>
        BY <3>1 DEF Logs
    <3>3. <<>> \in Seq(RecordRec) /\ \A x \in RecordRec : <<x>> \in Seq(RecordRec)
        OBVIOUS
    <3> QED  BY <3>2, <3>3
  <2>3. Committed(R, vs, C, d, L, W, Replayed(X, r), n)
    <3>1. W[n].op \in {"create", "drop", "advance"}
        BY <1>1 DEF Simple, OpRec, DDL
    <3> HIDE DEF X
    <3> QED  BY <2>1, <3>1, CommitAdvance, CommitCreate, CommitDrop DEF r
  <2>4. v \o r \in Seq(RecordRec) /\ Replayed(R, v \o r) = Replayed(X, r)
    <3> HIDE DEF r, v
    <3> QED  BY <2>1, <2>2, ReplayConcat, ConcatProperties DEF X
  <2> QED  BY <2>1, <2>3, <2>4
<1>5. Bad = {}
  <2> SUFFICES ASSUME Bad # {} PROVE FALSE
      OBVIOUS
  <2> HIDE DEF P
  <2>1. PICK m \in Bad : \A y \in Bad : m <= y
    <3>1. Bad \subseteq Nat
        BY <1>1
    <3> HIDE DEF Bad
    <3> QED  BY <3>1, Least
  <2>2. m # 0
      BY <1>3, <2>1
  <2>3. m \in 1 .. N /\ m - 1 \in 0 .. N /\ ~(m <= m - 1)
      BY <1>1, <2>1, <2>2
  <2>4. P(m - 1)
      BY <2>1, <2>3
  <2> QED  BY <1>4, <2>1, <2>3, <2>4
<1>6. P(N)
  <2> HIDE DEF P
  <2>1. N \in 0 .. N
      BY <1>1
  <2> QED  BY <1>5, <2>1
<1> QED  BY <1>2, <1>6 DEF RecordRun

\* A restart after the commit shows what the commit has made.
LEMMA CommitRebuilt ==
    ASSUME NEW R, NEW vs, NEW C, NEW d, NEW L, NEW W, AtCommit(R, vs, C, d, L, W),
           NEW M, L \subseteq M, NoDdl(W) \/ d \in M
    PROVE  Rebuilt(Replayed(R, records_for_commit(vs, d, W)), vs, C \cup {d}, M)
<1> DEFINE X == Replayed(R, records_for_commit(vs, d, W))
<1>1. Committed(R, vs, C, d, L, W, X, Len(W))
    BY CommitRecords
<1> HIDE DEF X
<1>2. /\ Apt(C, d) /\ d # 0 /\ Shape(vs, C, d) /\ LogGood(vs, C, d, W) /\ OwnOne(vs, d)
      /\ Simple(vs, C, d, W) /\ Rebuilt(R, vs, C, L)
    BY DEF AtCommit
<1>3. Len(W) \in Nat /\ DOMAIN W = 1 .. Len(W)
    BY <1>2, LogLen DEF LogGood
<1>4. ShownParams(vs, C \cup {d}) = LiveParams(vs)
    BY <1>2, EndShape DEF OwnOne
<1>5. NoDdl(W) => Untouched(X, d) /\ LiveParams(X) = LiveParams(R)
    BY <1>1, <1>3 DEF Committed, NoDdl
<1>6. \A i \in DOMAIN X : X[i].created_xmin \in M /\ X[i].dropped_xmax \in M \cup {0}
  <2>1. ASSUME NEW i \in DOMAIN X PROVE X[i].created_xmin \in M /\ X[i].dropped_xmax \in M \cup {0}
    <3>1. X[i].created_xmin \in L \cup {0, d} /\ X[i].dropped_xmax \in L \cup {0, d}
        BY <1>1 DEF Committed, Xids
    <3>2. X[i].created_xmin # 0
        BY <1>1 DEF Committed, Shape, Fits, Sound, Version
    <3> QED  BY <1>5, <3>1, <3>2 DEF Untouched
  <2> QED  BY <2>1
<1>7. LiveParams(X) = LiveParams(vs)
  <2>1. CASE NoDdl(W)
    <3>1. Untouched(vs, d)
        BY <1>2, <2>1, LiveLog
    <3>2. \A i \in DOMAIN vs : IsShown(vs[i], C) <=> Live(vs[i])
        BY <1>2, <3>1 DEF Untouched, Shape, Fits, IsShown, Live, Apt
    <3>3. ShownParams(vs, C) = LiveParams(vs)
        BY <3>2 DEF ShownParams, LiveParams
    <3> QED  BY <1>2, <1>5, <2>1, <3>3 DEF Rebuilt
  <2>2. CASE ~NoDdl(W)
    <3>1. PICK j \in 1 .. Len(W) : IsLast(W, Len(W), j)
        BY <1>3, <2>2, HasFirst DEF NoDdl
    <3>2. W[j].op \in {"create", "drop"}
        BY <1>2, <1>3, <3>1 DEF Simple, IsLast, Ddl, DDL
    <3>3. LastDone(vs, C, d, W[j])
        BY <1>2, <3>1 DEF LogGood, After
    <3>4. CASE W[j].op = "create"
      <4>1. LiveParams(X) = OwnParams(vs, d)
          BY <1>1, <3>1, <3>4 DEF Committed
      <4>2. PICK k \in DOMAIN vs : Live(vs[k]) /\ vs[k].created_xmin = d
          BY <3>3, <3>4 DEF LastDone
      <4>3. \A i \in DOMAIN vs : Live(vs[i]) <=> vs[i].created_xmin = d
          BY <1>2, <4>2, OneOnly DEF OwnOne
      <4>4. OwnParams(vs, d) = LiveParams(vs)
          BY <4>3 DEF OwnParams, LiveParams
      <4> QED  BY <4>1, <4>4
    <3>5. CASE W[j].op = "drop"
      <4>1. LiveParams(X) = {}
          BY <1>1, <3>1, <3>5 DEF Committed
      <4>2. \A k \in DOMAIN vs : ~Live(vs[k])
          BY <1>2, <1>3, <3>5 DEF Simple
      <4> QED  BY <4>1, <4>2 DEF LiveParams
    <3> QED  BY <3>2, <3>4, <3>5
  <2> QED  BY <2>1, <2>2
<1>8. Shape(X, C \cup {d}, 0)
    BY <1>1 DEF Committed
<1>9. Rebuilt(X, vs, C \cup {d}, M)
    BY <1>4, <1>6, <1>7, <1>8 DEF Rebuilt
<1> QED  BY <1>9 DEF X


\* A commit that is not refused, without ALTER, and what a restart has to read.
LEMMA CommitSimple ==
    ASSUME Types, NEW vs, NEW d, Apt(Ended, d), d # 0, Shape(vs, Ended, d), NEW W, LogGood(vs, Ended, d, W),
           ~Refused(vs, d, W), NEW rs, rs = records_for_commit(vs, d, W),
           \A l \in DOMAIN rs : rs[l].kind # "alter"
    PROVE  Simple(vs, Ended, d, W) /\ (NoDdl(W) \/ \E l \in DOMAIN rs : rs[l].xid = d)
<1>1. vs \in Seq(Version) /\ d \in Nat /\ W \in Seq(OpRec)
    BY LogLen DEF Shape, LogGood, Apt
<1>2. /\ \A l \in DOMAIN rs : \E n \in DOMAIN W : Logs(vs, d, W[n], rs[l])
      /\ \A n \in DOMAIN W : LogsNone(vs, d, W[n]) \/ \E l \in DOMAIN rs : Logs(vs, d, W[n], rs[l])
    BY <1>1, RecordsAre
<1>3. ASSUME NEW n \in DOMAIN W PROVE W[n].op # "alter"
  <2>1. SUFFICES ASSUME W[n].op = "alter" PROVE FALSE
      OBVIOUS
  <2>2. ~LogsNone(vs, d, W[n])
      BY <2>1, OwnMade DEF LogsNone
  <2>3. PICK l \in DOMAIN rs : Logs(vs, d, W[n], rs[l])
      BY <1>2, <2>2
  <2> QED  BY <2>1, <2>3 DEF Logs
<1>4. \A k \in DOMAIN vs : vs[k] \in Version
    BY <1>1, VersionLen
<1>5. \A k \in DOMAIN vs : IsShown(vs[k], Ended) =>
        /\ vs[k].created_xmin # d /\ xid_committed(vs[k].created_xmin)
        /\ vs[k].dropped_xmax = 0 \/ ~xid_committed(vs[k].dropped_xmax)
  <2>1. ASSUME NEW k \in DOMAIN vs, IsShown(vs[k], Ended)
        PROVE  /\ vs[k].created_xmin # d /\ xid_committed(vs[k].created_xmin)
               /\ vs[k].dropped_xmax = 0 \/ ~xid_committed(vs[k].dropped_xmax)
    <3>1. vs[k].created_xmin \in Nat \ {0} /\ vs[k].dropped_xmax \in Nat
        BY <1>4 DEF Version
    <3>2. \A x \in Nat \ {0} : xid_committed(x) <=> x \in Ended
        BY EndedIs DEF xid_committed
    <3> QED  BY <2>1, <3>1, <3>2 DEF IsShown, Apt
  <2> QED  BY <2>1
<1>6. (\E n \in DOMAIN W : W[n].op = "create") /\ (\E k \in DOMAIN vs : vs[k].created_xmin = d) =>
        \A k \in DOMAIN vs : ~IsShown(vs[k], Ended)
    BY <1>5 DEF Refused
<1>7. Simple(vs, Ended, d, W)
    BY <1>3, <1>6, SimpleLog
<1>8. ASSUME ~NoDdl(W) PROVE \E l \in DOMAIN rs : rs[l].xid = d
  <2>1. PICK n \in DOMAIN W : Ddl(W[n])
      BY <1>8 DEF NoDdl
  <2>2. W[n].op \in {"create", "drop"} /\ ~LogsNone(vs, d, W[n])
      BY <1>7, <2>1 DEF Simple, Ddl, DDL, LogsNone
  <2>3. PICK l \in DOMAIN rs : Logs(vs, d, W[n], rs[l])
      BY <1>2, <2>2
  <2> QED  BY <2>2, <2>3 DEF Logs
<1> QED  BY <1>7, <1>8

\* What a restart rebuilds once the transaction d has committed with the write log W.
Replays(X, vs, d, W) ==
    /\ AtCommit(Recovered, vs, Ended, d, Logged, W)
    /\ X = Replayed(Recovered, records_for_commit(vs, d, W))

\* The files after a commit.
LEMMA CommitFiles ==
    ASSUME Orderly, SInv, NEW vs, NEW d, Apt(Ended, d), d # 0, Shape(vs, Ended, d), NEW W,
           LogGood(vs, Ended, d, W), ~Refused(vs, d, W), OwnOne(vs, d),
           Replayable => Rebuilt(Recovered, vs, Ended, Logged),
           log' = log \o records_for_commit(vs, d, W), image' = image,
           next_xid' \in Nat, next_xid <= next_xid', d < next_xid'
    PROVE  /\ FilesGood'
           /\ Replayable' => /\ Replayable /\ Rebuilt(Recovered', vs, Ended \cup {d}, Logged')
                             /\ Replays(Recovered', vs, d, W)
<1> DEFINE rs == records_for_commit(vs, d, W)
<1>1. /\ vs \in Seq(Version) /\ d \in Nat /\ W \in Seq(OpRec) /\ Types /\ FilesGood
      /\ log \in Seq(RecordRec) /\ next_xid \in Nat
    BY LogLen, EndedIs DEF Shape, LogGood, Apt, SInv, FilesGood
<1>2. rs \in Seq(RecordRec) /\ \A l \in DOMAIN rs : \E n \in DOMAIN W : Logs(vs, d, W[n], rs[l])
    BY <1>1, RecordsAre
<1>3. log' = log \o rs
    OBVIOUS
<1>4. /\ log \o rs \in Seq(RecordRec) /\ Len(log) \in Nat /\ Len(rs) \in Nat
      /\ DOMAIN log = 1 .. Len(log) /\ DOMAIN rs = 1 .. Len(rs)
      /\ Len(log \o rs) = Len(log) + Len(rs) /\ DOMAIN (log \o rs) = 1 .. Len(log) + Len(rs)
      /\ Len(log \o rs) \in Nat /\ Len(log) <= Len(log \o rs)
      /\ \A j \in DOMAIN log : (log \o rs)[j] = log[j]
      /\ \A j \in DOMAIN rs : (log \o rs)[Len(log) + j] = rs[j]
  <2>1. log \in Seq(RecordRec) /\ rs \in Seq(RecordRec)
      BY <1>1, <1>2
  <2> HIDE DEF rs
  <2> QED  BY <2>1, Concat
<1> HIDE DEF rs
<1>5. /\ \A j \in DOMAIN log : j \in DOMAIN log' /\ log'[j] = log[j]
      /\ \A j \in DOMAIN rs : Len(log) + j \in DOMAIN log' /\ log'[Len(log) + j] = rs[j]
      /\ \A k \in DOMAIN log' : k \in DOMAIN log \/ \E j \in DOMAIN rs : k = Len(log) + j
  <2> DEFINE a == Len(log)
             b == Len(rs)
  <2>1. a \in Nat /\ b \in Nat
      BY <1>4
  <2> HIDE DEF a, b
  <2>2. /\ \A k \in 1 .. a + b : k \in 1 .. a \/ \E j \in 1 .. b : k = a + j
        /\ \A j \in 1 .. b : a + j \in 1 .. a + b
        /\ \A j \in 1 .. a : j \in 1 .. a + b
    <3>1. \A k \in 1 .. a + b : k \in 1 .. a \/ (k - a \in 1 .. b /\ k = a + (k - a))
        BY <2>1
    <3>2. /\ \A j \in 1 .. b : a + j \in 1 .. a + b
          /\ \A j \in 1 .. a : j \in 1 .. a + b
        BY <2>1
    <3> QED  BY <3>1, <3>2
  <2>3. DOMAIN log' = 1 .. a + b /\ DOMAIN log = 1 .. a /\ DOMAIN rs = 1 .. b
      BY <1>3, <1>4 DEF a, b
  <2>4. /\ \A j \in DOMAIN log : log'[j] = log[j]
        /\ \A j \in DOMAIN rs : log'[a + j] = rs[j]
      BY <1>3, <1>4 DEF a
  <2>5. /\ \A j \in DOMAIN log : j \in DOMAIN log' /\ log'[j] = log[j]
        /\ \A j \in DOMAIN rs : a + j \in DOMAIN log' /\ log'[a + j] = rs[j]
        /\ \A k \in DOMAIN log' : k \in DOMAIN log \/ \E j \in DOMAIN rs : k = a + j
      BY <2>2, <2>3, <2>4, Zenon
  <2> QED  BY <2>5 DEF a
<1>6. FilesGood'
  <2>1. \A j \in DOMAIN rs : rs[j].xid < next_xid' /\ (rs[j].kind # "advance" => rs[j].xid > 0)
    <3>1. ASSUME NEW j \in DOMAIN rs PROVE rs[j].xid < next_xid' /\ (rs[j].kind # "advance" => rs[j].xid > 0)
      <4>1. PICK n \in DOMAIN W : Logs(vs, d, W[n], rs[j])
          BY <1>2
      <4>2. rs[j].xid = (IF rs[j].kind = "advance" THEN 0 ELSE d)
          BY <4>1 DEF Logs
      <4>3. 0 < d /\ 0 < next_xid'
          BY <1>1
      <4> QED  BY <4>2, <4>3
    <3> QED  BY <3>1
  <2>2. \A j \in DOMAIN log : log[j].xid < next_xid' /\ (log[j].kind # "advance" => log[j].xid > 0)
    <3>1. \A j \in DOMAIN log : log[j].xid \in Nat /\ log[j].xid < next_xid /\ (log[j].kind # "advance" => log[j].xid > 0)
      <4>1. \A j \in DOMAIN log : log[j] \in RecordRec
          BY <1>1, <1>4, ElementOfSeq
      <4> QED  BY <1>1, <4>1 DEF FilesGood, RecordRec
    <3> QED  BY <1>1, <3>1
  <2>3. \A k \in DOMAIN log' : log'[k].xid < next_xid' /\ (log'[k].kind # "advance" => log'[k].xid > 0)
      BY <1>5, <2>1, <2>2
  <2>4. image.next_xid \in 1 .. next_xid'
      BY <1>1 DEF FilesGood
  <2>5. log' \in Seq(RecordRec)
      BY <1>3, <1>4
  <2> QED  BY <1>1, <2>3, <2>4, <2>5 DEF FilesGood
<1>7. ASSUME Replayable'
      PROVE  /\ Replayable /\ Rebuilt(Recovered', vs, Ended \cup {d}, Logged')
             /\ Replays(Recovered', vs, d, W)
  <2>1. \A k \in DOMAIN log' : log'[k].kind # "alter"
      BY <1>7 DEF Replayable, Orderly
  <2>2. Replayable
      BY <1>5, <2>1 DEF Replayable
  <2>3. \A l \in DOMAIN rs : rs[l].kind # "alter"
      BY <1>5, <2>1
  <2>4. Simple(vs, Ended, d, W) /\ (NoDdl(W) \/ \E l \in DOMAIN rs : rs[l].xid = d)
      BY <1>1, <2>3, CommitSimple DEF rs
  <2>5. Logged \subseteq Logged'
      BY <1>5 DEF Logged
  <2>6. NoDdl(W) \/ d \in Logged'
      BY <1>1, <1>5, <2>4 DEF Logged
  <2>7. Recovered' = Replayed(Recovered, rs)
    <3>1. Replayed(image.versions, log \o rs) = Replayed(Replayed(image.versions, log), rs)
        BY <1>1, <1>2, ReplayConcat
    <3> QED  BY <1>3, <3>1 DEF Recovered
  <2>8. AtCommit(Recovered, vs, Ended, d, Logged, W)
      BY <2>2, <2>4 DEF AtCommit
  <2>9. Rebuilt(Replayed(Recovered, rs), vs, Ended \cup {d}, Logged')
      BY <2>5, <2>6, <2>8, CommitRebuilt DEF rs
  <2>10. Replays(Recovered', vs, d, W)
      BY <2>7, <2>8 DEF Replays, rs
  <2> QED  BY <2>2, <2>7, <2>9, <2>10
<1> QED  BY <1>6, <1>7


LEMMA AtMostOne ==
    ASSUME NEW S, IsFiniteSet(S), Cardinality(S) <= 1, NEW i \in S, NEW j \in S
    PROVE  i = j
<1>1. SUFFICES ASSUME i # j PROVE FALSE
    OBVIOUS
<1>2. IsFiniteSet({i}) /\ Cardinality({i}) = 1
    BY FS_Singleton
<1>3. Cardinality({i} \cup {j}) = 2
  <2>1. j \notin {i}
      BY <1>1
  <2>2. Cardinality({i} \cup {j}) = Cardinality({i}) + 1
      BY <1>2, <2>1, FS_AddElement
  <2> QED  BY <1>2, <2>2
<1>4. Cardinality({i} \cup {j}) <= Cardinality(S)
    BY FS_Subset
<1>5. Cardinality(S) \in Nat
    BY FS_CardinalityType
<1> QED  BY <1>3, <1>4, <1>5

\* A block that may commit, and what the restart after it rebuilds.
CommitsOn(s, vs, d, W) ==
    /\ \A o \in Sessions \ {s} : ~Held(o)
    /\ Apt(Ended, d) /\ d # 0 /\ Shape(vs, Ended, d) /\ LogGood(vs, Ended, d, W)
    /\ ~Held(s) => Untouched(versions, d)
    /\ OwnOne(vs, d)

LEMMA CommitMeets ==
    ASSUME Orderly, SInv, NEW s \in Sessions, Commit(s)
    PROVE  LET d == txn[s].xid
               W == txn[s].writes IN
           /\ CommitsOn(s, versions, d, W) /\ FilesGood'
           /\ Replayable' => /\ Replayable /\ Rebuilt(Recovered', versions, Ended \cup {d}, Logged')
                             /\ Replays(Recovered', versions, d, W)
<1> DEFINE d == txn[s].xid
           W == txn[s].writes
<1>0. Types /\ InTxn(s) /\ txn \in [Sessions -> TxnRec]
    BY DEF SInv, Commit, Types
<1>1. /\ ~Refused(versions, d, W) /\ Alone(s)
      /\ log' = log \o records_for_commit(versions, d, W)
      /\ UNCHANGED <<next_xid, image>>
    BY DEF Commit, End
<1>2. Cardinality({i \in DOMAIN versions : versions[i].created_xmin = d}) <= 1
    BY DEF Commit, Orderly
<1>6. \A o \in Sessions \ {s} : ~Held(o)
    BY <1>1 DEF Alone, Orderly, Held
<1>7. Own(s) = d
    BY <1>0 DEF Own
<1>8. /\ Apt(Ended, d) /\ d # 0 /\ Shape(versions, Ended, d) /\ LogGood(versions, Ended, d, W)
      /\ ~Held(s) => Untouched(versions, d)
    BY <1>0, <1>6, <1>7, OwnApt, Ready
<1>9. OwnOne(versions, d)
  <2> DEFINE S == {i \in DOMAIN versions : versions[i].created_xmin = d}
  <2>1. Len(versions) \in Nat /\ DOMAIN versions = 1 .. Len(versions)
      BY <1>8, VersionLen DEF Shape
  <2>2. IsFiniteSet(S)
    <3>1. S \in SUBSET (1 .. Len(versions))
        BY <2>1
    <3>2. IsFiniteSet(1 .. Len(versions))
        BY <2>1, FS_Interval
    <3> HIDE DEF S
    <3> QED  BY <3>1, <3>2, FS_Subset
  <2>3. \A i, j \in S : i = j
    <3>1. Cardinality(S) <= 1
        BY <1>2
    <3> HIDE DEF S
    <3> QED  BY <2>2, <3>1, AtMostOne
  <2> QED  BY <2>3 DEF OwnOne
<1>10. /\ FilesGood'
       /\ Replayable' => /\ Replayable /\ Rebuilt(Recovered', versions, Ended \cup {d}, Logged')
                         /\ Replays(Recovered', versions, d, W)
  <2>1. next_xid' \in Nat /\ next_xid <= next_xid' /\ d < next_xid'
      BY <1>0, <1>1, EndedIs
  <2>2. Replayable => Rebuilt(Recovered, versions, Ended, Logged)
      BY DEF SInv
  <2> HIDE DEF d, W
  <2> QED  BY <1>1, <1>8, <1>9, <2>1, <2>2, CommitFiles
<1> QED  BY <1>6, <1>8, <1>9, <1>10 DEF CommitsOn

LEMMA CommitKeeps ==
    ASSUME Orderly, SInv, NEW s \in Sessions, Commit(s)
    PROVE  SInv'
<1> DEFINE d == txn[s].xid
           W == txn[s].writes
           h == [i \in DOMAIN issued |-> [issued[i] EXCEPT !.xid = IF @ = d THEN 0 ELSE @]]
<1>0. Types /\ InTxn(s) /\ txn \in [Sessions -> TxnRec]
    BY DEF SInv, Commit, Types
<1>1. /\ ~Refused(versions, d, W) /\ versions' = versions /\ Alone(s) /\ issued' = h
      /\ txn' = [txn EXCEPT ![s] = NoTxn] /\ active' = active \ {d}
      /\ log' = log \o records_for_commit(versions, d, W)
      /\ UNCHANGED <<next_xid, advanced, image>>
    BY DEF Commit, End
<1>3. HistoryGood(issued', next_xid)
  <2>1. issued \in Seq(Entry) /\ \A i \in DOMAIN issued : issued[i].xid < next_xid
      BY <1>0 DEF Types, HistoryGood
  <2>2. Len(issued) \in Nat /\ DOMAIN issued = 1 .. Len(issued) /\ \A i \in DOMAIN issued : issued[i] \in Entry
      BY <2>1, LenProperties, ElementOfSeq
  <2>3. next_xid \in Nat /\ 0 < next_xid
      BY <1>0, EndedIs
  <2>4. \A i \in DOMAIN issued : h[i] \in Entry /\ h[i].xid < next_xid
      BY <2>1, <2>2, <2>3 DEF Entry
  <2>5. h \in Seq(Entry) /\ DOMAIN h = DOMAIN issued
    <3>1. h \in [1 .. Len(issued) -> Entry]
        BY <2>2, <2>4
    <3> QED  BY <2>2, <3>1, SeqDef
  <2> HIDE DEF h
  <2> QED  BY <1>1, <2>4, <2>5 DEF HistoryGood
<1>4. /\ Types' /\ Ended' = Ended \cup {d}
      /\ \A o \in Sessions \ {s} : txn'[o] = txn[o] /\ txn[o].xid # txn[s].xid
    BY <1>0, <1>1, <1>3, TypesEnd
<1>5. txn'[s] = NoTxn
    BY <1>0, <1>1
<1>6. \A o \in Sessions \ {s} : ~Held(o)
    BY CommitMeets DEF CommitsOn
<1>7. Own(s) = d
    BY <1>0 DEF Own
<1>8. /\ Apt(Ended, d) /\ d # 0 /\ Shape(versions, Ended, d)
      /\ ~Held(s) => Untouched(versions, d)
    BY CommitMeets DEF CommitsOn
<1>9. OwnOne(versions, d)
    BY CommitMeets DEF CommitsOn
<1>10. FilesGood' /\ (Replayable' => Rebuilt(Recovered', versions, Ended \cup {d}, Logged'))
    BY CommitMeets
<1>11. Shape(versions', Ended', 0)
    BY <1>1, <1>4, <1>8, <1>9, EndShape DEF OwnOne
<1>12. Replayable' => Rebuilt(Recovered, versions, Ended, Logged)'
    BY <1>1, <1>4, <1>10
<1>13. \/ Xids(versions') \subseteq Xids(versions) /\ Untouched(versions, d)
       \/ \A o \in Sessions \ {s} : txn[o].snap = NoSnapshot
  <2>1. CASE Held(s)
      BY <2>1 DEF SInv, Solo
  <2>2. CASE ~Held(s)
      BY <1>1, <1>8, <2>2
  <2> QED  BY <2>1, <2>2
<1>14. Ended' = Ended \cup {Own(s)}
    BY <1>4, <1>7
<1> HIDE DEF d
<1> QED  BY <1>4, <1>5, <1>6, <1>7, <1>10, <1>11, <1>12, <1>13, <1>14, EndStep


\* A statement outside blocks.
AutocommitsOn(s, q, d, out, M) ==
    /\ (\A o \in Sessions \ {s} : ~Held(o)) /\ Allowed(q, versions, d)
    /\ Apt(Ended, d) /\ d # 0 /\ d \in Nat
    /\ Shape(versions, Ended, d) /\ LogGood(versions, Ended, d, <<>>)
    /\ Untouched(versions, d) /\ Shape(versions, Ended, 0)
    /\ Reads(versions, [next_xid |-> d + 1, active |-> active \cup {d}], d)
    /\ Done(versions, out, Ended, d, <<>>) /\ (q.kind \notin DDL => out.ops = <<>>)
    /\ M \in Seq(OpRec) /\ NoDdl(M)
    /\ LogGood(out.versions, Ended, d, out.ops) /\ LogGood(out.versions, Ended, d, out.ops \o M)
    /\ OwnOne(out.versions, d)

LEMMA AutocommitMeets ==
    ASSUME Orderly, SInv, NEW s \in Sessions, NEW q \in Statements, autocommit_execute(s, q)
    PROVE  LET d == next_xid
               out == execute(q, versions, [next_xid |-> d + 1, active |-> active \cup {d}], d)
               M == IF out.ok THEN Marker(out) ELSE <<>> IN
           AutocommitsOn(s, q, d, out, M)
<1> DEFINE d == next_xid
           out == execute(q, versions, [next_xid |-> d + 1, active |-> active \cup {d}], d)
           M == IF out.ok THEN Marker(out) ELSE <<>>
           W == out.ops \o M
<1>0. Types /\ ~InTxn(s) /\ txn[s] = NoTxn
    BY DEF SInv, autocommit_execute, Types
<1>1. MayIssue(s, q, versions, d)
    BY DEF autocommit_execute
<1>2. Own(s) = d /\ Sees(s) = [next_xid |-> d + 1, active |-> active \cup {d}]
    BY <1>0 DEF Own, Sees
<1>3. /\ \A o \in Sessions \ {s} : ~Held(o)
      /\ q.kind \in DDL => \A o \in Sessions \ {s} : txn[o].snap = NoSnapshot
      /\ Allowed(q, versions, d)
    BY <1>1, <1>2, MayIssueIs
<1>4. Apt(Ended, d) /\ d # 0 /\ d \in Nat
    BY <1>0, <1>2, OwnApt
<1>5. ~Held(s)
    BY <1>0, NoTxnIs DEF Held, Has
<1>6. /\ Shape(versions, Ended, d) /\ LogGood(versions, Ended, d, <<>>)
      /\ Untouched(versions, d) /\ Shape(versions, Ended, 0)
    BY <1>0, <1>2, <1>3, <1>5, NoTxnIs, Ready
<1>13. Reads(versions, [next_xid |-> d + 1, active |-> active \cup {d}], d)
    BY <1>2, <1>3, ReadyReads
<1>7. Done(versions, out, Ended, d, <<>>) /\ (q.kind \notin DDL => out.ops = <<>>)
  <2> HIDE DEF d
  <2> QED  BY <1>3, <1>4, <1>6, <1>13, StatementDone
<1>8. M \in Seq(OpRec) /\ NoDdl(M)
  <2>1. Marker(out) \in Seq(OpRec) /\ NoDdl(Marker(out)) /\ <<>> \in Seq(OpRec) /\ NoDdl(<<>>)
      BY MarkerIs, EmptySeq DEF NoDdl
  <2> QED  BY <2>1
<1> DEFINE ws == out.versions
<1> HIDE DEF out, M
<1>9. /\ Shape(ws, Ended, d) /\ ShownParams(ws, Ended) = ShownParams(versions, Ended)
      /\ out.ops \in Seq(OpRec) /\ OneMore(versions, ws, d)
      /\ Xids(ws) \subseteq Xids(versions) \cup {0, d}
      /\ out.ops = <<>> => Xids(ws) = Xids(versions)
      /\ out.ok \in BOOLEAN /\ out.moved \in BOOLEAN /\ out.value \in Option(Ints)
    BY <1>7 DEF Done
<1>10. LogGood(ws, Ended, d, out.ops)
  <2>1. <<>> \o out.ops = out.ops
      BY <1>9, ConcatEmptySeq, Zenon
  <2> QED  BY <1>7, <2>1 DEF Done
<1>11. LogGood(ws, Ended, d, W)
    BY <1>8, <1>9, <1>10, LogMark
<1>12. OwnOne(ws, d)
    BY <1>6, <1>9 DEF OneMore, Untouched, OwnOne
<1> HIDE DEF W, ws
<1>14. AutocommitsOn(s, q, d, out, M)
  <2> HIDE DEF d
  <2> QED  BY <1>3, <1>4, <1>6, <1>7, <1>8, <1>10, <1>11, <1>12, <1>13 DEF AutocommitsOn, W, ws
<1> QED  BY <1>14 DEF out, M

LEMMA AutocommitKeeps ==
    ASSUME Orderly, SInv, NEW s \in Sessions, NEW q \in Statements, autocommit_execute(s, q)
    PROVE  SInv'
<1> DEFINE d == next_xid
           out == execute(q, versions, [next_xid |-> d + 1, active |-> active \cup {d}], d)
           M == IF out.ok THEN Marker(out) ELSE <<>>
           W == out.ops \o M
           kept == out.ok /\ ~Refused(out.versions, d, W)
<1>0. Types /\ ~InTxn(s) /\ txn[s] = NoTxn
    BY DEF SInv, autocommit_execute, Types
<1>1. /\ MayIssue(s, q, versions, d) /\ next_xid' = d + 1 /\ advanced' = FALSE
      /\ versions' = IF kept THEN out.versions ELSE undo_all(out.versions, d, out.ops)
      /\ log' = log \o (IF kept THEN records_for_commit(out.versions, d, W) ELSE <<>>)
      /\ Issue(out, 0, FALSE) /\ next_xid < MaxXid
      /\ UNCHANGED <<active, txn, image>>
    BY DEF autocommit_execute
<1>2. Own(s) = d /\ Sees(s) = [next_xid |-> d + 1, active |-> active \cup {d}]
    BY <1>0 DEF Own, Sees
<1>3. /\ \A o \in Sessions \ {s} : ~Held(o)
      /\ q.kind \in DDL => \A o \in Sessions \ {s} : txn[o].snap = NoSnapshot
    BY <1>1, <1>2, MayIssueIs
<1>5. AutocommitsOn(s, q, d, out, M)
    BY AutocommitMeets
<1> DEFINE ws == out.versions
<1> HIDE DEF out, M
<1>4. Apt(Ended, d) /\ d # 0 /\ d \in Nat
    BY <1>5 DEF AutocommitsOn
<1>6. Shape(versions, Ended, d) /\ Untouched(versions, d)
    BY <1>5 DEF AutocommitsOn
<1>7. Done(versions, out, Ended, d, <<>>) /\ (q.kind \notin DDL => out.ops = <<>>)
    BY <1>5 DEF AutocommitsOn
<1>9. /\ Shape(ws, Ended, d) /\ ShownParams(ws, Ended) = ShownParams(versions, Ended)
      /\ out.ops \in Seq(OpRec)
      /\ Xids(ws) \subseteq Xids(versions) \cup {0, d}
      /\ out.ops = <<>> => Xids(ws) = Xids(versions)
      /\ out.ok \in BOOLEAN /\ out.moved \in BOOLEAN /\ out.value \in Option(Ints)
    BY <1>7 DEF Done
<1>10. LogGood(ws, Ended, d, out.ops)
    BY <1>5 DEF AutocommitsOn
<1>11. LogGood(ws, Ended, d, W)
    BY <1>5 DEF AutocommitsOn
<1>12. OwnOne(ws, d)
    BY <1>5 DEF AutocommitsOn
<1>13. HistoryGood(issued', next_xid + 1)
  <2>1. HistoryGood(issued, next_xid) /\ next_xid \in Nat /\ 0 < next_xid
      BY <1>0, <1>4, EndedIs DEF Types
  <2> DEFINE c == FALSE
             x == 0
  <2>2. Issue(out, x, c) /\ c \in BOOLEAN /\ x \in Nat /\ x < next_xid
      BY <1>1, <2>1
  <2>3. HistoryGood(issued', next_xid)
    <3> HIDE DEF x, c
    <3> QED  BY <1>9, <2>1, <2>2, IssueGood
  <2>4. next_xid + 1 \in Nat /\ next_xid <= next_xid + 1
      BY <2>1
  <2> QED  BY <2>1, <2>3, <2>4, HistoryGrow
<1>14. Types' /\ Ended' = Ended \cup {d}
    BY <1>0, <1>1, <1>13, TypesNext
<1>15. txn'[s] = NoTxn /\ \A o \in Sessions \ {s} : txn'[o] = txn[o]
    BY <1>0, <1>1
<1>16. Ended' = Ended \cup {Own(s)}
    BY <1>2, <1>14
<1>17. next_xid' \in Nat /\ next_xid <= next_xid' /\ d < next_xid'
    BY <1>1, <1>4
<1>18. Replayable => Rebuilt(Recovered, ws, Ended, Logged)
    BY <1>9 DEF SInv, Rebuilt
<1>19. CASE kept
  <2>1. versions' = ws /\ log' = log \o records_for_commit(ws, d, W) /\ ~Refused(ws, d, W) /\ image' = image
      BY <1>1, <1>19
  <2>2. FilesGood' /\ (Replayable' => Rebuilt(Recovered', ws, Ended \cup {d}, Logged'))
    <3> HIDE DEF d, W, ws
    <3> QED  BY <1>4, <1>9, <1>11, <1>12, <1>17, <1>18, <2>1, CommitFiles DEF d
  <2>3. Shape(versions', Ended', 0)
      BY <1>4, <1>9, <1>12, <1>14, <2>1, EndShape DEF OwnOne
  <2>4. Replayable' => Rebuilt(Recovered, versions, Ended, Logged)'
      BY <1>14, <2>1, <2>2
  <2>5. \/ Xids(versions') \subseteq Xids(versions) /\ Untouched(versions, Own(s))
        \/ \A o \in Sessions \ {s} : txn[o].snap = NoSnapshot
      BY <1>2, <1>3, <1>6, <1>7, <1>9, <2>1
  <2> HIDE DEF d, W, ws
  <2> QED  BY <1>3, <1>14, <1>15, <1>16, <2>2, <2>3, <2>4, <2>5, EndStep
<1>20. CASE ~kept
  <2>1. versions' = undo_all(ws, d, out.ops) /\ image' = image
      BY <1>1, <1>20
  <2>2. log' = log
    <3>1. log' = log \o <<>> /\ log \in Seq(RecordRec)
        BY <1>1, <1>20 DEF SInv, FilesGood
    <3> QED  BY <3>1, ConcatEmptySeq, Zenon
  <2>3. FilesGood' /\ Recovered' = Recovered /\ Logged' = Logged /\ Replayable' = Replayable
      BY <1>17, <2>1, <2>2, FilesKept
  <2>4. /\ Shape(versions', Ended \cup {d}, 0)
        /\ Shape(versions', Ended, d) /\ ShownParams(versions', Ended) = ShownParams(ws, Ended)
        /\ Untouched(versions', d)
    <3> DEFINE ops == out.ops
               us == undo_all(ws, d, ops)
    <3>1. Apt(Ended, d) /\ d # 0 /\ Shape(ws, Ended, d) /\ LogGood(ws, Ended, d, ops)
        BY <1>4, <1>9, <1>10
    <3> HIDE DEF d, ws, ops
    <3>2. /\ Shape(us, Ended \cup {d}, 0) /\ Untouched(us, d)
          /\ ShownParams(us, Ended \cup {d}) = ShownParams(ws, Ended)
          /\ Shape(us, Ended, 0) /\ Shape(us, Ended, d) /\ ShownParams(us, Ended) = ShownParams(ws, Ended)
        BY <3>1, UndoneAll
    <3>3. versions' = us
        BY <2>1 DEF ops
    <3> HIDE DEF us
    <3> QED  BY <3>2, <3>3
  <2>5. ASSUME Replayable' PROVE Rebuilt(Recovered, versions, Ended, Logged)'
    <3>1. Rebuilt(Recovered, ws, Ended, Logged)
        BY <1>18, <2>3, <2>5
    <3>2. Rebuilt(Recovered, versions', Ended, Logged)
        BY <2>4, <3>1 DEF Rebuilt
    <3>3. d \notin Ended \cup {0}
        BY <1>4 DEF Apt
    <3>4. Rebuilt(Recovered, versions', Ended \cup {d}, Logged)
        BY <2>4, <3>2, <3>3, GrowRebuilt
    <3> QED  BY <1>14, <2>3, <3>4 DEF d
  <2>6. Shape(versions', Ended', 0)
      BY <1>14, <2>4
  <2>7. \/ Xids(versions') \subseteq Xids(versions) /\ Untouched(versions, Own(s))
        \/ \A o \in Sessions \ {s} : txn[o].snap = NoSnapshot
    <3>1. CASE q.kind \in DDL
        BY <1>3, <3>1
    <3>2. CASE q.kind \notin DDL
      <4>1. out.ops = <<>> /\ NoDdl(<<>>) /\ <<>> \in Seq(OpRec)
          BY <1>7, <3>2, EmptySeq DEF NoDdl
      <4>2. versions' = ws
          BY <2>1, <4>1, UndoQuiet
      <4> QED  BY <1>2, <1>6, <1>9, <4>1, <4>2
    <3> QED  BY <3>1, <3>2
  <2> HIDE DEF d, W, ws
  <2> QED  BY <1>3, <1>14, <1>15, <1>16, <2>3, <2>5, <2>6, <2>7, EndStep
<1> QED  BY <1>19, <1>20


\* Every step knows the transaction with the DDL, if there is one.
LEMMA SomeShape ==
    ASSUME SInv
    PROVE  \E d \in 0 .. next_xid - 1 : Shape(versions, Ended, d) /\ Apt(Ended, d)
<1>1. Types /\ Blocks /\ next_xid \in Nat \ {0}
    BY EndedIs DEF SInv
<1>2. CASE \A s \in Sessions : ~Held(s)
  <2>1. Apt(Ended, 0) /\ 0 \in 0 .. next_xid - 1
      BY <1>1, EndedIs DEF Apt
  <2> QED  BY <1>1, <1>2, <2>1 DEF Blocks
<1>3. ASSUME NEW s \in Sessions, Held(s)
      PROVE  \E d \in 0 .. next_xid - 1 : Shape(versions, Ended, d) /\ Apt(Ended, d)
  <2>1. Shape(versions, Ended, txn[s].xid)
      BY <1>1, <1>3 DEF Blocks
  <2>2. InTxn(s)
      BY <1>1, <1>3, NoTxnIs DEF Types, Held, Has
  <2>3. Apt(Ended, txn[s].xid) /\ txn[s].xid \in 0 .. next_xid - 1
      BY <1>1, <2>2, EndedIs DEF Apt
  <2> QED  BY <2>1, <2>3
<1> QED  BY <1>2, <1>3

\* Every version of R has its position from one that vs shows.
Copies(R, vs, C) ==
    \A i \in DOMAIN R : \E k \in DOMAIN vs : IsShown(vs[k], C) /\ SamePos(R[i], vs[k])

LEMMA CheckpointKeeps ==
    ASSUME SInv, checkpoint
    PROVE  SInv' /\ Copies(Recovered', versions, Ended)
<1> DEFINE Kept(v) == /\ xid_committed(v.created_xmin)
                      /\ v.dropped_xmax = 0 \/ ~xid_committed(v.dropped_xmax)
           K == {i \in DOMAIN versions : Kept(versions[i])}
           ks == Picked(versions, K)
           ws == [i \in DOMAIN ks |-> [ks[i] EXCEPT !.dropped_xmax = 0]]
<1>0. Types /\ FilesGood
    BY DEF SInv
<1>1. /\ image' = [versions |-> ws, next_xid |-> next_xid] /\ log' = <<>>
      /\ UNCHANGED <<versions, next_xid, active, advanced, txn, issued>>
    BY DEF checkpoint
<1>2. PICK d : Shape(versions, Ended, d) /\ Apt(Ended, d)
    BY SomeShape
<1>3. versions \in Seq(Version) /\ \A i \in DOMAIN versions : versions[i] \in Version
    BY <1>2, VersionLen DEF Shape
<1>4. \A i \in DOMAIN versions : i \in K <=> IsShown(versions[i], Ended)
  <2>1. ASSUME NEW i \in DOMAIN versions PROVE Kept(versions[i]) <=> IsShown(versions[i], Ended)
    <3>1. versions[i].created_xmin \in Nat \ {0} /\ versions[i].dropped_xmax \in Nat
        BY <1>3 DEF Version
    <3>2. \A x \in Nat \ {0} : xid_committed(x) <=> x \in Ended
        BY <1>0, EndedIs DEF xid_committed
    <3>3. 0 \notin Ended
        BY <1>0, EndedIs
    <3> QED  BY <3>1, <3>2, <3>3 DEF IsShown
  <2> HIDE DEF Kept
  <2> QED  BY <2>1
<1> HIDE DEF K
<1>5. K \in SUBSET DOMAIN versions
    BY DEF K
<1>6. /\ Shape(ks, Ended, d)
      /\ \A i \in DOMAIN ks : \E k \in K : ks[i] = versions[k]
      /\ \A k \in K : \E i \in DOMAIN ks : ks[i] = versions[k]
      /\ \A i, j \in DOMAIN ks : i # j => \E k, l \in K : k # l /\ ks[i] = versions[k] /\ ks[j] = versions[l]
    BY <1>2, <1>5, KeptList
<1> HIDE DEF ks
<1>7. /\ Len(ks) \in Nat /\ DOMAIN ks = 1 .. Len(ks) /\ \A i \in DOMAIN ks : ks[i] \in Version
    BY <1>6, VersionLen DEF Shape
<1>8. \A i, j \in DOMAIN ks : i = j
  <2>1. \A k, l \in K : k = l
      BY <1>2, <1>4, <1>5, OneOnly
  <2> QED  BY <1>6, <2>1
<1>9. Len(ks) <= 1
  <2>1. SUFFICES ASSUME 2 <= Len(ks) PROVE FALSE
      BY <1>7
  <2>2. 1 \in DOMAIN ks /\ 2 \in DOMAIN ks
      BY <1>7, <2>1
  <2> QED  BY <1>8, <2>2
<1>10. \A i \in DOMAIN ks :
        /\ ws[i] \in Version /\ ws[i].dropped_xmax = 0 /\ ws[i].created_xmin = ks[i].created_xmin
        /\ ws[i].current = ks[i].current /\ ws[i].is_called = ks[i].is_called
        /\ ws[i].increment = ks[i].increment /\ ws[i].min = ks[i].min /\ ws[i].max = ks[i].max
        /\ ws[i].start = ks[i].start /\ ws[i].type = ks[i].type /\ ws[i].cycle = ks[i].cycle
    BY <1>7 DEF Version
<1>11. DOMAIN ws = DOMAIN ks /\ ws \in Seq(Version) /\ Len(ws) <= 1
  <2>1. ws \in [1 .. Len(ks) -> Version] /\ DOMAIN ws = 1 .. Len(ks)
      BY <1>7, <1>10
  <2>2. ws \in Seq(Version)
      BY <1>7, <2>1, SeqDef
  <2>3. Len(ws) = Len(ks)
    <3> HIDE DEF ws
    <3>1. Len(ws) \in Nat /\ DOMAIN ws = 1 .. Len(ws)
        BY <2>2, LenProperties
    <3> QED  BY <1>7, <2>1, <3>1
  <2> QED  BY <1>7, <1>9, <2>1, <2>2, <2>3
<1> HIDE DEF ws
<1>12. \A i \in DOMAIN ks : ks[i].created_xmin \in Ended /\ Sound(ks[i])
    BY <1>4, <1>5, <1>6 DEF IsShown, Shape, Fits
<1>13. \A i \in DOMAIN ks : Sound(ws[i]) /\ Live(ws[i]) /\ Params(ws[i]) = Params(ks[i])
    BY <1>10, <1>12 DEF Sound, Live, Params
<1>14. next_xid \in Nat \ {0} /\ \A x \in Ended : x \in Nat \ {0} /\ x < next_xid
    BY <1>0, EndedIs DEF Ended
<1>15. FilesGood'
  <2>1. image'.versions = ws /\ image'.next_xid = next_xid
      BY <1>1
  <2>2. \A i \in DOMAIN ws : Sound(ws[i]) /\ Live(ws[i]) /\ ws[i].created_xmin < next_xid
      BY <1>10, <1>11, <1>12, <1>13, <1>14
  <2>3. <<>> \in Seq(RecordRec) /\ DOMAIN <<>> = {}
      BY EmptySeq
  <2>4. next_xid' = next_xid /\ log' = <<>> /\ next_xid \in 1 .. next_xid
      BY <1>1, <1>14
  <2> QED  BY <1>11, <2>1, <2>2, <2>3, <2>4 DEF FilesGood
<1>16. Recovered' = ws
    BY <1>1, ReplayNone DEF Recovered
<1>17. \A x \in Ended : x \in Logged'
    BY <1>1, <1>14 DEF Logged
<1>18. Ended' = Ended /\ Types'
    BY <1>0, <1>1 DEF Ended, Types, InTxn
<1>19. Rebuilt(ws, versions, Ended, Logged')
  <2>1. Shape(ws, Ended, 0)
    <3>1. \A i \in DOMAIN ws : Fits(ws[i], Ended, 0)
        BY <1>10, <1>11, <1>12, <1>13 DEF Fits
    <3>2. \A i, j \in DOMAIN ws : i = j
        BY <1>8, <1>11
    <3> QED  BY <1>11, <3>1, <3>2 DEF Shape
  <2>2. \A i \in DOMAIN ws : ws[i].created_xmin \in Logged' /\ ws[i].dropped_xmax \in Logged' \cup {0}
      BY <1>10, <1>11, <1>12, <1>17
  <2>3. LiveParams(ws) = ShownParams(versions, Ended)
    <3>1. ASSUME NEW i \in DOMAIN ws
          PROVE  \E k \in DOMAIN versions : IsShown(versions[k], Ended) /\ Params(versions[k]) = Params(ws[i])
      <4>1. PICK k \in K : ks[i] = versions[k]
          BY <1>6, <1>11
      <4> QED  BY <1>4, <1>5, <1>11, <1>13, <4>1
    <3>2. ASSUME NEW k \in DOMAIN versions, IsShown(versions[k], Ended)
          PROVE  \E i \in DOMAIN ws : Live(ws[i]) /\ Params(versions[k]) = Params(ws[i])
      <4>1. PICK i \in DOMAIN ks : ks[i] = versions[k]
          BY <1>4, <1>6, <3>2
      <4> QED  BY <1>11, <1>13, <4>1
    <3>3. \A z : z \in LiveParams(ws) <=> z \in ShownParams(versions, Ended)
        BY <3>1, <3>2 DEF LiveParams, ShownParams
    <3> QED  BY <3>3
  <2> QED  BY <2>1, <2>2, <2>3 DEF Rebuilt
<1>20. Solo' /\ SnapshotsFresh' /\ Blocks'
  <2>1. Solo /\ SnapshotsFresh /\ Blocks
      BY DEF SInv
  <2>2. \A s \in Sessions : Held(s)' <=> Held(s)
      BY <1>1 DEF Held
  <2> QED  BY <1>1, <1>18, <2>1, <2>2 DEF Solo, SnapshotsFresh, Blocks
<1>21. Rebuilt(Recovered, versions, Ended, Logged)'
    BY <1>1, <1>16, <1>18, <1>19
<1>22. Copies(ws, versions, Ended)
  <2>1. ASSUME NEW i \in DOMAIN ws
        PROVE  \E k \in DOMAIN versions : IsShown(versions[k], Ended) /\ SamePos(ws[i], versions[k])
    <3>1. PICK k \in K : ks[i] = versions[k]
        BY <1>6, <1>11
    <3>2. SamePos(ws[i], versions[k])
        BY <1>10, <1>11, <3>1 DEF SamePos
    <3> QED  BY <1>4, <1>5, <3>1, <3>2
  <2> QED  BY <2>1 DEF Copies
<1> QED  BY <1>15, <1>16, <1>18, <1>20, <1>21, <1>22 DEF SInv


\* The xid after a restart.
LEMMA RecoveredXidIs ==
    ASSUME Types, FilesGood
    PROVE  /\ RecoveredXid \in 1 .. next_xid /\ image.next_xid \in 1 .. RecoveredXid
           /\ \A i \in DOMAIN log : log[i].xid < RecoveredXid
<1> DEFINE I == {image.next_xid} \cup {log[i].xid + 1 : i \in DOMAIN log}
<1>1. next_xid \in Nat /\ image.next_xid \in 1 .. next_xid
    BY EndedIs DEF FilesGood
<1>2. \A i \in DOMAIN log : log[i].xid \in Nat /\ log[i].xid < next_xid
  <2>1. \A i \in DOMAIN log : log[i] \in RecordRec
      BY LenProperties, ElementOfSeq DEF FilesGood
  <2> QED  BY <2>1 DEF FilesGood, RecordRec
<1>3. I \subseteq 1 .. next_xid /\ I # {}
    BY <1>1, <1>2
<1>4. RecoveredXid = Max(I)
    BY DEF RecoveredXid
<1>5. image.next_xid \in I /\ \A i \in DOMAIN log : log[i].xid + 1 \in I
    OBVIOUS
<1> HIDE DEF I
<1>6. Max(I) \in 1 .. next_xid /\ \A y \in I : y <= Max(I)
    BY <1>1, <1>3, LastOf
<1>7. image.next_xid <= Max(I) /\ \A i \in DOMAIN log : log[i].xid + 1 <= Max(I)
    BY <1>5, <1>6
<1>8. \A i \in DOMAIN log : log[i].xid < Max(I)
    BY <1>1, <1>2, <1>6, <1>7
<1> QED  BY <1>1, <1>4, <1>6, <1>7, <1>8

LEMMA CrashKeeps ==
    ASSUME SInv, Crash
    PROVE  SInv'
<1> DEFINE R == Recovered
           n == RecoveredXid
           K == {i \in DOMAIN issued : issued[i].xid = 0}
<1>0. Types /\ FilesGood
    BY DEF SInv
<1>1. /\ Replayable /\ versions' = R /\ next_xid' = n /\ active' = {} /\ advanced' = FALSE
      /\ txn' = [s \in Sessions |-> NoTxn] /\ issued' = Picked(issued, K)
      /\ UNCHANGED <<log, image>>
    BY DEF Crash
<1>2. /\ n \in 1 .. next_xid /\ image.next_xid \in 1 .. n
      /\ \A i \in DOMAIN log : log[i].xid < n
    BY <1>0, RecoveredXidIs
<1>3. n \in 1 .. MaxXid /\ n \in Nat \ {0}
    BY <1>0, <1>2, SequencesAssumption DEF Types
<1> HIDE DEF n
<1>4. Ended' = 1 .. n - 1
    BY <1>1 DEF Ended
<1>5. \A x \in Logged : x \in Ended'
    BY <1>2, <1>3, <1>4 DEF Logged
<1>6. Rebuilt(R, versions, Ended, Logged)
    BY <1>1 DEF SInv
<1> HIDE DEF R
<1>7. /\ Shape(R, Ended, 0) /\ 0 \notin Ended /\ 0 \notin Ended'
      /\ \A i \in DOMAIN R : /\ R[i].created_xmin \in Logged /\ R[i].dropped_xmax \in Logged \cup {0}
                             /\ R[i].created_xmin \in Ended /\ R[i].created_xmin \in Ended'
                             /\ R[i].dropped_xmax \in Ended' \cup {0} /\ Sound(R[i])
  <2>1. \A i \in DOMAIN R : R[i].created_xmin \in Logged /\ R[i].dropped_xmax \in Logged \cup {0}
      BY <1>6 DEF Rebuilt
  <2>2. Shape(R, Ended, 0) /\ 0 \notin Ended /\ 0 \notin Ended'
      BY <1>0, <1>3, <1>4, <1>6, EndedIs DEF Rebuilt
  <2>3. \A i \in DOMAIN R : Fits(R[i], Ended, 0) /\ Sound(R[i]) /\ R[i].created_xmin # 0
      BY <2>2 DEF Shape, Fits, Sound, Version
  <2> QED  BY <1>5, <2>1, <2>2, <2>3 DEF Fits
<1>8. \A i \in DOMAIN R : IsShown(R[i], Ended') <=> Live(R[i])
    BY <1>7 DEF IsShown, Live
<1>9. Shape(R, Ended', 0)
  <2>1. \A i \in DOMAIN R : Fits(R[i], Ended', 0)
      BY <1>7 DEF Fits
  <2>2. \A i, j \in DOMAIN R : i # j => Apart(R[i], R[j], Ended')
      BY <1>7, <1>8 DEF Shape, Apart
  <2> QED  BY <1>7, <2>1, <2>2 DEF Shape
<1>10. LiveParams(R) = ShownParams(R, Ended')
    BY <1>8 DEF LiveParams, ShownParams
<1>11. HistoryGood(issued', n)
  <2>1. HistoryGood(issued, next_xid) /\ K \in SUBSET DOMAIN issued /\ K = {i \in DOMAIN issued : issued[i].xid = 0}
      BY <1>0 DEF Types
  <2>2. \A i \in K : issued[i].xid = 0
      BY <2>1
  <2> HIDE DEF K
  <2>3. HistoryGood(issued', next_xid) /\ \E e : Lists(Entry, issued, K, issued', e)
      BY <1>1, <2>1, PickedHistory
  <2>4. PICK e : Lists(Entry, issued, K, issued', e)
      BY <2>3
  <2>5. issued' \in Seq(Entry) /\ DOMAIN issued' = 1 .. Len(issued')
      BY <2>3, LenProperties DEF HistoryGood
  <2>6. \A i \in DOMAIN issued' : issued'[i].xid = 0
      BY <2>2, <2>4, <2>5 DEF Lists
  <2>7. 0 < n
      BY <1>3
  <2> QED  BY <2>5, <2>6, <2>7 DEF HistoryGood
<1>12. \A s \in Sessions : txn'[s] = NoTxn /\ ~InTxn(s)' /\ ~Held(s)'
    BY <1>1, NoTxnIs DEF Held, Has, InTxn
<1>13. Types'
  <2>1. active' = {txn'[s].xid : s \in {o \in Sessions : InTxn(o)'}}
      BY <1>1, <1>12
  <2>2. txn' \in [Sessions -> TxnRec] /\ \A s \in Sessions : SavesGood(txn'[s])
      BY <1>1, <1>12, NoTxnIs
  <2> QED  BY <1>1, <1>3, <1>11, <1>12, <2>1, <2>2 DEF Types, InTxn
<1>14. Solo' /\ SnapshotsFresh' /\ Blocks'
  <2>1. Solo' /\ SnapshotsFresh'
      BY <1>12, NoTxnIs DEF Solo, SnapshotsFresh
  <2>2. Blocks'
      BY <1>1, <1>9, <1>12 DEF Blocks
  <2> QED  BY <2>1, <2>2
<1>15. FilesGood'
    BY <1>0, <1>1, <1>2 DEF FilesGood
<1>16. Rebuilt(Recovered, versions, Ended, Logged)'
  <2>1. Recovered' = R /\ Logged' = Logged
      BY <1>1 DEF Recovered, Logged, R
  <2>2. Rebuilt(R, R, Ended', Logged)
      BY <1>7, <1>9, <1>10 DEF Rebuilt
  <2> QED  BY <1>1, <2>1, <2>2
<1> QED  BY <1>13, <1>14, <1>15, <1>16 DEF SInv

LEMMA InitHolds ==
    ASSUME Init
    PROVE  SInv
<1>1. /\ active = {} /\ advanced = FALSE /\ txn = [s \in Sessions |-> NoTxn] /\ log = <<>> /\ issued = <<>>
      /\ versions = image.versions /\ next_xid = image.next_xid
    BY DEF Init
<1>2. \/ versions = <<>> /\ next_xid = 1
      \/ \E v : versions = <<v>> /\ next_xid = 2 /\ Sound(v) /\ Live(v) /\ v.created_xmin = 1
  <2>1. CASE image = [versions |-> <<>>, next_xid |-> 1]
      BY <1>1, <2>1
  <2>2. CASE image # [versions |-> <<>>, next_xid |-> 1]
    <3>1. PICK o \in CreateOpts : /\ sequence_params(o, None)
                                  /\ image = [versions |-> <<NewVersion(Resolved(o, None), 1)>>, next_xid |-> 2]
        BY <2>2 DEF Init
    <3> DEFINE v == NewVersion(Resolved(o, None), 1)
    <3>2. o \in Opts
        BY SequencesAssumption
    <3>3. Sound(v) /\ Live(v) /\ v.created_xmin = 1
        BY <3>1, <3>2, CreatedSound
    <3> HIDE DEF v
    <3>4. versions = <<v>> /\ next_xid = 2
        BY <1>1, <3>1 DEF v
    <3> QED  BY <3>3, <3>4
  <2> QED  BY <2>1, <2>2
<1>3. /\ versions \in Seq(Version) /\ Len(versions) \in Nat /\ Len(versions) <= 1
      /\ DOMAIN versions = 1 .. Len(versions)
      /\ \A i \in DOMAIN versions : /\ Sound(versions[i]) /\ Live(versions[i]) /\ next_xid = 2
                                    /\ versions[i].created_xmin = 1
  <2>1. CASE versions = <<>> /\ next_xid = 1
      BY <2>1
  <2>2. ASSUME NEW v, versions = <<v>>, next_xid = 2, Sound(v), Live(v), v.created_xmin = 1
        PROVE  /\ versions \in Seq(Version) /\ Len(versions) \in Nat /\ Len(versions) <= 1
               /\ DOMAIN versions = 1 .. Len(versions)
               /\ \A i \in DOMAIN versions : /\ Sound(versions[i]) /\ Live(versions[i]) /\ next_xid = 2
                                             /\ versions[i].created_xmin = 1
    <3>1. v \in Version
        BY <2>2 DEF Sound
    <3>2. versions \in Seq(Version) /\ Len(versions) = 1 /\ DOMAIN versions = {1} /\ versions[1] = v
        BY <2>2, <3>1
    <3>3. DOMAIN versions = 1 .. Len(versions) /\ Len(versions) \in Nat
        BY <3>2, LenProperties
    <3> QED  BY <2>2, <3>2, <3>3
  <2> QED  BY <1>2, <2>1, <2>2
<1>4. next_xid \in {1, 2} /\ next_xid \in 1 .. MaxXid
    BY <1>2, SequencesAssumption
<1>5. Ended = {x \in 1 .. next_xid - 1 : TRUE} /\ 0 \notin Ended
    BY <1>1, <1>4 DEF Ended
<1>6. \A s \in Sessions : txn[s] = NoTxn /\ ~InTxn(s) /\ ~Held(s)
    BY <1>1, NoTxnIs DEF Held, Has, InTxn
<1>7. Types
  <2>1. HistoryGood(issued, next_xid)
      BY <1>1, EmptySeq DEF HistoryGood
  <2>2. active = {txn[s].xid : s \in {o \in Sessions : InTxn(o)}}
      BY <1>1, <1>6
  <2>3. txn \in [Sessions -> TxnRec] /\ \A s \in Sessions : SavesGood(txn[s])
      BY <1>1, <1>6, NoTxnIs
  <2> QED  BY <1>1, <1>4, <1>6, <2>1, <2>2, <2>3 DEF Types
<1>8. \A i \in DOMAIN versions : versions[i].created_xmin \in Ended /\ versions[i].dropped_xmax = 0
  <2>1. \A i \in DOMAIN versions : 1 \in Ended
      BY <1>3, <1>5
  <2> QED  BY <1>3, <2>1 DEF Live
<1>9. Shape(versions, Ended, 0)
  <2>1. \A i \in DOMAIN versions : Fits(versions[i], Ended, 0)
      BY <1>3, <1>5, <1>8 DEF Fits
  <2>2. \A i, j \in DOMAIN versions : i = j
      BY <1>3
  <2> QED  BY <1>3, <2>1, <2>2 DEF Shape
<1>10. Solo /\ SnapshotsFresh /\ Blocks
    BY <1>6, <1>9, NoTxnIs DEF Solo, SnapshotsFresh, Blocks
<1>11. FilesGood
  <2>1. \A i \in DOMAIN versions : versions[i].created_xmin < next_xid
      BY <1>3
  <2>2. next_xid \in 1 .. next_xid
      BY <1>4
  <2> QED  BY <1>1, <1>3, <2>1, <2>2, EmptySeq DEF FilesGood
<1>12. Rebuilt(Recovered, versions, Ended, Logged)
  <2>1. Recovered = versions
      BY <1>1, ReplayNone DEF Recovered
  <2>2. \A x \in Ended : x \in Logged
      BY <1>1, <1>4 DEF Ended, Logged
  <2>3. \A i \in DOMAIN versions : IsShown(versions[i], Ended) <=> Live(versions[i])
      BY <1>5, <1>8 DEF IsShown, Live
  <2>4. LiveParams(versions) = ShownParams(versions, Ended)
      BY <2>3 DEF LiveParams, ShownParams
  <2> QED  BY <1>8, <1>9, <2>1, <2>2, <2>4 DEF Rebuilt
<1> QED  BY <1>7, <1>10, <1>11, <1>12 DEF SInv

LEMMA NextKeeps ==
    ASSUME Orderly, SInv, [Next]_vars
    PROVE  SInv'
<1>1. CASE Next
  <2>1. ASSUME NEW s \in Sessions, Begin(s) PROVE SInv'
      BY <2>1, BeginKeeps
  <2>2. ASSUME NEW s \in Sessions, Commit(s) PROVE SInv'
      BY <2>2, CommitKeeps
  <2>3. ASSUME NEW s \in Sessions, CommitRefused(s) PROVE SInv'
      BY <2>3, RefusedKeeps
  <2>4. ASSUME NEW s \in Sessions, txn_rollback(s) PROVE SInv'
      BY <2>4, RollbackKeeps
  <2>5. ASSUME NEW s \in Sessions, txn_savepoint(s) PROVE SInv'
      BY <2>5, SavepointKeeps
  <2>6. ASSUME NEW s \in Sessions, txn_rollback_to(s) PROVE SInv'
      BY <2>6, RollbackToKeeps
  <2>7. ASSUME NEW s \in Sessions, copy_from_ingest(s) PROVE SInv'
      BY <2>7, CopyKeeps
  <2>8. ASSUME NEW s \in Sessions, NEW q \in Statements, txn_execute(s, q) PROVE SInv'
      BY <2>8, ExecuteKeeps
  <2>9. ASSUME NEW s \in Sessions, NEW q \in Statements, autocommit_execute(s, q) PROVE SInv'
      BY <2>9, AutocommitKeeps
  <2>10. CASE checkpoint
      BY <2>10, CheckpointKeeps
  <2>11. CASE Crash
      BY <2>11, CrashKeeps
  <2> QED  BY <1>1, <2>1, <2>2, <2>3, <2>4, <2>5, <2>6, <2>7, <2>8, <2>9, <2>10, <2>11 DEF Next
<1>2. CASE UNCHANGED vars
  <2>1. UNCHANGED <<versions, next_xid, active, advanced, txn, log, image, issued>>
      BY <1>2 DEF vars
  <2>2. \A s \in Sessions : Held(s)' <=> Held(s)
      BY <2>1 DEF Held
  <2>3. Types' /\ Ended' = Ended
      BY <2>1 DEF SInv, Types, Ended, InTxn
  <2>4. Solo' /\ SnapshotsFresh' /\ Blocks'
      BY <2>1, <2>2, <2>3 DEF SInv, Solo, SnapshotsFresh, Blocks
  <2>5. FilesGood' /\ Recovered' = Recovered /\ Logged' = Logged /\ Replayable' = Replayable
      BY <2>1 DEF SInv, FilesGood, Recovered, Logged, Replayable
  <2> QED  BY <2>1, <2>3, <2>4, <2>5 DEF SInv
<1> QED  BY <1>1, <1>2


-----------------------------------------------------------------------------
(* The theorems.                                                            *)

\* The inductive invariant holds in every reachable state: the versions, the write
\* log of the block with the DDL and the files agree (storage.rs, undo_write_op;
\* wal/recovery.rs, apply_record).
THEOREM SequencesKept ==
    ASSUME Orderly
    PROVE  Spec => []SInv
<1>1. Init => SInv
    BY InitHolds
<1>2. SInv /\ [Next]_vars => SInv'
    BY NextKeeps
<1> QED
    BY <1>1, <1>2, PTL DEF Spec

\* What a session sees that has its own versions, or none.
LEMMA SeesOne ==
    ASSUME Types, NEW d, Apt(Ended, d), Shape(versions, Ended, d), NEW own \in Nat, own \notin Ended,
           NEW i \in DOMAIN versions, seq_visible(versions[i], Fresh, own)
    PROVE  /\ own = d => Live(versions[i])
           /\ own # d => IsShown(versions[i], Ended)
<1> DEFINE v == versions[i]
<1>1. /\ v.created_xmin \in Nat \ {0} /\ v.dropped_xmax \in Nat
      /\ v.created_xmin \in Ended \cup {d} /\ v.dropped_xmax \in {0, d} \cup Ended
    BY DEF Shape, Fits, Sound, Version
<1>2. \A x \in Nat \ {0} : InSnapshot(x, Fresh) <=> x \in Ended
    BY EndedIs
<1>3. 0 \notin Ended
    BY EndedIs
<1>4. v.created_xmin = own \/ InSnapshot(v.created_xmin, Fresh)
    BY DEF seq_visible
<1>5. v.dropped_xmax = 0 \/ (v.dropped_xmax # own /\ ~InSnapshot(v.dropped_xmax, Fresh))
    BY DEF seq_visible
<1> HIDE DEF v
<1>6. v.created_xmin = own \/ v.created_xmin \in Ended
    BY <1>1, <1>2, <1>4
<1>7. v.dropped_xmax = 0 \/ (v.dropped_xmax # own /\ v.dropped_xmax \notin Ended)
    BY <1>1, <1>2, <1>5
<1>8. own = d => Live(v)
    BY <1>1, <1>7 DEF Live
<1>9. own # d => IsShown(v, Ended)
    BY <1>1, <1>3, <1>6, <1>7 DEF IsShown
<1> QED  BY <1>8, <1>9 DEF v

\* A lookup by name finds at most one version, which has its types, through any
\* DDL, undo and recovery by sessions that keep out of each other's DDL
\* (find_sequence; undo_write_op; apply_record).
THEOREM SequenceTypes ==
    ASSUME Orderly
    PROVE  Spec => []TypeOK
<1>1. SInv => TypeOK
  <2> SUFFICES ASSUME SInv PROVE TypeOK
      OBVIOUS
  <2>1. PICK d \in 0 .. next_xid - 1 : Shape(versions, Ended, d) /\ Apt(Ended, d)
      BY SomeShape
  <2>2. Types /\ next_xid \in 1 .. MaxXid /\ MaxXid \in Nat
      BY SequencesAssumption DEF SInv, Types
  <2>3. Len(versions) \in Nat /\ DOMAIN versions = 1 .. Len(versions)
      BY <2>1, VersionLen DEF Shape
  <2>4. ASSUME NEW own \in active \cup {next_xid}
        PROVE  Cardinality({i \in DOMAIN versions : seq_visible(versions[i], Fresh, own)}) <= 1
    <3> DEFINE S == {i \in DOMAIN versions : seq_visible(versions[i], Fresh, own)}
    <3>1. own \in Nat /\ own \notin Ended
        BY <2>2, <2>4, EndedIs DEF Types, Ended
    <3>2. \A i \in S : (own = d => Live(versions[i])) /\ (own # d => IsShown(versions[i], Ended))
        BY <2>1, <2>2, <3>1, SeesOne
    <3>3. \A i, j \in S : i = j
        BY <2>1, <3>2, OneOnly
    <3> HIDE DEF S
    <3>4. CASE S = {}
        BY <3>4, FS_EmptySet DEF S
    <3>5. CASE S # {}
      <4>1. PICK i \in S : TRUE
          BY <3>5
      <4>2. S = {i}
          BY <3>3, <4>1
      <4> QED  BY <4>2, FS_Singleton DEF S
    <3> QED  BY <3>4, <3>5
  <2>5. ASSUME NEW i \in DOMAIN versions PROVE versions[i] \in Versions
    <3>1. versions[i] \in Version /\ Fits(versions[i], Ended, d)
        BY <2>1, <2>3, VersionLen DEF Shape
    <3>2. versions[i].created_xmin \in Ended \cup {d} /\ versions[i].dropped_xmax \in {0, d} \cup Ended
        BY <3>1 DEF Fits
    <3>3. \A x \in Ended \cup {0, d} : x \in 0 .. MaxXid
        BY <2>2 DEF Ended
    <3>4. versions[i].created_xmin \in 1 .. MaxXid /\ versions[i].dropped_xmax \in 0 .. MaxXid
        BY <2>2, <3>1, <3>2, <3>3 DEF Version
    <3> QED  BY <3>1, <3>4 DEF Version, Versions
  <2>6. \A s \in Sessions : \A i \in DOMAIN txn[s].saves : txn[s].saves[i] <= Len(txn[s].writes)
      BY <2>2 DEF Types, SavesGood
  <2>7. /\ active = {txn[s].xid : s \in {o \in Sessions : InTxn(o)}}
        /\ advanced \in BOOLEAN
      BY <2>2 DEF Types
  <2> QED  BY <2>2, <2>4, <2>5, <2>6, <2>7 DEF TypeOK, OneLive
<1> QED
    BY <1>1, SequencesKept, PTL

\* The next value of a sequence is within the bounds of its version, ascending or
\* descending, through wraps, setval, ALTER, undo and restarts, as long as no ALTER
\* leaves the position outside the new bounds (seq_nextval does not check the first
\* value that it returns).
THEOREM NextvalInBounds ==
    ASSUME Orderly, "shrink" \notin Quirks
    PROVE  Spec => []ValueInBounds
<1>1. SInv => ValueInBounds
  <2> SUFFICES ASSUME SInv, NEW i \in DOMAIN versions, NextPosition(versions[i]) # None
               PROVE  NextPosition(versions[i])[1] \in versions[i].min .. versions[i].max
      BY DEF ValueInBounds
  <2>1. Sound(versions[i])
      BY SomeShape DEF Shape, Fits
  <2> QED  BY <2>1, NextSound
<1> QED
    BY <1>1, SequencesKept, PTL

\* The parameters of the versions that a snapshot shows.
Seen(vs, snap, own) == {Params(vs[i]) : i \in {k \in DOMAIN vs : seq_visible(vs[k], snap, own)}}

LEMMA ViewSeen ==
    ASSUME NEW vs \in Seq(Version), NEW snap, NEW own
    PROVE  \/ View(vs, snap, own) = None /\ Seen(vs, snap, own) = {}
           \/ \E p \in Seen(vs, snap, own) : View(vs, snap, own) = Some(p)
<1> DEFINE i == find_sequence(vs, snap, own)
<1>1. Len(vs) \in Nat /\ DOMAIN vs = 1 .. Len(vs)
    BY VersionLen
<1>2. \/ i = 0 /\ \A j \in 1 .. Len(vs) : ~seq_visible(vs[j], snap, own)
      \/ i \in 1 .. Len(vs) /\ seq_visible(vs[i], snap, own)
    BY <1>1, FindVisible
<1>3. View(vs, snap, own) = IF i = 0 THEN None ELSE Some(Params(vs[i]))
    BY DEF View
<1> HIDE DEF i
<1>4. i \in 1 .. Len(vs) => i # 0
    BY <1>1
<1> QED  BY <1>1, <1>2, <1>3, <1>4 DEF Seen

\* A restart shows the sequence as the committed transactions made it, whatever was
\* open, rolled back or half done, as long as the log has no record of an ALTER
\* (records_for_commit; apply_record; checkpoint).
THEOREM RestartMatches ==
    ASSUME Orderly
    PROVE  Spec => []RecoveryMatches
<1>1. SInv => RecoveryMatches
  <2> DEFINE R == Recovered
             snap == [next_xid |-> RecoveredXid, active |-> {}]
  <2> SUFFICES ASSUME SInv, Replayable
               PROVE  View(R, snap, 0) = View(versions, Fresh, 0)
      BY DEF RecoveryMatches
  <2>1. PICK d \in 0 .. next_xid - 1 : Shape(versions, Ended, d) /\ Apt(Ended, d)
      BY SomeShape
  <2>2. Types /\ FilesGood /\ Rebuilt(R, versions, Ended, Logged)
      BY DEF SInv
  <2>3. /\ RecoveredXid \in 1 .. next_xid /\ image.next_xid \in 1 .. RecoveredXid
        /\ \A i \in DOMAIN log : log[i].xid < RecoveredXid
      BY <2>2, RecoveredXidIs
  <2>4. next_xid \in Nat /\ 0 \notin Ended /\ \A x \in Nat \ {0} : InSnapshot(x, Fresh) <=> x \in Ended
      BY <2>2, EndedIs
  <2>5. \A x \in Logged : x \in Nat \ {0} /\ x < RecoveredXid
      BY <2>3, <2>4 DEF Logged
  <2>6. Seen(R, snap, 0) = LiveParams(R)
    <3>1. \A i \in DOMAIN R : seq_visible(R[i], snap, 0) <=> Live(R[i])
      <4>1. ASSUME NEW i \in DOMAIN R PROVE seq_visible(R[i], snap, 0) <=> Live(R[i])
        <5>1. R[i].created_xmin \in Logged /\ R[i].dropped_xmax \in Logged \cup {0}
            BY <2>2 DEF Rebuilt
        <5>2. \A x \in Logged : InSnapshot(x, snap)
            BY <2>5 DEF InSnapshot
        <5> QED  BY <2>5, <5>1, <5>2 DEF seq_visible, Live
      <4> HIDE DEF R, snap
      <4> QED  BY <4>1
    <3> HIDE DEF R, snap
    <3> QED  BY <3>1 DEF Seen, LiveParams
  <2>7. Seen(versions, Fresh, 0) = ShownParams(versions, Ended)
    <3>1. ASSUME NEW i \in DOMAIN versions
          PROVE  seq_visible(versions[i], Fresh, 0) <=> IsShown(versions[i], Ended)
      <4>1. versions[i].created_xmin \in Nat \ {0} /\ versions[i].dropped_xmax \in Nat
          BY <2>1 DEF Shape, Fits, Sound, Version
      <4> QED  BY <2>4, <4>1 DEF seq_visible, IsShown
    <3> QED  BY <3>1 DEF Seen, ShownParams
  <2>8. \A p, o \in ShownParams(versions, Ended) : p = o
      BY <2>1, OneOnly DEF ShownParams
  <2>9. LiveParams(R) = ShownParams(versions, Ended) /\ R \in Seq(Version) /\ versions \in Seq(Version)
      BY <2>1, <2>2 DEF Rebuilt, Shape
  <2>10. /\ \/ View(R, snap, 0) = None /\ Seen(R, snap, 0) = {}
            \/ \E p \in Seen(R, snap, 0) : View(R, snap, 0) = Some(p)
         /\ \/ View(versions, Fresh, 0) = None /\ Seen(versions, Fresh, 0) = {}
            \/ \E p \in Seen(versions, Fresh, 0) : View(versions, Fresh, 0) = Some(p)
    <3> HIDE DEF R, snap
    <3> QED  BY <2>9, ViewSeen
  <2> HIDE DEF R, snap
  <2> QED  BY <2>6, <2>7, <2>8, <2>9, <2>10
<1> QED
    BY <1>1, SequencesKept, PTL


FirstDdl(W) == SelectInSeq(W, LAMBDA w : w.op \in DDL)

LEMMA FindDdl ==
    ASSUME NEW W, Len(W) \in Nat, NEW k \in 1 .. Len(W), Ddl(W[k])
    PROVE  FirstDdl(W) \in 1 .. Len(W) /\ IsFirst(W, FirstDdl(W))
<1> DEFINE I == {j \in 1 .. Len(W) : W[j].op \in DDL}
<1>1. FirstDdl(W) = IF I # {} THEN Min(I) ELSE 0
    BY DEF FirstDdl, SelectInSeq
<1>2. I \in SUBSET Nat /\ I # {}
    BY DEF Ddl
<1>3. Min(I) \in I /\ \A y \in I : Min(I) <= y
  <2> HIDE DEF I
  <2> QED  BY <1>2, MinOf
<1> DEFINE m == Min(I)
<1>4. m \in 1 .. Len(W) /\ Ddl(W[m])
    BY <1>3 DEF Ddl
<1>5. \A h \in 1 .. m - 1 : h \in 1 .. Len(W) /\ ~(m <= h)
  <2> HIDE DEF m
  <2> QED  BY <1>4
<1>6. \A h \in 1 .. m - 1 : ~Ddl(W[h])
    BY <1>3, <1>5 DEF Ddl
<1>7. FirstDdl(W) = m
    BY <1>1, <1>2
<1> HIDE DEF m
<1> QED  BY <1>4, <1>6, <1>7 DEF IsFirst

\* What an undo brings back is what the session sees.
LEMMA ViewBrought ==
    ASSUME NEW vs \in Seq(Version), NEW snap, NEW own, Reads(vs, snap, own),
           \A i, j \in DOMAIN vs : Live(vs[i]) /\ Live(vs[j]) => i = j,
           NEW prev, prev # None => Live(prev[1]), Brought(vs, prev)
    PROVE  View(vs, snap, own) = IF prev = None THEN None ELSE Some(Params(prev[1]))
<1>1. \/ View(vs, snap, own) = None /\ Seen(vs, snap, own) = {}
      \/ \E p \in Seen(vs, snap, own) : View(vs, snap, own) = Some(p)
    BY ViewSeen
<1>2. Seen(vs, snap, own) = LiveParams(vs)
    BY DEF Seen, LiveParams, Reads
<1>3. CASE prev = None
  <2>1. LiveParams(vs) = {}
      BY <1>3 DEF Brought, LiveParams
  <2> QED  BY <1>1, <1>2, <1>3, <2>1
<1>4. CASE prev # None
  <2>1. PICK i \in DOMAIN vs : vs[i] = prev[1] /\ Live(vs[i])
      BY <1>4 DEF Brought
  <2>2. \A p : p \in LiveParams(vs) <=> p = Params(prev[1])
      BY <2>1 DEF LiveParams
  <2> QED  BY <1>1, <1>2, <1>4, <2>2
<1> QED  BY <1>3, <1>4

\* The part of the write log that is undone, and what that brings back.
LEMMA UndoneBrings ==
    ASSUME NEW vs, NEW C, NEW d, NEW W, Apt(C, d), d # 0, Shape(vs, C, d), LogGood(vs, C, d, W),
           NEW m \in 0 .. Len(W), Has(SubSeq(W, m + 1, Len(W)), DDL)
    PROVE  LET B == SubSeq(W, m + 1, Len(W))
               ws == undo_all(vs, d, B)
               i == FirstDdl(B) IN
           /\ UndoneTo(vs, ws, C, d, W, m)
           /\ Brought(ws, B[i].prev) /\ (B[i].prev # None => Live(B[i].prev[1]))
<1> DEFINE B == SubSeq(W, m + 1, Len(W))
           ws == undo_all(vs, d, B)
           i == FirstDdl(B)
<1>1. W \in Seq(OpRec) /\ Len(W) \in Nat /\ DOMAIN W = 1 .. Len(W) /\ LogShape(C, d, W)
    BY LogLen DEF LogGood
<1>2. UndoneTo(vs, ws, C, d, W, m)
    BY UndoLog
<1>3. /\ DOMAIN B = 1 .. Len(W) - m /\ Len(B) = Len(W) - m
      /\ \A j \in 1 .. Len(W) - m : B[j] = W[m + j] /\ m + j \in m + 1 .. Len(W)
      /\ \A j \in m + 1 .. Len(W) : j - m \in DOMAIN B /\ B[j - m] = W[j]
    BY <1>1, Cut
<1>4. \E k \in DOMAIN B : Ddl(B[k])
    BY DEF Has, Ddl
<1> HIDE DEF B, ws
<1>5. Len(B) \in Nat /\ DOMAIN B = 1 .. Len(B) /\ m \in Nat
    BY <1>1, <1>3
<1>6. i \in 1 .. Len(B) /\ IsFirst(B, i)
    BY <1>4, <1>5, FindDdl
<1> HIDE DEF i
<1>7. m + i \in m + 1 .. Len(W) /\ m + i \in DOMAIN W /\ B[i] = W[m + i] /\ Ddl(W[m + i])
  <2>1. m + i \in m + 1 .. Len(W) /\ B[i] = W[m + i]
      BY <1>3, <1>6
  <2>2. m + i \in DOMAIN W
      BY <1>1, <1>5, <2>1
  <2> QED  BY <1>6, <2>1, <2>2 DEF IsFirst
<1>8. \A h \in m + 1 .. m + i - 1 : ~Ddl(W[h])
  <2>1. ASSUME NEW h \in m + 1 .. m + i - 1 PROVE ~Ddl(W[h])
    <3>1. h \in m + 1 .. Len(W) /\ h - m \in 1 .. i - 1
        BY <1>1, <1>3, <1>5, <1>6, <2>1
    <3>2. B[h - m] = W[h] /\ ~Ddl(B[h - m])
        BY <1>3, <1>6, <3>1 DEF IsFirst
    <3> QED  BY <3>2
  <2> QED  BY <2>1
<1>9. Brought(ws, W[m + i].prev)
  <2>1. PICK j \in m + 1 .. Len(W) : j = m + i
      BY <1>7
  <2>2. Ddl(W[j])
      BY <1>7, <2>1
  <2>3. \A h \in m + 1 .. j - 1 : ~Ddl(W[h])
    <3>1. ASSUME NEW h \in m + 1 .. j - 1 PROVE ~Ddl(W[h])
      <4>1. h \in m + 1 .. m + i - 1
          BY <1>5, <1>6, <2>1
      <4> QED  BY <1>8, <4>1
    <3> QED  BY <3>1
  <2>4. Brought(ws, W[j].prev)
      BY <1>2, <2>2, <2>3 DEF UndoneTo
  <2> QED  BY <2>1, <2>4
<1>10. W[m + i].prev # None => Live(W[m + i].prev[1])
    BY <1>1, <1>7 DEF LogShape
<1> QED  BY <1>2, <1>7, <1>9, <1>10 DEF B, ws, i


\* What the session sees after ROLLBACK, and after ROLLBACK TO.
LEMMA RollbackView ==
    ASSUME SInv, NEW s \in Sessions, txn_rollback(s), Has(txn[s].writes, DDL)
    PROVE  View(versions', [next_xid |-> next_xid', active |-> active'], 0) = Before(txn[s].writes)
<1> DEFINE d == txn[s].xid
           W == txn[s].writes
           ws == undo_all(versions, d, W)
           i == FirstDdl(W)
           C == Ended
           snap == [next_xid |-> next_xid', active |-> active']
<1>1. Types /\ InTxn(s) /\ Held(s) /\ Own(s) = d /\ W \in Seq(OpRec)
    BY DEF SInv, txn_rollback, Held, Own, Types, TxnRec
<1>2. versions' = ws /\ next_xid' = next_xid /\ active' = active \ {d}
    BY DEF txn_rollback, End
<1>3. \A o \in Sessions \ {s} : ~Held(o)
    BY <1>1 DEF SInv, Solo
<1>4. Apt(C, d) /\ d # 0 /\ d \in Nat /\ Shape(versions, C, d) /\ LogGood(versions, C, d, W)
    BY <1>1, <1>3, OwnApt, Ready
<1>5. Len(W) \in Nat /\ SubSeq(W, 1, Len(W)) = W
    BY <1>1, CutNone, LenProperties
<1>6. /\ Brought(ws, W[i].prev) /\ (W[i].prev # None => Live(W[i].prev[1]))
  <2> DEFINE m == 0
             B == SubSeq(W, m + 1, Len(W))
  <2>0. m + 1 = 1 /\ m \in 0 .. Len(W)
      BY <1>5
  <2>1a. B = W
      BY <1>5, <2>0
  <2>1b. Has(W, DDL)
      OBVIOUS
  <2> HIDE DEF m, C, d, W, B
  <2>1. B = W /\ m \in 0 .. Len(W) /\ Has(B, DDL)
      BY <2>0, <2>1a, <2>1b
  <2> USE DEF B
  <2>2. /\ Brought(undo_all(versions, d, B), B[FirstDdl(B)].prev)
        /\ B[FirstDdl(B)].prev # None => Live(B[FirstDdl(B)].prev[1])
      BY <1>4, <2>1, UndoneBrings
  <2> QED  BY <2>1, <2>2 DEF W
<1>7. Shape(ws, C \cup {d}, 0)
  <2> HIDE DEF C, d, W
  <2> QED  BY <1>4, UndoneAll
<1>8. Before(W) = IF W[i].prev = None THEN None ELSE Some(Params(W[i].prev[1]))
    BY DEF Before, FirstDdl
<1>9. \A x \in Nat \ {0} : InSnapshot(x, snap) <=> x \in C \cup {d}
  <2>1. d < next_xid /\ next_xid \in Nat
      BY <1>1, EndedIs
  <2> QED  BY <1>2, <1>4, <2>1 DEF InSnapshot, Ended
<1>10. 0 \notin C
    BY <1>4 DEF Apt
<1> HIDE DEF ws, i, C, d, W, snap
<1>11. Reads(ws, snap, 0)
  <2>1. ASSUME NEW k \in DOMAIN ws PROVE seq_visible(ws[k], snap, 0) <=> Live(ws[k])
    <3>1. /\ ws[k].created_xmin \in Nat \ {0} /\ ws[k].dropped_xmax \in Nat
          /\ ws[k].created_xmin \in C \cup {d} /\ ws[k].dropped_xmax \in {0} \cup (C \cup {d})
        BY <1>7 DEF Shape, Fits, Sound, Version
    <3> QED  BY <1>9, <3>1 DEF seq_visible, Live
  <2> QED  BY <2>1 DEF Reads
<1>12. ws \in Seq(Version) /\ \A k, l \in DOMAIN ws : Live(ws[k]) /\ Live(ws[l]) => k = l
    BY <1>7, OneOnly DEF Shape
<1>13. View(ws, snap, 0) = Before(W)
  <2> DEFINE prev == W[i].prev
  <2>1. Brought(ws, prev) /\ (prev # None => Live(prev[1]))
      BY <1>6
  <2> HIDE DEF prev
  <2>2. View(ws, snap, 0) = IF prev = None THEN None ELSE Some(Params(prev[1]))
      BY <1>11, <1>12, <2>1, ViewBrought
  <2> QED  BY <1>8, <2>2 DEF prev
<1> QED  BY <1>2, <1>13 DEF W, snap

LEMMA RollbackToView ==
    ASSUME SInv, NEW s \in Sessions, txn_rollback_to(s),
           Has(SubSeq(txn[s].writes, Last(txn[s].saves) + 1, Len(txn[s].writes)), DDL)
    PROVE  View(versions', [next_xid |-> next_xid', active |-> active'], txn[s].xid)
             = Before(SubSeq(txn[s].writes, Last(txn[s].saves) + 1, Len(txn[s].writes)))
<1> DEFINE d == txn[s].xid
           W == txn[s].writes
           S == txn[s].saves
           m == Last(S)
           B == SubSeq(W, m + 1, Len(W))
           ws == undo_all(versions, d, B)
           i == FirstDdl(B)
           C == Ended
<1>1. Types /\ InTxn(s) /\ Own(s) = d /\ W \in Seq(OpRec) /\ S \in Seq(Nat) /\ SavesGood(txn[s]) /\ S # <<>>
    BY DEF SInv, txn_rollback_to, Own, Types, TxnRec
<1>2. versions' = ws /\ next_xid' = next_xid /\ active' = active
    BY DEF txn_rollback_to
<1>3. m \in 0 .. Len(W)
  <2>1. Len(S) \in Nat /\ Len(S) # 0 /\ DOMAIN S = 1 .. Len(S) /\ m = S[Len(S)] /\ Len(W) \in Nat
      BY <1>1, LenProperties, EmptySeq DEF Last
  <2>0. Len(S) \in DOMAIN S
      BY <2>1
  <2>3. S[Len(S)] \in Nat
      BY <1>1, <2>0, ElementOfSeq
  <2>4. S[Len(S)] <= Len(W)
      BY <1>1, <2>0 DEF SavesGood
  <2>2. S[Len(S)] \in Nat /\ S[Len(S)] <= Len(W)
      BY <2>3, <2>4
  <2> QED  BY <2>1, <2>2
<1>4. Held(s)
  <2>1. DOMAIN B = 1 .. Len(W) - m /\ \A j \in 1 .. Len(W) - m : B[j] = W[m + j] /\ m + j \in m + 1 .. Len(W)
      BY <1>1, <1>3, Cut
  <2>2. PICK j \in DOMAIN B : B[j].op \in DDL
      BY DEF Has
  <2>3. m + j \in 1 .. Len(W) /\ W[m + j] = B[j]
      BY <1>3, <2>1, <2>2, SMTT(30)
  <2>4. m + j \in DOMAIN W
      BY <1>1, <2>3, LenProperties
  <2> QED  BY <2>2, <2>3, <2>4 DEF Held, Has
<1>5. \A o \in Sessions \ {s} : ~Held(o)
    BY <1>4 DEF SInv, Solo
<1>6. Apt(C, d) /\ d # 0 /\ d \in Nat /\ Shape(versions, C, d) /\ LogGood(versions, C, d, W)
    BY <1>1, <1>5, OwnApt, Ready
<1>7. /\ UndoneTo(versions, ws, C, d, W, m)
      /\ Brought(ws, B[i].prev) /\ (B[i].prev # None => Live(B[i].prev[1]))
  <2> HIDE DEF C, d, W, m
  <2> QED  BY <1>3, <1>6, UndoneBrings DEF C, d, W, m
<1>8. Before(B) = IF B[i].prev = None THEN None ELSE Some(Params(B[i].prev[1]))
    BY DEF Before, FirstDdl
<1>9. \A x \in Nat \ {0} : InSnapshot(x, Fresh) <=> x \in C
    BY <1>1, EndedIs
<1>10. [next_xid |-> next_xid', active |-> active'] = Fresh
    BY <1>2 DEF Fresh
<1> HIDE DEF ws, i, C, d, B
<1>11. Shape(ws, C, d) /\ ws \in Seq(Version)
    BY <1>7 DEF UndoneTo, Shape
<1>12. Reads(ws, Fresh, d)
  <2>1. Shows(ws, Fresh, C, d)
      BY <1>6, <1>9, <1>11, XidsIn DEF Shows
  <2> QED  BY <1>6, <1>11, <2>1, ShowsReads
<1>13. \A k, l \in DOMAIN ws : Live(ws[k]) /\ Live(ws[l]) => k = l
    BY <1>11, OneOnly
<1>14. View(ws, Fresh, d) = Before(B)
  <2> DEFINE prev == B[i].prev
  <2>1. Brought(ws, prev) /\ (prev # None => Live(prev[1]))
      BY <1>7
  <2> HIDE DEF prev
  <2>2. View(ws, Fresh, d) = IF prev = None THEN None ELSE Some(Params(prev[1]))
      BY <1>11, <1>12, <1>13, <2>1, ViewBrought
  <2> QED  BY <1>8, <2>2 DEF prev
<1> QED  BY <1>2, <1>10, <1>14 DEF d, B

\* ROLLBACK and ROLLBACK TO give the session the sequence back that it had before
\* the DDL they undo, however many CREATE, ALTER and DROP the log holds and however
\* many advances lie between them (undo_write_op, newest first).
THEOREM UndoBringsBack ==
    ASSUME Orderly
    PROVE  Spec => UndoRestores
<1> DEFINE Good(s) ==
        LET t == txn[s]
            mark == IF txn'[s].xid = 0 \/ t.saves = <<>> THEN 0 ELSE Last(t.saves)
            undone == SubSeq(t.writes, mark + 1, Len(t.writes))
        IN  Has(undone, DDL) /\ (txn_rollback(s) \/ txn_rollback_to(s)) =>
              View(versions', [next_xid |-> next_xid', active |-> active'], txn'[s].xid) = Before(undone)
<1>1. ASSUME SInv, NEW s \in Sessions PROVE Good(s)
  <2> DEFINE t == txn[s]
             mark == IF txn'[s].xid = 0 \/ t.saves = <<>> THEN 0 ELSE Last(t.saves)
             undone == SubSeq(t.writes, mark + 1, Len(t.writes))
  <2>0. txn \in [Sessions -> TxnRec] /\ t.writes \in Seq(OpRec)
      BY <1>1 DEF SInv, Types, TxnRec
  <2>1. ASSUME Has(undone, DDL), txn_rollback(s)
        PROVE  View(versions', [next_xid |-> next_xid', active |-> active'], txn'[s].xid) = Before(undone)
    <3>1. txn'[s].xid = 0
        BY <2>0, <2>1, NoTxnIs DEF txn_rollback, End
    <3>2. undone = t.writes
        BY <2>0, <3>1, CutNone
    <3> QED  BY <1>1, <2>1, <3>1, <3>2, RollbackView
  <2>2. ASSUME Has(undone, DDL), txn_rollback_to(s)
        PROVE  View(versions', [next_xid |-> next_xid', active |-> active'], txn'[s].xid) = Before(undone)
    <3>1. txn'[s].xid = t.xid /\ t.xid # 0 /\ t.saves # <<>>
        BY <2>0, <2>2 DEF txn_rollback_to, InTxn, TxnRec
    <3>2. mark = Last(t.saves)
        BY <3>1
    <3> QED  BY <1>1, <2>2, <3>1, <3>2, RollbackToView
  <2> QED  BY <2>1, <2>2
<1>2. SInv /\ [Next]_vars =>
        [\A s \in Sessions :
           LET t == txn[s]
               mark == IF txn'[s].xid = 0 \/ t.saves = <<>> THEN 0 ELSE Last(t.saves)
               undone == SubSeq(t.writes, mark + 1, Len(t.writes))
           IN  Has(undone, DDL) /\ (txn_rollback(s) \/ txn_rollback_to(s)) =>
                 View(versions', [next_xid |-> next_xid', active |-> active'], txn'[s].xid) = Before(undone)]_vars
    BY <1>1
<1> QED
    BY <1>2, SequencesKept, PTL DEF Spec, UndoRestores


-----------------------------------------------------------------------------
(* Where the position of the sequence is, and what nextval has returned.     *)

NoTwice(h) == \A i, j \in DOMAIN h : h[i].value = h[j].value => i = j

\* The live version has gone past everything in the history.
AllPast(vs, h) == \A i \in DOMAIN vs : Live(vs[i]) => \A k \in DOMAIN h : Past(vs[i], h[k])

\* So has every version that an undo may put back, but for what the transaction d
\* that it would undo has drawn.
LogPast(W, d, h) ==
    \A j \in DOMAIN W : Ddl(W[j]) /\ W[j].prev # None =>
        \A k \in DOMAIN h : h[k].xid # d => Past(W[j].prev[1], h[k])

\* What the open block d has drawn will be logged when it commits.
Marked(W, d, h) == \A k \in DOMAIN h : h[k].xid = d /\ ~h[k].copied => Has(W, {"advance"})

\* The rebuilt version has gone past what committed transactions hold.
SettledPast(R, h) ==
    \A i \in DOMAIN R : Live(R[i]) =>
        \A k \in DOMAIN h : h[k].xid = 0 /\ ~h[k].copied => Past(R[i], h[k])

\* The inductive invariant of NeverTwice, on top of SInv.
PInv ==
    /\ NoTwice(issued)
    /\ AllPast(versions, issued)
    /\ \A s \in Sessions : LogPast(txn[s].writes, txn[s].xid, issued)
    /\ \A s \in Sessions : InTxn(s) => Marked(txn[s].writes, txn[s].xid, issued)
    /\ Replayable => SettledPast(Recovered, issued)

\* h1 holds entries of h only.
Within(h, h1) == \A k \in DOMAIN h1 : \E l \in DOMAIN h : h1[k] = h[l]

LEMMA Fewer ==
    ASSUME NEW h, NEW h1, Within(h, h1)
    PROVE  /\ \A vs : AllPast(vs, h) => AllPast(vs, h1)
           /\ \A W, d : LogPast(W, d, h) => LogPast(W, d, h1)
           /\ \A W, d : Marked(W, d, h) => Marked(W, d, h1)
           /\ \A R : SettledPast(R, h) => SettledPast(R, h1)
<1>1. ASSUME NEW vs, AllPast(vs, h) PROVE AllPast(vs, h1)
    BY <1>1 DEF AllPast, Within
<1>2. ASSUME NEW W, NEW d, LogPast(W, d, h) PROVE LogPast(W, d, h1)
    BY <1>2 DEF LogPast, Within
<1>3. ASSUME NEW W, NEW d, Marked(W, d, h) PROVE Marked(W, d, h1)
    BY <1>3 DEF Marked, Within
<1>4. ASSUME NEW R, SettledPast(R, h) PROVE SettledPast(R, h1)
    BY <1>4 DEF SettledPast, Within
<1> QED  BY <1>1, <1>2, <1>3, <1>4

LEMMA PickedPast ==
    ASSUME NEW n, HistoryGood(issued, n), NoTwice(issued), NEW K \in SUBSET DOMAIN issued
    PROVE  LET h == Picked(issued, K) IN
           /\ Within(issued, h) /\ NoTwice(h)
           /\ \A k \in DOMAIN h : \E l \in K : h[k] = issued[l]
<1> DEFINE h == Picked(issued, K)
<1>1. HistoryGood(h, n) /\ \E e : Lists(Entry, issued, K, h, e)
    BY PickedHistory
<1>2. PICK e : Lists(Entry, issued, K, h, e)
    BY <1>1
<1> HIDE DEF h
<1>3. DOMAIN h = 1 .. Len(h) /\ Len(h) \in Nat /\ DOMAIN issued = 1 .. Len(issued)
    BY <1>1, LenProperties DEF HistoryGood
<1>4. /\ \A i \in DOMAIN h : e[i] \in K /\ h[i] = issued[e[i]]
      /\ \A i, j \in DOMAIN h : i < j => e[i] < e[j]
    BY <1>2, <1>3 DEF Lists
<1>5. \A i, j \in DOMAIN h : e[i] = e[j] => i = j
  <2>1. ASSUME NEW i \in DOMAIN h, NEW j \in DOMAIN h, e[i] = e[j] PROVE i = j
    <3>1. ~(i < j) /\ ~(j < i)
      <4>1. e[i] \in Int /\ ~(e[i] < e[j]) /\ ~(e[j] < e[i])
          BY <1>3, <1>4, <2>1
      <4> QED  BY <1>4, <4>1
    <3> QED  BY <1>3, <3>1
  <2> QED  BY <2>1
<1>6. NoTwice(h)
    BY <1>4, <1>5 DEF NoTwice
<1>7. \A k \in DOMAIN h : \E l \in K : h[k] = issued[l]
    BY <1>4
<1>8. Within(issued, h)
    BY <1>7 DEF Within
<1> QED  BY <1>6, <1>7, <1>8 DEF h

LEMMA Forgotten ==
    ASSUME NEW n, HistoryGood(issued, n), NoTwice(issued), NEW x, NEW W, Forget(x, W)
    PROVE  /\ Within(issued, issued') /\ NoTwice(issued')
           /\ Has(W, DDL) => \A k \in DOMAIN issued' : issued'[k].xid # x
           /\ ~Has(W, DDL) => issued' = issued
<1> DEFINE K == {i \in DOMAIN issued : issued[i].xid # x}
<1>1. CASE ~Has(W, DDL)
  <2>1. issued' = issued
      BY <1>1 DEF Forget
  <2> QED  BY <1>1, <2>1 DEF Within
<1>2. CASE Has(W, DDL)
  <2>1. issued' = Picked(issued, K)
      BY <1>2 DEF Forget
  <2>2. K \in SUBSET DOMAIN issued /\ \A l \in K : issued[l].xid # x
      OBVIOUS
  <2> HIDE DEF K
  <2>3. /\ Within(issued, issued') /\ NoTwice(issued')
        /\ \A k \in DOMAIN issued' : \E l \in K : issued'[k] = issued[l]
      BY <2>1, <2>2, PickedPast
  <2>4. \A k \in DOMAIN issued' : issued'[k].xid # x
      BY <2>2, <2>3
  <2> QED  BY <1>2, <2>3, <2>4
<1> QED  BY <1>1, <1>2

\* What a step of s has to keep.
LEMMA PStep ==
    ASSUME PInv, NEW s \in Sessions, \A o \in Sessions \ {s} : txn'[o] = txn[o],
           NoTwice(issued'), AllPast(versions', issued'), Replayable' => SettledPast(Recovered', issued'),
           \A o \in Sessions \ {s} :
                /\ LogPast(txn[o].writes, txn[o].xid, issued')
                /\ InTxn(o) => Marked(txn[o].writes, txn[o].xid, issued'),
           LogPast(txn'[s].writes, txn'[s].xid, issued'),
           txn'[s].xid # 0 => Marked(txn'[s].writes, txn'[s].xid, issued')
    PROVE  PInv'
<1>1. \A o \in Sessions : LogPast(txn'[o].writes, txn'[o].xid, issued')
    OBVIOUS
<1>2. \A o \in Sessions : txn'[o].xid # 0 => Marked(txn'[o].writes, txn'[o].xid, issued')
    BY DEF InTxn
<1> QED  BY <1>1, <1>2 DEF PInv, InTxn

LEMMA PFewer ==
    ASSUME PInv, Within(issued, issued')
    PROVE  /\ AllPast(versions, issued') /\ (Replayable => SettledPast(Recovered, issued'))
           /\ \A o \in Sessions : /\ LogPast(txn[o].writes, txn[o].xid, issued')
                                  /\ InTxn(o) => Marked(txn[o].writes, txn[o].xid, issued')
<1> DEFINE h1 == issued'
<1>1. Within(issued, h1)
    OBVIOUS
<1> HIDE DEF h1
<1>2. /\ \A vs : AllPast(vs, issued) => AllPast(vs, h1)
      /\ \A W, d : LogPast(W, d, issued) => LogPast(W, d, h1)
      /\ \A W, d : Marked(W, d, issued) => Marked(W, d, h1)
      /\ \A R : SettledPast(R, issued) => SettledPast(R, h1)
    BY <1>1, Fewer
<1> QED  BY <1>2 DEF PInv, h1

\* A step of s that leaves the versions, the history and the files.
LEMMA PSame ==
    ASSUME PInv, versions' = versions, issued' = issued, log' = log, image' = image,
           NEW s \in Sessions, \A o \in Sessions \ {s} : txn'[o] = txn[o],
           LogPast(txn'[s].writes, txn'[s].xid, issued),
           txn'[s].xid # 0 => Marked(txn'[s].writes, txn'[s].xid, issued)
    PROVE  PInv'
<1>1. Recovered' = Recovered /\ Replayable' = Replayable
    BY DEF Recovered, Replayable
<1> QED  BY <1>1, PStep DEF PInv

LEMMA BeginPast ==
    ASSUME SInv, PInv, NEW s \in Sessions, Begin(s)
    PROVE  PInv'
<1>1. Types /\ txn \in [Sessions -> TxnRec] /\ HistoryGood(issued, next_xid)
    BY DEF SInv, Types
<1>2. PICK l \in Level : txn' = [txn EXCEPT ![s] = [NoTxn EXCEPT !.xid = next_xid, !.level = l]]
    BY DEF Begin
<1>3. txn'[s].xid = next_xid /\ txn'[s].writes = <<>> /\ \A o \in Sessions \ {s} : txn'[o] = txn[o]
    BY <1>1, <1>2 DEF NoTxn
<1>4. LogPast(txn'[s].writes, txn'[s].xid, issued)
    BY <1>3, EmptySeq DEF LogPast
<1>5. Marked(txn'[s].writes, txn'[s].xid, issued)
  <2>1. \A k \in DOMAIN issued : issued[k].xid \in Nat /\ issued[k].xid < next_xid
    <3>1. \A k \in DOMAIN issued : issued[k] \in Entry
        BY <1>1, LenProperties, ElementOfSeq DEF HistoryGood
    <3> QED  BY <1>1, <3>1 DEF HistoryGood, Entry
  <2>2. next_xid \in Nat
      BY <1>1, EndedIs
  <2> QED  BY <1>3, <2>1, <2>2 DEF Marked
<1> QED  BY <1>3, <1>4, <1>5, PSame DEF Begin

LEMMA RefusedPast ==
    ASSUME SInv, PInv, NEW s \in Sessions, CommitRefused(s)
    PROVE  PInv'
<1>1. txn \in [Sessions -> TxnRec] /\ InTxn(s) /\ txn' = [txn EXCEPT ![s].failed = TRUE]
    BY DEF SInv, Types, CommitRefused
<1>2. /\ txn'[s].xid = txn[s].xid /\ txn'[s].writes = txn[s].writes
      /\ \A o \in Sessions \ {s} : txn'[o] = txn[o]
    BY <1>1 DEF TxnRec
<1>3. LogPast(txn[s].writes, txn[s].xid, issued) /\ Marked(txn[s].writes, txn[s].xid, issued)
    BY <1>1 DEF PInv
<1> QED  BY <1>2, <1>3, PSame DEF CommitRefused

LEMMA SavepointPast ==
    ASSUME SInv, PInv, NEW s \in Sessions, txn_savepoint(s)
    PROVE  PInv'
<1>1. /\ txn \in [Sessions -> TxnRec] /\ InTxn(s)
      /\ txn' = [txn EXCEPT ![s].saves = Append(@, Len(txn[s].writes))]
    BY DEF SInv, Types, txn_savepoint
<1>2. /\ txn'[s].xid = txn[s].xid /\ txn'[s].writes = txn[s].writes
      /\ \A o \in Sessions \ {s} : txn'[o] = txn[o]
    BY <1>1 DEF TxnRec
<1>3. LogPast(txn[s].writes, txn[s].xid, issued) /\ Marked(txn[s].writes, txn[s].xid, issued)
    BY <1>1 DEF PInv
<1> QED  BY <1>2, <1>3, PSame DEF txn_savepoint

-----------------------------------------------------------------------------
(* What statements do to the position.                                      *)

\* A nextval, also one in a statement that fails; setval; and the DDL.
Draws(vs, out) ==
    \E i \in DOMAIN vs : \E x \in Ints :
        /\ Moves(vs, out, i, x, TRUE) /\ out.value \in {None, <<x>>}
        /\ ~out.moved => NextPosition(vs[i]) = <<x>> /\ ~(vs[i].is_called /\ x # vs[i].current[1] + vs[i].increment)
Resets(out) == out.moved /\ out.value = None
Drops(vs, out) ==
    /\ out.value = None /\ \A j \in DOMAIN out.versions : ~Live(out.versions[j])
    /\ \E i \in DOMAIN vs : Live(vs[i]) /\ out.ops = <<Op("drop", Some(vs[i]))>>
Alters(vs, out) == out.value = None /\ AlterAdds(vs, out)
Fails(vs, out) == out.value = None /\ out.versions = vs /\ out.ops = <<>>

Either(vs, out) == Draws(vs, out) \/ Resets(out) \/ Drops(vs, out) \/ Alters(vs, out) \/ Fails(vs, out)

\* The nextval of a statement that fails after it.
nextval_fails(vs, snap, d) == [seq_nextval(vs, snap, d) EXCEPT !.ok = FALSE, !.value = None]

LEMMA NextvalKinds ==
    ASSUME NEW vs, NEW C, NEW d, Shape(vs, C, d), NEW snap, Reads(vs, snap, d)
    PROVE  Either(vs, seq_nextval(vs, snap, d)) /\ Either(vs, nextval_fails(vs, snap, d))
<1> DEFINE out == seq_nextval(vs, snap, d)
           out1 == [out EXCEPT !.ok = FALSE, !.value = None]
<1>1. vs \in Seq(Version) /\ \A i \in DOMAIN vs : Sound(vs[i])
    BY DEF Shape, Fits
<1>2. \/ out = Failed(vs)
      \/ \E i \in DOMAIN vs : \E x \in Ints :
            /\ Moves(vs, out, i, x, TRUE) /\ NextPosition(vs[i]) = <<x>>
            /\ out.ok = TRUE /\ out.value = <<x>>
            /\ out.moved = (vs[i].is_called /\ x # vs[i].current[1] + vs[i].increment)
    BY <1>1, NextvalOutcome
<1>3. DOMAIN out = {"ok", "versions", "ops", "advanced", "value", "moved"}
    BY DEF seq_nextval, Failed, Outcome
<1> HIDE DEF out
<1>4. /\ out1.versions = out.versions /\ out1.ops = out.ops /\ out1.advanced = out.advanced
      /\ out1.moved = out.moved /\ out1.value = None
    BY <1>3
<1> HIDE DEF out1
<1>5. ASSUME out = Failed(vs) PROVE Either(vs, out) /\ Either(vs, out1)
  <2>1. out.versions = vs /\ out.ops = <<>> /\ out.value = None
      BY <1>5, FailedIs
  <2>2. Fails(vs, out) /\ Fails(vs, out1)
      BY <1>4, <2>1 DEF Fails
  <2> QED  BY <2>2 DEF Either
<1>6. ASSUME NEW i \in DOMAIN vs, NEW x \in Ints, Moves(vs, out, i, x, TRUE), NextPosition(vs[i]) = <<x>>,
             out.value = <<x>>,
             ~out.moved => ~(vs[i].is_called /\ x # vs[i].current[1] + vs[i].increment)
      PROVE  Draws(vs, out) /\ Draws(vs, out1)
  <2>1. Moves(vs, out1, i, x, TRUE)
      BY <1>4, <1>6 DEF Moves
  <2>3. Draws(vs, out)
      BY <1>6 DEF Draws
  <2>4. Draws(vs, out1)
      BY <1>4, <1>6, <2>1 DEF Draws
  <2> QED  BY <2>3, <2>4
<1>7. Either(vs, out) /\ Either(vs, out1)
  <2>1. CASE out = Failed(vs)
      BY <1>5, <2>1
  <2>2. CASE out # Failed(vs)
    <3>1. PICK i \in DOMAIN vs, x \in Ints :
            /\ Moves(vs, out, i, x, TRUE) /\ NextPosition(vs[i]) = <<x>>
            /\ out.ok = TRUE /\ out.value = <<x>>
            /\ out.moved = (vs[i].is_called /\ x # vs[i].current[1] + vs[i].increment)
        BY <1>2, <2>2
    <3>2. ~out.moved => ~(vs[i].is_called /\ x # vs[i].current[1] + vs[i].increment)
        BY <3>1
    <3>3. Draws(vs, out) /\ Draws(vs, out1)
        BY <1>6, <3>1, <3>2
    <3> QED  BY <3>3 DEF Either
  <2> QED  BY <2>1, <2>2
<1> QED  BY <1>7 DEF out, out1, nextval_fails

LEMMA StatementKindOf ==
    ASSUME NEW vs, NEW C, NEW d, Apt(C, d), d # 0, Shape(vs, C, d), NEW W, LogGood(vs, C, d, W),
           NEW snap, Reads(vs, snap, d), NEW q \in Statements, Allowed(q, vs, d)
    PROVE  Either(vs, execute(q, vs, snap, d))
<1> DEFINE out == execute(q, vs, snap, d)
<1>1. CASE q.kind = "nextval"
  <2>1. out = seq_nextval(vs, snap, d)
      BY <1>1 DEF execute
  <2>2. Either(vs, seq_nextval(vs, snap, d))
      BY NextvalKinds
  <2> HIDE DEF out
  <2> QED  BY <2>1, <2>2 DEF out
<1>2. CASE q.kind = "fail"
  <2>1. out = nextval_fails(vs, snap, d)
      BY <1>2 DEF execute, nextval_fails
  <2>2. Either(vs, nextval_fails(vs, snap, d))
      BY NextvalKinds
  <2> HIDE DEF out
  <2> QED  BY <2>1, <2>2 DEF out
<1>3. CASE q.kind = "setval"
  <2> DEFINE out1 == seq_setval(vs, snap, d, q.value, q.is_called)
  <2>1. out = out1
      BY <1>3 DEF execute
  <2>2. q.is_called \in BOOLEAN
      BY <1>3, StatementKinds
  <2>3. vs \in Seq(Version) /\ \A i \in DOMAIN vs : Sound(vs[i])
      BY DEF Shape, Fits
  <2>4. out1 = Failed(vs) \/ (out1.value = None /\ out1.moved = TRUE)
      BY <2>2, <2>3, SetvalOutcome
  <2>5. out1 = Failed(vs) => Fails(vs, out1)
      BY FailedIs DEF Fails
  <2> HIDE DEF out, out1
  <2>6. Either(vs, out1)
      BY <2>4, <2>5 DEF Either, Resets
  <2> QED  BY <2>1, <2>6 DEF out
<1>4. CASE q.kind = "create"
  <2> DEFINE opts == q.opts
             out1 == exec_create_sequence(vs, snap, d, opts)
  <2>1. out = out1
      BY <1>4 DEF execute
  <2>2. opts \in Opts /\ \A j \in DOMAIN vs : vs[j].created_xmin # d
      BY <1>4, StatementKinds DEF Allowed
  <2> HIDE DEF opts
  <2>3. out1.value = None /\ (out1 = Failed(vs) \/ out1.moved = TRUE)
    <3>1. out1.value = None
        BY DEF exec_create_sequence, Failed, Outcome
    <3>2. ASSUME out1 # Failed(vs) PROVE out1.moved = TRUE
        BY <2>2, <3>2, CreateDone
    <3> QED  BY <3>1, <3>2
  <2>4. out1 = Failed(vs) => Fails(vs, out1)
      BY FailedIs DEF Fails
  <2> HIDE DEF out, out1
  <2>5. Either(vs, out1)
      BY <2>3, <2>4 DEF Either, Resets
  <2> QED  BY <2>1, <2>5 DEF out
<1>5. CASE q.kind = "alter"
  <2> DEFINE out1 == exec_alter_sequence(vs, snap, d, q.opts)
  <2>1. out = out1
      BY <1>5 DEF execute
  <2>2. q.opts \in Opts /\ AlterKeeps(vs, q.opts, d)
      BY <1>5, StatementKinds DEF Allowed
  <2>3. out1.value = None /\ (out1 = Failed(vs) \/ AlterAdds(vs, out1))
      BY <2>2, AlterDone
  <2>4. out1 = Failed(vs) => Fails(vs, out1)
      BY FailedIs DEF Fails
  <2> HIDE DEF out, out1
  <2>5. Either(vs, out1)
      BY <2>3, <2>4 DEF Either, Alters
  <2> QED  BY <2>1, <2>5 DEF out
<1>6. CASE q.kind = "drop"
  <2> DEFINE out1 == exec_drop_sequence(vs, snap, d)
  <2>1. out = out1
      BY <1>6 DEF execute
  <2>2. out1.value = None
      BY DEF exec_drop_sequence, Failed, Outcome
  <2>3. ASSUME out1 # Failed(vs) PROVE Drops(vs, out1)
    <3>1. DropTakes(vs, out1)
        BY <2>3, DropDone
    <3> HIDE DEF out1
    <3> QED  BY <2>2, <3>1 DEF Drops, DropTakes
  <2>4. out1 = Failed(vs) => Fails(vs, out1)
      BY FailedIs DEF Fails
  <2> HIDE DEF out, out1
  <2>5. Either(vs, out1)
      BY <2>3, <2>4 DEF Either
  <2> QED  BY <2>1, <2>5 DEF out
<1> HIDE DEF out
<1>7. q.kind \in {"nextval", "fail", "setval", "create", "alter", "drop"}
    BY StatementKinds
<1> QED  BY <1>1, <1>2, <1>3, <1>4, <1>5, <1>6, <1>7 DEF out

\* The history after a statement that returns no value.
LEMMA AddsNone ==
    ASSUME NEW h, NEW h1, NEW out, NEW x, NEW c, Adds(h, h1, out, x, c), out.value = None
    PROVE  /\ Within(h, h1) /\ (NoTwice(h) => NoTwice(h1))
           /\ out.moved => \A k : k \notin DOMAIN h1
<1>1. \A k \in DOMAIN h1 : ~out.moved /\ k \in DOMAIN h /\ h1[k] = h[k]
    BY DEF Adds
<1> QED  BY <1>1 DEF Within, NoTwice

\* A version that nextval has moved on has gone past all that was returned.
LEMMA NextPast ==
    ASSUME NEW v \in Version, NEW x \in Ints, NextPosition(v) = <<x>>,
           ~(v.is_called /\ x # v.current[1] + v.increment), v.increment # 0,
           NEW e \in Entry, Past(v, e), NEW w, w.current = <<x>>, w.is_called = TRUE, w.increment = v.increment
    PROVE  Past(w, e) /\ e.value # x
<1>1. x = v.current[1] + v.increment /\ v.current[1] \in Int /\ x \in Int /\ v.increment \in Int /\ e.value \in Int
    BY Bounds, Options DEF Past, Version, Entry
<1> DEFINE c == v.current[1]
           inc == v.increment
           y == e.value
<1>2. (inc > 0 => y <= c) /\ (inc < 0 => y >= c)
    BY DEF Past
<1>3. w.current # None /\ w.current[1] = x
    BY DEF None
<1>4. w.increment = inc
    OBVIOUS
<1> HIDE DEF c, inc, y
<1>5. inc \in Int /\ inc # 0 /\ c \in Int /\ y \in Int /\ x = c + inc
    BY <1>1 DEF c, inc, y
<1>6. (inc > 0 => y < x) /\ (inc < 0 => y > x)
    BY <1>2, <1>5
<1>7. y # x
    BY <1>5, <1>6
<1>8. (inc > 0 => y <= x) /\ (inc < 0 => y >= x)
    BY <1>5, <1>6
<1> QED  BY <1>3, <1>4, <1>7, <1>8 DEF Past, y

\* The position after a statement.
LEMMA IssuePast ==
    ASSUME NEW vs, NEW C, NEW d, Apt(C, d), Shape(vs, C, d), NEW h, NEW n, HistoryGood(h, n), NoTwice(h), AllPast(vs, h),
           NEW h1, NEW out, NEW x, NEW c, Adds(h, h1, out, x, c), Either(vs, out), Shape(out.versions, C, d)
    PROVE  NoTwice(h1) /\ AllPast(out.versions, h1) /\ LogPast(out.ops, d, h1)
<1>1. vs \in Seq(Version) /\ \A i \in DOMAIN vs : Sound(vs[i]) /\ vs[i] \in Version
    BY DEF Shape, Fits, Sound
<1>2. \A k \in DOMAIN h : h[k] \in Entry
    BY LenProperties, ElementOfSeq DEF HistoryGood
<1>3. \A i, j \in DOMAIN vs : Live(vs[i]) /\ Live(vs[j]) => i = j
    BY OneOnly
<1>4. ASSUME NEW i \in DOMAIN vs, Live(vs[i]), out.value = None, NEW kind,
             out.ops = <<Op(kind, Some(vs[i]))>>
      PROVE  LogPast(out.ops, d, h1)
  <2>1. Within(h, h1)
      BY <1>4, AddsNone
  <2>2. \A k \in DOMAIN h1 : Past(vs[i], h1[k])
      BY <1>4, <2>1 DEF AllPast, Within
  <2>3. DOMAIN out.ops = {1} /\ out.ops[1].prev[1] = vs[i]
      BY <1>4 DEF Op, Some
  <2> QED  BY <2>2, <2>3 DEF LogPast
<1>5. CASE Resets(out)
  <2>1. \A k : k \notin DOMAIN h1
      BY <1>5, AddsNone DEF Resets
  <2> QED  BY <2>1 DEF NoTwice, AllPast, LogPast
<1>6. CASE Fails(vs, out)
  <2>1. Within(h, h1) /\ NoTwice(h1)
      BY <1>6, AddsNone DEF Fails
  <2>2. AllPast(out.versions, h1)
      BY <1>6, <2>1, Fewer DEF Fails
  <2>3. LogPast(out.ops, d, h1)
      BY <1>6, EmptySeq DEF Fails, LogPast
  <2> QED  BY <2>1, <2>2, <2>3
<1>7. CASE Drops(vs, out)
  <2>1. NoTwice(h1)
      BY <1>7, AddsNone DEF Drops
  <2>2. AllPast(out.versions, h1)
      BY <1>7 DEF Drops, AllPast
  <2>3. LogPast(out.ops, d, h1)
      BY <1>4, <1>7 DEF Drops
  <2> QED  BY <2>1, <2>2, <2>3
<1>8. CASE Alters(vs, out)
  <2> DEFINE N == Len(vs) + 1
  <2>1. NoTwice(h1) /\ Within(h, h1) /\ (out.moved => \A k : k \notin DOMAIN h1)
      BY <1>8, AddsNone DEF Alters
  <2>2. PICK i \in DOMAIN vs :
            /\ Live(vs[i]) /\ out.ops = <<Op("alter", Some(vs[i]))>>
            /\ DOMAIN out.versions = DOMAIN vs \cup {N}
            /\ \A j \in DOMAIN vs : ~Live(out.versions[j])
            /\ ~out.moved => /\ out.versions[N].current = vs[i].current
                             /\ out.versions[N].is_called = vs[i].is_called
                             /\ (out.versions[N].increment > 0) = (vs[i].increment > 0)
      BY <1>8 DEF Alters, AlterAdds
  <2> HIDE DEF N
  <2>7. out.versions[N].increment \in Int \ {0} /\ vs[i].increment \in Int \ {0}
    <3>1. Sound(out.versions[N]) /\ Sound(vs[i])
        BY <2>2 DEF Shape, Fits
    <3> QED  BY <3>1, Bounds DEF Sound, Version
  <2>8. ~out.moved => ((out.versions[N].increment < 0) <=> (vs[i].increment < 0))
                      /\ ((out.versions[N].increment > 0) <=> (vs[i].increment > 0))
      BY <2>2, <2>7
  <2>3. \A k \in DOMAIN h1 : Past(vs[i], h1[k])
      BY <2>1, <2>2 DEF AllPast, Within
  <2>4. \A k \in DOMAIN h1 : Past(out.versions[N], h1[k])
      BY <2>1, <2>2, <2>3, <2>8 DEF Past
  <2>5. AllPast(out.versions, h1)
      BY <2>2, <2>4 DEF AllPast
  <2>6. LogPast(out.ops, d, h1)
      BY <1>4, <1>8, <2>2 DEF Alters
  <2> QED  BY <2>1, <2>5, <2>6
<1>9. CASE Draws(vs, out)
  <2>1. PICK i \in DOMAIN vs, y \in Ints :
            /\ Moves(vs, out, i, y, TRUE) /\ out.value \in {None, <<y>>}
            /\ ~out.moved => NextPosition(vs[i]) = <<y>> /\ ~(vs[i].is_called /\ y # vs[i].current[1] + vs[i].increment)
      BY <1>9 DEF Draws
  <2> DEFINE w == [vs[i] EXCEPT !.current = <<y>>, !.is_called = TRUE]
  <2>2. /\ Live(vs[i]) /\ out.versions = [vs EXCEPT ![i] = w] /\ out.ops = <<>>
      BY <2>1 DEF Moves
  <2>3. w.current = <<y>> /\ w.is_called = TRUE /\ w.increment = vs[i].increment /\ vs[i].increment # 0
      BY <1>1, <2>1 DEF Version, Sound
  <2>4. DOMAIN out.versions = DOMAIN vs /\ \A j \in DOMAIN vs : out.versions[j] = IF j = i THEN w ELSE vs[j]
    <3> HIDE DEF w
    <3> QED  BY <2>2
  <2> HIDE DEF w
  <2>5. ASSUME NEW k \in DOMAIN h, ~out.moved PROVE Past(w, h[k]) /\ h[k].value # y
    <3>1. Past(vs[i], h[k]) /\ h[k] \in Entry /\ vs[i] \in Version
        BY <1>1, <1>2, <2>2 DEF AllPast
    <3> QED  BY <2>1, <2>3, <2>5, <3>1, NextPast
  <2>6. \A k \in DOMAIN h1 :
            \/ ~out.moved /\ k \in DOMAIN h /\ h1[k] = h[k]
            \/ k = Len(h1) /\ h1[k].value = y
      BY <2>1 DEF Adds, None
  <2>7. y \in Int
      BY Bounds
  <2>8. \A k \in DOMAIN h1 : Past(w, h1[k])
    <3>1. ASSUME NEW k \in DOMAIN h1, h1[k].value = y PROVE Past(w, h1[k])
        BY <2>3, <2>7, <3>1 DEF Past, None
    <3> QED  BY <2>5, <2>6, <3>1
  <2>9. AllPast(out.versions, h1)
      BY <1>3, <2>2, <2>4, <2>8 DEF AllPast
  <2>10. NoTwice(h1)
      BY <2>5, <2>6 DEF NoTwice
  <2>11. LogPast(out.ops, d, h1)
      BY <2>2, EmptySeq DEF LogPast
  <2> QED  BY <2>9, <2>10, <2>11
<1> QED  BY <1>5, <1>6, <1>7, <1>8, <1>9 DEF Either

-----------------------------------------------------------------------------
(* Steps of a block, and where the position is.                             *)

LEMMA JoinAt ==
    ASSUME NEW S, NEW W \in Seq(S), NEW M \in Seq(S)
    PROVE  /\ \A j \in DOMAIN (W \o M) : \/ j \in DOMAIN W /\ (W \o M)[j] = W[j]
                                         \/ \E l \in DOMAIN M : (W \o M)[j] = M[l]
           /\ \A j \in DOMAIN W : \E l \in DOMAIN (W \o M) : (W \o M)[l] = W[j]
           /\ \A j \in DOMAIN M : \E l \in DOMAIN (W \o M) : (W \o M)[l] = M[j]
<1> DEFINE a == Len(W)
           b == Len(M)
           V == W \o M
<1>1. /\ a \in Nat /\ b \in Nat /\ DOMAIN W = 1 .. a /\ DOMAIN M = 1 .. b /\ DOMAIN V = 1 .. a + b
      /\ \A j \in DOMAIN W : V[j] = W[j]
      /\ \A j \in DOMAIN M : V[a + j] = M[j]
    BY Concat
<1> HIDE DEF a, b, V
<1>2. /\ \A j \in 1 .. a + b : j \in 1 .. a \/ (j - a \in 1 .. b /\ j = a + (j - a))
      /\ \A j \in 1 .. a : j \in 1 .. a + b
      /\ \A j \in 1 .. b : a + j \in 1 .. a + b
    BY <1>1
<1>3. ASSUME NEW j \in DOMAIN V
      PROVE  (j \in DOMAIN W /\ V[j] = W[j]) \/ \E l \in DOMAIN M : V[j] = M[l]
  <2>1. j \in 1 .. a \/ (j - a \in 1 .. b /\ j = a + (j - a))
      BY <1>1, <1>2
  <2>2. CASE j \in 1 .. a
      BY <1>1, <2>2
  <2>3. CASE j - a \in 1 .. b /\ j = a + (j - a)
    <3>1. j - a \in DOMAIN M /\ V[j] = M[j - a]
        BY <1>1, <2>3
    <3> QED  BY <3>1
  <2> QED  BY <2>1, <2>2, <2>3
<1>4. \A j \in DOMAIN W : \E l \in DOMAIN V : V[l] = W[j]
    BY <1>1, <1>2
<1>5. \A j \in DOMAIN M : \E l \in DOMAIN V : V[l] = M[j]
    BY <1>1, <1>2
<1> QED  BY <1>3, <1>4, <1>5 DEF V

LEMMA JoinPast ==
    ASSUME NEW W \in Seq(OpRec), NEW M \in Seq(OpRec)
    PROVE  /\ \A d, h : LogPast(W, d, h) /\ LogPast(M, d, h) => LogPast(W \o M, d, h)
           /\ \A K : Has(W, K) \/ Has(M, K) => Has(W \o M, K)
<1> DEFINE V == W \o M
<1>1. /\ \A j \in DOMAIN V : \/ j \in DOMAIN W /\ V[j] = W[j]
                           \/ \E l \in DOMAIN M : V[j] = M[l]
      /\ \A j \in DOMAIN W : \E l \in DOMAIN V : V[l] = W[j]
      /\ \A j \in DOMAIN M : \E l \in DOMAIN V : V[l] = M[j]
  <2> DEFINE S == OpRec
  <2>1. W \in Seq(S) /\ M \in Seq(S)
      OBVIOUS
  <2> HIDE DEF S
  <2>2. \A j \in DOMAIN V : \/ j \in DOMAIN W /\ V[j] = W[j]
                           \/ \E l \in DOMAIN M : V[j] = M[l]
      BY <2>1, JoinAt
  <2>3. \A j \in DOMAIN W : \E l \in DOMAIN V : V[l] = W[j]
      BY <2>1, JoinAt
  <2>4. \A j \in DOMAIN M : \E l \in DOMAIN V : V[l] = M[j]
      BY <2>1, JoinAt
  <2> QED  BY <2>2, <2>3, <2>4
<1> HIDE DEF V
<1>2. ASSUME NEW d, NEW h, LogPast(W, d, h), LogPast(M, d, h) PROVE LogPast(V, d, h)
    BY <1>1, <1>2 DEF LogPast
<1>3. ASSUME NEW K, Has(W, K) \/ Has(M, K) PROVE Has(V, K)
    BY <1>1, <1>3 DEF Has
<1> QED  BY <1>2, <1>3 DEF V

LEMMA NoDdlPast ==
    ASSUME NEW W, NoDdl(W), NEW d, NEW h
    PROVE  LogPast(W, d, h)
BY DEF NoDdl, LogPast

LEMMA AddsLog ==
    ASSUME NEW h, NEW h1, NEW out, NEW d, NEW c, Adds(h, h1, out, d, c), NEW W, LogPast(W, d, h)
    PROVE  LogPast(W, d, h1)
<1>1. \A k \in DOMAIN h1 : (k \in DOMAIN h /\ h1[k] = h[k]) \/ h1[k].xid = d
    BY DEF Adds
<1> QED  BY <1>1 DEF LogPast

LEMMA AddsMarked ==
    ASSUME NEW h, NEW h1, NEW out, NEW d, NEW c \in BOOLEAN, Adds(h, h1, out, d, c), NEW W, Marked(W, d, h),
           NEW W1, Has(W, {"advance"}) => Has(W1, {"advance"}),
           out.value # None /\ ~c => Has(W1, {"advance"})
    PROVE  Marked(W1, d, h1)
<1>1. \A k \in DOMAIN h1 : (k \in DOMAIN h /\ h1[k] = h[k]) \/ (out.value # None /\ h1[k].copied = c)
    BY DEF Adds
<1> QED  BY <1>1 DEF Marked

LEMMA AddsSettled ==
    ASSUME NEW h, NEW h1, NEW out, NEW d, NEW c \in BOOLEAN, Adds(h, h1, out, d, c), d # 0 \/ c,
           NEW R, SettledPast(R, h)
    PROVE  SettledPast(R, h1)
<1>1. \A k \in DOMAIN h1 : (k \in DOMAIN h /\ h1[k] = h[k]) \/ (h1[k].xid = d /\ h1[k].copied = c)
    BY DEF Adds
<1> QED  BY <1>1 DEF SettledPast

LEMMA AddsOthers ==
    ASSUME PInv, NEW out, NEW x, NEW c, Adds(issued, issued', out, x, c),
           NEW o \in Sessions, ~Held(o), InTxn(o) => txn[o].xid # x
    PROVE  /\ LogPast(txn[o].writes, txn[o].xid, issued')
           /\ InTxn(o) => Marked(txn[o].writes, txn[o].xid, issued')
<1>1. LogPast(txn[o].writes, txn[o].xid, issued')
    BY HeldIs, NoDdlPast
<1>2. ASSUME InTxn(o) PROVE Marked(txn[o].writes, txn[o].xid, issued')
  <2>1. \A k \in DOMAIN issued' : (k \in DOMAIN issued /\ issued'[k] = issued[k]) \/ issued'[k].xid = x
      BY DEF Adds
  <2>2. Marked(txn[o].writes, txn[o].xid, issued)
      BY <1>2 DEF PInv
  <2> QED  BY <1>2, <2>1, <2>2 DEF Marked
<1> QED  BY <1>1, <1>2

LEMMA MarkerHas ==
    ASSUME NEW out, out.advanced
    PROVE  Has(Marker(out), {"advance"})
<1>1. Marker(out) = <<Op("advance", None)>>
    BY DEF Marker
<1>2. 1 \in DOMAIN Marker(out) /\ Marker(out)[1].op = "advance"
    BY <1>1 DEF Op
<1> QED  BY <1>2 DEF Has

LEMMA ExecutePast ==
    ASSUME Orderly, SInv, PInv, NEW s \in Sessions, NEW q \in Statements, txn_execute(s, q)
    PROVE  PInv'
<1> DEFINE t == txn[s]
           d == t.xid
           W == t.writes
           out == execute(q, versions, stmt_snapshot(t), d)
           M == IF out.ok THEN Marker(out) ELSE <<>>
           c == FALSE
<1>0. Types /\ InTxn(s) /\ txn \in [Sessions -> TxnRec] /\ t \in TxnRec
    BY DEF txn_execute, SInv, Types
<1>1. Own(s) = d /\ Sees(s) = stmt_snapshot(t)
    BY <1>0 DEF Own, Sees
<1>2. /\ MayIssue(s, q, versions, d) /\ versions' = out.versions
      /\ Issue(out, d, c) /\ UNCHANGED <<image, log>>
    BY DEF txn_execute
<1>3. /\ txn'[s].xid = d /\ txn'[s].writes = W \o out.ops \o M
      /\ \A o \in Sessions \ {s} : txn'[o] = txn[o]
  <2>1. txn' = [txn EXCEPT ![s].snap = IF t.level = "RR" THEN stmt_snapshot(t) ELSE @,
                           ![s].writes = @ \o out.ops \o M, ![s].failed = ~out.ok]
      BY DEF txn_execute
  <2> HIDE DEF out, M
  <2> QED  BY <1>0, <2>1 DEF TxnRec
<1>4. (\A o \in Sessions \ {s} : ~Held(o)) /\ Allowed(q, versions, d)
    BY <1>1, <1>2, MayIssueIs
<1>5. Apt(Ended, d) /\ d # 0 /\ d \in Nat /\ Shape(versions, Ended, d) /\ LogGood(versions, Ended, d, W)
    BY <1>0, <1>1, <1>4, OwnApt, Ready
<1>6. Reads(versions, stmt_snapshot(t), d)
    BY <1>1, <1>4, ReadyReads
<1>7. Done(versions, out, Ended, d, W) /\ Either(versions, out)
    BY <1>4, <1>5, <1>6, StatementDone, StatementKindOf
<1>8. W \in Seq(OpRec) /\ M \in Seq(OpRec) /\ NoDdl(M)
  <2>1. Marker(out) \in Seq(OpRec) /\ NoDdl(Marker(out)) /\ <<>> \in Seq(OpRec) /\ NoDdl(<<>>)
      BY MarkerIs, EmptySeq DEF NoDdl
  <2> QED  BY <1>0, <2>1 DEF TxnRec
<1>9. out.ops \in Seq(OpRec) /\ out.moved \in BOOLEAN /\ out.value \in Option(Ints) /\ Shape(out.versions, Ended, d)
      /\ (out.value # None => out.ok /\ out.advanced)
    BY <1>7 DEF Done
<1>10. out.value # None => Has(M, {"advance"})
    BY <1>9, MarkerHas
<1> HIDE DEF out, M, t
<1>11. HistoryGood(issued, next_xid) /\ next_xid \in Nat /\ d < next_xid
    BY <1>0, EndedIs DEF Types, t
<1>12. Adds(issued, issued', out, d, c) /\ c \in BOOLEAN
  <2>1. c \in BOOLEAN
      OBVIOUS
  <2> HIDE DEF c, d
  <2> QED  BY <1>2, <1>5, <1>9, <1>11, <2>1, IssueGood
<1>13. NoTwice(issued) /\ AllPast(versions, issued) /\ LogPast(W, d, issued) /\ Marked(W, d, issued)
    BY <1>0 DEF PInv, t
<1>14. NoTwice(issued') /\ AllPast(out.versions, issued') /\ LogPast(out.ops, d, issued')
  <2> HIDE DEF c, d
  <2> QED  BY <1>5, <1>7, <1>9, <1>11, <1>12, <1>13, IssuePast
<1> DEFINE V == W \o out.ops
<1>15. V \in Seq(OpRec)
    BY <1>8, <1>9, Concat
<1>16. LogPast(W, d, issued') /\ LogPast(M, d, issued')
  <2> HIDE DEF c, d, W
  <2> QED  BY <1>8, <1>12, <1>13, AddsLog, NoDdlPast
<1>17. LogPast(V, d, issued')
  <2> HIDE DEF d, W
  <2> QED  BY <1>8, <1>9, <1>14, <1>16, JoinPast
<1>18. Has(W, {"advance"}) => Has(V, {"advance"})
  <2> HIDE DEF W
  <2> QED  BY <1>8, <1>9, JoinPast
<1> HIDE DEF V
<1>19. LogPast(V \o M, d, issued')
  <2> HIDE DEF d
  <2> QED  BY <1>8, <1>15, <1>16, <1>17, JoinPast
<1>20. Has(V, {"advance"}) \/ Has(M, {"advance"}) => Has(V \o M, {"advance"})
    BY <1>8, <1>15, JoinPast
<1>21. Marked(V \o M, d, issued')
  <2> DEFINE V1 == V \o M
  <2>1. Has(W, {"advance"}) => Has(V1, {"advance"})
      BY <1>18, <1>20
  <2>2. out.value # None => Has(V1, {"advance"})
      BY <1>10, <1>20
  <2> HIDE DEF c, d, W, V1
  <2>3. Marked(V1, d, issued')
      BY <1>12, <1>13, <2>1, <2>2, AddsMarked
  <2> QED  BY <2>3 DEF V1
<1>22. ASSUME NEW o \in Sessions \ {s}
       PROVE  /\ LogPast(txn[o].writes, txn[o].xid, issued')
              /\ InTxn(o) => Marked(txn[o].writes, txn[o].xid, issued')
  <2>1. InTxn(o) => txn[o].xid # d
      BY <1>0 DEF Types, t
  <2> HIDE DEF c, d
  <2> QED  BY <1>4, <1>12, <2>1, AddsOthers
<1>23. Recovered' = Recovered /\ Replayable' = Replayable
    BY <1>2 DEF Recovered, Replayable
<1>24. ASSUME Replayable' PROVE SettledPast(Recovered', issued')
  <2>1. SettledPast(Recovered, issued)
      BY <1>23, <1>24 DEF PInv
  <2>2. SettledPast(Recovered, issued')
    <3> HIDE DEF c, d
    <3> QED  BY <1>5, <1>12, <2>1, AddsSettled
  <2> QED  BY <1>23, <2>2
<1>25. txn'[s].xid = d /\ txn'[s].writes = V \o M
    BY <1>3 DEF V
<1>26. AllPast(versions', issued')
    BY <1>2, <1>14
<1> HIDE DEF d
<1> QED  BY <1>3, <1>14, <1>19, <1>21, <1>22, <1>24, <1>25, <1>26, PStep

LEMMA CopyPast ==
    ASSUME Orderly, SInv, PInv, NEW s \in Sessions, copy_from_ingest(s)
    PROVE  PInv'
<1> DEFINE t == txn[s]
           d == Own(s)
           W == t.writes
           x == t.xid
           out == seq_nextval(versions, Sees(s), d)
           q == [kind |-> "copy"]
           c == TRUE
<1>0. Types /\ t \in TxnRec /\ txn \in [Sessions -> TxnRec]
    BY DEF SInv, Types
<1>1. /\ MayIssue(s, q, versions, d) /\ versions' = out.versions /\ UNCHANGED <<log, image>>
      /\ Issue(out, x, c)
    BY DEF copy_from_ingest, Own, Sees
<1>2. txn'[s].xid = x /\ txn'[s].writes = W /\ \A o \in Sessions \ {s} : txn'[o] = txn[o]
  <2>1. txn' = [txn EXCEPT ![s].snap = IF InTxn(s) /\ t.level = "RR" THEN Sees(s) ELSE @,
                           ![s].failed = InTxn(s) /\ ~out.ok]
      BY DEF copy_from_ingest, Own, Sees
  <2> HIDE DEF out
  <2> QED  BY <1>0, <2>1 DEF TxnRec
<1>3. \A o \in Sessions \ {s} : ~Held(o)
    BY <1>1, MayIssueIs
<1>4. Apt(Ended, d) /\ d # 0 /\ Shape(versions, Ended, d) /\ LogGood(versions, Ended, d, W)
    BY <1>0, <1>3, OwnApt, Ready
<1>5. Done(versions, out, Ended, d, W) /\ Either(versions, out)
  <2>1. Reads(versions, Sees(s), d)
      BY <1>3, ReadyReads
  <2> HIDE DEF d, W
  <2> QED  BY <1>4, <2>1, NextvalDone, NextvalKinds
<1> HIDE DEF out
<1>6. out.moved \in BOOLEAN /\ out.value \in Option(Ints) /\ Shape(out.versions, Ended, d)
    BY <1>5 DEF Done
<1>7. HistoryGood(issued, next_xid) /\ next_xid \in Nat /\ x \in Nat /\ x < next_xid
  <2>1. ~InTxn(s) => x = 0
      BY DEF InTxn
  <2> QED  BY <1>0, <2>1, EndedIs DEF Types
<1>8. Adds(issued, issued', out, x, c) /\ c \in BOOLEAN /\ c
  <2>1. c \in BOOLEAN
      OBVIOUS
  <2>2. c
      OBVIOUS
  <2> HIDE DEF c, x
  <2>3. Adds(issued, issued', out, x, c)
      BY <1>1, <1>6, <1>7, <2>1, IssueGood
  <2> QED  BY <2>1, <2>2, <2>3
<1>9. NoTwice(issued) /\ AllPast(versions, issued) /\ LogPast(W, x, issued) /\ (InTxn(s) => Marked(W, x, issued))
    BY DEF PInv
<1>10. NoTwice(issued') /\ AllPast(versions', issued')
  <2>1. NoTwice(issued') /\ AllPast(out.versions, issued')
    <3> HIDE DEF c, d, x
    <3> QED  BY <1>4, <1>5, <1>6, <1>7, <1>8, <1>9, IssuePast
  <2> QED  BY <1>1, <2>1
<1>11. LogPast(txn'[s].writes, txn'[s].xid, issued')
  <2>1. LogPast(W, x, issued')
    <3> HIDE DEF c, x, W
    <3> QED  BY <1>8, <1>9, AddsLog
  <2> QED  BY <1>2, <2>1
<1>12. ASSUME txn'[s].xid # 0 PROVE Marked(txn'[s].writes, txn'[s].xid, issued')
  <2>1. Marked(W, x, issued)
      BY <1>2, <1>9, <1>12 DEF InTxn
  <2>2. Marked(W, x, issued')
    <3> HIDE DEF c, x, W
    <3> QED  BY <1>8, <2>1, AddsMarked
  <2> QED  BY <1>2, <2>2
<1>13. ASSUME NEW o \in Sessions \ {s}
       PROVE  /\ LogPast(txn[o].writes, txn[o].xid, issued')
              /\ InTxn(o) => Marked(txn[o].writes, txn[o].xid, issued')
  <2>1. InTxn(o) => txn[o].xid # x
      BY <1>0 DEF Types, InTxn
  <2> HIDE DEF c, x
  <2> QED  BY <1>3, <1>8, <2>1, AddsOthers
<1>14. Recovered' = Recovered /\ Replayable' = Replayable
    BY <1>1 DEF Recovered, Replayable
<1>15. ASSUME Replayable' PROVE SettledPast(Recovered', issued')
  <2>1. SettledPast(Recovered, issued)
      BY <1>14, <1>15 DEF PInv
  <2>2. SettledPast(Recovered, issued')
    <3> HIDE DEF c, x
    <3> QED  BY <1>8, <2>1, AddsSettled
  <2> QED  BY <1>14, <2>2
<1> QED  BY <1>2, <1>10, <1>11, <1>12, <1>13, <1>15, PStep

-----------------------------------------------------------------------------
(* Commits, and where the position is.                                      *)

\* What replay makes of a commit has gone past what the live version has, as long as
\* a log without an advance finds that it had before.
LEMMA ReplayedPast ==
    ASSUME NEW R, NEW vs, NEW C, NEW d, NEW L, NEW W, AtCommit(R, vs, C, d, L, W),
           NEW X, Committed(R, vs, C, d, L, W, X, Len(W)), NEW h, AllPast(vs, h),
           ~Has(W, {"advance"}) => SettledPast(R, h)
    PROVE  SettledPast(X, h)
<1>1. /\ Apt(C, d) /\ d # 0 /\ Shape(vs, C, d) /\ LogGood(vs, C, d, W) /\ OwnOne(vs, d)
      /\ Rebuilt(R, vs, C, L) /\ Carried(R, vs, d, W, X, Len(W))
    BY DEF AtCommit, Committed
<1>2. Len(W) \in Nat /\ DOMAIN W = 1 .. Len(W)
    BY <1>1, LogLen DEF LogGood
<1>3. NoDdl(W) \/ \E j \in DOMAIN W : IsLast(W, Len(W), j)
    BY <1>2, HasFirst DEF NoDdl
<1>4. ASSUME NEW i \in DOMAIN X, Live(X[i]) PROVE \E l \in DOMAIN vs : Live(vs[l])
  <2>1. SUFFICES ASSUME \A l \in DOMAIN vs : ~Live(vs[l]) PROVE FALSE
      OBVIOUS
  <2>2. Params(X[i]) \in LiveParams(X)
      BY <1>4 DEF LiveParams
  <2>3. CASE NoDdl(W)
    <3>1. LiveParams(X) = LiveParams(R)
        BY <1>2, <2>3 DEF Committed, NoDdl
    <3>2. Params(X[i]) \in ShownParams(vs, C)
        BY <1>1, <2>2, <3>1 DEF Rebuilt
    <3>3. PICK k \in DOMAIN vs : IsShown(vs[k], C)
        BY <3>2 DEF ShownParams
    <3>4. Untouched(vs, d)
        BY <1>1, <2>3, LiveLog
    <3>5. Fits(vs[k], C, d) /\ vs[k].dropped_xmax # d
        BY <1>1, <3>4 DEF Shape, Untouched
    <3> QED  BY <2>1, <3>3, <3>5 DEF Fits, IsShown, Live
  <2>4. ASSUME NEW j \in DOMAIN W, IsLast(W, Len(W), j) PROVE FALSE
    <3>1. W[j].op = "drop"
        BY <1>1, <2>1, <2>4, LiveLog
    <3>2. LiveParams(X) = {}
        BY <1>2, <2>4, <3>1 DEF Committed
    <3> QED  BY <2>2, <3>2
  <2> QED  BY <1>3, <2>3, <2>4
<1>5. ASSUME NEW i \in DOMAIN X, Live(X[i]), NEW e, \E k \in DOMAIN h : h[k] = e /\ e.xid = 0 /\ ~e.copied
      PROVE  Past(X[i], e)
  <2>1. PICK l \in DOMAIN vs : Live(vs[l])
      BY <1>4, <1>5
  <2>2. Past(vs[l], e)
      BY <1>5, <2>1 DEF AllPast
  <2>3. \A k \in DOMAIN vs : Live(vs[k]) => k = l
      BY <1>1, <2>1, OneOnly
  <2>4. ASSUME NEW k \in DOMAIN vs, vs[k].created_xmin = d PROVE k = l
    <3>1. ~NoDdl(W)
        BY <1>1, <2>4, LiveLog DEF Untouched
    <3>2. vs[l].created_xmin = d
        BY <1>1, <1>3, <2>1, <3>1, LiveLog
    <3> QED  BY <1>1, <2>4, <3>2 DEF OwnOne
  <2>5. ASSUME NEW k \in DOMAIN vs, Live(vs[k]) \/ vs[k].created_xmin = d, SamePos(X[i], vs[k])
        PROVE  Past(X[i], e)
    <3>1. k = l
        BY <2>3, <2>4, <2>5
    <3> QED  BY <2>2, <2>5, <3>1 DEF SamePos, Past
  <2>6. ASSUME (\A j \in 1 .. Len(W) : W[j].op # "advance") \/ Still(vs),
               NEW j \in DOMAIN R, Live(R[j]), SamePos(X[i], R[j])
        PROVE  Past(X[i], e)
    <3>1. ~Still(vs)
        BY <2>1, <2>2, <2>3 DEF Still, Past
    <3>2. ~Has(W, {"advance"})
        BY <1>2, <2>6, <3>1 DEF Has
    <3>3. Past(R[j], e)
        BY <1>5, <2>6, <3>2 DEF SettledPast
    <3> QED  BY <2>6, <3>3 DEF SamePos, Past
  <2> QED  BY <1>1, <1>5, <2>5, <2>6 DEF Carried
<1> QED  BY <1>5 DEF SettledPast

LEMMA ReplaysPast ==
    ASSUME NEW X, NEW vs, NEW d, NEW W, Replays(X, vs, d, W), NEW h, AllPast(vs, h),
           ~Has(W, {"advance"}) => SettledPast(Recovered, h)
    PROVE  SettledPast(X, h)
<1> DEFINE R == Recovered
           L == Logged
           C == Ended
<1>1. AtCommit(R, vs, C, d, L, W) /\ X = Replayed(R, records_for_commit(vs, d, W))
    BY DEF Replays
<1>2. ~Has(W, {"advance"}) => SettledPast(R, h)
    OBVIOUS
<1> HIDE DEF R, L, C
<1>3. Committed(R, vs, C, d, L, W, X, Len(W))
    BY <1>1, CommitRecords
<1> QED  BY <1>1, <1>2, <1>3, ReplayedPast

\* The history once the transaction d has committed.
Settles(h, h1, d) ==
    \A k \in DOMAIN h1 : /\ k \in DOMAIN h /\ h1[k].value = h[k].value /\ h1[k].copied = h[k].copied
                         /\ h1[k].xid = IF h[k].xid = d THEN 0 ELSE h[k].xid

LEMMA SettlesIs ==
    ASSUME NEW n, HistoryGood(issued, n), NEW d,
           issued' = [i \in DOMAIN issued |-> [issued[i] EXCEPT !.xid = IF @ = d THEN 0 ELSE @]]
    PROVE  Settles(issued, issued', d)
<1>1. \A k \in DOMAIN issued : issued[k] \in Entry
    BY LenProperties, ElementOfSeq DEF HistoryGood
<1>2. DOMAIN issued' = DOMAIN issued
    OBVIOUS
<1>3. ASSUME NEW k \in DOMAIN issued
      PROVE  /\ issued'[k].value = issued[k].value /\ issued'[k].copied = issued[k].copied
             /\ issued'[k].xid = IF issued[k].xid = d THEN 0 ELSE issued[k].xid
  <2>1. issued'[k] = [issued[k] EXCEPT !.xid = IF @ = d THEN 0 ELSE @]
      OBVIOUS
  <2>2. issued[k] \in Entry
      BY <1>1
  <2> DEFINE e == issued[k]
             e1 == issued'[k]
  <2>3. e1 = [e EXCEPT !.xid = IF @ = d THEN 0 ELSE @] /\ e \in Entry
      BY <2>1, <2>2
  <2> HIDE DEF e, e1
  <2>4. e1.value = e.value /\ e1.copied = e.copied /\ e1.xid = IF e.xid = d THEN 0 ELSE e.xid
      BY <2>3 DEF Entry
  <2> QED  BY <2>4 DEF e, e1
<1> QED  BY <1>2, <1>3 DEF Settles

LEMMA SettlesKeeps ==
    ASSUME NEW h, NEW h1, NEW d, Settles(h, h1, d)
    PROVE  /\ NoTwice(h) => NoTwice(h1)
           /\ \A vs : AllPast(vs, h) => AllPast(vs, h1)
           /\ \A W, x : x # 0 /\ x # d /\ Marked(W, x, h) => Marked(W, x, h1)
           /\ \A R, W : SettledPast(R, h) /\ Marked(W, d, h) /\ ~Has(W, {"advance"}) => SettledPast(R, h1)
<1>1. NoTwice(h) => NoTwice(h1)
    BY DEF Settles, NoTwice
<1>2. ASSUME NEW v, NEW k \in DOMAIN h1, Past(v, h[k]) PROVE Past(v, h1[k])
    BY <1>2 DEF Settles, Past
<1>3. ASSUME NEW vs, AllPast(vs, h) PROVE AllPast(vs, h1)
    BY <1>2, <1>3 DEF Settles, AllPast
<1>4. ASSUME NEW W, NEW x, x # 0, x # d, Marked(W, x, h) PROVE Marked(W, x, h1)
    BY <1>4 DEF Settles, Marked
<1>5. ASSUME NEW R, NEW W, SettledPast(R, h), Marked(W, d, h), ~Has(W, {"advance"}) PROVE SettledPast(R, h1)
  <2>1. ASSUME NEW k \in DOMAIN h1, h1[k].xid = 0, ~h1[k].copied
        PROVE  k \in DOMAIN h /\ h[k].xid = 0 /\ ~h[k].copied
      BY <1>5, <2>1 DEF Settles, Marked
  <2> QED  BY <1>2, <1>5, <2>1 DEF SettledPast
<1> QED  BY <1>1, <1>3, <1>4, <1>5

LEMMA NoTxnPast ==
    ASSUME NEW t, t = NoTxn, NEW h
    PROVE  LogPast(t.writes, t.xid, h) /\ t.xid = 0
BY NoTxnIs, EmptySeq DEF LogPast

LEMMA CommitPast ==
    ASSUME Orderly, SInv, PInv, NEW s \in Sessions, Commit(s)
    PROVE  PInv'
<1> DEFINE d == txn[s].xid
           W == txn[s].writes
<1>0. Types /\ InTxn(s) /\ txn \in [Sessions -> TxnRec]
    BY DEF SInv, Commit, Types
<1>1. /\ versions' = versions /\ txn' = [txn EXCEPT ![s] = NoTxn]
      /\ issued' = [i \in DOMAIN issued |-> [issued[i] EXCEPT !.xid = IF @ = d THEN 0 ELSE @]]
    BY DEF Commit, End
<1>2. HistoryGood(issued, next_xid)
    BY <1>0 DEF Types
<1>3. Settles(issued, issued', d)
    BY <1>1, <1>2, SettlesIs
<1>4. /\ \A o \in Sessions \ {s} : ~Held(o)
      /\ Replayable' => Replayable /\ Replays(Recovered', versions, d, W)
    BY CommitMeets DEF CommitsOn
<1>5. NoTwice(issued) /\ AllPast(versions, issued) /\ Marked(W, d, issued) /\ (Replayable => SettledPast(Recovered, issued))
    BY <1>0 DEF PInv
<1>6. txn'[s] = NoTxn /\ \A o \in Sessions \ {s} : txn'[o] = txn[o] /\ (InTxn(o) => txn[o].xid # 0 /\ txn[o].xid # d)
    BY <1>0, <1>1 DEF Types, InTxn
<1> DEFINE h1 == issued'
           R == Recovered
<1>7. Settles(issued, h1, d)
    BY <1>3
<1> HIDE DEF d, W, h1, R
<1>8. /\ NoTwice(issued) => NoTwice(h1)
      /\ \A vs : AllPast(vs, issued) => AllPast(vs, h1)
      /\ \A V, x : x # 0 /\ x # d /\ Marked(V, x, issued) => Marked(V, x, h1)
      /\ \A Q, V : SettledPast(Q, issued) /\ Marked(V, d, issued) /\ ~Has(V, {"advance"}) => SettledPast(Q, h1)
    BY <1>7, SettlesKeeps
<1>9. NoTwice(h1) /\ AllPast(versions, h1)
    BY <1>5, <1>8
<1>10. ASSUME NEW o \in Sessions \ {s}
       PROVE  LogPast(txn[o].writes, txn[o].xid, h1) /\ (InTxn(o) => Marked(txn[o].writes, txn[o].xid, h1))
  <2>1. LogPast(txn[o].writes, txn[o].xid, h1)
      BY <1>4, HeldIs, NoDdlPast
  <2>2. InTxn(o) => Marked(txn[o].writes, txn[o].xid, issued)
      BY DEF PInv
  <2> QED  BY <1>6, <1>8, <2>1, <2>2
<1>11. ASSUME Replayable' PROVE SettledPast(Recovered', h1)
  <2> DEFINE X == Recovered'
  <2>1. Replays(X, versions, d, W) /\ SettledPast(Recovered, issued)
      BY <1>4, <1>5, <1>11
  <2>2. ~Has(W, {"advance"}) => SettledPast(Recovered, h1)
      BY <1>5, <1>8, <2>1
  <2> HIDE DEF X
  <2>3. SettledPast(X, h1)
      BY <1>9, <2>1, <2>2, ReplaysPast
  <2> QED  BY <2>3 DEF X
<1>12. LogPast(txn'[s].writes, txn'[s].xid, h1) /\ txn'[s].xid = 0
    BY <1>6, NoTxnPast
<1>13. AllPast(versions', h1)
    BY <1>1, <1>9
<1> QED  BY <1>6, <1>9, <1>10, <1>11, <1>12, <1>13, PStep DEF h1


\* What an undo leaves has gone past all that it does not forget.
LEMMA UndoPast ==
    ASSUME NEW vs, NEW C, NEW d, NEW W, Apt(C, d), d # 0, Shape(vs, C, d), LogGood(vs, C, d, W),
           NEW m \in 0 .. Len(W), NEW h, LogPast(W, d, h), AllPast(vs, h),
           Has(SubSeq(W, m + 1, Len(W)), DDL) => \A k \in DOMAIN h : h[k].xid # d
    PROVE  AllPast(undo_all(vs, d, SubSeq(W, m + 1, Len(W))), h)
<1> DEFINE B == SubSeq(W, m + 1, Len(W))
           ws == undo_all(vs, d, B)
           i == FirstDdl(B)
<1>1. W \in Seq(OpRec) /\ Len(W) \in Nat /\ DOMAIN W = 1 .. Len(W)
    BY LogLen DEF LogGood
<1>2. /\ B \in Seq(OpRec) /\ DOMAIN B = 1 .. Len(W) - m /\ Len(B) = Len(W) - m
      /\ \A j \in 1 .. Len(W) - m : B[j] = W[m + j] /\ m + j \in m + 1 .. Len(W)
    BY <1>1, Cut
<1>3. CASE ~Has(B, DDL)
  <2>1. NoDdl(B)
      BY <1>3 DEF Has, NoDdl, Ddl
  <2>2. B \in Seq(OpRec)
      BY <1>2
  <2> HIDE DEF B
  <2>3. ws = vs
      BY <2>1, <2>2, UndoQuiet
  <2> QED  BY <2>3 DEF B
<1>4. CASE Has(B, DDL)
  <2>1. /\ UndoneTo(vs, ws, C, d, W, m)
        /\ Brought(ws, B[i].prev) /\ (B[i].prev # None => Live(B[i].prev[1]))
      BY <1>4, UndoneBrings
  <2>2. i \in DOMAIN B /\ Ddl(B[i])
    <3>1. PICK k \in DOMAIN B : B[k].op \in DDL
        BY <1>4 DEF Has
    <3> HIDE DEF B
    <3>2. Len(B) \in Nat /\ DOMAIN B = 1 .. Len(B)
        BY <1>2, LenProperties
    <3>3. k \in 1 .. Len(B) /\ Ddl(B[k])
        BY <3>1, <3>2 DEF Ddl
    <3>4. FirstDdl(B) \in 1 .. Len(B) /\ Ddl(B[FirstDdl(B)])
        BY <3>2, <3>3, FindDdl DEF IsFirst
    <3> QED  BY <3>2, <3>4
  <2>3. m + i \in DOMAIN W /\ W[m + i] = B[i]
    <3>1. m \in Nat /\ i \in 1 .. Len(W) - m
      <4>1. i \in DOMAIN B /\ DOMAIN B = 1 .. Len(W) - m
          BY <1>2, <2>2
      <4> QED  BY <4>1
    <3> HIDE DEF i, B
    <3> QED  BY <1>1, <1>2, <3>1
  <2> DEFINE p == B[i].prev
  <2>4. Shape(ws, C, d) /\ Brought(ws, p)
      BY <2>1 DEF UndoneTo
  <2>5. p # None => \A k \in DOMAIN h : Past(p[1], h[k])
      BY <1>4, <2>2, <2>3 DEF LogPast
  <2>6. p # None => Live(p[1])
      BY <2>1
  <2> HIDE DEF ws, p, i, B
  <2>7. AllPast(ws, h)
    <3>1. CASE p = None
        BY <2>4, <3>1 DEF Brought, AllPast
    <3>2. CASE p # None
      <4>1. PICK j \in DOMAIN ws : ws[j] = p[1]
          BY <2>4, <3>2 DEF Brought
      <4>2. \A k \in DOMAIN ws : Live(ws[k]) => k = j
          BY <2>4, <2>6, <3>2, <4>1, OneOnly
      <4> QED  BY <2>5, <3>2, <4>1, <4>2 DEF AllPast
    <3> QED  BY <3>1, <3>2
  <2> QED  BY <2>7 DEF ws, B
<1> QED  BY <1>3, <1>4

LEMMA AutocommitPast ==
    ASSUME Orderly, SInv, PInv, NEW s \in Sessions, NEW q \in Statements, autocommit_execute(s, q)
    PROVE  PInv'
<1> DEFINE d == next_xid
           snap == [next_xid |-> d + 1, active |-> active \cup {d}]
           out == execute(q, versions, snap, d)
           M == IF out.ok THEN Marker(out) ELSE <<>>
           W == out.ops \o M
           kept == out.ok /\ ~Refused(out.versions, d, W)
           x == 0
           c == FALSE
<1>0. Types /\ txn[s] = NoTxn /\ HistoryGood(issued, d) /\ d \in Nat /\ 0 < d
  <2>1. Types /\ ~InTxn(s)
      BY DEF SInv, autocommit_execute
  <2> QED  BY <2>1, EndedIs DEF Types
<1>1. /\ next_xid' = d + 1 /\ next_xid < MaxXid
      /\ versions' = IF kept THEN out.versions ELSE undo_all(out.versions, d, out.ops)
      /\ log' = log \o (IF kept THEN records_for_commit(out.versions, d, W) ELSE <<>>)
      /\ Issue(out, x, c) /\ UNCHANGED <<txn, image>>
    BY DEF autocommit_execute
<1>2. AutocommitsOn(s, q, d, out, M)
    BY AutocommitMeets
<1>3. out.value # None /\ out.ok /\ out.advanced => Has(M, {"advance"})
    BY MarkerHas
<1> DEFINE ws == out.versions
           ops == out.ops
<1>4. /\ (\A o \in Sessions \ {s} : ~Held(o)) /\ Allowed(q, versions, d)
      /\ Apt(Ended, d) /\ d # 0 /\ Shape(versions, Ended, d) /\ LogGood(versions, Ended, d, <<>>)
      /\ Reads(versions, snap, d) /\ Done(versions, out, Ended, d, <<>>)
      /\ M \in Seq(OpRec) /\ NoDdl(M)
      /\ LogGood(ws, Ended, d, ops) /\ LogGood(ws, Ended, d, W)
      /\ OwnOne(ws, d)
    BY <1>2 DEF AutocommitsOn
<1>5. Either(versions, out)
  <2> HIDE DEF d, snap
  <2> QED  BY <1>4, StatementKindOf
<1> HIDE DEF out, M
<1>6. /\ Shape(ws, Ended, d) /\ ShownParams(ws, Ended) = ShownParams(versions, Ended)
      /\ ops \in Seq(OpRec) /\ out.ok \in BOOLEAN /\ out.moved \in BOOLEAN /\ out.value \in Option(Ints)
      /\ out.value # None => out.ok /\ out.advanced /\ ops = <<>>
      /\ ops # <<>> => out.ok
    BY <1>4 DEF Done
<1>7. Adds(issued, issued', out, x, c) /\ c \in BOOLEAN /\ x = 0
  <2>1. x \in Nat /\ x < d /\ c \in BOOLEAN /\ x = 0
      BY <1>0
  <2> HIDE DEF x, c, d
  <2> QED  BY <1>0, <1>1, <1>6, <2>1, IssueGood
<1>8. NoTwice(issued) /\ AllPast(versions, issued) /\ (Replayable => SettledPast(Recovered, issued))
    BY DEF PInv
<1> HIDE DEF x, c
<1> DEFINE h1 == issued'
<1>9. NoTwice(h1) /\ AllPast(ws, h1) /\ LogPast(ops, d, h1)
  <2>1. Adds(issued, h1, out, x, c)
      BY <1>7
  <2> HIDE DEF d, h1
  <2> QED  BY <1>0, <1>4, <1>5, <1>6, <1>8, <2>1, IssuePast
<1>10. out.value = None /\ Replayable => SettledPast(Recovered, h1)
  <2> DEFINE R == Recovered
  <2>1. Adds(issued, h1, out, x, c)
      BY <1>7
  <2> HIDE DEF h1, R
  <2>2. ASSUME out.value = None, SettledPast(R, issued) PROVE SettledPast(R, h1)
    <3>1. Within(issued, h1)
        BY <2>1, <2>2, AddsNone
    <3> QED  BY <2>2, <3>1, Fewer
  <2> QED  BY <1>8, <2>2 DEF R
<1>11. ASSUME NEW o \in Sessions \ {s}
       PROVE  LogPast(txn[o].writes, txn[o].xid, h1) /\ (InTxn(o) => Marked(txn[o].writes, txn[o].xid, h1))
  <2>1. InTxn(o) => txn[o].xid # x
      BY <1>7 DEF InTxn
  <2> QED  BY <1>4, <1>7, <2>1, AddsOthers
<1>12. txn' = txn /\ LogPast(txn[s].writes, txn[s].xid, h1) /\ txn[s].xid = 0
    BY <1>0, <1>1, NoTxnPast
<1>13. CASE kept
  <2>1. /\ versions' = ws /\ image' = image /\ ~Refused(ws, d, W)
        /\ log' = log \o records_for_commit(ws, d, W)
      BY <1>1, <1>13
  <2>2. next_xid' \in Nat /\ next_xid <= next_xid' /\ d < next_xid'
      BY <1>0, <1>1
  <2>3. Replayable => Rebuilt(Recovered, ws, Ended, Logged)
      BY <1>6 DEF SInv, Rebuilt
  <2>4. Replayable' => Replayable /\ Replays(Recovered', ws, d, W)
    <3> HIDE DEF d, W, ws
    <3> QED  BY <1>4, <1>6, <2>1, <2>2, <2>3, CommitFiles DEF d
  <2>5. ~Has(W, {"advance"}) => out.value = None
    <3>1. Has(M, {"advance"}) => Has(ops \o M, {"advance"})
      <4> HIDE DEF ops
      <4> QED  BY <1>4, <1>6, JoinPast
    <3> QED  BY <1>3, <1>6, <3>1
  <2>6. ASSUME Replayable' PROVE SettledPast(Recovered', h1)
    <3> DEFINE X == Recovered'
    <3>1. Replays(X, ws, d, W)
        BY <2>4, <2>6
    <3>2. ~Has(W, {"advance"}) => SettledPast(Recovered, h1)
        BY <1>10, <2>4, <2>5, <2>6
    <3> HIDE DEF X, h1, d, W, ws
    <3>3. SettledPast(X, h1)
        BY <1>9, <3>1, <3>2, ReplaysPast
    <3> QED  BY <3>3 DEF X
  <2>7. AllPast(versions', h1)
      BY <1>9, <2>1
  <2> HIDE DEF ws, d
  <2> QED  BY <1>9, <1>11, <1>12, <2>6, <2>7, PStep DEF h1
<1>14. CASE ~kept
  <2>1. versions' = undo_all(ws, d, ops) /\ image' = image
      BY <1>1, <1>14
  <2>2. log' = log
    <3>1. log' = log \o <<>> /\ log \in Seq(RecordRec)
        BY <1>1, <1>14 DEF SInv, FilesGood
    <3> QED  BY <3>1, ConcatEmptySeq, Zenon
  <2>3. Recovered' = Recovered /\ Replayable' = Replayable
      BY <2>1, <2>2 DEF Recovered, Replayable
  <2>4. out.value = None
    <3>1. SUFFICES ASSUME out.value # None PROVE FALSE
        OBVIOUS
    <3>2. out.ok /\ ops = <<>>
        BY <1>6, <3>1
    <3>3. Refused(ws, d, W)
        BY <1>14, <3>2
    <3>4. PICK j \in DOMAIN W : W[j].op = "create"
        BY <3>3 DEF Refused
    <3>5. W = M
        BY <1>4, <3>2, ConcatEmptySeq, Zenon
    <3> QED  BY <1>4, <3>4, <3>5 DEF NoDdl, Ddl, DDL
  <2>5. ASSUME Replayable' PROVE SettledPast(Recovered', h1)
      BY <1>10, <2>3, <2>4, <2>5
  <2>6. AllPast(versions', h1)
    <3>1. HistoryGood(h1, d)
      <4>1. x \in Nat /\ x < d
          BY <1>0, <1>7
      <4> HIDE DEF d
      <4> QED  BY <1>0, <1>1, <1>6, <1>7, <4>1, IssueGood
    <3>2. \A k \in DOMAIN h1 : h1[k].xid # d
      <4>1. \A k \in DOMAIN h1 : h1[k].xid < d /\ d \in Nat
          BY <1>0, <3>1 DEF HistoryGood
      <4> QED  BY <4>1
    <3>3. SubSeq(ops, 1, Len(ops)) = ops
        BY <1>6, CutNone
    <3>4. Len(ops) \in Nat
        BY <1>6, LenProperties
    <3> DEFINE m == 0
               B == SubSeq(ops, m + 1, Len(ops))
    <3>5. m \in 0 .. Len(ops) /\ B = ops
        BY <3>3, <3>4
    <3> HIDE DEF m, h1, d, ws
    <3>6. AllPast(undo_all(ws, d, B), h1)
        BY <1>4, <1>6, <1>9, <3>2, <3>5, UndoPast
    <3> HIDE DEF B
    <3> QED  BY <2>1, <3>5, <3>6
  <2> HIDE DEF ws, d
  <2> QED  BY <1>9, <1>11, <1>12, <2>5, <2>6, PStep DEF h1
<1> QED  BY <1>13, <1>14

-----------------------------------------------------------------------------
(* Rollbacks, checkpoints and crashes, and where the position is.           *)

LEMMA MarkersHas ==
    ASSUME NEW W \in Seq(OpRec), Has(W, {"advance"})
    PROVE  Has(Markers(W), {"advance"})
<1> DEFINE K == {i \in DOMAIN W : W[i].op = "advance"}
<1>1. K \in SUBSET (1 .. Len(W))
    BY LenProperties
<1>2. PICK e : Lists(OpRec, W, K, Picked(W, K), e)
    BY <1>1, PickedLists
<1>3. Markers(W) = Picked(W, K)
    BY DEF Markers
<1>4. PICK k \in K : W[k].op = "advance"
    BY DEF Has
<1> DEFINE M == Picked(W, K)
<1> HIDE DEF K, M
<1>5. PICK i \in 1 .. Len(M) : e[i] = k
    BY <1>2, <1>4 DEF Lists, M
<1>6. M \in Seq(OpRec) /\ M[i] = W[k]
    BY <1>2, <1>5 DEF Lists, M
<1>7. i \in DOMAIN M /\ M[i].op = "advance"
    BY <1>4, <1>5, <1>6, LenProperties
<1> QED  BY <1>3, <1>7 DEF Has, M

\* A step of s that leaves the files and adds nothing to the history.
LEMMA EndPast ==
    ASSUME PInv, NEW s \in Sessions, \A o \in Sessions \ {s} : txn'[o] = txn[o],
           log' = log, image' = image,
           Within(issued, issued'), NoTwice(issued'), AllPast(versions', issued'),
           LogPast(txn'[s].writes, txn'[s].xid, issued'),
           txn'[s].xid # 0 => Marked(txn'[s].writes, txn'[s].xid, issued')
    PROVE  PInv'
<1>1. Recovered' = Recovered /\ Replayable' = Replayable
    BY DEF Recovered, Replayable
<1>2. /\ Replayable => SettledPast(Recovered, issued')
      /\ \A o \in Sessions : /\ LogPast(txn[o].writes, txn[o].xid, issued')
                             /\ InTxn(o) => Marked(txn[o].writes, txn[o].xid, issued')
    BY PFewer
<1>3. Replayable' => SettledPast(Recovered', issued')
    BY <1>1, <1>2
<1> QED  BY <1>2, <1>3, PStep

\* What an undo of the ops after the first m leaves.
LEMMA UndonePast ==
    ASSUME SInv, PInv, NEW s \in Sessions, InTxn(s), NEW m \in 0 .. Len(txn[s].writes),
           NEW B, B = SubSeq(txn[s].writes, m + 1, Len(txn[s].writes)),
           versions' = undo_all(versions, txn[s].xid, B), Forget(txn[s].xid, B)
    PROVE  /\ Within(issued, issued') /\ NoTwice(issued') /\ AllPast(versions', issued')
           /\ Has(B, DDL) => \A k \in DOMAIN issued' : issued'[k].xid # txn[s].xid
           /\ ~Has(B, DDL) => issued' = issued
<1> DEFINE d == txn[s].xid
           W == txn[s].writes
           h == issued'
<1>1. Types /\ Own(s) = d /\ W \in Seq(OpRec)
    BY DEF SInv, Own, Types, TxnRec
<1>2. HistoryGood(issued, next_xid) /\ NoTwice(issued) /\ AllPast(versions, issued) /\ LogPast(W, d, issued)
    BY <1>1 DEF Types, PInv
<1>3. /\ Within(issued, h) /\ NoTwice(h)
      /\ Has(B, DDL) => \A k \in DOMAIN h : h[k].xid # d
      /\ ~Has(B, DDL) => h = issued
  <2> HIDE DEF d
  <2> QED  BY <1>2, Forgotten DEF d
<1>4. /\ B \in Seq(OpRec) /\ DOMAIN B = 1 .. Len(W) - m
      /\ \A j \in 1 .. Len(W) - m : B[j] = W[m + j] /\ m + j \in m + 1 .. Len(W)
    BY <1>1, Cut
<1>5. AllPast(versions', h)
  <2>1. CASE ~Has(B, DDL)
    <3>1. NoDdl(B)
        BY <2>1 DEF Has, NoDdl, Ddl
    <3>2. versions' = versions
        BY <1>4, <3>1, UndoQuiet
    <3> QED  BY <1>2, <1>3, <2>1, <3>2
  <2>2. CASE Has(B, DDL)
    <3>1. Held(s)
      <4>1. PICK j \in DOMAIN B : B[j].op \in DDL
          BY <2>2 DEF Has
      <4>2. m + j \in m + 1 .. Len(W) /\ W[m + j] = B[j] /\ m \in Nat
          BY <1>4, <4>1
      <4>3. DOMAIN W = 1 .. Len(W) /\ Len(W) \in Nat
          BY <1>1, LenProperties
      <4>4. m + j \in DOMAIN W
        <5> HIDE DEF W
        <5> QED  BY <4>2, <4>3
      <4> QED  BY <4>1, <4>2, <4>4 DEF Held, Has
    <3>2. \A o \in Sessions \ {s} : ~Held(o)
        BY <3>1 DEF SInv, Solo
    <3>3. Apt(Ended, d) /\ d # 0 /\ Shape(versions, Ended, d) /\ LogGood(versions, Ended, d, W)
        BY <1>1, <3>2, OwnApt, Ready
    <3> HIDE DEF d, W, h
    <3>4. AllPast(versions, h) /\ LogPast(W, d, h)
        BY <1>2, <1>3, Fewer
    <3>5. m \in 0 .. Len(W) /\ B = SubSeq(W, m + 1, Len(W))
        BY DEF W
    <3>6. AllPast(undo_all(versions, d, B), h)
        BY <1>3, <2>2, <3>3, <3>4, <3>5, UndoPast
    <3> QED  BY <3>6 DEF d
  <2> QED  BY <2>1, <2>2
<1> QED  BY <1>3, <1>5

LEMMA RollbackPast ==
    ASSUME SInv, PInv, NEW s \in Sessions, txn_rollback(s)
    PROVE  PInv'
<1> DEFINE d == txn[s].xid
           W == txn[s].writes
           m == 0
<1>0. Types /\ InTxn(s) /\ txn \in [Sessions -> TxnRec] /\ W \in Seq(OpRec)
    BY DEF SInv, txn_rollback, Types, TxnRec
<1>1. /\ versions' = undo_all(versions, d, W) /\ Forget(d, W)
      /\ txn' = [txn EXCEPT ![s] = NoTxn] /\ log' = log /\ image' = image
    BY DEF txn_rollback, End
<1>2. m \in 0 .. Len(W) /\ W = SubSeq(W, m + 1, Len(W))
    BY <1>0, CutNone, LenProperties
<1>3. txn'[s] = NoTxn /\ \A o \in Sessions \ {s} : txn'[o] = txn[o]
    BY <1>0, <1>1
<1> HIDE DEF m
<1>4. Within(issued, issued') /\ NoTwice(issued') /\ AllPast(versions', issued')
    BY <1>0, <1>1, <1>2, UndonePast
<1> DEFINE h == issued'
<1>5. LogPast(txn'[s].writes, txn'[s].xid, h) /\ txn'[s].xid = 0
  <2> HIDE DEF h
  <2> QED  BY <1>3, NoTxnPast
<1> QED  BY <1>1, <1>3, <1>4, <1>5, EndPast

\* The ops before a savepoint.
LEMMA CutPast ==
    ASSUME NEW W \in Seq(OpRec), NEW m \in 0 .. Len(W)
    PROVE  LET A == SubSeq(W, 1, m)
               B == SubSeq(W, m + 1, Len(W)) IN
           /\ \A d, h : LogPast(W, d, h) => LogPast(A, d, h)
           /\ \A Q : Has(W, Q) => Has(A, Q) \/ Has(B, Q)
<1> DEFINE A == SubSeq(W, 1, m)
           B == SubSeq(W, m + 1, Len(W))
<1>1. /\ DOMAIN A = 1 .. m /\ m \in Nat /\ \A j \in 1 .. m : A[j] = W[j]
      /\ \A j \in m + 1 .. Len(W) : j - m \in DOMAIN B /\ B[j - m] = W[j]
    BY Cut
<1>2. DOMAIN W = 1 .. Len(W) /\ Len(W) \in Nat
    BY LenProperties
<1> HIDE DEF A, B
<1>3. /\ \A j \in DOMAIN A : j \in DOMAIN W
      /\ \A j \in DOMAIN W : j \in DOMAIN A \/ j \in m + 1 .. Len(W)
    BY <1>1, <1>2
<1>4. ASSUME NEW d, NEW h, LogPast(W, d, h) PROVE LogPast(A, d, h)
    BY <1>1, <1>3, <1>4 DEF LogPast
<1>5. ASSUME NEW Q, Has(W, Q) PROVE Has(A, Q) \/ Has(B, Q)
  <2>1. PICK j \in DOMAIN W : W[j].op \in Q
      BY <1>5 DEF Has
  <2>2. CASE j \in DOMAIN A
    <3>1. A[j] = W[j]
        BY <1>1, <2>2
    <3> QED  BY <2>1, <2>2, <3>1 DEF Has
  <2>3. CASE j \in m + 1 .. Len(W)
    <3>1. j - m \in DOMAIN B /\ B[j - m] = W[j]
        BY <1>1, <2>3
    <3> QED  BY <2>1, <3>1 DEF Has
  <2> QED  BY <1>3, <2>1, <2>2, <2>3
<1> QED  BY <1>4, <1>5 DEF A, B

LEMMA RollbackToPast ==
    ASSUME SInv, PInv, NEW s \in Sessions, txn_rollback_to(s)
    PROVE  PInv'
<1> DEFINE d == txn[s].xid
           W == txn[s].writes
           S == txn[s].saves
           m == Last(S)
           B == SubSeq(W, m + 1, Len(W))
           A == SubSeq(W, 1, m)
           M == Markers(B)
           V == A \o M
           h == issued'
<1>0. Types /\ InTxn(s) /\ txn \in [Sessions -> TxnRec] /\ txn[s] \in TxnRec
    BY DEF SInv, txn_rollback_to, Types
<1>1. /\ S # <<>> /\ versions' = undo_all(versions, d, B) /\ Forget(d, B)
      /\ log' = log /\ image' = image
    BY DEF txn_rollback_to
<1>2. /\ W \in Seq(OpRec) /\ S \in Seq(Nat) /\ SavesGood(txn[s])
      /\ txn' = [txn EXCEPT ![s].writes = V, ![s].failed = FALSE]
    BY <1>0 DEF txn_rollback_to, TxnRec, Types
<1>3. m \in 0 .. Len(W)
  <2>1. Len(S) \in Nat /\ Len(S) # 0 /\ DOMAIN S = 1 .. Len(S) /\ m = S[Len(S)] /\ Len(W) \in Nat
      BY <1>1, <1>2, LenProperties, EmptySeq DEF Last
  <2>2. Len(S) \in DOMAIN S
      BY <2>1
  <2>3. S[Len(S)] \in Nat
      BY <1>2, <2>2, ElementOfSeq
  <2>4. S[Len(S)] <= Len(W)
      BY <1>2, <2>2 DEF SavesGood
  <2>5. m \in Nat /\ m <= Len(W)
      BY <2>1, <2>3, <2>4
  <2> HIDE DEF m
  <2> QED  BY <2>1, <2>5
<1>4. A \in Seq(OpRec) /\ B \in Seq(OpRec)
    BY <1>2, <1>3, Cut
<1>5. M \in Seq(OpRec) /\ NoDdl(M) /\ (Has(B, {"advance"}) => Has(M, {"advance"}))
    BY <1>4, MarkersIs, MarkersHas
<1>6. /\ \A x, g : LogPast(W, x, g) => LogPast(A, x, g)
      /\ \A Q : Has(W, Q) => Has(A, Q) \/ Has(B, Q)
    BY <1>2, <1>3, CutPast
<1> HIDE DEF A, B, M, m
<1>7. /\ \A x, g : LogPast(A, x, g) /\ LogPast(M, x, g) => LogPast(V, x, g)
      /\ \A Q : Has(A, Q) \/ Has(M, Q) => Has(V, Q)
    BY <1>4, <1>5, JoinPast
<1>8. /\ txn'[s].xid = d /\ txn'[s].writes = V
      /\ \A o \in Sessions \ {s} : txn'[o] = txn[o]
  <2> HIDE DEF V
  <2> QED  BY <1>0, <1>2 DEF TxnRec
<1>9. /\ Within(issued, h) /\ NoTwice(h) /\ AllPast(versions', h)
      /\ Has(B, DDL) => \A k \in DOMAIN h : h[k].xid # d
      /\ ~Has(B, DDL) => h = issued
    BY <1>0, <1>1, <1>3, UndonePast DEF B
<1>10. LogPast(W, d, h) /\ Marked(W, d, issued)
    BY <1>0, <1>9, PFewer DEF PInv
<1> HIDE DEF V, h, d, W
<1>11. LogPast(V, d, h)
  <2>1. LogPast(M, d, h)
      BY <1>5, NoDdlPast
  <2> QED  BY <1>6, <1>7, <1>10, <2>1
<1>12. Marked(V, d, h)
  <2>1. CASE Has(B, DDL)
      BY <1>9, <2>1 DEF Marked
  <2>2. CASE ~Has(B, DDL)
    <3>1. Has(W, {"advance"}) => Has(V, {"advance"})
        BY <1>5, <1>6, <1>7
    <3> QED  BY <1>9, <1>10, <2>2, <3>1 DEF Marked
  <2> QED  BY <2>1, <2>2
<1>13. LogPast(txn'[s].writes, txn'[s].xid, issued') /\ Marked(txn'[s].writes, txn'[s].xid, issued')
    BY <1>8, <1>11, <1>12 DEF h
<1>14. Within(issued, issued') /\ NoTwice(issued') /\ AllPast(versions', issued')
    BY <1>9 DEF h
<1> QED  BY <1>1, <1>8, <1>13, <1>14, EndPast

\* The version that everyone is shown has gone past what committed transactions hold,
\* also when an open block has dropped or replaced it.
LEMMA ShownPast ==
    ASSUME SInv, PInv, NEW k \in DOMAIN versions, IsShown(versions[k], Ended),
           NEW l \in DOMAIN issued, issued[l].xid = 0
    PROVE  Past(versions[k], issued[l])
<1>1. CASE Live(versions[k])
    BY <1>1 DEF PInv, AllPast
<1>2. CASE ~Live(versions[k])
  <2>1. ~\A s \in Sessions : ~Held(s)
    <3>1. SUFFICES ASSUME \A s \in Sessions : ~Held(s) PROVE FALSE
        OBVIOUS
    <3>2. Shape(versions, Ended, 0)
        BY <3>1 DEF SInv, Blocks
    <3>3. Fits(versions[k], Ended, 0)
        BY <3>2 DEF Shape
    <3> QED  BY <1>2, <3>3 DEF Fits, IsShown, Live
  <2>2. PICK s \in Sessions : Held(s)
      BY <2>1
  <2> DEFINE d == txn[s].xid
             W == txn[s].writes
             C == Ended
  <2>3. Shape(versions, C, d) /\ LogGood(versions, C, d, W)
      BY <2>2 DEF SInv, Blocks
  <2>4. d # 0 /\ d \notin C
    <3>1. Types
        BY DEF SInv
    <3>2. InTxn(s)
        BY <2>2, <3>1, NoTxnIs, EmptySeq DEF Types, Held, Has
    <3> QED  BY <3>1, <3>2, EndedIs
  <2>5. LogPast(W, d, issued)
      BY DEF PInv
  <2>6. Len(W) \in Nat /\ DOMAIN W = 1 .. Len(W) /\ LogShape(C, d, W) /\ After(versions, C, d, W, Len(W))
      BY <2>3, LogLen DEF LogGood
  <2>7. PICK j \in 1 .. Len(W) : IsFirst(W, j)
    <3>1. \E i \in 1 .. Len(W) : Ddl(W[i])
        BY <2>2, <2>6 DEF Held, Has, Ddl
    <3> HIDE DEF W
    <3> QED  BY <2>6, <3>1, HasFirst
  <2> HIDE DEF d, W, C
  <2>8. versions[k].created_xmin \in C /\ versions[k].dropped_xmax \notin C
      BY DEF IsShown, C
  <2>9. FirstDone(versions, C, d, W[j]) /\ Ddl(W[j])
      BY <2>6, <2>7 DEF After, IsFirst
  <2> DEFINE p == W[j].prev
  <2>10. p # None
      BY <2>8, <2>9 DEF FirstDone
  <2>11. PICK i \in DOMAIN versions : versions[i] = [p[1] EXCEPT !.dropped_xmax = d]
      BY <2>9, <2>10 DEF FirstDone
  <2>12. p[1] \in Version /\ p[1].created_xmin \in C
      BY <2>6, <2>7, <2>9, <2>10 DEF LogShape, Sound
  <2>13. Past(p[1], issued[l])
      BY <2>4, <2>5, <2>6, <2>7, <2>9, <2>10 DEF LogPast
  <2> HIDE DEF p
  <2>14. /\ SamePos(versions[i], p[1]) /\ versions[i].created_xmin = p[1].created_xmin
        /\ versions[i].dropped_xmax = d
      BY <2>11, <2>12 DEF SamePos, Version
  <2>15. i = k
    <3>1. IsShown(versions[i], C) /\ IsShown(versions[k], C)
        BY <2>4, <2>8, <2>12, <2>14 DEF IsShown
    <3> QED  BY <2>3, <3>1, OneOnly
  <2> QED  BY <2>13, <2>14, <2>15 DEF SamePos, Past
<1> QED  BY <1>1, <1>2

LEMMA CheckpointPast ==
    ASSUME SInv, PInv, checkpoint
    PROVE  PInv'
<1> DEFINE R == Recovered'
<1>1. versions' = versions /\ txn' = txn /\ issued' = issued
    BY DEF checkpoint
<1>2. Copies(R, versions, Ended)
    BY CheckpointKeeps
<1> HIDE DEF R
<1>3. ASSUME NEW i \in DOMAIN R, NEW l \in DOMAIN issued, issued[l].xid = 0
      PROVE  Past(R[i], issued[l])
  <2>1. PICK k \in DOMAIN versions : IsShown(versions[k], Ended) /\ SamePos(R[i], versions[k])
      BY <1>2 DEF Copies
  <2>2. Past(versions[k], issued[l])
      BY <1>3, <2>1, ShownPast
  <2> QED  BY <2>1, <2>2 DEF SamePos, Past
<1>4. SettledPast(R, issued)
    BY <1>3 DEF SettledPast
<1>5. SettledPast(Recovered', issued')
    BY <1>1, <1>4 DEF R
<1> QED  BY <1>1, <1>5 DEF PInv, InTxn

LEMMA CrashPast ==
    ASSUME Exact, SInv, PInv, Crash
    PROVE  PInv'
<1> DEFINE R == Recovered
           K == {i \in DOMAIN issued : issued[i].xid = 0}
           h == issued'
<1>1. /\ Replayable /\ versions' = R /\ txn' = [s \in Sessions |-> NoTxn]
      /\ issued' = Picked(issued, K) /\ log' = log /\ image' = image
      /\ \A i \in DOMAIN issued : ~issued[i].copied
    BY DEF Crash, Exact
<1>2. HistoryGood(issued, next_xid) /\ NoTwice(issued) /\ SettledPast(R, issued)
    BY <1>1 DEF SInv, Types, PInv
<1>3. K \in SUBSET DOMAIN issued /\ \A l \in K : l \in DOMAIN issued /\ issued[l].xid = 0
    OBVIOUS
<1>4. h = Picked(issued, K)
    BY <1>1
<1> HIDE DEF K, h, R
<1>5. /\ Within(issued, h) /\ NoTwice(h)
      /\ \A k \in DOMAIN h : \E l \in K : h[k] = issued[l]
    BY <1>2, <1>3, <1>4, PickedPast
<1>6. AllPast(R, h)
  <2>1. ASSUME NEW i \in DOMAIN R, Live(R[i]), NEW k \in DOMAIN h PROVE Past(R[i], h[k])
    <3>1. PICK l \in K : h[k] = issued[l]
        BY <1>5
    <3>2. l \in DOMAIN issued /\ issued[l].xid = 0 /\ ~issued[l].copied
        BY <1>1, <1>3
    <3> QED  BY <1>2, <2>1, <3>1, <3>2 DEF SettledPast
  <2> QED  BY <2>1 DEF AllPast
<1>7. SettledPast(R, h)
    BY <1>2, <1>5, Fewer
<1>8. Recovered' = Recovered /\ Replayable' = Replayable
    BY <1>1 DEF Recovered, Replayable
<1>9. ASSUME NEW s \in Sessions PROVE LogPast(txn'[s].writes, txn'[s].xid, h) /\ txn'[s].xid = 0
  <2>1. txn'[s] = NoTxn
      BY <1>1
  <2> QED  BY <2>1, NoTxnPast
<1>10. NoTwice(issued') /\ AllPast(versions', issued') /\ SettledPast(Recovered', issued')
    BY <1>1, <1>5, <1>6, <1>7, <1>8 DEF h, R
<1>11. \A s \in Sessions : LogPast(txn'[s].writes, txn'[s].xid, issued') /\ txn'[s].xid = 0
    BY <1>9 DEF h
<1> QED  BY <1>10, <1>11 DEF PInv, InTxn

LEMMA InitPast ==
    ASSUME Init
    PROVE  PInv
<1>1. issued = <<>> /\ txn = [s \in Sessions |-> NoTxn]
    BY DEF Init
<1>2. DOMAIN issued = {}
    BY <1>1
<1>3. NoTwice(issued) /\ AllPast(versions, issued) /\ SettledPast(Recovered, issued)
    BY <1>2 DEF NoTwice, AllPast, SettledPast
<1>4. \A s \in Sessions : /\ LogPast(txn[s].writes, txn[s].xid, issued)
                          /\ Marked(txn[s].writes, txn[s].xid, issued)
    BY <1>2 DEF LogPast, Marked
<1> QED  BY <1>3, <1>4 DEF PInv

LEMMA NextKeepsPast ==
    ASSUME Orderly, Exact, SInv, PInv, [Next]_vars
    PROVE  PInv'
<1>1. CASE Next
  <2>1. ASSUME NEW s \in Sessions, Begin(s) PROVE PInv'
      BY <2>1, BeginPast
  <2>2. ASSUME NEW s \in Sessions, Commit(s) PROVE PInv'
      BY <2>2, CommitPast
  <2>3. ASSUME NEW s \in Sessions, CommitRefused(s) PROVE PInv'
      BY <2>3, RefusedPast
  <2>4. ASSUME NEW s \in Sessions, txn_rollback(s) PROVE PInv'
      BY <2>4, RollbackPast
  <2>5. ASSUME NEW s \in Sessions, txn_savepoint(s) PROVE PInv'
      BY <2>5, SavepointPast
  <2>6. ASSUME NEW s \in Sessions, txn_rollback_to(s) PROVE PInv'
      BY <2>6, RollbackToPast
  <2>7. ASSUME NEW s \in Sessions, copy_from_ingest(s) PROVE PInv'
      BY <2>7, CopyPast
  <2>8. ASSUME NEW s \in Sessions, NEW q \in Statements, txn_execute(s, q) PROVE PInv'
      BY <2>8, ExecutePast
  <2>9. ASSUME NEW s \in Sessions, NEW q \in Statements, autocommit_execute(s, q) PROVE PInv'
      BY <2>9, AutocommitPast
  <2>10. CASE checkpoint
      BY <2>10, CheckpointPast
  <2>11. CASE Crash
      BY <2>11, CrashPast
  <2> QED  BY <1>1, <2>1, <2>2, <2>3, <2>4, <2>5, <2>6, <2>7, <2>8, <2>9, <2>10, <2>11 DEF Next
<1>2. CASE UNCHANGED vars
  <2>1. UNCHANGED <<versions, txn, log, image, issued>>
      BY <1>2 DEF vars
  <2>2. Recovered' = Recovered /\ Replayable' = Replayable
      BY <2>1 DEF Recovered, Replayable
  <2> QED  BY <2>1, <2>2 DEF PInv, InTxn
<1> QED  BY <1>1, <1>2

\* nextval never hands out a value twice: a rollback leaves the position where the
\* block has moved it, whatever DDL it undoes beside it, and a restart, after however
\* many commits and checkpoints, finds it past every value that a committed
\* transaction holds (seq_nextval; records_for_commit, the SeqAdvance record). What
\* COPY FROM has drawn when the server crashes is left out: no record covers it.
THEOREM NextvalNeverTwice ==
    ASSUME Orderly, Exact
    PROVE  Spec => []NeverTwice
<1>1. Init => SInv /\ PInv
    BY InitHolds, InitPast
<1>2. SInv /\ PInv /\ [Next]_vars => SInv' /\ PInv'
    BY NextKeeps, NextKeepsPast
<1>3. PInv => NeverTwice
    BY DEF PInv, NoTwice, NeverTwice
<1> QED
    BY <1>1, <1>2, <1>3, PTL DEF Spec

=============================================================================
