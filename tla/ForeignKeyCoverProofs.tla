------------------------ MODULE ForeignKeyCoverProofs ------------------------
(***************************************************************************)
(* Referential integrity: after every commit each child that the new        *)
(* snapshot shows has its parent, and a check that was postponed is queued  *)
(* until then.                                                              *)
(*                                                                         *)
(* What carries the induction is a cover: each child that a transaction     *)
(* sees without a parent is one that an entry of its queue will look at,    *)
(* in the transaction as it stands and in what each savepoint would bring   *)
(* back; and no other open transaction can take away a parent it has seen,  *)
(* as only the one that removes a key writes its children (Fine).           *)
(***************************************************************************)
EXTENDS ForeignKeyProofs

-----------------------------------------------------------------------------
(* What a transaction sees, and the children without a parent in it.         *)

(* Row r for a transaction with the xids Y while act are active. *)
Vis(r, act, Y) ==
    /\ r.table # "none"
    /\ r.xmin \in Y \/ r.xmin \notin act
    /\ r.xmax = 0 \/ (r.xmax \notin Y /\ r.xmax \in act)

Orphan(R, act, Y, id) ==
    /\ R[id].table = "child" /\ R[id].key # Null /\ Vis(R[id], act, Y)
    /\ \A p \in 1 .. Len(R) :
          R[p].table = "parent" /\ R[p].key = R[id].key => ~Vis(R[p], act, Y)

(* Entry i will look at row r when it is fired: a parent's entry does not see  *)
(* what was inserted under the sub-xids O.                                     *)
Looks(e, r, O) == e.key = r.key /\ (e.side = "parent" => r.xmin \notin O)

(* Each orphan is looked at by an entry after the n-th. *)
CoverFrom(R, act, Y, O, q, n) ==
    \A id \in 1 .. Len(R) :
        Orphan(R, act, Y, id) => \E i \in n + 1 .. Len(q) : Looks(q[i], R[id], O)
Cover(R, act, Y, O, q) == CoverFrom(R, act, Y, O, q, 0)

LEMMA VisIs ==
    ASSUME NEW M \in Nat, NEW r \in RowIn(M), NEW act, NEW Y
    PROVE  row_visible(r, [next_xid |-> M, active |-> act], Y) <=> Vis(r, act, Y)
<1>1. r.xmin < M /\ r.xmax < M
    BY DEF RowIn
<1> QED  BY <1>1 DEF row_visible, Committed, Vis

(* S is R with row id stamped, or with one row more. *)
Stamped(R, S, id, w) ==
    /\ Len(S) = Len(R) /\ id \in 1 .. Len(R)
    /\ S[id].table = R[id].table /\ S[id].key = R[id].key /\ S[id].xmin = R[id].xmin
    /\ S[id].xmax = w
    /\ \A j \in 1 .. Len(R) : j # id => S[j] = R[j]
Added(R, S, table, key, w) ==
    /\ Len(S) = Len(R) + 1
    /\ \A j \in 1 .. Len(R) : S[j] = R[j]
    /\ S[Len(R) + 1].table = table /\ S[Len(R) + 1].key = key
    /\ S[Len(R) + 1].xmin = w /\ S[Len(R) + 1].xmax = 0

LEMMA StampedIs ==
    ASSUME NEW N \in Nat, NEW R \in Seq(RowIn(N)), NEW w \in 0 .. N - 1, NEW id \in 1 .. Len(R)
    PROVE  Stamped(R, StampedRows(R, id, w), id, w)
<1> DEFINE S == StampedRows(R, id, w)
<1>1. /\ Len(S) = Len(R)
      /\ \A j \in 1 .. Len(R) : S[j] = IF j = id THEN [R[id] EXCEPT !.xmax = w] ELSE R[j]
    BY StampIn
<1>2. R[id] \in RowIn(N)
    OBVIOUS
<1> HIDE DEF S
<1>3. S[id] = [R[id] EXCEPT !.xmax = w]
    BY <1>1
<1>4. /\ S[id].table = R[id].table /\ S[id].key = R[id].key /\ S[id].xmin = R[id].xmin
      /\ S[id].xmax = w
    BY <1>2, <1>3 DEF RowIn
<1> QED  BY <1>1, <1>4 DEF Stamped, S

LEMMA AddedIs ==
    ASSUME NEW N \in Nat, NEW R \in Seq(RowIn(N)), NEW table, NEW key, NEW w,
           Row(table, key, w) \in RowIn(N)
    PROVE  Added(R, Append(R, Row(table, key, w)), table, key, w)
<1> DEFINE r == Row(table, key, w)
<1>1. r.table = table /\ r.key = key /\ r.xmin = w /\ r.xmax = 0
    BY DEF Row
<1> HIDE DEF r
<1>2. /\ Len(Append(R, r)) = Len(R) + 1
      /\ \A j \in 1 .. Len(R) : Append(R, r)[j] = R[j]
      /\ Append(R, r)[Len(R) + 1] = r
    BY AddIn DEF r
<1> QED  BY <1>1, <1>2 DEF Added, r

-----------------------------------------------------------------------------
(* What the writes of a session do to its own view.                          *)

LEMMA CoverStampChild ==
    ASSUME NEW N, NEW R \in Seq(RowIn(N)), NEW S \in Seq(RowIn(N)), NEW id, NEW w, Stamped(R, S, id, w),
           NEW act, NEW Y, w \in Y, w # 0, R[id].table = "child",
           NEW O, NEW q, Cover(R, act, Y, O, q)
    PROVE  Cover(S, act, Y, O, q)
<1>1. Len(R) \in Nat /\ Len(S) = Len(R)
    BY DEF Stamped
<1>2. ASSUME NEW j \in 1 .. Len(S), Orphan(S, act, Y, j)
      PROVE  Orphan(R, act, Y, j) /\ R[j] = S[j]
  <2>1. j # id
      BY <1>1, <1>2 DEF Orphan, Vis, Stamped
  <2>2. S[j] = R[j]
      BY <1>1, <2>1 DEF Stamped
  <2>3. \A p \in 1 .. Len(R) : R[p].table = "parent" => S[p] = R[p]
      BY <1>1 DEF Stamped
  <2> QED  BY <1>1, <1>2, <2>2, <2>3 DEF Orphan
<1> QED  BY <1>1, <1>2 DEF Cover, CoverFrom

LEMMA CoverAddChild ==
    ASSUME NEW N, NEW R \in Seq(RowIn(N)), NEW S \in Seq(RowIn(N)), NEW key, NEW w, Added(R, S, "child", key, w),
           NEW act, NEW Y, NEW O, NEW q, Len(q) \in Nat, Cover(R, act, Y, O, q),
           \/ key = Null
           \/ \E p \in 1 .. Len(R) :
                 R[p].table = "parent" /\ R[p].key = key /\ Vis(R[p], act, Y)
           \/ \E i \in 1 .. Len(q) : q[i].side # "parent" /\ q[i].key = key
    PROVE  Cover(S, act, Y, O, q)
<1>1. Len(R) \in Nat /\ Len(S) = Len(R) + 1
    BY DEF Added
<1>2. ASSUME NEW j \in 1 .. Len(S), Orphan(S, act, Y, j)
      PROVE  \E i \in 1 .. Len(q) : Looks(q[i], S[j], O)
  <2>1. \A p \in 1 .. Len(R) : p \in 1 .. Len(S) /\ S[p] = R[p]
      BY <1>1 DEF Added
  <2>2. CASE j \in 1 .. Len(R)
    <3>1. Orphan(R, act, Y, j) /\ S[j] = R[j]
        BY <1>2, <2>1, <2>2 DEF Orphan
    <3> QED  BY <2>2, <3>1 DEF Cover, CoverFrom
  <2>3. CASE j = Len(R) + 1
    <3>1. S[j].key = key /\ S[j].table = "child"
        BY <2>3 DEF Added
    <3>2. \E i \in 1 .. Len(q) : q[i].side # "parent" /\ q[i].key = key
        BY <1>2, <2>1, <3>1 DEF Orphan
    <3> QED  BY <3>1, <3>2 DEF Looks
  <2> QED  BY <1>1, <2>2, <2>3
<1> QED  BY <1>2 DEF Cover, CoverFrom

LEMMA CoverAddParent ==
    ASSUME NEW N, NEW R \in Seq(RowIn(N)), NEW S \in Seq(RowIn(N)), NEW key, NEW w, Added(R, S, "parent", key, w),
           NEW act, NEW Y, NEW O, NEW q, Cover(R, act, Y, O, q)
    PROVE  Cover(S, act, Y, O, q)
<1>1. Len(R) \in Nat /\ Len(S) = Len(R) + 1
    BY DEF Added
<1>2. ASSUME NEW j \in 1 .. Len(S), Orphan(S, act, Y, j)
      PROVE  j \in 1 .. Len(R) /\ Orphan(R, act, Y, j) /\ R[j] = S[j]
  <2>1. j # Len(R) + 1
      BY <1>2 DEF Orphan, Added
  <2>2. j \in 1 .. Len(R)
      BY <1>1, <2>1
  <2>3. \A p \in 1 .. Len(R) : p \in 1 .. Len(S) /\ S[p] = R[p]
      BY <1>1 DEF Added
  <2> QED  BY <1>2, <2>2, <2>3 DEF Orphan
<1> QED  BY <1>2 DEF Cover, CoverFrom

(* A parent goes: its children are gone before, or will be looked at. *)
LEMMA CoverStampParent ==
    ASSUME NEW N, NEW R \in Seq(RowIn(N)), NEW S \in Seq(RowIn(N)), NEW id, NEW w, Stamped(R, S, id, w),
           NEW act, NEW Y, R[id].table = "parent",
           NEW O, NEW q, Cover(R, act, Y, O, q),
           \/ \A c \in 1 .. Len(R) :
                 R[c].table = "child" /\ R[c].key = R[id].key => ~Vis(R[c], act, Y)
           \/ O = {} /\ \E i \in 1 .. Len(q) : q[i].key = R[id].key
    PROVE  Cover(S, act, Y, O, q)
<1>1. Len(R) \in Nat /\ Len(S) = Len(R)
    BY DEF Stamped
<1>2. ASSUME NEW j \in 1 .. Len(S), Orphan(S, act, Y, j)
      PROVE  \E i \in 1 .. Len(q) : Looks(q[i], S[j], O)
  <2>1. S[j].table = "child" /\ j # id /\ S[j] = R[j] /\ Vis(S[j], act, Y)
      BY <1>1, <1>2 DEF Orphan, Stamped
  <2>2. CASE Orphan(R, act, Y, j)
      BY <1>1, <2>1, <2>2 DEF Cover, CoverFrom
  <2>3. CASE ~Orphan(R, act, Y, j)
    <3>1. R[j].key = R[id].key
      <4>1. PICK p \in 1 .. Len(R) :
                R[p].table = "parent" /\ R[p].key = R[j].key /\ Vis(R[p], act, Y)
          BY <1>2, <2>1, <2>3 DEF Orphan
      <4>2. p = id
          BY <1>1, <1>2, <2>1, <4>1 DEF Orphan, Stamped
      <4> QED  BY <4>1, <4>2
    <3>2. O = {} /\ \E i \in 1 .. Len(q) : q[i].key = R[id].key
        BY <1>1, <2>1, <3>1
    <3> QED  BY <2>1, <3>1, <3>2 DEF Looks
  <2> QED  BY <2>2, <2>3
<1> QED  BY <1>2 DEF Cover, CoverFrom

LEMMA CoverMore ==
    ASSUME NEW R, NEW act, NEW Y, NEW O, NEW q, NEW q2, Len(q) \in Nat, Len(q2) \in Nat,
           Len(q) <= Len(q2), \A i \in 1 .. Len(q) : q2[i] = q[i],
           Cover(R, act, Y, O, q)
    PROVE  Cover(R, act, Y, O, q2)
<1>1. \A i \in 0 + 1 .. Len(q) : i \in 0 + 1 .. Len(q2) /\ q2[i] = q[i]
    OBVIOUS
<1> QED  BY <1>1 DEF Cover, CoverFrom

(* An entry whose key has a parent covers nothing. *)
LEMMA CoverLess ==
    ASSUME NEW R, NEW act, NEW Y, NEW O, NEW q, NEW q2, Len(q) \in Nat,
           Len(q2) = Len(q) + 1, \A i \in 1 .. Len(q) : q2[i] = q[i],
           \E p \in 1 .. Len(R) : R[p].table = "parent" /\ R[p].key = q2[Len(q) + 1].key
                                  /\ Vis(R[p], act, Y),
           Cover(R, act, Y, O, q2)
    PROVE  Cover(R, act, Y, O, q)
<1>1. ASSUME NEW id \in 1 .. Len(R), Orphan(R, act, Y, id)
      PROVE  \E i \in 0 + 1 .. Len(q) : Looks(q[i], R[id], O)
  <2>1. PICK i \in 0 + 1 .. Len(q2) : Looks(q2[i], R[id], O)
      BY <1>1 DEF Cover, CoverFrom
  <2>2. i # Len(q) + 1
      BY <1>1, <2>1 DEF Looks, Orphan
  <2>3. i \in 0 + 1 .. Len(q) /\ q2[i] = q[i]
      BY <2>2
  <2> QED  BY <2>1, <2>3
<1> QED  BY <1>1 DEF Cover, CoverFrom
-----------------------------------------------------------------------------
(* Who writes what.                                                          *)

Live(r, act) == r.xmax = 0 \/ r.xmax \in act

(* A key has one live parent; running ones count. *)
KeysUnique(R, act) ==
    \A p, q \in 1 .. Len(R) :
        /\ R[p].table = "parent" /\ R[q].table = "parent" /\ R[p].key = R[q].key
        /\ Live(R[p], act) /\ Live(R[q], act)
        => p = q

(* Who removes a key is the only one to write its children. *)
OneWriter(R, tx) ==
    \A c, p \in 1 .. Len(R) :
        R[c].table = "child" /\ R[p].table = "parent" /\ R[c].key = R[p].key =>
        \A s, o \in Sessions :
            /\ R[p].xmax \in Held(tx[s])
            /\ R[c].xmin \in Held(tx[o]) \/ R[c].xmax \in Held(tx[o])
            => s = o

(* Nobody stamps what another open transaction created. *)
Apart(R, tx) ==
    \A id \in 1 .. Len(R) : \A s, o \in Sessions :
        R[id].xmax \in Held(tx[s]) /\ R[id].xmin \in Held(tx[o]) => s = o

Fine(R, act, tx) == KeysUnique(R, act) /\ OneWriter(R, tx) /\ Apart(R, tx)

(* Nobody but s removes the key, or writes its children. *)
NoRival(R, tx, s, key) ==
    \A p \in 1 .. Len(R) : R[p].table = "parent" /\ R[p].key = key =>
        \A o \in Sessions : o # s => R[p].xmax \notin Held(tx[o])
NoKin(R, tx, s, key) ==
    \A c \in 1 .. Len(R) : R[c].table = "child" /\ R[c].key = key =>
        \A o \in Sessions : o # s => R[c].xmin \notin Held(tx[o]) /\ R[c].xmax \notin Held(tx[o])

(* Created by the session or by an ended transaction. *)
Mine(r, act, t) == r.xmin \in Held(t) \/ r.xmin \notin act

LEMMA OwnedFacts ==
    ASSUME NEW act, NEW tx, Owned(act, tx)
    PROVE  /\ \A s \in Sessions : \A x \in Held(tx[s]) : x \in act
           /\ \A s, o \in Sessions : \A x \in Held(tx[s]) : x \in Held(tx[o]) => s = o
    BY DEF Owned

LEMMA FineStampChild ==
    ASSUME NEW N, NEW R \in Seq(RowIn(N)), NEW S \in Seq(RowIn(N)), NEW id, NEW w, Stamped(R, S, id, w),
           R[id].table = "child",
           NEW act, NEW tx, Owned(act, tx), NEW s \in Sessions, w \in Held(tx[s]),
           Fine(R, act, tx), Mine(R[id], act, tx[s]), NoRival(R, tx, s, R[id].key)
    PROVE  Fine(S, act, tx)
<1>1. Len(R) \in Nat /\ Len(S) = Len(R)
    BY DEF Stamped
<1>2. \A p \in 1 .. Len(R) : S[p].table = "parent" => S[p] = R[p]
    BY <1>1 DEF Stamped
<1>3. KeysUnique(S, act)
    BY <1>1, <1>2 DEF KeysUnique, Fine
<1>4. ASSUME NEW c \in 1 .. Len(S), NEW p \in 1 .. Len(S), NEW a \in Sessions, NEW o \in Sessions,
             S[c].table = "child", S[p].table = "parent", S[c].key = S[p].key,
             S[p].xmax \in Held(tx[a]), S[c].xmin \in Held(tx[o]) \/ S[c].xmax \in Held(tx[o])
      PROVE  a = o
  <2>1. S[p] = R[p] /\ p \in 1 .. Len(R) /\ c \in 1 .. Len(R)
      BY <1>1, <1>2, <1>4
  <2>2. CASE c # id \/ S[c].xmin \in Held(tx[o])
    <3>1. R[c].table = "child" /\ R[c].key = S[c].key /\ R[c].xmin = S[c].xmin
        BY <1>4, <2>1 DEF Stamped
    <3>2. R[c].xmin \in Held(tx[o]) \/ R[c].xmax \in Held(tx[o])
        BY <1>4, <2>1, <2>2 DEF Stamped
    <3> QED  BY <1>4, <2>1, <3>1, <3>2 DEF Fine, OneWriter
  <2>3. CASE c = id /\ S[c].xmax \in Held(tx[o])
    <3>1. o = s
        BY <2>3, OwnedFacts DEF Stamped
    <3>2. R[id].key = R[p].key /\ R[p].table = "parent"
        BY <1>4, <2>1, <2>3 DEF Stamped
    <3> QED  BY <1>4, <2>1, <3>1, <3>2 DEF NoRival
  <2> QED  BY <1>4, <2>2, <2>3
<1>5. ASSUME NEW c \in 1 .. Len(S), NEW a \in Sessions, NEW o \in Sessions,
             S[c].xmax \in Held(tx[a]), S[c].xmin \in Held(tx[o])
      PROVE  a = o
  <2>1. CASE c # id
      BY <1>1, <1>5, <2>1 DEF Stamped, Fine, Apart
  <2>2. CASE c = id
    <3>1. w \in Held(tx[a]) /\ R[id].xmin \in Held(tx[o])
        BY <1>5, <2>2 DEF Stamped
    <3>2. a = s
        BY <3>1, OwnedFacts
    <3>3. R[id].xmin \in Held(tx[s])
        BY <3>1, OwnedFacts DEF Mine
    <3>4. o = s
        BY <3>1, <3>3, OwnedFacts
    <3> QED  BY <3>2, <3>4
  <2> QED  BY <2>1, <2>2
<1> QED  BY <1>3, <1>4, <1>5 DEF Fine, OneWriter, Apart

LEMMA FineStampParent ==
    ASSUME NEW N, NEW R \in Seq(RowIn(N)), NEW S \in Seq(RowIn(N)), NEW id, NEW w, Stamped(R, S, id, w),
           R[id].table = "parent", R[id].xmax = 0,
           NEW act, NEW tx, Owned(act, tx), NEW s \in Sessions, w \in Held(tx[s]),
           Fine(R, act, tx), Mine(R[id], act, tx[s]), NoKin(R, tx, s, R[id].key)
    PROVE  Fine(S, act, tx)
<1>1. Len(R) \in Nat /\ Len(S) = Len(R)
    BY DEF Stamped
<1>2. \A p \in 1 .. Len(R) :
         /\ S[p].table = R[p].table /\ S[p].key = R[p].key /\ S[p].xmin = R[p].xmin
         /\ Live(S[p], act) => Live(R[p], act)
         /\ p # id => S[p] = R[p]
    BY <1>1 DEF Stamped, Live
<1>3. KeysUnique(S, act)
    BY <1>1, <1>2 DEF KeysUnique, Fine
<1>4. ASSUME NEW c \in 1 .. Len(S), NEW p \in 1 .. Len(S), NEW a \in Sessions, NEW o \in Sessions,
             S[c].table = "child", S[p].table = "parent", S[c].key = S[p].key,
             S[p].xmax \in Held(tx[a]), S[c].xmin \in Held(tx[o]) \/ S[c].xmax \in Held(tx[o])
      PROVE  a = o
  <2>1. S[c] = R[c] /\ p \in 1 .. Len(R) /\ c \in 1 .. Len(R)
      BY <1>1, <1>2, <1>4
  <2>2. CASE p # id
      BY <1>2, <1>4, <2>1, <2>2 DEF Fine, OneWriter
  <2>3. CASE p = id
    <3>1. a = s
        BY <1>4, <2>3, OwnedFacts DEF Stamped
    <3>2. R[c].key = R[id].key /\ R[c].table = "child"
        BY <1>2, <1>4, <2>1, <2>3
    <3> QED  BY <1>4, <2>1, <3>1, <3>2 DEF NoKin
  <2> QED  BY <2>2, <2>3
<1>5. ASSUME NEW c \in 1 .. Len(S), NEW a \in Sessions, NEW o \in Sessions,
             S[c].xmax \in Held(tx[a]), S[c].xmin \in Held(tx[o])
      PROVE  a = o
  <2>1. CASE c # id
      BY <1>1, <1>5, <2>1 DEF Stamped, Fine, Apart
  <2>2. CASE c = id
    <3>1. w \in Held(tx[a]) /\ R[id].xmin \in Held(tx[o])
        BY <1>5, <2>2 DEF Stamped
    <3>2. a = s
        BY <3>1, OwnedFacts
    <3>3. R[id].xmin \in Held(tx[s])
        BY <3>1, OwnedFacts DEF Mine
    <3>4. o = s
        BY <3>1, <3>3, OwnedFacts
    <3> QED  BY <3>2, <3>4
  <2> QED  BY <2>1, <2>2
<1> QED  BY <1>3, <1>4, <1>5 DEF Fine, OneWriter, Apart

LEMMA FineAddChild ==
    ASSUME NEW N, NEW R \in Seq(RowIn(N)), NEW S \in Seq(RowIn(N)), NEW key, NEW w, Added(R, S, "child", key, w),
           NEW act, NEW tx, Owned(act, tx), 0 \notin act, NEW s \in Sessions, w \in Held(tx[s]),
           Fine(R, act, tx), NoRival(R, tx, s, key)
    PROVE  Fine(S, act, tx)
<1>1. Len(R) \in Nat /\ Len(S) = Len(R) + 1
    BY DEF Added
<1>2. \A p \in 1 .. Len(S) :
         \/ p \in 1 .. Len(R) /\ S[p] = R[p]
         \/ p = Len(R) + 1 /\ S[p].table = "child" /\ S[p].key = key /\ S[p].xmin = w /\ S[p].xmax = 0
    BY <1>1 DEF Added
<1>3. KeysUnique(S, act)
    BY <1>2 DEF KeysUnique, Fine
<1>4. ASSUME NEW c \in 1 .. Len(S), NEW p \in 1 .. Len(S), NEW a \in Sessions, NEW o \in Sessions,
             S[c].table = "child", S[p].table = "parent", S[c].key = S[p].key,
             S[p].xmax \in Held(tx[a]), S[c].xmin \in Held(tx[o]) \/ S[c].xmax \in Held(tx[o])
      PROVE  a = o
  <2>1. p \in 1 .. Len(R) /\ S[p] = R[p]
      BY <1>2, <1>4
  <2>2. CASE c \in 1 .. Len(R) /\ S[c] = R[c]
      BY <1>4, <2>1, <2>2 DEF Fine, OneWriter
  <2>3. CASE S[c].key = key /\ S[c].xmin = w /\ S[c].xmax = 0
    <3>1. w \in Held(tx[o])
        BY <1>4, <2>3, OwnedFacts
    <3>a. o = s
        BY <3>1, OwnedFacts
    <3> QED  BY <1>4, <2>1, <2>3, <3>a DEF NoRival
  <2> QED  BY <1>2, <2>2, <2>3
<1>5. ASSUME NEW c \in 1 .. Len(S), NEW a \in Sessions, NEW o \in Sessions,
             S[c].xmax \in Held(tx[a]), S[c].xmin \in Held(tx[o])
      PROVE  a = o
    BY <1>2, <1>5, OwnedFacts DEF Fine, Apart
<1> QED  BY <1>3, <1>4, <1>5 DEF Fine, OneWriter, Apart

LEMMA FineAddParent ==
    ASSUME NEW N, NEW R \in Seq(RowIn(N)), NEW S \in Seq(RowIn(N)), NEW key, NEW w, Added(R, S, "parent", key, w),
           NEW act, NEW tx, Owned(act, tx), 0 \notin act, Fine(R, act, tx),
           \A p \in 1 .. Len(R) : R[p].table = "parent" /\ R[p].key = key => ~Live(R[p], act)
    PROVE  Fine(S, act, tx)
<1>1. Len(R) \in Nat /\ Len(S) = Len(R) + 1
    BY DEF Added
<1>2. \A p \in 1 .. Len(S) :
         \/ p \in 1 .. Len(R) /\ S[p] = R[p]
         \/ p = Len(R) + 1 /\ S[p].table = "parent" /\ S[p].key = key /\ S[p].xmax = 0
    BY <1>1 DEF Added
<1>3. KeysUnique(S, act)
    BY <1>2 DEF KeysUnique, Fine
<1>4. ASSUME NEW c \in 1 .. Len(S), NEW p \in 1 .. Len(S), NEW a \in Sessions, NEW o \in Sessions,
             S[c].table = "child", S[p].table = "parent", S[c].key = S[p].key,
             S[p].xmax \in Held(tx[a]), S[c].xmin \in Held(tx[o]) \/ S[c].xmax \in Held(tx[o])
      PROVE  a = o
  <2>1. p \in 1 .. Len(R) /\ S[p] = R[p]
      BY <1>2, <1>4, OwnedFacts
  <2>2. c \in 1 .. Len(R) /\ S[c] = R[c]
      BY <1>2, <1>4
  <2> QED  BY <1>4, <2>1, <2>2 DEF Fine, OneWriter
<1>5. ASSUME NEW c \in 1 .. Len(S), NEW a \in Sessions, NEW o \in Sessions,
             S[c].xmax \in Held(tx[a]), S[c].xmin \in Held(tx[o])
      PROVE  a = o
    BY <1>2, <1>5, OwnedFacts DEF Fine, Apart
<1> QED  BY <1>3, <1>4, <1>5 DEF Fine, OneWriter, Apart

-----------------------------------------------------------------------------
(* What a statement writes, and its log.                                     *)

(* From R to S by the writes ops, all under xid w: versions not stamped before *)
(* are stamped, versions are added, and each of these is in the log.           *)
Wr(R, S, ops, w) ==
    /\ Len(R) <= Len(S)
    /\ \A id \in 1 .. Len(R) :
          \/ S[id] = R[id]
          \/ /\ R[id].xmax = 0 /\ S[id].xmax = w
             /\ S[id].table = R[id].table /\ S[id].key = R[id].key /\ S[id].xmin = R[id].xmin
             /\ \E i \in 1 .. Len(ops) : ops[i].old = id
    /\ \A id \in Len(R) + 1 .. Len(S) :
          /\ S[id].xmin = w /\ S[id].xmax \in {0, w} /\ S[id].table \in {"parent", "child"}
          /\ \E i \in 1 .. Len(ops) : ops[i].new = id
          /\ S[id].xmax # 0 => \E i \in 1 .. Len(ops) : ops[i].old = id
    /\ \A i \in 1 .. Len(ops) :
          /\ ops[i].prev = 0 /\ ops[i].old <= Len(S) /\ ops[i].new <= Len(S)
          /\ ops[i].old # 0 => S[ops[i].old].xmax = w
          /\ ops[i].new # 0 => S[ops[i].new].xmin = w

Change(S, T, op, w) ==
    /\ op.prev = 0
    /\ \/ op.old = 0
       \/ /\ op.old \in 1 .. Len(S) /\ S[op.old].xmax = 0 /\ T[op.old].xmax = w
          /\ T[op.old].table = S[op.old].table /\ T[op.old].key = S[op.old].key
          /\ T[op.old].xmin = S[op.old].xmin
    /\ \A j \in 1 .. Len(S) : j # op.old => T[j] = S[j]
    /\ \/ op.new = 0 /\ Len(T) = Len(S)
       \/ /\ op.new = Len(S) + 1 /\ Len(T) = Len(S) + 1
          /\ T[op.new].xmin = w /\ T[op.new].xmax = 0 /\ T[op.new].table \in {"parent", "child"}

LEMMA WrOn ==
    ASSUME NEW N, NEW R \in Seq(RowIn(N)), NEW S \in Seq(RowIn(N)), NEW T \in Seq(RowIn(N)),
           NEW ops \in Seq(OpIn(N)), NEW op \in OpIn(N), NEW w, w # 0,
           Wr(R, S, ops, w), Change(S, T, op, w)
    PROVE  Wr(R, T, Append(ops, op), w)
<1> DEFINE L == Append(ops, op)
<1>1. /\ Len(R) \in Nat /\ Len(S) \in Nat /\ Len(T) \in Nat /\ Len(ops) \in Nat
      /\ Len(R) <= Len(S) /\ Len(S) <= Len(T) /\ Len(T) <= Len(S) + 1
    BY DEF Wr, Change
<1>2. /\ Len(L) = Len(ops) + 1 /\ L[Len(ops) + 1] = op
      /\ \A i \in 1 .. Len(ops) : L[i] = ops[i] /\ ops[i] \in OpIn(N)
    OBVIOUS
<1> HIDE DEF L
<1>3. \A i \in 1 .. Len(ops) : i \in 1 .. Len(L)
    BY <1>1, <1>2
<1>4. Len(ops) + 1 \in 1 .. Len(L)
    BY <1>1, <1>2
<1>5. \A j \in 1 .. Len(S) :
         \/ T[j] = S[j]
         \/ /\ j = op.old /\ S[j].xmax = 0 /\ T[j].xmax = w
            /\ T[j].table = S[j].table /\ T[j].key = S[j].key /\ T[j].xmin = S[j].xmin
    BY DEF Change
<1>6. ASSUME NEW id \in 1 .. Len(R)
      PROVE  \/ T[id] = R[id]
             \/ /\ R[id].xmax = 0 /\ T[id].xmax = w
                /\ T[id].table = R[id].table /\ T[id].key = R[id].key /\ T[id].xmin = R[id].xmin
                /\ \E i \in 1 .. Len(L) : L[i].old = id
  <2>1. id \in 1 .. Len(S)
      BY <1>1
  <2>2. CASE S[id] = R[id]
      BY <1>2, <1>4, <1>5, <2>1, <2>2
  <2>3. CASE S[id] # R[id]
    <3>1. /\ R[id].xmax = 0 /\ S[id].xmax = w
          /\ S[id].table = R[id].table /\ S[id].key = R[id].key /\ S[id].xmin = R[id].xmin
          /\ \E i \in 1 .. Len(ops) : ops[i].old = id
        BY <2>3 DEF Wr
    <3>2. T[id] = S[id]
        BY <1>5, <2>1, <3>1
    <3> QED  BY <1>2, <1>3, <3>1, <3>2
  <2> QED  BY <2>2, <2>3
<1>7. ASSUME NEW id \in Len(R) + 1 .. Len(T)
      PROVE  /\ T[id].xmin = w /\ T[id].xmax \in {0, w} /\ T[id].table \in {"parent", "child"}
             /\ \E i \in 1 .. Len(L) : L[i].new = id
             /\ T[id].xmax # 0 => \E i \in 1 .. Len(L) : L[i].old = id
  <2>1. CASE id \in Len(R) + 1 .. Len(S)
    <3>1. /\ S[id].xmin = w /\ S[id].xmax \in {0, w} /\ S[id].table \in {"parent", "child"}
          /\ \E i \in 1 .. Len(ops) : ops[i].new = id
          /\ S[id].xmax # 0 => \E i \in 1 .. Len(ops) : ops[i].old = id
        BY <2>1 DEF Wr
    <3>2. id \in 1 .. Len(S)
        BY <1>1, <2>1
    <3>3. T[id].xmin = w /\ T[id].xmax \in {0, w} /\ T[id].table \in {"parent", "child"}
        BY <1>5, <3>1, <3>2
    <3>4. T[id].xmax # 0 => S[id].xmax # 0 \/ op.old = id
        BY <1>5, <3>2
    <3>5. \E i \in 1 .. Len(L) : L[i].new = id
        BY <1>2, <1>3, <3>1
    <3>6. S[id].xmax # 0 => \E i \in 1 .. Len(L) : L[i].old = id
        BY <1>2, <1>3, <3>1
    <3>7. op.old = id => \E i \in 1 .. Len(L) : L[i].old = id
        BY <1>2, <1>4
    <3> QED  BY <3>3, <3>4, <3>5, <3>6, <3>7
  <2>2. CASE id = Len(S) + 1 /\ Len(T) = Len(S) + 1
    <3>1. op.new = id
        BY <1>1, <2>2 DEF Change
    <3>2. T[id].xmin = w /\ T[id].xmax = 0 /\ T[id].table \in {"parent", "child"}
        BY <1>1, <2>2, <3>1 DEF Change
    <3>3. \E i \in 1 .. Len(L) : L[i].new = id
        BY <1>2, <1>4, <3>1
    <3>4. T[id].xmax \in {0, w}
        BY <3>2
    <3> QED  BY <3>2, <3>3, <3>4
  <2>3. id \in Len(R) + 1 .. Len(S) \/ (id = Len(S) + 1 /\ Len(T) = Len(S) + 1)
      BY <1>1
  <2> QED  BY <2>1, <2>2, <2>3
<1>8. ASSUME NEW i \in 1 .. Len(L)
      PROVE  /\ L[i].prev = 0 /\ L[i].old <= Len(T) /\ L[i].new <= Len(T)
             /\ L[i].old # 0 => T[L[i].old].xmax = w
             /\ L[i].new # 0 => T[L[i].new].xmin = w
  <2>1. CASE i \in 1 .. Len(ops)
    <3>1. /\ ops[i].prev = 0 /\ ops[i].old <= Len(S) /\ ops[i].new <= Len(S)
          /\ ops[i].old # 0 => S[ops[i].old].xmax = w
          /\ ops[i].new # 0 => S[ops[i].new].xmin = w
        BY <2>1 DEF Wr
    <3>2. L[i] = ops[i] /\ ops[i].old \in Nat /\ ops[i].new \in Nat
        BY <1>2, <2>1 DEF OpIn
    <3>3. ops[i].old # 0 => ops[i].old \in 1 .. Len(S)
        BY <1>1, <3>1, <3>2
    <3>4. ops[i].new # 0 => ops[i].new \in 1 .. Len(S)
        BY <1>1, <3>1, <3>2
    <3>5. ops[i].old # 0 => T[ops[i].old].xmax = w
        BY <1>5, <3>1, <3>3
    <3>6. ops[i].new # 0 => T[ops[i].new].xmin = w
        BY <1>5, <3>1, <3>4
    <3> QED  BY <1>1, <3>1, <3>2, <3>5, <3>6
  <2>2. CASE i = Len(ops) + 1
    <3>1. L[i] = op /\ op.old \in Nat /\ op.new \in Nat
        BY <1>2, <2>2 DEF OpIn
    <3> QED  BY <1>1, <3>1 DEF Change
  <2>3. i \in 1 .. Len(ops) \/ i = Len(ops) + 1
      BY <1>1, <1>2
  <2> QED  BY <2>1, <2>2, <2>3
<1>9. Len(R) <= Len(T)
    BY <1>1
<1>10. Wr(R, T, L, w)
    BY <1>6, <1>7, <1>8, <1>9 DEF Wr
<1> QED  BY <1>10 DEF L

LEMMA WrNone ==
    ASSUME NEW N, NEW R \in Seq(RowIn(N)), NEW w
    PROVE  Wr(R, R, <<>>, w)
    BY DEF Wr

LEMMA DeleteDoes ==
    ASSUME NEW N \in Nat, NEW st \in StateIn(N), NEW c, NEW w \in 1 .. N - 1, c.write_xid = w,
           NEW id \in 1 .. Len(st.rows), st.rows[id].xmax = 0,
           NEW R \in Seq(RowIn(N)), Wr(R, st.rows, st.ops, w)
    PROVE  LET x == Delete(st, c, id) IN
           /\ Sound(st, x, N) /\ Same(st, x)
           /\ Stamped(st.rows, x.rows, id, w) /\ Wr(R, x.rows, x.ops, w)
<1> DEFINE x == Delete(st, c, id)
           op == DeleteOp(st, id)
<1>1. /\ Sound(st, x, N) /\ x.rows = StampedRows(st.rows, id, w)
      /\ WroteOp(st, x, op) /\ w \in 0 .. N - 1
    BY DeleteIn
<1> DEFINE S == st.rows
<1>a. S \in Seq(RowIn(N)) /\ id \in 1 .. Len(S) /\ Len(S) \in Nat /\ id \in Nat
    BY DEF StateIn
<1>2. Stamped(S, x.rows, id, w)
  <2> HIDE DEF x, S
  <2> QED  BY <1>1, <1>a, StampedIs DEF S
<1>3. op.old = id /\ op.new = 0 /\ op.prev = 0 /\ op \in OpIn(N)
    BY <1>a DEF DeleteOp, OpIn
<1> HIDE DEF x, op, S
<1>4. Change(S, x.rows, op, w)
    BY <1>2, <1>3 DEF Change, Stamped, S
<1>5. Wr(R, x.rows, Append(st.ops, op), w)
  <2>1. x.rows \in Seq(RowIn(N)) /\ st.ops \in Seq(OpIn(N)) /\ w # 0
      BY <1>1 DEF Sound, StateIn
  <2>2. Wr(R, S, st.ops, w)
      BY DEF S
  <2> QED  BY <1>a, <1>3, <1>4, <2>1, <2>2, WrOn
<1>6. x.ops = Append(st.ops, op) /\ Same(st, x)
    BY <1>1 DEF WroteOp, Same
<1> QED  BY <1>1, <1>2, <1>5, <1>6 DEF x, S

LEMMA InsertDoes ==
    ASSUME NEW N \in Nat, NEW st \in StateIn(N), NEW c, NEW w \in 1 .. N - 1, c.write_xid = w,
           NEW table \in {"parent", "child"}, NEW key \in Keys \cup {Null},
           table = "parent" => key \in Keys,
           NEW R \in Seq(RowIn(N)), Wr(R, st.rows, st.ops, w)
    PROVE  LET x == Insert(st, c, table, key) IN
           /\ Sound(st, x, N) /\ Same(st, x)
           /\ Added(st.rows, x.rows, table, key, w) /\ Wr(R, x.rows, x.ops, w)
<1> DEFINE x == Insert(st, c, table, key)
           op == InsertOp(st)
<1>1. /\ Sound(st, x, N) /\ x.rows = Append(st.rows, Row(table, key, w))
      /\ WroteOp(st, x, op) /\ w \in 0 .. N - 1 /\ Row(table, key, w) \in RowIn(N)
    BY InsertIn
<1> DEFINE S == st.rows
<1>a. S \in Seq(RowIn(N)) /\ Len(S) \in Nat
    BY DEF StateIn
<1>2. Added(S, x.rows, table, key, w)
  <2> HIDE DEF x, S
  <2> QED  BY <1>1, <1>a, AddedIs DEF S
<1>3. op.old = 0 /\ op.new = Len(S) + 1 /\ op.prev = 0 /\ op \in OpIn(N)
    BY <1>a DEF InsertOp, OpIn
<1> HIDE DEF x, op, S
<1>4. Change(S, x.rows, op, w)
  <2>1. 0 \notin 1 .. Len(S)
      BY <1>a
  <2> QED  BY <1>2, <1>3, <2>1 DEF Change, Added
<1>5. Wr(R, x.rows, Append(st.ops, op), w)
  <2>1. x.rows \in Seq(RowIn(N)) /\ st.ops \in Seq(OpIn(N)) /\ w # 0
      BY <1>1 DEF Sound, StateIn
  <2>2. Wr(R, S, st.ops, w)
      BY DEF S
  <2> QED  BY <1>a, <1>3, <1>4, <2>1, <2>2, WrOn
<1>6. x.ops = Append(st.ops, op) /\ Same(st, x)
    BY <1>1 DEF WroteOp, Same
<1> QED  BY <1>1, <1>2, <1>5, <1>6 DEF x, S

LEMMA UpdateDoes ==
    ASSUME NEW N \in Nat, NEW st \in StateIn(N), NEW c, NEW w \in 1 .. N - 1, c.write_xid = w,
           NEW id \in 1 .. Len(st.rows), st.rows[id].xmax = 0, st.rows[id].table # "none",
           NEW key \in Keys \cup {Null}, st.rows[id].table = "parent" => key \in Keys,
           NEW R \in Seq(RowIn(N)), Wr(R, st.rows, st.ops, w)
    PROVE  LET x == Update(st, c, id, key)
               S == StampedRows(st.rows, id, w)
           IN
           /\ Sound(st, x, N) /\ Same(st, x)
           /\ S \in Seq(RowIn(N)) /\ Stamped(st.rows, S, id, w)
           /\ Added(S, x.rows, st.rows[id].table, key, w) /\ Wr(R, x.rows, x.ops, w)
<1> DEFINE x == Update(st, c, id, key)
           op == UpdateOp(st, id)
           table == st.rows[id].table
           S == StampedRows(st.rows, id, w)
<1>1. /\ Sound(st, x, N) /\ x.rows = Append(S, Row(table, key, w))
      /\ WroteOp(st, x, op) /\ w \in 0 .. N - 1 /\ Row(table, key, w) \in RowIn(N)
    BY UpdateIn
<1> DEFINE T == st.rows
<1>a. /\ T \in Seq(RowIn(N)) /\ id \in 1 .. Len(T) /\ Len(T) \in Nat /\ id \in Nat
      /\ T[id] \in RowIn(N)
    BY DEF StateIn
<1>b. S \in Seq(RowIn(N))
  <2>1. S = StampedRows(T, id, w)
      OBVIOUS
  <2> HIDE DEF T, S
  <2> QED  BY <1>1, <1>a, <2>1, StampIn
<1>2. Stamped(T, S, id, w)
  <2>1. S = StampedRows(T, id, w)
      OBVIOUS
  <2> HIDE DEF T, S
  <2> QED  BY <1>1, <1>a, <2>1, StampedIs
<1>c. Added(S, x.rows, table, key, w)
  <2> HIDE DEF S, x, table
  <2> QED  BY <1>1, <1>b, AddedIs
<1>d. table \in {"parent", "child"}
    BY <1>a DEF RowIn
<1>3. op.old = id /\ op.new = Len(T) + 1 /\ op.prev = 0 /\ op \in OpIn(N)
    BY <1>a DEF UpdateOp, OpIn
<1> DEFINE U == x.rows
<1>e. T[id].xmax = 0 /\ Added(S, U, table, key, w)
    BY <1>c
<1> HIDE DEF x, op, S, T, table, U
<1>4. Change(T, U, op, w)
  <2>1. Len(S) = Len(T) /\ id # Len(T) + 1
      BY <1>2, <1>a DEF Stamped
  <2>2. /\ U[id] = S[id]
        /\ \A j \in 1 .. Len(T) : j # id => U[j] = T[j]
      BY <1>2, <1>a, <1>e, <2>1 DEF Added, Stamped
  <2>3. /\ Len(U) = Len(T) + 1 /\ U[Len(T) + 1].xmin = w /\ U[Len(T) + 1].xmax = 0
        /\ U[Len(T) + 1].table = table
      BY <1>e, <2>1 DEF Added
  <2>4. /\ U[id].xmax = w /\ U[id].table = T[id].table /\ U[id].key = T[id].key
        /\ U[id].xmin = T[id].xmin
      BY <1>2, <2>2 DEF Stamped
  <2> QED  BY <1>3, <1>a, <1>d, <1>e, <2>2, <2>3, <2>4 DEF Change
<1>5. Wr(R, U, Append(st.ops, op), w)
  <2>0. x \in StateIn(N)
      BY <1>1 DEF Sound
  <2>1. U \in Seq(RowIn(N)) /\ st.ops \in Seq(OpIn(N)) /\ w # 0
      BY <2>0 DEF StateIn, U
  <2>2. Wr(R, T, st.ops, w)
      BY DEF T
  <2> QED  BY <1>a, <1>3, <1>4, <2>1, <2>2, WrOn
<1>6. x.ops = Append(st.ops, op) /\ Same(st, x)
    BY <1>1 DEF WroteOp, Same
<1> QED  BY <1>1, <1>b, <1>2, <1>c, <1>5, <1>6 DEF x, S, T, table, U

-----------------------------------------------------------------------------
(* What a cascade does.                                                      *)

(* The rows refs are stamped; the rows added are children with keys of nk. *)
Acted(R, S, refs, w, nk) ==
    /\ Len(R) <= Len(S)
    /\ \A id \in 1 .. Len(R) :
          /\ id \notin refs => S[id] = R[id]
          /\ id \in refs => /\ S[id].table = R[id].table /\ S[id].key = R[id].key
                            /\ S[id].xmin = R[id].xmin /\ S[id].xmax = w
    /\ \A id \in Len(R) + 1 .. Len(S) :
          /\ S[id].table = "child" /\ S[id].key \in nk /\ S[id].xmin = w /\ S[id].xmax = 0

NewKeysOf(new) == IF new = <<>> THEN {Null} ELSE {Null, new[1]}

LEMMA ActedStamp ==
    ASSUME NEW N, NEW R \in Seq(RowIn(N)), NEW S \in Seq(RowIn(N)), NEW T \in Seq(RowIn(N)),
           NEW refs, NEW w, NEW nk, Acted(R, S, refs, w, nk),
           NEW id \in 1 .. Len(R), id \notin refs, Stamped(S, T, id, w)
    PROVE  Acted(R, T, refs \cup {id}, w, nk)
<1>1. Len(R) \in Nat /\ Len(S) \in Nat /\ Len(T) = Len(S) /\ Len(R) <= Len(S)
    BY DEF Acted, Stamped
<1>2. \A j \in 1 .. Len(S) : j # id => T[j] = S[j]
    BY DEF Stamped
<1>3. \A j \in 1 .. Len(R) : j \in 1 .. Len(S)
    BY <1>1
<1>4. \A j \in Len(R) + 1 .. Len(S) : j \in 1 .. Len(S) /\ j # id
    BY <1>1
<1>5. S[id] = R[id]
    BY DEF Acted
<1>6. ASSUME NEW j \in 1 .. Len(R)
      PROVE  /\ j \notin refs \cup {id} => T[j] = R[j]
             /\ j \in refs \cup {id} => /\ T[j].table = R[j].table /\ T[j].key = R[j].key
                                        /\ T[j].xmin = R[j].xmin /\ T[j].xmax = w
  <2>1. CASE j = id
      BY <1>5, <2>1 DEF Stamped
  <2>2. CASE j # id
      BY <1>2, <1>3, <2>2 DEF Acted
  <2> QED  BY <2>1, <2>2
<1> QED  BY <1>1, <1>2, <1>4, <1>6 DEF Acted

LEMMA ActedAdd ==
    ASSUME NEW N, NEW R \in Seq(RowIn(N)), NEW S \in Seq(RowIn(N)), NEW T \in Seq(RowIn(N)),
           NEW refs, NEW w, NEW nk, Acted(R, S, refs, w, nk),
           NEW key \in nk, Added(S, T, "child", key, w)
    PROVE  Acted(R, T, refs, w, nk)
<1>1. Len(R) \in Nat /\ Len(S) \in Nat /\ Len(T) = Len(S) + 1 /\ Len(R) <= Len(S)
    BY DEF Acted, Added
<1>2. \A j \in 1 .. Len(S) : T[j] = S[j]
    BY DEF Added
<1>3. \A j \in 1 .. Len(R) : j \in 1 .. Len(S)
    BY <1>1
<1>4. \A j \in Len(R) + 1 .. Len(T) : j = Len(S) + 1 \/ (j \in 1 .. Len(S) /\ j \in Len(R) + 1 .. Len(S))
    BY <1>1
<1>5. \A j \in Len(R) + 1 .. Len(T) :
          /\ T[j].table = "child" /\ T[j].key \in nk /\ T[j].xmin = w /\ T[j].xmax = 0
    BY <1>2, <1>4 DEF Acted, Added
<1> QED  BY SMTT(30), <1>1, <1>2, <1>3, <1>5 DEF Acted

LEMMA CascadeDoes ==
    ASSUME NEW N \in Nat, NEW st \in StateIn(N), NEW c, NEW w \in 1 .. N - 1, c.write_xid = w,
           NEW key, NEW new \in NewKeys,
           \A id \in OwnRows(st, c, "child", key) : st.rows[id].xmax = 0,
           NEW R \in Seq(RowIn(N)), Wr(R, st.rows, st.ops, w)
    PROVE  LET x == Cascade(st, c, key, new) IN
           \/ x = Fail(st)
           \/ /\ Sound(st, x, N) /\ Same(st, x) /\ Wr(R, x.rows, x.ops, w)
              /\ Acted(st.rows, x.rows, OwnRows(st, c, "child", key), w, NewKeysOf(new))
<1> DEFINE refs == OwnRows(st, c, "child", key)
           nk == NewKeysOf(new)
           L == Len(st.rows)
           P(x, n) == /\ Sound(st, x, N) /\ Same(st, x) /\ Wr(R, x.rows, x.ops, w)
                      /\ Acted(st.rows, x.rows, refs \cap (1 .. n), w, nk)
<1>1. L \in Nat /\ L \in 0 .. L /\ st.rows \in Seq(RowIn(N))
    BY DEF StateIn
<1>r. refs \subseteq 1 .. L /\ \A id \in refs : st.rows[id].table = "child" /\ st.rows[id].xmax = 0
  <2>1. \A id \in refs : id \in 1 .. L /\ st.rows[id].table = "child"
      BY <1>1 DEF OwnRows
  <2> QED  BY <2>1
<1> HIDE DEF refs, nk
<1>2. CASE Cascade(st, c, key, new) = Fail(st)
    BY <1>2
<1>3. ASSUME NEW u, u[0] = st, \A n \in 1 .. L : u[n] = Act(u[n - 1], c, new, refs, n),
             Cascade(st, c, key, new) = u[L]
      PROVE  P(u[L], L)
  <2> DEFINE G == {n \in 0 .. L : P(u[n], n)}
  <2>1. P(u[0], 0)
    <3>1. Acted(st.rows, st.rows, refs \cap (1 .. 0), w, nk)
      <4>1. refs \cap (1 .. 0) = {}
          OBVIOUS
      <4>2. \A id \in L + 1 .. L : FALSE
          BY <1>1
      <4> QED  BY <1>1, <4>1, <4>2 DEF Acted
    <3> QED  BY <1>3, <3>1, SoundSame DEF Same
  <2>2. ASSUME NEW n \in 1 .. L, P(u[n - 1], n - 1) PROVE P(u[n], n)
    <3> DEFINE x == u[n - 1]
    <3>1. /\ x \in StateIn(N) /\ Sound(st, x, N) /\ Same(st, x) /\ Wr(R, x.rows, x.ops, w)
          /\ Acted(st.rows, x.rows, refs \cap (1 .. n - 1), w, nk)
        BY <2>2 DEF Sound
    <3>2. u[n] = Act(x, c, new, refs, n)
        BY <1>3
    <3>n. n \in Nat /\ n \notin refs \cap (1 .. n - 1)
        BY <1>1
    <3> DEFINE X == x.rows
    <3>x. X \in Seq(RowIn(N)) /\ x.ops \in Seq(OpIn(N))
        BY <3>1 DEF StateIn
    <3>3. CASE n \notin refs
      <4>1. u[n] = x
          BY <3>2, <3>3 DEF Act
      <4>2. refs \cap (1 .. n) = refs \cap (1 .. n - 1)
          BY <3>3, <3>n
      <4> QED  BY <3>1, <4>1, <4>2
    <3>4. CASE n \in refs
      <4>1. u[n] = apply_fk_cascade(x, c, n, new)
          BY <3>2, <3>4 DEF Act
      <4>2. refs \cap (1 .. n) = (refs \cap (1 .. n - 1)) \cup {n}
          BY <3>4, <3>n
      <4>3. /\ n \in 1 .. Len(X) /\ X[n] = st.rows[n] /\ X[n].table = "child" /\ X[n].xmax = 0
        <5>1. Len(X) \in Nat /\ L <= Len(X) /\ X[n] = st.rows[n]
            BY <3>1, <3>n, <3>x DEF Acted
        <5> QED  BY <5>1, <1>1, <1>r, <3>4
      <4> HIDE DEF x
      <4>4. ASSUME NEW y, Sound(x, y, N), Same(x, y), Wr(R, y.rows, y.ops, w),
                   Acted(st.rows, y.rows, (refs \cap (1 .. n - 1)) \cup {n}, w, nk), u[n] = y
            PROVE  P(u[n], n)
        <5>1. Sound(st, y, N)
            BY <3>1, <4>4, SoundOn
        <5> QED  BY <3>1, <4>2, <4>4, <5>1 DEF Same
      <4>5. ASSUME NEW y, y = Delete(x, c, n), u[n] = y PROVE P(u[n], n)
        <5>1. /\ Sound(x, y, N) /\ Same(x, y) /\ Stamped(x.rows, y.rows, n, w)
              /\ Wr(R, y.rows, y.ops, w)
            BY <3>1, <4>3, <4>5, DeleteDoes
        <5>2. y.rows \in Seq(RowIn(N))
            BY <5>1 DEF Sound, StateIn
        <5> DEFINE Z == y.rows
                   rr == refs \cap (1 .. n - 1)
        <5>3. Stamped(X, Z, n, w) /\ Z \in Seq(RowIn(N)) /\ Acted(st.rows, X, rr, w, nk)
              /\ n \notin rr
            BY <3>1, <3>n, <5>1, <5>2
        <5> HIDE DEF Z, X, rr
        <5>4. Acted(st.rows, Z, rr \cup {n}, w, nk)
            BY <1>1, <3>x, <5>3, ActedStamp
        <5> QED  BY <4>4, <4>5, <5>1, <5>4 DEF Z, rr
      <4>6. ASSUME NEW y, NEW k \in nk, k \in Keys \cup {Null}, y = Update(x, c, n, k), u[n] = y
            PROVE  P(u[n], n)
        <5> DEFINE V == StampedRows(x.rows, n, w)
        <5>1. /\ Sound(x, y, N) /\ Same(x, y) /\ V \in Seq(RowIn(N)) /\ Stamped(x.rows, V, n, w)
              /\ Added(V, y.rows, x.rows[n].table, k, w) /\ Wr(R, y.rows, y.ops, w)
            BY <3>1, <4>3, <4>6, UpdateDoes
        <5>2. y.rows \in Seq(RowIn(N))
            BY <5>1 DEF Sound, StateIn
        <5> DEFINE Z == y.rows
                   rr == refs \cap (1 .. n - 1)
        <5>3. /\ Stamped(X, V, n, w) /\ V \in Seq(RowIn(N)) /\ Z \in Seq(RowIn(N))
              /\ Added(V, Z, "child", k, w) /\ Acted(st.rows, X, rr, w, nk) /\ n \notin rr
            BY <3>1, <3>n, <4>3, <5>1, <5>2
        <5> HIDE DEF Z, X, V, rr
        <5>4. Acted(st.rows, V, rr \cup {n}, w, nk)
            BY <1>1, <3>x, <5>3, ActedStamp
        <5>5. Acted(st.rows, Z, rr \cup {n}, w, nk)
            BY <1>1, <5>3, <5>4, ActedAdd
        <5> QED  BY <4>4, <4>6, <5>1, <5>5 DEF Z, rr
      <4>7. Null \in nk /\ (new # <<>> => new[1] \in nk /\ new[1] \in Keys \cup {Null})
          BY DEF nk, NewKeysOf, NewKeys
      <4> HIDE DEF P
      <4>8. \/ u[n] = Update(x, c, n, Null) \/ u[n] = Delete(x, c, n)
            \/ new # <<>> /\ u[n] = Update(x, c, n, new[1])
          BY <4>1 DEF apply_fk_cascade
      <4> QED  BY <4>5, <4>6, <4>7, <4>8
    <3> QED  BY <3>3, <3>4
  <2> HIDE DEF P, L
  <2>3. 0 \in G /\ \A n \in 1 .. L : n - 1 \in G => n \in G
      BY <1>1, <2>1, <2>2
  <2>4. L \in G
    <3> HIDE DEF G
    <3> QED  BY <1>1, <2>3, CountUp
  <2> QED  BY <2>4
<1>4. refs \cap (1 .. L) = refs
    BY <1>r
<1> QED
  <2>1. \/ Cascade(st, c, key, new) = Fail(st)
        \/ \E u : /\ u[0] = st
                  /\ \A n \in 1 .. L : u[n] = Act(u[n - 1], c, new, refs, n)
                  /\ Cascade(st, c, key, new) = u[L]
      BY <1>1, CascadeRun DEF refs
  <2>2. Cascade(st, c, key, new) = Fail(st) \/ P(Cascade(st, c, key, new), L)
    <3> HIDE DEF P
    <3> QED  BY <1>3, <2>1
  <2> QED  BY <1>4, <2>2 DEF refs, nk

LEMMA ActedRows ==
    ASSUME NEW N, NEW R \in Seq(RowIn(N)), NEW S \in Seq(RowIn(N)), NEW refs, NEW w, NEW nk,
           Acted(R, S, refs, w, nk), NEW id \in 1 .. Len(S)
    PROVE  \/ id \in 1 .. Len(R) /\ id \notin refs /\ S[id] = R[id]
           \/ /\ id \in 1 .. Len(R) /\ id \in refs /\ S[id].table = R[id].table
              /\ S[id].key = R[id].key /\ S[id].xmin = R[id].xmin /\ S[id].xmax = w
           \/ /\ id \notin 1 .. Len(R) /\ S[id].table = "child" /\ S[id].key \in nk
              /\ S[id].xmin = w /\ S[id].xmax = 0
<1>1. Len(R) \in Nat /\ Len(S) \in Nat /\ Len(R) <= Len(S)
    BY DEF Acted
<1>2. id \in 1 .. Len(R) \/ id \in Len(R) + 1 .. Len(S)
    BY <1>1
<1>3. id \in Len(R) + 1 .. Len(S) => id \notin 1 .. Len(R)
    BY <1>1
<1> QED  BY <1>2, <1>3 DEF Acted

LEMMA ActedFine ==
    ASSUME NEW N, NEW R \in Seq(RowIn(N)), NEW S \in Seq(RowIn(N)), NEW refs, NEW w, NEW nk,
           Acted(R, S, refs, w, nk),
           NEW act, NEW tx, Owned(act, tx), 0 \notin act, NEW s \in Sessions, w \in Held(tx[s]),
           NEW key,
           \A id \in refs : R[id].table = "child" /\ R[id].key = key /\ Mine(R[id], act, tx[s]),
           NoRival(R, tx, s, key), \A k \in nk : NoRival(R, tx, s, k),
           Fine(R, act, tx)
    PROVE  Fine(S, act, tx)
<1>1. \A p \in 1 .. Len(S) : S[p].table = "parent" => p \in 1 .. Len(R) /\ S[p] = R[p]
  <2>1. ASSUME NEW p \in 1 .. Len(S), S[p].table = "parent"
        PROVE  p \in 1 .. Len(R) /\ S[p] = R[p]
    <3>1. \/ p \in 1 .. Len(R) /\ p \notin refs /\ S[p] = R[p]
          \/ p \in refs /\ S[p].table = R[p].table
          \/ S[p].table = "child"
        BY ActedRows
    <3> QED  BY <2>1, <3>1
  <2> QED  BY <2>1
<1>2. \A o \in Sessions : \A x \in Held(tx[o]) : (x = w => o = s) /\ x # 0 /\ x \in act
  <2>1. \A o \in Sessions : \A x \in Held(tx[o]) : x \in act
      BY OwnedFacts
  <2>2. \A o \in Sessions : w \in Held(tx[o]) => o = s
      BY OwnedFacts
  <2> QED  BY <2>1, <2>2
<1>3. KeysUnique(S, act)
    BY <1>1 DEF KeysUnique, Fine
<1>4. ASSUME NEW c \in 1 .. Len(S), NEW p \in 1 .. Len(S), NEW a \in Sessions, NEW o \in Sessions,
             S[c].table = "child", S[p].table = "parent", S[c].key = S[p].key,
             S[p].xmax \in Held(tx[a]), S[c].xmin \in Held(tx[o]) \/ S[c].xmax \in Held(tx[o])
      PROVE  a = o
  <2>1. p \in 1 .. Len(R) /\ S[p] = R[p]
      BY <1>1, <1>4
  <2>2. CASE c \in 1 .. Len(R) /\ S[c] = R[c]
      BY <1>4, <2>1, <2>2 DEF Fine, OneWriter
  <2>3. CASE /\ c \in 1 .. Len(R) /\ c \in refs /\ S[c].table = R[c].table
             /\ S[c].key = R[c].key /\ S[c].xmin = R[c].xmin /\ S[c].xmax = w
    <3>1. CASE S[c].xmin \in Held(tx[o])
        BY <1>4, <2>1, <2>3, <3>1 DEF Fine, OneWriter
    <3>2. CASE S[c].xmax \in Held(tx[o])
      <4>1. o = s
          BY <1>2, <2>3, <3>2
      <4> QED  BY <1>4, <2>1, <2>3, <4>1 DEF NoRival
    <3> QED  BY <1>4, <3>1, <3>2
  <2>4. CASE S[c].key \in nk /\ S[c].xmin = w /\ S[c].xmax = 0
    <3>1. o = s
        BY <1>2, <1>4, <2>4
    <3> QED  BY <1>4, <2>1, <2>4, <3>1 DEF NoRival
  <2> QED  BY <2>2, <2>3, <2>4, ActedRows
<1>5. ASSUME NEW c \in 1 .. Len(S), NEW a \in Sessions, NEW o \in Sessions,
             S[c].xmax \in Held(tx[a]), S[c].xmin \in Held(tx[o])
      PROVE  a = o
  <2>1. CASE c \in 1 .. Len(R) /\ S[c] = R[c]
      BY <1>5, <2>1 DEF Fine, Apart
  <2>2. CASE c \in refs /\ S[c].xmin = R[c].xmin /\ S[c].xmax = w
    <3>1. a = s /\ R[c].xmin \in act
        BY <1>2, <1>5, <2>2
    <3>2. R[c].xmin \in Held(tx[s])
        BY <2>2, <3>1 DEF Mine
    <3>3. o = s
        BY <1>5, <2>2, <3>2, OwnedFacts
    <3> QED  BY <3>1, <3>3
  <2>3. CASE S[c].xmax = 0
      BY <1>2, <1>5, <2>3
  <2> QED  BY <2>1, <2>2, <2>3, ActedRows
<1> QED  BY <1>3, <1>4, <1>5 DEF Fine, OneWriter, Apart

LEMMA ActedCover ==
    ASSUME NEW N, NEW R \in Seq(RowIn(N)), NEW S \in Seq(RowIn(N)), NEW refs, NEW w, NEW nk,
           Acted(R, S, refs, w, nk),
           NEW act, NEW Y, w \in Y, 0 \notin Y, NEW O, NEW q, NEW n,
           \A id \in 1 .. Len(R) : id \in refs => R[id].table = "child",
           \A k \in nk : k = Null \/
              \E i \in n + 1 .. Len(q) : q[i].side # "parent" /\ q[i].key = k,
           CoverFrom(R, act, Y, O, q, n)
    PROVE  CoverFrom(S, act, Y, O, q, n)
<1>1. \A p \in 1 .. Len(R) : R[p].table = "parent" => p \in 1 .. Len(S) /\ S[p] = R[p]
  <2>1. Len(R) \in Nat /\ Len(S) \in Nat /\ Len(R) <= Len(S)
      BY DEF Acted
  <2> QED  BY <2>1 DEF Acted
<1>2. ASSUME NEW id \in 1 .. Len(S), Orphan(S, act, Y, id)
      PROVE  \E i \in n + 1 .. Len(q) : Looks(q[i], S[id], O)
  <2>1. CASE id \in 1 .. Len(R) /\ S[id] = R[id]
    <3>1. Orphan(R, act, Y, id)
        BY <1>1, <1>2, <2>1 DEF Orphan
    <3> QED  BY <2>1, <3>1 DEF CoverFrom
  <2>2. CASE S[id].key \in nk
      BY <1>2, <2>2 DEF Orphan, Looks
  <2>3. CASE S[id].xmax = w
      BY <1>2, <2>3 DEF Orphan, Vis
  <2> QED  BY <2>1, <2>2, <2>3, ActedRows
<1> QED  BY <1>2 DEF CoverFrom

(* Rows the cascade has acted on are gone from the view. *)
LEMMA ActedGone ==
    ASSUME NEW N, NEW R \in Seq(RowIn(N)), NEW S \in Seq(RowIn(N)), NEW refs, NEW w, NEW nk,
           Acted(R, S, refs, w, nk), NEW act, NEW Y, w \in Y, 0 \notin Y
    PROVE  \A id \in 1 .. Len(S) :
              S[id].key \notin nk /\ Vis(S[id], act, Y) => id \in 1 .. Len(R) /\ id \notin refs
<1>1. ASSUME NEW id \in 1 .. Len(S), S[id].key \notin nk, Vis(S[id], act, Y)
      PROVE  id \in 1 .. Len(R) /\ id \notin refs
  <2>1. S[id].xmax # w
      BY <1>1 DEF Vis
  <2> QED  BY <1>1, <2>1, ActedRows
<1> QED  BY <1>1

-----------------------------------------------------------------------------
(* What a flush does.                                                        *)

Under(c, M, act, t) ==
    /\ c.own = t.xid /\ c.owns = Held(t) /\ c.write_xid = write_xid(t)
    /\ c.snap = [next_xid |-> M, active |-> act]

LEMMA OwnRowsVis ==
    ASSUME NEW M \in Nat, NEW st \in StateIn(M), NEW c, NEW act, NEW t, Under(c, M, act, t),
           NEW table, NEW key, NEW id
    PROVE  id \in OwnRows(st, c, table, key) <=>
              /\ id \in 1 .. Len(st.rows) /\ st.rows[id].table = table /\ st.rows[id].key = key
              /\ Vis(st.rows[id], act, {t.xid})
<1>1. st.rows \in Seq(RowIn(M)) /\ DOMAIN st.rows = 1 .. Len(st.rows)
    BY DEF StateIn
<1>2. ASSUME NEW j \in 1 .. Len(st.rows)
      PROVE  row_visible(st.rows[j], c.snap, {c.own}) <=> Vis(st.rows[j], act, {t.xid})
  <2>1. st.rows[j] \in RowIn(M)
      BY <1>1
  <2> QED  BY <2>1, VisIs DEF Under
<1> QED  BY <1>1, <1>2 DEF OwnRows

(* A parent entry: a row stamped by the block, one entry for a key. *)
Postponed(R, t, q) ==
    /\ \A i \in 1 .. Len(q) : q[i].side = "parent" =>
          /\ t.xid # 0 /\ q[i].row \in 1 .. Len(R)
          /\ R[q[i].row].table = "parent" /\ R[q[i].row].key = q[i].key
          /\ R[q[i].row].xmax = t.xid
    /\ \A i, j \in 1 .. Len(q) :
          q[i].side = "parent" /\ q[j].side = "parent" /\ q[i].key = q[j].key => i = j

(* Parents are written under the top-level xid, and their children too once a  *)
(* parent has been removed.                                                    *)
TopOnly(R, t) ==
    \A p \in 1 .. Len(R) : R[p].table = "parent" =>
        /\ R[p].xmin \notin t.owned_xids /\ R[p].xmax \notin t.owned_xids
        /\ R[p].xmax = t.xid =>
              \A c \in 1 .. Len(R) : R[c].table = "child" => R[c].xmax \notin t.owned_xids

(* After n entries were fired. *)
Swept(R, S, q, n, w) ==
    /\ Len(R) <= Len(S)
    /\ \A id \in 1 .. Len(R) :
          \/ S[id] = R[id]
          \/ /\ R[id].table = "child" /\ S[id].table = R[id].table /\ S[id].key = R[id].key
             /\ S[id].xmin = R[id].xmin /\ S[id].xmax = w
             /\ \E i \in 1 .. n : q[i].side = "parent" /\ q[i].key = R[id].key
    /\ \A id \in Len(R) + 1 .. Len(S) :
          /\ S[id].table = "child" /\ S[id].key = Null /\ S[id].xmin = w /\ S[id].xmax = 0


(* The session s, with the rows R and the queue q, fires its entries. *)
Firing(M, R, act, tx, s, c, q) ==
    /\ M \in Nat /\ R \in Seq(RowIn(M)) /\ q \in Seq(PendingFk)
    /\ Owned(act, tx) /\ 0 \notin act
    /\ s \in Sessions /\ tx[s].xid # 0 /\ Under(c, M, act, tx[s])
    /\ c.write_xid \in Held(tx[s]) /\ c.write_xid \in 1 .. M - 1
    /\ Fine(R, act, tx) /\ Postponed(R, tx[s], q) /\ TopOnly(R, tx[s])

FlushedTo(M, R0, R, act, tx, s, c, q, x, n) ==
    /\ x \in StateIn(M) /\ Fine(x.rows, act, tx)
    /\ Wr(R0, x.rows, x.ops, c.write_xid) /\ Swept(R, x.rows, q, n, c.write_xid)
    /\ x.ok /\ Cover(R, act, Held(tx[s]), tx[s].owned_xids, q) =>
          CoverFrom(x.rows, act, Held(tx[s]), tx[s].owned_xids, q, n)

LEMMA SweptParents ==
    ASSUME NEW N, NEW R \in Seq(RowIn(N)), NEW S \in Seq(RowIn(N)), NEW q, NEW n, NEW w,
           Swept(R, S, q, n, w)
    PROVE  /\ \A p \in 1 .. Len(S) : S[p].table = "parent" => p \in 1 .. Len(R) /\ S[p] = R[p]
           /\ \A p \in 1 .. Len(R) : R[p].table = "parent" => p \in 1 .. Len(S) /\ S[p] = R[p]
<1>1. Len(R) \in Nat /\ Len(S) \in Nat /\ Len(R) <= Len(S)
    BY DEF Swept
<1>2. \A id \in 1 .. Len(R) : id \in 1 .. Len(S)
    BY <1>1
<1>3. \A id \in 1 .. Len(S) : id \in 1 .. Len(R) \/ id \in Len(R) + 1 .. Len(S)
    BY <1>1
<1> QED  BY <1>2, <1>3 DEF Swept

LEMMA HeldIs ==
    ASSUME NEW t, t.xid # 0
    PROVE  Held(t) = {t.xid} \cup t.owned_xids
    BY DEF Held, all_xids

(* A parent the check finds is one the transaction sees. *)
LEMMA ParentSeen ==
    ASSUME NEW M \in Nat, NEW x \in StateIn(M), NEW c, NEW act, NEW t, Under(c, M, act, t),
           t.xid # 0, NEW key, fk_parent_key_exists(x, c, key),
           \A p \in 1 .. Len(x.rows) : x.rows[p].table = "parent" => x.rows[p].xmax \notin t.owned_xids
    PROVE  \E p \in 1 .. Len(x.rows) :
              x.rows[p].table = "parent" /\ x.rows[p].key = key /\ Vis(x.rows[p], act, Held(t))
<1>1. PICK p : p \in OwnRows(x, c, "parent", key)
    BY DEF fk_parent_key_exists
<1>2. /\ p \in 1 .. Len(x.rows) /\ x.rows[p].table = "parent" /\ x.rows[p].key = key
      /\ Vis(x.rows[p], act, {t.xid})
    BY <1>1, OwnRowsVis
<1>3. Vis(x.rows[p], act, Held(t))
    BY <1>2, HeldIs DEF Vis
<1> QED  BY <1>2, <1>3

LEMMA CoverNext ==
    ASSUME NEW R, NEW act, NEW Y, NEW O, NEW q, Len(q) \in Nat, NEW n \in 1 .. Len(q),
           CoverFrom(R, act, Y, O, q, n - 1),
           \A id \in 1 .. Len(R) : Orphan(R, act, Y, id) => ~Looks(q[n], R[id], O)
    PROVE  CoverFrom(R, act, Y, O, q, n)
<1>1. \A i \in (n - 1) + 1 .. Len(q) : i = n \/ i \in n + 1 .. Len(q)
    OBVIOUS
<1> QED  BY <1>1 DEF CoverFrom

LEMMA SweptNext ==
    ASSUME NEW N, NEW R \in Seq(RowIn(N)), NEW S \in Seq(RowIn(N)), NEW q, NEW n \in Nat, NEW w,
           n # 0, Swept(R, S, q, n - 1, w)
    PROVE  Swept(R, S, q, n, w)
<1>1. \A i \in 1 .. n - 1 : i \in 1 .. n
    OBVIOUS
<1> QED  BY <1>1 DEF Swept

(* The queued parent's row is stamped by the block: its key was deleted. *)
LEMMA GoneFor ==
    ASSUME NEW M, NEW R, NEW act, NEW tx, NEW s, NEW c, NEW q, Firing(M, R, act, tx, s, c, q),
           NEW x \in StateIn(M), NEW n \in 1 .. Len(q), Swept(R, x.rows, q, n - 1, c.write_xid),
           q[n].side = "parent"
    PROVE  /\ q[n].row \in 1 .. Len(R) /\ R[q[n].row].table = "parent"
           /\ R[q[n].row].key = q[n].key /\ R[q[n].row].xmax = tx[s].xid
           /\ q[n].row \in 1 .. Len(x.rows) /\ x.rows[q[n].row] = R[q[n].row]
           /\ q[n].key \in Keys
           /\ Fire(x, c, q[n]) \in {x, Cascade(x, c, q[n].key, <<>>)}
           /\ ~fk_parent_key_exists(x, c, q[n].key) \/ Fire(x, c, q[n]) = x
           /\ fk_parent_key_exists(x, c, q[n].key) \/ ~x.ok
              \/ Fire(x, c, q[n]) = Cascade(x, c, q[n].key, <<>>)
<1> DEFINE e == q[n]
           t == tx[s]
<1>1. /\ e.row \in 1 .. Len(R) /\ R[e.row].table = "parent" /\ R[e.row].key = e.key
      /\ R[e.row].xmax = t.xid /\ t.xid # 0
    BY DEF Firing, Postponed
<1>2. e.key \in Keys
  <2>1. q \in Seq(PendingFk)
      BY DEF Firing
  <2>2. e \in PendingFk
      BY <2>1
  <2> HIDE DEF e
  <2> QED  BY <2>2 DEF PendingFk
<1>3. R \in Seq(RowIn(M)) /\ x.rows \in Seq(RowIn(M))
    BY DEF Firing, StateIn
<1> DEFINE S == x.rows
<1>4. e.row \in 1 .. Len(S) /\ S[e.row] = R[e.row]
  <2> HIDE DEF S, e
  <2>1. S \in Seq(RowIn(M)) /\ Swept(R, S, q, n - 1, c.write_xid)
      BY <1>3 DEF S
  <2> QED  BY <1>1, <1>3, <2>1, SweptParents
<1>5. ~row_visible(x.rows[e.row], c.snap, c.owns)
  <2>1. t.xid \in c.owns
      BY <1>1, HeldIs DEF Firing, Under
  <2> QED  BY <1>1, <1>4, <2>1 DEF row_visible
<1>6. Fire(x, c, e) = IF ~x.ok THEN x
                      ELSE IF fk_parent_key_exists(x, c, e.key) THEN x
                      ELSE Cascade(x, c, e.key, <<>>)
    BY <1>5 DEF Fire, fire_parent
<1> HIDE DEF e
<1> QED  BY <1>1, <1>2, <1>4, <1>6 DEF e


(* A failed check changes no row. *)
LEMMA FlushedFail ==
    ASSUME NEW M, NEW R0, NEW R, NEW act, NEW tx, NEW s, NEW c, NEW q, NEW x, NEW n \in 1 .. Len(q),
           Firing(M, R, act, tx, s, c, q), FlushedTo(M, R0, R, act, tx, s, c, q, x, n - 1)
    PROVE  /\ FlushedTo(M, R0, R, act, tx, s, c, q, Fail(x), n)
           /\ ~x.ok => FlushedTo(M, R0, R, act, tx, s, c, q, x, n)
<1>1. x \in StateIn(M) /\ R \in Seq(RowIn(M)) /\ x.rows \in Seq(RowIn(M)) /\ n \in Nat /\ n # 0
    BY DEF FlushedTo, Firing, StateIn
<1>2. Fail(x) \in StateIn(M) /\ ~Fail(x).ok /\ Fail(x).rows = x.rows /\ Fail(x).ops = x.ops
    BY <1>1, FailIn DEF Sound
<1>3. Swept(R, x.rows, q, n, c.write_xid)
    BY <1>1, SweptNext DEF FlushedTo
<1> QED  BY <1>1, <1>2, <1>3 DEF FlushedTo

(* The entry finds nothing wrong. *)
LEMMA FlushedPass ==
    ASSUME NEW M, NEW R0, NEW R, NEW act, NEW tx, NEW s, NEW c, NEW q, NEW x, NEW n \in 1 .. Len(q),
           Firing(M, R, act, tx, s, c, q), FlushedTo(M, R0, R, act, tx, s, c, q, x, n - 1),
           \A id \in 1 .. Len(x.rows) : Orphan(x.rows, act, Held(tx[s]), id) =>
              ~Looks(q[n], x.rows[id], tx[s].owned_xids)
    PROVE  FlushedTo(M, R0, R, act, tx, s, c, q, x, n)
<1>1. x \in StateIn(M) /\ R \in Seq(RowIn(M)) /\ x.rows \in Seq(RowIn(M)) /\ n \in Nat /\ n # 0
    BY DEF FlushedTo, Firing, StateIn
<1>2. Len(q) \in Nat
    BY DEF Firing
<1>3. Swept(R, x.rows, q, n, c.write_xid)
    BY <1>1, SweptNext DEF FlushedTo
<1>4. ASSUME x.ok, Cover(R, act, Held(tx[s]), tx[s].owned_xids, q)
      PROVE  CoverFrom(x.rows, act, Held(tx[s]), tx[s].owned_xids, q, n)
    BY <1>2, <1>4, CoverNext DEF FlushedTo
<1> QED  BY <1>3, <1>4 DEF FlushedTo

(* A parent of the key is there: no orphan has it. *)
LEMMA FlushedFound ==
    ASSUME NEW M, NEW R0, NEW R, NEW act, NEW tx, NEW s, NEW c, NEW q, NEW x, NEW n \in 1 .. Len(q),
           Firing(M, R, act, tx, s, c, q), FlushedTo(M, R0, R, act, tx, s, c, q, x, n - 1),
           fk_parent_key_exists(x, c, q[n].key)
    PROVE  FlushedTo(M, R0, R, act, tx, s, c, q, x, n)
<1> DEFINE t == tx[s]
           S == x.rows
<1>1. /\ x \in StateIn(M) /\ R \in Seq(RowIn(M)) /\ S \in Seq(RowIn(M)) /\ M \in Nat
      /\ t.xid # 0 /\ Under(c, M, act, t) /\ TopOnly(R, t)
      /\ Swept(R, S, q, n - 1, c.write_xid)
    BY DEF FlushedTo, Firing, StateIn
<1>2. \A p \in 1 .. Len(S) : S[p].table = "parent" => S[p].xmax \notin t.owned_xids
  <2> HIDE DEF S, t
  <2>1. \A p \in 1 .. Len(S) : S[p].table = "parent" => p \in 1 .. Len(R) /\ S[p] = R[p]
      BY <1>1, SweptParents
  <2> QED  BY <1>1, <2>1 DEF TopOnly
<1>3. \E p \in 1 .. Len(S) : S[p].table = "parent" /\ S[p].key = q[n].key /\ Vis(S[p], act, Held(t))
  <2> HIDE DEF t
  <2> QED  BY SMTT(30), <1>1, <1>2, ParentSeen
<1>4. ASSUME NEW id \in 1 .. Len(S), Orphan(S, act, Held(t), id)
      PROVE  ~Looks(q[n], S[id], t.owned_xids)
    BY <1>3, <1>4 DEF Orphan, Looks
<1> QED  BY <1>4, FlushedPass

LEMMA FlushedChild ==
    ASSUME NEW M, NEW R0, NEW R, NEW act, NEW tx, NEW s, NEW c, NEW q, NEW x, NEW n \in 1 .. Len(q),
           Firing(M, R, act, tx, s, c, q), FlushedTo(M, R0, R, act, tx, s, c, q, x, n - 1),
           q[n].side = "child"
    PROVE  FlushedTo(M, R0, R, act, tx, s, c, q, Fire(x, c, q[n]), n)
<1> DEFINE t == tx[s]
           S == x.rows
           present == \E id \in DOMAIN S :
              /\ S[id].table = "child" /\ S[id].key = q[n].key
              /\ row_visible(S[id], c.snap, c.owns)
<1>1. /\ x \in StateIn(M) /\ S \in Seq(RowIn(M)) /\ M \in Nat /\ Under(c, M, act, t)
    BY DEF FlushedTo, Firing, StateIn
<1>2. Fire(x, c, q[n]) =
         IF ~x.ok THEN x
         ELSE IF present /\ ~fk_parent_key_exists(x, c, q[n].key) THEN Fail(x) ELSE x
    BY DEF Fire, fire_child
<1>3. CASE Fire(x, c, q[n]) = Fail(x) \/ ~x.ok
    BY <1>2, <1>3, FlushedFail
<1>4. CASE fk_parent_key_exists(x, c, q[n].key)
    BY <1>2, <1>3, <1>4, FlushedFound
<1>5. CASE ~present
  <2>1. ASSUME NEW id \in 1 .. Len(S), Orphan(S, act, Held(t), id)
        PROVE  ~Looks(q[n], S[id], t.owned_xids)
    <3>1. S[id] \in RowIn(M) /\ id \in DOMAIN S
        BY <1>1
    <3>2. row_visible(S[id], c.snap, c.owns) /\ S[id].table = "child"
        BY <1>1, <2>1, <3>1, VisIs DEF Orphan, Under
    <3> QED  BY <1>5, <3>1, <3>2 DEF Looks
  <2>2. FlushedTo(M, R0, R, act, tx, s, c, q, x, n)
      BY <2>1, FlushedPass
  <2> QED  BY <1>2, <1>3, <1>5, <2>2
<1> QED  BY <1>2, <1>3, <1>4, <1>5

(* The children a fired parent entry cascades to carry no stamp. *)
LEMMA FiredRefs ==
    ASSUME NEW M, NEW R0, NEW R, NEW act, NEW tx, NEW s, NEW c, NEW q, NEW x, NEW n \in 1 .. Len(q),
           Firing(M, R, act, tx, s, c, q), FlushedTo(M, R0, R, act, tx, s, c, q, x, n - 1),
           q[n].side = "parent", NEW id \in OwnRows(x, c, "child", q[n].key)
    PROVE  /\ id \in 1 .. Len(R) /\ id \in 1 .. Len(x.rows) /\ x.rows[id] = R[id]
           /\ x.rows[id].xmax = 0 /\ x.rows[id].table = "child" /\ x.rows[id].key = q[n].key
           /\ Mine(x.rows[id], act, tx[s])
<1> DEFINE t == tx[s]
           S == x.rows
           w == c.write_xid
           k == q[n].key
           p == q[n].row
<1>1. /\ x \in StateIn(M) /\ S \in Seq(RowIn(M)) /\ R \in Seq(RowIn(M)) /\ M \in Nat
      /\ Under(c, M, act, t) /\ Swept(R, S, q, n - 1, w) /\ t.xid # 0 /\ w # 0
      /\ Owned(act, tx) /\ s \in Sessions /\ TopOnly(R, t) /\ OneWriter(R, tx)
      /\ Postponed(R, t, q) /\ w \in Held(t)
    BY DEF FlushedTo, Firing, StateIn, Fine
<1>2. /\ p \in 1 .. Len(R) /\ R[p].table = "parent" /\ R[p].key = k /\ R[p].xmax = t.xid
      /\ k \in Keys
    BY <1>1, GoneFor
<1>3. /\ id \in 1 .. Len(S) /\ S[id].table = "child" /\ S[id].key = k
      /\ Vis(S[id], act, {t.xid})
  <2>1. id \in OwnRows(x, c, "child", k)
      OBVIOUS
  <2> HIDE DEF k, t
  <2> QED  BY <1>1, <2>1, OwnRowsVis
<1>0. k # Null
    BY <1>2, ForeignKeysAssumption DEF Null
<1> HIDE DEF S, w, k, p, t
<1>4. Len(R) \in Nat /\ Len(S) \in Nat /\ Len(R) <= Len(S)
    BY <1>1 DEF Swept
<1>5. id \in 1 .. Len(R)
  <2>1. id \notin Len(R) + 1 .. Len(S)
      BY <1>0, <1>1, <1>3 DEF Swept
  <2> QED  BY <1>3, <1>4, <2>1
<1>6. S[id] = R[id]
  <2>1. SUFFICES ASSUME S[id] # R[id] PROVE FALSE
      OBVIOUS
  <2>2. /\ R[id].key = S[id].key
        /\ \E i \in 1 .. n - 1 : q[i].side = "parent" /\ q[i].key = R[id].key
      BY <1>1, <1>5, <2>1 DEF Swept
  <2>3. PICK i \in 1 .. n - 1 : q[i].side = "parent" /\ q[i].key = k
      BY <1>3, <2>2
  <2>4. i \in 1 .. Len(q) /\ i # n
      BY <2>3, <1>1
  <2> QED  BY <1>1, <2>3, <2>4 DEF Postponed, k
<1>7. S[id].xmax = 0
  <2>1. SUFFICES ASSUME S[id].xmax # 0 PROVE FALSE
      OBVIOUS
  <2>2. R[id].xmax # t.xid /\ R[id].xmax \in act
      BY <1>3, <1>6, <2>1 DEF Vis
  <2>3. PICK o \in Sessions : R[id].xmax \in Held(tx[o])
      BY <1>1, <2>2 DEF Owned
  <2>4. R[p].xmax \in Held(tx[s])
      BY <1>1, <1>2, HeldIs DEF t
  <2>5. o = s
      BY <1>1, <1>2, <1>3, <1>5, <1>6, <2>3, <2>4 DEF OneWriter
  <2>6. R[id].xmax \in t.owned_xids
      BY <1>1, <2>2, <2>3, <2>5, HeldIs DEF t
  <2> QED  BY <1>1, <1>2, <1>3, <1>5, <1>6, <2>6 DEF TopOnly
<1>8. Mine(S[id], act, t)
    BY <1>1, <1>3, HeldIs DEF Vis, Mine
<1> QED  BY <1>3, <1>5, <1>6, <1>7, <1>8 DEF S, k, t


LEMMA SweptActed ==
    ASSUME NEW N, NEW R \in Seq(RowIn(N)), NEW S \in Seq(RowIn(N)), NEW T \in Seq(RowIn(N)),
           NEW q, NEW m, NEW n, NEW w, NEW refs, NEW nk, Swept(R, S, q, m, w),
           n \in 1 .. n, \A i \in 1 .. m : i \in 1 .. n,
           Acted(S, T, refs, w, nk), \A k \in nk : k = Null,
           \A id \in 1 .. Len(S) : id \in refs => id \in 1 .. Len(R),
           \A id \in 1 .. Len(R) : id \in refs =>
              S[id] = R[id] /\ R[id].table = "child" /\ R[id].key = q[n].key,
           q[n].side = "parent"
    PROVE  Swept(R, T, q, n, w)
<1>1. /\ Len(R) \in Nat /\ Len(S) \in Nat /\ Len(T) \in Nat /\ Len(R) <= Len(S)
      /\ Len(S) <= Len(T)
    BY DEF Swept, Acted
<1>2. ASSUME NEW id \in 1 .. Len(R)
      PROVE  \/ T[id] = R[id]
             \/ /\ R[id].table = "child" /\ T[id].table = R[id].table /\ T[id].key = R[id].key
                /\ T[id].xmin = R[id].xmin /\ T[id].xmax = w
                /\ \E i \in 1 .. n : q[i].side = "parent" /\ q[i].key = R[id].key
  <2>1. id \in 1 .. Len(S) /\ n \in 1 .. n /\ \A i \in 1 .. m : i \in 1 .. n
      BY <1>1
  <2>2. CASE id \in refs
    <3>1. /\ T[id].table = S[id].table /\ T[id].key = S[id].key /\ T[id].xmin = S[id].xmin
          /\ T[id].xmax = w
        BY <2>1, <2>2 DEF Acted
    <3> QED  BY <2>1, <2>2, <3>1
  <2>3. CASE id \notin refs
    <3>1. T[id] = S[id]
        BY <2>1, <2>3 DEF Acted
    <3> QED  BY <2>1, <3>1 DEF Swept
  <2> QED  BY <2>2, <2>3
<1>3. ASSUME NEW id \in Len(R) + 1 .. Len(T)
      PROVE  T[id].table = "child" /\ T[id].key = Null /\ T[id].xmin = w /\ T[id].xmax = 0
  <2>1. CASE id \in Len(R) + 1 .. Len(S)
    <3>1. id \notin refs /\ id \in 1 .. Len(S)
        BY <1>1, <2>1
    <3>2. T[id] = S[id]
        BY <3>1 DEF Acted
    <3> QED  BY <2>1, <3>2 DEF Swept
  <2>2. CASE id \in Len(S) + 1 .. Len(T)
      BY <2>2 DEF Acted
  <2> QED  BY <1>1, <2>1, <2>2
<1> QED  BY <1>1, <1>2, <1>3 DEF Swept

LEMMA FlushedCascade ==
    ASSUME NEW M, NEW R0 \in Seq(RowIn(M)), NEW R, NEW act, NEW tx, NEW s, NEW c, NEW q, NEW x,
           NEW n \in 1 .. Len(q),
           Firing(M, R, act, tx, s, c, q), FlushedTo(M, R0, R, act, tx, s, c, q, x, n - 1),
           q[n].side = "parent", NEW y, y = Cascade(x, c, q[n].key, <<>>)
    PROVE  FlushedTo(M, R0, R, act, tx, s, c, q, y, n)
<1> DEFINE t == tx[s]
           S == x.rows
           w == c.write_xid
           k == q[n].key
           p == q[n].row
           refs == OwnRows(x, c, "child", k)
           T == y.rows
<1>1. /\ x \in StateIn(M) /\ S \in Seq(RowIn(M)) /\ R \in Seq(RowIn(M)) /\ M \in Nat
      /\ Under(c, M, act, t) /\ Swept(R, S, q, n - 1, w) /\ t.xid # 0 /\ w # 0
      /\ Owned(act, tx) /\ 0 \notin act /\ s \in Sessions /\ Fine(S, act, tx) /\ w \in Held(t)
      /\ Wr(R0, S, x.ops, w) /\ w \in 1 .. M - 1 /\ n \in Nat /\ n # 0
    BY DEF FlushedTo, Firing, StateIn
<1>2. /\ p \in 1 .. Len(S) /\ S[p].table = "parent" /\ S[p].key = k /\ S[p].xmax = t.xid
      /\ k \in Keys
    BY SMTT(30), <1>1, GoneFor
<1>0. k # Null /\ k \notin {Null}
    BY <1>2, ForeignKeysAssumption DEF Null
<1>3. \A id \in refs : /\ id \in 1 .. Len(R) /\ id \in 1 .. Len(S) /\ S[id] = R[id]
                       /\ S[id].xmax = 0 /\ S[id].table = "child" /\ S[id].key = k
                       /\ Mine(S[id], act, t)
    BY FiredRefs
<1>4. \/ y = Fail(x)
      \/ /\ Sound(x, y, M) /\ Same(x, y) /\ Wr(R0, T, y.ops, w) /\ Acted(S, T, refs, w, {Null})
  <2> DEFINE new == <<>>
  <2>1. new \in NewKeys /\ NewKeysOf(new) = {Null}
      BY DEF NewKeys, NewKeysOf
  <2>2. \A id \in OwnRows(x, c, "child", k) : x.rows[id].xmax = 0
      BY <1>3
  <2>3. y = Cascade(x, c, k, new) /\ c.write_xid = w /\ Wr(R0, x.rows, x.ops, w)
      BY <1>1
  <2> HIDE DEF k, new, w
  <2>4. \/ y = Fail(x)
        \/ /\ Sound(x, y, M) /\ Same(x, y) /\ Wr(R0, y.rows, y.ops, w)
           /\ Acted(x.rows, y.rows, OwnRows(x, c, "child", k), w, NewKeysOf(new))
      BY <1>1, <2>1, <2>2, <2>3, CascadeDoes
  <2> QED  BY <2>1, <2>4
<1>5. CASE y = Fail(x)
    BY <1>5, FlushedFail
<1>6. CASE Sound(x, y, M) /\ Same(x, y) /\ Wr(R0, T, y.ops, w) /\ Acted(S, T, refs, w, {Null})
  <2>1. y \in StateIn(M) /\ T \in Seq(RowIn(M)) /\ y.ok = x.ok
      BY <1>6 DEF Sound, StateIn, Same
  <2>0. 0 \notin Held(t)
      BY <1>1, OwnedFacts
  <2>h. \A id \in refs : S[id].xmax = 0 /\ S[id].table = "child" /\ S[id].key = k
                         /\ Mine(S[id], act, tx[s])
      BY <1>3
  <2>r. /\ \A id \in 1 .. Len(S) : id \in refs => id \in 1 .. Len(R)
        /\ \A id \in 1 .. Len(R) : id \in refs =>
              S[id] = R[id] /\ R[id].table = "child" /\ R[id].key = q[n].key
      BY <1>3
  <2>v. \A id : id \in refs <=> /\ id \in 1 .. Len(S) /\ S[id].table = "child" /\ S[id].key = k
                                /\ Vis(S[id], act, {t.xid})
    <3> HIDE DEF k, t
    <3> QED  BY <1>1, OwnRowsVis
  <2>a. Acted(S, T, refs, w, {Null}) /\ R0 \in Seq(RowIn(M))
      BY <1>6
  <2> HIDE DEF S, T, w, k, p, refs
  <2>2. NoRival(S, tx, s, k)
    <3>1. ASSUME NEW p2 \in 1 .. Len(S), S[p2].table = "parent", S[p2].key = k,
                 NEW o \in Sessions, o # s, S[p2].xmax \in Held(tx[o])
          PROVE  FALSE
      <4>1. S[p].xmax \in Held(tx[s])
          BY <1>1, <1>2, HeldIs DEF t
      <4>2. Live(S[p], act) /\ Live(S[p2], act)
          BY <1>1, <3>1, <4>1, OwnedFacts DEF Live
      <4>3. p = p2
          BY <1>1, <1>2, <3>1, <4>2 DEF Fine, KeysUnique
      <4> QED  BY <1>1, <3>1, <4>1, <4>3, OwnedFacts
    <3> QED  BY <3>1 DEF NoRival
  <2>3. NoRival(S, tx, s, Null)
    <3>1. ASSUME NEW p2 \in 1 .. Len(S), S[p2].table = "parent" PROVE S[p2].key # Null
      <4>1. S[p2] \in RowIn(M)
          BY <1>1
      <4> QED  BY <3>1, <4>1, ForeignKeysAssumption DEF RowIn, Null
    <3> QED  BY <3>1 DEF NoRival
  <2>4. Fine(T, act, tx)
    <3> DEFINE nk == {Null}
    <3>1. \A k2 \in nk : NoRival(S, tx, s, k2)
        BY <2>3
    <3>2. S \in Seq(RowIn(M)) /\ T \in Seq(RowIn(M)) /\ Acted(S, T, refs, w, nk)
          /\ Owned(act, tx) /\ 0 \notin act /\ s \in Sessions /\ w \in Held(tx[s])
          /\ Fine(S, act, tx)
        BY <1>1, <2>1, <2>a
    <3>3. \A id \in refs : S[id].table = "child" /\ S[id].key = k /\ Mine(S[id], act, tx[s])
        BY <2>h
    <3> HIDE DEF nk, t
    <3> QED  BY <2>2, <3>1, <3>2, <3>3, ActedFine
  <2>5. Swept(R, T, q, n, w)
    <3> DEFINE nk == {Null}
               m == n - 1
    <3>1. /\ S \in Seq(RowIn(M)) /\ T \in Seq(RowIn(M)) /\ R \in Seq(RowIn(M))
          /\ Acted(S, T, refs, w, nk) /\ Swept(R, S, q, m, w) /\ \A k2 \in nk : k2 = Null
          /\ n \in 1 .. n /\ \A i \in 1 .. m : i \in 1 .. n
        BY <1>1, <2>1, <2>a
    <3> HIDE DEF nk, m
    <3> QED  BY <2>r, <3>1, SweptActed
  <2>6. ASSUME y.ok, Cover(R, act, Held(t), t.owned_xids, q)
        PROVE  CoverFrom(T, act, Held(t), t.owned_xids, q, n)
    <3>1. CoverFrom(S, act, Held(t), t.owned_xids, q, n - 1)
        BY <2>1, <2>6 DEF FlushedTo, S
    <3>2. CoverFrom(T, act, Held(t), t.owned_xids, q, n - 1)
      <4>1. \A k2 \in {Null} : k2 = Null \/
               \E i \in (n - 1) + 1 .. Len(q) : q[i].side # "parent" /\ q[i].key = k2
          OBVIOUS
      <4>2. CoverFrom(S, act, Held(t), t.owned_xids, q, n - 1) 
            /\ \A id \in 1 .. Len(S) : id \in refs => S[id].table = "child"
          BY <2>h, <3>1
      <4> DEFINE nk == {Null}
                 Y == Held(t)
                 O == t.owned_xids
      <4>3. S \in Seq(RowIn(M)) /\ T \in Seq(RowIn(M)) /\ Acted(S, T, refs, w, nk)
            /\ w \in Y /\ 0 \notin Y /\ CoverFrom(S, act, Y, O, q, n - 1)
            /\ \A k2 \in nk : k2 = Null \/
                 \E i \in (n - 1) + 1 .. Len(q) : q[i].side # "parent" /\ q[i].key = k2
          BY <1>1, <2>0, <2>1, <2>a, <4>1, <4>2
      <4> HIDE DEF Y, O, nk
      <4>4. CoverFrom(T, act, Y, O, q, n - 1)
          BY SMTT(30), <4>2, <4>3, ActedCover
      <4> HIDE DEF t
      <4> QED  BY <4>4 DEF Y, O
    <3>3. ASSUME NEW id \in 1 .. Len(T), Orphan(T, act, Held(t), id), Looks(q[n], T[id], t.owned_xids)
          PROVE  FALSE
      <4>1. T[id].key = k /\ T[id].xmin \notin t.owned_xids /\ Vis(T[id], act, Held(t))
            /\ T[id].table = "child"
          BY <3>3 DEF Looks, Orphan, k
      <4>2. id \in 1 .. Len(S) /\ id \notin refs
        <5> DEFINE nk == {Null}
                   Y == Held(t)
        <5>1. S \in Seq(RowIn(M)) /\ T \in Seq(RowIn(M)) /\ Acted(S, T, refs, w, nk)
              /\ w \in Y /\ 0 \notin Y /\ T[id].key \notin nk /\ Vis(T[id], act, Y)
            BY <1>0, <1>1, <2>0, <2>1, <2>a, <4>1
        <5> HIDE DEF nk, Y
        <5> QED  BY <5>1, ActedGone
      <4>3. T[id] = S[id]
          BY <2>a, <4>2 DEF Acted
      <4>4. Vis(S[id], act, {t.xid})
          BY <1>1, <4>1, <4>2, <4>3, HeldIs DEF Vis
      <4> QED  BY <2>v, <4>1, <4>2, <4>3, <4>4
    <3>4. Len(q) \in Nat
        BY DEF Firing
    <3> QED  BY <3>2, <3>3, <3>4, CoverNext
  <2> QED  BY <1>6, <2>1, <2>4, <2>5, <2>6 DEF FlushedTo, T, w
<1> QED  BY <1>4, <1>5, <1>6

LEMMA FlushedNext ==
    ASSUME NEW M, NEW R0 \in Seq(RowIn(M)), NEW R, NEW act, NEW tx, NEW s, NEW c, NEW q, NEW x,
           NEW n \in 1 .. Len(q),
           Firing(M, R, act, tx, s, c, q), FlushedTo(M, R0, R, act, tx, s, c, q, x, n - 1)
    PROVE  FlushedTo(M, R0, R, act, tx, s, c, q, Fire(x, c, q[n]), n)
<1>1. q[n].side \in {"child", "parent"}
  <2>1. q \in Seq(PendingFk)
      BY DEF Firing
  <2>2. q[n] \in PendingFk
      BY <2>1
  <2> QED  BY <2>2 DEF PendingFk
<1>2. CASE q[n].side = "child"
    BY <1>2, FlushedChild
<1>3. CASE q[n].side = "parent"
  <2>0. x \in StateIn(M) /\ Swept(R, x.rows, q, n - 1, c.write_xid)
      BY DEF FlushedTo
  <2>1. /\ ~fk_parent_key_exists(x, c, q[n].key) \/ Fire(x, c, q[n]) = x
        /\ fk_parent_key_exists(x, c, q[n].key) \/ ~x.ok
              \/ Fire(x, c, q[n]) = Cascade(x, c, q[n].key, <<>>)
        /\ Fire(x, c, q[n]) \in {x, Cascade(x, c, q[n].key, <<>>)}
      BY <1>3, <2>0, GoneFor
  <2>2. CASE Fire(x, c, q[n]) = Cascade(x, c, q[n].key, <<>>)
      BY <1>3, <2>2, FlushedCascade
  <2>3. CASE fk_parent_key_exists(x, c, q[n].key)
      BY <2>1, <2>3, FlushedFound
  <2>4. CASE ~x.ok /\ Fire(x, c, q[n]) = x
      BY <2>4, FlushedFail
  <2> QED  BY <2>1, <2>2, <2>3, <2>4
<1> QED  BY <1>1, <1>2, <1>3

LEMMA EmptiedIs ==
    ASSUME NEW M, NEW st \in StateIn(M)
    PROVE  LET x == Emptied(st) IN
           x \in StateIn(M) /\ x.rows = st.rows /\ x.ops = st.ops /\ x.queue = <<>> /\ x.ok = st.ok
<1> DEFINE x == Emptied(st)
<1>1. <<>> \in Seq(PendingFk)
    OBVIOUS
<1>2. x = [st EXCEPT !.queue = <<>>]
    BY DEF Emptied
<1> HIDE DEF x
<1>3. x \in StateIn(M) /\ x.rows = st.rows /\ x.ops = st.ops /\ x.queue = <<>> /\ x.ok = st.ok
    BY <1>1, <1>2 DEF StateIn
<1> QED  BY <1>3 DEF x

LEMMA FlushDoes ==
    ASSUME NEW M, NEW R0 \in Seq(RowIn(M)), NEW act, NEW tx, NEW s, NEW c, NEW st \in StateIn(M),
           Firing(M, st.rows, act, tx, s, c, st.queue), Wr(R0, st.rows, st.ops, c.write_xid)
    PROVE  FlushedTo(M, R0, st.rows, act, tx, s, c, st.queue, flush_deferred_fk(st, c),
                     Len(st.queue))
<1> DEFINE R == st.rows
           q == st.queue
           L == Len(q)
           P(x, n) == FlushedTo(M, R0, R, act, tx, s, c, q, x, n)
<1>1. L \in Nat /\ L \in 0 .. L
    BY DEF StateIn
<1>2. PICK u : /\ u[0] = Emptied(st)
               /\ \A n \in 1 .. L : u[n] = Fire(u[n - 1], c, q[n])
               /\ flush_deferred_fk(st, c) = u[L]
    BY <1>1, FlushRun
<1>3. P(u[0], 0)
  <2> DEFINE x == Emptied(st)
             S == x.rows
  <2>1. x \in StateIn(M) /\ S = R /\ x.ops = st.ops
      BY EmptiedIs
  <2> HIDE DEF x, S
  <2>2. Swept(R, S, q, 0, c.write_xid)
    <3>1. Len(R) \in Nat /\ R \in Seq(RowIn(M))
        BY DEF StateIn
    <3>2. \A id \in Len(R) + 1 .. Len(S) : FALSE
        BY <2>1, <3>1
    <3> HIDE DEF R
    <3> QED  BY <2>1, <3>1, <3>2 DEF Swept
  <2>3. Fine(S, act, tx) /\ Wr(R0, S, x.ops, c.write_xid)
      BY <2>1 DEF Firing
  <2>4. Cover(R, act, Held(tx[s]), tx[s].owned_xids, q) =>
           CoverFrom(S, act, Held(tx[s]), tx[s].owned_xids, q, 0)
      BY <2>1 DEF Cover
  <2>5. u[0] = x
      BY <1>2 DEF x
  <2>6. FlushedTo(M, R0, R, act, tx, s, c, q, x, 0)
      BY <2>1, <2>2, <2>3, <2>4 DEF FlushedTo, S
  <2> QED  BY <2>5, <2>6
<1>4. ASSUME NEW n \in 1 .. L, P(u[n - 1], n - 1) PROVE P(u[n], n)
  <2> DEFINE x == u[n - 1]
  <2>1. Firing(M, R, act, tx, s, c, q) /\ P(x, n - 1) /\ u[n] = Fire(x, c, q[n])
      BY <1>2, <1>4
  <2> HIDE DEF x, R, q
  <2> QED  BY <2>1, FlushedNext
<1> DEFINE G == {n \in 0 .. L : P(u[n], n)}
<1> HIDE DEF L, P
<1>5. 0 \in G /\ \A n \in 1 .. L : n - 1 \in G => n \in G
    BY <1>1, <1>3, <1>4
<1>6. L \in G
  <2> HIDE DEF G
  <2> QED  BY <1>1, <1>5, CountUp
<1> QED  BY <1>2, <1>6 DEF P, L

LEMMA CoverAll ==
    ASSUME NEW R, NEW act, NEW Y, NEW O, NEW q, Len(q) \in Nat, CoverFrom(R, act, Y, O, q, Len(q))
    PROVE  Cover(R, act, Y, O, <<>>)
<1>1. \A i \in Len(q) + 1 .. Len(q) : FALSE
    OBVIOUS
<1>2. \A id \in 1 .. Len(R) : ~Orphan(R, act, Y, id)
    BY <1>1 DEF CoverFrom
<1> QED  BY <1>2 DEF Cover, CoverFrom

-----------------------------------------------------------------------------
(* What a statement does to the rows, in the view of its transaction.        *)

(* The session s writes under w. *)
Scene(M, act, tx, s, w) ==
    /\ M \in Nat /\ Owned(act, tx) /\ 0 \notin act /\ s \in Sessions /\ tx[s].xid # 0
    /\ w \in Held(tx[s]) /\ w \in 1 .. M - 1

Good(R, act, tx, s, q, ok) ==
    /\ Fine(R, act, tx) /\ Postponed(R, tx[s], q) /\ TopOnly(R, tx[s])
    /\ ok => Cover(R, act, Held(tx[s]), tx[s].owned_xids, q)

LEMMA SceneFacts ==
    ASSUME NEW M, NEW act, NEW tx, NEW s, NEW w, Scene(M, act, tx, s, w)
    PROVE  /\ Owned(act, tx) /\ 0 \notin act /\ s \in Sessions /\ w \in Held(tx[s]) /\ w # 0
           /\ tx[s].xid \in Held(tx[s]) /\ 0 \notin Held(tx[s]) /\ 0 \notin tx[s].owned_xids
           /\ Held(tx[s]) = {tx[s].xid} \cup tx[s].owned_xids
           /\ \A x \in Held(tx[s]) : x \in act
<1>1. tx[s].xid # 0 /\ s \in Sessions /\ w \in Held(tx[s]) /\ w # 0 /\ 0 \notin act /\ Owned(act, tx)
    BY DEF Scene
<1>2. Held(tx[s]) = {tx[s].xid} \cup tx[s].owned_xids
    BY <1>1, HeldIs
<1>3. \A x \in Held(tx[s]) : x \in act
    BY <1>1, OwnedFacts
<1> QED  BY <1>1, <1>2, <1>3

LEMMA PostponedStamp ==
    ASSUME NEW N, NEW R \in Seq(RowIn(N)), NEW S \in Seq(RowIn(N)), NEW id, NEW w, Stamped(R, S, id, w),
           R[id].table = "child" \/ R[id].xmax = 0, NEW t, NEW q, Postponed(R, t, q)
    PROVE  Postponed(S, t, q)
<1>1. Len(S) = Len(R)
    BY DEF Stamped
<1>2. ASSUME NEW i \in 1 .. Len(q), q[i].side = "parent"
      PROVE  /\ t.xid # 0 /\ q[i].row \in 1 .. Len(S)
             /\ S[q[i].row].table = "parent" /\ S[q[i].row].key = q[i].key
             /\ S[q[i].row].xmax = t.xid
  <2>1. /\ t.xid # 0 /\ q[i].row \in 1 .. Len(R)
        /\ R[q[i].row].table = "parent" /\ R[q[i].row].key = q[i].key
        /\ R[q[i].row].xmax = t.xid
      BY <1>2 DEF Postponed
  <2>2. q[i].row # id
      BY <2>1
  <2>3. S[q[i].row] = R[q[i].row]
      BY <2>1, <2>2 DEF Stamped
  <2> QED  BY <1>1, <2>1, <2>3
<1> QED  BY <1>2 DEF Postponed

LEMMA PostponedAdd ==
    ASSUME NEW N, NEW R \in Seq(RowIn(N)), NEW S \in Seq(RowIn(N)), NEW table, NEW key, NEW w,
           Added(R, S, table, key, w), NEW t, NEW q, Postponed(R, t, q)
    PROVE  Postponed(S, t, q)
<1>1. Len(S) = Len(R) + 1 /\ Len(R) \in Nat
    BY DEF Added
<1>2. \A j \in 1 .. Len(R) : j \in 1 .. Len(S) /\ S[j] = R[j]
    BY <1>1 DEF Added
<1> QED  BY <1>2 DEF Postponed

LEMMA TopOnlyNone ==
    ASSUME NEW R, NEW t, t.owned_xids = {}
    PROVE  TopOnly(R, t)
    BY DEF TopOnly

LEMMA TopOnlyStampChild ==
    ASSUME NEW N, NEW R \in Seq(RowIn(N)), NEW S \in Seq(RowIn(N)), NEW id, NEW w, Stamped(R, S, id, w),
           R[id].table = "child", NEW t, TopOnly(R, t),
           \/ w \notin t.owned_xids
           \/ \A p \in 1 .. Len(R) : R[p].table = "parent" => R[p].xmax # t.xid
    PROVE  TopOnly(S, t)
<1>1. Len(S) = Len(R)
    BY DEF Stamped
<1>2. \A p \in 1 .. Len(R) : S[p].table = "parent" => S[p] = R[p]
    BY DEF Stamped
<1>3. \A c \in 1 .. Len(R) : c # id => S[c] = R[c]
    BY DEF Stamped
<1>4. S[id].xmax = w /\ id \in 1 .. Len(R)
    BY DEF Stamped
<1> QED  BY <1>1, <1>2, <1>3, <1>4 DEF TopOnly

LEMMA TopOnlyAddChild ==
    ASSUME NEW N, NEW R \in Seq(RowIn(N)), NEW S \in Seq(RowIn(N)), NEW key, NEW w,
           Added(R, S, "child", key, w), NEW t, 0 \notin t.owned_xids, TopOnly(R, t)
    PROVE  TopOnly(S, t)
<1>1. Len(S) = Len(R) + 1 /\ Len(R) \in Nat
    BY DEF Added
<1>2. \A j \in 1 .. Len(S) : (j \in 1 .. Len(R) /\ S[j] = R[j]) \/ (S[j].table = "child" /\ S[j].xmax = 0)
    BY <1>1 DEF Added
<1> QED  BY <1>2 DEF TopOnly

LEMMA GoodStampChild ==
    ASSUME NEW N, NEW R \in Seq(RowIn(N)), NEW S \in Seq(RowIn(N)), NEW id, NEW w, Stamped(R, S, id, w),
           R[id].table = "child",
           NEW act, NEW tx, NEW s, Scene(N, act, tx, s, w), NEW q, NEW ok,
           Good(R, act, tx, s, q, ok), Mine(R[id], act, tx[s]), NoRival(R, tx, s, R[id].key),
           \/ tx[s].owned_xids = {}
           \/ \A p \in 1 .. Len(R) : R[p].table = "parent" => R[p].xmax # tx[s].xid
    PROVE  Good(S, act, tx, s, q, ok)
<1>1. /\ Owned(act, tx) /\ s \in Sessions /\ w \in Held(tx[s]) /\ w # 0
      /\ Fine(R, act, tx) /\ Postponed(R, tx[s], q) /\ TopOnly(R, tx[s])
    BY SceneFacts DEF Good
<1>2. Fine(S, act, tx)
    BY <1>1, FineStampChild
<1> DEFINE t == tx[s]
           Y == Held(t)
           O == t.owned_xids
<1> HIDE DEF t
<1>3. Postponed(S, t, q)
    BY <1>1, PostponedStamp DEF t
<1>4. TopOnly(S, t)
  <2>1. w \notin t.owned_xids \/ \A p \in 1 .. Len(R) : R[p].table = "parent" => R[p].xmax # t.xid
      BY DEF t
  <2> QED  BY <1>1, <2>1, TopOnlyStampChild DEF t
<1>5. ASSUME ok PROVE Cover(S, act, Y, O, q)
  <2>1. Cover(R, act, Y, O, q) /\ w \in Y
      BY <1>1, <1>5 DEF Good, t
  <2> HIDE DEF Y, O
  <2> QED  BY <1>1, <2>1, CoverStampChild
<1> QED  BY <1>2, <1>3, <1>4, <1>5 DEF Good, t

LEMMA GoodAddChild ==
    ASSUME NEW N, NEW R \in Seq(RowIn(N)), NEW S \in Seq(RowIn(N)), NEW key, NEW w,
           Added(R, S, "child", key, w),
           NEW act, NEW tx, NEW s, Scene(N, act, tx, s, w), NEW q, Len(q) \in Nat, NEW ok,
           Good(R, act, tx, s, q, ok), NoRival(R, tx, s, key),
           \/ key = Null
           \/ \E p \in 1 .. Len(R) :
                 R[p].table = "parent" /\ R[p].key = key /\ Vis(R[p], act, Held(tx[s]))
           \/ \E i \in 1 .. Len(q) : q[i].side # "parent" /\ q[i].key = key
    PROVE  Good(S, act, tx, s, q, ok)
<1>1. /\ Owned(act, tx) /\ 0 \notin act /\ s \in Sessions /\ w \in Held(tx[s]) /\ w # 0
      /\ Fine(R, act, tx) /\ Postponed(R, tx[s], q) /\ TopOnly(R, tx[s])
      /\ 0 \notin tx[s].owned_xids
    BY SceneFacts DEF Good
<1>2. Fine(S, act, tx)
    BY <1>1, FineAddChild
<1> DEFINE t == tx[s]
           Y == Held(t)
           O == t.owned_xids
<1>6. \/ key = Null
      \/ \E p \in 1 .. Len(R) : R[p].table = "parent" /\ R[p].key = key /\ Vis(R[p], act, Y)
      \/ \E i \in 1 .. Len(q) : q[i].side # "parent" /\ q[i].key = key
    OBVIOUS
<1> HIDE DEF t
<1>3. Postponed(S, t, q)
    BY <1>1, PostponedAdd DEF t
<1>4. TopOnly(S, t)
    BY <1>1, TopOnlyAddChild DEF t
<1>5. ASSUME ok PROVE Cover(S, act, Y, O, q)
  <2>1. Cover(R, act, Y, O, q)
      BY <1>5 DEF Good, t
  <2> HIDE DEF Y, O
  <2> QED  BY <1>6, <2>1, CoverAddChild
<1> QED  BY <1>2, <1>3, <1>4, <1>5 DEF Good, t

LEMMA GoodAddParent ==
    ASSUME NEW N, NEW R \in Seq(RowIn(N)), NEW S \in Seq(RowIn(N)), NEW key, NEW w,
           Added(R, S, "parent", key, w),
           NEW act, NEW tx, NEW s, Scene(N, act, tx, s, w), NEW q, NEW ok,
           Good(R, act, tx, s, q, ok), tx[s].owned_xids = {},
           \A p \in 1 .. Len(R) : R[p].table = "parent" /\ R[p].key = key => ~Live(R[p], act)
    PROVE  Good(S, act, tx, s, q, ok)
<1>1. /\ Owned(act, tx) /\ 0 \notin act
      /\ Fine(R, act, tx) /\ Postponed(R, tx[s], q)
    BY SceneFacts DEF Good
<1>2. Fine(S, act, tx)
    BY <1>1, FineAddParent
<1>3. Postponed(S, tx[s], q) /\ TopOnly(S, tx[s])
    BY <1>1, PostponedAdd, TopOnlyNone
<1>4. ASSUME ok PROVE Cover(S, act, Held(tx[s]), tx[s].owned_xids, q)
    BY <1>4, CoverAddParent DEF Good
<1> QED  BY <1>2, <1>3, <1>4 DEF Good

LEMMA GoodStampParent ==
    ASSUME NEW N, NEW R \in Seq(RowIn(N)), NEW S \in Seq(RowIn(N)), NEW id, NEW w, Stamped(R, S, id, w),
           R[id].table = "parent", R[id].xmax = 0,
           NEW act, NEW tx, NEW s, Scene(N, act, tx, s, w), NEW q, NEW ok,
           Good(R, act, tx, s, q, ok), tx[s].owned_xids = {},
           Mine(R[id], act, tx[s]), NoKin(R, tx, s, R[id].key),
           \/ \A c \in 1 .. Len(R) :
                 R[c].table = "child" /\ R[c].key = R[id].key => ~Vis(R[c], act, Held(tx[s]))
           \/ \E i \in 1 .. Len(q) : q[i].key = R[id].key
    PROVE  Good(S, act, tx, s, q, ok)
<1>1. /\ Owned(act, tx) /\ 0 \notin act /\ s \in Sessions /\ w \in Held(tx[s])
      /\ Fine(R, act, tx) /\ Postponed(R, tx[s], q)
    BY SceneFacts DEF Good
<1>2. Fine(S, act, tx)
    BY <1>1, FineStampParent
<1>3. Postponed(S, tx[s], q)
    BY <1>1, PostponedStamp
<1>4. TopOnly(S, tx[s])
    BY TopOnlyNone
<1>5. ASSUME ok PROVE Cover(S, act, Held(tx[s]), tx[s].owned_xids, q)
  <2> DEFINE Y == Held(tx[s])
             O == tx[s].owned_xids
  <2>1. Cover(R, act, Y, O, q) /\ O = {}
      BY <1>5 DEF Good
  <2>2. \/ \A c \in 1 .. Len(R) :
              R[c].table = "child" /\ R[c].key = R[id].key => ~Vis(R[c], act, Y)
        \/ O = {} /\ \E i \in 1 .. Len(q) : q[i].key = R[id].key
      OBVIOUS
  <2> HIDE DEF Y, O
  <2>3. Cover(S, act, Y, O, q)
      BY <2>1, <2>2, CoverStampParent
  <2> QED  BY <2>3 DEF Y, O
<1> QED  BY <1>2, <1>3, <1>4, <1>5 DEF Good

(* Nobody but s writes children, or removes parents. *)
Alone(R, tx, s) ==
    \A c \in 1 .. Len(R) : R[c].table = "child" =>
        \A o \in Sessions : o # s => R[c].xmin \notin Held(tx[o]) /\ R[c].xmax \notin Held(tx[o])
Unrivalled(R, tx, s) ==
    \A p \in 1 .. Len(R) : R[p].table = "parent" =>
        \A o \in Sessions : o # s => R[p].xmax \notin Held(tx[o])
Free(R, act, key) ==
    \A p \in 1 .. Len(R) : R[p].table = "parent" /\ R[p].key = key => ~Live(R[p], act)

LEMMA Rivals ==
    ASSUME NEW N, NEW R \in Seq(RowIn(N)), NEW act, NEW tx, NEW s, NEW w, Scene(N, act, tx, s, w),
           KeysUnique(R, act)
    PROVE  /\ \A id \in 1 .. Len(R) : R[id].table = "parent" /\ R[id].xmax = 0 =>
                 NoRival(R, tx, s, R[id].key)
           /\ \A k : Free(R, act, k) => NoRival(R, tx, s, k)
           /\ NoRival(R, tx, s, Null)
           /\ Unrivalled(R, tx, s) => \A k : NoRival(R, tx, s, k)
           /\ Alone(R, tx, s) => \A k : NoKin(R, tx, s, k)
<1>1. \A o \in Sessions : \A x \in Held(tx[o]) : x \in act /\ x # 0
  <2>1. Owned(act, tx) /\ 0 \notin act
      BY DEF Scene
  <2>2. \A o \in Sessions : \A x \in Held(tx[o]) : x \in act
      BY <2>1, OwnedFacts
  <2> QED  BY <2>1, <2>2
<1>2. ASSUME NEW id \in 1 .. Len(R), R[id].table = "parent", R[id].xmax = 0
      PROVE  NoRival(R, tx, s, R[id].key)
  <2>1. ASSUME NEW p \in 1 .. Len(R), R[p].table = "parent", R[p].key = R[id].key,
               NEW o \in Sessions, R[p].xmax \in Held(tx[o])
        PROVE  FALSE
    <3>1. Live(R[p], act) /\ Live(R[id], act)
        BY <1>1, <1>2, <2>1 DEF Live
    <3>2. p = id
        BY <1>2, <2>1, <3>1 DEF KeysUnique
    <3> QED  BY <1>1, <1>2, <2>1, <3>2
  <2> QED  BY <2>1 DEF NoRival
<1>3. ASSUME NEW k, Free(R, act, k)
      PROVE  NoRival(R, tx, s, k)
    BY <1>1, <1>3 DEF Free, Live, NoRival
<1>4. NoRival(R, tx, s, Null)
  <2>1. ASSUME NEW p \in 1 .. Len(R), R[p].table = "parent" PROVE R[p].key # Null
    <3>1. R[p] \in RowIn(N)
        OBVIOUS
    <3> QED  BY <2>1, <3>1, ForeignKeysAssumption DEF RowIn, Null
  <2> QED  BY <2>1 DEF NoRival
<1>5. Unrivalled(R, tx, s) => \A k : NoRival(R, tx, s, k)
    BY DEF Unrivalled, NoRival
<1>6. Alone(R, tx, s) => \A k : NoKin(R, tx, s, k)
    BY DEF Alone, NoKin
<1> QED  BY <1>2, <1>3, <1>4, <1>5, <1>6

LEMMA PostponedActed ==
    ASSUME NEW N, NEW R \in Seq(RowIn(N)), NEW S \in Seq(RowIn(N)), NEW refs, NEW w, NEW nk,
           Acted(R, S, refs, w, nk), \A id \in 1 .. Len(R) : id \in refs => R[id].table = "child",
           NEW t, NEW q, Postponed(R, t, q)
    PROVE  Postponed(S, t, q)
<1>1. Len(R) \in Nat /\ Len(S) \in Nat /\ Len(R) <= Len(S)
    BY DEF Acted
<1>2. \A p \in 1 .. Len(R) : R[p].table = "parent" => p \in 1 .. Len(S) /\ S[p] = R[p]
    BY <1>1 DEF Acted
<1> QED  BY <1>2 DEF Postponed

LEMMA AloneActed ==
    ASSUME NEW N, NEW R \in Seq(RowIn(N)), NEW S \in Seq(RowIn(N)), NEW refs, NEW nk,
           NEW act, NEW tx, NEW s, NEW w, Scene(N, act, tx, s, w),
           Acted(R, S, refs, w, nk), Alone(R, tx, s)
    PROVE  Alone(S, tx, s)
<1>1. \A o \in Sessions : o # s => w \notin Held(tx[o]) /\ 0 \notin Held(tx[o])
  <2>1. Owned(act, tx) /\ 0 \notin act /\ s \in Sessions /\ w \in Held(tx[s])
      BY DEF Scene
  <2>2. /\ \A o \in Sessions : \A x \in Held(tx[o]) : x \in act
        /\ \A a, o \in Sessions : \A x \in Held(tx[a]) : x \in Held(tx[o]) => a = o
      BY <2>1, OwnedFacts
  <2> QED  BY <2>1, <2>2
<1>2. ASSUME NEW c \in 1 .. Len(S), S[c].table = "child", NEW o \in Sessions, o # s
      PROVE  S[c].xmin \notin Held(tx[o]) /\ S[c].xmax \notin Held(tx[o])
  <2>1. CASE c \in 1 .. Len(R) /\ S[c] = R[c]
      BY <1>2, <2>1 DEF Alone
  <2>2. CASE /\ c \in 1 .. Len(R) /\ S[c].table = R[c].table
             /\ S[c].xmin = R[c].xmin /\ S[c].xmax = w
      BY <1>1, <1>2, <2>2 DEF Alone
  <2>3. CASE S[c].xmin = w /\ S[c].xmax = 0
      BY <1>1, <1>2, <2>3
  <2> QED  BY <2>1, <2>2, <2>3, ActedRows
<1> QED  BY <1>2 DEF Alone

(* Each new key will be looked at. *)
Backed(nk, q) ==
    \A k \in nk : k = Null \/ \E i \in 1 .. Len(q) : q[i].side # "parent" /\ q[i].key = k
OnChildren(R, refs) == \A id \in 1 .. Len(R) : id \in refs => R[id].table = "child"

LEMMA ActedCovers ==
    ASSUME NEW N, NEW R \in Seq(RowIn(N)), NEW S \in Seq(RowIn(N)), NEW refs, NEW w, NEW nk,
           Acted(R, S, refs, w, nk),
           NEW act, NEW Y, w \in Y, 0 \notin Y, NEW O, NEW q,
           OnChildren(R, refs), Backed(nk, q),
           Cover(R, act, Y, O, q)
    PROVE  Cover(S, act, Y, O, q)
<1>1. \A p \in 1 .. Len(R) : R[p].table = "parent" => p \in 1 .. Len(S) /\ S[p] = R[p]
  <2>1. Len(R) \in Nat /\ Len(S) \in Nat /\ Len(R) <= Len(S)
      BY DEF Acted
  <2> QED  BY <2>1 DEF Acted, OnChildren
<1>2. ASSUME NEW id \in 1 .. Len(S), Orphan(S, act, Y, id)
      PROVE  \E i \in 1 .. Len(q) : Looks(q[i], S[id], O)
  <2>1. CASE id \in 1 .. Len(R) /\ S[id] = R[id]
    <3>1. Orphan(R, act, Y, id)
        BY <1>1, <1>2, <2>1 DEF Orphan
    <3> QED  BY <2>1, <3>1 DEF Cover, CoverFrom
  <2>2. CASE S[id].key \in nk
      BY <1>2, <2>2 DEF Orphan, Looks, Backed
  <2>3. CASE S[id].xmax = w
      BY <1>2, <2>3 DEF Orphan, Vis
  <2> QED  BY <2>1, <2>2, <2>3, ActedRows
<1> QED  BY <1>2 DEF Cover, CoverFrom

LEMMA GoodActed ==
    ASSUME NEW N, NEW R \in Seq(RowIn(N)), NEW S \in Seq(RowIn(N)), NEW refs, NEW w, NEW nk,
           Acted(R, S, refs, w, nk),
           NEW act, NEW tx, NEW s, Scene(N, act, tx, s, w), NEW q, NEW ok,
           Good(R, act, tx, s, q, ok), tx[s].owned_xids = {},
           NEW id \in 1 .. Len(R), R[id].table = "parent", R[id].xmax = 0,
           \A j \in refs : R[j].table = "child" /\ R[j].key = R[id].key /\ Mine(R[j], act, tx[s]),
           \A k \in nk : k = Null \/
              (Free(R, act, k) /\ \E i \in 1 .. Len(q) : q[i].side # "parent" /\ q[i].key = k)
    PROVE  Good(S, act, tx, s, q, ok)
<1>1. /\ Owned(act, tx) /\ 0 \notin act /\ s \in Sessions /\ w \in Held(tx[s]) /\ 0 \notin Held(tx[s])
      /\ Fine(R, act, tx) /\ Postponed(R, tx[s], q) /\ KeysUnique(R, act)
    BY SceneFacts DEF Good, Fine
<1>2. NoRival(R, tx, s, R[id].key) /\ \A k \in nk : NoRival(R, tx, s, k)
    BY <1>1, Rivals
<1>3. Fine(S, act, tx)
    BY <1>1, <1>2, ActedFine
<1>c. \A j \in 1 .. Len(R) : j \in refs => R[j].table = "child"
    OBVIOUS
<1>4. Postponed(S, tx[s], q)
    BY <1>1, <1>c, PostponedActed
<1>5. TopOnly(S, tx[s])
    BY TopOnlyNone
<1>6. ASSUME ok PROVE Cover(S, act, Held(tx[s]), tx[s].owned_xids, q)
  <2> DEFINE Y == Held(tx[s])
             O == tx[s].owned_xids
  <2>1. Cover(R, act, Y, O, q) /\ w \in Y /\ 0 \notin Y
      BY <1>1, <1>6 DEF Good
  <2>2. Backed(nk, q) /\ OnChildren(R, refs)
      BY DEF Backed, OnChildren
  <2> HIDE DEF Y, O
  <2>3. Cover(S, act, Y, O, q)
      BY <2>1, <2>2, ActedCovers
  <2> QED  BY <2>3 DEF Y, O
<1> QED  BY <1>3, <1>4, <1>5, <1>6 DEF Good

(* Entries are only added at the end. *)
Longer(q, q2) == Len(q) <= Len(q2) /\ \A i \in 1 .. Len(q) : q2[i] = q[i]

LEMMA LongerAppend ==
    ASSUME NEW S, NEW q \in Seq(S), NEW e \in S
    PROVE  /\ Longer(q, Append(q, e)) /\ Append(q, e) \in Seq(S)
           /\ Len(q) \in Nat /\ Len(Append(q, e)) = Len(q) + 1 /\ Append(q, e)[Len(q) + 1] = e
    BY DEF Longer

LEMMA GoodMore ==
    ASSUME NEW R, NEW act, NEW tx, NEW s, NEW q \in Seq(PendingFk), NEW ok,
           Good(R, act, tx, s, q, ok), NEW e \in PendingFk, e.side # "parent"
    PROVE  Good(R, act, tx, s, Append(q, e), ok)
<1> DEFINE q2 == Append(q, e)
<1>1. /\ Longer(q, q2) /\ Len(q) \in Nat /\ Len(q2) \in Nat /\ Len(q2) = Len(q) + 1
      /\ q2[Len(q) + 1] = e
    BY LongerAppend
<1> HIDE DEF q2
<1>2. \A i \in 1 .. Len(q2) : i = Len(q) + 1 \/ (i \in 1 .. Len(q) /\ q2[i] = q[i])
    BY <1>1 DEF Longer
<1>3. Postponed(R, tx[s], q2)
  <2>1. \A i \in 1 .. Len(q2) : q2[i].side = "parent" => i \in 1 .. Len(q) /\ q2[i] = q[i]
      BY <1>1, <1>2
  <2>2. Postponed(R, tx[s], q)
      BY DEF Good
  <2> QED  BY <2>1, <2>2 DEF Postponed
<1>4. ASSUME ok PROVE Cover(R, act, Held(tx[s]), tx[s].owned_xids, q2)
  <2>1. Cover(R, act, Held(tx[s]), tx[s].owned_xids, q)
      BY <1>4 DEF Good
  <2> QED  BY <1>1, <2>1, CoverMore DEF Longer
<1>5. Good(R, act, tx, s, q2, ok)
    BY <1>3, <1>4 DEF Good
<1> QED  BY <1>5 DEF q2

LEMMA GoodLess ==
    ASSUME NEW R, NEW act, NEW tx, NEW s, NEW q \in Seq(PendingFk), NEW ok, NEW e \in PendingFk,
           Good(R, act, tx, s, Append(q, e), ok),
           \E p \in 1 .. Len(R) : R[p].table = "parent" /\ R[p].key = e.key
                                  /\ Vis(R[p], act, Held(tx[s]))
    PROVE  Good(R, act, tx, s, q, ok)
<1> DEFINE q2 == Append(q, e)
<1>1. /\ Longer(q, q2) /\ Len(q) \in Nat /\ Len(q2) \in Nat /\ Len(q2) = Len(q) + 1
      /\ q2[Len(q) + 1] = e
    BY LongerAppend
<1>2. Good(R, act, tx, s, q2, ok)
    OBVIOUS
<1> HIDE DEF q2
<1>3. Postponed(R, tx[s], q)
  <2>1. \A i \in 1 .. Len(q) : i \in 1 .. Len(q2) /\ q2[i] = q[i]
      BY <1>1 DEF Longer
  <2>2. Postponed(R, tx[s], q2)
      BY <1>2 DEF Good
  <2> QED  BY SMTT(30), <2>1, <2>2 DEF Postponed
<1>4. ASSUME ok PROVE Cover(R, act, Held(tx[s]), tx[s].owned_xids, q)
  <2> DEFINE Y == Held(tx[s])
             O == tx[s].owned_xids
  <2>1. Cover(R, act, Y, O, q2)
      BY <1>2, <1>4 DEF Good
  <2>2. \E p \in 1 .. Len(R) : R[p].table = "parent" /\ R[p].key = q2[Len(q) + 1].key
                               /\ Vis(R[p], act, Y)
      BY <1>1
  <2> HIDE DEF Y, O
  <2>3. \A i \in 1 .. Len(q) : q2[i] = q[i]
      BY <1>1 DEF Longer
  <2>4. Cover(R, act, Y, O, q)
      BY <1>1, <2>1, <2>2, <2>3, CoverLess
  <2> QED  BY <2>4 DEF Y, O
<1> QED  BY <1>2, <1>3, <1>4 DEF Good

(* A removal that is postponed. *)
LEMMA GoodPostpone ==
    ASSUME NEW N, NEW R \in Seq(RowIn(N)), NEW S \in Seq(RowIn(N)), NEW id, NEW w, Stamped(R, S, id, w),
           R[id].table = "parent", R[id].xmax = 0,
           NEW act, NEW tx, NEW s, Scene(N, act, tx, s, w), NEW q \in Seq(PendingFk), NEW ok,
           Good(R, act, tx, s, q, ok), tx[s].owned_xids = {},
           Mine(R[id], act, tx[s]), NoKin(R, tx, s, R[id].key),
           NEW e \in PendingFk, e.side = "parent", e.key = R[id].key, e.row = id
    PROVE  Good(S, act, tx, s, Append(q, e), ok)
<1> DEFINE q2 == Append(q, e)
           t == tx[s]
           Y == Held(t)
           O == t.owned_xids
<1>1. /\ Longer(q, q2) /\ Len(q) \in Nat /\ Len(q2) \in Nat /\ Len(q2) = Len(q) + 1
      /\ q2[Len(q) + 1] = e
    BY LongerAppend
<1>2. /\ Owned(act, tx) /\ 0 \notin act /\ s \in Sessions /\ w \in Held(tx[s]) /\ w = t.xid /\ w # 0
      /\ Fine(R, act, tx) /\ Postponed(R, t, q) /\ KeysUnique(R, act) /\ w \in act
  <2>1. /\ Owned(act, tx) /\ 0 \notin act /\ s \in Sessions /\ w \in Held(tx[s]) /\ tx[s].xid # 0
      BY DEF Scene
  <2>2. w = t.xid
      BY <2>1, HeldIs
  <2>3. w \in act
      BY <2>1, OwnedFacts
  <2> QED  BY <2>1, <2>2, <2>3 DEF Good, Fine
<1>3. Fine(S, act, tx)
    BY <1>2, FineStampParent
<1> HIDE DEF q2, t
<1>s. /\ Len(S) = Len(R) /\ id \in 1 .. Len(R) /\ S[id].table = "parent" /\ S[id].key = R[id].key
      /\ S[id].xmax = w
    BY DEF Stamped
<1>4. Postponed(S, t, q)
    BY <1>2, PostponedStamp
<1>5. \A i \in 1 .. Len(q2) : (i = Len(q) + 1 /\ q2[i] = e) \/ (i \in 1 .. Len(q) /\ q2[i] = q[i])
    BY <1>1 DEF Longer
<1>6. \A i \in 1 .. Len(q) : q[i].side = "parent" => q[i].key # e.key
  <2>1. ASSUME NEW i \in 1 .. Len(q), q[i].side = "parent", q[i].key = e.key PROVE FALSE
    <3>1. /\ q[i].row \in 1 .. Len(R) /\ R[q[i].row].table = "parent"
          /\ R[q[i].row].key = R[id].key /\ R[q[i].row].xmax = t.xid
        BY <1>2, <2>1 DEF Postponed
    <3>2. Live(R[q[i].row], act) /\ Live(R[id], act)
        BY <1>2, <3>1 DEF Live
    <3>3. q[i].row = id
        BY <1>2, <1>s, <3>1, <3>2 DEF KeysUnique
    <3> QED  BY <1>2, <3>1, <3>3
  <2> QED  BY <2>1
<1>7. Postponed(S, t, q2)
  <2>1. ASSUME NEW i \in 1 .. Len(q2), q2[i].side = "parent"
        PROVE  /\ t.xid # 0 /\ q2[i].row \in 1 .. Len(S)
               /\ S[q2[i].row].table = "parent" /\ S[q2[i].row].key = q2[i].key
               /\ S[q2[i].row].xmax = t.xid
    <3>1. CASE q2[i] = e
        BY <1>2, <1>s, <3>1
    <3>2. CASE i \in 1 .. Len(q) /\ q2[i] = q[i]
        BY <1>4, <2>1, <3>2 DEF Postponed
    <3> QED  BY <1>5, <3>1, <3>2
  <2>2. ASSUME NEW i \in 1 .. Len(q2), NEW j \in 1 .. Len(q2), q2[i].side = "parent",
               q2[j].side = "parent", q2[i].key = q2[j].key
        PROVE  i = j
    <3>1. CASE i \in 1 .. Len(q) /\ q2[i] = q[i] /\ j \in 1 .. Len(q) /\ q2[j] = q[j]
        BY <1>4, <2>2, <3>1 DEF Postponed
    <3>2. CASE (i = Len(q) + 1 /\ q2[i] = e) \/ (j = Len(q) + 1 /\ q2[j] = e)
        BY <1>5, <1>6, <2>2, <3>2
    <3> QED  BY <1>5, <3>1, <3>2
  <2> QED  BY <2>1, <2>2 DEF Postponed
<1>8. TopOnly(S, t)
    BY TopOnlyNone DEF t
<1>9. ASSUME ok PROVE Cover(S, act, Y, O, q2)
  <2>1. Cover(R, act, Y, O, q) /\ O = {}
      BY <1>9 DEF Good, t
  <2>2. \E i \in 1 .. Len(q2) : q2[i].key = R[id].key
    <3>1. Len(q) + 1 \in 1 .. Len(q2)
        BY <1>1
    <3> QED  BY <1>1, <3>1
  <2> HIDE DEF Y, O
  <2>3. Cover(R, act, Y, O, q2)
      BY <1>1, <2>1, CoverMore DEF Longer
  <2> QED  BY <2>1, <2>2, <2>3, CoverStampParent
<1> QED  BY <1>3, <1>7, <1>8, <1>9 DEF Good, q2, t

-----------------------------------------------------------------------------
(* A statement, from the rows R0 to its working state.                       *)

Running(M, R0, act, tx, s, c, st) ==
    /\ st \in StateIn(M) /\ Wr(R0, st.rows, st.ops, c.write_xid)
    /\ Good(st.rows, act, tx, s, st.queue, st.ok)

LEMMA RunningIs ==
    ASSUME NEW M, NEW R0, NEW act, NEW tx, NEW s, NEW c, NEW st,
           Running(M, R0, act, tx, s, c, st)
    PROVE  /\ st \in StateIn(M) /\ st.rows \in Seq(RowIn(M)) /\ st.queue \in Seq(PendingFk)
           /\ st.ops \in Seq(OpIn(M)) /\ Len(st.queue) \in Nat
           /\ Wr(R0, st.rows, st.ops, c.write_xid)
           /\ Good(st.rows, act, tx, s, st.queue, st.ok)
<1>1. st \in StateIn(M) /\ Wr(R0, st.rows, st.ops, c.write_xid)
      /\ Good(st.rows, act, tx, s, st.queue, st.ok)
    BY DEF Running
<1>2. st.rows \in Seq(RowIn(M)) /\ st.queue \in Seq(PendingFk) /\ st.ops \in Seq(OpIn(M))
    BY <1>1 DEF StateIn
<1> QED  BY <1>1, <1>2

LEMMA RunFail ==
    ASSUME NEW M, NEW R0, NEW act, NEW tx, NEW s, NEW c, NEW st,
           Running(M, R0, act, tx, s, c, st)
    PROVE  /\ Running(M, R0, act, tx, s, c, Fail(st)) /\ ~Fail(st).ok
           /\ Longer(st.queue, Fail(st).queue)
<1> DEFINE y == Fail(st)
<1>1. st \in StateIn(M) /\ Len(st.queue) \in Nat
    BY RunningIs
<1>2. y \in StateIn(M) /\ ~y.ok /\ y.rows = st.rows /\ y.ops = st.ops /\ y.queue = st.queue
    BY <1>1, FailIn DEF Sound
<1> HIDE DEF y
<1>3. Running(M, R0, act, tx, s, c, y)
    BY <1>2 DEF Running, Good
<1>4. Longer(st.queue, y.queue)
    BY <1>1, <1>2 DEF Longer
<1> QED  BY <1>2, <1>3, <1>4 DEF y

(* The transaction sees a parent with the key, or will look for one. *)
Answered(R, act, t, q, key) ==
    \/ \E p \in 1 .. Len(R) : R[p].table = "parent" /\ R[p].key = key /\ Vis(R[p], act, Held(t))
    \/ \E i \in 1 .. Len(q) : q[i].side # "parent" /\ q[i].key = key

(* What an insert or an update of a child does first. *)
LEMMA RunCheck ==
    ASSUME NEW M \in Nat, NEW R0, NEW act, NEW tx, NEW s, NEW c,
           Scene(M, act, tx, s, c.write_xid), Under(c, M, act, tx[s]),
           NEW st, Running(M, R0, act, tx, s, c, st), NEW key \in Keys
    PROVE  LET y == check_fk_child_row(st, c, key) IN
           /\ Running(M, R0, act, tx, s, c, y) /\ y.rows = st.rows
           /\ Longer(st.queue, y.queue)
           /\ y.ok => Answered(st.rows, act, tx[s], y.queue, key)
<1> DEFINE y == check_fk_child_row(st, c, key)
           e == Pending("child", key, 0)
           t == tx[s]
<1>1. /\ st \in StateIn(M) /\ st.rows \in Seq(RowIn(M)) /\ st.queue \in Seq(PendingFk)
      /\ Len(st.queue) \in Nat
      /\ Wr(R0, st.rows, st.ops, c.write_xid)
      /\ Good(st.rows, act, tx, s, st.queue, st.ok)
    BY RunningIs
<1>2. e \in PendingFk /\ e.side = "child" /\ e.side # "parent" /\ e.key = key
    BY DEF PendingFk, Pending
<1>0. key # Null
    BY ForeignKeysAssumption DEF Null
<1>3. CASE y = Enqueue(st, e)
  <2> DEFINE q == st.queue
             q2 == Append(q, e)
  <2> HIDE DEF e, y
  <2>1. Longer(q, q2) /\ Len(q) \in Nat /\ Len(q2) = Len(q) + 1 /\ q2[Len(q) + 1] = e
        /\ q2 \in Seq(PendingFk)
      BY <1>1, <1>2, LongerAppend
  <2>2. y \in StateIn(M) /\ y.rows = st.rows /\ y.ops = st.ops /\ y.ok = st.ok /\ y.queue = q2
    <3>1. y = [st EXCEPT !.queue = q2]
        BY <1>3 DEF Enqueue
    <3> HIDE DEF q2, q
    <3> QED  BY <1>1, <2>1, <3>1 DEF StateIn
  <2>3. Good(st.rows, act, tx, s, q2, st.ok)
      BY <1>1, <1>2, GoodMore
  <2> HIDE DEF q2
  <2>4. Running(M, R0, act, tx, s, c, y)
      BY <1>1, <2>2, <2>3 DEF Running
  <2>5. Len(q) + 1 \in 1 .. Len(q2)
      BY <2>1
  <2>6. \E i \in 1 .. Len(y.queue) : y.queue[i].side # "parent" /\ y.queue[i].key = key
      BY <1>2, <2>1, <2>2, <2>5
  <2> QED  BY <2>1, <2>2, <2>4, <2>6 DEF y, Answered
<1>4. CASE y = st /\ fk_parent_key_exists(st, c, key)
  <2>1. TopOnly(st.rows, t) /\ t.xid # 0
      BY <1>1 DEF Good, Scene
  <2>2. \A p \in 1 .. Len(st.rows) : st.rows[p].table = "parent" => st.rows[p].xmax \notin t.owned_xids
      BY <2>1 DEF TopOnly
  <2>3. \E p \in 1 .. Len(st.rows) : st.rows[p].table = "parent" /\ st.rows[p].key = key
                                     /\ Vis(st.rows[p], act, Held(t))
    <3>1. Under(c, M, act, t)
        OBVIOUS
    <3> HIDE DEF t, y
    <3> QED  BY <1>1, <1>4, <2>1, <2>2, <3>1, ParentSeen
  <2>4. Longer(st.queue, st.queue)
      BY <1>1 DEF Longer
  <2> HIDE DEF y
  <2>5. y = st
      BY <1>4
  <2>6. Answered(st.rows, act, t, y.queue, key)
      BY <2>3 DEF Answered
  <2> QED  BY <2>4, <2>5, <2>6 DEF y
<1>5. CASE y = Fail(st)
  <2>1. Fail(st).rows = st.rows
      BY <1>1, FailIn
  <2> HIDE DEF y
  <2>2. y = Fail(st)
      BY <1>5
  <2>3. /\ Running(M, R0, act, tx, s, c, y) /\ ~y.ok /\ Longer(st.queue, y.queue) /\ y.rows = st.rows
      BY <2>1, <2>2, RunFail
  <2> QED  BY <2>3 DEF y
<1> QED  BY <1>0, <1>3, <1>4, <1>5 DEF check_fk_child_row, queue_child_fk, Enqueue

LEMMA WriteXid ==
    ASSUME NEW M, NEW act, NEW tx, NEW s, NEW c, Scene(M, act, tx, s, c.write_xid)
    PROVE  c.write_xid \in 1 .. M - 1
    BY DEF Scene

LEMMA RunInsertChild ==
    ASSUME NEW M \in Nat, NEW R0 \in Seq(RowIn(M)), NEW act, NEW tx, NEW s, NEW c,
           Scene(M, act, tx, s, c.write_xid),
           NEW st, Running(M, R0, act, tx, s, c, st), NEW key \in Keys,
           NoRival(st.rows, tx, s, key),
           Answered(st.rows, act, tx[s], st.queue, key)
    PROVE  LET y == Insert(st, c, "child", key) IN
           Running(M, R0, act, tx, s, c, y) /\ y.queue = st.queue
<1> DEFINE y == Insert(st, c, "child", key)
           w == c.write_xid
           R == st.rows
           S == y.rows
           q == st.queue
<1>1. /\ st \in StateIn(M) /\ R \in Seq(RowIn(M)) /\ Len(q) \in Nat
      /\ Wr(R0, st.rows, st.ops, w) /\ Good(R, act, tx, s, q, st.ok)
    BY RunningIs
<1>2. w \in 1 .. M - 1
    BY WriteXid
<1>3. Sound(st, y, M) /\ Same(st, y) /\ Added(st.rows, y.rows, "child", key, w) /\ Wr(R0, y.rows, y.ops, w)
    BY <1>1, <1>2, InsertDoes
<1>4. y \in StateIn(M) /\ S \in Seq(RowIn(M)) /\ y.ok = st.ok /\ y.queue = q
    BY <1>3 DEF Sound, Same, StateIn
<1>5. \/ \E p \in 1 .. Len(R) : R[p].table = "parent" /\ R[p].key = key /\ Vis(R[p], act, Held(tx[s]))
      \/ \E i \in 1 .. Len(q) : q[i].side # "parent" /\ q[i].key = key
    BY DEF Answered
<1>6. Scene(M, act, tx, s, w) /\ NoRival(R, tx, s, key) /\ Added(R, S, "child", key, w)
    BY <1>3
<1> HIDE DEF y, w, R, S, q
<1>7. Good(S, act, tx, s, q, st.ok)
    BY <1>1, <1>4, <1>5, <1>6, GoodAddChild
<1>8. Running(M, R0, act, tx, s, c, y)
    BY <1>3, <1>4, <1>7 DEF Running, S, w
<1> QED  BY <1>4, <1>8 DEF y, q

WritableChild(R, act, tx, s, id) ==
    /\ id \in 1 .. Len(R) /\ R[id].table = "child" /\ R[id].xmax = 0
    /\ Mine(R[id], act, tx[s]) /\ Unrivalled(R, tx, s)
    /\ \/ tx[s].owned_xids = {}
       \/ \A p \in 1 .. Len(R) : R[p].table = "parent" => R[p].xmax # tx[s].xid

LEMMA RunDeleteChild ==
    ASSUME NEW M \in Nat, NEW R0 \in Seq(RowIn(M)), NEW act, NEW tx, NEW s, NEW c,
           Scene(M, act, tx, s, c.write_xid),
           NEW st, Running(M, R0, act, tx, s, c, st),
           NEW id, WritableChild(st.rows, act, tx, s, id)
    PROVE  LET y == Delete(st, c, id) IN
           Running(M, R0, act, tx, s, c, y) /\ y.queue = st.queue
<1> DEFINE y == Delete(st, c, id)
           w == c.write_xid
           R == st.rows
           S == y.rows
           q == st.queue
<1>0. /\ id \in 1 .. Len(R) /\ R[id].table = "child" /\ R[id].xmax = 0
      /\ Mine(R[id], act, tx[s]) /\ Unrivalled(R, tx, s)
      /\ \/ tx[s].owned_xids = {}
         \/ \A p \in 1 .. Len(R) : R[p].table = "parent" => R[p].xmax # tx[s].xid
    BY DEF WritableChild
<1>1. /\ st \in StateIn(M) /\ R \in Seq(RowIn(M)) /\ Len(q) \in Nat
      /\ Wr(R0, st.rows, st.ops, w) /\ Good(R, act, tx, s, q, st.ok)
    BY RunningIs
<1>2. w \in 1 .. M - 1
    BY WriteXid
<1>3. Sound(st, y, M) /\ Same(st, y) /\ Stamped(st.rows, y.rows, id, w) /\ Wr(R0, y.rows, y.ops, w)
    BY <1>0, <1>1, <1>2, DeleteDoes
<1>4. y \in StateIn(M) /\ S \in Seq(RowIn(M)) /\ y.ok = st.ok /\ y.queue = q
    BY <1>3 DEF Sound, Same, StateIn
<1>5. \/ tx[s].owned_xids = {}
      \/ \A p \in 1 .. Len(R) : R[p].table = "parent" => R[p].xmax # tx[s].xid
    BY <1>0
<1>6. Scene(M, act, tx, s, w) /\ Unrivalled(R, tx, s) /\ Stamped(R, S, id, w)
      /\ R[id].table = "child" /\ Mine(R[id], act, tx[s]) /\ id \in 1 .. Len(R)
    BY <1>0, <1>3
<1> HIDE DEF y, w, R, S, q
<1>b. NoRival(R, tx, s, R[id].key)
  <2>1. KeysUnique(R, act)
      BY <1>1 DEF Good, Fine
  <2> QED  BY <1>1, <1>6, <2>1, Rivals
<1>7. Good(S, act, tx, s, q, st.ok)
    BY <1>1, <1>4, <1>5, <1>6, <1>b, GoodStampChild
<1>8. Running(M, R0, act, tx, s, c, y)
    BY <1>3, <1>4, <1>7 DEF Running, S, w
<1> QED  BY <1>4, <1>8 DEF y, q

LEMMA RunUpdateChild ==
    ASSUME NEW M \in Nat, NEW R0 \in Seq(RowIn(M)), NEW act, NEW tx, NEW s, NEW c,
           Scene(M, act, tx, s, c.write_xid),
           NEW st, Running(M, R0, act, tx, s, c, st), NEW key \in Keys,
           NEW id, WritableChild(st.rows, act, tx, s, id),
           Answered(st.rows, act, tx[s], st.queue, key)
    PROVE  LET y == Update(st, c, id, key) IN
           Running(M, R0, act, tx, s, c, y) /\ y.queue = st.queue
<1> DEFINE y == Update(st, c, id, key)
           w == c.write_xid
           R == st.rows
           V == StampedRows(R, id, w)
           S == y.rows
           q == st.queue
<1>0. /\ id \in 1 .. Len(R) /\ R[id].table = "child" /\ R[id].xmax = 0
      /\ Mine(R[id], act, tx[s]) /\ Unrivalled(R, tx, s)
      /\ \/ tx[s].owned_xids = {}
         \/ \A p \in 1 .. Len(R) : R[p].table = "parent" => R[p].xmax # tx[s].xid
    BY DEF WritableChild
<1>1. /\ st \in StateIn(M) /\ R \in Seq(RowIn(M)) /\ Len(q) \in Nat
      /\ Wr(R0, st.rows, st.ops, w) /\ Good(R, act, tx, s, q, st.ok)
    BY RunningIs
<1>2. w \in 1 .. M - 1
    BY WriteXid
<1>3. /\ Sound(st, y, M) /\ Same(st, y) /\ V \in Seq(RowIn(M)) /\ Stamped(R, V, id, w)
      /\ Added(V, S, "child", key, w) /\ Wr(R0, S, y.ops, w)
  <2>1. key \in Keys \cup {Null} /\ st.rows[id].table # "none" /\ st.rows[id].table # "parent"
      BY <1>0
  <2> QED  BY <1>0, <1>1, <1>2, <2>1, UpdateDoes
<1>4. y \in StateIn(M) /\ S \in Seq(RowIn(M)) /\ y.ok = st.ok /\ y.queue = q
    BY <1>3 DEF Sound, Same, StateIn
<1>5. \/ tx[s].owned_xids = {}
      \/ \A p \in 1 .. Len(R) : R[p].table = "parent" => R[p].xmax # tx[s].xid
    BY <1>0
<1>a. \/ \E p \in 1 .. Len(R) : R[p].table = "parent" /\ R[p].key = key /\ Vis(R[p], act, Held(tx[s]))
      \/ \E i \in 1 .. Len(q) : q[i].side # "parent" /\ q[i].key = key
    BY DEF Answered
<1>6. Scene(M, act, tx, s, w) /\ Unrivalled(R, tx, s) /\ id \in 1 .. Len(R)
      /\ R[id].table = "child" /\ Mine(R[id], act, tx[s])
    BY <1>0
<1> HIDE DEF y, w, R, S, q, V
<1>b. NoRival(R, tx, s, R[id].key) /\ NoRival(R, tx, s, key)
  <2>1. KeysUnique(R, act)
      BY <1>1 DEF Good, Fine
  <2> QED  BY <1>1, <1>6, <2>1, Rivals
<1>7. Good(V, act, tx, s, q, st.ok)
    BY <1>1, <1>3, <1>5, <1>6, <1>b, GoodStampChild
<1>c. /\ Len(V) = Len(R)
      /\ \A p \in 1 .. Len(R) : R[p].table = "parent" => V[p] = R[p]
      /\ \A p \in 1 .. Len(R) : V[p].table = "parent" => V[p] = R[p]
    BY <1>3, <1>6 DEF Stamped
<1>d. NoRival(V, tx, s, key)
    BY <1>b, <1>c DEF NoRival
<1>e. \/ \E p \in 1 .. Len(V) : V[p].table = "parent" /\ V[p].key = key /\ Vis(V[p], act, Held(tx[s]))
      \/ \E i \in 1 .. Len(q) : q[i].side # "parent" /\ q[i].key = key
    BY <1>a, <1>c
<1>f. Good(S, act, tx, s, q, st.ok)
    BY <1>1, <1>3, <1>4, <1>6, <1>7, <1>d, <1>e, GoodAddChild
<1>8. Running(M, R0, act, tx, s, c, y)
    BY <1>3, <1>4, <1>f DEF Running, S, w
<1> QED  BY <1>4, <1>8 DEF y, q

LEMMA RunInsertParent ==
    ASSUME NEW M \in Nat, NEW R0 \in Seq(RowIn(M)), NEW act, NEW tx, NEW s, NEW c,
           Scene(M, act, tx, s, c.write_xid),
           NEW st, Running(M, R0, act, tx, s, c, st), NEW key \in Keys,
           tx[s].owned_xids = {}, Free(st.rows, act, key)
    PROVE  LET y == Insert(st, c, "parent", key) IN
           Running(M, R0, act, tx, s, c, y) /\ y.queue = st.queue
<1> DEFINE y == Insert(st, c, "parent", key)
           w == c.write_xid
           R == st.rows
           S == y.rows
           q == st.queue
<1>1. /\ st \in StateIn(M) /\ R \in Seq(RowIn(M)) /\ Len(q) \in Nat
      /\ Wr(R0, st.rows, st.ops, w) /\ Good(R, act, tx, s, q, st.ok)
    BY RunningIs
<1>2. w \in 1 .. M - 1
    BY WriteXid
<1>3. Sound(st, y, M) /\ Same(st, y) /\ Added(st.rows, y.rows, "parent", key, w) /\ Wr(R0, y.rows, y.ops, w)
    BY <1>1, <1>2, InsertDoes
<1>4. y \in StateIn(M) /\ S \in Seq(RowIn(M)) /\ y.ok = st.ok /\ y.queue = q
    BY <1>3 DEF Sound, Same, StateIn
<1>6. Scene(M, act, tx, s, w) /\ Free(R, act, key) /\ Added(R, S, "parent", key, w)
    BY <1>3
<1> HIDE DEF y, w, R, S, q
<1>5. \A p \in 1 .. Len(R) : R[p].table = "parent" /\ R[p].key = key => ~Live(R[p], act)
    BY <1>6 DEF Free
<1>7. Good(S, act, tx, s, q, st.ok)
    BY <1>1, <1>4, <1>5, <1>6, GoodAddParent
<1>8. Running(M, R0, act, tx, s, c, y)
    BY <1>3, <1>4, <1>7 DEF Running, S, w
<1> QED  BY <1>4, <1>8 DEF y, q

LEMMA EnqueueIs ==
    ASSUME NEW M, NEW st \in StateIn(M), NEW e \in PendingFk
    PROVE  LET x == Enqueue(st, e) IN
           /\ x \in StateIn(M) /\ x.rows = st.rows /\ x.ops = st.ops /\ x.ok = st.ok
           /\ x.queue = Append(st.queue, e) /\ Longer(st.queue, x.queue)
<1> DEFINE x == Enqueue(st, e)
           q2 == Append(st.queue, e)
<1>1. st.queue \in Seq(PendingFk)
    BY DEF StateIn
<1>2. q2 \in Seq(PendingFk) /\ Longer(st.queue, q2)
    BY <1>1, LongerAppend
<1>3. x = [st EXCEPT !.queue = q2]
    BY DEF Enqueue
<1> HIDE DEF x, q2
<1>4. x \in StateIn(M) /\ x.rows = st.rows /\ x.ops = st.ops /\ x.ok = st.ok /\ x.queue = q2
    BY <1>2, <1>3 DEF StateIn
<1> QED  BY <1>2, <1>4 DEF x, q2

(* The parent row id, whose key is removed. *)
Removable(R, act, tx, s, id) ==
    /\ id \in 1 .. Len(R) /\ R[id].table = "parent" /\ R[id].xmax = 0
    /\ Mine(R[id], act, tx[s]) /\ Alone(R, tx, s) /\ tx[s].owned_xids = {}

LEMMA RunPostponeDelete ==
    ASSUME NEW M \in Nat, NEW R0 \in Seq(RowIn(M)), NEW act, NEW tx, NEW s, NEW c,
           Scene(M, act, tx, s, c.write_xid),
           NEW st, Running(M, R0, act, tx, s, c, st), NEW id, Removable(st.rows, act, tx, s, id)
    PROVE  LET x == queue_parent_fk(st, id, st.rows[id].key)
               y == Delete(x, c, id)
           IN  Running(M, R0, act, tx, s, c, y) /\ Longer(st.queue, y.queue)
<1> DEFINE R == st.rows
           q == st.queue
           e == Pending("parent", R[id].key, id)
           x == Enqueue(st, e)
           y == Delete(x, c, id)
           w == c.write_xid
           S == y.rows
           q2 == Append(q, e)
<1>1. /\ st \in StateIn(M) /\ R \in Seq(RowIn(M)) /\ q \in Seq(PendingFk) /\ Len(q) \in Nat
      /\ Wr(R0, R, st.ops, w) /\ Good(R, act, tx, s, q, st.ok)
    BY RunningIs
<1>2. w \in 1 .. M - 1
    BY WriteXid
<1>3. id \in 1 .. Len(R) /\ R[id].table = "parent" /\ R[id].xmax = 0 /\ Mine(R[id], act, tx[s])
      /\ Alone(R, tx, s) /\ tx[s].owned_xids = {}
    BY DEF Removable
<1>4. e \in PendingFk /\ e.side = "parent" /\ e.key = R[id].key /\ e.row = id
  <2>1. R[id] \in RowIn(M)
      BY <1>1, <1>3
  <2>2. R[id].key \in Keys /\ id \in Nat
      BY <1>3, <2>1 DEF RowIn
  <2> HIDE DEF R
  <2> QED  BY <2>2 DEF PendingFk, Pending
<1> HIDE DEF e
<1>5. /\ x \in StateIn(M) /\ x.rows = R /\ x.ops = st.ops /\ x.ok = st.ok /\ x.queue = q2
      /\ Longer(q, q2)
  <2> DEFINE xx == x
  <2>1. /\ x \in StateIn(M) /\ x.rows = st.rows /\ x.ops = st.ops /\ x.ok = st.ok
        /\ x.queue = Append(st.queue, e) /\ Longer(st.queue, x.queue)
      BY <1>1, <1>4, EnqueueIs
  <2> QED  BY <2>1
<1> HIDE DEF x
<1>6. Sound(x, y, M) /\ Same(x, y) /\ Stamped(x.rows, y.rows, id, w) /\ Wr(R0, y.rows, y.ops, w)
    BY <1>1, <1>2, <1>3, <1>5, DeleteDoes
<1>7. y \in StateIn(M) /\ S \in Seq(RowIn(M)) /\ y.ok = st.ok /\ y.queue = q2 /\ Stamped(R, S, id, w)
    BY <1>5, <1>6 DEF Sound, Same, StateIn
<1>8. Scene(M, act, tx, s, w)
    OBVIOUS
<1> HIDE DEF y, w, R, S, q
<1>9. NoKin(R, tx, s, R[id].key)
  <2>1. KeysUnique(R, act)
      BY <1>1 DEF Good, Fine
  <2> QED  BY <1>1, <1>3, <1>8, <2>1, Rivals
<1>10. Good(S, act, tx, s, q2, st.ok)
    BY <1>1, <1>3, <1>4, <1>7, <1>8, <1>9, GoodPostpone
<1>11. Running(M, R0, act, tx, s, c, y)
  <2> HIDE DEF q2
  <2> QED  BY <1>6, <1>7, <1>10 DEF Running, S, w
<1>12. Longer(q, y.queue)
    BY <1>5, <1>7
<1> QED  BY <1>11, <1>12 DEF y, q, x, e, R, queue_parent_fk, Enqueue

LEMMA FreeStamped ==
    ASSUME NEW N, NEW R \in Seq(RowIn(N)), NEW S \in Seq(RowIn(N)), NEW id, NEW w, Stamped(R, S, id, w),
           NEW act, NEW key, key # R[id].key, Free(R, act, key)
    PROVE  Free(S, act, key)
<1>1. Len(S) = Len(R)
    BY DEF Stamped
<1>2. ASSUME NEW p \in 1 .. Len(S), S[p].table = "parent", S[p].key = key
      PROVE  ~Live(S[p], act)
  <2>1. p # id
      BY <1>2 DEF Stamped
  <2>2. S[p] = R[p] /\ p \in 1 .. Len(R)
      BY <1>1, <2>1 DEF Stamped
  <2> QED  BY <1>2, <2>2 DEF Free
<1> QED  BY <1>2 DEF Free

LEMMA RunPostponeUpdate ==
    ASSUME NEW M \in Nat, NEW R0 \in Seq(RowIn(M)), NEW act, NEW tx, NEW s, NEW c,
           Scene(M, act, tx, s, c.write_xid),
           NEW st, Running(M, R0, act, tx, s, c, st), NEW id, Removable(st.rows, act, tx, s, id),
           NEW key \in Keys, key # st.rows[id].key, Free(st.rows, act, key)
    PROVE  LET x == queue_parent_fk(st, id, st.rows[id].key)
               y == Update(x, c, id, key)
           IN  Running(M, R0, act, tx, s, c, y) /\ Longer(st.queue, y.queue)
<1> DEFINE R == st.rows
           q == st.queue
           e == Pending("parent", R[id].key, id)
           x == Enqueue(st, e)
           y == Update(x, c, id, key)
           w == c.write_xid
           V == StampedRows(R, id, w)
           S == y.rows
           q2 == Append(q, e)
<1>1. /\ st \in StateIn(M) /\ R \in Seq(RowIn(M)) /\ q \in Seq(PendingFk) /\ Len(q) \in Nat
      /\ Wr(R0, R, st.ops, w) /\ Good(R, act, tx, s, q, st.ok)
    BY RunningIs
<1>2. w \in 1 .. M - 1
    BY WriteXid
<1>3. id \in 1 .. Len(R) /\ R[id].table = "parent" /\ R[id].xmax = 0 /\ Mine(R[id], act, tx[s])
      /\ Alone(R, tx, s) /\ tx[s].owned_xids = {}
    BY DEF Removable
<1>4. e \in PendingFk /\ e.side = "parent" /\ e.key = R[id].key /\ e.row = id
  <2>1. R[id] \in RowIn(M)
      BY <1>1, <1>3
  <2>2. R[id].key \in Keys /\ id \in Nat
      BY <1>3, <2>1 DEF RowIn
  <2> HIDE DEF R
  <2> QED  BY <2>2 DEF PendingFk, Pending
<1> HIDE DEF e
<1>5. /\ x \in StateIn(M) /\ x.rows = R /\ x.ops = st.ops /\ x.ok = st.ok /\ x.queue = q2
      /\ Longer(q, q2)
  <2>1. /\ x \in StateIn(M) /\ x.rows = st.rows /\ x.ops = st.ops /\ x.ok = st.ok
        /\ x.queue = Append(st.queue, e) /\ Longer(st.queue, x.queue)
      BY <1>1, <1>4, EnqueueIs
  <2> QED  BY <2>1
<1> HIDE DEF x
<1>6. LET V2 == StampedRows(x.rows, id, w) IN
      /\ Sound(x, y, M) /\ Same(x, y)
      /\ V2 \in Seq(RowIn(M)) /\ Stamped(x.rows, V2, id, w)
      /\ Added(V2, y.rows, x.rows[id].table, key, w) /\ Wr(R0, y.rows, y.ops, w)
  <2>1. key \in Keys \cup {Null} /\ x.rows[id].table # "none" /\ id \in 1 .. Len(x.rows)
        /\ x.rows[id].xmax = 0 /\ Wr(R0, x.rows, x.ops, w)
      BY <1>1, <1>3, <1>5
  <2> QED  BY <1>1, <1>2, <1>5, <2>1, UpdateDoes
<1>7. /\ y \in StateIn(M) /\ S \in Seq(RowIn(M)) /\ y.ok = st.ok /\ y.queue = q2
      /\ V \in Seq(RowIn(M)) /\ Stamped(R, V, id, w) /\ Added(V, S, "parent", key, w)
    BY <1>3, <1>5, <1>6 DEF Sound, Same, StateIn
<1>8. Scene(M, act, tx, s, w) /\ Free(R, act, key) /\ key # R[id].key
    OBVIOUS
<1> HIDE DEF y, w, R, S, q, V
<1>9. NoKin(R, tx, s, R[id].key)
  <2>1. KeysUnique(R, act)
      BY <1>1 DEF Good, Fine
  <2> QED  BY <1>1, <1>3, <1>8, <2>1, Rivals
<1>10. Good(V, act, tx, s, q2, st.ok)
    BY <1>1, <1>3, <1>4, <1>7, <1>8, <1>9, GoodPostpone
<1> HIDE DEF q2
<1>11. Free(V, act, key)
    BY <1>1, <1>7, <1>8, FreeStamped
<1>12. \A p \in 1 .. Len(V) : V[p].table = "parent" /\ V[p].key = key => ~Live(V[p], act)
    BY <1>11 DEF Free
<1>13. Good(S, act, tx, s, q2, st.ok)
    BY <1>3, <1>7, <1>8, <1>10, <1>12, GoodAddParent
<1>14. Wr(R0, S, y.ops, c.write_xid)
    BY <1>6 DEF S, w
<1>15. Running(M, R0, act, tx, s, c, y)
    BY <1>7, <1>13, <1>14 DEF Running, S
<1>16. Longer(q, y.queue)
    BY <1>5, <1>7
<1> QED  BY <1>15, <1>16 DEF y, q, x, e, R, queue_parent_fk, Enqueue

(* The children a cascade finds are nobody else's. *)
LEMMA RefsFree ==
    ASSUME NEW M \in Nat, NEW st \in StateIn(M), NEW act, NEW tx, NEW s, NEW c,
           Scene(M, act, tx, s, c.write_xid), Under(c, M, act, tx[s]),
           Alone(st.rows, tx, s), tx[s].owned_xids = {}, NEW key
    PROVE  \A id \in OwnRows(st, c, "child", key) :
              /\ id \in 1 .. Len(st.rows) /\ st.rows[id].table = "child" /\ st.rows[id].key = key
              /\ st.rows[id].xmax = 0 /\ Mine(st.rows[id], act, tx[s])
<1> DEFINE t == tx[s]
           R == st.rows
<1>1. /\ Owned(act, tx) /\ s \in Sessions /\ Held(t) = {t.xid} /\ t.xid # 0
  <2>1. Owned(act, tx) /\ s \in Sessions /\ t.xid # 0
      BY DEF Scene
  <2>2. Held(t) = {t.xid} \cup t.owned_xids
      BY <2>1, HeldIs
  <2> QED  BY <2>1, <2>2
<1>2. ASSUME NEW id \in OwnRows(st, c, "child", key)
      PROVE  /\ id \in 1 .. Len(R) /\ R[id].table = "child" /\ R[id].key = key
             /\ R[id].xmax = 0 /\ Mine(R[id], act, t)
  <2>1. /\ id \in 1 .. Len(R) /\ R[id].table = "child" /\ R[id].key = key
        /\ Vis(R[id], act, {t.xid})
      BY OwnRowsVis
  <2> HIDE DEF R, t
  <2>2. Mine(R[id], act, t)
      BY <1>1, <2>1 DEF Vis, Mine
  <2>3. ASSUME R[id].xmax # 0 PROVE FALSE
    <3>1. R[id].xmax \in act /\ R[id].xmax # t.xid
        BY <2>1, <2>3 DEF Vis
    <3>2. PICK o \in Sessions : R[id].xmax \in Held(tx[o])
        BY <1>1, <3>1 DEF Owned
    <3>3. o # s
        BY <1>1, <3>1, <3>2 DEF t
    <3> QED  BY <2>1, <3>2, <3>3 DEF Alone, R
  <2> QED  BY <2>1, <2>2, <2>3
<1> QED  BY <1>2

(* No child that t sees carries the key. *)
Unreferenced(R, act, t, key) ==
    \A c \in 1 .. Len(R) : R[c].table = "child" /\ R[c].key = key => ~Vis(R[c], act, Held(t))

LEMMA ActedUnreferenced ==
    ASSUME NEW M \in Nat, NEW st \in StateIn(M), NEW act, NEW tx, NEW s, NEW c,
           Scene(M, act, tx, s, c.write_xid), Under(c, M, act, tx[s]), tx[s].owned_xids = {},
           NEW key, NEW nk, key \notin nk, NEW S \in Seq(RowIn(M)),
           Acted(st.rows, S, OwnRows(st, c, "child", key), c.write_xid, nk)
    PROVE  Unreferenced(S, act, tx[s], key)
<1> DEFINE t == tx[s]
           R == st.rows
           w == c.write_xid
           Y == Held(t)
           refs == OwnRows(st, c, "child", key)
<1>1. w \in Y /\ 0 \notin Y /\ Y = {t.xid}
  <2>1. w \in Y /\ 0 \notin Y /\ Y = {t.xid} \cup t.owned_xids
      BY SceneFacts
  <2> QED  BY <2>1
<1>2. \A id : id \in refs <=>
              /\ id \in 1 .. Len(R) /\ R[id].table = "child" /\ R[id].key = key
              /\ Vis(R[id], act, {t.xid})
    BY OwnRowsVis
<1>3. R \in Seq(RowIn(M)) /\ Acted(R, S, refs, w, nk)
    BY DEF StateIn
<1> HIDE DEF R, refs, w, Y
<1>4. \A id \in 1 .. Len(S) :
          S[id].key \notin nk /\ Vis(S[id], act, Y) => id \in 1 .. Len(R) /\ id \notin refs
  <2>1. R \in Seq(RowIn(M)) /\ S \in Seq(RowIn(M)) /\ Acted(R, S, refs, w, nk) /\ w \in Y /\ 0 \notin Y
      BY <1>1, <1>3
  <2> QED  BY <2>1, ActedGone
<1>5. ASSUME NEW id \in 1 .. Len(S), S[id].table = "child", S[id].key = key, Vis(S[id], act, Y)
      PROVE  FALSE
  <2>1. id \in 1 .. Len(R) /\ id \notin refs
      BY <1>4, <1>5
  <2>2. S[id] = R[id]
      BY <1>3, <2>1 DEF Acted
  <2> QED  BY <1>1, <1>2, <1>5, <2>1, <2>2
<1> QED  BY <1>5 DEF Unreferenced, Y

LEMMA FreeActed ==
    ASSUME NEW N, NEW R \in Seq(RowIn(N)), NEW S \in Seq(RowIn(N)), NEW refs, NEW w, NEW nk,
           Acted(R, S, refs, w, nk), OnChildren(R, refs), NEW act, NEW key, Free(R, act, key)
    PROVE  Free(S, act, key)
<1>1. ASSUME NEW p \in 1 .. Len(S), S[p].table = "parent", S[p].key = key
      PROVE  ~Live(S[p], act)
  <2>1. p \in 1 .. Len(R) /\ S[p] = R[p]
      BY <1>1, ActedRows DEF OnChildren
  <2> QED  BY <1>1, <2>1 DEF Free
<1> QED  BY <1>1 DEF Free

LEMMA RemovableActed ==
    ASSUME NEW N, NEW R \in Seq(RowIn(N)), NEW S \in Seq(RowIn(N)), NEW refs, NEW nk,
           NEW act, NEW tx, NEW s, NEW w, Scene(N, act, tx, s, w),
           Acted(R, S, refs, w, nk), OnChildren(R, refs), NEW id, Removable(R, act, tx, s, id)
    PROVE  Removable(S, act, tx, s, id) /\ S[id] = R[id]
<1>1. id \in 1 .. Len(R) /\ R[id].table = "parent" /\ Alone(R, tx, s)
    BY DEF Removable
<1>2. id \notin refs /\ Len(R) \in Nat /\ Len(S) \in Nat /\ Len(R) <= Len(S)
    BY <1>1 DEF OnChildren, Acted
<1>3. S[id] = R[id] /\ id \in 1 .. Len(S)
    BY <1>1, <1>2 DEF Acted
<1>4. Alone(S, tx, s)
    BY <1>1, AloneActed
<1> QED  BY <1>3, <1>4 DEF Removable

NewOnes(R, act, nk, q) ==
    \A k \in nk : k = Null \/
        (Free(R, act, k) /\ \E i \in 1 .. Len(q) : q[i].side # "parent" /\ q[i].key = k)

LEMMA NoNewOnes ==
    ASSUME NEW R, NEW act, NEW nk, NEW q, \A k \in nk : k = Null
    PROVE  NewOnes(R, act, nk, q)
    BY Zenon DEF NewOnes

(* An immediate cascade has run from st to x. *)
Cascaded(M, R0, act, tx, s, c, st, id, q2, x) ==
    /\ x \in StateIn(M) /\ Same(st, x) /\ Wr(R0, x.rows, x.ops, c.write_xid)
    /\ Good(x.rows, act, tx, s, q2, st.ok)
    /\ Removable(x.rows, act, tx, s, id) /\ x.rows[id] = st.rows[id]
    /\ Unreferenced(x.rows, act, tx[s], st.rows[id].key)
    /\ \A k : Free(st.rows, act, k) => Free(x.rows, act, k)

LEMMA RunCascade ==
    ASSUME NEW M \in Nat, NEW R0 \in Seq(RowIn(M)), NEW act, NEW tx, NEW s, NEW c,
           Scene(M, act, tx, s, c.write_xid), Under(c, M, act, tx[s]),
           NEW st, Running(M, R0, act, tx, s, c, st), NEW id, Removable(st.rows, act, tx, s, id),
           NEW new \in NewKeys, st.rows[id].key \notin NewKeysOf(new),
           NEW q2, Good(st.rows, act, tx, s, q2, st.ok),
           NewOnes(st.rows, act, NewKeysOf(new), q2)
    PROVE  LET x == Cascade(st, c, st.rows[id].key, new) IN
           x = Fail(st) \/ Cascaded(M, R0, act, tx, s, c, st, id, q2, x)
<1> DEFINE R == st.rows
           key == R[id].key
           x == Cascade(st, c, key, new)
           S == x.rows
           w == c.write_xid
           nk == NewKeysOf(new)
           refs == OwnRows(st, c, "child", key)
<1>1. /\ st \in StateIn(M) /\ R \in Seq(RowIn(M)) /\ Wr(R0, R, st.ops, w)
    BY RunningIs
<1>2. w \in 1 .. M - 1 /\ Scene(M, act, tx, s, w)
    BY WriteXid
<1>3. /\ id \in 1 .. Len(R) /\ R[id].table = "parent" /\ R[id].xmax = 0
      /\ Alone(R, tx, s) /\ tx[s].owned_xids = {}
    BY DEF Removable
<1>4. \A j \in refs :
          /\ j \in 1 .. Len(R) /\ R[j].table = "child" /\ R[j].key = key
          /\ R[j].xmax = 0 /\ Mine(R[j], act, tx[s])
    BY ZenonT(40), <1>1, <1>3, RefsFree
<1>5. \/ x = Fail(st)
      \/ Sound(st, x, M) /\ Same(st, x) /\ Wr(R0, S, x.ops, w) /\ Acted(R, S, refs, w, nk)
    BY <1>1, <1>2, <1>4, CascadeDoes
<1>6. CASE Sound(st, x, M) /\ Same(st, x) /\ Wr(R0, S, x.ops, w) /\ Acted(R, S, refs, w, nk)
  <2>1. x \in StateIn(M) /\ S \in Seq(RowIn(M))
      BY <1>6 DEF Sound, StateIn
  <2>2. key \notin nk
      OBVIOUS
  <2>3. Unreferenced(S, act, tx[s], key)
      BY <1>1, <1>2, <1>3, <1>6, <2>1, <2>2, ActedUnreferenced
  <2>4. Good(R, act, tx, s, q2, st.ok) /\ NewOnes(R, act, nk, q2) /\ Removable(R, act, tx, s, id)
      OBVIOUS
  <2>5. OnChildren(R, refs)
      BY <1>4 DEF OnChildren
  <2> HIDE DEF R, S, w, nk, refs, x
  <2>6. \A k : Free(R, act, k) => Free(S, act, k)
      BY <1>1, <1>6, <2>1, <2>5, FreeActed
  <2>7. Removable(S, act, tx, s, id) /\ S[id] = R[id]
      BY <1>1, <1>2, <1>6, <2>1, <2>4, <2>5, RemovableActed
  <2>8. Good(S, act, tx, s, q2, st.ok)
    <3>1. \A k \in nk : k = Null \/
             (Free(R, act, k) /\ \E i \in 1 .. Len(q2) : q2[i].side # "parent" /\ q2[i].key = k)
        BY <2>4 DEF NewOnes
    <3>2. \A j \in refs : R[j].table = "child" /\ R[j].key = R[id].key /\ Mine(R[j], act, tx[s])
        BY <1>4
    <3> QED  BY <1>1, <1>2, <1>3, <1>6, <2>1, <2>4, <3>1, <3>2, GoodActed
  <2>9. Cascaded(M, R0, act, tx, s, c, st, id, q2, x)
      BY <1>6, <2>1, <2>3, <2>6, <2>7, <2>8 DEF Cascaded, S, R, w
  <2> QED  BY <2>9 DEF x, R
<1> QED  BY <1>5, <1>6

(* What is left when the statement stopped at x, or went on to y. *)
Leaves(M, R0, act, tx, s, c, st, x, y) ==
    /\ ~x.ok => Running(M, R0, act, tx, s, c, x) /\ Longer(st.queue, x.queue)
    /\ x.ok => Running(M, R0, act, tx, s, c, y) /\ Longer(st.queue, y.queue)

LEMMA CascadedStops ==
    ASSUME NEW M, NEW R0, NEW act, NEW tx, NEW s, NEW c, NEW st,
           Running(M, R0, act, tx, s, c, st), st.ok, NEW id, NEW q2, NEW x,
           x = Fail(st) \/ Cascaded(M, R0, act, tx, s, c, st, id, q2, x), ~x.ok
    PROVE  Running(M, R0, act, tx, s, c, x) /\ Longer(st.queue, x.queue)
<1>1. CASE x = Fail(st)
    BY <1>1, RunFail
<1>2. CASE Cascaded(M, R0, act, tx, s, c, st, id, q2, x)
    BY <1>2 DEF Cascaded, Same
<1> QED  BY <1>1, <1>2

LEMMA RunCascadeDelete ==
    ASSUME NEW M \in Nat, NEW R0 \in Seq(RowIn(M)), NEW act, NEW tx, NEW s, NEW c,
           Scene(M, act, tx, s, c.write_xid), Under(c, M, act, tx[s]),
           NEW st, Running(M, R0, act, tx, s, c, st), st.ok,
           NEW id, Removable(st.rows, act, tx, s, id)
    PROVE  LET x == Cascade(st, c, st.rows[id].key, <<>>)
               y == Delete(x, c, id)
           IN  Leaves(M, R0, act, tx, s, c, st, x, y)
<1> DEFINE q == st.queue
           key == st.rows[id].key
           x == Cascade(st, c, key, <<>>)
           y == Delete(x, c, id)
           w == c.write_xid
           R == x.rows
           S == y.rows
<1>1. /\ st \in StateIn(M) /\ st.rows \in Seq(RowIn(M)) /\ Len(q) \in Nat
      /\ Good(st.rows, act, tx, s, q, st.ok)
    BY RunningIs
<1>2. w \in 1 .. M - 1 /\ Scene(M, act, tx, s, w)
    BY WriteXid
<1>3. id \in 1 .. Len(st.rows) /\ st.rows[id].table = "parent" /\ tx[s].owned_xids = {}
    BY DEF Removable
<1>4. key # Null /\ NewKeysOf(<<>>) = {Null} /\ <<>> \in NewKeys
  <2>1. st.rows[id] \in RowIn(M)
      BY <1>1, <1>3
  <2>2. key \in Keys
      BY <1>3, <2>1 DEF RowIn
  <2> QED  BY <2>2, ForeignKeysAssumption DEF Null, NewKeysOf, NewKeys
<1>5. x = Fail(st) \/ Cascaded(M, R0, act, tx, s, c, st, id, q, x)
  <2>1. NewOnes(st.rows, act, NewKeysOf(<<>>), q)
    <3> DEFINE nk == NewKeysOf(<<>>)
    <3>1. \A k \in nk : k = Null
        BY <1>4
    <3> HIDE DEF nk
    <3>2. NewOnes(st.rows, act, nk, q)
        BY <3>1, NoNewOnes
    <3> QED  BY <3>2 DEF nk
  <2>2. key \notin NewKeysOf(<<>>)
      BY <1>4
  <2> QED  BY <1>1, <1>4, <2>1, <2>2, RunCascade
<1>6. ASSUME x.ok
      PROVE  Running(M, R0, act, tx, s, c, y) /\ Longer(q, y.queue)
  <2>1. Cascaded(M, R0, act, tx, s, c, st, id, q, x)
    <3>1. ~Fail(st).ok
        BY <1>1, FailIn
    <3> QED  BY <1>5, <1>6, <3>1
  <2> HIDE DEF x
  <2>2. /\ x \in StateIn(M) /\ Same(st, x) /\ Wr(R0, R, x.ops, w)
        /\ Good(R, act, tx, s, q, st.ok)
        /\ Removable(R, act, tx, s, id) /\ R[id] = st.rows[id]
        /\ Unreferenced(R, act, tx[s], key)
      BY <2>1 DEF Cascaded
  <2>3. /\ id \in 1 .. Len(R) /\ R[id].table = "parent" /\ R[id].xmax = 0
        /\ Mine(R[id], act, tx[s]) /\ Alone(R, tx, s) /\ R \in Seq(RowIn(M))
    <3>1. /\ id \in 1 .. Len(R) /\ R[id].table = "parent" /\ R[id].xmax = 0
          /\ Mine(R[id], act, tx[s]) /\ Alone(R, tx, s)
        BY <2>2 DEF Removable
    <3>2. R \in Seq(RowIn(M))
        BY <2>2 DEF StateIn
    <3> QED  BY <3>1, <3>2
  <2>4. /\ Sound(x, y, M) /\ Same(x, y)
        /\ Stamped(R, S, id, w) /\ Wr(R0, S, y.ops, w)
      BY <1>2, <2>2, <2>3, DeleteDoes
  <2>5. y \in StateIn(M) /\ S \in Seq(RowIn(M)) /\ y.queue = q /\ y.ok = st.ok
      BY <2>2, <2>4 DEF Sound, Same, StateIn
  <2>6. R[id].key = key
      BY <2>2
  <2> HIDE DEF y, w, R, S, q, key
  <2>7. NoKin(R, tx, s, R[id].key)
    <3>1. KeysUnique(R, act)
        BY <2>2 DEF Good, Fine
    <3> QED  BY <1>2, <2>3, <3>1, Rivals
  <2>8. \A ch \in 1 .. Len(R) :
            R[ch].table = "child" /\ R[ch].key = R[id].key => ~Vis(R[ch], act, Held(tx[s]))
      BY <2>2, <2>6 DEF Unreferenced
  <2>9. Good(S, act, tx, s, q, st.ok)
      BY ZenonT(40), <1>2, <1>3, <2>2, <2>3, <2>4, <2>5, <2>7, <2>8, GoodStampParent
  <2>10. Running(M, R0, act, tx, s, c, y)
      BY <2>4, <2>5, <2>9 DEF Running, S, w
  <2> QED  BY <1>1, <2>5, <2>10 DEF Longer
<1>7. ASSUME ~x.ok
      PROVE  Running(M, R0, act, tx, s, c, x) /\ Longer(st.queue, x.queue)
  <2> HIDE DEF x, q
  <2> QED  BY <1>5, <1>7, CascadedStops
<1>8. Leaves(M, R0, act, tx, s, c, st, x, y)
  <2> HIDE DEF x, y
  <2> QED  BY <1>6, <1>7 DEF Leaves, q
<1> QED  BY <1>8

LEMMA RunCascadeUpdate ==
    ASSUME NEW M \in Nat, NEW R0 \in Seq(RowIn(M)), NEW act, NEW tx, NEW s, NEW c,
           Scene(M, act, tx, s, c.write_xid), Under(c, M, act, tx[s]),
           NEW st, Running(M, R0, act, tx, s, c, st), st.ok,
           NEW id, Removable(st.rows, act, tx, s, id),
           NEW key \in Keys, key # st.rows[id].key, Free(st.rows, act, key)
    PROVE  LET x == Cascade(st, c, st.rows[id].key, <<key>>)
               y == Update(x, c, id, key)
           IN  Leaves(M, R0, act, tx, s, c, st, x, y)
<1> DEFINE q == st.queue
           old == st.rows[id].key
           new == <<key>>
           x == Cascade(st, c, old, new)
           y == Update(x, c, id, key)
           w == c.write_xid
           R == x.rows
           V == StampedRows(R, id, w)
           S == y.rows
           e == Pending("child", key, 0)
           q2 == Append(q, e)
<1>1. /\ st \in StateIn(M) /\ st.rows \in Seq(RowIn(M)) /\ q \in Seq(PendingFk) /\ Len(q) \in Nat
      /\ Good(st.rows, act, tx, s, q, st.ok)
    BY RunningIs
<1>2. w \in 1 .. M - 1 /\ Scene(M, act, tx, s, w)
    BY WriteXid
<1>3. id \in 1 .. Len(st.rows) /\ st.rows[id].table = "parent" /\ tx[s].owned_xids = {}
    BY DEF Removable
<1>4. old \notin NewKeysOf(new) /\ NewKeysOf(new) = {Null, key} /\ new \in NewKeys
  <2>1. st.rows[id] \in RowIn(M)
      BY <1>1, <1>3
  <2>2. old \in Keys
      BY <1>3, <2>1 DEF RowIn
  <2>3. new # <<>> /\ new[1] = key
      OBVIOUS
  <2>4. NewKeysOf(new) = {Null, key}
    <3> HIDE DEF new
    <3> QED  BY <2>3 DEF NewKeysOf
  <2> QED  BY <2>2, <2>4, ForeignKeysAssumption DEF Null, NewKeys
<1>5. e \in PendingFk /\ e.side = "child" /\ e.side # "parent" /\ e.key = key
    BY DEF PendingFk, Pending
<1> HIDE DEF e
<1>6. /\ Good(st.rows, act, tx, s, q2, st.ok) /\ Len(q2) = Len(q) + 1 /\ q2[Len(q) + 1] = e
      /\ Len(q) + 1 \in 1 .. Len(q2)
  <2>1. Len(q2) = Len(q) + 1 /\ q2[Len(q) + 1] = e
      BY <1>1, <1>5, LongerAppend
  <2>2. Good(st.rows, act, tx, s, q2, st.ok)
      BY <1>1, <1>5, GoodMore
  <2> HIDE DEF q2, q
  <2>3. Len(q) + 1 \in 1 .. Len(q2)
      BY <1>1, <2>1
  <2> QED  BY <2>1, <2>2, <2>3
<1> HIDE DEF new
<1>7. x = Fail(st) \/ Cascaded(M, R0, act, tx, s, c, st, id, q2, x)
  <2> DEFINE nk == NewKeysOf(new)
  <2>1. \E i \in 1 .. Len(q2) : q2[i].side # "parent" /\ q2[i].key = key
    <3> HIDE DEF q2, q
    <3> QED  BY <1>5, <1>6
  <2> HIDE DEF q2
  <2>2. \A k \in nk : k = Null \/ k = key
      BY <1>4
  <2> HIDE DEF nk
  <2>3. NewOnes(st.rows, act, nk, q2)
      BY <2>1, <2>2 DEF NewOnes
  <2> QED  BY <1>4, <1>6, <2>3, RunCascade DEF nk
<1>8. ASSUME x.ok
      PROVE  Running(M, R0, act, tx, s, c, y) /\ Longer(q, y.queue)
  <2>1. Cascaded(M, R0, act, tx, s, c, st, id, q2, x)
    <3>1. ~Fail(st).ok
        BY <1>1, FailIn
    <3> QED  BY <1>7, <1>8, <3>1
  <2> HIDE DEF x, q2
  <2>2. /\ x \in StateIn(M) /\ Same(st, x) /\ Wr(R0, R, x.ops, w)
        /\ Good(R, act, tx, s, q2, st.ok)
        /\ Removable(R, act, tx, s, id) /\ R[id] = st.rows[id]
        /\ Unreferenced(R, act, tx[s], old) /\ Free(R, act, key)
      BY <2>1 DEF Cascaded
  <2>3. /\ id \in 1 .. Len(R) /\ R[id].table = "parent" /\ R[id].xmax = 0
        /\ Mine(R[id], act, tx[s]) /\ Alone(R, tx, s) /\ R \in Seq(RowIn(M))
    <3>1. /\ id \in 1 .. Len(R) /\ R[id].table = "parent" /\ R[id].xmax = 0
          /\ Mine(R[id], act, tx[s]) /\ Alone(R, tx, s)
        BY <2>2 DEF Removable
    <3>2. R \in Seq(RowIn(M))
        BY <2>2 DEF StateIn
    <3> QED  BY <3>1, <3>2
  <2>4. /\ Sound(x, y, M) /\ Same(x, y) /\ V \in Seq(RowIn(M)) /\ Stamped(R, V, id, w)
        /\ Added(V, S, "parent", key, w) /\ Wr(R0, S, y.ops, w)
    <3>1. key \in Keys \cup {Null} /\ R[id].table # "none"
        BY <2>3
    <3> QED  BY <1>2, <2>2, <2>3, <3>1, UpdateDoes
  <2>5. y \in StateIn(M) /\ S \in Seq(RowIn(M)) /\ y.queue = q /\ y.ok = st.ok
      BY <2>2, <2>4 DEF Sound, Same, StateIn
  <2>6. R[id].key = old /\ key # R[id].key
      BY <2>2
  <2> HIDE DEF y, w, R, S, q, V, old
  <2>7. NoKin(R, tx, s, R[id].key)
    <3>1. KeysUnique(R, act)
        BY <2>2 DEF Good, Fine
    <3> QED  BY <1>2, <2>3, <3>1, Rivals
  <2>8. \A ch \in 1 .. Len(R) :
            R[ch].table = "child" /\ R[ch].key = R[id].key => ~Vis(R[ch], act, Held(tx[s]))
      BY <2>2, <2>6 DEF Unreferenced
  <2>9. Good(V, act, tx, s, q2, st.ok)
      BY <1>2, <1>3, <2>2, <2>3, <2>4, <2>7, <2>8, GoodStampParent
  <2>10. \A p \in 1 .. Len(V) : V[p].table = "parent" /\ V[p].key = key => ~Live(V[p], act)
    <3>1. Free(V, act, key)
        BY <2>2, <2>3, <2>4, <2>6, FreeStamped
    <3> QED  BY <3>1 DEF Free
  <2>11. Good(S, act, tx, s, q2, st.ok)
    <3> DEFINE ok == st.ok
    <3>1. /\ V \in Seq(RowIn(M)) /\ S \in Seq(RowIn(M)) /\ Added(V, S, "parent", key, w)
          /\ Scene(M, act, tx, s, w) /\ Good(V, act, tx, s, q2, ok) /\ tx[s].owned_xids = {}
        BY <1>2, <1>3, <2>4, <2>5, <2>9
    <3> HIDE DEF ok
    <3>2. Good(S, act, tx, s, q2, ok)
        BY <2>10, <3>1, GoodAddParent
    <3> QED  BY <3>2 DEF ok
  <2>12. \E p \in 1 .. Len(S) : S[p].table = "parent" /\ S[p].key = e.key
                                /\ Vis(S[p], act, Held(tx[s]))
    <3>1. w \in Held(tx[s])
        BY <1>2 DEF Scene
    <3>2. Len(V) \in Nat
        BY <2>4
    <3>3. /\ Len(V) + 1 \in 1 .. Len(S) /\ S[Len(V) + 1].table = "parent"
          /\ S[Len(V) + 1].key = e.key /\ S[Len(V) + 1].xmin = w /\ S[Len(V) + 1].xmax = 0
        BY <1>5, <2>4, <3>2 DEF Added
    <3>4. Vis(S[Len(V) + 1], act, Held(tx[s]))
        BY <3>1, <3>3 DEF Vis
    <3> QED  BY <3>3, <3>4
  <2>13. Good(S, act, tx, s, q, st.ok)
      BY <1>1, <1>5, <2>11, <2>12, GoodLess DEF q2
  <2>14. Running(M, R0, act, tx, s, c, y)
      BY <2>4, <2>5, <2>13 DEF Running, S, w
  <2> QED  BY <1>1, <2>5, <2>14 DEF Longer
<1>9. ASSUME ~x.ok
      PROVE  Running(M, R0, act, tx, s, c, x) /\ Longer(st.queue, x.queue)
  <2> HIDE DEF x, q2
  <2> QED  BY <1>7, <1>9, CascadedStops
<1>10. Leaves(M, R0, act, tx, s, c, st, x, y)
  <2> HIDE DEF x, y
  <2> QED  BY <1>8, <1>9 DEF Leaves, q
<1> QED  BY <1>10 DEF new

LEMMA SweptTop ==
    ASSUME NEW N, NEW R \in Seq(RowIn(N)), NEW S \in Seq(RowIn(N)), NEW q, NEW n, NEW w,
           Swept(R, S, q, n, w), NEW t, TopOnly(R, t), w \notin t.owned_xids, 0 \notin t.owned_xids
    PROVE  TopOnly(S, t)
<1>1. \A p \in 1 .. Len(S) : S[p].table = "parent" => p \in 1 .. Len(R) /\ S[p] = R[p]
    BY SweptParents
<1>2. Len(R) \in Nat /\ Len(S) \in Nat /\ Len(R) <= Len(S)
    BY DEF Swept
<1>3. ASSUME NEW ch \in 1 .. Len(S), S[ch].table = "child"
      PROVE  S[ch].xmax \in {w, 0} \/ (ch \in 1 .. Len(R) /\ S[ch] = R[ch])
  <2>1. ch \in 1 .. Len(R) \/ ch \in Len(R) + 1 .. Len(S)
      BY <1>2
  <2>2. CASE ch \in 1 .. Len(R)
      BY <2>2 DEF Swept
  <2>3. CASE ch \in Len(R) + 1 .. Len(S)
      BY <2>3 DEF Swept
  <2> QED  BY <2>1, <2>2, <2>3
<1> QED  BY <1>1, <1>3 DEF TopOnly

LEMMA QueuedFrom ==
    ASSUME NEW R, NEW t, NEW q, Postponed(R, t, q)
    PROVE  Queued(q, R)
    BY DEF Postponed, Queued

(* What firing the queue leaves: y, from the statement's rows R0. *)
Fired(M, R0, act, tx, s, c, st, y) ==
    /\ y \in StateIn(M) /\ y.queue = <<>> /\ y.modes = st.modes
    /\ Wr(R0, y.rows, y.ops, c.write_xid)
    /\ Fine(y.rows, act, tx)
    /\ y.ok => Cover(y.rows, act, Held(tx[s]), tx[s].owned_xids, <<>>)
    /\ c.write_xid \notin tx[s].owned_xids => TopOnly(y.rows, tx[s])

LEMMA RunFlush ==
    ASSUME NEW M \in Nat, NEW R0 \in Seq(RowIn(M)), NEW act, NEW tx, NEW s, NEW c,
           Scene(M, act, tx, s, c.write_xid), Under(c, M, act, tx[s]),
           NEW st, Running(M, R0, act, tx, s, c, st), st.ok
    PROVE  Fired(M, R0, act, tx, s, c, st, flush_deferred_fk(st, c))
<1> DEFINE R == st.rows
           q == st.queue
           y == flush_deferred_fk(st, c)
           S == y.rows
           w == c.write_xid
           t == tx[s]
           Y == Held(t)
           O == t.owned_xids
<1>1. /\ st \in StateIn(M) /\ R \in Seq(RowIn(M)) /\ q \in Seq(PendingFk) /\ Len(q) \in Nat
      /\ Wr(R0, R, st.ops, w) /\ Good(R, act, tx, s, q, st.ok)
    BY RunningIs
<1>2. w \in 1 .. M - 1 /\ w \in 0 .. M - 1
  <2>1. w \in 1 .. M - 1
      BY WriteXid
  <2> QED  BY <2>1
<1>3. Fine(R, act, tx) /\ Postponed(R, t, q) /\ TopOnly(R, t) /\ Cover(R, act, Y, O, q)
    BY <1>1 DEF Good
<1>4. Firing(M, R, act, tx, s, c, q)
  <2>1. /\ Owned(act, tx) /\ 0 \notin act /\ s \in Sessions /\ tx[s].xid # 0
        /\ w \in Held(tx[s])
      BY DEF Scene
  <2> QED  BY <1>1, <1>2, <1>3, <2>1 DEF Firing
<1>5. FlushedTo(M, R0, R, act, tx, s, c, q, y, Len(q))
    BY <1>1, <1>4, FlushDoes
<1>6. y.queue = <<>> /\ y.modes = st.modes
  <2>1. Queued(st.queue, st.rows)
      BY <1>3, QueuedFrom
  <2> HIDE DEF y, w, R, q
  <2> QED  BY <1>1, <1>2, <2>1, FlushIn DEF y, w
<1> HIDE DEF y
<1>7. /\ y \in StateIn(M) /\ Fine(S, act, tx)
      /\ Wr(R0, S, y.ops, w) /\ Swept(R, S, q, Len(q), w)
      /\ y.ok => CoverFrom(S, act, Y, O, q, Len(q))
    BY <1>3, <1>5 DEF FlushedTo
<1>8. S \in Seq(RowIn(M))
    BY <1>7 DEF StateIn
<1>9. 0 \notin O
    BY SceneFacts
<1> HIDE DEF S, R, q, w, Y, O, t
<1>10. ASSUME w \notin O PROVE TopOnly(S, t)
  <2>1. w \notin t.owned_xids /\ 0 \notin t.owned_xids
      BY <1>9, <1>10 DEF O
  <2> QED  BY <1>1, <1>3, <1>7, <1>8, <2>1, SweptTop
<1>11. y.ok => Cover(S, act, Y, O, <<>>)
    BY <1>1, <1>7, CoverAll
<1> QED  BY <1>6, <1>7, <1>10, <1>11 DEF Fired, S, R, q, w, Y, O, t, y

InsertsChild(q) == q.kind = "insert child"
InsertsParent(q) == q.kind = "insert parent"
Deletes(q) == q.kind = "delete"
Updates(q) == q.kind = "update"
Sets(q) == q.kind = "set constraints"

LEMMA KindIs ==
    ASSUME NEW q \in Statements
    PROVE  /\ InsertsChild(q) \/ InsertsParent(q) \/ Deletes(q) \/ Updates(q) \/ Sets(q)
           /\ InsertsChild(q) \/ InsertsParent(q) \/ Updates(q) => q.key \in Keys
           /\ Sets(q) => q.deferred \in BOOLEAN
    BY StatementIs, Zenon DEF InsertsChild, InsertsParent, Deletes, Updates, Sets

LEMMA ExecuteDelete ==
    ASSUME NEW q, NEW st, NEW c, Deletes(q), IsParent(q)
    PROVE  execute(q, st, c) =
              IF plan_fk_cascade(st, c, q.row, <<>>).ok
                  THEN Delete(plan_fk_cascade(st, c, q.row, <<>>), c, q.row)
                  ELSE plan_fk_cascade(st, c, q.row, <<>>)
<1>1. execute(q, st, c) =
         LET x == IF IsParent(q) THEN plan_fk_cascade(st, c, q.row, <<>>) ELSE st IN
         IF x.ok THEN Delete(x, c, q.row) ELSE x
    BY Zenon DEF execute, Deletes
<1>2. (IF IsParent(q) THEN plan_fk_cascade(st, c, q.row, <<>>) ELSE st) =
         plan_fk_cascade(st, c, q.row, <<>>)
    OBVIOUS
<1> QED  BY <1>1, <1>2, Zenon

LEMMA ExecuteIs ==
    ASSUME NEW q, NEW st, NEW c
    PROVE  LET y == execute(q, st, c)
               checked == check_fk_child_row(st, c, q.key)
           IN
           /\ InsertsChild(q) => y = IF checked.ok THEN Insert(checked, c, "child", q.key) ELSE checked
           /\ InsertsParent(q) => y = Insert(st, c, "parent", q.key)
           /\ Deletes(q) /\ ~IsParent(q) => y = IF st.ok THEN Delete(st, c, q.row) ELSE st
           /\ Updates(q) /\ ~IsParent(q) =>
                 y = IF checked.ok THEN Update(checked, c, q.row, q.key) ELSE checked
           /\ Updates(q) /\ IsParent(q) =>
                 y = LET x == plan_fk_cascade(st, c, q.row, <<q.key>>) IN
                     IF x.ok THEN Update(x, c, q.row, q.key) ELSE x
           /\ Sets(q) /\ q.deferred => y = SetModes(st, q.deferred)
           /\ Sets(q) /\ ~q.deferred => y = flush_deferred_fk(SetModes(st, q.deferred), c)
<1>1. InsertsChild(q) => execute(q, st, c) =
         LET checked == check_fk_child_row(st, c, q.key) IN
         IF checked.ok THEN Insert(checked, c, "child", q.key) ELSE checked
    BY Zenon DEF execute, InsertsChild
<1>2. InsertsParent(q) => execute(q, st, c) = Insert(st, c, "parent", q.key)
    BY Zenon DEF execute, InsertsParent
<1>3. Deletes(q) => execute(q, st, c) =
         LET x == IF IsParent(q) THEN plan_fk_cascade(st, c, q.row, <<>>) ELSE st IN
         IF x.ok THEN Delete(x, c, q.row) ELSE x
    BY Zenon DEF execute, Deletes
<1>4. Updates(q) => execute(q, st, c) =
         LET x == IF IsParent(q) THEN plan_fk_cascade(st, c, q.row, <<q.key>>)
                  ELSE check_fk_child_row(st, c, q.key)
         IN  IF x.ok THEN Update(x, c, q.row, q.key) ELSE x
    BY Zenon DEF execute, Updates
<1>5. Sets(q) => execute(q, st, c) = exec_set_constraints(st, c, q.deferred)
    BY Zenon DEF execute, Sets
<1> DEFINE y == execute(q, st, c)
           z == check_fk_child_row(st, c, q.key)
           pu == plan_fk_cascade(st, c, q.row, <<q.key>>)
<1>6. /\ InsertsChild(q) => y = IF z.ok THEN Insert(z, c, "child", q.key) ELSE z
      /\ InsertsParent(q) => y = Insert(st, c, "parent", q.key)
    BY <1>1, <1>2
<1>7. Deletes(q) /\ ~IsParent(q) => y = IF st.ok THEN Delete(st, c, q.row) ELSE st
    BY <1>3
<1>9. Updates(q) /\ ~IsParent(q) => y = IF z.ok THEN Update(z, c, q.row, q.key) ELSE z
    BY <1>4
<1>10. Updates(q) /\ IsParent(q) => y = IF pu.ok THEN Update(pu, c, q.row, q.key) ELSE pu
    BY <1>4
<1>11. /\ Sets(q) /\ q.deferred => y = [st EXCEPT !.modes = <<q.deferred>>]
       /\ Sets(q) /\ ~q.deferred => y = flush_deferred_fk([st EXCEPT !.modes = <<q.deferred>>], c)
    BY <1>5 DEF exec_set_constraints
<1> QED  BY <1>6, <1>7, <1>9, <1>10, <1>11 DEF SetModes

(* What the statement q of session s may rely on. *)
Ready(R, act, tx, s, q) ==
    /\ InsertsChild(q) => Unrivalled(R, tx, s)
    /\ InsertsParent(q) => tx[s].owned_xids = {} /\ Free(R, act, q.key)
    /\ (Deletes(q) \/ Updates(q)) /\ IsParent(q) => Removable(R, act, tx, s, q.row)
    /\ (Deletes(q) \/ Updates(q)) /\ ~IsParent(q) => WritableChild(R, act, tx, s, q.row)
    /\ Updates(q) /\ IsParent(q) => Free(R, act, q.key) /\ q.key # R[q.row].key

SetsNow(q) == Sets(q) /\ ~q.deferred

(* The statement gets to y, and the queue only grows. *)
Gets(M, R0, act, tx, s, c, st, y) ==
    Running(M, R0, act, tx, s, c, y) /\ Longer(st.queue, y.queue)

LEMMA LongerSame ==
    ASSUME NEW q, Len(q) \in Nat
    PROVE  Longer(q, q)
    BY DEF Longer

LEMMA LongerOn ==
    ASSUME NEW q1, NEW q2, NEW q3, Len(q1) \in Nat, Len(q2) \in Nat, Len(q3) \in Nat,
           Longer(q1, q2), Longer(q2, q3)
    PROVE  Longer(q1, q3)
    BY DEF Longer

LEMMA RunPlanDelete ==
    ASSUME NEW M \in Nat, NEW R0 \in Seq(RowIn(M)), NEW act, NEW tx, NEW s, NEW c,
           Scene(M, act, tx, s, c.write_xid), Under(c, M, act, tx[s]),
           NEW st, Running(M, R0, act, tx, s, c, st), st.ok,
           NEW id, Removable(st.rows, act, tx, s, id)
    PROVE  LET x == plan_fk_cascade(st, c, id, <<>>) IN
           Gets(M, R0, act, tx, s, c, st, IF x.ok THEN Delete(x, c, id) ELSE x)
<1> DEFINE x == plan_fk_cascade(st, c, id, <<>>)
           key == st.rows[id].key
           xq == queue_parent_fk(st, id, key)
           xc == Cascade(st, c, key, <<>>)
           yq == Delete(xq, c, id)
           yc == Delete(xc, c, id)
<1>1. x = IF fk_mode_deferred(st) THEN xq ELSE xc
    BY DEF plan_fk_cascade
<1>2. Running(M, R0, act, tx, s, c, yq) /\ Longer(st.queue, yq.queue)
    BY RunPostponeDelete
<1>3. Leaves(M, R0, act, tx, s, c, st, xc, yc)
    BY RunCascadeDelete
<1>4. xq.ok
  <2>1. st \in StateIn(M)
      BY RunningIs
  <2> QED  BY <2>1 DEF queue_parent_fk, StateIn
<1>5. CASE fk_mode_deferred(st)
  <2>1. x = xq
      BY <1>1, <1>5
  <2> HIDE DEF x, xq
  <2> QED  BY <1>2, <1>4, <2>1 DEF Gets, x
<1>6. CASE ~fk_mode_deferred(st)
  <2>1. x = xc
      BY <1>1, <1>6
  <2> HIDE DEF x, xc
  <2> QED  BY <1>3, <2>1 DEF Leaves, Gets, x
<1> QED  BY <1>5, <1>6

LEMMA RunPlanUpdate ==
    ASSUME NEW M \in Nat, NEW R0 \in Seq(RowIn(M)), NEW act, NEW tx, NEW s, NEW c,
           Scene(M, act, tx, s, c.write_xid), Under(c, M, act, tx[s]),
           NEW st, Running(M, R0, act, tx, s, c, st), st.ok,
           NEW id, Removable(st.rows, act, tx, s, id),
           NEW key \in Keys, key # st.rows[id].key, Free(st.rows, act, key)
    PROVE  LET x == plan_fk_cascade(st, c, id, <<key>>) IN
           Gets(M, R0, act, tx, s, c, st, IF x.ok THEN Update(x, c, id, key) ELSE x)
<1> DEFINE x == plan_fk_cascade(st, c, id, <<key>>)
           old == st.rows[id].key
           xq == queue_parent_fk(st, id, old)
           xc == Cascade(st, c, old, <<key>>)
           yq == Update(xq, c, id, key)
           yc == Update(xc, c, id, key)
<1>1. x = IF fk_mode_deferred(st) THEN xq ELSE xc
    BY DEF plan_fk_cascade
<1>2. Running(M, R0, act, tx, s, c, yq) /\ Longer(st.queue, yq.queue)
    BY RunPostponeUpdate
<1>3. Leaves(M, R0, act, tx, s, c, st, xc, yc)
    BY RunCascadeUpdate
<1>4. xq.ok
  <2>1. st \in StateIn(M)
      BY RunningIs
  <2> QED  BY <2>1 DEF queue_parent_fk, StateIn
<1>5. CASE fk_mode_deferred(st)
  <2>1. x = xq
      BY <1>1, <1>5
  <2> HIDE DEF x, xq
  <2> QED  BY <1>2, <1>4, <2>1 DEF Gets, x
<1>6. CASE ~fk_mode_deferred(st)
  <2>1. x = xc
      BY <1>1, <1>6
  <2> HIDE DEF x, xc
  <2> QED  BY <1>3, <2>1 DEF Leaves, Gets, x
<1> QED  BY <1>5, <1>6

LEMMA RunSetModes ==
    ASSUME NEW M, NEW R0, NEW act, NEW tx, NEW s, NEW c, NEW st,
           Running(M, R0, act, tx, s, c, st), st.ok, NEW d \in BOOLEAN
    PROVE  LET x == SetModes(st, d) IN
           Gets(M, R0, act, tx, s, c, st, x) /\ x.ok
<1> DEFINE x == SetModes(st, d)
<1>1. st \in StateIn(M) /\ Len(st.queue) \in Nat
    BY RunningIs
<1>2. /\ x \in StateIn(M) /\ x.rows = st.rows /\ x.queue = st.queue
      /\ x.ops = st.ops /\ x.ok = st.ok
    BY <1>1, SetIn DEF Sound
<1> HIDE DEF x
<1>3. Running(M, R0, act, tx, s, c, x)
    BY <1>2 DEF Running
<1>4. Longer(st.queue, x.queue)
    BY <1>1, <1>2, LongerSame
<1> QED  BY <1>2, <1>3, <1>4 DEF x, Gets

(* SET CONSTRAINTS IMMEDIATE outside a savepoint: what was postponed is        *)
(* checked.                                                                    *)
LEMMA RunSetNow ==
    ASSUME NEW M \in Nat, NEW R0 \in Seq(RowIn(M)), NEW act, NEW tx, NEW s, NEW c,
           Scene(M, act, tx, s, c.write_xid), Under(c, M, act, tx[s]),
           c.write_xid \notin tx[s].owned_xids,
           NEW st, Running(M, R0, act, tx, s, c, st), st.ok, NEW d \in BOOLEAN
    PROVE  Running(M, R0, act, tx, s, c, flush_deferred_fk(SetModes(st, d), c))
<1> DEFINE x == SetModes(st, d)
           y == flush_deferred_fk(x, c)
<1>1. Running(M, R0, act, tx, s, c, x) /\ x.ok
    BY RunSetModes DEF Gets
<1> HIDE DEF x
<1>2. Fired(M, R0, act, tx, s, c, x, y)
    BY <1>1, RunFlush
<1> HIDE DEF y
<1>3. /\ y \in StateIn(M) /\ y.queue = <<>> /\ Wr(R0, y.rows, y.ops, c.write_xid)
      /\ Fine(y.rows, act, tx) /\ TopOnly(y.rows, tx[s])
      /\ y.ok => Cover(y.rows, act, Held(tx[s]), tx[s].owned_xids, <<>>)
    BY <1>2 DEF Fired
<1>4. Postponed(y.rows, tx[s], <<>>)
    BY DEF Postponed
<1>5. Good(y.rows, act, tx, s, y.queue, y.ok)
    BY <1>3, <1>4 DEF Good
<1> QED  BY <1>3, <1>5 DEF Running, y, x

LEMMA RunOnChild ==
    ASSUME NEW M \in Nat, NEW R0 \in Seq(RowIn(M)), NEW act, NEW tx, NEW s, NEW c,
           Scene(M, act, tx, s, c.write_xid), Under(c, M, act, tx[s]),
           NEW st, Running(M, R0, act, tx, s, c, st), st.ok, NEW key \in Keys,
           Unrivalled(st.rows, tx, s)
    PROVE  LET x == check_fk_child_row(st, c, key) IN
           /\ Gets(M, R0, act, tx, s, c, st, IF x.ok THEN Insert(x, c, "child", key) ELSE x)
           /\ \A id : WritableChild(st.rows, act, tx, s, id) =>
                 Gets(M, R0, act, tx, s, c, st, IF x.ok THEN Update(x, c, id, key) ELSE x)
<1> DEFINE x == check_fk_child_row(st, c, key)
           y == Insert(x, c, "child", key)
<1>1. /\ Running(M, R0, act, tx, s, c, x) /\ x.rows = st.rows /\ Longer(st.queue, x.queue)
      /\ x.ok => Answered(st.rows, act, tx[s], x.queue, key)
    BY RunCheck
<1>2. NoRival(st.rows, tx, s, key)
  <2>1. /\ st.rows \in Seq(RowIn(M)) /\ Good(st.rows, act, tx, s, st.queue, st.ok)
      BY RunningIs
  <2>2. KeysUnique(st.rows, act)
      BY <2>1 DEF Good, Fine
  <2> QED  BY <2>1, <2>2, Rivals
<1> HIDE DEF x
<1>3. CASE ~x.ok
    BY <1>1, <1>3 DEF Gets, x
<1>4. CASE x.ok
  <2>1. Answered(x.rows, act, tx[s], x.queue, key)
      BY <1>1, <1>4
  <2>2. NoRival(x.rows, tx, s, key) /\ Unrivalled(x.rows, tx, s)
      BY <1>1, <1>2
  <2>3. Running(M, R0, act, tx, s, c, y) /\ y.queue = x.queue
      BY <1>1, <2>1, <2>2, RunInsertChild
  <2>4. ASSUME NEW id, WritableChild(st.rows, act, tx, s, id)
        PROVE  LET z == Update(x, c, id, key) IN
               Running(M, R0, act, tx, s, c, z) /\ z.queue = x.queue
    <3>1. WritableChild(x.rows, act, tx, s, id)
        BY <1>1, <2>4
    <3> QED  BY <1>1, <2>1, <3>1, RunUpdateChild
  <2> HIDE DEF y
  <2>5. Gets(M, R0, act, tx, s, c, st, y)
      BY <1>1, <2>3 DEF Gets
  <2>6. \A id : WritableChild(st.rows, act, tx, s, id) =>
           Gets(M, R0, act, tx, s, c, st, Update(x, c, id, key))
      BY <1>1, <2>4 DEF Gets
  <2> QED  BY <1>4, <2>5, <2>6 DEF y, x
<1> QED  BY <1>3, <1>4

(* A statement gets to what its transaction may go on from. *)
LEMMA RunExecute ==
    ASSUME NEW M \in Nat, NEW R0 \in Seq(RowIn(M)), NEW act, NEW tx, NEW s, NEW c,
           Scene(M, act, tx, s, c.write_xid), Under(c, M, act, tx[s]),
           NEW st, Running(M, R0, act, tx, s, c, st), st.ok,
           NEW q \in Statements, Ready(st.rows, act, tx, s, q),
           SetsNow(q) => c.write_xid \notin tx[s].owned_xids
    PROVE  LET y == execute(q, st, c) IN
           /\ Running(M, R0, act, tx, s, c, y)
           /\ SetsNow(q) \/ Longer(st.queue, y.queue)
<1> DEFINE y == execute(q, st, c)
           z == check_fk_child_row(st, c, q.key)
<1>1. st.rows \in Seq(RowIn(M)) /\ st \in StateIn(M) /\ Len(st.queue) \in Nat
    BY RunningIs
<1>k. /\ InsertsChild(q) \/ InsertsParent(q) \/ Deletes(q) \/ Updates(q) \/ Sets(q)
      /\ InsertsChild(q) \/ InsertsParent(q) \/ Updates(q) => q.key \in Keys
      /\ Sets(q) => q.deferred \in BOOLEAN
    BY KindIs
<1>r. /\ InsertsChild(q) => Unrivalled(st.rows, tx, s)
      /\ InsertsParent(q) => tx[s].owned_xids = {} /\ Free(st.rows, act, q.key)
      /\ (Deletes(q) \/ Updates(q)) /\ IsParent(q) => Removable(st.rows, act, tx, s, q.row)
      /\ (Deletes(q) \/ Updates(q)) /\ ~IsParent(q) => WritableChild(st.rows, act, tx, s, q.row)
      /\ Updates(q) /\ IsParent(q) => Free(st.rows, act, q.key) /\ q.key # st.rows[q.row].key
    BY DEF Ready
<1>2. CASE InsertsChild(q)
  <2>1. Gets(M, R0, act, tx, s, c, st, IF z.ok THEN Insert(z, c, "child", q.key) ELSE z)
      BY <1>k, <1>r, <1>2, RunOnChild
  <2>2. y = IF z.ok THEN Insert(z, c, "child", q.key) ELSE z
      BY <1>2, ExecuteIs
  <2> HIDE DEF y, z
  <2> QED  BY <2>1, <2>2 DEF Gets, y
<1>3. CASE InsertsParent(q)
  <2> DEFINE x == Insert(st, c, "parent", q.key)
  <2>1. Running(M, R0, act, tx, s, c, x) /\ x.queue = st.queue
      BY <1>k, <1>r, <1>3, RunInsertParent
  <2>2. y = x
      BY <1>3, ExecuteIs
  <2>3. Longer(st.queue, st.queue)
      BY <1>1, LongerSame
  <2> HIDE DEF x, y
  <2> QED  BY <2>1, <2>2, <2>3 DEF y
<1>4. CASE Deletes(q) /\ IsParent(q)
  <2> DEFINE x == plan_fk_cascade(st, c, q.row, <<>>)
             x2 == IF x.ok THEN Delete(x, c, q.row) ELSE x
  <2>1. Gets(M, R0, act, tx, s, c, st, x2)
      BY <1>r, <1>4, RunPlanDelete
  <2>2. y = x2
      BY <1>4, ExecuteDelete, Zenon
  <2> HIDE DEF x2, y
  <2> QED  BY <2>1, <2>2 DEF Gets, y
<1>5. CASE Updates(q) /\ IsParent(q)
  <2> DEFINE x == plan_fk_cascade(st, c, q.row, <<q.key>>)
             x2 == IF x.ok THEN Update(x, c, q.row, q.key) ELSE x
  <2>1. Gets(M, R0, act, tx, s, c, st, x2)
      BY <1>k, <1>r, <1>5, RunPlanUpdate
  <2>2. y = x2
      BY <1>5, ExecuteIs
  <2> HIDE DEF x2, y
  <2> QED  BY <2>1, <2>2 DEF Gets, y
<1>6. CASE Deletes(q) /\ ~IsParent(q)
  <2>1. Gets(M, R0, act, tx, s, c, st, Delete(st, c, q.row))
    <3> DEFINE x == Delete(st, c, q.row)
    <3>1. Running(M, R0, act, tx, s, c, x) /\ x.queue = st.queue
        BY <1>r, <1>6, RunDeleteChild
    <3>2. Longer(st.queue, st.queue)
        BY <1>1, LongerSame
    <3> HIDE DEF x
    <3>3. Gets(M, R0, act, tx, s, c, st, x)
        BY <3>1, <3>2 DEF Gets
    <3> QED  BY <3>3 DEF x
  <2>2. y = Delete(st, c, q.row)
      BY <1>6, ExecuteIs
  <2> HIDE DEF y
  <2> QED  BY <2>1, <2>2 DEF Gets, y
<1>7. CASE Updates(q) /\ ~IsParent(q)
  <2> DEFINE x2 == IF z.ok THEN Update(z, c, q.row, q.key) ELSE z
  <2>1. Gets(M, R0, act, tx, s, c, st, x2)
    <3>1. WritableChild(st.rows, act, tx, s, q.row) /\ Unrivalled(st.rows, tx, s)
        BY <1>r, <1>7 DEF WritableChild
    <3> QED  BY <1>k, <1>7, <3>1, RunOnChild
  <2>2. y = x2
      BY <1>7, ExecuteIs
  <2> HIDE DEF x2, y
  <2> QED  BY <2>1, <2>2 DEF Gets, y
<1>8. CASE Sets(q) /\ q.deferred
  <2>1. Gets(M, R0, act, tx, s, c, st, SetModes(st, q.deferred))
      BY <1>k, <1>8, RunSetModes
  <2>2. y = SetModes(st, q.deferred)
      BY <1>8, ExecuteIs
  <2> HIDE DEF y
  <2> QED  BY <2>1, <2>2 DEF Gets, y
<1>9. CASE Sets(q) /\ ~q.deferred
  <2> DEFINE x == flush_deferred_fk(SetModes(st, q.deferred), c)
  <2>1. SetsNow(q)
      BY <1>9 DEF SetsNow
  <2>2. Running(M, R0, act, tx, s, c, x)
      BY <1>k, <1>9, <2>1, RunSetNow
  <2>3. y = x
      BY <1>9, ExecuteIs
  <2> HIDE DEF y, x
  <2> QED  BY <2>1, <2>2, <2>3 DEF y
<1> QED  BY <1>k, <1>2, <1>3, <1>4, <1>5, <1>6, <1>7, <1>8, <1>9

-----------------------------------------------------------------------------
(* What the steps of one session do to the views of the others.              *)

(* S under act2 looks to Y2 as R under act did to Y. *)
SameView(R, act, Y, S, act2, Y2) ==
    /\ Len(R) <= Len(S)
    /\ \A id \in 1 .. Len(R) :
          /\ Vis(S[id], act2, Y2) <=> Vis(R[id], act, Y)
          /\ Vis(R[id], act, Y) =>
                S[id].table = R[id].table /\ S[id].key = R[id].key /\ S[id].xmin = R[id].xmin
    /\ \A id \in Len(R) + 1 .. Len(S) : ~Vis(S[id], act2, Y2)

LEMMA CoverSame ==
    ASSUME NEW N, NEW R \in Seq(RowIn(N)), NEW M, NEW S \in Seq(RowIn(M)),
           NEW act, NEW Y, NEW act2, NEW Y2, SameView(R, act, Y, S, act2, Y2),
           NEW O, NEW O2, \A id \in 1 .. Len(R) : R[id].xmin \in O2 => R[id].xmin \in O,
           NEW q, Cover(R, act, Y, O, q)
    PROVE  Cover(S, act2, Y2, O2, q)
<1>1. Len(R) \in Nat /\ Len(S) \in Nat /\ Len(R) <= Len(S)
    BY DEF SameView
<1>2. ASSUME NEW id \in 1 .. Len(S), Orphan(S, act2, Y2, id)
      PROVE  \E i \in 1 .. Len(q) : Looks(q[i], S[id], O2)
  <2>1. id \in 1 .. Len(R)
    <3>1. Vis(S[id], act2, Y2)
        BY <1>2 DEF Orphan
    <3>2. id \notin Len(R) + 1 .. Len(S)
        BY <3>1 DEF SameView
    <3> QED  BY <1>1, <3>2
  <2>2. /\ Vis(R[id], act, Y) /\ S[id].table = R[id].table /\ S[id].key = R[id].key
        /\ S[id].xmin = R[id].xmin
      BY <1>2, <2>1 DEF Orphan, SameView
  <2>3. ASSUME NEW p \in 1 .. Len(R), R[p].table = "parent", R[p].key = R[id].key, Vis(R[p], act, Y)
        PROVE  FALSE
    <3>1. /\ Vis(S[p], act2, Y2) /\ S[p].table = "parent" /\ S[p].key = S[id].key
          /\ p \in 1 .. Len(S)
        BY <1>1, <2>2, <2>3 DEF SameView
    <3> QED  BY <1>2, <3>1 DEF Orphan
  <2>4. Orphan(R, act, Y, id)
      BY <1>2, <2>2, <2>3 DEF Orphan
  <2>5. PICK i \in 1 .. Len(q) : Looks(q[i], R[id], O)
      BY <2>1, <2>4 DEF Cover, CoverFrom
  <2> QED  BY <2>1, <2>2, <2>5 DEF Looks
<1> QED  BY <1>2 DEF Cover, CoverFrom

(* What every view within H has covered stays covered. *)
CoverKept(R, act, S, act2, H) ==
    \A Y \in SUBSET H : \A O, q : Cover(R, act, Y, O, q) => Cover(S, act2, Y, O, q)

LEMMA CoverKeptSame ==
    ASSUME NEW N, NEW R \in Seq(RowIn(N)), NEW M, NEW S \in Seq(RowIn(M)),
           NEW act, NEW act2, NEW H, \A Y \in SUBSET H : SameView(R, act, Y, S, act2, Y)
    PROVE  CoverKept(R, act, S, act2, H)
<1>1. ASSUME NEW Y \in SUBSET H, NEW O, NEW q, Cover(R, act, Y, O, q)
      PROVE  Cover(S, act2, Y, O, q)
  <2>1. SameView(R, act, Y, S, act2, Y)
      OBVIOUS
  <2>2. \A id \in 1 .. Len(R) : R[id].xmin \in O => R[id].xmin \in O
      OBVIOUS
  <2> QED  BY <1>1, <2>1, <2>2, CoverSame
<1> QED  BY <1>1 DEF CoverKept

LEMMA SameViewWrote ==
    ASSUME NEW N, NEW R \in Seq(RowIn(N)), NEW S \in Seq(RowIn(N)), NEW ops, NEW act, NEW w \in act,
           0 \notin act, Wr(R, S, ops, w), NEW Y, w \notin Y
    PROVE  SameView(R, act, Y, S, act, Y)
<1>1. Len(R) \in Nat /\ Len(S) \in Nat /\ Len(R) <= Len(S)
    BY DEF Wr
<1>2. ASSUME NEW id \in 1 .. Len(R)
      PROVE  /\ Vis(S[id], act, Y) <=> Vis(R[id], act, Y)
             /\ S[id].table = R[id].table /\ S[id].key = R[id].key /\ S[id].xmin = R[id].xmin
  <2>1. CASE S[id] = R[id]
      BY <2>1
  <2>2. CASE /\ R[id].xmax = 0 /\ S[id].xmax = w /\ S[id].table = R[id].table
             /\ S[id].key = R[id].key /\ S[id].xmin = R[id].xmin
      BY <2>2 DEF Vis
  <2> QED  BY <2>1, <2>2 DEF Wr
<1>3. ASSUME NEW id \in Len(R) + 1 .. Len(S) PROVE ~Vis(S[id], act, Y)
  <2>1. S[id].xmin = w
      BY DEF Wr
  <2> QED  BY <2>1 DEF Vis
<1> QED  BY <1>1, <1>2, <1>3 DEF SameView

(* The rows without what the xids in Z did. *)
Purge(R, Z) ==
    [id \in 1 .. Len(R) |->
        IF R[id].xmin \in Z THEN NoRow
        ELSE IF R[id].xmax \in Z THEN [R[id] EXCEPT !.xmax = 0]
        ELSE R[id]]

LEMMA PurgeIs ==
    ASSUME NEW N \in Nat, N # 0, NEW R \in Seq(RowIn(N)), NEW Z
    PROVE  /\ Purge(R, Z) \in Seq(RowIn(N)) /\ Len(Purge(R, Z)) = Len(R)
           /\ \A id \in 1 .. Len(R) :
                 \/ R[id].xmin \in Z /\ Purge(R, Z)[id] = NoRow
                 \/ /\ R[id].xmin \notin Z /\ Purge(R, Z)[id].table = R[id].table
                    /\ Purge(R, Z)[id].key = R[id].key /\ Purge(R, Z)[id].xmin = R[id].xmin
                    /\ \/ R[id].xmax \in Z /\ Purge(R, Z)[id].xmax = 0
                       \/ R[id].xmax \notin Z /\ Purge(R, Z)[id] = R[id]
<1> DEFINE val(id) == IF R[id].xmin \in Z THEN NoRow
                      ELSE IF R[id].xmax \in Z THEN [R[id] EXCEPT !.xmax = 0]
                      ELSE R[id]
           S == Purge(R, Z)
           T == RowIn(N)
           n == Len(R)
<1>1. n \in Nat /\ \A id \in 1 .. n : R[id] \in T
    OBVIOUS
<1>2. S = [id \in 1 .. n |-> val(id)]
    BY DEF Purge
<1>3. NoRow \in T /\ 0 \in 0 .. N - 1
    BY DEF NoRow, RowIn, Null
<1>4. \A id \in 1 .. n :
          /\ val(id) \in T
          /\ \/ R[id].xmin \in Z /\ val(id) = NoRow
             \/ /\ R[id].xmin \notin Z /\ val(id).table = R[id].table
                /\ val(id).key = R[id].key /\ val(id).xmin = R[id].xmin
                /\ \/ R[id].xmax \in Z /\ val(id).xmax = 0
                   \/ R[id].xmax \notin Z /\ val(id) = R[id]
    BY <1>1, <1>3 DEF RowIn
<1> HIDE DEF val, S, T, n
<1>5. S \in [1 .. n -> T]
    BY <1>2, <1>4
<1>6. S \in Seq(T) /\ Len(S) = n
    BY <1>1, <1>5, FunSeq
<1>7. \A id \in 1 .. n : S[id] = val(id)
    BY <1>2
<1> QED  BY <1>4, <1>6, <1>7 DEF S, T, n

LEMMA SameViewPurged ==
    ASSUME NEW N \in Nat, N # 0, NEW R \in Seq(RowIn(N)), NEW Z, NEW act, Z \subseteq act, 0 \notin act,
           NEW act2, \A x \in 0 .. N - 1 : x \notin Z => (x \in act2 <=> x \in act),
           NEW Y, \A x \in Y : x \notin Z
    PROVE  SameView(R, act, Y, Purge(R, Z), act2, Y)
<1> DEFINE S == Purge(R, Z)
<1>1. /\ Len(S) = Len(R) /\ Len(R) \in Nat
      /\ \A id \in 1 .. Len(R) :
            \/ R[id].xmin \in Z /\ S[id] = NoRow
            \/ /\ R[id].xmin \notin Z /\ S[id].table = R[id].table
               /\ S[id].key = R[id].key /\ S[id].xmin = R[id].xmin
               /\ \/ R[id].xmax \in Z /\ S[id].xmax = 0
                  \/ R[id].xmax \notin Z /\ S[id] = R[id]
    BY PurgeIs
<1> HIDE DEF S
<1>2. ASSUME NEW id \in 1 .. Len(R)
      PROVE  /\ Vis(S[id], act2, Y) <=> Vis(R[id], act, Y)
             /\ Vis(R[id], act, Y) =>
                   S[id].table = R[id].table /\ S[id].key = R[id].key /\ S[id].xmin = R[id].xmin
  <2>1. R[id].xmin \in 0 .. N - 1 /\ R[id].xmax \in 0 .. N - 1
    <3>1. R[id] \in RowIn(N)
        OBVIOUS
    <3> QED  BY <3>1 DEF RowIn
  <2>2. CASE R[id].xmin \in Z /\ S[id] = NoRow
    <3>1. ~Vis(R[id], act, Y)
        BY <2>2 DEF Vis
    <3>2. ~Vis(S[id], act2, Y)
        BY <2>2 DEF Vis, NoRow
    <3> QED  BY <3>1, <3>2
  <2>3. CASE /\ R[id].xmin \notin Z /\ S[id].table = R[id].table
             /\ S[id].key = R[id].key /\ S[id].xmin = R[id].xmin
             /\ \/ R[id].xmax \in Z /\ S[id].xmax = 0
                \/ R[id].xmax \notin Z /\ S[id] = R[id]
    <3>1. R[id].xmin \in act2 <=> R[id].xmin \in act
        BY <2>1, <2>3
    <3>2. CASE R[id].xmax \in Z /\ S[id].xmax = 0
        BY <2>3, <3>1, <3>2 DEF Vis
    <3>3. CASE R[id].xmax \notin Z /\ S[id] = R[id]
      <4>1. R[id].xmax \in act2 <=> R[id].xmax \in act
          BY <2>1, <3>3
      <4> QED  BY <2>3, <3>1, <3>3, <4>1 DEF Vis
    <3> QED  BY <2>3, <3>2, <3>3
  <2> QED  BY <1>1, <2>2, <2>3
<1>3. \A id \in Len(R) + 1 .. Len(S) : FALSE
    BY <1>1
<1>4. SameView(R, act, Y, S, act2, Y)
    BY <1>1, <1>2, <1>3 DEF SameView
<1> QED  BY <1>4 DEF S

(* Two views that agree on the xids of the rows.                              *)
AgreeOn(R, act, Y, act2, Y2) ==
    \A id \in 1 .. Len(R) :
        /\ R[id].xmin \in Y2 <=> R[id].xmin \in Y
        /\ R[id].xmin \in act2 <=> R[id].xmin \in act
        /\ R[id].xmax \in Y2 <=> R[id].xmax \in Y
        /\ R[id].xmax \in act2 <=> R[id].xmax \in act

LEMMA SameViewOn ==
    ASSUME NEW N, NEW R \in Seq(RowIn(N)), NEW act, NEW Y, NEW act2, NEW Y2,
           AgreeOn(R, act, Y, act2, Y2)
    PROVE  SameView(R, act, Y, R, act2, Y2)
<1>1. Len(R) \in Nat /\ Len(R) <= Len(R)
    OBVIOUS
<1>2. \A id \in Len(R) + 1 .. Len(R) : FALSE
    BY <1>1
<1>3. \A id \in 1 .. Len(R) : Vis(R[id], act2, Y2) <=> Vis(R[id], act, Y)
    BY DEF AgreeOn, Vis
<1> QED  BY <1>1, <1>2, <1>3 DEF SameView

LEMMA BelowIs ==
    ASSUME NEW N \in Nat, NEW R \in Seq(RowIn(N)), NEW id \in 1 .. Len(R)
    PROVE  R[id].xmin \in 0 .. N - 1 /\ R[id].xmax \in 0 .. N - 1 /\ R[id].xmin # N /\ R[id].xmax # N
<1>1. R[id] \in RowIn(N)
    OBVIOUS
<1>2. R[id].xmin \in 0 .. N - 1 /\ R[id].xmax \in 0 .. N - 1
    BY <1>1 DEF RowIn
<1> QED  BY <1>2

(* An xid nobody has used yet is seen nowhere.                                *)
LEMMA AgreeFresh ==
    ASSUME NEW N \in Nat, NEW R \in Seq(RowIn(N)), NEW act, NEW Y, NEW Y2, Y2 = Y \/ Y2 = Y \cup {N}
    PROVE  AgreeOn(R, act, Y, act \cup {N}, Y2)
<1>1. \A id \in 1 .. Len(R) : R[id].xmin # N /\ R[id].xmax # N
    BY BelowIs
<1> QED  BY <1>1 DEF AgreeOn

(* What Z has done is committed, and the committed view is Z's.               *)
LEMMA SameViewCommitted ==
    ASSUME NEW N, NEW R \in Seq(RowIn(N)), NEW act, NEW Z, Z \subseteq act
    PROVE  SameView(R, act, Z, R, act \ Z, {})
<1>1. Len(R) \in Nat /\ Len(R) <= Len(R)
    OBVIOUS
<1>2. \A id \in Len(R) + 1 .. Len(R) : FALSE
    BY <1>1
<1>3. \A id \in 1 .. Len(R) : Vis(R[id], act \ Z, {}) <=> Vis(R[id], act, Z)
    BY DEF Vis
<1> QED  BY <1>1, <1>2, <1>3 DEF SameView

LEMMA NotCovered ==
    ASSUME NEW R, NEW act, NEW Y, NEW O, Cover(R, act, Y, O, <<>>)
    PROVE  \A id \in 1 .. Len(R) : ~Orphan(R, act, Y, id)
<1>1. \A i \in 0 + 1 .. Len(<<>>) : FALSE
    OBVIOUS
<1> QED  BY <1>1 DEF Cover, CoverFrom

(* The transaction with the xids Z commits, and another one sees it: each      *)
(* orphan in its view was one before.                                          *)
LEMMA OrphanCommitted ==
    ASSUME NEW N, NEW R \in Seq(RowIn(N)), NEW act, 0 \notin act, NEW tx, Owned(act, tx), Fine(R, act, tx),
           NEW s \in Sessions, NEW o \in Sessions, s # o,
           NEW O, Cover(R, act, Held(tx[s]), O, <<>>),
           NEW Y, Y \subseteq Held(tx[o]),
           NEW id \in 1 .. Len(R), Orphan(R, act \ Held(tx[s]), Y, id)
    PROVE  Orphan(R, act, Y, id)
<1> DEFINE Z == Held(tx[s])
<1>1. /\ \A x \in Y : x \in act /\ x \notin Z
      /\ \A x \in Z : x \in act
      /\ 0 \notin Z
  <2>1. Held(tx[o]) \cap Z = {}
      BY DEF Owned
  <2>2. \A x \in Held(tx[o]) \cup Z : x \in act
      BY DEF Owned
  <2> QED  BY <2>1, <2>2
<1>2. /\ R[id].table = "child" /\ R[id].key # Null /\ Vis(R[id], act \ Z, Y)
      /\ \A p \in 1 .. Len(R) :
            R[p].table = "parent" /\ R[p].key = R[id].key => ~Vis(R[p], act \ Z, Y)
    BY DEF Orphan
<1>a. \A c, p \in 1 .. Len(R) : R[c].table = "child" /\ R[p].table = "parent" /\ R[c].key = R[p].key =>
         /\ R[p].xmax \in Z => \A u \in Sessions : u # s => R[c].xmin \notin Held(tx[u]) /\ R[c].xmax \notin Held(tx[u])
         /\ R[p].xmax \in Y => R[c].xmin \notin Z /\ R[c].xmax \notin Z
  <2>1. \A c, p \in 1 .. Len(R) : R[c].table = "child" /\ R[p].table = "parent" /\ R[c].key = R[p].key =>
           \A u, v \in Sessions :
               R[p].xmax \in Held(tx[u]) /\ (R[c].xmin \in Held(tx[v]) \/ R[c].xmax \in Held(tx[v])) => u = v
      BY DEF Fine, OneWriter
  <2> QED  BY <2>1
<1>4. \A i \in 1 .. Len(R) : ~Orphan(R, act, Z, i)
    BY NotCovered
<1>5. Vis(R[id], act, Y)
  <2>1. SUFFICES ASSUME ~Vis(R[id], act, Y) PROVE FALSE
      OBVIOUS
  <2>2. R[id].xmin \in Z /\ Vis(R[id], act, Z)
      BY <1>1, <1>2, <2>1 DEF Vis
  <2>3. PICK p \in 1 .. Len(R) : R[p].table = "parent" /\ R[p].key = R[id].key /\ Vis(R[p], act, Z)
      BY <1>2, <1>4, <2>2 DEF Orphan
  <2>4. R[p].xmax \notin Y
      BY <1>2, <1>a, <2>2, <2>3
  <2>5. Vis(R[p], act \ Z, Y)
      BY <1>1, <2>3, <2>4 DEF Vis
  <2> QED  BY <1>2, <2>3, <2>5
<1>6. ASSUME NEW p \in 1 .. Len(R), R[p].table = "parent", R[p].key = R[id].key, Vis(R[p], act, Y)
      PROVE  FALSE
  <2>1. R[p].xmax \in Z /\ R[p].xmax \in act
      BY <1>2, <1>6 DEF Vis
  <2>2. \A u \in Sessions : u # s => R[id].xmin \notin Held(tx[u]) /\ R[id].xmax \notin Held(tx[u])
      BY <1>2, <1>a, <1>6, <2>1
  <2>3. R[id].xmin \notin Y /\ R[id].xmax \notin Y
      BY <2>2
  <2>4. R[id].xmax = 0
    <3>1. R[id].xmax = 0 \/ (R[id].xmax \in act /\ R[id].xmax \notin Z)
        BY <1>2 DEF Vis
    <3>2. R[id].xmax \in act => \E u \in Sessions : R[id].xmax \in Held(tx[u])
        BY DEF Owned
    <3> QED  BY <2>2, <3>1, <3>2
  <2>5. Vis(R[id], act, Z)
      BY <1>5, <2>3, <2>4 DEF Vis
  <2>6. PICK p2 \in 1 .. Len(R) : R[p2].table = "parent" /\ R[p2].key = R[id].key /\ Vis(R[p2], act, Z)
      BY <1>2, <1>4, <2>5 DEF Orphan
  <2>7. Live(R[p], act) /\ Live(R[p2], act)
      BY <2>1, <2>6 DEF Live, Vis
  <2>8. p = p2
      BY <1>6, <2>6, <2>7 DEF Fine, KeysUnique
  <2> QED  BY <1>1, <2>1, <2>6, <2>8 DEF Vis
<1> QED  BY <1>2, <1>5, <1>6 DEF Orphan

LEMMA CoverKeptCommitted ==
    ASSUME NEW N, NEW R \in Seq(RowIn(N)), NEW act, 0 \notin act, NEW tx, Owned(act, tx), Fine(R, act, tx),
           NEW s \in Sessions, NEW o \in Sessions, s # o,
           NEW O, Cover(R, act, Held(tx[s]), O, <<>>)
    PROVE  CoverKept(R, act, R, act \ Held(tx[s]), Held(tx[o]))
<1>1. ASSUME NEW Y \in SUBSET Held(tx[o]), NEW O2, NEW q, Cover(R, act, Y, O2, q)
      PROVE  Cover(R, act \ Held(tx[s]), Y, O2, q)
  <2>1. \A id \in 1 .. Len(R) : Orphan(R, act \ Held(tx[s]), Y, id) => Orphan(R, act, Y, id)
      BY OrphanCommitted
  <2> QED  BY <1>1, <2>1 DEF Cover, CoverFrom
<1> QED  BY <1>1 DEF CoverKept

(* Rows and transactions with less in them stay fine.                         *)
Fewer(R, act, tx, S, act2, tx2) ==
    /\ Len(S) = Len(R)
    /\ \A id \in 1 .. Len(R) :
          /\ \/ S[id].table = "none"
             \/ /\ S[id].table = R[id].table /\ S[id].key = R[id].key
                /\ Live(S[id], act2) => Live(R[id], act)
          /\ \A o \in Sessions :
                /\ S[id].xmin \in Held(tx2[o]) => R[id].xmin \in Held(tx[o])
                /\ S[id].xmax \in Held(tx2[o]) => R[id].xmax \in Held(tx[o])

LEMMA FineLess ==
    ASSUME NEW R, NEW act, NEW tx, NEW S, NEW act2, NEW tx2, Fewer(R, act, tx, S, act2, tx2),
           Fine(R, act, tx)
    PROVE  Fine(S, act2, tx2)
<1>1. /\ Len(S) = Len(R)
      /\ \A id \in 1 .. Len(R) :
          /\ \/ S[id].table = "none"
             \/ /\ S[id].table = R[id].table /\ S[id].key = R[id].key
                /\ Live(S[id], act2) => Live(R[id], act)
          /\ \A o \in Sessions :
                /\ S[id].xmin \in Held(tx2[o]) => R[id].xmin \in Held(tx[o])
                /\ S[id].xmax \in Held(tx2[o]) => R[id].xmax \in Held(tx[o])
    BY DEF Fewer
<1>2. KeysUnique(S, act2)
  <2>1. KeysUnique(R, act)
      BY DEF Fine
  <2> QED  BY <1>1, <2>1 DEF KeysUnique
<1>3. OneWriter(S, tx2)
  <2>1. OneWriter(R, tx)
      BY DEF Fine
  <2> QED  BY <1>1, <2>1 DEF OneWriter
<1>4. Apart(S, tx2)
  <2>1. Apart(R, tx)
      BY DEF Fine
  <2> QED  BY <1>1, <2>1 DEF Apart
<1> QED  BY <1>2, <1>3, <1>4 DEF Fine

(* The transactions hold what they did, and perhaps the next xid.             *)
Tops(N, tx, tx2) == \A o \in Sessions : \A x \in Held(tx2[o]) : x \in Held(tx[o]) \/ x = N

LEMMA FineFresh ==
    ASSUME NEW N \in Nat, NEW R \in Seq(RowIn(N)), NEW act, NEW tx, NEW tx2, Tops(N, tx, tx2),
           Fine(R, act, tx)
    PROVE  Fine(R, act, tx2) /\ Fine(R, act \cup {N}, tx2)
<1>1. \A id \in 1 .. Len(R) : R[id].xmin # N /\ R[id].xmax # N
    BY BelowIs
<1>2. Fewer(R, act, tx, R, act, tx2)
    BY <1>1 DEF Fewer, Tops
<1>3. Fewer(R, act, tx, R, act \cup {N}, tx2)
    BY <1>1 DEF Fewer, Tops, Live
<1> QED  BY <1>2, <1>3, FineLess

LEMMA FineEnded ==
    ASSUME NEW N \in Nat, NEW R \in Seq(RowIn(N)), NEW act, NEW tx, NEW tx2, Tops(N, tx, tx2),
           Fine(R, act, tx), NEW Z
    PROVE  Fine(R, act \ Z, tx2)
<1>1. \A id \in 1 .. Len(R) : R[id].xmin # N /\ R[id].xmax # N
    BY BelowIs
<1>2. Fewer(R, act, tx, R, act \ Z, tx2)
    BY <1>1 DEF Fewer, Tops, Live
<1> QED  BY <1>2, FineLess

(* act2 is act for the xids outside Z.                                        *)
Outside(N, Z, act, act2) == \A x \in 0 .. N - 1 : x \notin Z => (x \in act2 <=> x \in act)

LEMMA FinePurged ==
    ASSUME NEW N \in Nat, N # 0, NEW R \in Seq(RowIn(N)), NEW act, NEW tx, NEW tx2, Tops(N, tx, tx2),
           Fine(R, act, tx), NEW Z, Z \subseteq act, 0 \notin act, NEW act2, Outside(N, Z, act, act2),
           \A o \in Sessions : 0 \notin Held(tx[o])
    PROVE  Fine(Purge(R, Z), act2, tx2)
<1> DEFINE S == Purge(R, Z)
<1>1. /\ Len(S) = Len(R) /\ Len(R) \in Nat
      /\ \A id \in 1 .. Len(R) :
            \/ R[id].xmin \in Z /\ S[id] = NoRow
            \/ /\ R[id].xmin \notin Z /\ S[id].table = R[id].table
               /\ S[id].key = R[id].key /\ S[id].xmin = R[id].xmin
               /\ \/ R[id].xmax \in Z /\ S[id].xmax = 0
                  \/ R[id].xmax \notin Z /\ S[id] = R[id]
    BY PurgeIs
<1> HIDE DEF S
<1>2. \A id \in 1 .. Len(R) : /\ R[id].xmin \in 0 .. N - 1 /\ R[id].xmax \in 0 .. N - 1
                              /\ R[id].xmin # N /\ R[id].xmax # N
    BY BelowIs
<1>3. \A o \in Sessions : 0 \notin Held(tx2[o])
    BY DEF Tops
<1>4. ASSUME NEW id \in 1 .. Len(R)
      PROVE  /\ \/ S[id].table = "none"
                \/ /\ S[id].table = R[id].table /\ S[id].key = R[id].key
                   /\ Live(S[id], act2) => Live(R[id], act)
             /\ \A o \in Sessions :
                   /\ S[id].xmin \in Held(tx2[o]) => R[id].xmin \in Held(tx[o])
                   /\ S[id].xmax \in Held(tx2[o]) => R[id].xmax \in Held(tx[o])
  <2>1. CASE R[id].xmin \in Z /\ S[id] = NoRow
      BY <1>3, <2>1 DEF NoRow
  <2>2. CASE /\ R[id].xmin \notin Z /\ S[id].table = R[id].table
             /\ S[id].key = R[id].key /\ S[id].xmin = R[id].xmin
             /\ R[id].xmax \in Z /\ S[id].xmax = 0
      BY <1>2, <1>3, <2>2 DEF Live, Tops
  <2>3. CASE R[id].xmax \notin Z /\ S[id] = R[id]
      BY <1>2, <1>3, <2>3 DEF Live, Tops, Outside
  <2> QED  BY <1>1, <2>1, <2>2, <2>3
<1>5. Fewer(R, act, tx, S, act2, tx2)
    BY <1>1, <1>4 DEF Fewer
<1> QED  BY <1>5, FineLess DEF S

-----------------------------------------------------------------------------
(* What holds of an open transaction: its log and its savepoints.            *)

(* The scope of level k, 0 being the whole transaction: where its xids and its *)
(* writes start.                                                               *)
Lo(t, k) == IF k = 0 THEN t.xid ELSE t.sub_xids[k]
Mark(t, k) == IF k = 0 THEN 0 ELSE t.saves[k].writes
From(t, k) == {x \in Held(t) : Lo(t, k) <= x}

(* The writes of a scope are those of its xids, and the other way round.      *)
LoggedOn(R, t, Z, m, id) ==
    /\ R[id].xmin \in Z => \E i \in m + 1 .. Len(t.writes) : t.writes[i].new = id
    /\ R[id].xmax \in Z => \E i \in m + 1 .. Len(t.writes) : t.writes[i].old = id
    /\ \A i \in m + 1 .. Len(t.writes) :
          /\ t.writes[i].new = id /\ R[id].xmin \in Held(t) => R[id].xmin \in Z
          /\ t.writes[i].old = id /\ R[id].xmax \in Held(t) => R[id].xmax \in Z
Logged(R, t) ==
    /\ \A i \in 1 .. Len(t.writes) :
          t.writes[i].prev = 0 /\ t.writes[i].old <= Len(R) /\ t.writes[i].new <= Len(R)
    /\ \A k \in 0 .. Len(t.saves) : \A id \in 1 .. Len(R) : LoggedOn(R, t, From(t, k), Mark(t, k), id)

(* The sub-xids came after the xid; the queue grew along the savepoints.       *)
Marks(t, q) ==
    /\ \A x \in t.owned_xids : t.xid < x
    /\ \A k \in 1 .. Len(t.saves) : t.saves[k].queue <= Len(q)
    /\ \A j, k \in 1 .. Len(t.saves) : j < k => t.saves[j].queue <= t.saves[k].queue

(* Where the transaction would be after ROLLBACK TO its k-th savepoint.       *)
LevelCover(R, act, t, q, k) ==
    Cover(R, act, Held(t) \ From(t, k), t.owned_xids, SubSeq(q, 1, t.saves[k].queue))

Open(R, act, t, q) ==
    /\ Marks(t, q) /\ Logged(R, t) /\ TopOnly(R, t)
    /\ ~t.failed => Cover(R, act, Held(t), t.owned_xids, q)
    /\ \A k \in 1 .. Len(t.saves) : LevelCover(R, act, t, q, k)
SInv(R, act, t, q) == Postponed(R, t, q) /\ (t.xid # 0 => Open(R, act, t, q))

(* The rows changed, but not what the xids in Y had written.                  *)
Untouched(R, S, Y) ==
    /\ Len(R) <= Len(S)
    /\ \A id \in 1 .. Len(S) :
          /\ S[id].xmin \in Y => id \in 1 .. Len(R) /\ S[id].table = R[id].table /\ S[id].xmin = R[id].xmin
          /\ S[id].xmax \in Y => id \in 1 .. Len(R) /\ S[id] = R[id]
    /\ \A id \in 1 .. Len(R) : R[id].xmax \in Y => S[id] = R[id]

LEMMA PostponedKept ==
    ASSUME NEW N, NEW R \in Seq(RowIn(N)), NEW M, NEW S \in Seq(RowIn(M)), NEW t, NEW q,
           Untouched(R, S, Held(t)), Postponed(R, t, q)
    PROVE  Postponed(S, t, q)
<1>1. Len(R) \in Nat /\ Len(S) \in Nat /\ Len(R) <= Len(S)
    BY DEF Untouched
<1>2. ASSUME NEW i \in 1 .. Len(q), q[i].side = "parent"
      PROVE  /\ t.xid # 0 /\ q[i].row \in 1 .. Len(S)
             /\ S[q[i].row].table = "parent" /\ S[q[i].row].key = q[i].key
             /\ S[q[i].row].xmax = t.xid
  <2>1. /\ t.xid # 0 /\ q[i].row \in 1 .. Len(R)
        /\ R[q[i].row].table = "parent" /\ R[q[i].row].key = q[i].key
        /\ R[q[i].row].xmax = t.xid
      BY <1>2 DEF Postponed
  <2>2. t.xid \in Held(t)
      BY <2>1, HeldIs
  <2>3. S[q[i].row] = R[q[i].row]
      BY <2>1, <2>2 DEF Untouched
  <2>4. q[i].row \in 1 .. Len(S)
      BY <1>1, <2>1
  <2> QED  BY <2>1, <2>3, <2>4
<1> QED  BY <1>2 DEF Postponed

LEMMA TopOnlyKept ==
    ASSUME NEW N, NEW R \in Seq(RowIn(N)), NEW M, NEW S \in Seq(RowIn(M)), NEW t, t.xid # 0,
           Untouched(R, S, Held(t)), TopOnly(R, t)
    PROVE  TopOnly(S, t)
<1>1. t.xid \in Held(t) /\ \A x \in t.owned_xids : x \in Held(t)
    BY HeldIs
<1>2. \A id \in 1 .. Len(S) :
          /\ S[id].xmin \in t.owned_xids => id \in 1 .. Len(R) /\ S[id].table = R[id].table /\ S[id].xmin = R[id].xmin
          /\ S[id].xmax \in t.owned_xids \/ S[id].xmax = t.xid => id \in 1 .. Len(R) /\ S[id] = R[id]
    BY <1>1 DEF Untouched
<1> QED  BY <1>2 DEF TopOnly

LEMMA LoggedKept ==
    ASSUME NEW N, NEW R \in Seq(RowIn(N)), NEW M, NEW S \in Seq(RowIn(M)), NEW T, NEW t \in TxnIn(T),
           Untouched(R, S, Held(t)), Logged(R, t)
    PROVE  Logged(S, t)
<1>1. Len(R) \in Nat /\ Len(S) \in Nat /\ Len(R) <= Len(S) /\ Len(t.writes) \in Nat
      /\ t.writes \in Seq(OpIn(T))
    BY DEF Untouched, TxnIn
<1>2. ASSUME NEW i \in 1 .. Len(t.writes)
      PROVE  t.writes[i].prev = 0 /\ t.writes[i].old <= Len(S) /\ t.writes[i].new <= Len(S)
  <2>1. t.writes[i] \in OpIn(T)
      BY <1>1
  <2>2. t.writes[i].old \in Nat /\ t.writes[i].new \in Nat
      BY <2>1 DEF OpIn
  <2>3. t.writes[i].prev = 0 /\ t.writes[i].old <= Len(R) /\ t.writes[i].new <= Len(R)
      BY DEF Logged
  <2> QED  BY <1>1, <2>2, <2>3
<1>3. ASSUME NEW k \in 0 .. Len(t.saves), NEW id \in 1 .. Len(S)
      PROVE  LoggedOn(S, t, From(t, k), Mark(t, k), id)
  <2>1. \A x \in From(t, k) : x \in Held(t)
      BY DEF From
  <2>2. /\ S[id].xmin \in Held(t) => id \in 1 .. Len(R) /\ S[id].xmin = R[id].xmin
        /\ S[id].xmax \in Held(t) => id \in 1 .. Len(R) /\ S[id].xmax = R[id].xmax
      BY DEF Untouched
  <2>3. id \in 1 .. Len(R) => LoggedOn(R, t, From(t, k), Mark(t, k), id)
      BY DEF Logged
  <2> QED  BY <2>1, <2>2, <2>3 DEF LoggedOn
<1> QED  BY <1>2, <1>3 DEF Logged

(* Others' steps keep what holds of a transaction.                            *)
LEMMA OtherKept ==
    ASSUME NEW N, NEW R \in Seq(RowIn(N)), NEW M, NEW S \in Seq(RowIn(M)), NEW T, NEW t \in TxnIn(T),
           NEW q, NEW act, NEW act2,
           Untouched(R, S, Held(t)), CoverKept(R, act, S, act2, Held(t)), SInv(R, act, t, q)
    PROVE  SInv(S, act2, t, q)
<1>1. Postponed(S, t, q)
    BY PostponedKept DEF SInv
<1>2. ASSUME t.xid # 0 PROVE Open(S, act2, t, q)
  <2>1. Open(R, act, t, q)
      BY <1>2 DEF SInv
  <2>2. Logged(S, t) /\ TopOnly(S, t) /\ Marks(t, q)
      BY <1>2, <2>1, LoggedKept, TopOnlyKept DEF Open
  <2>3. ~t.failed => Cover(S, act2, Held(t), t.owned_xids, q)
      BY <2>1 DEF Open, CoverKept
  <2>4. ASSUME NEW k \in 1 .. Len(t.saves) PROVE LevelCover(S, act2, t, q, k)
    <3>1. Held(t) \ From(t, k) \in SUBSET Held(t)
        OBVIOUS
    <3>2. LevelCover(R, act, t, q, k)
        BY <2>1 DEF Open
    <3> QED  BY <3>1, <3>2 DEF LevelCover, CoverKept
  <2> QED  BY <2>2, <2>3, <2>4 DEF Open
<1> QED  BY <1>1, <1>2 DEF SInv

-----------------------------------------------------------------------------
(* What holds besides session s, and what a step of s leaves of it.           *)

World(N, R, act, tx) ==
    /\ N \in Nat /\ N # 0 /\ R \in Seq(RowIn(N)) /\ tx \in [Sessions -> TxnIn(N)]
    /\ \A s \in Sessions : Scoped(tx[s])
    /\ Owned(act, tx) /\ 0 \notin act

Rest(R, act, tx, df, s) ==
    /\ Cover(R, act, {}, {}, <<>>)
    /\ \A o \in Sessions \ {s} : SInv(R, act, tx[o], df[o].queue)

LEMMA WorldFacts ==
    ASSUME NEW N, NEW R, NEW act, NEW tx, World(N, R, act, tx)
    PROVE  /\ N \in Nat /\ N # 0 /\ R \in Seq(RowIn(N)) /\ tx \in [Sessions -> TxnIn(N)]
           /\ Len(R) \in Nat /\ Owned(act, tx) /\ 0 \notin act
           /\ \A s \in Sessions : /\ tx[s] \in TxnIn(N) /\ Scoped(tx[s]) /\ 0 \notin Held(tx[s])
                                  /\ Held(tx[s]) \subseteq act
           /\ \A s, o \in Sessions : s # o => \A x \in Held(tx[s]) : x \notin Held(tx[o])
<1>1. /\ N \in Nat /\ N # 0 /\ R \in Seq(RowIn(N)) /\ tx \in [Sessions -> TxnIn(N)]
      /\ Owned(act, tx) /\ 0 \notin act /\ \A s \in Sessions : Scoped(tx[s])
    BY DEF World
<1>2. \A s \in Sessions : Held(tx[s]) \subseteq act
    BY <1>1 DEF Owned
<1>3. \A s, o \in Sessions : s # o => \A x \in Held(tx[s]) : x \notin Held(tx[o])
    BY <1>1 DEF Owned
<1> QED  BY <1>1, <1>2, <1>3

(* A way to change the rows that others keep up with.                         *)
LEMMA RestKept ==
    ASSUME NEW N, NEW R \in Seq(RowIn(N)), NEW M, NEW S \in Seq(RowIn(M)), NEW act, NEW act2,
           NEW T, NEW tx \in [Sessions -> TxnIn(T)], NEW df, NEW s, Rest(R, act, tx, df, s),
           CoverKept(R, act, S, act2, {}) \/ Cover(S, act2, {}, {}, <<>>),
           \A o \in Sessions \ {s} :
               Untouched(R, S, Held(tx[o])) /\ CoverKept(R, act, S, act2, Held(tx[o]))
    PROVE  Rest(S, act2, tx, df, s)
<1>1. Cover(S, act2, {}, {}, <<>>)
  <2>1. Cover(R, act, {}, {}, <<>>) /\ {} \in SUBSET {}
      BY DEF Rest
  <2> QED  BY <2>1 DEF CoverKept
<1>2. ASSUME NEW o \in Sessions \ {s} PROVE SInv(S, act2, tx[o], df[o].queue)
  <2>1. /\ SInv(R, act, tx[o], df[o].queue) /\ tx[o] \in TxnIn(T)
        /\ Untouched(R, S, Held(tx[o])) /\ CoverKept(R, act, S, act2, Held(tx[o]))
      BY DEF Rest
  <2> DEFINE q == df[o].queue
             t == tx[o]
  <2> HIDE DEF q, t
  <2>2. SInv(R, act, t, q) /\ t \in TxnIn(T) /\ Untouched(R, S, Held(t)) /\ CoverKept(R, act, S, act2, Held(t))
      BY <2>1 DEF q, t
  <2>3. SInv(S, act2, t, q)
      BY <2>2, OtherKept
  <2> QED  BY <2>3 DEF q, t
<1> QED  BY <1>1, <1>2 DEF Rest

LEMMA RestWrote ==
    ASSUME NEW N, NEW R, NEW act, NEW tx, World(N, R, act, tx), NEW df, NEW s \in Sessions,
           Rest(R, act, tx, df, s), NEW S \in Seq(RowIn(N)), NEW ops, NEW w \in Held(tx[s]),
           Wr(R, S, ops, w)
    PROVE  Rest(S, act, tx, df, s)
<1>0. /\ N \in Nat /\ R \in Seq(RowIn(N)) /\ tx \in [Sessions -> TxnIn(N)] /\ 0 \notin act
      /\ Len(R) \in Nat /\ Held(tx[s]) \subseteq act
      /\ \A o \in Sessions : 0 \notin Held(tx[o])
      /\ \A u, o \in Sessions : u # o => \A x \in Held(tx[u]) : x \notin Held(tx[o])
    BY WorldFacts
<1>1. /\ N \in Nat /\ R \in Seq(RowIn(N)) /\ tx \in [Sessions -> TxnIn(N)] /\ 0 \notin act
      /\ w \in act /\ w # 0 /\ Len(R) \in Nat
      /\ \A o \in Sessions \ {s} : w \notin Held(tx[o]) /\ 0 \notin Held(tx[o])
    BY <1>0
<1>2. ASSUME NEW H, w \notin H PROVE CoverKept(R, act, S, act, H)
  <2>1. \A Y \in SUBSET H : SameView(R, act, Y, S, act, Y)
    <3> TAKE Y \in SUBSET H
    <3>1. w \notin Y
        BY <1>2
    <3> QED  BY <1>1, <3>1, SameViewWrote
  <2> QED  BY <1>1, <2>1, CoverKeptSame
<1>3. ASSUME NEW Y, w \notin Y, 0 \notin Y PROVE Untouched(R, S, Y)
  <2>1. Len(R) <= Len(S) /\ Len(S) \in Nat
      BY DEF Wr
  <2>2. ASSUME NEW id \in 1 .. Len(R)
        PROVE  /\ S[id].table = R[id].table /\ S[id].xmin = R[id].xmin
               /\ S[id] = R[id] \/ (R[id].xmax = 0 /\ S[id].xmax = w)
      BY DEF Wr
  <2>3. \A id \in Len(R) + 1 .. Len(S) : S[id].xmin = w /\ S[id].xmax \in {0, w}
      BY DEF Wr
  <2>4. \A id \in 1 .. Len(S) : id \in 1 .. Len(R) \/ id \in Len(R) + 1 .. Len(S)
      BY <1>1, <2>1
  <2> QED  BY <1>3, <2>1, <2>2, <2>3, <2>4 DEF Untouched
<1>4. CoverKept(R, act, S, act, {})
    BY <1>2
<1>5. \A o \in Sessions \ {s} : Untouched(R, S, Held(tx[o])) /\ CoverKept(R, act, S, act, Held(tx[o]))
    BY <1>1, <1>2, <1>3
<1> QED  BY <1>1, <1>4, <1>5, RestKept

LEMMA RestPurged ==
    ASSUME NEW N, NEW R, NEW act, NEW tx, World(N, R, act, tx), NEW df, NEW s \in Sessions,
           Rest(R, act, tx, df, s), Apart(R, tx),
           NEW Z, Z \subseteq Held(tx[s]), NEW act2, Outside(N, Z, act, act2)
    PROVE  Rest(Purge(R, Z), act2, tx, df, s)
<1> DEFINE S == Purge(R, Z)
<1>1. /\ N \in Nat /\ N # 0 /\ R \in Seq(RowIn(N)) /\ tx \in [Sessions -> TxnIn(N)] /\ 0 \notin act
      /\ Len(R) \in Nat /\ Z \subseteq act
      /\ \A o \in Sessions \ {s} : 0 \notin Held(tx[o]) /\ \A x \in Held(tx[o]) : x \notin Z
    BY WorldFacts
<1>2. /\ S \in Seq(RowIn(N)) /\ Len(S) = Len(R)
      /\ \A id \in 1 .. Len(R) :
            \/ R[id].xmin \in Z /\ S[id] = NoRow
            \/ /\ R[id].xmin \notin Z /\ S[id].table = R[id].table
               /\ S[id].key = R[id].key /\ S[id].xmin = R[id].xmin
               /\ \/ R[id].xmax \in Z /\ S[id].xmax = 0
                  \/ R[id].xmax \notin Z /\ S[id] = R[id]
    BY <1>1, PurgeIs
<1>3. ASSUME NEW H, \A x \in H : x \notin Z PROVE CoverKept(R, act, S, act2, H)
  <2>1. \A Y \in SUBSET H : SameView(R, act, Y, S, act2, Y)
    <3> TAKE Y \in SUBSET H
    <3>1. \A x \in Y : x \notin Z
        BY <1>3
    <3>2. \A x \in 0 .. N - 1 : x \notin Z => (x \in act2 <=> x \in act)
        BY DEF Outside
    <3> HIDE DEF S
    <3>3. SameView(R, act, Y, Purge(R, Z), act2, Y)
        BY <1>1, <3>1, <3>2, SameViewPurged
    <3> QED  BY <3>3 DEF S
  <2> HIDE DEF S
  <2> QED  BY <1>1, <1>2, <2>1, CoverKeptSame
<1> HIDE DEF S
<1>4. ASSUME NEW o \in Sessions \ {s} PROVE Untouched(R, S, Held(tx[o]))
  <2>1. \A id \in 1 .. Len(R) : R[id].xmax \in Held(tx[o]) => R[id].xmin \notin Z /\ R[id].xmax \notin Z
      BY <1>1 DEF Apart
  <2>2. NoRow.xmin = 0 /\ NoRow.xmax = 0
      BY DEF NoRow
  <2>3. \A id \in 1 .. Len(R) :
            /\ S[id].xmin \in Held(tx[o]) => S[id].table = R[id].table /\ S[id].xmin = R[id].xmin
            /\ S[id].xmax \in Held(tx[o]) => S[id] = R[id]
            /\ R[id].xmax \in Held(tx[o]) => S[id] = R[id]
      BY <1>1, <1>2, <2>1, <2>2
  <2> QED  BY <1>1, <1>2, <2>3 DEF Untouched
<1>5. CoverKept(R, act, S, act2, {})
    BY <1>3
<1>6. \A o \in Sessions \ {s} : Untouched(R, S, Held(tx[o])) /\ CoverKept(R, act, S, act2, Held(tx[o]))
    BY <1>1, <1>3, <1>4
<1>7. Rest(S, act2, tx, df, s)
    BY <1>1, <1>2, <1>5, <1>6, RestKept
<1> QED  BY <1>7 DEF S

LEMMA UntouchedSame ==
    ASSUME NEW N, NEW R \in Seq(RowIn(N)), NEW Y
    PROVE  Untouched(R, R, Y)
<1>1. Len(R) \in Nat /\ Len(R) <= Len(R)
    OBVIOUS
<1> QED  BY <1>1 DEF Untouched

LEMMA RestCommitted ==
    ASSUME NEW N, NEW R, NEW act, NEW tx, World(N, R, act, tx), NEW df, NEW s \in Sessions,
           Rest(R, act, tx, df, s), Fine(R, act, tx),
           NEW O, Cover(R, act, Held(tx[s]), O, <<>>)
    PROVE  Rest(R, act \ Held(tx[s]), tx, df, s)
<1> DEFINE Z == Held(tx[s])
<1>1. /\ N \in Nat /\ R \in Seq(RowIn(N)) /\ tx \in [Sessions -> TxnIn(N)] /\ 0 \notin act
      /\ Z \subseteq act /\ Owned(act, tx)
    BY WorldFacts
<1>2. Cover(R, act \ Z, {}, {}, <<>>)
  <2>1. SameView(R, act, Z, R, act \ Z, {})
      BY <1>1, SameViewCommitted
  <2>2. \A id \in 1 .. Len(R) : R[id].xmin \in {} => R[id].xmin \in O
      OBVIOUS
  <2> DEFINE E == {}
             q == <<>>
             A == act \ Z
  <2>3. Cover(R, act, Z, O, q) /\ SameView(R, act, Z, R, A, E)
        /\ \A id \in 1 .. Len(R) : R[id].xmin \in E => R[id].xmin \in O
      BY <2>1, <2>2
  <2> HIDE DEF E, q, A, Z
  <2>4. Cover(R, A, E, E, q)
      BY <1>1, <2>3, CoverSame
  <2> QED  BY <2>4 DEF E, q, A
<1>3. \A o \in Sessions \ {s} :
         Untouched(R, R, Held(tx[o])) /\ CoverKept(R, act, R, act \ Z, Held(tx[o]))
    BY <1>1, UntouchedSame, CoverKeptCommitted
<1> HIDE DEF Z
<1>4. Rest(R, act \ Z, tx, df, s)
    BY <1>1, <1>2, <1>3, RestKept
<1> QED  BY <1>4 DEF Z

LEMMA CoverKeptFresh ==
    ASSUME NEW N \in Nat, NEW R \in Seq(RowIn(N)), NEW act, NEW H
    PROVE  CoverKept(R, act, R, act \cup {N}, H)
<1>1. \A Y \in SUBSET H : SameView(R, act, Y, R, act \cup {N}, Y)
    BY AgreeFresh, SameViewOn
<1> QED  BY <1>1, CoverKeptSame

LEMMA RestFresh ==
    ASSUME NEW N, NEW R, NEW act, NEW tx, World(N, R, act, tx), NEW df, NEW s \in Sessions,
           Rest(R, act, tx, df, s)
    PROVE  Rest(R, act \cup {N}, tx, df, s)
<1>1. N \in Nat /\ R \in Seq(RowIn(N)) /\ tx \in [Sessions -> TxnIn(N)]
    BY WorldFacts
<1>2. \A H : CoverKept(R, act, R, act \cup {N}, H)
    BY <1>1, CoverKeptFresh
<1>3. \A o \in Sessions \ {s} :
         Untouched(R, R, Held(tx[o])) /\ CoverKept(R, act, R, act \cup {N}, Held(tx[o]))
    BY <1>1, <1>2, UntouchedSame
<1>4. CoverKept(R, act, R, act \cup {N}, {})
    BY <1>2
<1> QED  BY <1>1, <1>3, <1>4, RestKept

-----------------------------------------------------------------------------
(* What is kept, and each step of session s.                                  *)

Kept(R, act, tx, df) ==
    /\ Fine(R, act, tx) /\ Cover(R, act, {}, {}, <<>>)
    /\ \A s \in Sessions : SInv(R, act, tx[s], df[s].queue)

LEMMA KeptIs ==
    ASSUME NEW R, NEW act, NEW tx, NEW df, Kept(R, act, tx, df), NEW s \in Sessions
    PROVE  /\ Fine(R, act, tx) /\ Rest(R, act, tx, df, s) /\ SInv(R, act, tx[s], df[s].queue)
           /\ KeysUnique(R, act) /\ OneWriter(R, tx) /\ Apart(R, tx)
           /\ Postponed(R, tx[s], df[s].queue)
           /\ tx[s].xid # 0 => Open(R, act, tx[s], df[s].queue)
    BY DEF Kept, Rest, Fine, SInv

LEMMA KeptPut ==
    ASSUME NEW R, NEW act, NEW X, NEW tx \in [Sessions -> X], NEW Y, NEW df \in [Sessions -> Y],
           NEW s \in Sessions, NEW t, NEW d, Rest(R, act, tx, df, s), SInv(R, act, t, d.queue),
           Fine(R, act, [tx EXCEPT ![s] = t])
    PROVE  Kept(R, act, [tx EXCEPT ![s] = t], [df EXCEPT ![s] = d])
<1> DEFINE tx2 == [tx EXCEPT ![s] = t]
           df2 == [df EXCEPT ![s] = d]
<1>1. /\ tx2[s] = t /\ df2[s] = d
      /\ \A o \in Sessions : o # s => tx2[o] = tx[o] /\ df2[o] = df[o]
    OBVIOUS
<1>2. Fine(R, act, tx2)
    OBVIOUS
<1> HIDE DEF tx2, df2
<1>3. \A o \in Sessions : SInv(R, act, tx2[o], df2[o].queue)
    BY <1>1 DEF Rest
<1> QED  BY <1>2, <1>3 DEF Kept, Rest, tx2, df2

LEMMA TopsPut ==
    ASSUME NEW N, NEW X, NEW tx \in [Sessions -> X], NEW s \in Sessions, NEW t,
           \A x \in Held(t) : x \in Held(tx[s]) \/ x = N
    PROVE  Tops(N, tx, [tx EXCEPT ![s] = t])
    BY DEF Tops

(* BEGIN.                                                                     *)
LEMMA BegunOpen ==
    ASSUME NEW N \in Nat, N # 0, NEW R \in Seq(RowIn(N)), NEW act, NEW q \in Seq(PendingFk),
           NEW t0, t0.xid = 0, Postponed(R, t0, q), Cover(R, act, {}, {}, <<>>)
    PROVE  SInv(R, act \cup {N}, BegunTxn(N), q)
<1> DEFINE t == BegunTxn(N)
<1>1. /\ t.xid = N /\ t.owned_xids = {} /\ t.writes = <<>> /\ t.saves = <<>> /\ Held(t) = {N}
    BY BegunIn DEF BegunTxn, NoTxn, Held
<1> HIDE DEF t
<1>2. Postponed(R, t, q)
  <2>1. \A i \in 1 .. Len(q) : q[i].side # "parent"
      BY DEF Postponed
  <2> QED  BY <2>1 DEF Postponed
<1>3. Marks(t, q)
    BY <1>1 DEF Marks
<1>4. Logged(R, t)
  <2>1. \A id \in 1 .. Len(R) : R[id].xmin # N /\ R[id].xmax # N
      BY BelowIs
  <2>2. Len(t.writes) = 0 /\ Len(t.saves) = 0
      BY <1>1
  <2>3. From(t, 0) = {N} /\ Mark(t, 0) = 0
      BY <1>1 DEF From, Lo, Mark
  <2>4. \A id \in 1 .. Len(R) : LoggedOn(R, t, From(t, 0), Mark(t, 0), id)
      BY <2>1, <2>2, <2>3 DEF LoggedOn
  <2> QED  BY <2>2, <2>4 DEF Logged
<1>5. TopOnly(R, t)
    BY <1>1, TopOnlyNone
<1>6. Cover(R, act \cup {N}, Held(t), t.owned_xids, q)
  <2> DEFINE E == {}
             e == <<>>
             A == act \cup {N}
             Y == Held(t)
  <2>1. SameView(R, act, E, R, A, Y)
    <3>1. Y = E \cup {N}
        BY <1>1
    <3> HIDE DEF Y, E
    <3>2. AgreeOn(R, act, E, act \cup {N}, Y)
        BY <3>1, AgreeFresh
    <3> QED  BY <3>2, SameViewOn
  <2>2. Cover(R, act, E, E, e) /\ t.owned_xids = E
      BY <1>1
  <2>3. Len(e) \in Nat /\ Len(q) \in Nat /\ Len(e) <= Len(q) /\ \A i \in 1 .. Len(e) : q[i] = e[i]
      OBVIOUS
  <2> HIDE DEF E, e, A, Y
  <2>4. Cover(R, A, Y, E, e)
      BY <2>1, <2>2, CoverSame
  <2>5. Cover(R, A, Y, E, q)
      BY <2>3, <2>4, CoverMore
  <2> QED  BY <2>2, <2>5 DEF A, Y
<1>7. Open(R, act \cup {N}, t, q)
  <2>1. \A k \in 1 .. Len(t.saves) : FALSE
      BY <1>1
  <2> QED  BY <1>3, <1>4, <1>5, <1>6, <2>1 DEF Open
<1> QED  BY <1>2, <1>7 DEF SInv, t

LEMMA BeginKept ==
    ASSUME NEW N, NEW R, NEW act, NEW tx, World(N, R, act, tx), NEW df \in [Sessions -> DeferralIn],
           Kept(R, act, tx, df), NEW s \in Sessions, tx[s].xid = 0
    PROVE  /\ World(N + 1, R, act \cup {N}, [tx EXCEPT ![s] = BegunTxn(N)])
           /\ Kept(R, act \cup {N}, [tx EXCEPT ![s] = BegunTxn(N)], df)
<1> DEFINE t == BegunTxn(N)
           tx2 == [tx EXCEPT ![s] = t]
           d == df[s]
           A == act \cup {N}
<1>1. /\ N \in Nat /\ N # 0 /\ R \in Seq(RowIn(N)) /\ tx \in [Sessions -> TxnIn(N)]
      /\ Owned(act, tx) /\ 0 \notin act /\ \A o \in Sessions : Scoped(tx[o])
    BY WorldFacts
<1>2. t \in TxnIn(N + 1) /\ Scoped(t) /\ t.xid = N /\ Held(t) = {N} /\ Held(tx[s]) = {}
    BY <1>1, BegunIn DEF Held
<1>3. d \in DeferralIn /\ d.queue \in Seq(PendingFk) /\ [df EXCEPT ![s] = d] = df
    BY DEF DeferralIn
<1>4. SInv(R, A, t, d.queue)
  <2>1. Postponed(R, tx[s], df[s].queue) /\ Cover(R, act, {}, {}, <<>>)
      BY KeptIs DEF Kept
  <2> DEFINE q == d.queue
  <2>2. q \in Seq(PendingFk) /\ Postponed(R, tx[s], q)
      BY <1>3, <2>1
  <2> HIDE DEF q
  <2>3. SInv(R, act \cup {N}, BegunTxn(N), q)
      BY <1>1, <2>1, <2>2, BegunOpen
  <2> QED  BY <2>3 DEF q
<1> HIDE DEF t, d
<1>5. Tops(N, tx, tx2)
    BY <1>1, <1>2, TopsPut
<1>6. Fine(R, A, tx2)
  <2>1. Fine(R, act, tx)
      BY KeptIs
  <2> QED  BY <1>1, <1>5, <2>1, FineFresh
<1>7. Rest(R, A, tx, df, s)
  <2>1. Rest(R, act, tx, df, s)
      BY KeptIs
  <2> QED  BY <2>1, RestFresh
<1>8. Kept(R, A, tx2, [df EXCEPT ![s] = d])
    BY <1>1, <1>4, <1>6, <1>7, KeptPut
<1>9. World(N + 1, R, A, tx2)
  <2>1. Owned(A, tx2)
    <3>1. Held(t) = Held(tx[s]) \cup {N}
        BY <1>2
    <3> QED  BY <1>1, <3>1, OwnedGrows
  <2>2. RowIn(N) \subseteq RowIn(N + 1) /\ TxnIn(N) \subseteq TxnIn(N + 1)
      BY <1>1, Wider
  <2>3. R \in Seq(RowIn(N + 1))
      BY <1>1, <2>2, SeqWider
  <2>4. tx2 \in [Sessions -> TxnIn(N + 1)] /\ \A o \in Sessions : Scoped(tx2[o])
      BY <1>1, <1>2, <2>2
  <2>5. N + 1 \in Nat /\ N + 1 # 0 /\ 0 \notin A
      BY <1>1
  <2> HIDE DEF tx2, A
  <2> QED  BY <2>1, <2>3, <2>4, <2>5 DEF World
<1> QED  BY <1>3, <1>8, <1>9 DEF t

LEMMA ConcatIs ==
    ASSUME NEW S, NEW q \in Seq(S), NEW r \in Seq(S)
    PROVE  /\ q \o r \in Seq(S) /\ Len(q) \in Nat /\ Len(r) \in Nat /\ Len(q \o r) = Len(q) + Len(r)
           /\ \A i \in 1 .. Len(q) : (q \o r)[i] = q[i]
           /\ \A i \in 1 .. Len(r) : (q \o r)[Len(q) + i] = r[i]
    OBVIOUS

(* The scopes of a transaction.                                               *)
LEMMA Scopes ==
    ASSUME NEW N \in Nat, N # 0, NEW t \in TxnIn(N), t.xid # 0, Scoped(t), NEW q, Marks(t, q)
    PROVE  /\ From(t, 0) = Held(t) /\ Len(t.saves) \in Nat /\ Len(t.writes) \in Nat
           /\ write_xid(t) \in Held(t)
           /\ \A k \in 0 .. Len(t.saves) :
                 /\ Mark(t, k) \in 0 .. Len(t.writes) /\ write_xid(t) \in From(t, k)
                 /\ \A x \in From(t, k) : x \in Held(t)
                 /\ k # 0 => \A x \in From(t, k) : x \in t.owned_xids
<1>1. /\ t.xid \in 0 .. N - 1 /\ t.owned_xids \in SUBSET (0 .. N - 1)
      /\ t.sub_xids \in Seq(0 .. N - 1) /\ t.saves \in Seq(MarkIn)
      /\ Len(t.saves) = Len(t.sub_xids) /\ Len(t.saves) \in Nat /\ t.writes \in Seq(OpIn(N))
      /\ Len(t.writes) \in Nat
    BY DEF TxnIn, Scoped
<1>2. Held(t) = {t.xid} \cup t.owned_xids
    BY HeldIs
<1>3. \A x \in t.owned_xids : t.xid < x /\ x \in Nat
    BY <1>1 DEF Marks
<1>4. \A k \in 1 .. Len(t.saves) : /\ t.sub_xids[k] \in t.owned_xids /\ t.saves[k].writes \in Nat
                                   /\ t.saves[k].writes <= Len(t.writes)
  <2>1. \A k \in 1 .. Len(t.saves) : t.saves[k] \in MarkIn
      BY <1>1
  <2> QED  BY <1>1, <2>1 DEF Scoped, MarkIn
<1>5. From(t, 0) = Held(t)
    BY <1>1, <1>2, <1>3 DEF From, Lo
<1>6. write_xid(t) \in Held(t)
    BY WriteXidIn DEF Held
<1>7. ASSUME NEW k \in 1 .. Len(t.saves) PROVE t.sub_xids[k] <= write_xid(t)
  <2> DEFINE sx == t.sub_xids
             T == 0 .. N - 1
             n == Len(sx)
  <2>1. sx \in Seq(T) /\ sx # <<>> /\ k \in 1 .. n /\ n \in Nat
      BY <1>1
  <2>2. write_xid(t) = Last(sx)
      BY <2>1 DEF write_xid
  <2>3. \A i, j \in 1 .. n : i < j => sx[i] < sx[j]
      BY DEF Scoped
  <2>4. \A i \in 1 .. n : sx[i] \in Nat
      BY <1>1
  <2> HIDE DEF sx, T, n
  <2>5. Last(sx) = sx[Len(sx)]
      BY <2>1, FrontIs
  <2>6. Last(sx) = sx[n] /\ n \in 1 .. n
      BY <2>1, <2>5 DEF n
  <2>7. k = n \/ k < n
      BY <2>1
  <2>8. sx[k] <= sx[n]
      BY <2>1, <2>3, <2>4, <2>6, <2>7
  <2> QED  BY <2>2, <2>6, <2>8 DEF sx
<1>8. ASSUME NEW k \in 0 .. Len(t.saves)
      PROVE  /\ Mark(t, k) \in 0 .. Len(t.writes) /\ write_xid(t) \in From(t, k)
             /\ \A x \in From(t, k) : x \in Held(t)
             /\ k # 0 => \A x \in From(t, k) : x \in t.owned_xids
  <2>1. CASE k = 0
      BY <1>1, <1>5, <1>6, <2>1 DEF Mark
  <2>2. CASE k # 0
    <3>1. k \in 1 .. Len(t.saves)
        BY <1>1, <2>2
    <3>2. Mark(t, k) \in 0 .. Len(t.writes)
        BY <1>1, <1>4, <2>2, <3>1 DEF Mark
    <3>3. Lo(t, k) = t.sub_xids[k]
        BY <2>2 DEF Lo
    <3>4. t.sub_xids[k] \in t.owned_xids /\ t.sub_xids[k] <= write_xid(t)
        BY <1>4, <1>7, <3>1
    <3>5. write_xid(t) \in From(t, k)
        BY <1>6, <3>3, <3>4 DEF From
    <3>6. t.xid < t.sub_xids[k] /\ t.sub_xids[k] \in Nat /\ t.xid \in Nat
        BY <1>1, <1>3, <3>4
    <3>7. t.xid \notin From(t, k)
        BY <3>3, <3>6 DEF From
    <3> QED  BY <1>2, <3>2, <3>5, <3>7 DEF From
  <2> QED  BY <2>1, <2>2
<1> QED  BY <1>1, <1>5, <1>6, <1>8

Joined(v, q, r) == v = q \o r

(* The fields of a transaction that ran a statement.                          *)
LEMMA RanIs ==
    ASSUME NEW N \in Nat, NEW t \in TxnIn(N), NEW st \in StateIn(N), NEW d, NEW u, u = RanTxn(t, st, d)
    PROVE  /\ u.xid = t.xid /\ u.sub_xids = t.sub_xids /\ u.owned_xids = t.owned_xids
           /\ u.saves = t.saves /\ Joined(u.writes, t.writes, st.ops)
           /\ Held(u) = Held(t) /\ write_xid(u) = write_xid(t)
           /\ \A k : From(u, k) = From(t, k) /\ Mark(u, k) = Mark(t, k)
<1> DEFINE w == t.writes \o st.ops
           e == t.deletes \/ d
           f == ~st.ok
<1>1. u = [t EXCEPT !.writes = w, !.failed = f, !.deletes = e]
    BY DEF RanTxn
<1> HIDE DEF w, e, f
<1>2. /\ u.xid = t.xid /\ u.sub_xids = t.sub_xids /\ u.owned_xids = t.owned_xids
      /\ u.saves = t.saves /\ u.writes = w /\ (u.failed = f)
    BY <1>1 DEF TxnIn
<1>3. Held(u) = Held(t) /\ write_xid(u) = write_xid(t)
    BY <1>2 DEF Held, all_xids, write_xid
<1>4. \A k : From(u, k) = From(t, k) /\ Mark(u, k) = Mark(t, k)
    BY <1>2, <1>3 DEF From, Lo, Mark
<1> QED  BY <1>2, <1>3, <1>4 DEF w, Joined

LEMMA RanFailed ==
    ASSUME NEW N \in Nat, NEW t \in TxnIn(N), NEW st \in StateIn(N), NEW d, NEW u, u = RanTxn(t, st, d)
    PROVE  u.failed <=> ~st.ok
<1> DEFINE w == t.writes \o st.ops
           e == t.deletes \/ d
           f == ~st.ok
<1>1. u = [t EXCEPT !.writes = w, !.failed = f, !.deletes = e]
    BY DEF RanTxn
<1> HIDE DEF w, e, f
<1>2. /\ u.xid = t.xid /\ u.sub_xids = t.sub_xids /\ u.owned_xids = t.owned_xids
      /\ u.saves = t.saves /\ u.writes = w /\ (u.failed = f)
    BY <1>1 DEF TxnIn
<1> QED  BY <1>2 DEF f

(* The log grows with what the statement wrote, in every scope.               *)
LEMMA LoggedOnRan ==
    ASSUME NEW N \in Nat, NEW R \in Seq(RowIn(N)), NEW S \in Seq(RowIn(N)), NEW ops \in Seq(OpIn(N)),
           NEW t \in TxnIn(N), NEW u, Joined(u.writes, t.writes, ops), Held(u) = Held(t),
           NEW w, Wr(R, S, ops, w), 0 \notin Held(t), Logged(R, t),
           NEW Z, w \in Z, \A x \in Z : x \in Held(t), NEW m \in 0 .. Len(t.writes),
           \A j \in 1 .. Len(R) : LoggedOn(R, t, Z, m, j),
           NEW id \in 1 .. Len(S)
    PROVE  LoggedOn(S, u, Z, m, id)
<1> DEFINE W == t.writes
           V == u.writes
           n == Len(W)
<1>1. /\ Len(R) \in Nat /\ Len(S) \in Nat /\ Len(R) <= Len(S)
      /\ W \in Seq(OpIn(N)) /\ n \in Nat /\ Len(ops) \in Nat
      /\ Len(V) = n + Len(ops)
      /\ \A i \in 1 .. n : V[i] = W[i]
      /\ \A i \in 1 .. Len(ops) : V[n + i] = ops[i]
  <2>1. W \in Seq(OpIn(N))
      BY DEF TxnIn
  <2>2. V = W \o ops
      BY DEF Joined
  <2> HIDE DEF V, W
  <2>3. /\ Len(W) \in Nat /\ Len(ops) \in Nat /\ Len(W \o ops) = Len(W) + Len(ops)
        /\ \A i \in 1 .. Len(W) : (W \o ops)[i] = W[i]
        /\ \A i \in 1 .. Len(ops) : (W \o ops)[Len(W) + i] = ops[i]
      BY <2>1, ConcatIs
  <2>4. Len(R) <= Len(S)
      BY DEF Wr
  <2> QED  BY <2>1, <2>2, <2>3, <2>4
<1>2. /\ \A i \in m + 1 .. n : i \in m + 1 .. Len(V) /\ V[i] = W[i] /\ i \in 1 .. n
      /\ \A i \in 1 .. Len(ops) : n + i \in m + 1 .. Len(V) /\ V[n + i] = ops[i]
  <2> HIDE DEF W, V
  <2>1. m \in 0 .. n
      BY DEF W
  <2> HIDE DEF n
  <2> QED  BY SMTT(30), <1>1, <2>1
<1>3. \A i \in m + 1 .. Len(V) : i \in m + 1 .. n \/ (i - n \in 1 .. Len(ops) /\ V[i] = ops[i - n])
  <2> HIDE DEF W, V
  <2>1. m \in 0 .. n
      BY DEF W
  <2> HIDE DEF n
  <2>2. ASSUME NEW i \in m + 1 .. Len(V) PROVE i \in m + 1 .. n \/ (i - n \in 1 .. Len(ops) /\ n + (i - n) = i)
      BY <1>1, <2>1
  <2> QED  BY <1>2, <2>2
<1>4. \A i \in 1 .. n : W[i].new <= Len(R) /\ W[i].old <= Len(R)
    BY DEF Logged
<1>5. \A j \in 1 .. Len(R) :
          /\ R[j].xmin \in Z => \E i \in m + 1 .. n : W[i].new = j
          /\ R[j].xmax \in Z => \E i \in m + 1 .. n : W[i].old = j
          /\ \A i \in m + 1 .. n :
                /\ W[i].new = j /\ R[j].xmin \in Held(t) => R[j].xmin \in Z
                /\ W[i].old = j /\ R[j].xmax \in Held(t) => R[j].xmax \in Z
    BY DEF LoggedOn
<1>6. \A i \in 1 .. Len(ops) :
          /\ ops[i].old # 0 => S[ops[i].old].xmax = w
          /\ ops[i].new # 0 => S[ops[i].new].xmin = w
    BY DEF Wr
<1>7. id # 0 /\ Held(u) = Held(t) /\ 0 \notin Z
    BY <1>1
<1> HIDE DEF W, V, n
<1>8. CASE id \in 1 .. Len(R)
  <2>1. \/ S[id] = R[id]
        \/ /\ S[id].xmin = R[id].xmin /\ S[id].xmax = w
           /\ \E i \in 1 .. Len(ops) : ops[i].old = id
      BY <1>8 DEF Wr
  <2>2. S[id].xmin \in Z => \E i \in m + 1 .. Len(V) : V[i].new = id
      BY <1>2, <1>5, <1>8, <2>1
  <2>3. S[id].xmax \in Z => \E i \in m + 1 .. Len(V) : V[i].old = id
    <3>1. CASE S[id] = R[id]
        BY <1>2, <1>5, <1>8, <3>1
    <3>2. CASE \E i \in 1 .. Len(ops) : ops[i].old = id
        BY <1>2, <3>2
    <3> QED  BY <2>1, <3>1, <3>2
  <2>4. ASSUME NEW i \in m + 1 .. Len(V)
        PROVE  /\ V[i].new = id /\ S[id].xmin \in Held(t) => S[id].xmin \in Z
               /\ V[i].old = id /\ S[id].xmax \in Held(t) => S[id].xmax \in Z
    <3>1. CASE i \in m + 1 .. n
      <4>1. /\ V[i] = W[i]
            /\ W[i].new = id /\ R[id].xmin \in Held(t) => R[id].xmin \in Z
            /\ W[i].old = id /\ R[id].xmax \in Held(t) => R[id].xmax \in Z
          BY <1>2, <1>5, <1>8, <3>1
      <4> QED  BY <2>1, <4>1
    <3>2. CASE i - n \in 1 .. Len(ops) /\ V[i] = ops[i - n]
        BY <1>6, <1>7, <3>2
    <3> QED  BY <1>3, <3>1, <3>2
  <2> QED  BY <1>7, <2>2, <2>3, <2>4 DEF LoggedOn, V
<1>9. CASE id \in Len(R) + 1 .. Len(S)
  <2>1. /\ S[id].xmin = w /\ S[id].xmax \in {0, w}
        /\ \E i \in 1 .. Len(ops) : ops[i].new = id
        /\ S[id].xmax # 0 => \E i \in 1 .. Len(ops) : ops[i].old = id
      BY <1>9 DEF Wr
  <2>2. S[id].xmin \in Z => \E i \in m + 1 .. Len(V) : V[i].new = id
      BY <1>2, <2>1
  <2>3. S[id].xmax \in Z => \E i \in m + 1 .. Len(V) : V[i].old = id
      BY <1>2, <1>7, <2>1
  <2>4. \A i \in m + 1 .. Len(V) :
               /\ V[i].new = id /\ S[id].xmin \in Held(t) => S[id].xmin \in Z
               /\ V[i].old = id /\ S[id].xmax \in Held(t) => S[id].xmax \in Z
      BY <2>1
  <2> QED  BY <1>7, <2>2, <2>3, <2>4 DEF LoggedOn, V
<1> QED  BY <1>1, <1>8, <1>9

LEMMA LoggedRan ==
    ASSUME NEW N \in Nat, N # 0, NEW R \in Seq(RowIn(N)), NEW t \in TxnIn(N), t.xid # 0, Scoped(t),
           NEW q, Marks(t, q), 0 \notin Held(t), Logged(R, t),
           NEW st \in StateIn(N), NEW d, Wr(R, st.rows, st.ops, write_xid(t))
    PROVE  Logged(st.rows, RanTxn(t, st, d))
<1> DEFINE u == RanTxn(t, st, d)
           S == st.rows
           w == write_xid(t)
           ops == st.ops
<1>0. u = RanTxn(t, st, d)
    OBVIOUS
<1>1. /\ u.saves = t.saves /\ Joined(u.writes, t.writes, ops) /\ Held(u) = Held(t)
      /\ \A k : From(u, k) = From(t, k) /\ Mark(u, k) = Mark(t, k)
  <2> HIDE DEF u
  <2> QED  BY <1>0, RanIs
<1>2. S \in Seq(RowIn(N)) /\ ops \in Seq(OpIn(N))
    BY DEF StateIn
<1>3. /\ Len(t.saves) \in Nat /\ Len(t.writes) \in Nat
      /\ \A k \in 0 .. Len(t.saves) :
            /\ Mark(t, k) \in 0 .. Len(t.writes) /\ w \in From(t, k)
            /\ \A x \in From(t, k) : x \in Held(t)
    BY Scopes
<1>4. Wr(R, S, ops, w)
    OBVIOUS
<1> HIDE DEF u, S, w, ops
<1>5. ASSUME NEW k \in 0 .. Len(u.saves), NEW id \in 1 .. Len(S)
      PROVE  LoggedOn(S, u, From(u, k), Mark(u, k), id)
  <2> DEFINE Z == From(t, k)
             m == Mark(t, k)
  <2>1. m \in 0 .. Len(t.writes) /\ w \in Z /\ \A x \in Z : x \in Held(t)
      BY <1>1, <1>3
  <2>2. \A j \in 1 .. Len(R) : LoggedOn(R, t, Z, m, j)
      BY <1>1 DEF Logged
  <2> HIDE DEF Z, m
  <2>3. LoggedOn(S, u, Z, m, id)
      BY ZenonT(40), <1>1, <1>2, <1>4, <2>1, <2>2, LoggedOnRan
  <2> QED  BY <1>1, <2>3 DEF Z, m
<1>6. ASSUME NEW i \in 1 .. Len(u.writes)
      PROVE  u.writes[i].prev = 0 /\ u.writes[i].old <= Len(S) /\ u.writes[i].new <= Len(S)
  <2> DEFINE W == t.writes
             V == u.writes
             n == Len(W)
  <2>1. W \in Seq(OpIn(N))
      BY DEF TxnIn
  <2>2. V = W \o ops
      BY <1>1 DEF Joined
  <2>3. \A j \in 1 .. n : W[j].prev = 0 /\ W[j].old <= Len(R) /\ W[j].new <= Len(R)
      BY DEF Logged
  <2> HIDE DEF V, W
  <2>4. /\ Len(W) \in Nat /\ Len(ops) \in Nat /\ Len(V) = Len(W) + Len(ops)
        /\ \A j \in 1 .. Len(W) : V[j] = W[j]
        /\ \A j \in 1 .. Len(ops) : V[Len(W) + j] = ops[j]
      BY <1>2, <2>1, <2>2, ConcatIs
  <2>5. Len(R) \in Nat /\ Len(S) \in Nat /\ Len(R) <= Len(S)
      BY <1>2, <1>4 DEF Wr
  <2>6. CASE i \in 1 .. n
    <3>1. W[i].old \in Nat /\ W[i].new \in Nat
      <4>1. W[i] \in OpIn(N)
          BY <2>1, <2>6
      <4> QED  BY <4>1 DEF OpIn
    <3> QED  BY SMTT(30), <2>3, <2>4, <2>5, <2>6, <3>1 DEF V
  <2>7. CASE i \in n + 1 .. n + Len(ops)
    <3> DEFINE j == i - n
    <3>1. j \in 1 .. Len(ops) /\ n + j = i
        BY <2>4, <2>7
    <3>2. ops[j].prev = 0 /\ ops[j].old <= Len(S) /\ ops[j].new <= Len(S)
        BY <1>4, <3>1 DEF Wr
    <3> QED  BY <2>4, <3>1, <3>2 DEF V
  <2>8. i \in 1 .. n \/ i \in n + 1 .. n + Len(ops)
      BY <2>4 DEF V
  <2> QED  BY <2>6, <2>7, <2>8
<1> QED  BY <1>5, <1>6 DEF Logged, u, S

LEMMA SubSame ==
    ASSUME NEW S, NEW q \in Seq(S), NEW q2 \in Seq(S), Longer(q, q2), NEW n \in 0 .. Len(q)
    PROVE  SubSeq(q2, 1, n) = SubSeq(q, 1, n) /\ n \in 0 .. Len(q2)
<1>1. Len(q) \in Nat /\ Len(q2) \in Nat /\ Len(q) <= Len(q2)
    BY DEF Longer
<1>2. n \in 0 .. Len(q2)
    BY <1>1
<1>3. \A i \in 1 .. n : q2[i] = q[i]
    BY <1>1 DEF Longer
<1>4. SubSeq(q2, 1, n) \in Seq(S) /\ Len(SubSeq(q2, 1, n)) = n /\ \A i \in 1 .. n : SubSeq(q2, 1, n)[i] = q2[i]
    BY <1>2, PrefixIs
<1>5. SubSeq(q, 1, n) \in Seq(S) /\ Len(SubSeq(q, 1, n)) = n /\ \A i \in 1 .. n : SubSeq(q, 1, n)[i] = q[i]
    BY PrefixIs
<1> DEFINE a == SubSeq(q2, 1, n)
           b == SubSeq(q, 1, n)
<1>6. /\ a \in Seq(S) /\ b \in Seq(S) /\ Len(a) = Len(b)
      /\ \A i \in 1 .. Len(a) : a[i] = b[i]
    BY <1>3, <1>4, <1>5
<1> HIDE DEF a, b
<1>7. a = b
    BY <1>6
<1> QED  BY <1>2, <1>7 DEF a, b

LEMMA MarksOn ==
    ASSUME NEW t, NEW q, Len(q) \in Nat, Marks(t, q), NEW q2, Len(q2) \in Nat, t.saves = <<>> \/ Longer(q, q2),
           NEW N, t \in TxnIn(N), NEW u, u.owned_xids = t.owned_xids, u.xid = t.xid, u.saves = t.saves
    PROVE  Marks(u, q2)
<1>1. t.saves \in Seq(MarkIn)
    BY DEF TxnIn
<1>2. \A k \in 1 .. Len(t.saves) : t.saves[k].queue \in Nat
  <2>1. \A k \in 1 .. Len(t.saves) : t.saves[k] \in MarkIn
      BY <1>1
  <2> QED  BY <2>1 DEF MarkIn
<1>3. \A k \in 1 .. Len(t.saves) : t.saves[k].queue <= Len(q2)
  <2>1. CASE t.saves = <<>>
      BY <2>1
  <2>2. CASE Longer(q, q2)
      BY <1>2, <2>2 DEF Longer, Marks
  <2> QED  BY <2>1, <2>2
<1> QED  BY <1>3 DEF Marks

(* A savepoint's view is not touched by what is written after it.             *)
LEMMA LevelRan ==
    ASSUME NEW N, NEW R \in Seq(RowIn(N)), NEW S \in Seq(RowIn(N)), NEW ops, NEW act, 0 \notin act,
           NEW w \in act, Wr(R, S, ops, w), NEW t, NEW k \in 1 .. Len(t.saves), w \in From(t, k),
           NEW q \in Seq(PendingFk), NEW q2 \in Seq(PendingFk), Longer(q, q2),
           t.saves[k].queue \in 0 .. Len(q),
           LevelCover(R, act, t, q, k),
           NEW u, u.saves = t.saves, u.owned_xids = t.owned_xids, Held(u) = Held(t), From(u, k) = From(t, k)
    PROVE  LevelCover(S, act, u, q2, k)
<1> DEFINE Y == Held(t) \ From(t, k)
           n == t.saves[k].queue
           O == t.owned_xids
           p == SubSeq(q, 1, n)
<1>1. Cover(R, act, Y, O, p) /\ w \notin Y /\ n \in 0 .. Len(q)
    BY DEF LevelCover
<1>2. SubSeq(q2, 1, n) = p
  <2> HIDE DEF n
  <2> QED  BY <1>1, SubSame
<1> HIDE DEF Y, n, O, p
<1>3. SameView(R, act, Y, S, act, Y)
    BY <1>1, SameViewWrote
<1>4. \A id \in 1 .. Len(R) : R[id].xmin \in O => R[id].xmin \in O
    OBVIOUS
<1>5. Cover(S, act, Y, O, p)
    BY <1>1, <1>3, <1>4, CoverSame
<1>6. Cover(S, act, Held(u) \ From(u, k), u.owned_xids, SubSeq(q2, 1, u.saves[k].queue))
    BY <1>2, <1>5 DEF Y, n, O
<1> QED  BY <1>6 DEF LevelCover

(* What was queued before a savepoint is still there.                         *)
Keeps(t, q, q2) == t.saves = <<>> \/ Longer(q, q2)

(* A statement under c took y from what was kept of s.                        *)
Took(N, R, act, tx, s, q, c, y) ==
    /\ World(N, R, act, tx) /\ s \in Sessions /\ tx[s].xid # 0
    /\ q \in Seq(PendingFk) /\ Open(R, act, tx[s], q) /\ c.write_xid = write_xid(tx[s])
    /\ Running(N, R, act, tx, s, c, y) /\ Keeps(tx[s], q, y.queue)

LEMMA TookOpen ==
    ASSUME NEW N, NEW R, NEW act, NEW tx, NEW s, NEW q, NEW c, NEW y, NEW d,
           Took(N, R, act, tx, s, q, c, y)
    PROVE  /\ SInv(y.rows, act, RanTxn(tx[s], y, d), y.queue)
           /\ Held(RanTxn(tx[s], y, d)) = Held(tx[s])
<1>0. /\ World(N, R, act, tx) /\ s \in Sessions /\ tx[s].xid # 0
      /\ q \in Seq(PendingFk) /\ Open(R, act, tx[s], q) /\ c.write_xid = write_xid(tx[s])
      /\ Running(N, R, act, tx, s, c, y) /\ Keeps(tx[s], q, y.queue)
    BY DEF Took
<1> DEFINE t == tx[s]
           u == RanTxn(t, y, d)
           S == y.rows
           q2 == y.queue
           w == write_xid(t)
<1>1. /\ N \in Nat /\ N # 0 /\ R \in Seq(RowIn(N)) /\ t \in TxnIn(N) /\ Scoped(t) /\ 0 \notin act
      /\ 0 \notin Held(t) /\ Held(t) \subseteq act
    BY <1>0, WorldFacts
<1>2. /\ y \in StateIn(N) /\ S \in Seq(RowIn(N)) /\ q2 \in Seq(PendingFk)
      /\ Wr(R, S, y.ops, w) /\ Good(S, act, tx, s, q2, y.ok)
    BY <1>0, RunningIs
<1>3. /\ u.xid = t.xid /\ u.sub_xids = t.sub_xids /\ u.owned_xids = t.owned_xids
      /\ u.saves = t.saves /\ (u.failed <=> ~y.ok) /\ Held(u) = Held(t)
      /\ \A k : From(u, k) = From(t, k)
  <2>1. t \in TxnIn(N) /\ y \in StateIn(N) /\ u = RanTxn(t, y, d) /\ N \in Nat
      BY <1>1, <1>2
  <2> HIDE DEF t, u
  <2>2. /\ u.xid = t.xid /\ u.sub_xids = t.sub_xids /\ u.owned_xids = t.owned_xids
        /\ u.saves = t.saves /\ Held(u) = Held(t) /\ \A k : From(u, k) = From(t, k)
      BY <2>1, RanIs
  <2>3. u.failed <=> ~y.ok
      BY <2>1, RanFailed
  <2> QED  BY <2>2, <2>3
<1>4. Marks(t, q) /\ Logged(R, t) /\ \A k \in 1 .. Len(t.saves) : LevelCover(R, act, t, q, k)
    BY <1>0 DEF Open
<1>5. t.xid # 0 /\ (t.saves = <<>> \/ Longer(q, q2)) /\ u = RanTxn(t, y, d)
    BY <1>0 DEF Keeps
<1>6. /\ Postponed(S, t, q2) /\ TopOnly(S, t) /\ (y.ok => Cover(S, act, Held(t), t.owned_xids, q2))
    BY <1>2 DEF Good
<1> HIDE DEF u, t, S, q2, w
<1>7. Postponed(S, u, q2) /\ TopOnly(S, u)
    BY <1>3, <1>6 DEF Postponed, TopOnly
<1>8. Marks(u, q2)
  <2>1. Len(q) \in Nat /\ Len(q2) \in Nat
      BY <1>2
  <2> QED  BY <1>1, <1>3, <1>4, <1>5, <2>1, MarksOn
<1>9. Logged(S, u)
  <2>1. Logged(y.rows, RanTxn(t, y, d))
      BY <1>1, <1>2, <1>4, <1>5, LoggedRan DEF S, w
  <2> QED  BY <1>5, <2>1 DEF S
<1>10. ~u.failed => Cover(S, act, Held(u), u.owned_xids, q2)
    BY <1>3, <1>6
<1>11. ASSUME NEW k \in 1 .. Len(u.saves) PROVE LevelCover(S, act, u, q2, k)
  <2>1. k \in 1 .. Len(t.saves) /\ t.saves # <<>>
      BY <1>3, <1>11
  <2>2. Longer(q, q2)
      BY <1>5, <2>1
  <2>3. w \in From(t, k) /\ w \in act
    <3>1. Len(t.saves) \in Nat /\ \A j \in 0 .. Len(t.saves) : write_xid(t) \in From(t, j) /\ write_xid(t) \in Held(t)
        BY <1>1, <1>4, <1>5, Scopes
    <3>2. k \in 0 .. Len(t.saves)
        BY <2>1, <3>1
    <3> QED  BY <1>1, <3>1, <3>2 DEF w
  <2>4. t.saves[k].queue \in 0 .. Len(q)
    <3>1. t.saves \in Seq(MarkIn)
        BY <1>1 DEF TxnIn
    <3>2. t.saves[k].queue \in Nat
      <4>1. t.saves[k] \in MarkIn
          BY <2>1, <3>1
      <4> QED  BY <4>1 DEF MarkIn
    <3>3. t.saves[k].queue <= Len(q) /\ Len(q) \in Nat
        BY <1>4, <2>1 DEF Marks
    <3> QED  BY <3>2, <3>3
  <2>5. LevelCover(R, act, t, q, k)
      BY <1>4, <2>1
  <2>6. u.saves = t.saves /\ u.owned_xids = t.owned_xids /\ Held(u) = Held(t) /\ From(u, k) = From(t, k)
      BY <1>3
  <2> QED  BY <1>0, <1>1, <1>2, <2>1, <2>2, <2>3, <2>4, <2>5, <2>6, LevelRan
<1>12. Open(S, act, u, q2)
    BY <1>7, <1>8, <1>9, <1>10, <1>11 DEF Open
<1> QED  BY <1>3, <1>7, <1>12 DEF SInv, S, q2, t, u

(* A statement of an open transaction starts at what is kept.                 *)
Starts(N, R, df, s, st) ==
    /\ st \in StateIn(N) /\ st.rows = R /\ st.ops = <<>> /\ st.queue = df[s].queue /\ st.ok

LEMMA StartRunning ==
    ASSUME NEW N, NEW R, NEW act, NEW tx, World(N, R, act, tx), NEW df, Kept(R, act, tx, df),
           NEW s \in Sessions, tx[s].xid # 0, ~tx[s].failed, NEW c, Under(c, N, act, tx[s]),
           NEW st, Starts(N, R, df, s, st)
    PROVE  /\ Scene(N, act, tx, s, c.write_xid) /\ Running(N, R, act, tx, s, c, st)
           /\ c.write_xid = write_xid(tx[s]) /\ c.write_xid \in Held(tx[s])
           /\ Open(R, act, tx[s], df[s].queue) /\ st.queue \in Seq(PendingFk)
<1>1. /\ N \in Nat /\ N # 0 /\ R \in Seq(RowIn(N)) /\ tx[s] \in TxnIn(N) /\ Scoped(tx[s])
      /\ 0 \notin act /\ Owned(act, tx) /\ 0 \notin Held(tx[s])
    BY WorldFacts
<1>2. /\ Fine(R, act, tx) /\ Open(R, act, tx[s], df[s].queue) /\ Postponed(R, tx[s], df[s].queue)
    BY KeptIs
<1>3. c.write_xid = write_xid(tx[s])
    BY DEF Under
<1>4. write_xid(tx[s]) \in 0 .. N - 1 /\ write_xid(tx[s]) \in Held(tx[s])
    BY <1>1, WriteXidIn DEF Held
<1>5. c.write_xid \in 1 .. N - 1 /\ c.write_xid \in Held(tx[s])
  <2>1. write_xid(tx[s]) # 0
      BY <1>1, <1>4
  <2> QED  BY <1>3, <1>4, <2>1
<1>6. Scene(N, act, tx, s, c.write_xid)
    BY <1>1, <1>5 DEF Scene
<1>7. /\ st \in StateIn(N) /\ st.rows = R /\ st.ops = <<>> /\ st.queue = df[s].queue /\ st.ok
    BY DEF Starts
<1>8. Good(R, act, tx, s, st.queue, st.ok)
    BY <1>2, <1>7 DEF Good, Open
<1>9. Wr(R, R, <<>>, c.write_xid)
    BY <1>1, WrNone
<1>10. Running(N, R, act, tx, s, c, st)
    BY <1>7, <1>8, <1>9 DEF Running
<1> QED  BY <1>2, <1>3, <1>5, <1>6, <1>7, <1>10 DEF StateIn

LEMMA ExecuteRuns ==
    ASSUME NEW N, NEW R, NEW act, NEW tx, World(N, R, act, tx), NEW df, Kept(R, act, tx, df),
           NEW s \in Sessions, tx[s].xid # 0, ~tx[s].failed, NEW c, Under(c, N, act, tx[s]),
           NEW st, Starts(N, R, df, s, st), NEW q \in Statements, Ready(R, act, tx, s, q),
           SetsNow(q) => tx[s].saves = <<>>,
           NEW y, y = execute(q, st, c)
    PROVE  /\ Running(N, R, act, tx, s, c, y)
           /\ Keeps(tx[s], df[s].queue, y.queue)
<1>1. /\ N \in Nat /\ R \in Seq(RowIn(N)) /\ tx[s] \in TxnIn(N) /\ Scoped(tx[s])
    BY WorldFacts
<1>2. /\ Scene(N, act, tx, s, c.write_xid) /\ Running(N, R, act, tx, s, c, st)
      /\ c.write_xid = write_xid(tx[s])
    BY StartRunning
<1>3. st.rows = R /\ st.queue = df[s].queue /\ st.ok
    BY DEF Starts
<1>4. SetsNow(q) => c.write_xid \notin tx[s].owned_xids
  <2>1. SUFFICES ASSUME tx[s].saves = <<>> PROVE c.write_xid \notin tx[s].owned_xids
      OBVIOUS
  <2>2. Len(tx[s].sub_xids) = 0 /\ tx[s].sub_xids \in Seq(0 .. N - 1)
      BY <1>1, <2>1 DEF Scoped, TxnIn
  <2>3. tx[s].sub_xids = <<>>
    <3> DEFINE q1 == tx[s].sub_xids
    <3>1. Len(q1) = 0 /\ q1 \in Seq(0 .. N - 1)
        BY <2>2
    <3> HIDE DEF q1
    <3>2. q1 = <<>>
        BY <3>1
    <3> QED  BY <3>2 DEF q1
  <2>4. c.write_xid = tx[s].xid
      BY <1>2, <2>3 DEF write_xid
  <2> QED  BY <1>1, <2>4 DEF Scoped
<1>5. Ready(st.rows, act, tx, s, q)
    BY <1>3
<1>6. /\ Running(N, R, act, tx, s, c, execute(q, st, c))
      /\ SetsNow(q) \/ Longer(st.queue, execute(q, st, c).queue)
    BY <1>1, <1>2, <1>3, <1>4, <1>5, RunExecute
<1> QED  BY <1>3, <1>6 DEF Keeps

(* A statement inside a block.                                                *)
LEMMA RanKept ==
    ASSUME NEW N, NEW R, NEW act, NEW tx, World(N, R, act, tx), NEW df \in [Sessions -> DeferralIn],
           Kept(R, act, tx, df), NEW s \in Sessions, tx[s].xid # 0,
           NEW c, c.write_xid = write_xid(tx[s]),
           NEW y, Running(N, R, act, tx, s, c, y),
           Keeps(tx[s], df[s].queue, y.queue),
           NEW e, NEW d, d.queue = y.queue
    PROVE  Kept(y.rows, act, [tx EXCEPT ![s] = RanTxn(tx[s], y, e)], [df EXCEPT ![s] = d])
<1> DEFINE u == RanTxn(tx[s], y, e)
<1>1. /\ N \in Nat /\ N # 0 /\ R \in Seq(RowIn(N)) /\ tx[s] \in TxnIn(N) /\ Scoped(tx[s])
      /\ tx \in [Sessions -> TxnIn(N)]
    BY WorldFacts
<1>2. Open(R, act, tx[s], df[s].queue) /\ Rest(R, act, tx, df, s)
    BY KeptIs
<1>3. df[s].queue \in Seq(PendingFk)
  <2>1. df[s] \in DeferralIn
      OBVIOUS
  <2> QED  BY <2>1 DEF DeferralIn
<1>4. SInv(y.rows, act, u, y.queue) /\ Held(u) = Held(tx[s])
  <2> DEFINE q == df[s].queue
  <2>1. /\ q \in Seq(PendingFk) /\ Open(R, act, tx[s], q) /\ Keeps(tx[s], q, y.queue)
        /\ World(N, R, act, tx) /\ s \in Sessions /\ tx[s].xid # 0 /\ c.write_xid = write_xid(tx[s])
        /\ Running(N, R, act, tx, s, c, y)
      BY <1>2, <1>3
  <2> HIDE DEF q, u
  <2>2. /\ SInv(y.rows, act, RanTxn(tx[s], y, e), y.queue)
        /\ Held(RanTxn(tx[s], y, e)) = Held(tx[s])
    <3>1. Took(N, R, act, tx, s, q, c, y)
        BY <2>1 DEF Took
    <3> QED  BY <3>1, TookOpen
  <2> QED  BY <2>2 DEF u
<1> HIDE DEF u
<1>5. y.rows \in Seq(RowIn(N)) /\ Wr(R, y.rows, y.ops, c.write_xid) /\ Fine(y.rows, act, tx)
    BY RunningIs DEF Good
<1>6. c.write_xid \in Held(tx[s])
  <2>1. write_xid(tx[s]) \in Held(tx[s])
      BY <1>1, WriteXidIn DEF Held
  <2> QED  BY <2>1
<1>7. Rest(y.rows, act, tx, df, s)
  <2> DEFINE S == y.rows
             w == c.write_xid
  <2>1. S \in Seq(RowIn(N)) /\ Wr(R, S, y.ops, w) /\ w \in Held(tx[s])
      BY <1>5, <1>6
  <2> HIDE DEF S, w
  <2>2. Rest(S, act, tx, df, s)
      BY <1>2, <2>1, RestWrote
  <2> QED  BY <2>2 DEF S
<1>8. Fine(y.rows, act, [tx EXCEPT ![s] = u])
  <2>1. Tops(N, tx, [tx EXCEPT ![s] = u])
      BY <1>1, <1>4, TopsPut
  <2> QED  BY <1>1, <1>5, <2>1, FineFresh
<1>9. SInv(y.rows, act, u, d.queue)
    BY <1>4
<1>10. Kept(y.rows, act, [tx EXCEPT ![s] = u], [df EXCEPT ![s] = d])
    BY <1>1, <1>7, <1>8, <1>9, KeptPut
<1> QED  BY <1>10 DEF u

-----------------------------------------------------------------------------
(* Undoing a log is purging the rows of the xids it belongs to.               *)

(* What the ops after m make of a row: gone, given back, or as it was.        *)
Gone(R, owns, ops, m, id) == R[id].xmin \in owns /\ \E i \in m + 1 .. Len(ops) : ops[i].new = id
Back(R, owns, ops, m, id) == R[id].xmax \in owns /\ \E i \in m + 1 .. Len(ops) : ops[i].old = id
Undone(R, S, owns, ops, m, id) ==
    /\ Gone(R, owns, ops, m, id) => S[id] = NoRow
    /\ ~Gone(R, owns, ops, m, id) /\ Back(R, owns, ops, m, id) => S[id] = [R[id] EXCEPT !.xmax = 0]
    /\ ~Gone(R, owns, ops, m, id) /\ ~Back(R, owns, ops, m, id) => S[id] = R[id]

LEMMA GoneStep ==
    ASSUME NEW R, NEW owns, NEW ops, Len(ops) \in Nat, NEW m \in 1 .. Len(ops), NEW id
    PROVE  /\ Gone(R, owns, ops, m - 1, id) <=>
                 Gone(R, owns, ops, m, id) \/ (R[id].xmin \in owns /\ ops[m].new = id)
           /\ Back(R, owns, ops, m - 1, id) <=>
                 Back(R, owns, ops, m, id) \/ (R[id].xmax \in owns /\ ops[m].old = id)
<1>1. /\ m - 1 + 1 .. Len(ops) = m .. Len(ops) /\ m \in m .. Len(ops)
      /\ \A i \in m .. Len(ops) : i = m \/ i \in m + 1 .. Len(ops)
      /\ \A i \in m + 1 .. Len(ops) : i \in m .. Len(ops)
    OBVIOUS
<1>2. (\E i \in m .. Len(ops) : ops[i].new = id) <=>
         (ops[m].new = id \/ \E i \in m + 1 .. Len(ops) : ops[i].new = id)
    BY <1>1
<1>3. (\E i \in m .. Len(ops) : ops[i].old = id) <=>
         (ops[m].old = id \/ \E i \in m + 1 .. Len(ops) : ops[i].old = id)
    BY <1>1
<1> QED  BY <1>1, <1>2, <1>3 DEF Gone, Back

LEMMA UndoneStep ==
    ASSUME NEW N \in Nat, N # 0, NEW R \in Seq(RowIn(N)), NEW S \in Seq(RowIn(N)), Len(S) = Len(R),
           NEW owns, 0 \notin owns, NEW ops \in Seq(OpIn(N)), NEW m \in 1 .. Len(ops), ops[m].prev = 0,
           NEW id \in 1 .. Len(R), Undone(R, S, owns, ops, m, id)
    PROVE  Undone(R, undo_write_op(S, owns, ops[m]), owns, ops, m - 1, id)
<1> DEFINE w == ops[m]
           V == undo_write_op(S, owns, w)
           r == R[id]
           g == Gone(R, owns, ops, m, id)
           b == Back(R, owns, ops, m, id)
<1>1. w \in OpIn(N) /\ id \in 1 .. Len(S) /\ Len(ops) \in Nat
    OBVIOUS
<1>2. V[id] = IF id = w.new /\ S[id].xmin \in owns THEN NoRow
              ELSE IF id = w.old /\ S[id].xmax \in owns THEN [S[id] EXCEPT !.xmax = w.prev]
              ELSE S[id]
  <2> HIDE DEF w
  <2> QED  BY <1>1, UndoOpIn
<1>3. r \in RowIn(N) /\ w.prev = 0
    OBVIOUS
<1>4. /\ Gone(R, owns, ops, m - 1, id) <=> g \/ (r.xmin \in owns /\ w.new = id)
      /\ Back(R, owns, ops, m - 1, id) <=> b \/ (r.xmax \in owns /\ w.old = id)
    BY <1>1, GoneStep
<1>5. /\ g => S[id] = NoRow
      /\ ~g /\ b => S[id] = [r EXCEPT !.xmax = 0]
      /\ ~g /\ ~b => S[id] = r
      /\ b => r.xmax \in owns
    BY DEF Undone, Back
<1>6. /\ NoRow.xmin = 0 /\ NoRow.xmax = 0
      /\ r = [table |-> r.table, key |-> r.key, xmin |-> r.xmin, xmax |-> r.xmax]
    BY <1>3 DEF NoRow, RowIn
<1> HIDE DEF V, w, r, g, b
<1>7. CASE g
  <2>1. S[id] = NoRow
      BY <1>5, <1>7
  <2>2. V[id] = NoRow
      BY <1>2, <1>6, <2>1
  <2> QED  BY <1>4, <1>7, <2>2 DEF Undone, V, w
<1>8. CASE ~g /\ b
  <2>1. S[id] = [r EXCEPT !.xmax = 0] /\ S[id].xmin = r.xmin /\ S[id].xmax = 0
      BY <1>5, <1>6, <1>8
  <2>2. V[id] = IF id = w.new /\ r.xmin \in owns THEN NoRow ELSE S[id]
      BY <1>2, <2>1
  <2> QED  BY <1>4, <1>8, <2>1, <2>2 DEF Undone, V, w, r
<1>9. CASE ~g /\ ~b
  <2>1. S[id] = r
      BY <1>5, <1>9
  <2>2. V[id] = IF id = w.new /\ r.xmin \in owns THEN NoRow
                ELSE IF id = w.old /\ r.xmax \in owns THEN [r EXCEPT !.xmax = 0]
                ELSE r
      BY <1>2, <1>3, <2>1
  <2> QED  BY <1>4, <1>9, <2>2 DEF Undone, V, w, r
<1> QED  BY <1>7, <1>8, <1>9

(* Z is what of owns the log's ops wrote.                                     *)
Undoes(R, owns, ops, Z) ==
    /\ 0 \notin owns /\ 0 \notin Z
    /\ \A i \in 1 .. Len(ops) : ops[i].prev = 0
    /\ \A id \in 1 .. Len(R) :
          /\ R[id].xmin \in Z <=> Gone(R, owns, ops, 0, id)
          /\ R[id].xmax \in Z <=> Back(R, owns, ops, 0, id)

(* The rows after each op of the undo.                                        *)
Trace(u, R, owns, ops) ==
    /\ u[0] = R
    /\ \A n \in 1 .. Len(ops) : u[n] = undo_write_op(u[n - 1], owns, ops[Len(ops) - n + 1])
    /\ undo_all(R, owns, ops) = u[Len(ops)]

LEMMA UndoTrace ==
    ASSUME NEW R, NEW owns, NEW ops, Len(ops) \in Nat
    PROVE  \E u : Trace(u, R, owns, ops)
    BY UndoRun DEF Trace

LEMMA UndoIsPurge ==
    ASSUME NEW N \in Nat, N # 0, NEW R \in Seq(RowIn(N)), NEW owns, NEW ops \in Seq(OpIn(N)),
           NEW Z, Undoes(R, owns, ops, Z)
    PROVE  undo_all(R, owns, ops) = Purge(R, Z)
<1> DEFINE L == Len(ops)
           P(m, x) == /\ x \in Seq(RowIn(N)) /\ Len(x) = Len(R)
                      /\ \A id \in 1 .. Len(R) : Undone(R, x, owns, ops, m, id)
<1>1. L \in Nat /\ L \in 0 .. L /\ Len(R) \in Nat /\ 0 \notin owns
    BY DEF Undoes
<1>2. PICK u : Trace(u, R, owns, ops)
  <2>1. Len(ops) \in Nat
      BY <1>1
  <2> QED  BY ONLY <2>1, UndoTrace
<1>2a. /\ u[0] = R
       /\ \A n \in 1 .. L : u[n] = undo_write_op(u[n - 1], owns, ops[L - n + 1])
       /\ undo_all(R, owns, ops) = u[L]
    BY <1>2 DEF Trace
<1>3. ASSUME NEW n \in 1 .. L, P(L - (n - 1), u[n - 1]) PROVE P(L - n, u[n])
  <2> DEFINE m == L - n + 1
             S == u[n - 1]
  <2>1. m \in 1 .. L /\ L - (n - 1) = m /\ m - 1 = L - n
      BY <1>1
  <2>2. P(m, S) /\ u[n] = undo_write_op(S, owns, ops[m])
      BY <1>2a, <1>3, <2>1
  <2>3. ops[m].prev = 0 /\ ops[m] \in OpIn(N)
      BY <2>1 DEF Undoes
  <2> HIDE DEF m, S
  <2>4. S \in Seq(RowIn(N)) /\ Len(S) = Len(R) /\ \A id \in 1 .. Len(R) : Undone(R, S, owns, ops, m, id)
      BY <2>2
  <2>5. undo_write_op(S, owns, ops[m]) \in Seq(RowIn(N)) /\ Len(undo_write_op(S, owns, ops[m])) = Len(R)
      BY <2>3, <2>4, UndoOpIn
  <2>6. \A id \in 1 .. Len(R) : Undone(R, undo_write_op(S, owns, ops[m]), owns, ops, m - 1, id)
      BY <1>1, <2>1, <2>3, <2>4, UndoneStep
  <2> QED  BY <2>1, <2>2, <2>5, <2>6
<1>4. P(L - 0, u[0])
  <2>1. \A id \in 1 .. Len(R) : ~Gone(R, owns, ops, L, id) /\ ~Back(R, owns, ops, L, id)
      BY <1>1 DEF Gone, Back
  <2>2. \A id \in 1 .. Len(R) : Undone(R, R, owns, ops, L, id)
      BY <2>1 DEF Undone
  <2> QED  BY <1>1, <1>2a, <2>2
<1> DEFINE G == {n \in 0 .. L : P(L - n, u[n])}
<1>5. \A n \in 0 .. L : n \in G
  <2>1. 0 \in G
      BY <1>1, <1>4
  <2>2. \A n \in 1 .. L : n - 1 \in G => n \in G
      BY <1>1, <1>3
  <2> HIDE DEF G
  <2> QED  BY <1>1, <2>1, <2>2, CountUp
<1>6. P(0, u[L])
  <2>1. L \in G
      BY <1>1, <1>5
  <2>2. L - L = 0
      BY <1>1
  <2> QED  BY <2>1, <2>2
<1> DEFINE S == undo_all(R, owns, ops)
           V == Purge(R, Z)
<1>7. S \in Seq(RowIn(N)) /\ Len(S) = Len(R) /\ \A id \in 1 .. Len(R) : Undone(R, S, owns, ops, 0, id)
    BY <1>2a, <1>6
<1>8. V \in Seq(RowIn(N)) /\ Len(V) = Len(R)
    BY PurgeIs
<1>9. ASSUME NEW id \in 1 .. Len(R) PROVE S[id] = V[id]
  <2>1. V[id] = IF R[id].xmin \in Z THEN NoRow
                ELSE IF R[id].xmax \in Z THEN [R[id] EXCEPT !.xmax = 0]
                ELSE R[id]
      BY DEF Purge
  <2> HIDE DEF S, V
  <2>2. Undone(R, S, owns, ops, 0, id)
      BY <1>7
  <2>3. /\ R[id].xmin \in Z <=> Gone(R, owns, ops, 0, id)
        /\ R[id].xmax \in Z <=> Back(R, owns, ops, 0, id)
      BY DEF Undoes
  <2> QED  BY <2>1, <2>2, <2>3 DEF Undone
<1> HIDE DEF S, V
<1>10. S = V
    BY <1>7, <1>8, <1>9
<1> QED  BY <1>10 DEF S, V

-----------------------------------------------------------------------------
(* The end of a transaction: what it did is committed, or undone.             *)

(* Session s has a transaction open, and what must hold does.                 *)
Doing(N, R, act, tx, df, s) ==
    /\ World(N, R, act, tx) /\ Kept(R, act, tx, df) /\ df \in [Sessions -> DeferralIn]
    /\ s \in Sessions /\ tx[s].xid # 0

LEMMA DoingIs ==
    ASSUME NEW N, NEW R, NEW act, NEW tx, NEW df, NEW s, Doing(N, R, act, tx, df, s)
    PROVE  /\ World(N, R, act, tx) /\ Kept(R, act, tx, df) /\ df \in [Sessions -> DeferralIn]
           /\ s \in Sessions /\ tx[s].xid # 0
           /\ N \in Nat /\ N # 0 /\ R \in Seq(RowIn(N)) /\ tx \in [Sessions -> TxnIn(N)]
           /\ tx[s] \in TxnIn(N) /\ Scoped(tx[s]) /\ Owned(act, tx) /\ 0 \notin act
           /\ Held(tx[s]) \subseteq act /\ Held(tx[s]) = all_xids(tx[s]) /\ 0 \notin Held(tx[s])
           /\ tx[s].xid \in Held(tx[s]) /\ write_xid(tx[s]) \in Held(tx[s])
           /\ \A o \in Sessions : 0 \notin Held(tx[o])
           /\ Fine(R, act, tx) /\ Rest(R, act, tx, df, s) /\ Apart(R, tx)
           /\ df[s].queue \in Seq(PendingFk)
           /\ Postponed(R, tx[s], df[s].queue) /\ Open(R, act, tx[s], df[s].queue)
<1>1. /\ World(N, R, act, tx) /\ Kept(R, act, tx, df) /\ df \in [Sessions -> DeferralIn]
      /\ s \in Sessions /\ tx[s].xid # 0
    BY DEF Doing
<1>2. /\ N \in Nat /\ N # 0 /\ R \in Seq(RowIn(N)) /\ tx \in [Sessions -> TxnIn(N)]
      /\ tx[s] \in TxnIn(N) /\ Scoped(tx[s]) /\ Owned(act, tx) /\ 0 \notin act
      /\ Held(tx[s]) \subseteq act /\ 0 \notin Held(tx[s])
      /\ \A o \in Sessions : 0 \notin Held(tx[o])
    BY <1>1, WorldFacts
<1>3. Held(tx[s]) = all_xids(tx[s]) /\ tx[s].xid \in Held(tx[s])
    BY <1>1, HeldIs DEF all_xids
<1>4. write_xid(tx[s]) \in Held(tx[s])
    BY <1>1, <1>2, WriteXidIn DEF Held
<1>5. /\ Fine(R, act, tx) /\ Rest(R, act, tx, df, s) /\ Apart(R, tx)
      /\ Postponed(R, tx[s], df[s].queue) /\ Open(R, act, tx[s], df[s].queue)
    BY <1>1, KeptIs
<1>6. df[s].queue \in Seq(PendingFk)
  <2>1. df[s] \in DeferralIn
      BY <1>1
  <2> QED  BY <2>1 DEF DeferralIn
<1> QED  BY <1>1, <1>2, <1>3, <1>4, <1>5, <1>6

LEMMA NoneOpen ==
    ASSUME NEW R, NEW act, NEW q, \A i \in 1 .. Len(q) : q[i].side # "parent"
    PROVE  SInv(R, act, NoTxn, q)
    BY DEF SInv, Postponed, NoTxn

LEMMA EndKept ==
    ASSUME NEW N, NEW R, NEW act, NEW tx, NEW df, NEW s, Doing(N, R, act, tx, df, s),
           NEW S, NEW act2, Rest(S, act2, tx, df, s), Fine(S, act2, [tx EXCEPT ![s] = NoTxn]),
           NEW d, \A i \in 1 .. Len(d.queue) : d.queue[i].side # "parent"
    PROVE  Kept(S, act2, [tx EXCEPT ![s] = NoTxn], [df EXCEPT ![s] = d])
<1>1. tx \in [Sessions -> TxnIn(N)] /\ df \in [Sessions -> DeferralIn] /\ s \in Sessions
    BY DoingIs
<1>2. SInv(S, act2, NoTxn, d.queue)
  <2> DEFINE q == d.queue
  <2>1. \A i \in 1 .. Len(q) : q[i].side # "parent"
      OBVIOUS
  <2> HIDE DEF q
  <2>2. SInv(S, act2, NoTxn, q)
      BY <2>1, NoneOpen
  <2> QED  BY <2>2 DEF q
<1> QED  BY <1>1, <1>2, KeptPut

LEMMA TopsEnd ==
    ASSUME NEW N, NEW tx \in [Sessions -> TxnIn(N)], NEW s \in Sessions
    PROVE  Tops(N, tx, [tx EXCEPT ![s] = NoTxn])
<1> DEFINE t == NoTxn
<1>1. \A x \in Held(t) : x \in Held(tx[s]) \/ x = N
    BY DEF Held, NoTxn
<1> HIDE DEF t
<1>2. Tops(N, tx, [tx EXCEPT ![s] = t])
    BY <1>1, TopsPut
<1> QED  BY <1>2 DEF t

(* COMMIT after its queue has fired.                                          *)
LEMMA EndCommit ==
    ASSUME NEW N, NEW R, NEW act, NEW tx, NEW df, NEW s, Doing(N, R, act, tx, df, s),
           NEW c, c.write_xid = write_xid(tx[s]), NEW st, NEW y, Fired(N, R, act, tx, s, c, st, y), y.ok,
           NEW d, d.queue = <<>>
    PROVE  Kept(y.rows, act \ Held(tx[s]), [tx EXCEPT ![s] = NoTxn], [df EXCEPT ![s] = d])
<1> DEFINE S == y.rows
           ops == y.ops
           w == write_xid(tx[s])
           Z == Held(tx[s])
<1>1. /\ World(N, R, act, tx) /\ s \in Sessions /\ N \in Nat /\ Rest(R, act, tx, df, s)
      /\ tx \in [Sessions -> TxnIn(N)] /\ w \in Z
    BY DoingIs
<1>2. /\ S \in Seq(RowIn(N)) /\ Wr(R, S, ops, w) /\ Fine(S, act, tx)
      /\ Cover(S, act, Z, tx[s].owned_xids, <<>>)
  <2>1. /\ y \in StateIn(N) /\ Wr(R, S, ops, w) /\ Fine(S, act, tx)
        /\ Cover(S, act, Z, tx[s].owned_xids, <<>>)
      BY DEF Fired
  <2> QED  BY <2>1 DEF StateIn
<1> HIDE DEF S, ops, w
<1>3. Rest(S, act, tx, df, s)
  <2>1. w \in Held(tx[s])
      BY <1>1
  <2> QED  BY <1>1, <1>2, <2>1, RestWrote
<1>4. World(N, S, act, tx)
    BY <1>1, <1>2 DEF World
<1>5. Rest(S, act \ Held(tx[s]), tx, df, s)
    BY <1>1, <1>2, <1>3, <1>4, RestCommitted
<1>6. Tops(N, tx, [tx EXCEPT ![s] = NoTxn])
    BY <1>1, TopsEnd
<1>7. Fine(S, act \ Held(tx[s]), [tx EXCEPT ![s] = NoTxn])
    BY <1>1, <1>2, <1>6, FineEnded
<1>8. \A i \in 1 .. Len(d.queue) : d.queue[i].side # "parent"
    OBVIOUS
<1>9. Kept(S, act \ Held(tx[s]), [tx EXCEPT ![s] = NoTxn], [df EXCEPT ![s] = d])
    BY <1>5, <1>7, <1>8, EndKept
<1> QED  BY <1>9 DEF S

(* The log of a transaction is of all its xids.                               *)
LEMMA WholeLog ==
    ASSUME NEW N \in Nat, N # 0, NEW R \in Seq(RowIn(N)), NEW t \in TxnIn(N), t.xid # 0, Scoped(t),
           0 \notin Held(t), NEW q, Marks(t, q), Logged(R, t),
           NEW y \in StateIn(N), Wr(R, y.rows, y.ops, write_xid(t)),
           NEW v, Joined(v, t.writes, y.ops)
    PROVE  v \in Seq(OpIn(N)) /\ Undoes(y.rows, Held(t), v, Held(t))
<1> DEFINE S == y.rows
           Z == Held(t)
           e == y
           u == RanTxn(t, y, e)
<1> HIDE DEF e
<1>1. Logged(S, u)
    BY LoggedRan
<1>2. u.saves = t.saves /\ Joined(u.writes, t.writes, y.ops) /\ From(u, 0) = From(t, 0) /\ Held(u) = Held(t)
      /\ Mark(u, 0) = Mark(t, 0)
  <2>1. u = RanTxn(t, y, e)
      OBVIOUS
  <2> HIDE DEF u
  <2>2. /\ u.saves = t.saves /\ Joined(u.writes, t.writes, y.ops) /\ Held(u) = Held(t)
        /\ \A k : From(u, k) = From(t, k) /\ Mark(u, k) = Mark(t, k)
      BY <2>1, RanIs
  <2> QED  BY <2>2
<1>3. From(t, 0) = Z /\ Len(t.saves) \in Nat
    BY Scopes
<1>4. u.writes = v
    BY <1>2 DEF Joined
<1>5. v \in Seq(OpIn(N))
  <2>1. t.writes \in Seq(OpIn(N)) /\ y.ops \in Seq(OpIn(N))
      BY DEF TxnIn, StateIn
  <2>2. v = t.writes \o y.ops
      BY DEF Joined
  <2> QED  BY <2>1, <2>2
<1> HIDE DEF S, u, Z
<1>6. \A i \in 1 .. Len(v) : v[i].prev = 0
    BY <1>1, <1>4 DEF Logged
<1>7. ASSUME NEW id \in 1 .. Len(S)
      PROVE  /\ S[id].xmin \in Z <=> Gone(S, Z, v, 0, id)
             /\ S[id].xmax \in Z <=> Back(S, Z, v, 0, id)
  <2>1. 0 \in 0 .. Len(u.saves)
      BY <1>2, <1>3
  <2>2. LoggedOn(S, u, From(u, 0), Mark(u, 0), id)
      BY <1>1, <2>1 DEF Logged
  <2>3. From(u, 0) = Z /\ Mark(u, 0) = 0
      BY <1>2, <1>3 DEF Mark
  <2>4. LoggedOn(S, u, Z, 0, id)
      BY <2>2, <2>3
  <2>5. /\ S[id].xmin \in Z => \E i \in 0 + 1 .. Len(v) : v[i].new = id
        /\ S[id].xmax \in Z => \E i \in 0 + 1 .. Len(v) : v[i].old = id
      BY <1>4, <2>4 DEF LoggedOn
  <2> QED  BY <2>5 DEF Gone, Back
<1>8. Undoes(S, Z, v, Z)
    BY <1>6, <1>7 DEF Undoes, Z
<1> QED  BY <1>5, <1>8 DEF S, Z

(* ROLLBACK, and what fails outside a block or at COMMIT.                     *)
LEMMA EndUndone ==
    ASSUME NEW N, NEW R, NEW act, NEW tx, NEW df, NEW s, Doing(N, R, act, tx, df, s),
           NEW y \in StateIn(N), Wr(R, y.rows, y.ops, write_xid(tx[s])), Fine(y.rows, act, tx),
           NEW v, Joined(v, tx[s].writes, y.ops),
           NEW d, \A i \in 1 .. Len(d.queue) : d.queue[i].side # "parent"
    PROVE  Kept(undo_all(y.rows, Held(tx[s]), v), act \ Held(tx[s]),
                [tx EXCEPT ![s] = NoTxn], [df EXCEPT ![s] = d])
<1> DEFINE S == y.rows
           t == tx[s]
           Z == Held(t)
           w == write_xid(t)
           P == Purge(S, Z)
           tx2 == [tx EXCEPT ![s] = NoTxn]
           A == act \ Z
<1>1. /\ World(N, R, act, tx) /\ s \in Sessions /\ N \in Nat /\ N # 0 /\ R \in Seq(RowIn(N))
      /\ Rest(R, act, tx, df, s) /\ t \in TxnIn(N) /\ t.xid # 0 /\ Scoped(t) /\ 0 \notin act
      /\ 0 \notin Z /\ tx \in [Sessions -> TxnIn(N)] /\ w \in Z /\ Z \subseteq act
      /\ \A o \in Sessions : 0 \notin Held(tx[o])
      /\ Open(R, act, t, df[s].queue)
    BY DoingIs
<1>2. S \in Seq(RowIn(N)) /\ y.ops \in Seq(OpIn(N)) /\ Wr(R, S, y.ops, w) /\ Fine(S, act, tx)
    BY DEF StateIn
<1>3. undo_all(S, Z, v) = P
  <2>1. Marks(t, df[s].queue) /\ Logged(R, t)
      BY <1>1 DEF Open
  <2>2. t.xid # 0 /\ Joined(v, t.writes, y.ops) /\ Wr(R, y.rows, y.ops, write_xid(t)) /\ 0 \notin Held(t)
      BY <1>1
  <2> HIDE DEF t
  <2>3. v \in Seq(OpIn(N)) /\ Undoes(y.rows, Held(t), v, Held(t))
      BY <1>1, <2>1, <2>2, WholeLog
  <2> QED  BY <1>1, <1>2, <2>3, UndoIsPurge
<1>4. Rest(S, act, tx, df, s)
  <2> HIDE DEF S, w, Z
  <2>1. w \in Held(tx[s])
      BY <1>1 DEF Z
  <2> DEFINE ops == y.ops
  <2>2. Wr(R, S, ops, w)
      BY <1>2
  <2> HIDE DEF ops
  <2> QED  BY <1>1, <1>2, <2>1, <2>2, RestWrote
<1>5. World(N, S, act, tx) /\ Apart(S, tx)
    BY <1>1, <1>2 DEF World, Fine
<1>6. Outside(N, Z, act, A)
    BY DEF Outside
<1>7. Rest(P, A, tx, df, s)
  <2>1. Z \subseteq Held(tx[s])
      OBVIOUS
  <2> HIDE DEF Z, A, S
  <2> QED  BY <1>1, <1>4, <1>5, <1>6, <2>1, RestPurged
<1>8. Tops(N, tx, tx2)
    BY <1>1, TopsEnd
<1>9. Fine(P, A, tx2)
  <2> HIDE DEF Z, A, S, tx2
  <2> QED  BY <1>1, <1>2, <1>6, <1>8, FinePurged
<1> HIDE DEF P, A
<1>10. Kept(P, A, [tx EXCEPT ![s] = NoTxn], [df EXCEPT ![s] = d])
    BY <1>7, <1>9, EndKept
<1> QED  BY <1>3, <1>10 DEF A

-----------------------------------------------------------------------------
(* RELEASE, SAVEPOINT and ROLLBACK TO.                                        *)

LEMMA ReleasedIs ==
    ASSUME NEW N \in Nat, NEW t \in TxnIn(N), t.xid # 0, Scoped(t), t.saves # <<>>,
           NEW u, u = ReleasedTxn(t)
    PROVE  /\ u.xid = t.xid /\ u.owned_xids = t.owned_xids /\ u.writes = t.writes
           /\ u.failed = t.failed /\ Held(u) = Held(t)
           /\ Len(t.saves) \in Nat /\ Len(u.saves) = Len(t.saves) - 1
           /\ \A k \in 1 .. Len(u.saves) : u.saves[k] = t.saves[k]
           /\ \A k \in 0 .. Len(u.saves) : From(u, k) = From(t, k) /\ Mark(u, k) = Mark(t, k)
<1> DEFINE sv == Front(t.saves)
           sx == Front(t.sub_xids)
<1>1. /\ t.saves \in Seq(MarkIn) /\ t.sub_xids \in Seq(0 .. N - 1) /\ Len(t.saves) = Len(t.sub_xids)
      /\ t = [xid |-> t.xid, sub_xids |-> t.sub_xids, owned_xids |-> t.owned_xids, writes |-> t.writes,
              saves |-> t.saves, failed |-> t.failed, deletes |-> t.deletes]
    BY DEF TxnIn, Scoped
<1>2. /\ Len(t.saves) \in Nat /\ Len(sv) = Len(t.saves) - 1
      /\ \A k \in 1 .. Len(t.saves) - 1 : sv[k] = t.saves[k]
    BY <1>1, FrontIs
<1>3. \A k \in 1 .. Len(t.saves) - 1 : sx[k] = t.sub_xids[k]
  <2>1. t.sub_xids # <<>>
    <3> DEFINE a == t.saves
               b == t.sub_xids
    <3>1. a \in Seq(MarkIn) /\ Len(a) = Len(b) /\ a # <<>>
        BY <1>1
    <3> HIDE DEF a, b
    <3>2. b # <<>>
        BY <3>1
    <3> QED  BY <3>2 DEF b
  <2> QED  BY <1>1, <2>1, FrontIs
<1>4. u = [t EXCEPT !.saves = sv, !.sub_xids = sx]
    BY DEF ReleasedTxn
<1> HIDE DEF sv, sx
<1>5. /\ u.xid = t.xid /\ u.owned_xids = t.owned_xids /\ u.writes = t.writes /\ u.failed = t.failed
      /\ u.saves = sv /\ u.sub_xids = sx
    BY <1>1, <1>4
<1>6. Held(u) = Held(t)
    BY <1>5 DEF Held, all_xids
<1>7. ASSUME NEW k \in 0 .. Len(sv) PROVE From(u, k) = From(t, k) /\ Mark(u, k) = Mark(t, k)
  <2>1. k = 0 \/ k \in 1 .. Len(t.saves) - 1
      BY <1>2
  <2>2. Lo(u, k) = Lo(t, k) /\ Mark(u, k) = Mark(t, k)
      BY <1>2, <1>3, <1>5, <2>1 DEF Lo, Mark
  <2> QED  BY <1>6, <2>2 DEF From
<1> QED  BY <1>2, <1>5, <1>6, <1>7

LEMMA ReleaseOpen ==
    ASSUME NEW N \in Nat, NEW R, NEW act, NEW t \in TxnIn(N), t.xid # 0, Scoped(t), t.saves # <<>>,
           NEW q, Postponed(R, t, q), Open(R, act, t, q)
    PROVE  SInv(R, act, ReleasedTxn(t), q) /\ Held(ReleasedTxn(t)) = Held(t)
<1> DEFINE u == ReleasedTxn(t)
<1>1. /\ u.xid = t.xid /\ u.owned_xids = t.owned_xids /\ u.writes = t.writes
      /\ u.failed = t.failed /\ Held(u) = Held(t)
      /\ Len(t.saves) \in Nat /\ Len(u.saves) = Len(t.saves) - 1
      /\ \A k \in 1 .. Len(u.saves) : u.saves[k] = t.saves[k]
      /\ \A k \in 0 .. Len(u.saves) : From(u, k) = From(t, k) /\ Mark(u, k) = Mark(t, k)
  <2>1. u = ReleasedTxn(t)
      OBVIOUS
  <2> HIDE DEF u
  <2> QED  BY <2>1, ReleasedIs
<1> HIDE DEF u
<1>2. /\ \A k \in 1 .. Len(u.saves) : k \in 1 .. Len(t.saves)
      /\ \A k \in 0 .. Len(u.saves) : k \in 0 .. Len(t.saves)
    BY <1>1
<1>3. Marks(t, q) /\ Logged(R, t) /\ TopOnly(R, t)
    BY DEF Open
<1>4. Postponed(R, u, q) /\ TopOnly(R, u)
    BY <1>1, <1>3 DEF Postponed, TopOnly
<1>5. Marks(u, q)
    BY <1>1, <1>2, <1>3 DEF Marks
<1>6. Logged(R, u)
  <2>1. ASSUME NEW k \in 0 .. Len(u.saves), NEW id \in 1 .. Len(R)
        PROVE  LoggedOn(R, u, From(u, k), Mark(u, k), id)
    <3>1. LoggedOn(R, t, From(t, k), Mark(t, k), id)
        BY <1>2, <1>3 DEF Logged
    <3> QED  BY <1>1, <3>1 DEF LoggedOn
  <2> QED  BY <1>1, <1>3, <2>1 DEF Logged
<1>7. ~u.failed => Cover(R, act, Held(u), u.owned_xids, q)
    BY <1>1 DEF Open
<1>8. ASSUME NEW k \in 1 .. Len(u.saves) PROVE LevelCover(R, act, u, q, k)
  <2>1. LevelCover(R, act, t, q, k) /\ k \in 0 .. Len(u.saves)
      BY <1>1, <1>2 DEF Open
  <2> QED  BY <1>1, <2>1 DEF LevelCover
<1>9. Open(R, act, u, q)
    BY <1>4, <1>5, <1>6, <1>7, <1>8 DEF Open
<1> QED  BY <1>1, <1>4, <1>9 DEF SInv, u

LEMMA ReleaseKept ==
    ASSUME NEW N, NEW R, NEW act, NEW tx, NEW df, NEW s, Doing(N, R, act, tx, df, s),
           tx[s].saves # <<>>
    PROVE  Kept(R, act, [tx EXCEPT ![s] = ReleasedTxn(tx[s])], df)
<1> DEFINE t == tx[s]
           q == df[s].queue
           u == ReleasedTxn(t)
<1>1. /\ s \in Sessions /\ N \in Nat /\ R \in Seq(RowIn(N)) /\ tx \in [Sessions -> TxnIn(N)]
      /\ df \in [Sessions -> DeferralIn]
      /\ t \in TxnIn(N) /\ t.xid # 0 /\ Scoped(t) /\ Rest(R, act, tx, df, s) /\ Fine(R, act, tx)
      /\ Postponed(R, t, q) /\ Open(R, act, t, q)
    BY DoingIs
<1>2. SInv(R, act, u, q) /\ Held(u) = Held(t)
  <2>1. t.saves # <<>>
      OBVIOUS
  <2> HIDE DEF t, q
  <2> QED  BY <1>1, <2>1, ReleaseOpen
<1> HIDE DEF u
<1>3. Tops(N, tx, [tx EXCEPT ![s] = u])
    BY <1>1, <1>2, TopsPut
<1>4. Fine(R, act, [tx EXCEPT ![s] = u])
    BY <1>1, <1>3, FineFresh
<1> DEFINE d == df[s]
<1>5. SInv(R, act, u, d.queue) /\ [df EXCEPT ![s] = d] = df
    BY <1>1, <1>2
<1> HIDE DEF d
<1>6. Kept(R, act, [tx EXCEPT ![s] = u], [df EXCEPT ![s] = d])
    BY <1>1, <1>4, <1>5, KeptPut
<1> QED  BY <1>5, <1>6 DEF u

(* u is t with one scope more, or with its last scope started again, under xid *)
(* N, the fields named.                                                        *)
Opened(N, t, u) ==
    /\ u.xid = t.xid /\ u.owned_xids = t.owned_xids \cup {N} /\ Held(u) = Held(t) \cup {N}
    /\ Len(t.saves) \in Nat /\ Len(u.saves) \in Nat /\ Len(u.saves) # 0
    /\ \A k \in 0 .. Len(u.saves) - 1 :
          /\ From(u, k) = From(t, k) \cup {N} /\ Mark(u, k) = Mark(t, k) /\ k \in 0 .. Len(t.saves)
          /\ k # 0 => u.saves[k] = t.saves[k]
    /\ From(u, Len(u.saves)) = {N}
    /\ Mark(u, Len(u.saves)) = Len(u.writes)

(* The fields alone decide the scopes.                                        *)
LEMMA OpenedIs ==
    ASSUME NEW N \in Nat, N # 0, NEW t \in TxnIn(N), t.xid # 0, Scoped(t), NEW u,
           u.xid = t.xid, u.owned_xids = t.owned_xids \cup {N},
           Len(u.saves) \in Nat, Len(u.saves) # 0, Len(u.saves) - 1 <= Len(t.saves),
           \A k \in 1 .. Len(u.saves) - 1 : u.saves[k] = t.saves[k] /\ u.sub_xids[k] = t.sub_xids[k],
           u.sub_xids[Len(u.saves)] = N, u.saves[Len(u.saves)].writes = Len(u.writes)
    PROVE  Opened(N, t, u)
<1>1. /\ t.saves \in Seq(MarkIn) /\ t.sub_xids \in Seq(0 .. N - 1) /\ Len(t.saves) = Len(t.sub_xids)
      /\ t.xid \in 0 .. N - 1 /\ t.owned_xids \in SUBSET (0 .. N - 1)
    BY DEF TxnIn, Scoped
<1>2. Held(u) = Held(t) \cup {N} /\ \A x \in Held(t) : x \in 0 .. N - 1
    BY <1>1 DEF Held, all_xids
<1>3. Len(t.saves) \in Nat
    BY <1>1
<1>4. ASSUME NEW k \in 0 .. Len(u.saves) - 1
      PROVE  /\ From(u, k) = From(t, k) \cup {N} /\ Mark(u, k) = Mark(t, k) /\ k \in 0 .. Len(t.saves)
             /\ k # 0 => u.saves[k] = t.saves[k]
  <2>1. k \in 0 .. Len(t.saves) /\ (k = 0 \/ (k \in 1 .. Len(u.saves) - 1 /\ k \in 1 .. Len(t.sub_xids)))
      BY <1>1, <1>3
  <2>2. Lo(u, k) = Lo(t, k) /\ Mark(u, k) = Mark(t, k) /\ Lo(t, k) \in 0 .. N - 1
    <3>1. CASE k = 0
        BY <1>1, <3>1 DEF Lo, Mark
    <3>2. CASE k # 0
      <4>1. k \in 1 .. Len(u.saves) - 1 /\ k \in 1 .. Len(t.sub_xids)
          BY <2>1, <3>2
      <4>2. u.saves[k] = t.saves[k] /\ u.sub_xids[k] = t.sub_xids[k]
          BY <4>1
      <4>3. t.sub_xids \in Seq(0 .. N - 1)
          BY <1>1
      <4>4. t.sub_xids[k] \in 0 .. N - 1
          BY <4>1, <4>3, ElementOfSeq
      <4> QED  BY <3>2, <4>2, <4>4 DEF Lo, Mark
    <3> QED  BY <3>1, <3>2
  <2>3. Lo(t, k) <= N
      BY <2>2
  <2> QED  BY <1>2, <2>1, <2>2, <2>3 DEF From
<1>5. From(u, Len(u.saves)) = {N} /\ Mark(u, Len(u.saves)) = Len(u.writes)
  <2>1. Lo(u, Len(u.saves)) = N
      BY DEF Lo
  <2>2. \A x \in Held(t) : ~(N <= x)
      BY <1>2
  <2> QED  BY <1>2, <2>1, <2>2 DEF From, Mark
<1> QED  BY <1>2, <1>3, <1>4, <1>5 DEF Opened

LEMMA SavedIs ==
    ASSUME NEW N \in Nat, N # 0, NEW t \in TxnIn(N), t.xid # 0, Scoped(t),
           NEW mark \in MarkIn, mark.writes = Len(t.writes), NEW u, u = SavedTxn(t, mark, N)
    PROVE  /\ Opened(N, t, u) /\ u.writes = t.writes /\ u.failed = t.failed
           /\ Len(u.saves) = Len(t.saves) + 1 /\ u.saves[Len(u.saves)] = mark
<1> DEFINE sv == Append(t.saves, mark)
           sx == Append(t.sub_xids, N)
           ow == t.owned_xids \cup {N}
           n == Len(t.saves)
<1>1. /\ t.saves \in Seq(MarkIn) /\ t.sub_xids \in Seq(0 .. N - 1) /\ n = Len(t.sub_xids)
      /\ t = [xid |-> t.xid, sub_xids |-> t.sub_xids, owned_xids |-> t.owned_xids, writes |-> t.writes,
              saves |-> t.saves, failed |-> t.failed, deletes |-> t.deletes]
    BY DEF TxnIn, Scoped
<1>2. /\ n \in Nat /\ Len(sv) = n + 1 /\ sv[n + 1] = mark
      /\ \A k \in 1 .. n : sv[k] = t.saves[k]
    BY <1>1, AppendIs
<1>3. sx[n + 1] = N /\ \A k \in 1 .. n : sx[k] = t.sub_xids[k]
  <2>1. t.sub_xids \in Seq(0 .. N) /\ N \in 0 .. N
    <3>1. 0 .. N - 1 \subseteq 0 .. N
        OBVIOUS
    <3> QED  BY <1>1, <3>1, SeqWider
  <2> QED  BY <1>1, <2>1, AppendIs
<1>4. u = [t EXCEPT !.saves = sv, !.sub_xids = sx, !.owned_xids = ow]
    BY DEF SavedTxn
<1> HIDE DEF sv, sx, ow, n
<1>5. /\ u.xid = t.xid /\ u.owned_xids = ow /\ u.writes = t.writes /\ u.failed = t.failed
      /\ u.saves = sv /\ u.sub_xids = sx
    BY <1>1, <1>4
<1>6. Len(u.saves) = n + 1 /\ n + 1 - 1 = n /\ n + 1 # 0
    BY <1>2, <1>5
<1>7. Opened(N, t, u)
  <2>1. /\ u.xid = t.xid /\ u.owned_xids = t.owned_xids \cup {N}
        /\ Len(u.saves) \in Nat /\ Len(u.saves) # 0 /\ Len(u.saves) - 1 <= Len(t.saves)
      BY <1>2, <1>5, <1>6 DEF ow, n
  <2>2. \A k \in 1 .. Len(u.saves) - 1 : u.saves[k] = t.saves[k] /\ u.sub_xids[k] = t.sub_xids[k]
      BY <1>2, <1>3, <1>5, <1>6
  <2>3. u.sub_xids[Len(u.saves)] = N /\ u.saves[Len(u.saves)].writes = Len(u.writes)
      BY <1>2, <1>3, <1>5, <1>6
  <2> QED  BY ONLY <2>1, <2>2, <2>3, OpenedIs, N # 0, t.xid # 0, Scoped(t)
<1> QED  BY <1>2, <1>5, <1>6, <1>7 DEF n

(* What the rows of S are to a transaction whose scope N has just started.    *)
LEMMA FreshScope ==
    ASSUME NEW N \in Nat, NEW S \in Seq(RowIn(N)), NEW A, NEW t \in TxnIn(N), NEW Y, NEW Y2,
           \A id \in 1 .. Len(S) : /\ S[id].xmin \in Y2 <=> S[id].xmin \in Y
                                   /\ S[id].xmax \in Y2 <=> S[id].xmax \in Y,
           NEW q, Cover(S, A, Y, t.owned_xids, q)
    PROVE  Cover(S, A, Y2, t.owned_xids \cup {N}, q)
<1>1. AgreeOn(S, A, Y, A, Y2)
    BY DEF AgreeOn
<1>2. SameView(S, A, Y, S, A, Y2)
    BY <1>1, SameViewOn
<1> DEFINE O == t.owned_xids
           O2 == O \cup {N}
<1>3. \A id \in 1 .. Len(S) : S[id].xmin \in O2 => S[id].xmin \in O
    BY BelowIs
<1>4. Cover(S, A, Y, O, q)
    OBVIOUS
<1> HIDE DEF O, O2
<1>5. Cover(S, A, Y2, O2, q)
    BY <1>2, <1>3, <1>4, CoverSame
<1> QED  BY <1>5 DEF O, O2

(* An open transaction, alone; and one that a savepoint is to be set in.      *)
Own(N, R, act, t, q) ==
    /\ N \in Nat /\ N # 0 /\ R \in Seq(RowIn(N)) /\ t \in TxnIn(N) /\ t.xid # 0 /\ Scoped(t)
    /\ 0 \notin Held(t) /\ q \in Seq(PendingFk) /\ Postponed(R, t, q) /\ Open(R, act, t, q)
Markable(N, R, act, t, q, mark, A) ==
    /\ Own(N, R, act, t, q) /\ ~t.failed /\ A = act \cup {N}
    /\ mark \in MarkIn /\ mark.writes = Len(t.writes) /\ mark.queue = Len(q)

LEMMA SaveOpen ==
    ASSUME NEW N, NEW R, NEW act, NEW t, NEW q, NEW mark, NEW A, Markable(N, R, act, t, q, mark, A)
    PROVE  /\ SInv(R, A, SavedTxn(t, mark, N), q)
           /\ \A x \in Held(SavedTxn(t, mark, N)) : x \in Held(t) \/ x = N
<1> DEFINE u == SavedTxn(t, mark, N)
           n == Len(t.saves)
<1>0. /\ N \in Nat /\ N # 0 /\ R \in Seq(RowIn(N)) /\ t \in TxnIn(N) /\ t.xid # 0 /\ Scoped(t)
      /\ q \in Seq(PendingFk) /\ Postponed(R, t, q) /\ Open(R, act, t, q)
      /\ ~t.failed /\ mark \in MarkIn /\ mark.writes = Len(t.writes) /\ mark.queue = Len(q)
      /\ A = act \cup {N}
    BY DEF Markable, Own
<1> USE <1>0
<1>1. /\ Opened(N, t, u) /\ u.writes = t.writes /\ (u.failed <=> t.failed)
      /\ Len(u.saves) = n + 1 /\ u.saves[n + 1] = mark
  <2>1. u = SavedTxn(t, mark, N)
      OBVIOUS
  <2> HIDE DEF u
  <2> QED  BY <1>0, <2>1, SavedIs
<1> HIDE DEF u
<1>2. /\ u.xid = t.xid /\ u.owned_xids = t.owned_xids \cup {N} /\ Held(u) = Held(t) \cup {N}
      /\ n \in Nat
      /\ \A k \in 0 .. n : From(u, k) = From(t, k) \cup {N} /\ Mark(u, k) = Mark(t, k)
      /\ \A k \in 1 .. n : u.saves[k] = t.saves[k]
      /\ From(u, n + 1) = {N} /\ Mark(u, n + 1) = Len(t.writes)
    BY <1>1 DEF Opened
<1>3. /\ t.saves \in Seq(MarkIn) /\ t.xid \in 0 .. N - 1 /\ t.owned_xids \in SUBSET (0 .. N - 1)
      /\ t.writes \in Seq(OpIn(N)) /\ Len(q) \in Nat /\ Len(t.writes) \in Nat
    BY DEF TxnIn
<1>4. N \notin Held(t) /\ N # t.xid
    BY <1>3 DEF Held, all_xids
<1>5. \A id \in 1 .. Len(R) : R[id].xmin # N /\ R[id].xmax # N
    BY BelowIs
<1>6. Marks(t, q) /\ Logged(R, t) /\ TopOnly(R, t) /\ Cover(R, act, Held(t), t.owned_xids, q)
      /\ \A k \in 1 .. n : LevelCover(R, act, t, q, k)
    BY <1>0 DEF Open
<1>7. Postponed(R, u, q) /\ TopOnly(R, u)
    BY <1>2, <1>5, <1>6 DEF Postponed, TopOnly
<1>8. Marks(u, q)
  <2>1. \A x \in u.owned_xids : u.xid < x
      BY <1>2, <1>3, <1>6 DEF Marks
  <2>2. \A k \in 1 .. n + 1 : k \in 1 .. n \/ k = n + 1
      BY <1>2
  <2>3. \A k \in 1 .. n : u.saves[k].queue <= Len(q)
      BY <1>2, <1>6 DEF Marks
  <2>4. u.saves[n + 1].queue = Len(q)
      BY <1>0, <1>1
  <2>5. ASSUME NEW k \in 1 .. n + 1 PROVE u.saves[k].queue <= Len(q)
    <3>1. CASE k \in 1 .. n
        BY <2>3, <3>1
    <3>2. CASE k = n + 1
      <4>1. u.saves[k].queue = Len(q)
          BY <2>4, <3>2
      <4> QED  BY <1>3, <4>1
    <3> QED  BY <2>2, <3>1, <3>2
  <2>6. ASSUME NEW j \in 1 .. n + 1, NEW k \in 1 .. n + 1, j < k
        PROVE  u.saves[j].queue <= u.saves[k].queue
    <3>1. j \in 1 .. n
        BY <1>2, <2>6
    <3>2. CASE k \in 1 .. n
      <4>1. t.saves[j].queue <= t.saves[k].queue
          BY <1>6, <2>6, <3>1, <3>2 DEF Marks
      <4> QED  BY <1>2, <3>1, <3>2, <4>1
    <3>3. CASE k = n + 1
        BY <2>3, <2>4, <3>1, <3>3
    <3> QED  BY <2>2, <3>2, <3>3
  <2> QED  BY <1>1, <2>1, <2>5, <2>6 DEF Marks
<1>9. Logged(R, u)
  <2>1. ASSUME NEW k \in 0 .. n + 1, NEW id \in 1 .. Len(R)
        PROVE  LoggedOn(R, u, From(u, k), Mark(u, k), id)
    <3>1. CASE k \in 0 .. n
      <4>1. LoggedOn(R, t, From(t, k), Mark(t, k), id)
          BY <1>6, <3>1 DEF Logged
      <4> QED  BY <1>1, <1>2, <1>5, <3>1, <4>1 DEF LoggedOn
    <3>2. CASE k = n + 1
      <4>1. \A i \in Len(t.writes) + 1 .. Len(t.writes) : FALSE
          BY <1>3
      <4> QED  BY <1>1, <1>2, <1>5, <3>2, <4>1 DEF LoggedOn
    <3>3. k \in 0 .. n \/ k = n + 1
        BY <1>2
    <3> QED  BY <3>1, <3>2, <3>3
  <2> QED  BY <1>1, <1>6, <2>1 DEF Logged
<1>10. ASSUME NEW Y, NEW qq, Cover(R, act, Y, t.owned_xids, qq)
       PROVE  Cover(R, A, Y, t.owned_xids, qq)
  <2>1. AgreeOn(R, act, Y, act \cup {N}, Y)
      BY AgreeFresh
  <2>2. SameView(R, act, Y, R, A, Y)
    <3>1. AgreeOn(R, act, Y, A, Y)
        BY <2>1
    <3> QED  BY <3>1, SameViewOn
  <2> DEFINE O == t.owned_xids
  <2>3. Cover(R, act, Y, O, qq) /\ \A id \in 1 .. Len(R) : R[id].xmin \in O => R[id].xmin \in O
      BY <1>10
  <2> HIDE DEF O
  <2>4. Cover(R, A, Y, O, qq)
      BY <2>2, <2>3, CoverSame
  <2> QED  BY <2>4 DEF O
<1>11. Cover(R, A, Held(u), u.owned_xids, q)
  <2> DEFINE Y == Held(t)
             Y2 == Held(u)
  <2>1. Cover(R, A, Y, t.owned_xids, q)
      BY <1>6, <1>10
  <2>2. \A id \in 1 .. Len(R) : /\ R[id].xmin \in Y2 <=> R[id].xmin \in Y
                                /\ R[id].xmax \in Y2 <=> R[id].xmax \in Y
      BY <1>2, <1>5
  <2> HIDE DEF Y, Y2
  <2>3. Cover(R, A, Y2, t.owned_xids \cup {N}, q)
      BY <2>1, <2>2, FreshScope
  <2> QED  BY <1>2, <2>3 DEF Y2
<1>12. ASSUME NEW k \in 1 .. n + 1 PROVE LevelCover(R, A, u, q, k)
  <2> DEFINE Y == Held(u) \ From(u, k)
             qq == SubSeq(q, 1, u.saves[k].queue)
  <2>1. Cover(R, A, Y, t.owned_xids, qq)
    <3>1. CASE k \in 1 .. n
      <4>1. Y = Held(t) \ From(t, k) /\ qq = SubSeq(q, 1, t.saves[k].queue)
        <5>1. k \in 0 .. n
            BY <1>2, <3>1
        <5>2. Held(u) = Held(t) \cup {N} /\ From(u, k) = From(t, k) \cup {N}
            BY <1>2, <5>1
        <5>3. Y = Held(t) \ From(t, k)
            BY <1>4, <5>2
        <5>4. u.saves[k] = t.saves[k]
            BY <1>2, <3>1
        <5> QED  BY <5>3, <5>4
      <4>2. Cover(R, act, Held(t) \ From(t, k), t.owned_xids, SubSeq(q, 1, t.saves[k].queue))
          BY <1>6, <3>1 DEF LevelCover
      <4> QED  BY <1>10, <4>1, <4>2
    <3>2. CASE k = n + 1
      <4>1. Y = Held(t)
          BY <1>2, <1>4, <3>2
      <4>2. SubSeq(q, 1, Len(q)) = q
          OBVIOUS
      <4>3. qq = q
          BY <1>0, <1>1, <3>2, <4>2
      <4> QED  BY <1>6, <1>10, <4>1, <4>3
    <3>3. k \in 1 .. n \/ k = n + 1
        BY <1>2
    <3> QED  BY <3>1, <3>2, <3>3
  <2>2. \A id \in 1 .. Len(R) : /\ R[id].xmin \in Y <=> R[id].xmin \in Y
                                /\ R[id].xmax \in Y <=> R[id].xmax \in Y
      OBVIOUS
  <2> HIDE DEF Y, qq
  <2>3. Cover(R, A, Y, t.owned_xids \cup {N}, qq)
      BY <2>1, <2>2, FreshScope
  <2> QED  BY <1>2, <2>3 DEF LevelCover, Y, qq
<1>13. Open(R, A, u, q)
    BY <1>1, <1>7, <1>8, <1>9, <1>11, <1>12 DEF Open
<1> QED  BY <1>2, <1>7, <1>13 DEF SInv, u

LEMMA SaveKept ==
    ASSUME NEW N, NEW R, NEW act, NEW tx, NEW df, NEW s, Doing(N, R, act, tx, df, s), ~tx[s].failed,
           NEW mark \in MarkIn, mark.writes = Len(tx[s].writes), mark.queue = Len(df[s].queue)
    PROVE  Kept(R, act \cup {N}, [tx EXCEPT ![s] = SavedTxn(tx[s], mark, N)], df)
<1> DEFINE t == tx[s]
           q == df[s].queue
           u == SavedTxn(t, mark, N)
           A == act \cup {N}
<1>1. /\ World(N, R, act, tx) /\ s \in Sessions /\ N \in Nat /\ N # 0 /\ R \in Seq(RowIn(N))
      /\ tx \in [Sessions -> TxnIn(N)] /\ df \in [Sessions -> DeferralIn] /\ q \in Seq(PendingFk)
      /\ t \in TxnIn(N) /\ 0 \notin Held(t) /\ t.xid # 0 /\ Scoped(t) /\ Rest(R, act, tx, df, s) /\ Fine(R, act, tx)
      /\ Postponed(R, t, q) /\ Open(R, act, t, q)
    BY DoingIs
<1>2. SInv(R, A, u, q) /\ \A x \in Held(u) : x \in Held(t) \/ x = N
  <2>1. Markable(N, R, act, t, q, mark, A)
      BY <1>1 DEF Markable, Own
  <2> HIDE DEF t, q, A
  <2> QED  BY <2>1, SaveOpen
<1> HIDE DEF u
<1>3. Tops(N, tx, [tx EXCEPT ![s] = u])
    BY <1>1, <1>2, TopsPut
<1>4. Fine(R, A, [tx EXCEPT ![s] = u])
    BY <1>1, <1>3, FineFresh
<1>5. Rest(R, A, tx, df, s)
    BY <1>1, RestFresh
<1> DEFINE d == df[s]
<1>6. SInv(R, A, u, d.queue) /\ [df EXCEPT ![s] = d] = df
    BY <1>1, <1>2
<1> HIDE DEF d, A
<1>7. Kept(R, A, [tx EXCEPT ![s] = u], [df EXCEPT ![s] = d])
    BY <1>1, <1>4, <1>5, <1>6, KeptPut
<1> QED  BY <1>6, <1>7 DEF u, A

LEMMA CutIs ==
    ASSUME NEW N \in Nat, N # 0, NEW t \in TxnIn(N), t.xid # 0, Scoped(t), t.saves # <<>>,
           NEW m, m = Last(t.saves).writes, NEW u, u = CutTxn(t, m, N)
    PROVE  /\ Opened(N, t, u) /\ u.saves = t.saves /\ ~u.failed
           /\ Len(t.writes) \in Nat /\ m \in 0 .. Len(t.writes) /\ m = Mark(t, Len(t.saves))
           /\ u.writes \in Seq(OpIn(N)) /\ Len(u.writes) = m /\ \A i \in 1 .. m : u.writes[i] = t.writes[i]
           /\ Last(t.saves) = t.saves[Len(t.saves)] /\ Last(t.saves) \in MarkIn
<1> DEFINE n == Len(t.saves)
           fx == Front(t.sub_xids)
           sx == Append(fx, N)
           ow == t.owned_xids \cup {N}
           ws == SubSeq(t.writes, 1, m)
<1>1. /\ t.saves \in Seq(MarkIn) /\ t.sub_xids \in Seq(0 .. N - 1) /\ n = Len(t.sub_xids)
      /\ t.writes \in Seq(OpIn(N)) /\ Len(t.writes) \in Nat
      /\ t = [xid |-> t.xid, sub_xids |-> t.sub_xids, owned_xids |-> t.owned_xids, writes |-> t.writes,
              saves |-> t.saves, failed |-> t.failed, deletes |-> t.deletes]
    BY DEF TxnIn, Scoped
<1>2. n \in Nat /\ n # 0 /\ Last(t.saves) = t.saves[n] /\ Last(t.saves) \in MarkIn
    BY <1>1, FrontIs
<1>3. m \in 0 .. Len(t.writes)
  <2>1. m \in Nat
      BY <1>2 DEF MarkIn
  <2>2. n \in 1 .. Len(t.sub_xids)
      BY <1>1, <1>2
  <2>3. m <= Len(t.writes)
      BY <1>2, <2>2 DEF Scoped
  <2> QED  BY <1>1, <2>1, <2>3
<1>4. m = Mark(t, n)
    BY <1>2 DEF Mark
<1>5. ws \in Seq(OpIn(N)) /\ Len(ws) = m /\ \A i \in 1 .. m : ws[i] = t.writes[i]
    BY <1>1, <1>3, PrefixIs
<1>6. t.sub_xids # <<>>
    BY <1>1, <1>2
<1>7. /\ fx \in Seq(0 .. N - 1) /\ Len(fx) = n - 1 /\ \A k \in 1 .. n - 1 : fx[k] = t.sub_xids[k]
    BY <1>1, <1>6, FrontIs
<1>8. sx[n] = N /\ \A k \in 1 .. n - 1 : sx[k] = t.sub_xids[k]
  <2>1. fx \in Seq(0 .. N) /\ N \in 0 .. N
    <3>1. 0 .. N - 1 \subseteq 0 .. N
        OBVIOUS
    <3> QED  BY <1>7, <3>1, SeqWider
  <2> HIDE DEF fx
  <2>2. /\ \A k \in 1 .. Len(fx) : sx[k] = fx[k]
        /\ sx[Len(fx) + 1] = N
      BY <2>1, AppendIs
  <2>3. Len(fx) = n - 1 /\ Len(fx) + 1 = n
      BY <1>2, <1>7
  <2> QED  BY <1>7, <2>2, <2>3
<1>9. u = [t EXCEPT !.writes = ws, !.sub_xids = sx, !.owned_xids = ow, !.failed = FALSE]
    BY DEF CutTxn
<1> HIDE DEF n, fx, sx, ow, ws
<1>10. /\ u.xid = t.xid /\ u.owned_xids = ow /\ u.writes = ws /\ ~u.failed
       /\ u.saves = t.saves /\ u.sub_xids = sx
    BY <1>1, <1>9
<1>11. Opened(N, t, u)
  <2>1. /\ u.xid = t.xid /\ u.owned_xids = t.owned_xids \cup {N}
        /\ Len(u.saves) \in Nat /\ Len(u.saves) # 0 /\ Len(u.saves) - 1 <= Len(t.saves)
      BY <1>2, <1>10 DEF ow, n
  <2>2. \A k \in 1 .. Len(u.saves) - 1 : u.saves[k] = t.saves[k] /\ u.sub_xids[k] = t.sub_xids[k]
      BY <1>8, <1>10 DEF n
  <2>3. u.sub_xids[Len(u.saves)] = N /\ u.saves[Len(u.saves)].writes = Len(u.writes)
      BY <1>2, <1>5, <1>8, <1>10 DEF n
  <2> QED  BY ONLY <2>1, <2>2, <2>3, OpenedIs, N # 0, t.xid # 0, Scoped(t)
<1> QED  BY <1>1, <1>2, <1>3, <1>4, <1>5, <1>10, <1>11 DEF n

(* The innermost scope lies in the others.                                    *)
LEMMA Nested ==
    ASSUME NEW N \in Nat, NEW t \in TxnIn(N), Scoped(t), NEW q, Marks(t, q), NEW n, n = Len(t.saves), n # 0,
           NEW k \in 0 .. n
    PROVE  \A x \in From(t, n) : x \in From(t, k)
<1>1. /\ t.sub_xids \in Seq(0 .. N - 1) /\ n = Len(t.sub_xids) /\ n \in Nat
      /\ t.xid \in 0 .. N - 1 /\ t.owned_xids \in SUBSET (0 .. N - 1)
    BY DEF TxnIn, Scoped
<1>2. n \in 1 .. n /\ t.sub_xids[n] \in 0 .. N - 1 /\ t.sub_xids[n] \in t.owned_xids
    BY <1>1 DEF Scoped
<1>3. Lo(t, k) <= Lo(t, n) /\ Lo(t, k) \in 0 .. N - 1 /\ Lo(t, n) \in 0 .. N - 1
  <2>1. CASE k = 0
    <3>1. t.xid < t.sub_xids[n]
        BY <1>2 DEF Marks
    <3> QED  BY <1>1, <1>2, <2>1, <3>1 DEF Lo
  <2>2. CASE k = n
      BY <1>2, <2>2 DEF Lo
  <2>3. CASE k # 0 /\ k # n
    <3>1. k \in 1 .. n /\ k < n
        BY <1>1, <2>3
    <3>2. t.sub_xids[k] < t.sub_xids[n] /\ t.sub_xids[k] \in 0 .. N - 1
        BY <1>1, <1>2, <3>1 DEF Scoped
    <3> QED  BY <1>2, <2>3, <3>2 DEF Lo
  <2> QED  BY <2>1, <2>2, <2>3
<1>4. \A x \in Held(t) : x \in 0 .. N - 1
    BY <1>1 DEF Held, all_xids
<1>5. ASSUME NEW x \in From(t, n) PROVE x \in From(t, k)
  <2>1. x \in Held(t) /\ Lo(t, n) <= x /\ x \in 0 .. N - 1
      BY <1>4 DEF From
  <2>2. Lo(t, k) <= x
      BY <1>3, <2>1
  <2> QED  BY <2>1, <2>2 DEF From
<1> QED  BY <1>5

LEMMA SubSub ==
    ASSUME NEW S, NEW q \in Seq(S), NEW m \in 0 .. Len(q), NEW n \in 0 .. m
    PROVE  SubSeq(SubSeq(q, 1, m), 1, n) = SubSeq(q, 1, n)
<1> DEFINE p == SubSeq(q, 1, m)
           a == SubSeq(p, 1, n)
           b == SubSeq(q, 1, n)
<1>1. p \in Seq(S) /\ Len(p) = m /\ \A i \in 1 .. m : p[i] = q[i]
    BY PrefixIs
<1>2. n \in 0 .. Len(p) /\ n \in 0 .. Len(q) /\ \A i \in 1 .. n : i \in 1 .. m
    BY <1>1
<1> HIDE DEF p
<1>3. a \in Seq(S) /\ Len(a) = n /\ \A i \in 1 .. n : a[i] = p[i]
    BY <1>1, <1>2, PrefixIs
<1>4. b \in Seq(S) /\ Len(b) = n /\ \A i \in 1 .. n : b[i] = q[i]
    BY <1>2, PrefixIs
<1>5. \A i \in 1 .. n : a[i] = b[i]
    BY <1>1, <1>2, <1>3, <1>4
<1> HIDE DEF a, b
<1>6. a = b
    BY <1>3, <1>4, <1>5
<1> QED  BY <1>6 DEF a, b, p

(* What ROLLBACK TO leaves of a transaction: rows S, xids A, queue q2.        *)
Cuttable(N, R, act, t, q, m, S, A, q2) ==
    /\ Own(N, R, act, t, q) /\ t.saves # <<>> /\ m = Last(t.saves).writes
    /\ 0 \notin act /\ Held(t) \subseteq act /\ A = act \cup {N}
    /\ S = Purge(R, From(t, Len(t.saves)))
    /\ q2 = SubSeq(q, 1, Last(t.saves).queue)

(* The transaction t, its scope Z = From(t, n) that goes, and what u is.       *)
CutFacts(N, R, act, t, q, m, S, A, q2, n, u, Z) ==
    /\ N \in Nat /\ N # 0 /\ R \in Seq(RowIn(N)) /\ t \in TxnIn(N) /\ t.xid # 0 /\ Scoped(t)
    /\ 0 \notin Held(t) /\ q \in Seq(PendingFk) /\ Postponed(R, t, q)
    /\ Marks(t, q) /\ Logged(R, t) /\ TopOnly(R, t)
    /\ \A k \in 1 .. n : LevelCover(R, act, t, q, k)
    /\ n \in Nat /\ n # 0 /\ A = act \cup {N}
    /\ u.xid = t.xid /\ u.owned_xids = t.owned_xids \cup {N} /\ Held(u) = Held(t) \cup {N}
    /\ u.saves = t.saves /\ ~u.failed
    /\ \A k \in 0 .. n - 1 : From(u, k) = From(t, k) \cup {N}
    /\ From(u, n) = {N} /\ \A k : Mark(u, k) = Mark(t, k)
    /\ Len(t.writes) \in Nat /\ m \in 0 .. Len(t.writes) /\ m = Mark(t, n)
    /\ Len(u.writes) = m /\ \A i \in 1 .. m : u.writes[i] = t.writes[i]
    /\ \A x \in Z : x \in t.owned_xids /\ x \in act /\ x \in Held(t) /\ x # t.xid /\ x # 0
    /\ \A k \in 0 .. n : \A x \in Z : x \in From(t, k)
    /\ S \in Seq(RowIn(N)) /\ Len(S) = Len(R) /\ Len(R) \in Nat
    /\ S = Purge(R, Z)
    /\ t.saves[n].queue \in 0 .. Len(q) /\ q2 = SubSeq(q, 1, t.saves[n].queue)
    /\ q2 \in Seq(PendingFk) /\ Len(q2) = t.saves[n].queue
    /\ Len(q) \in Nat /\ \A i \in 1 .. Len(q2) : q2[i] = q[i] /\ i \in 1 .. Len(q)

LEMMA CuttableIs ==
    ASSUME NEW N, NEW R, NEW act, NEW t, NEW q, NEW m, NEW S, NEW A, NEW q2,
           Cuttable(N, R, act, t, q, m, S, A, q2),
           NEW n, n = Len(t.saves), NEW u, u = CutTxn(t, m, N), NEW Z, Z = From(t, n)
    PROVE  CutFacts(N, R, act, t, q, m, S, A, q2, n, u, Z)
<1>1. /\ N \in Nat /\ N # 0 /\ R \in Seq(RowIn(N)) /\ t \in TxnIn(N) /\ t.xid # 0 /\ Scoped(t)
      /\ 0 \notin Held(t) /\ q \in Seq(PendingFk) /\ Postponed(R, t, q) /\ Open(R, act, t, q)
      /\ t.saves # <<>> /\ m = Last(t.saves).writes /\ Held(t) \subseteq act /\ A = act \cup {N}
      /\ S = Purge(R, Z) /\ q2 = SubSeq(q, 1, Last(t.saves).queue)
    BY DEF Cuttable, Own
<1>2. /\ Marks(t, q) /\ Logged(R, t) /\ TopOnly(R, t)
      /\ \A k \in 1 .. n : LevelCover(R, act, t, q, k)
    BY <1>1 DEF Open
<1>3. /\ Opened(N, t, u) /\ u.saves = t.saves /\ ~u.failed
      /\ Len(t.writes) \in Nat /\ m \in 0 .. Len(t.writes) /\ m = Mark(t, n)
      /\ Len(u.writes) = m /\ \A i \in 1 .. m : u.writes[i] = t.writes[i]
      /\ Last(t.saves) = t.saves[n] /\ Last(t.saves) \in MarkIn
    BY <1>1, CutIs
<1>4. /\ n \in Nat /\ n # 0
      /\ u.xid = t.xid /\ u.owned_xids = t.owned_xids \cup {N} /\ Held(u) = Held(t) \cup {N}
      /\ \A k \in 0 .. n - 1 : From(u, k) = From(t, k) \cup {N}
      /\ From(u, n) = {N}
    BY <1>3 DEF Opened
<1>5. \A k : Mark(u, k) = Mark(t, k)
    BY <1>3 DEF Mark
<1>6. n \in 0 .. n /\ \A k \in 0 .. n : \A x \in Z : x \in From(t, k)
    BY <1>1, <1>2, <1>4, Nested
<1>7. ASSUME NEW x \in Z PROVE x \in t.owned_xids /\ x \in act /\ x \in Held(t) /\ x # t.xid /\ x # 0
  <2>1. x \in Held(t) /\ x \in t.owned_xids
      BY <1>1, <1>2, <1>4, <1>6, Scopes
  <2> QED  BY <1>1, <2>1 DEF Scoped
<1>8. S \in Seq(RowIn(N)) /\ Len(S) = Len(R) /\ Len(R) \in Nat
    BY <1>1, PurgeIs
<1>9. t.saves[n].queue \in 0 .. Len(q) /\ Len(q) \in Nat
  <2>1. t.saves[n].queue \in Nat /\ n \in 1 .. Len(t.saves)
      BY <1>3, <1>4 DEF MarkIn
  <2>2. t.saves[n].queue <= Len(q)
      BY <1>2, <2>1 DEF Marks
  <2> QED  BY <1>1, <2>1, <2>2
<1>10. /\ q2 \in Seq(PendingFk) /\ Len(q2) = t.saves[n].queue
       /\ \A i \in 1 .. Len(q2) : q2[i] = q[i] /\ i \in 1 .. Len(q)
  <2> DEFINE j == t.saves[n].queue
  <2>1. j \in 0 .. Len(q) /\ q2 = SubSeq(q, 1, j)
      BY <1>1, <1>3, <1>9
  <2> HIDE DEF j
  <2>2. q2 \in Seq(PendingFk) /\ Len(q2) = j /\ \A i \in 1 .. j : q2[i] = q[i]
      BY <1>1, <2>1, PrefixIs
  <2>3. \A i \in 1 .. j : i \in 1 .. Len(q)
      BY <1>9, <2>1
  <2> QED  BY <2>2, <2>3 DEF j
<1> QED  BY <1>1, <1>2, <1>3, <1>4, <1>5, <1>6, <1>7, <1>8, <1>9, <1>10 DEF CutFacts

LEMMA CutOpen ==
    ASSUME NEW N, NEW R, NEW act, NEW t, NEW q, NEW m, NEW S, NEW A, NEW q2,
           Cuttable(N, R, act, t, q, m, S, A, q2)
    PROVE  /\ SInv(S, A, CutTxn(t, m, N), q2)
           /\ \A x \in Held(CutTxn(t, m, N)) : x \in Held(t) \/ x = N
<1> DEFINE u == CutTxn(t, m, N)
           n == Len(t.saves)
           Z == From(t, n)
<1>0. n = Len(t.saves) /\ u = CutTxn(t, m, N) /\ Z = From(t, n)
    OBVIOUS
<1> HIDE DEF u, n, Z
<1>1. /\ N \in Nat /\ N # 0 /\ R \in Seq(RowIn(N)) /\ t \in TxnIn(N) /\ t.xid # 0 /\ Scoped(t)
      /\ 0 \notin Held(t) /\ q \in Seq(PendingFk) /\ Postponed(R, t, q)
      /\ Marks(t, q) /\ Logged(R, t) /\ TopOnly(R, t)
      /\ \A k \in 1 .. n : LevelCover(R, act, t, q, k)
      /\ n \in Nat /\ n # 0 /\ A = act \cup {N}
      /\ u.xid = t.xid /\ u.owned_xids = t.owned_xids \cup {N} /\ Held(u) = Held(t) \cup {N}
      /\ u.saves = t.saves /\ ~u.failed
      /\ \A k \in 0 .. n - 1 : From(u, k) = From(t, k) \cup {N}
      /\ From(u, n) = {N} /\ \A k : Mark(u, k) = Mark(t, k)
      /\ Len(t.writes) \in Nat /\ m \in 0 .. Len(t.writes) /\ m = Mark(t, n)
      /\ Len(u.writes) = m /\ \A i \in 1 .. m : u.writes[i] = t.writes[i]
      /\ \A x \in Z : x \in t.owned_xids /\ x \in act /\ x \in Held(t) /\ x # t.xid /\ x # 0
      /\ \A k \in 0 .. n : \A x \in Z : x \in From(t, k)
      /\ S \in Seq(RowIn(N)) /\ Len(S) = Len(R) /\ Len(R) \in Nat
      /\ S = Purge(R, Z)
      /\ t.saves[n].queue \in 0 .. Len(q) /\ q2 = SubSeq(q, 1, t.saves[n].queue)
      /\ q2 \in Seq(PendingFk) /\ Len(q2) = t.saves[n].queue
      /\ Len(q) \in Nat /\ \A i \in 1 .. Len(q2) : q2[i] = q[i] /\ i \in 1 .. Len(q)
  <2>1. CutFacts(N, R, act, t, q, m, S, A, q2, n, u, Z)
      BY <1>0, CuttableIs
  <2> QED  BY <2>1 DEF CutFacts
<1>2. N \notin Held(t) /\ N \notin t.owned_xids /\ N # t.xid /\ \A x \in t.owned_xids : x \in Held(t)
    BY <1>1 DEF TxnIn, Held, all_xids
<1>3. ASSUME NEW id \in 1 .. Len(R)
      PROVE  /\ S[id].xmin # N /\ S[id].xmax # N /\ S[id].xmin \notin Z /\ S[id].xmax \notin Z
             /\ \/ S[id].table = "none" /\ S[id].xmin = 0 /\ S[id].xmax = 0
                \/ /\ S[id].table = R[id].table /\ S[id].key = R[id].key /\ S[id].xmin = R[id].xmin
                   /\ R[id].xmin \notin Z
                   /\ \/ R[id].xmax \in Z /\ S[id].xmax = 0
                      \/ R[id].xmax \notin Z /\ S[id].xmax = R[id].xmax
  <2>1. \/ R[id].xmin \in Z /\ S[id] = NoRow
        \/ /\ R[id].xmin \notin Z /\ S[id].table = R[id].table
           /\ S[id].key = R[id].key /\ S[id].xmin = R[id].xmin
           /\ \/ R[id].xmax \in Z /\ S[id].xmax = 0
              \/ R[id].xmax \notin Z /\ S[id] = R[id]
      BY <1>1, PurgeIs
  <2>2. S[id].xmin # N /\ S[id].xmax # N
      BY <1>1, BelowIs
  <2>3. 0 \notin Z
      BY <1>1
  <2> QED  BY <2>1, <2>2, <2>3 DEF NoRow
<1>4. Postponed(S, u, q2)
  <2>1. ASSUME NEW i \in 1 .. Len(q2), q2[i].side = "parent"
        PROVE  /\ u.xid # 0 /\ q2[i].row \in 1 .. Len(S)
               /\ S[q2[i].row].table = "parent" /\ S[q2[i].row].key = q2[i].key
               /\ S[q2[i].row].xmax = u.xid
    <3> DEFINE r == q2[i].row
    <3>1. q2[i] = q[i] /\ i \in 1 .. Len(q)
        BY <1>1
    <3>2. r \in 1 .. Len(R) /\ R[r].table = "parent" /\ R[r].key = q2[i].key /\ R[r].xmax = t.xid
        BY <1>1, <2>1, <3>1 DEF Postponed
    <3>3. R[r].xmin \notin t.owned_xids
        BY <1>1, <3>2 DEF TopOnly
    <3>4. R[r].xmin \notin Z /\ R[r].xmax \notin Z
        BY <1>1, <3>2, <3>3
    <3>5. S[r] = R[r]
        BY <1>1, <3>2, <3>4 DEF Purge
    <3> QED  BY <1>1, <3>2, <3>5
  <2>2. \A i, j \in 1 .. Len(q2) :
            q2[i].side = "parent" /\ q2[j].side = "parent" /\ q2[i].key = q2[j].key => i = j
      BY <1>1 DEF Postponed
  <2> QED  BY <2>1, <2>2 DEF Postponed
<1>5. TopOnly(S, u)
  <2>1. ASSUME NEW p \in 1 .. Len(S), S[p].table = "parent"
        PROVE  /\ S[p].xmin \notin u.owned_xids /\ S[p].xmax \notin u.owned_xids
               /\ S[p].xmax = u.xid =>
                     \A c \in 1 .. Len(S) : S[c].table = "child" => S[c].xmax \notin u.owned_xids
    <3>1. /\ p \in 1 .. Len(R) /\ R[p].table = "parent" /\ S[p].xmin = R[p].xmin
          /\ S[p].xmax = 0 \/ S[p].xmax = R[p].xmax
        BY <1>1, <1>3, <2>1
    <3>2. 0 \notin t.owned_xids
        BY <1>1, <1>2
    <3>3. S[p].xmin \notin u.owned_xids /\ S[p].xmax \notin u.owned_xids
        BY <1>1, <1>3, <3>1, <3>2 DEF TopOnly
    <3>4. ASSUME S[p].xmax = u.xid, NEW c \in 1 .. Len(S), S[c].table = "child"
          PROVE  S[c].xmax \notin u.owned_xids
      <4>1. R[p].xmax = t.xid
          BY <1>1, <3>1, <3>4
      <4>2. c \in 1 .. Len(R) /\ R[c].table = "child" /\ (S[c].xmax = 0 \/ S[c].xmax = R[c].xmax) /\ S[c].xmax # N
          BY <1>1, <1>3, <3>4
      <4>3. R[c].xmax \notin t.owned_xids
          BY <1>1, <3>1, <4>1, <4>2 DEF TopOnly
      <4> QED  BY <1>1, <3>2, <4>2, <4>3
    <3> QED  BY <3>3, <3>4
  <2> QED  BY <2>1 DEF TopOnly
<1>6. Marks(u, q2)
  <2>1. t.xid \in 0 .. N - 1 /\ t.saves \in Seq(MarkIn) /\ n \in 1 .. n
      BY <1>1 DEF TxnIn
  <2>2. \A x \in u.owned_xids : u.xid < x
      BY <1>1, <2>1 DEF Marks
  <2>3. ASSUME NEW k \in 1 .. n PROVE u.saves[k].queue <= Len(q2)
    <3>1. CASE k = n
        BY <1>1, <3>1
    <3>2. CASE k < n
        BY <1>0, <1>1, <2>1, <3>2 DEF Marks
    <3>3. k = n \/ k < n
        BY <1>1
    <3> QED  BY <3>1, <3>2, <3>3
  <2> QED  BY <1>0, <1>1, <2>2, <2>3 DEF Marks
<1>7. Logged(S, u)
  <2>1. ASSUME NEW i \in 1 .. Len(u.writes)
        PROVE  u.writes[i].prev = 0 /\ u.writes[i].old <= Len(S) /\ u.writes[i].new <= Len(S)
    <3>1. i \in 1 .. m /\ i \in 1 .. Len(t.writes)
        BY <1>1
    <3> QED  BY <1>1, <3>1 DEF Logged
  <2>2. ASSUME NEW id \in 1 .. Len(S) PROVE LoggedOn(S, u, From(u, n), Mark(u, n), id)
    <3>1. Mark(u, n) = m /\ \A i \in m + 1 .. Len(u.writes) : FALSE
        BY <1>1
    <3>2. S[id].xmin # N /\ S[id].xmax # N
        BY <1>1, <1>3
    <3>3. From(u, n) = {N}
        BY <1>1
    <3> QED  BY <3>1, <3>2, <3>3 DEF LoggedOn
  <2>3. ASSUME NEW k \in 0 .. n - 1, NEW id \in 1 .. Len(S)
        PROVE  LoggedOn(S, u, From(u, k), Mark(u, k), id)
    <3> DEFINE F == From(t, k)
               b == Mark(t, k)
    <3>1. /\ From(u, k) = F \cup {N} /\ Mark(u, k) = b /\ id \in 1 .. Len(R)
          /\ k \in 0 .. Len(t.saves) /\ n \in 0 .. Len(t.saves) /\ Held(u) = Held(t) \cup {N}
        BY <1>0, <1>1
    <3>2. /\ LoggedOn(R, t, F, b, id) /\ LoggedOn(R, t, Z, m, id)
        BY <1>0, <1>1, <3>1 DEF Logged
    <3>3. b \in 0 .. Len(t.writes) /\ (\A x \in F : x \in Held(t)) /\ 0 \notin Held(t)
        BY <1>1, <3>1, Scopes
    <3> HIDE DEF F, b
    <3>4. /\ m \in 0 .. Len(t.writes) /\ Len(u.writes) = m /\ Len(t.writes) \in Nat
          /\ \A i \in 1 .. m : u.writes[i] = t.writes[i]
        BY <1>1
    <3>5. /\ \A i \in b + 1 .. Len(t.writes) : i \in m + 1 .. Len(t.writes) \/ (i \in b + 1 .. m /\ i \in 1 .. m)
          /\ \A i \in b + 1 .. m : i \in 1 .. m /\ i \in b + 1 .. Len(t.writes)
        BY <3>3, <3>4
    <3>6. /\ S[id].xmin # N /\ S[id].xmax # N /\ S[id].xmin \notin Z /\ S[id].xmax \notin Z
          /\ S[id].xmin \in Held(t) => S[id].xmin = R[id].xmin
          /\ S[id].xmax \in Held(t) => S[id].xmax = R[id].xmax
        BY <1>3, <3>1, <3>3
    <3>7. S[id].xmin \in F \cup {N} => \E i \in b + 1 .. m : u.writes[i].new = id
      <4>1. SUFFICES ASSUME S[id].xmin \in F PROVE \E i \in b + 1 .. m : u.writes[i].new = id
          BY <3>6
      <4>2. R[id].xmin \in F /\ R[id].xmin \notin Z /\ R[id].xmin \in Held(t)
          BY <3>3, <3>6, <4>1
      <4>3. PICK i \in b + 1 .. Len(t.writes) : t.writes[i].new = id
          BY <3>2, <4>2 DEF LoggedOn
      <4>4. i \notin m + 1 .. Len(t.writes)
          BY <3>2, <4>2, <4>3 DEF LoggedOn
      <4> QED  BY <3>4, <3>5, <4>3, <4>4
    <3>8. S[id].xmax \in F \cup {N} => \E i \in b + 1 .. m : u.writes[i].old = id
      <4>1. SUFFICES ASSUME S[id].xmax \in F PROVE \E i \in b + 1 .. m : u.writes[i].old = id
          BY <3>6
      <4>2. R[id].xmax \in F /\ R[id].xmax \notin Z /\ R[id].xmax \in Held(t)
          BY <3>3, <3>6, <4>1
      <4>3. PICK i \in b + 1 .. Len(t.writes) : t.writes[i].old = id
          BY <3>2, <4>2 DEF LoggedOn
      <4>4. i \notin m + 1 .. Len(t.writes)
          BY <3>2, <4>2, <4>3 DEF LoggedOn
      <4> QED  BY <3>4, <3>5, <4>3, <4>4
    <3>9. ASSUME NEW i \in b + 1 .. m
          PROVE  /\ u.writes[i].new = id /\ S[id].xmin \in Held(u) => S[id].xmin \in F \cup {N}
                 /\ u.writes[i].old = id /\ S[id].xmax \in Held(u) => S[id].xmax \in F \cup {N}
      <4>1. u.writes[i] = t.writes[i] /\ i \in b + 1 .. Len(t.writes)
          BY <3>4, <3>5
      <4> QED  BY <3>1, <3>2, <3>6, <4>1 DEF LoggedOn
    <3> QED  BY <3>1, <3>4, <3>7, <3>8, <3>9 DEF LoggedOn
  <2>4. \A k \in 0 .. n : k = n \/ k \in 0 .. n - 1
      BY <1>1
  <2>5. u.saves = t.saves /\ Len(t.saves) = n
      BY <1>0, <1>1
  <2> QED  BY <2>1, <2>2, <2>3, <2>4, <2>5 DEF Logged
<1>8. ASSUME NEW Y, \A x \in Y : x \notin Z, NEW Y2, NEW qq, Cover(R, act, Y, t.owned_xids, qq),
             \A id \in 1 .. Len(S) : /\ S[id].xmin \in Y2 <=> S[id].xmin \in Y
                                     /\ S[id].xmax \in Y2 <=> S[id].xmax \in Y
      PROVE  Cover(S, A, Y2, u.owned_xids, qq)
  <2>1. Z \subseteq act /\ 0 \notin act
      BY <1>1 DEF Cuttable
  <2>2. \A x \in 0 .. N - 1 : x \notin Z => (x \in A <=> x \in act)
      BY <1>1
  <2>3. SameView(R, act, Y, Purge(R, Z), A, Y)
      BY <1>1, <1>8, <2>1, <2>2, SameViewPurged
  <2> DEFINE O == t.owned_xids
  <2>4. SameView(R, act, Y, S, A, Y) /\ Cover(R, act, Y, O, qq)
        /\ \A id \in 1 .. Len(R) : R[id].xmin \in O => R[id].xmin \in O
      BY <1>1, <1>8, <2>3
  <2> HIDE DEF O
  <2>5. Cover(S, A, Y, O, qq)
      BY <1>1, <2>4, CoverSame
  <2>6. Cover(S, A, Y, t.owned_xids, qq) /\ N \in Nat /\ S \in Seq(RowIn(N)) /\ t \in TxnIn(N)
      BY <1>1, <2>5 DEF O
  <2>7. Cover(S, A, Y2, t.owned_xids \cup {N}, qq)
      BY <1>8, <2>6, FreshScope
  <2> QED  BY <1>1, <2>7
<1>9. LevelCover(R, act, t, q, n) /\ Cover(R, act, Held(t) \ Z, t.owned_xids, q2)
  <2>1. LevelCover(R, act, t, q, n)
    <3>1. n \in Nat /\ n # 0
        BY <1>1
    <3>2. n \in 1 .. n
        BY <3>1
    <3>3. \A k \in 1 .. n : LevelCover(R, act, t, q, k)
        BY <1>1
    <3> QED  BY <3>2, <3>3
  <2> QED  BY <1>0, <1>1, <2>1 DEF LevelCover
<1>10. ASSUME NEW id \in 1 .. Len(S)
       PROVE  /\ S[id].xmin \in Held(t) \cup {N} <=> S[id].xmin \in Held(t) \ Z
              /\ S[id].xmax \in Held(t) \cup {N} <=> S[id].xmax \in Held(t) \ Z
  <2>1. S[id].xmin # N /\ S[id].xmax # N /\ S[id].xmin \notin Z /\ S[id].xmax \notin Z
      BY <1>1, <1>3
  <2> QED  BY <2>1
<1>11. Cover(S, A, Held(u), u.owned_xids, q2)
  <2> DEFINE Y == Held(t) \ Z
             Y2 == Held(t) \cup {N}
  <2>1. /\ \A x \in Y : x \notin Z
        /\ \A id \in 1 .. Len(S) : /\ S[id].xmin \in Y2 <=> S[id].xmin \in Y
                                   /\ S[id].xmax \in Y2 <=> S[id].xmax \in Y
        /\ Cover(R, act, Y, t.owned_xids, q2)
      BY <1>9, <1>10
  <2>2. Held(u) = Y2
      BY <1>1
  <2> HIDE DEF Y, Y2
  <2> QED  BY <1>8, <2>1, <2>2
<1>12. ASSUME NEW k \in 1 .. n PROVE LevelCover(S, A, u, q2, k)
  <2>1. CASE k = n
    <3> DEFINE Y == Held(t) \ Z
               Y2 == Held(t)
    <3>1. /\ \A x \in Y : x \notin Z
          /\ \A id \in 1 .. Len(S) : /\ S[id].xmin \in Y2 <=> S[id].xmin \in Y
                                     /\ S[id].xmax \in Y2 <=> S[id].xmax \in Y
          /\ Cover(R, act, Y, t.owned_xids, q2)
        BY <1>2, <1>9, <1>10
    <3>2. Held(u) \ From(u, k) = Y2
        BY <1>1, <1>2, <2>1
    <3>3. SubSeq(q2, 1, u.saves[k].queue) = q2
      <4>1. SubSeq(q2, 1, Len(q2)) = q2
          BY <1>1
      <4> QED  BY <1>1, <2>1, <4>1
    <3> HIDE DEF Y, Y2
    <3>4. Cover(S, A, Y2, u.owned_xids, q2)
        BY <1>8, <3>1
    <3> QED  BY <3>2, <3>3, <3>4 DEF LevelCover
  <2>2. CASE k # n
    <3> DEFINE Y == Held(t) \ From(t, k)
               j == t.saves[k].queue
               qq == SubSeq(q, 1, j)
    <3>1. k \in 0 .. n /\ k \in 0 .. n - 1 /\ k < n
        BY <1>1, <2>2
    <3>2. \A x \in Y : x \notin Z
        BY <1>1, <3>1
    <3>3. Cover(R, act, Y, t.owned_xids, qq)
      <4>1. LevelCover(R, act, t, q, k)
          BY <1>1
      <4> QED  BY <4>1 DEF LevelCover
    <3>4. Held(u) \ From(u, k) = Y
      <4>1. Held(u) = Held(t) \cup {N} /\ From(u, k) = From(t, k) \cup {N}
          BY <1>1, <3>1
      <4> QED  BY <1>2, <4>1
    <3>5. j \in 0 .. Len(q2)
      <4>1. t.saves \in Seq(MarkIn) /\ k \in 1 .. Len(t.saves) /\ n \in 1 .. Len(t.saves)
          BY <1>0, <1>1 DEF TxnIn
      <4>2. j \in Nat
        <5>1. t.saves[k] \in MarkIn
            BY <4>1
        <5> QED  BY <5>1 DEF MarkIn
      <4>3. t.saves[k].queue <= t.saves[n].queue
          BY <1>1, <3>1, <4>1 DEF Marks
      <4> QED  BY <1>1, <4>2, <4>3
    <3>6. SubSeq(q2, 1, j) = qq
      <4> DEFINE l == t.saves[n].queue
      <4>1. l \in 0 .. Len(q) /\ q2 = SubSeq(q, 1, l) /\ j \in 0 .. l /\ q \in Seq(PendingFk)
          BY <1>1, <3>5
      <4> HIDE DEF l, j
      <4> QED  BY <4>1, SubSub
    <3>7. u.saves[k].queue = j
        BY <1>1
    <3> HIDE DEF Y, j, qq
    <3>8. Cover(S, A, Y, u.owned_xids, qq)
      <4>1. \A id \in 1 .. Len(S) : /\ S[id].xmin \in Y <=> S[id].xmin \in Y
                                    /\ S[id].xmax \in Y <=> S[id].xmax \in Y
          OBVIOUS
      <4> QED  BY <1>8, <3>2, <3>3, <4>1
    <3> QED  BY <3>4, <3>6, <3>7, <3>8 DEF LevelCover
  <2> QED  BY <2>1, <2>2
<1>13. Open(S, A, u, q2)
  <2>1. \A k \in 1 .. Len(u.saves) : LevelCover(S, A, u, q2, k)
      BY <1>0, <1>1, <1>12
  <2> QED  BY <1>5, <1>6, <1>7, <1>11, <2>1 DEF Open
<1>14. \A x \in Held(u) : x \in Held(t) \/ x = N
    BY <1>1
<1> QED  BY <1>4, <1>13, <1>14 DEF SInv, u

(* v is W without its first m entries.                                        *)
CutAt(v, W, m) == m \in 0 .. Len(W) /\ v = SubSeq(W, m + 1, Len(W))
Suffix(v, W, m) ==
    /\ \A i \in 0 + 1 .. Len(v) : \E j \in m + 1 .. Len(W) : v[i] = W[j]
    /\ \A j \in m + 1 .. Len(W) : \E i \in 0 + 1 .. Len(v) : v[i] = W[j]

LEMMA SuffixOf ==
    ASSUME NEW S, NEW W \in Seq(S), NEW m \in 0 .. Len(W), NEW v, v = SubSeq(W, m + 1, Len(W))
    PROVE  v \in Seq(S) /\ Suffix(v, W, m)
<1>1. Len(W) \in Nat /\ m \in Nat /\ m <= Len(W)
    OBVIOUS
<1>2. v \in Seq(S) /\ Len(v) = Len(W) - m /\ \A i \in 1 .. Len(W) - m : v[i] = W[m + i]
  <2>1. CASE m = Len(W)
      BY <1>1, <2>1
  <2>2. CASE m < Len(W)
      BY <1>1, <2>2
  <2> QED  BY <1>1, <2>1, <2>2
<1>3. ASSUME NEW i \in 0 + 1 .. Len(v) PROVE \E j \in m + 1 .. Len(W) : v[i] = W[j]
  <2>1. m + i \in m + 1 .. Len(W) /\ i \in 1 .. Len(W) - m
      BY <1>1, <1>2
  <2> QED  BY <1>2, <2>1
<1>4. ASSUME NEW j \in m + 1 .. Len(W) PROVE \E i \in 0 + 1 .. Len(v) : v[i] = W[j]
  <2> DEFINE i == j - m
  <2>1. i \in 0 + 1 .. Len(v) /\ i \in 1 .. Len(W) - m /\ m + i = j
      BY <1>1, <1>2, <1>4
  <2> HIDE DEF i
  <2>2. v[i] = W[j]
      BY <1>2, <2>1
  <2> QED  BY <2>1, <2>2
<1> QED  BY <1>2, <1>3, <1>4 DEF Suffix

LEMMA SuffixIs ==
    ASSUME NEW S, NEW W \in Seq(S), NEW m, NEW v, CutAt(v, W, m)
    PROVE  v \in Seq(S) /\ Suffix(v, W, m)
<1>1. m \in 0 .. Len(W) /\ v = SubSeq(W, m + 1, Len(W))
    BY DEF CutAt
<1> QED  BY <1>1, SuffixOf

LEMMA RestoredQueue ==
    ASSUME NEW e \in DeferralIn, NEW mark \in MarkIn, mark.queue <= Len(e.queue)
    PROVE  deferred_restore(e, mark).queue = SubSeq(e.queue, 1, mark.queue)
<1>1. \E j \in 0 .. Len(e.queue) :
         /\ j = IF Len(e.queue) <= mark.queue THEN Len(e.queue) ELSE mark.queue
         /\ deferred_restore(e, mark).queue = SubSeq(e.queue, 1, j)
    BY RestoreIn
<1>2. mark.queue \in Nat /\ e.queue \in Seq(PendingFk)
    BY DEF MarkIn, DeferralIn
<1>3. Len(e.queue) \in Nat
    BY <1>2
<1> QED  BY <1>1, <1>2, <1>3

(* The log after the innermost savepoint is of the xids of its scope.         *)
LEMMA ScopeLog ==
    ASSUME NEW N \in Nat, N # 0, NEW R \in Seq(RowIn(N)), NEW t \in TxnIn(N), t.xid # 0, Scoped(t),
           0 \notin Held(t), NEW q, Marks(t, q), Logged(R, t), NEW n \in 0 .. Len(t.saves),
           NEW m, m = Mark(t, n), NEW v, v = SubSeq(t.writes, m + 1, Len(t.writes))
    PROVE  v \in Seq(OpIn(N)) /\ Undoes(R, Held(t), v, From(t, n))
<1> DEFINE Z == From(t, n)
           W == t.writes
           Y == Held(t)
<1>1. m \in 0 .. Len(W) /\ \A x \in Z : x \in Y
    BY Scopes
<1>2. v \in Seq(OpIn(N)) /\ Suffix(v, W, m)
  <2>1. W \in Seq(OpIn(N)) /\ CutAt(v, W, m)
      BY <1>1 DEF TxnIn, CutAt
  <2> HIDE DEF W
  <2> QED  BY <2>1, SuffixIs
<1>3. \A i \in 1 .. Len(W) : W[i].prev = 0
    BY DEF Logged
<1>4. \A id \in 1 .. Len(R) : LoggedOn(R, t, Z, m, id)
    BY DEF Logged
<1>5. 0 \notin Y
    OBVIOUS
<1>5a. \A j \in m + 1 .. Len(W) : j \in 1 .. Len(W)
    BY <1>1
<1> HIDE DEF Z, Y, W
<1>6. ASSUME NEW i \in 1 .. Len(v) PROVE v[i].prev = 0
  <2>0. 0 + 1 = 1
      OBVIOUS
  <2>1. i \in 0 + 1 .. Len(v)
      BY <2>0
  <2>2. PICK j \in m + 1 .. Len(W) : v[i] = W[j]
      BY <1>2, <2>1 DEF Suffix
  <2> QED  BY <1>3, <1>5a, <2>2
<1>7. ASSUME NEW id \in 1 .. Len(R)
      PROVE  /\ R[id].xmin \in Z <=> Gone(R, Y, v, 0, id)
             /\ R[id].xmax \in Z <=> Back(R, Y, v, 0, id)
  <2>1. LoggedOn(R, t, Z, m, id)
      BY <1>4
  <2>2. \A i \in 0 + 1 .. Len(v) : \E j \in m + 1 .. Len(W) : v[i] = W[j]
      BY <1>2 DEF Suffix
  <2>3. \A j \in m + 1 .. Len(W) : \E i \in 0 + 1 .. Len(v) : v[i] = W[j]
      BY <1>2 DEF Suffix
  <2>4. R[id].xmin \in Z => Gone(R, Y, v, 0, id)
    <3>1. SUFFICES ASSUME R[id].xmin \in Z PROVE Gone(R, Y, v, 0, id)
        OBVIOUS
    <3>2. PICK i \in m + 1 .. Len(W) : W[i].new = id
        BY <2>1, <3>1 DEF LoggedOn, W
    <3> QED  BY <1>1, <2>3, <3>1, <3>2 DEF Gone
  <2>5. R[id].xmax \in Z => Back(R, Y, v, 0, id)
    <3>1. SUFFICES ASSUME R[id].xmax \in Z PROVE Back(R, Y, v, 0, id)
        OBVIOUS
    <3>2. PICK i \in m + 1 .. Len(W) : W[i].old = id
        BY <2>1, <3>1 DEF LoggedOn, W
    <3> QED  BY <1>1, <2>3, <3>1, <3>2 DEF Back
  <2>6. Gone(R, Y, v, 0, id) => R[id].xmin \in Z
    <3>1. SUFFICES ASSUME Gone(R, Y, v, 0, id) PROVE R[id].xmin \in Z
        OBVIOUS
    <3>2. R[id].xmin \in Y
        BY <3>1 DEF Gone
    <3>3. PICK i \in 0 + 1 .. Len(v) : v[i].new = id
        BY <3>1 DEF Gone
    <3>4. PICK j \in m + 1 .. Len(W) : v[i] = W[j]
        BY <2>2
    <3>5. \E k \in m + 1 .. Len(W) : W[k].new = id
        BY <3>3, <3>4
    <3> QED  BY <2>1, <3>2, <3>5 DEF LoggedOn, Y, W
  <2>7. Back(R, Y, v, 0, id) => R[id].xmax \in Z
    <3>1. SUFFICES ASSUME Back(R, Y, v, 0, id) PROVE R[id].xmax \in Z
        OBVIOUS
    <3>2. R[id].xmax \in Y
        BY <3>1 DEF Back
    <3>3. PICK i \in 0 + 1 .. Len(v) : v[i].old = id
        BY <3>1 DEF Back
    <3>4. PICK j \in m + 1 .. Len(W) : v[i] = W[j]
        BY <2>2
    <3>5. \E k \in m + 1 .. Len(W) : W[k].old = id
        BY <3>3, <3>4
    <3> QED  BY <2>1, <3>2, <3>5 DEF LoggedOn, Y, W
  <2> QED  BY <2>4, <2>5, <2>6, <2>7
<1>8. 0 \notin Z
    BY <1>1, <1>5
<1>9. Undoes(R, Y, v, Z)
    BY <1>5, <1>6, <1>7, <1>8 DEF Undoes
<1> QED  BY <1>2, <1>9 DEF Y, Z

LEMMA RollbackToKept ==
    ASSUME NEW N, NEW R, NEW act, NEW tx, NEW df, NEW s, Doing(N, R, act, tx, df, s),
           tx[s].saves # <<>>,
           NEW m, m = Last(tx[s].saves).writes,
           NEW v, v = SubSeq(tx[s].writes, m + 1, Len(tx[s].writes)),
           NEW d, d = deferred_restore(df[s], Last(tx[s].saves))
    PROVE  Kept(undo_all(R, Held(tx[s]), v), act \cup {N},
                [tx EXCEPT ![s] = CutTxn(tx[s], m, N)], [df EXCEPT ![s] = d])
<1> DEFINE t == tx[s]
           q == df[s].queue
           q2 == d.queue
           n == Len(t.saves)
           Z == From(t, n)
           u == CutTxn(t, m, N)
           A == act \cup {N}
           S == Purge(R, Z)
           tx2 == [tx EXCEPT ![s] = u]
<1>1. /\ World(N, R, act, tx) /\ s \in Sessions /\ N \in Nat /\ N # 0 /\ R \in Seq(RowIn(N))
      /\ tx \in [Sessions -> TxnIn(N)] /\ df \in [Sessions -> DeferralIn] /\ q \in Seq(PendingFk)
      /\ t \in TxnIn(N) /\ 0 \notin Held(t) /\ t.xid # 0 /\ Scoped(t) /\ Rest(R, act, tx, df, s)
      /\ Fine(R, act, tx) /\ Apart(R, tx) /\ Postponed(R, t, q) /\ Open(R, act, t, q)
      /\ Held(t) \subseteq act /\ 0 \notin act /\ \A o \in Sessions : 0 \notin Held(tx[o])
    BY DoingIs
<1>2. Marks(t, q) /\ Logged(R, t)
    BY <1>1 DEF Open
<1>3. /\ m = Mark(t, n) /\ n \in Nat /\ n # 0 /\ Last(t.saves) = t.saves[n] /\ Last(t.saves) \in MarkIn
  <2>1. u = CutTxn(t, m, N) /\ m = Last(t.saves).writes /\ t.saves # <<>>
      OBVIOUS
  <2>2. t.saves \in Seq(MarkIn)
      BY <1>1 DEF TxnIn
  <2> HIDE DEF t
  <2>3. /\ n \in Nat /\ n # 0 /\ Last(t.saves) = t.saves[n] /\ Last(t.saves) \in MarkIn
      BY <2>1, <2>2, FrontIs
  <2> QED  BY <2>1, <2>3 DEF Mark
<1>4. undo_all(R, Held(t), v) = S
  <2>1. n \in 0 .. Len(t.saves) /\ v = SubSeq(t.writes, m + 1, Len(t.writes))
      BY <1>3
  <2> HIDE DEF t, n, q
  <2>2. v \in Seq(OpIn(N)) /\ Undoes(R, Held(t), v, From(t, n))
      BY <1>1, <1>2, <1>3, <2>1, ScopeLog
  <2> QED  BY <1>1, <2>2, UndoIsPurge
<1>5. q2 = SubSeq(q, 1, Last(t.saves).queue)
  <2> DEFINE mark == Last(t.saves)
  <2>1. mark.queue \in Nat /\ mark.queue <= Len(q) /\ Len(q) \in Nat
    <3>1. n \in 1 .. Len(t.saves)
        BY <1>3
    <3>2. t.saves[n].queue <= Len(q)
        BY <1>2, <3>1 DEF Marks
    <3> QED  BY <1>1, <1>3, <3>2 DEF MarkIn
  <2> DEFINE e == df[s]
  <2>2. e \in DeferralIn /\ mark \in MarkIn /\ d = deferred_restore(e, mark) /\ e.queue = q
      BY <1>1, <1>3
  <2> HIDE DEF mark, e
  <2>4. d.queue = SubSeq(e.queue, 1, mark.queue)
      BY <2>1, <2>2, RestoredQueue
  <2> QED  BY <2>2, <2>4 DEF mark
<1>6. SInv(S, A, u, q2) /\ \A x \in Held(u) : x \in Held(t) \/ x = N
  <2>1. Cuttable(N, R, act, t, q, m, S, A, q2)
      BY <1>1, <1>5 DEF Cuttable, Own
  <2> HIDE DEF t, q, A, S, q2
  <2> QED  BY <2>1, CutOpen
<1>7. \A x \in Z : x \in Held(t)
    BY DEF From
<1>8. Z \subseteq Held(tx[s]) /\ Z \subseteq act /\ Outside(N, Z, act, A)
    BY <1>1, <1>7 DEF Outside
<1>9. Rest(S, A, tx, df, s)
  <2> HIDE DEF Z, A
  <2> QED  BY <1>1, <1>8, RestPurged
<1>10. Tops(N, tx, tx2)
  <2>1. \A x \in Held(u) : x \in Held(tx[s]) \/ x = N
      BY <1>6
  <2> HIDE DEF u
  <2> QED  BY <1>1, <2>1, TopsPut
<1>11. Fine(S, A, tx2)
  <2> HIDE DEF Z, A, tx2
  <2> QED  BY <1>1, <1>8, <1>10, FinePurged
<1> HIDE DEF S, A, u
<1>12. Kept(S, A, [tx EXCEPT ![s] = u], [df EXCEPT ![s] = d])
    BY <1>1, <1>6, <1>9, <1>11, KeptPut
<1> QED  BY <1>4, <1>12 DEF A, u

-----------------------------------------------------------------------------
(* The hypotheses of the theorems.  The first four are the quirks under which  *)
(* the code loses a reference; under the last two it does not as far as TLC    *)
(* can see, but one live parent of a key, which the argument needs, is then    *)
(* not true of the rows at every step.                                       *)
KeptApart == {"overlap", "sub", "immediate", "refused", "restore", "race"} \cap Quirks = {}

(* What a client may issue, unless its sessions overlap as the quirks allow.   *)
Allowed(s, q, st, c) ==
    /\ Deletes(q) \/ Updates(q) =>
          /\ q.row \in Seen(st, c, "parent") \cup Seen(st, c, "child")
          /\ rows[q.row].xmax \notin active
    /\ Updates(q) => q.key # rows[q.row].key
    /\ (InsertsParent(q) \/ Updates(q)) /\ IsParent(q) =>
          /\ ~unique_violation(q.key, Replaced(q), c)
          /\ \A id \in Versions("parent", q.key) :
                rows[id].xmax \notin c.owns /\ rows[id].xmin \notin active \ c.owns
    /\ \A o \in Sessions \ {s} :
          /\ RemovesKey(q) => ~Touches(txn[o], "child")
          /\ ~Sets(q) /\ RemovedKey(txn[o]) => IsParent(q)
    /\ txn[s].owned_xids = {} \/
          ~(IsParent(q) \/ ((Deletes(q) \/ Updates(q)) /\ RemovedKey(txn[s])))
    /\ SetsNow(q) => txn[s].saves = <<>>

LEMMA AllowedIs ==
    ASSUME KeptApart,
           NEW s, NEW q, NEW st, NEW c, MayIssue(s, q, st, c)
    PROVE  Allowed(s, q, st, c)
<1>1. /\ "overlap" \notin Quirks /\ "sub" \notin Quirks /\ "immediate" \notin Quirks
      /\ "restore" \notin Quirks /\ "race" \notin Quirks
    BY DEF KeptApart
<1>2. /\ Deletes(q) \/ Updates(q) =>
            /\ q.row \in Seen(st, c, "parent") \cup Seen(st, c, "child")
            /\ rows[q.row].xmax \notin active
      /\ Updates(q) => q.key # rows[q.row].key
    BY Zenon DEF MayIssue, Deletes, Updates
<1>3. (InsertsParent(q) \/ Updates(q)) /\ IsParent(q) =>
          /\ ~unique_violation(q.key, Replaced(q), c)
          /\ \A id \in Versions("parent", q.key) :
                rows[id].xmax \notin c.owns /\ rows[id].xmin \notin active \ c.owns
  <2>1. (InsertsParent(q) \/ Updates(q)) /\ IsParent(q) => GivesKey(q)
      BY Zenon DEF GivesKey, InsertsParent, Updates
  <2>2. GivesKey(q) =>
          /\ ~unique_violation(q.key, Replaced(q), c)
          /\ \A id \in Versions("parent", q.key) :
                rows[id].xmax \notin c.owns /\ rows[id].xmin \notin active \ c.owns
      BY <1>1, Zenon DEF MayIssue
  <2> QED  BY <2>1, <2>2
<1>4. ASSUME NEW o \in Sessions \ {s}
      PROVE  /\ RemovesKey(q) => ~Touches(txn[o], "child")
             /\ ~Sets(q) /\ RemovedKey(txn[o]) => IsParent(q)
    BY <1>1, Zenon DEF MayIssue, Sets
<1>5. txn[s].owned_xids = {} \/
          ~(IsParent(q) \/ ((Deletes(q) \/ Updates(q)) /\ RemovedKey(txn[s])))
    BY <1>1, Zenon DEF MayIssue, Deletes, Updates
<1>6. SetsNow(q) => txn[s].saves = <<>>
    BY <1>1, Zenon DEF MayIssue, SetsNow, Sets
<1> QED  BY <1>2, <1>3, <1>4, <1>5, <1>6 DEF Allowed

LEMMA ParentIs ==
    ASSUME NEW q
    PROVE  /\ InsertsParent(q) => IsParent(q)
           /\ InsertsChild(q) => ~IsParent(q) /\ ~Sets(q)
           /\ Deletes(q) \/ Updates(q) => /\ IsParent(q) <=> rows[q.row].table = "parent"
                                          /\ ~Sets(q)
                                          /\ IsParent(q) => RemovesKey(q)
<1>1. InsertsParent(q) => IsParent(q)
    BY Zenon DEF InsertsParent, IsParent
<1>2. InsertsChild(q) => ~IsParent(q) /\ ~Sets(q)
    BY Zenon DEF InsertsChild, IsParent, Sets
<1>3. Deletes(q) \/ Updates(q) => (IsParent(q) <=> rows[q.row].table = "parent") /\ ~Sets(q)
    BY Zenon DEF Deletes, Updates, IsParent, Sets
<1>4. Deletes(q) \/ Updates(q) => (IsParent(q) => RemovesKey(q))
    BY Zenon DEF Deletes, Updates, RemovesKey
<1> QED  BY <1>1, <1>2, <1>3, <1>4

(* The transactions of the statement: those of the sessions, or, outside a     *)
(* block, with one begun for it.                                               *)
Virtual(N, A, tx, df, s) ==
    /\ Doing(N, rows, A, tx, df, s) /\ ~tx[s].failed
    /\ \A id \in 1 .. Len(rows) :
          (rows[id].xmax \in A <=> rows[id].xmax \in active) /\ (rows[id].xmin \in A <=> rows[id].xmin \in active)
    /\ \A o \in Sessions \ {s} : tx[o] = txn[o]
    /\ tx[s].owned_xids = txn[s].owned_xids /\ tx[s].writes = txn[s].writes
    /\ tx[s].saves = txn[s].saves

LEMMA LogShows ==
    ASSUME NEW N, NEW R, NEW act, NEW tx, World(N, R, act, tx), NEW df, Kept(R, act, tx, df),
           NEW s \in Sessions, NEW id \in 1 .. Len(R)
    PROVE  /\ R[id].xmin \in Held(tx[s]) => \E i \in DOMAIN tx[s].writes : tx[s].writes[i].new = id
           /\ R[id].xmax \in Held(tx[s]) => \E i \in DOMAIN tx[s].writes : tx[s].writes[i].old = id
<1> DEFINE t == tx[s]
           q == df[s].queue
<1>1. /\ N \in Nat /\ N # 0 /\ t \in TxnIn(N) /\ Scoped(t) /\ (t.xid # 0 => Open(R, act, t, q))
    BY WorldFacts, KeptIs
<1> HIDE DEF t, q
<1>2. CASE t.xid = 0
    BY <1>2 DEF Held, t
<1>3. CASE t.xid # 0
  <2>1. Marks(t, q) /\ Logged(R, t)
      BY <1>1, <1>3 DEF Open
  <2>2. From(t, 0) = Held(t) /\ Len(t.saves) \in Nat
      BY <1>1, <1>3, <2>1, Scopes
  <2>3. LoggedOn(R, t, From(t, 0), Mark(t, 0), id)
    <3>1. 0 \in 0 .. Len(t.saves)
        BY <2>2
    <3> QED  BY <2>1, <3>1 DEF Logged
  <2>4. LoggedOn(R, t, Held(t), 0, id)
      BY <2>2, <2>3 DEF Mark
  <2>5. DOMAIN t.writes = 1 .. Len(t.writes)
      BY <1>1 DEF TxnIn
  <2>6. /\ R[id].xmin \in Held(t) => \E i \in 0 + 1 .. Len(t.writes) : t.writes[i].new = id
        /\ R[id].xmax \in Held(t) => \E i \in 0 + 1 .. Len(t.writes) : t.writes[i].old = id
      BY <2>4 DEF LoggedOn
  <2> QED  BY <2>5, <2>6 DEF t
<1> QED  BY <1>2, <1>3

LEMMA VirtualIs ==
    ASSUME NEW N, NEW A, NEW tx, NEW df, NEW s, Virtual(N, A, tx, df, s)
    PROVE  /\ Doing(N, rows, A, tx, df, s) /\ World(N, rows, A, tx) /\ Kept(rows, A, tx, df)
           /\ N \in Nat /\ s \in Sessions /\ tx[s].xid # 0 /\ ~tx[s].failed
           /\ rows \in Seq(RowIn(N)) /\ DOMAIN rows = 1 .. Len(rows)
           /\ \A id \in 1 .. Len(rows) : rows[id].xmax \in A <=> rows[id].xmax \in active
           /\ \A id \in 1 .. Len(rows) : rows[id].xmin \in A <=> rows[id].xmin \in active
           /\ \A o \in Sessions : o # s => tx[o] = txn[o]
           /\ tx[s].owned_xids = txn[s].owned_xids /\ tx[s].writes = txn[s].writes
           /\ tx[s].saves = txn[s].saves
<1>1. Doing(N, rows, A, tx, df, s)
    BY DEF Virtual
<1>2. /\ World(N, rows, A, tx) /\ Kept(rows, A, tx, df) /\ N \in Nat /\ s \in Sessions
      /\ tx[s].xid # 0 /\ rows \in Seq(RowIn(N))
    BY <1>1, DoingIs
<1>3. DOMAIN rows = 1 .. Len(rows)
    BY <1>2
<1> QED  BY <1>1, <1>2, <1>3 DEF Virtual

(* A row that is named is visible, and nobody has removed it.                 *)
LEMMA NamedRow ==
    ASSUME NEW N, NEW A, NEW tx, NEW df, NEW s, Virtual(N, A, tx, df, s),
           NEW c, Under(c, N, A, tx[s]), NEW st, st.rows = rows,
           NEW q, Allowed(s, q, st, c), Deletes(q) \/ Updates(q)
    PROVE  /\ q.row \in 1 .. Len(rows) /\ rows[q.row].xmax = 0 /\ Mine(rows[q.row], A, tx[s])
           /\ rows[q.row].table = "parent" \/ rows[q.row].table = "child"
<1> DEFINE id == q.row
<1>1. /\ N \in Nat /\ rows \in Seq(RowIn(N)) /\ DOMAIN rows = 1 .. Len(rows)
      /\ \A j \in 1 .. Len(rows) : rows[j].xmax \in A <=> rows[j].xmax \in active
    BY VirtualIs
<1>2. /\ id \in Seen(st, c, "parent") \cup Seen(st, c, "child")
      /\ rows[id].xmax \notin active
    BY DEF Allowed
<1>3. /\ id \in 1 .. Len(rows) /\ row_visible(rows[id], c.snap, c.owns)
      /\ rows[id].table = "parent" \/ rows[id].table = "child"
    BY <1>1, <1>2 DEF Seen
<1>4. rows[id] \in RowIn(N)
    BY <1>1, <1>3
<1>5. c.snap = [next_xid |-> N, active |-> A] /\ c.owns = Held(tx[s])
    BY DEF Under
<1> HIDE DEF id
<1>6. Vis(rows[id], A, Held(tx[s]))
  <2> DEFINE r == rows[id]
             Y == Held(tx[s])
  <2>1. r \in RowIn(N) /\ row_visible(r, [next_xid |-> N, active |-> A], Y)
      BY <1>3, <1>4, <1>5
  <2> HIDE DEF r, Y
  <2>2. Vis(r, A, Y)
      BY <1>1, <2>1, VisIs
  <2> QED  BY <2>2 DEF r, Y
<1>7. rows[id].xmax \notin A
    BY <1>1, <1>2, <1>3
<1> QED  BY <1>3, <1>6, <1>7 DEF Vis, Mine, id

(* The key a statement gives to a parent is no live parent's: not of what it   *)
(* sees, by the unique index, nor of what its block or another has touched.   *)
LEMMA FreeKey ==
    ASSUME NEW N, NEW A, NEW tx, NEW df, NEW s, Virtual(N, A, tx, df, s),
           NEW c, Under(c, N, A, tx[s]), NEW st, NEW q, Allowed(s, q, st, c),
           InsertsParent(q) \/ Updates(q), IsParent(q)
    PROVE  Free(rows, A, q.key)
<1> DEFINE Y == c.owns
           key == q.key
<1>1. /\ DOMAIN rows = 1 .. Len(rows) /\ N \in Nat /\ rows \in Seq(RowIn(N))
      /\ \A j \in 1 .. Len(rows) : rows[j].xmin \in A <=> rows[j].xmin \in active
    BY VirtualIs
<1>2. c.snap = [next_xid |-> N, active |-> A]
    BY DEF Under
<1>3. /\ ~unique_violation(key, Replaced(q), c)
      /\ \A id \in Versions("parent", key) : rows[id].xmax \notin Y /\ rows[id].xmin \notin active \ Y
      /\ Updates(q) => key # rows[q.row].key
    BY Zenon DEF Allowed
<1>4. \A id \in 1 .. Len(rows) : rows[id].key = key => id \notin Replaced(q)
  <2>1. InsertsParent(q) => Replaced(q) = {}
      BY Zenon DEF InsertsParent, Replaced
  <2>2. Updates(q) => Replaced(q) = {q.row}
      BY Zenon DEF Updates, Replaced
  <2> QED  BY <1>3, <2>1, <2>2
<1> HIDE DEF key
<1>5. ASSUME NEW id \in 1 .. Len(rows), rows[id].table = "parent", rows[id].key = key
      PROVE  ~Live(rows[id], A)
  <2> DEFINE r == rows[id]
  <2>1. r.xmax \notin Y /\ r.xmin \notin active \ Y
    <3>1. id \in Versions("parent", key)
        BY <1>1, <1>5 DEF Versions
    <3> QED  BY <1>3, <3>1
  <2>2. r.xmin \notin Y /\ ~row_visible(r, c.snap, Y)
    <3>1. id \in DOMAIN rows \ Replaced(q)
        BY <1>1, <1>4, <1>5
    <3> QED  BY <1>3, <1>5, <2>1, <3>1 DEF unique_violation
  <2>3. r.xmin \notin A
      BY <1>1, <2>1, <2>2
  <2>4. r \in RowIn(N) /\ r.table = "parent"
      BY <1>1, <1>5
  <2> HIDE DEF r, Y
  <2>5. ~Vis(r, A, Y)
      BY <1>1, <1>2, <2>2, <2>4, VisIs
  <2>6. r.xmax # 0 /\ r.xmax \notin A
      BY <2>1, <2>2, <2>3, <2>4, <2>5 DEF Vis
  <2> QED  BY <2>6 DEF Live, r
<1> QED  BY <1>5 DEF Free, key

LEMMA NoKinOut ==
    ASSUME NEW N, NEW A, NEW tx, NEW df, NEW s, Virtual(N, A, tx, df, s),
           \A o \in Sessions \ {s} : ~Touches(txn[o], "child")
    PROVE  Alone(rows, tx, s)
<1>1. /\ World(N, rows, A, tx) /\ Kept(rows, A, tx, df) /\ rows \in Seq(RowIn(N)) /\ Len(rows) \in Nat
      /\ \A o \in Sessions : o # s => tx[o] = txn[o]
    BY VirtualIs, WorldFacts
<1>2. ASSUME NEW id \in 1 .. Len(rows), rows[id].table = "child", NEW o \in Sessions, o # s,
             rows[id].xmin \in Held(tx[o]) \/ rows[id].xmax \in Held(tx[o])
      PROVE  FALSE
  <2>1. \E i \in DOMAIN tx[o].writes : tx[o].writes[i].new = id \/ tx[o].writes[i].old = id
      BY <1>1, <1>2, LogShows
  <2>2. id # 0
      BY <1>1
  <2>3. Touches(txn[o], "child")
      BY <1>1, <1>2, <2>1, <2>2 DEF Touches
  <2> QED  BY <1>2, <2>3
<1> QED  BY <1>2 DEF Alone

LEMMA NoRivalOut ==
    ASSUME NEW N, NEW A, NEW tx, NEW df, NEW s, Virtual(N, A, tx, df, s),
           \A o \in Sessions \ {s} : ~RemovedKey(txn[o])
    PROVE  Unrivalled(rows, tx, s)
<1>1. /\ World(N, rows, A, tx) /\ Kept(rows, A, tx, df) /\ rows \in Seq(RowIn(N)) /\ Len(rows) \in Nat
      /\ \A o \in Sessions : o # s => tx[o] = txn[o]
    BY VirtualIs, WorldFacts
<1>2. ASSUME NEW id \in 1 .. Len(rows), rows[id].table = "parent", NEW o \in Sessions, o # s,
             rows[id].xmax \in Held(tx[o])
      PROVE  FALSE
  <2>1. \E i \in DOMAIN tx[o].writes : tx[o].writes[i].old = id
      BY <1>1, <1>2, LogShows
  <2>2. id # 0
      BY <1>1
  <2>3. RemovedKey(txn[o])
      BY <1>1, <1>2, <2>1, <2>2 DEF RemovedKey
  <2> QED  BY <1>2, <2>3
<1> QED  BY <1>2 DEF Unrivalled

LEMMA OwnKeys ==
    ASSUME NEW N, NEW A, NEW tx, NEW df, NEW s, Virtual(N, A, tx, df, s), ~RemovedKey(txn[s])
    PROVE  \A p \in 1 .. Len(rows) : rows[p].table = "parent" => rows[p].xmax # tx[s].xid
<1>1. /\ World(N, rows, A, tx) /\ Kept(rows, A, tx, df) /\ rows \in Seq(RowIn(N)) /\ Len(rows) \in Nat
      /\ tx[s].writes = txn[s].writes /\ s \in Sessions /\ tx[s].xid # 0
    BY VirtualIs, WorldFacts
<1>2. ASSUME NEW id \in 1 .. Len(rows), rows[id].table = "parent", rows[id].xmax = tx[s].xid
      PROVE  FALSE
  <2>1. tx[s].xid \in Held(tx[s])
      BY <1>1, HeldIs
  <2>2. \E i \in DOMAIN tx[s].writes : tx[s].writes[i].old = id
      BY <1>1, <1>2, <2>1, LogShows
  <2>3. id # 0
      BY <1>1
  <2>4. RemovedKey(txn[s])
      BY <1>1, <1>2, <2>2, <2>3 DEF RemovedKey
  <2> QED  BY <2>4
<1> QED  BY <1>2

LEMMA ReadyIs ==
    ASSUME NEW N, NEW A, NEW tx, NEW df, NEW s, Virtual(N, A, tx, df, s),
           NEW c, Under(c, N, A, tx[s]), NEW st, st.rows = rows, NEW q, Allowed(s, q, st, c)
    PROVE  Ready(rows, A, tx, s, q) /\ (SetsNow(q) => tx[s].saves = <<>>)
<1>1. /\ tx[s].owned_xids = txn[s].owned_xids /\ tx[s].saves = txn[s].saves
    BY VirtualIs
<1>2. SetsNow(q) => tx[s].saves = <<>>
    BY <1>1 DEF Allowed
<1>3. InsertsChild(q) => Unrivalled(rows, tx, s)
    BY ParentIs, NoRivalOut DEF Allowed
<1>4. InsertsParent(q) => tx[s].owned_xids = {} /\ Free(rows, A, q.key)
  <2>1. InsertsParent(q) => IsParent(q)
      BY ParentIs
  <2>2. InsertsParent(q) => tx[s].owned_xids = {}
      BY <1>1, <2>1 DEF Allowed
  <2> QED  BY <2>1, <2>2, FreeKey
<1>5. ASSUME Deletes(q) \/ Updates(q), IsParent(q) PROVE Removable(rows, A, tx, s, q.row)
  <2>1. /\ q.row \in 1 .. Len(rows) /\ rows[q.row].xmax = 0 /\ Mine(rows[q.row], A, tx[s])
      BY <1>5, NamedRow
  <2>2. rows[q.row].table = "parent" /\ RemovesKey(q)
      BY <1>5, ParentIs
  <2>3. Alone(rows, tx, s) /\ tx[s].owned_xids = {}
      BY <1>1, <1>5, <2>2, NoKinOut DEF Allowed
  <2> QED  BY <2>1, <2>2, <2>3 DEF Removable
<1>6. ASSUME Deletes(q) \/ Updates(q), ~IsParent(q) PROVE WritableChild(rows, A, tx, s, q.row)
  <2>1. /\ q.row \in 1 .. Len(rows) /\ rows[q.row].xmax = 0 /\ Mine(rows[q.row], A, tx[s])
        /\ rows[q.row].table = "parent" \/ rows[q.row].table = "child"
      BY <1>6, NamedRow
  <2>2. rows[q.row].table = "child" /\ ~Sets(q)
      BY <1>6, <2>1, ParentIs
  <2>3. Unrivalled(rows, tx, s)
      BY <1>6, <2>2, NoRivalOut DEF Allowed
  <2>4. \/ tx[s].owned_xids = {}
        \/ \A p \in 1 .. Len(rows) : rows[p].table = "parent" => rows[p].xmax # tx[s].xid
      BY <1>1, <1>6, OwnKeys DEF Allowed
  <2> QED  BY <2>1, <2>2, <2>3, <2>4 DEF WritableChild
<1>7. Updates(q) /\ IsParent(q) => Free(rows, A, q.key) /\ q.key # rows[q.row].key
  <2>1. Updates(q) => q.key # rows[q.row].key
      BY DEF Allowed
  <2> QED  BY <2>1, FreeKey
<1> QED  BY <1>2, <1>3, <1>4, <1>5, <1>6, <1>7 DEF Ready

(* What a statement that may be issued makes of its transaction.              *)
LEMMA IssuedRuns ==
    ASSUME KeptApart,
           NEW N, NEW A, NEW tx, NEW df, NEW s, Virtual(N, A, tx, df, s),
           NEW c, Under(c, N, A, tx[s]), NEW st, Starts(N, rows, df, s, st),
           NEW q \in Statements, MayIssue(s, q, st, c), NEW y, y = execute(q, st, c)
    PROVE  Running(N, rows, A, tx, s, c, y) /\ Keeps(tx[s], df[s].queue, y.queue)
<1>1. Allowed(s, q, st, c)
    BY AllowedIs
<1>2. st.rows = rows
    BY DEF Starts
<1>3. Ready(rows, A, tx, s, q) /\ (SetsNow(q) => tx[s].saves = <<>>)
    BY <1>1, <1>2, ReadyIs
<1>4. /\ World(N, rows, A, tx) /\ Kept(rows, A, tx, df) /\ s \in Sessions /\ tx[s].xid # 0
      /\ ~tx[s].failed
    BY VirtualIs
<1> QED  BY <1>3, <1>4, ExecuteRuns

-----------------------------------------------------------------------------
(* Every step keeps it.                                                       *)

FkInv == XInv /\ Kept(rows, active, txn, deferred)

LEMMA FkWorld ==
    ASSUME FkInv
    PROVE  /\ World(next_xid, rows, active, txn) /\ deferred \in [Sessions -> DeferralIn]
           /\ Kept(rows, active, txn, deferred) /\ XInv
           /\ \A s \in Sessions : txn[s].xid # 0 =>
                 Doing(next_xid, rows, active, txn, deferred, s)
<1>1. XInv /\ Kept(rows, active, txn, deferred)
    BY DEF FkInv
<1>2. /\ next_xid \in Nat /\ next_xid # 0 /\ rows \in Seq(RowIn(next_xid))
      /\ txn \in [Sessions -> TxnIn(next_xid)] /\ deferred \in [Sessions -> DeferralIn]
      /\ Owned(active, txn) /\ \A s \in Sessions : txn[s] \in TxnIn(next_xid) /\ Scoped(txn[s])
    BY <1>1, XFacts
<1>3. 0 \notin active
  <2>1. ASSUME NEW s \in Sessions, 0 \in Held(txn[s]) PROVE FALSE
    <3>1. txn[s].xid # 0
        BY <2>1 DEF Held
    <3>2. 0 \in txn[s].owned_xids
        BY <2>1, <3>1, HeldIs
    <3>3. Open(rows, active, txn[s], deferred[s].queue)
        BY <1>1, <3>1, KeptIs
    <3>4. txn[s].xid < 0
        BY <3>2, <3>3 DEF Open, Marks
    <3>5. txn[s].xid \in 0 .. next_xid - 1
        BY <1>2 DEF TxnIn
    <3> QED  BY <3>4, <3>5
  <2> QED  BY <1>2, <2>1 DEF Owned
<1>4. World(next_xid, rows, active, txn)
    BY <1>2, <1>3 DEF World
<1> QED  BY <1>1, <1>2, <1>4 DEF Doing

(* The context of a statement, of a block and outside one.                    *)
LEMMA BlockStarts ==
    ASSUME FkInv, NEW s \in Sessions, txn[s].xid # 0, ~txn[s].failed
    PROVE  /\ Virtual(next_xid, active, txn, deferred, s)
           /\ Under(TxnCtx(s), next_xid, active, txn[s])
           /\ Starts(next_xid, rows, deferred, s, Start(deferred[s]))
           /\ TxnCtx(s).write_xid = write_xid(txn[s])
<1>1. Doing(next_xid, rows, active, txn, deferred, s) /\ XInv
    BY FkWorld
<1>2. Virtual(next_xid, active, txn, deferred, s)
    BY <1>1 DEF Virtual
<1>3. Held(txn[s]) = all_xids(txn[s])
    BY DEF Held
<1>4. Under(TxnCtx(s), next_xid, active, txn[s])
    BY <1>3 DEF Under, TxnCtx, Ctx, Fresh
<1>5. Starts(next_xid, rows, deferred, s, Start(deferred[s]))
  <2> DEFINE st == Start(deferred[s])
  <2>1. /\ st \in StateIn(next_xid) /\ st.ok /\ st.rows = rows /\ st.ops = <<>>
        /\ st.queue = deferred[s].queue
      BY <1>1, StartIn DEF XInv
  <2> HIDE DEF st
  <2> QED  BY <2>1 DEF Starts, st
<1> QED  BY <1>2, <1>4, <1>5 DEF Under

LEMMA KBegin ==
    ASSUME FkInv, NEW s \in Sessions, txn_begin(s)
    PROVE  Kept(rows', active', txn', deferred')
<1>1. /\ txn[s].xid = 0 /\ txn' = [txn EXCEPT ![s] = BegunTxn(next_xid)]
      /\ active' = active \cup {next_xid} /\ rows' = rows /\ deferred' = deferred
    BY DEF txn_begin, InTxn, BegunTxn
<1>2. Kept(rows, active \cup {next_xid}, [txn EXCEPT ![s] = BegunTxn(next_xid)], deferred)
    BY <1>1, FkWorld, BeginKept
<1> QED  BY <1>1, <1>2

LEMMA KExecute ==
    ASSUME KeptApart,
           FkInv, NEW s \in Sessions, NEW q \in Statements, txn_execute(s, q)
    PROVE  Kept(rows', active', txn', deferred')
<1> DEFINE c == TxnCtx(s)
           st0 == Start(deferred[s])
           st == execute(q, st0, c)
           dl == q.kind = "delete"
           t == RanTxn(txn[s], st, dl)
           d == [queue |-> st.queue, modes |-> st.modes]
<1>1. /\ txn[s].xid # 0 /\ ~txn[s].failed /\ MayIssue(s, q, st0, c) /\ rows' = st.rows
      /\ deferred' = [deferred EXCEPT ![s] = d] /\ active' = active
    BY DEF txn_execute, InTxn
<1>2. txn' = [txn EXCEPT ![s] = t]
  <2>1. txn' = [txn EXCEPT ![s].writes = @ \o st.ops, ![s].failed = ~st.ok, ![s].deletes = @ \/ dl]
      BY DEF txn_execute
  <2>2. txn \in [Sessions -> TxnIn(next_xid)]
      BY FkWorld, XFacts
  <2> HIDE DEF st, dl
  <2> QED  BY <2>1, <2>2 DEF RanTxn
<1>3. /\ Virtual(next_xid, active, txn, deferred, s) /\ Under(c, next_xid, active, txn[s])
      /\ Starts(next_xid, rows, deferred, s, st0) /\ c.write_xid = write_xid(txn[s])
    BY <1>1, BlockStarts
<1> HIDE DEF c, st0
<1>4. Running(next_xid, rows, active, txn, s, c, st) /\ Keeps(txn[s], deferred[s].queue, st.queue)
    BY <1>1, <1>3, IssuedRuns
<1>5. d.queue = st.queue
    OBVIOUS
<1> HIDE DEF st, d, dl
<1>6. Kept(st.rows, active, [txn EXCEPT ![s] = RanTxn(txn[s], st, dl)], [deferred EXCEPT ![s] = d])
    BY <1>1, <1>3, <1>4, <1>5, FkWorld, RanKept
<1> QED  BY <1>1, <1>2, <1>6

LEMMA KSavepoint ==
    ASSUME FkInv, NEW s \in Sessions, txn_savepoint(s)
    PROVE  Kept(rows', active', txn', deferred')
<1> DEFINE mark == [writes |-> Len(txn[s].writes), queue |-> Len(deferred[s].queue),
                    modes |-> deferred[s].modes]
<1>1. /\ txn[s].xid # 0 /\ ~txn[s].failed /\ active' = active \cup {next_xid}
      /\ rows' = rows /\ deferred' = deferred
    BY DEF txn_savepoint, InTxn
<1>2. txn' = [txn EXCEPT ![s] = SavedTxn(txn[s], mark, next_xid)]
  <2>1. txn' = [txn EXCEPT ![s].saves = Append(@, mark), ![s].sub_xids = Append(@, next_xid),
                           ![s].owned_xids = @ \cup {next_xid}]
      BY DEF txn_savepoint
  <2> HIDE DEF mark
  <2> QED  BY <2>1, FkWorld, XFacts DEF SavedTxn
<1>3. mark \in MarkIn /\ mark.writes = Len(txn[s].writes) /\ mark.queue = Len(deferred[s].queue)
  <2>1. txn[s].writes \in Seq(OpIn(next_xid)) /\ deferred[s].queue \in Seq(PendingFk)
        /\ deferred[s].modes \in Seq(BOOLEAN)
      BY FkWorld, XFacts DEF TxnIn, DeferralIn
  <2>2. Len(txn[s].writes) \in Nat /\ Len(deferred[s].queue) \in Nat
      BY <2>1
  <2> QED  BY <2>1, <2>2 DEF MarkIn
<1> HIDE DEF mark
<1>4. Kept(rows, active \cup {next_xid}, [txn EXCEPT ![s] = SavedTxn(txn[s], mark, next_xid)], deferred)
    BY <1>1, <1>3, FkWorld, SaveKept
<1> QED  BY <1>1, <1>2, <1>4

LEMMA KRelease ==
    ASSUME FkInv, NEW s \in Sessions, txn_release(s)
    PROVE  Kept(rows', active', txn', deferred')
<1>1. /\ txn[s].xid # 0 /\ txn[s].saves # <<>> /\ active' = active /\ rows' = rows
      /\ deferred' = deferred
    BY DEF txn_release, InTxn
<1>2. txn' = [txn EXCEPT ![s] = ReleasedTxn(txn[s])]
    BY FkWorld, XFacts DEF txn_release, ReleasedTxn
<1>3. Kept(rows, active, [txn EXCEPT ![s] = ReleasedTxn(txn[s])], deferred)
    BY <1>1, FkWorld, ReleaseKept
<1> QED  BY <1>1, <1>2, <1>3

LEMMA KRollbackTo ==
    ASSUME FkInv, NEW s \in Sessions, txn_rollback_to(s)
    PROVE  Kept(rows', active', txn', deferred')
<1> DEFINE mark == Last(txn[s].saves)
           w == mark.writes
           ops == SubSeq(txn[s].writes, w + 1, Len(txn[s].writes))
           d == deferred_restore(deferred[s], mark)
<1>1. /\ txn[s].xid # 0 /\ txn[s].saves # <<>> /\ active' = active \cup {next_xid}
      /\ rows' = undo_all(rows, all_xids(txn[s]), ops)
    BY DEF txn_rollback_to, InTxn
<1>2. txn' = [txn EXCEPT ![s] = CutTxn(txn[s], w, next_xid)]
  <2>1. txn' = [txn EXCEPT ![s].writes = SubSeq(@, 1, w), ![s].sub_xids = Append(Front(@), next_xid),
                           ![s].owned_xids = @ \cup {next_xid}, ![s].failed = FALSE]
      BY DEF txn_rollback_to
  <2> HIDE DEF w
  <2> QED  BY <2>1, FkWorld, XFacts DEF CutTxn
<1>3. deferred' = [deferred EXCEPT ![s] = d]
    BY FkWorld DEF txn_rollback_to
<1>4. Held(txn[s]) = all_xids(txn[s])
    BY <1>1 DEF Held
<1>5. w = Last(txn[s].saves).writes /\ ops = SubSeq(txn[s].writes, w + 1, Len(txn[s].writes))
      /\ d = deferred_restore(deferred[s], Last(txn[s].saves))
    OBVIOUS
<1> HIDE DEF w, ops, d, mark
<1>6. Kept(undo_all(rows, Held(txn[s]), ops), active \cup {next_xid},
           [txn EXCEPT ![s] = CutTxn(txn[s], w, next_xid)], [deferred EXCEPT ![s] = d])
    BY <1>1, <1>5, FkWorld, RollbackToKept
<1> QED  BY <1>1, <1>2, <1>3, <1>4, <1>6

LEMMA KEndUndone ==
    ASSUME FkInv, NEW s \in Sessions, txn[s].xid # 0, End(s),
           NEW y \in StateIn(next_xid), Wr(rows, y.rows, y.ops, write_xid(txn[s])),
           Fine(y.rows, active, txn),
           NEW v, Joined(v, txn[s].writes, y.ops), rows' = undo_all(y.rows, all_xids(txn[s]), v)
    PROVE  Kept(rows', active', txn', deferred')
<1> DEFINE d == Default
<1>1. /\ txn' = [txn EXCEPT ![s] = NoTxn] /\ active' = active \ all_xids(txn[s])
      /\ deferred' = [deferred EXCEPT ![s] = d]
    BY DEF End
<1>2. Held(txn[s]) = all_xids(txn[s])
    BY DEF Held
<1>3. \A i \in 1 .. Len(d.queue) : d.queue[i].side # "parent"
    BY DEF Default
<1> HIDE DEF d
<1>4. Kept(undo_all(y.rows, Held(txn[s]), v), active \ Held(txn[s]),
           [txn EXCEPT ![s] = NoTxn], [deferred EXCEPT ![s] = d])
    BY <1>3, FkWorld, EndUndone
<1> QED  BY <1>1, <1>2, <1>4

LEMMA KRollback ==
    ASSUME FkInv, NEW s \in Sessions, txn_rollback(s)
    PROVE  Kept(rows', active', txn', deferred')
<1> DEFINE y == Start(deferred[s])
           v == txn[s].writes
<1>1. /\ txn[s].xid # 0 /\ rows' = undo_all(rows, all_xids(txn[s]), v) /\ End(s)
    BY DEF txn_rollback, InTxn
<1>2. /\ y \in StateIn(next_xid) /\ y.rows = rows /\ y.ops = <<>>
    BY FkWorld, StartIn DEF XInv
<1>3. rows \in Seq(RowIn(next_xid)) /\ Fine(rows, active, txn) /\ v \in Seq(OpIn(next_xid))
    BY FkWorld, XFacts, KeptIs DEF TxnIn
<1> HIDE DEF y, v
<1>4. Wr(rows, y.rows, y.ops, write_xid(txn[s]))
    BY <1>2, <1>3, WrNone
<1>5. Joined(v, v, y.ops)
  <2>1. v = v \o <<>>
      BY <1>3
  <2> QED  BY <1>2, <2>1 DEF Joined
<1>6. Joined(v, txn[s].writes, y.ops)
    BY <1>5 DEF v
<1>7. Fine(y.rows, active, txn) /\ rows' = undo_all(y.rows, all_xids(txn[s]), v)
    BY <1>1, <1>2, <1>3
<1> QED  BY <1>1, <1>2, <1>4, <1>6, <1>7, KEndUndone

LEMMA KFlushed ==
    ASSUME FkInv, NEW s \in Sessions, txn[s].xid # 0, ~txn[s].failed
    PROVE  Fired(next_xid, rows, active, txn, s, TxnCtx(s), Start(deferred[s]), Flushed(s))
<1> DEFINE c == TxnCtx(s)
           st == Start(deferred[s])
<1>1. /\ Under(c, next_xid, active, txn[s]) /\ Starts(next_xid, rows, deferred, s, st)
    BY BlockStarts
<1>2. Flushed(s) = flush_deferred_fk(st, c)
    BY DEF Flushed
<1>3. next_xid \in Nat /\ rows \in Seq(RowIn(next_xid))
    BY FkWorld, XFacts
<1> HIDE DEF c, st
<1>4. Scene(next_xid, active, txn, s, c.write_xid) /\ Running(next_xid, rows, active, txn, s, c, st)
    BY <1>1, FkWorld, StartRunning
<1>5. st.ok
    BY <1>1 DEF Starts
<1>6. Fired(next_xid, rows, active, txn, s, c, st, flush_deferred_fk(st, c))
    BY <1>1, <1>3, <1>4, <1>5, RunFlush
<1> QED  BY <1>2, <1>6 DEF c, st

LEMMA KCommit ==
    ASSUME FkInv, NEW s \in Sessions, Commit(s)
    PROVE  Kept(rows', active', txn', deferred')
<1> DEFINE c == TxnCtx(s)
           st == Start(deferred[s])
           y == Flushed(s)
           d == Default
<1>1. /\ txn[s].xid # 0 /\ ~txn[s].failed /\ y.ok /\ rows' = y.rows
      /\ txn' = [txn EXCEPT ![s] = NoTxn] /\ active' = active \ all_xids(txn[s])
      /\ deferred' = [deferred EXCEPT ![s] = d]
    BY DEF Commit, InTxn, End
<1>2. Fired(next_xid, rows, active, txn, s, c, st, y) /\ c.write_xid = write_xid(txn[s])
    BY <1>1, KFlushed, BlockStarts
<1>3. Held(txn[s]) = all_xids(txn[s]) /\ d.queue = <<>>
    BY <1>1 DEF Held, Default
<1> HIDE DEF c, st, y, d
<1>4. Kept(y.rows, active \ Held(txn[s]), [txn EXCEPT ![s] = NoTxn], [deferred EXCEPT ![s] = d])
    BY <1>1, <1>2, <1>3, FkWorld, EndCommit
<1> QED  BY <1>1, <1>3, <1>4

(* COMMIT that the log refuses, outside a savepoint: the queue has fired, and  *)
(* ROLLBACK is all that is left.                                              *)
LEMMA KFails ==
    ASSUME KeptApart, FkInv, NEW s \in Sessions, CommitFails(s)
    PROVE  Kept(rows', active', txn', deferred')
<1> DEFINE c == TxnCtx(s)
           st == Start(deferred[s])
           f == Flushed(s)
           y == Fail(f)
           t == RanTxn(txn[s], y, FALSE)
           d == [queue |-> y.queue, modes |-> y.modes]
<1>1. /\ txn[s].xid # 0 /\ ~txn[s].failed /\ txn[s].saves = <<>> /\ rows' = f.rows
      /\ deferred' = [deferred EXCEPT ![s] = [queue |-> f.queue, modes |-> f.modes]]
      /\ txn' = [txn EXCEPT ![s].writes = @ \o f.ops, ![s].failed = TRUE]
      /\ active' = active
    BY DEF CommitFails, InTxn, KeptApart
<1>2. /\ Fired(next_xid, rows, active, txn, s, c, st, f) /\ c.write_xid = write_xid(txn[s])
      /\ Virtual(next_xid, active, txn, deferred, s) /\ Under(c, next_xid, active, txn[s])
      /\ Starts(next_xid, rows, deferred, s, st)
    BY <1>1, KFlushed, BlockStarts
<1> HIDE DEF c, st, f
<1>3. /\ f \in StateIn(next_xid) /\ f.queue = <<>> /\ Wr(rows, f.rows, f.ops, c.write_xid)
      /\ Fine(f.rows, active, txn)
      /\ c.write_xid \notin txn[s].owned_xids => TopOnly(f.rows, txn[s])
    BY <1>2 DEF Fired
<1>4. c.write_xid \notin txn[s].owned_xids
  <2>1. txn[s] \in TxnIn(next_xid) /\ Scoped(txn[s]) /\ Len(txn[s].sub_xids) = Len(txn[s].saves)
      BY FkWorld, XFacts DEF Scoped
  <2>2. txn[s].sub_xids = <<>>
    <3> DEFINE q1 == txn[s].sub_xids
    <3>1. Len(q1) = 0 /\ q1 \in Seq(0 .. next_xid - 1)
        BY <1>1, <2>1 DEF TxnIn
    <3> HIDE DEF q1
    <3> QED  BY <3>1 DEF q1
  <2> QED  BY <1>2, <2>1, <2>2 DEF Scoped, write_xid
<1>5. /\ y \in StateIn(next_xid) /\ y.rows = f.rows /\ y.ops = f.ops /\ y.ok = FALSE
      /\ y.queue = f.queue /\ y.modes = f.modes
    BY <1>3 DEF Fail, StateIn
<1> HIDE DEF y
<1>6. Running(next_xid, rows, active, txn, s, c, y)
  <2>1. Postponed(y.rows, txn[s], <<>>)
      BY DEF Postponed
  <2>2. Good(y.rows, active, txn, s, y.queue, y.ok)
      BY <1>3, <1>4, <1>5, <2>1 DEF Good
  <2> QED  BY <1>3, <1>5, <2>2 DEF Running
<1>7. Keeps(txn[s], deferred[s].queue, y.queue) /\ d.queue = y.queue
    BY <1>1 DEF Keeps
<1>8. txn' = [txn EXCEPT ![s] = t] /\ deferred' = [deferred EXCEPT ![s] = d]
  <2>1. txn \in [Sessions -> TxnIn(next_xid)] /\ txn[s].deletes \in BOOLEAN
      BY FkWorld, XFacts DEF TxnIn
  <2> QED  BY <1>1, <1>5, <2>1 DEF RanTxn, TxnIn
<1> HIDE DEF d
<1>9. Kept(y.rows, active, [txn EXCEPT ![s] = RanTxn(txn[s], y, FALSE)], [deferred EXCEPT ![s] = d])
    BY <1>1, <1>2, <1>6, <1>7, FkWorld, RanKept
<1> QED  BY <1>1, <1>5, <1>8, <1>9

LEMMA KRejected ==
    ASSUME FkInv, NEW s \in Sessions, CommitRejected(s)
    PROVE  Kept(rows', active', txn', deferred')
<1> DEFINE y == Flushed(s)
           v == txn[s].writes \o y.ops
<1>1. /\ txn[s].xid # 0 /\ ~txn[s].failed /\ rows' = undo_all(y.rows, all_xids(txn[s]), v) /\ End(s)
    BY DEF CommitRejected, InTxn
<1>2. /\ Fired(next_xid, rows, active, txn, s, TxnCtx(s), Start(deferred[s]), y)
      /\ TxnCtx(s).write_xid = write_xid(txn[s])
    BY <1>1, KFlushed, BlockStarts
<1>3. Joined(v, txn[s].writes, y.ops)
    BY DEF Joined
<1> HIDE DEF y, v
<1>4. /\ y \in StateIn(next_xid) /\ Wr(rows, y.rows, y.ops, write_xid(txn[s]))
      /\ Fine(y.rows, active, txn)
    BY <1>2 DEF Fired
<1> QED  BY <1>1, <1>3, <1>4, KEndUndone

(* Outside a block: one transaction is begun for the statement.               *)
Lent(s) == [txn EXCEPT ![s] = BegunTxn(next_xid)]
LentActive == active \cup {next_xid}

LEMMA LentIs ==
    ASSUME FkInv, NEW s \in Sessions, txn[s].xid = 0
    PROVE  /\ Virtual(next_xid + 1, LentActive, Lent(s), deferred, s)
           /\ Under(AutoCtx, next_xid + 1, LentActive, Lent(s)[s])
           /\ Starts(next_xid + 1, rows, deferred, s, Start(deferred[s]))
           /\ AutoCtx.write_xid = write_xid(Lent(s)[s]) /\ Lent(s)[s].writes = <<>>
           /\ Held(Lent(s)[s]) = {AutoCtx.own} /\ LentActive \ Held(Lent(s)[s]) = active
           /\ [Lent(s) EXCEPT ![s] = NoTxn] = txn
<1> DEFINE N == next_xid
           t == BegunTxn(N)
           tx == [txn EXCEPT ![s] = t]
           A == active \cup {N}
<1>1. /\ World(N, rows, active, txn) /\ deferred \in [Sessions -> DeferralIn]
      /\ Kept(rows, active, txn, deferred) /\ XInv
    BY FkWorld
<1>2. /\ N \in Nat /\ N # 0 /\ rows \in Seq(RowIn(N)) /\ txn \in [Sessions -> TxnIn(N)]
      /\ Scoped(txn[s]) /\ \A x \in active : x < N
  <2>1. /\ N \in Nat /\ N # 0 /\ rows \in Seq(RowIn(N)) /\ txn \in [Sessions -> TxnIn(N)]
        /\ Scoped(txn[s]) /\ Owned(active, txn)
      BY <1>1, XFacts
  <2>2. \A x \in active : x < N
      BY <2>1, HeldBelow DEF Owned
  <2> QED  BY <2>1, <2>2
<1>3. /\ t.xid = N /\ t.sub_xids = <<>> /\ t.owned_xids = {} /\ t.writes = <<>> /\ t.saves = <<>>
      /\ t.failed = FALSE
    BY DEF BegunTxn, NoTxn
<1>4. txn[s] = NoTxn /\ NoTxn.owned_xids = {} /\ NoTxn.writes = <<>> /\ NoTxn.saves = <<>>
    BY <1>2 DEF Scoped, NoTxn
<1>5. World(N + 1, rows, A, tx) /\ Kept(rows, A, tx, deferred)
    BY <1>1, BeginKept
<1> HIDE DEF t
<1>6. tx[s] = t /\ \A o \in Sessions \ {s} : tx[o] = txn[o]
    BY <1>2
<1>7. [tx EXCEPT ![s] = NoTxn] = txn
    BY <1>2, <1>4
<1>8. Held(t) = {N} /\ write_xid(t) = N
    BY <1>2, <1>3 DEF Held, all_xids, write_xid
<1>9. A \ {N} = active
    BY <1>2
<1>10. \A id \in 1 .. Len(rows) :
          (rows[id].xmax \in A <=> rows[id].xmax \in active) /\ (rows[id].xmin \in A <=> rows[id].xmin \in active)
  <2>1. ASSUME NEW id \in 1 .. Len(rows) PROVE rows[id].xmax # N /\ rows[id].xmin # N
    <3>1. rows[id] \in RowIn(N)
        BY <1>2
    <3> QED  BY <1>2, <3>1 DEF RowIn
  <2> QED  BY <2>1
<1>11. /\ AutoCtx.own = N /\ AutoCtx.write_xid = N /\ AutoCtx.owns = {N}
       /\ AutoCtx.snap = [next_xid |-> N + 1, active |-> A]
    BY <1>1, AutoCtxIs
<1>12. Starts(N + 1, rows, deferred, s, Start(deferred[s]))
  <2> DEFINE st == Start(deferred[s])
  <2>1. /\ st \in StateIn(N) /\ st.ok /\ st.rows = rows /\ st.ops = <<>>
        /\ st.queue = deferred[s].queue
      BY <1>1, StartIn DEF XInv
  <2>2. N + 1 \in Nat /\ N <= N + 1
      BY <1>2
  <2>3. st \in StateIn(N + 1)
      BY <1>2, <2>1, <2>2, Wider
  <2> HIDE DEF st
  <2> QED  BY <2>1, <2>3 DEF Starts, st
<1> HIDE DEF A, tx, N
<1>13. Virtual(N + 1, A, tx, deferred, s)
  <2>1. Doing(N + 1, rows, A, tx, deferred, s)
      BY <1>1, <1>2, <1>3, <1>5, <1>6 DEF Doing
  <2> QED  BY <1>3, <1>4, <1>6, <1>10, <2>1 DEF Virtual
<1>14. Under(AutoCtx, N + 1, A, tx[s])
    BY <1>3, <1>6, <1>8, <1>11 DEF Under
<1>15. A = LentActive /\ tx = Lent(s)
    BY DEF A, tx, LentActive, Lent, t, N
<1> QED  BY <1>3, <1>6, <1>7, <1>8, <1>9, <1>11, <1>12, <1>13, <1>14, <1>15 DEF N

LEMMA LentCommits ==
    ASSUME FkInv, NEW s \in Sessions, txn[s].xid = 0,
           NEW st, NEW y, Fired(next_xid + 1, rows, LentActive, Lent(s), s, AutoCtx, st, y), y.ok,
           NEW d, d.queue = <<>>
    PROVE  Kept(y.rows, active, txn, [deferred EXCEPT ![s] = d])
<1> DEFINE N == next_xid + 1
           A == LentActive
           tx == Lent(s)
           c == AutoCtx
<1>1. /\ Virtual(N, A, tx, deferred, s) /\ c.write_xid = write_xid(tx[s])
      /\ A \ Held(tx[s]) = active /\ [tx EXCEPT ![s] = NoTxn] = txn
    BY LentIs
<1>2. Fired(N, rows, A, tx, s, c, st, y)
    OBVIOUS
<1> HIDE DEF N, A, tx, c
<1>3. Doing(N, rows, A, tx, deferred, s)
    BY <1>1, VirtualIs
<1>4. Kept(y.rows, A \ Held(tx[s]), [tx EXCEPT ![s] = NoTxn], [deferred EXCEPT ![s] = d])
    BY <1>1, <1>2, <1>3, EndCommit
<1> QED  BY <1>1, <1>4

LEMMA LentUndone ==
    ASSUME FkInv, NEW s \in Sessions, txn[s].xid = 0,
           NEW y \in StateIn(next_xid + 1), Wr(rows, y.rows, y.ops, AutoCtx.write_xid),
           Fine(y.rows, LentActive, Lent(s)),
           NEW d, \A i \in 1 .. Len(d.queue) : d.queue[i].side # "parent"
    PROVE  Kept(undo_all(y.rows, {AutoCtx.own}, y.ops), active, txn, [deferred EXCEPT ![s] = d])
<1> DEFINE N == next_xid + 1
           A == LentActive
           tx == Lent(s)
           v == y.ops
           Z == {AutoCtx.own}
<1>1. /\ Virtual(N, A, tx, deferred, s) /\ AutoCtx.write_xid = write_xid(tx[s])
      /\ tx[s].writes = <<>> /\ Held(tx[s]) = Z
      /\ A \ Held(tx[s]) = active /\ [tx EXCEPT ![s] = NoTxn] = txn
    BY LentIs
<1>2. /\ y \in StateIn(N) /\ Fine(y.rows, A, tx)
    OBVIOUS
<1> HIDE DEF N, A, tx, Z
<1>3. Doing(N, rows, A, tx, deferred, s)
    BY <1>1, VirtualIs
<1>4. Wr(rows, y.rows, y.ops, write_xid(tx[s]))
    BY <1>1
<1>5. Joined(v, tx[s].writes, y.ops)
  <2>1. v \in Seq(OpIn(N))
      BY <1>2 DEF StateIn
  <2>2. v = <<>> \o v
      BY <2>1
  <2> QED  BY <1>1, <2>2 DEF Joined
<1> HIDE DEF v
<1>6. Kept(undo_all(y.rows, Held(tx[s]), v), A \ Held(tx[s]), [tx EXCEPT ![s] = NoTxn],
           [deferred EXCEPT ![s] = d])
    BY <1>2, <1>3, <1>4, <1>5, EndUndone
<1> QED  BY <1>1, <1>6 DEF v, Z

(* The statement ran; its queue fires at its end.                             *)
LEMMA LentRuns ==
    ASSUME KeptApart,
           FkInv, NEW s \in Sessions, txn[s].xid = 0, NEW q \in Statements,
           MayIssue(s, q, Start(deferred[s]), AutoCtx),
           NEW y, y = execute(q, Start(deferred[s]), AutoCtx)
    PROVE  /\ y \in StateIn(next_xid + 1) /\ Wr(rows, y.rows, y.ops, AutoCtx.write_xid)
           /\ Fine(y.rows, LentActive, Lent(s))
           /\ y.ok => Fired(next_xid + 1, rows, LentActive, Lent(s), s, AutoCtx, y,
                            flush_deferred_fk(y, AutoCtx))
<1> DEFINE N == next_xid + 1
           A == LentActive
           tx == Lent(s)
           c == AutoCtx
           st == Start(deferred[s])
<1>1. /\ Virtual(N, A, tx, deferred, s) /\ Under(c, N, A, tx[s])
      /\ Starts(N, rows, deferred, s, st)
    BY LentIs
<1>2. MayIssue(s, q, st, c) /\ y = execute(q, st, c)
    OBVIOUS
<1> HIDE DEF N, A, tx, c, st
<1>3. Running(N, rows, A, tx, s, c, y)
    BY <1>1, <1>2, IssuedRuns
<1>4. /\ World(N, rows, A, tx) /\ Kept(rows, A, tx, deferred) /\ s \in Sessions /\ tx[s].xid # 0
      /\ ~tx[s].failed /\ N \in Nat /\ rows \in Seq(RowIn(N))
    BY <1>1, VirtualIs
<1>5. Scene(N, A, tx, s, c.write_xid)
    BY <1>1, <1>4, StartRunning
<1>6. y.ok => Fired(N, rows, A, tx, s, c, y, flush_deferred_fk(y, c))
    BY <1>1, <1>3, <1>4, <1>5, RunFlush
<1>7. y \in StateIn(N) /\ Wr(rows, y.rows, y.ops, c.write_xid) /\ Fine(y.rows, A, tx)
    BY <1>3, RunningIs DEF Good
<1> QED  BY <1>6, <1>7 DEF N, A, tx, c

LEMMA LentEnds ==
    ASSUME FkInv, NEW s \in Sessions, txn[s].xid = 0,
           NEW st, NEW y, Fired(next_xid + 1, rows, LentActive, Lent(s), s, AutoCtx, st, y)
    PROVE  /\ y.ok => Kept(y.rows, active, txn, [deferred EXCEPT ![s] = Default])
           /\ Kept(undo_all(y.rows, {AutoCtx.own}, y.ops), active, txn,
                   [deferred EXCEPT ![s] = Default])
<1> DEFINE d == Default
<1>1. d.queue = <<>> /\ \A i \in 1 .. Len(d.queue) : d.queue[i].side # "parent"
    BY DEF Default
<1> HIDE DEF d
<1>2. y.ok => Kept(y.rows, active, txn, [deferred EXCEPT ![s] = d])
    BY <1>1, LentCommits
<1>3. Kept(undo_all(y.rows, {AutoCtx.own}, y.ops), active, txn, [deferred EXCEPT ![s] = d])
  <2>1. /\ y \in StateIn(next_xid + 1) /\ Wr(rows, y.rows, y.ops, AutoCtx.write_xid)
        /\ Fine(y.rows, LentActive, Lent(s))
      BY DEF Fired
  <2> QED  BY <1>1, <2>1, LentUndone
<1> QED  BY <1>2, <1>3 DEF d

LEMMA KAuto ==
    ASSUME KeptApart,
           FkInv, NEW s \in Sessions, NEW q \in Statements, autocommit_execute(s, q)
    PROVE  Kept(rows', active', txn', deferred')
<1> DEFINE ran == execute(q, Start(deferred[s]), AutoCtx)
           st == IF ran.ok THEN flush_deferred_fk(ran, AutoCtx) ELSE ran
           d == Default
<1>1. /\ txn[s].xid = 0 /\ MayIssue(s, q, Start(deferred[s]), AutoCtx)
      /\ (st.ok /\ rows' = st.rows) \/ rows' = undo_all(st.rows, {AutoCtx.own}, st.ops)
      /\ deferred' = [deferred EXCEPT ![s] = d] /\ active' = active /\ txn' = txn
    BY DEF autocommit_execute, InTxn
<1> HIDE DEF ran
<1>2. /\ ran \in StateIn(next_xid + 1) /\ Wr(rows, ran.rows, ran.ops, AutoCtx.write_xid)
      /\ Fine(ran.rows, LentActive, Lent(s))
      /\ ran.ok => Fired(next_xid + 1, rows, LentActive, Lent(s), s, AutoCtx, ran,
                         flush_deferred_fk(ran, AutoCtx))
    BY <1>1, LentRuns DEF ran
<1>3. CASE ran.ok
  <2>1. st = flush_deferred_fk(ran, AutoCtx)
      BY <1>3
  <2> HIDE DEF st
  <2>2. Fired(next_xid + 1, rows, LentActive, Lent(s), s, AutoCtx, ran, st)
      BY <1>2, <1>3, <2>1
  <2> QED  BY <1>1, <2>2, LentEnds
<1>4. CASE ~ran.ok
  <2>1. rows' = undo_all(ran.rows, {AutoCtx.own}, ran.ops)
    <3>1. st = ran
        BY <1>4
    <3> HIDE DEF st
    <3> QED  BY <1>1, <1>4, <3>1
  <2>2. \A i \in 1 .. Len(d.queue) : d.queue[i].side # "parent"
      BY DEF Default
  <2> HIDE DEF d
  <2>3. Kept(undo_all(ran.rows, {AutoCtx.own}, ran.ops), active, txn, [deferred EXCEPT ![s] = d])
      BY <1>1, <1>2, <2>2, LentUndone
  <2> QED  BY <1>1, <2>1, <2>3
<1> QED  BY <1>3, <1>4

(* COPY queues checks of children only.                                       *)
LEMMA CopyQueues ==
    ASSUME NEW N \in Nat, NEW st \in StateIn(N), NEW c, c.write_xid \in 0 .. N - 1,
           NEW key \in Keys, Queued(st.queue, st.rows),
           \A i \in 1 .. Len(st.queue) : st.queue[i].side # "parent"
    PROVE  LET y == execute(CopyRow(key), st, c) IN
           \A i \in 1 .. Len(y.queue) : y.queue[i].side # "parent"
<1> DEFINE q == CopyRow(key)
           checked == check_fk_child_row(st, c, key)
           x == Insert(checked, c, "child", key)
           e == Pending("child", key, 0)
<1>1. execute(q, st, c) = IF checked.ok THEN x ELSE checked
    BY DEF execute, CopyRow
<1>2. checked = st \/ checked = Enqueue(st, e) \/ checked = Fail(st)
    BY DEF check_fk_child_row, queue_child_fk, Enqueue
<1>3. checked \in StateIn(N)
    BY CheckIn DEF Sound
<1>4. x.queue = checked.queue
  <2>1. WroteOp(checked, x, InsertOp(checked))
      BY <1>3, InsertIn
  <2> HIDE DEF x, checked
  <2> QED  BY <2>1 DEF WroteOp
<1>5. e \in PendingFk /\ e.side # "parent"
    BY DEF Pending, PendingFk
<1> HIDE DEF checked, x, e
<1>6. checked.queue = st.queue \/ checked.queue = Append(st.queue, e)
    BY <1>2, <1>5, QueueIn, FailIn
<1>7. \A i \in 1 .. Len(checked.queue) : checked.queue[i].side # "parent"
  <2> DEFINE v == st.queue
             v2 == checked.queue
  <2>1. v \in Seq(PendingFk) /\ \A i \in 1 .. Len(v) : v[i].side # "parent"
      BY DEF StateIn
  <2>2. v2 = v \/ v2 = Append(v, e)
      BY <1>6
  <2> HIDE DEF v, v2
  <2>3. CASE v2 = Append(v, e)
    <3>1. Len(v2) = Len(v) + 1 /\ Len(v) \in Nat /\ \A i \in 1 .. Len(v) : v2[i] = v[i]
        BY <2>1, <2>3
    <3>2. v2[Len(v) + 1] = e
        BY <2>1, <2>3
    <3>3. ASSUME NEW i \in 1 .. Len(v2) PROVE v2[i].side # "parent"
      <4>1. CASE i = Len(v) + 1
          BY <1>5, <3>2, <4>1
      <4>2. CASE i \in 1 .. Len(v)
          BY <2>1, <3>1, <4>2
      <4> QED  BY <3>1, <4>1, <4>2
    <3> QED  BY <3>3 DEF v2
  <2> QED  BY <2>1, <2>2, <2>3 DEF v2
<1> QED  BY <1>1, <1>4, <1>7

LEMMA KCopy ==
    ASSUME KeptApart,
           FkInv, NEW s \in Sessions, NEW key \in Keys, copy_from_ingest(s, key)
    PROVE  Kept(rows', active', txn', deferred')
<1> DEFINE q == CopyRow(key)
           ran == execute(q, Start(deferred[s]), AutoCtx)
           st == flush_deferred_fk(ran, AutoCtx)
           d == [deferred[s] EXCEPT !.queue = ran.queue]
<1>1. /\ txn[s].xid = 0 /\ MayIssue(s, q, Start(deferred[s]), AutoCtx)
      /\ active' = active /\ txn' = txn
      /\ \/ /\ ran.ok
            /\ (st.ok /\ rows' = st.rows) \/ rows' = undo_all(st.rows, {AutoCtx.own}, st.ops)
            /\ deferred' = [deferred EXCEPT ![s] = Default]
         \/ /\ rows' = undo_all(ran.rows, {AutoCtx.own}, ran.ops)
            /\ deferred' = [deferred EXCEPT ![s].queue = ran.queue]
    BY DEF copy_from_ingest, InTxn, CopyRow
<1>2. q \in Statements
    BY DEF Statements, CopyRow
<1>3. \A i \in 1 .. Len(ran.queue) : ran.queue[i].side # "parent"
  <2> DEFINE st0 == Start(deferred[s])
  <2>1. XInv /\ Postponed(rows, txn[s], deferred[s].queue)
      BY FkWorld, KeptIs
  <2>2. /\ st0 \in StateIn(next_xid) /\ st0.queue = deferred[s].queue
        /\ Queued(st0.queue, st0.rows)
      BY <2>1, StartIn DEF XInv
  <2>3. st0 \in StateIn(next_xid + 1)
      BY <2>1, <2>2, AutoCtxIs, XFacts, Wider
  <2>4. AutoCtx.write_xid \in 0 .. (next_xid + 1) - 1 /\ next_xid + 1 \in Nat
      BY <2>1, AutoCtxIs
  <2>5. \A i \in 1 .. Len(st0.queue) : st0.queue[i].side # "parent"
      BY <1>1, <2>1, <2>2 DEF Postponed
  <2> HIDE DEF st0
  <2> QED  BY <2>2, <2>3, <2>4, <2>5, CopyQueues DEF st0
<1> HIDE DEF q, ran
<1>4. /\ ran \in StateIn(next_xid + 1) /\ Wr(rows, ran.rows, ran.ops, AutoCtx.write_xid)
      /\ Fine(ran.rows, LentActive, Lent(s))
      /\ ran.ok => Fired(next_xid + 1, rows, LentActive, Lent(s), s, AutoCtx, ran, st)
    BY <1>1, <1>2, LentRuns DEF ran
<1> HIDE DEF st
<1>5. CASE /\ ran.ok
           /\ (st.ok /\ rows' = st.rows) \/ rows' = undo_all(st.rows, {AutoCtx.own}, st.ops)
           /\ deferred' = [deferred EXCEPT ![s] = Default]
  <2>1. Fired(next_xid + 1, rows, LentActive, Lent(s), s, AutoCtx, ran, st) /\ txn[s].xid = 0
      BY <1>1, <1>4, <1>5
  <2>2. /\ st.ok => Kept(st.rows, active, txn, [deferred EXCEPT ![s] = Default])
        /\ Kept(undo_all(st.rows, {AutoCtx.own}, st.ops), active, txn, [deferred EXCEPT ![s] = Default])
      BY <2>1, LentEnds
  <2> QED  BY <1>1, <1>5, <2>2
<1>6. CASE /\ rows' = undo_all(ran.rows, {AutoCtx.own}, ran.ops)
           /\ deferred' = [deferred EXCEPT ![s].queue = ran.queue]
  <2>1. deferred' = [deferred EXCEPT ![s] = d] /\ d.queue = ran.queue
    <3>1. deferred \in [Sessions -> DeferralIn] /\ deferred[s] \in DeferralIn
        BY FkWorld
    <3> QED  BY <1>6, <3>1 DEF DeferralIn
  <2>2. \A i \in 1 .. Len(d.queue) : d.queue[i].side # "parent"
      BY <1>3, <2>1
  <2> HIDE DEF d
  <2>3. Kept(undo_all(ran.rows, {AutoCtx.own}, ran.ops), active, txn, [deferred EXCEPT ![s] = d])
      BY <1>1, <1>4, <2>2, LentUndone
  <2> QED  BY <1>1, <1>6, <2>1, <2>3
<1> QED  BY <1>1, <1>5, <1>6

LEMMA KInit ==
    ASSUME Init
    PROVE  Kept(rows, active, txn, deferred)
<1>1. /\ active = {} /\ txn = [s \in Sessions |-> NoTxn]
      /\ deferred = [s \in Sessions |-> Default]
    BY DEF Init
<1>2. PICK q \in Loads : rows = LoadedRows(q)
    BY DEF Init
<1> DEFINE n == Len(q)
<1>f. /\ n \in Nat /\ q \in Seq(Keys) /\ \A i, j \in 1 .. n : q[i] = q[j] => i = j
      /\ Len(rows) = 2 * n
      /\ \A id \in 1 .. n : rows[id] = Row("parent", q[id], 1)
      /\ \A id \in n + 1 .. 2 * n : rows[id] = Row("child", q[id - n], 1)
    BY <1>2, LoadedIn
<1> HIDE DEF n
<1>g. \A id \in 1 .. Len(rows) :
        \/ id \in 1 .. n /\ rows[id].table = "parent" /\ rows[id].key = q[id]
           /\ rows[id].xmin = 1 /\ rows[id].xmax = 0
        \/ /\ id \in n + 1 .. 2 * n /\ rows[id].table = "child"
           /\ id - n \in 1 .. n /\ rows[id].key = q[id - n]
  <2>1. \A id \in 1 .. Len(rows) : id \in 1 .. n \/ (id \in n + 1 .. 2 * n /\ id - n \in 1 .. n)
      BY <1>f
  <2>2. ASSUME NEW id \in 1 .. n
        PROVE  rows[id].table = "parent" /\ rows[id].key = q[id] /\ rows[id].xmin = 1 /\ rows[id].xmax = 0
    <3>1. rows[id] = Row("parent", q[id], 1)
        BY <1>f
    <3> QED  BY <3>1 DEF Row
  <2>3. ASSUME NEW id \in n + 1 .. 2 * n
        PROVE  rows[id].table = "child" /\ rows[id].key = q[id - n]
    <3>1. rows[id] = Row("child", q[id - n], 1)
        BY <1>f
    <3> QED  BY <3>1 DEF Row
  <2> QED  BY <2>1, <2>2, <2>3
<1>h. \A id \in 1 .. n : id \in 1 .. Len(rows)
    BY <1>f
<1>i. \A s \in Sessions : Held(txn[s]) = {}
    BY <1>1 DEF Held, NoTxn
<1>3. Fine(rows, active, txn)
  <2>1. KeysUnique(rows, active)
      BY <1>f, <1>g DEF KeysUnique
  <2>2. OneWriter(rows, txn) /\ Apart(rows, txn)
      BY <1>i DEF OneWriter, Apart
  <2> QED  BY <2>1, <2>2 DEF Fine
<1>4. Cover(rows, active, {}, {}, <<>>)
  <2>1. ASSUME NEW id \in 1 .. Len(rows), Orphan(rows, active, {}, id) PROVE FALSE
    <3>1. id - n \in 1 .. n /\ rows[id].key = q[id - n]
        BY <1>g, <2>1 DEF Orphan
    <3> DEFINE p == id - n
    <3>2. p \in 1 .. Len(rows) /\ p \in 1 .. n /\ rows[p].key = rows[id].key
      <4>1. p \in 1 .. n /\ rows[p] = Row("parent", q[p], 1)
          BY <1>f, <3>1
      <4> QED  BY <1>h, <3>1, <4>1 DEF Row
    <3>3. rows[p].table = "parent" /\ rows[p].xmin = 1 /\ rows[p].xmax = 0
      <4>1. rows[p] = Row("parent", q[p], 1)
          BY <1>f, <3>2
      <4> QED  BY <4>1 DEF Row
    <3> HIDE DEF p
    <3>4. Vis(rows[p], active, {})
        BY <1>1, <3>3 DEF Vis
    <3> QED  BY <2>1, <3>2, <3>3, <3>4 DEF Orphan
  <2> QED  BY <2>1 DEF Cover, CoverFrom
<1>5. ASSUME NEW s \in Sessions PROVE SInv(rows, active, txn[s], deferred[s].queue)
  <2>1. txn[s] = NoTxn /\ deferred[s].queue = <<>>
      BY <1>1 DEF Default
  <2> DEFINE pending == deferred[s].queue
  <2>2. \A i \in 1 .. Len(pending) : pending[i].side # "parent"
      BY <2>1
  <2> HIDE DEF pending
  <2>3. SInv(rows, active, NoTxn, pending)
      BY <2>2, NoneOpen
  <2> QED  BY <2>1, <2>3 DEF pending
<1> QED  BY <1>3, <1>4, <1>5 DEF Kept

LEMMA KNext ==
    ASSUME KeptApart, FkInv, [Next]_vars
    PROVE  Kept(rows', active', txn', deferred')
<1>1. CASE UNCHANGED vars
  <2>1. rows' = rows /\ active' = active /\ txn' = txn /\ deferred' = deferred
      BY <1>1 DEF vars
  <2> QED  BY <2>1, FkWorld
<1>2. ASSUME NEW s \in Sessions,
             \/ txn_begin(s) \/ Commit(s) \/ CommitFails(s) \/ CommitRejected(s)
             \/ txn_rollback(s)
             \/ txn_savepoint(s) \/ txn_rollback_to(s) \/ txn_release(s)
      PROVE  Kept(rows', active', txn', deferred')
    BY <1>2, KBegin, KCommit, KFails, KRejected, KRollback, KSavepoint, KRollbackTo, KRelease
<1>3. ASSUME NEW s \in Sessions, NEW q \in Statements, txn_execute(s, q) \/ autocommit_execute(s, q)
      PROVE  Kept(rows', active', txn', deferred')
    BY <1>3, KExecute, KAuto
<1>4. ASSUME NEW s \in Sessions, NEW k \in Keys, copy_from_ingest(s, k)
      PROVE  Kept(rows', active', txn', deferred')
    BY <1>4, KCopy
<1> QED  BY <1>1, <1>2, <1>3, <1>4 DEF Next

LEMMA FkAlways ==
    ASSUME KeptApart
    PROVE  Spec => []FkInv
<1>1. Init => FkInv
    BY XInit, KInit DEF FkInv
<1>2. ASSUME FkInv, [Next]_vars PROVE FkInv'
  <2>1. XInv' /\ Kept(rows', active', txn', deferred')
      BY <1>2, XNext, KNext DEF FkInv
  <2> QED  BY <2>1 DEF FkInv
<1> QED  BY <1>1, <1>2, PTL DEF Spec

(* What dangles in a view is an orphan of it.                                 *)
LEMMA DanglingIs ==
    ASSUME XInv, NEW Y, NEW id \in Dangling(Fresh, Y)
    PROVE  id \in 1 .. Len(rows) /\ Orphan(rows, active, Y, id)
<1>1. /\ next_xid \in Nat /\ rows \in Seq(RowIn(next_xid))
      /\ Fresh = [next_xid |-> next_xid, active |-> active]
    BY XFacts DEF Fresh
<1>2. \A j \in 1 .. Len(rows) : row_visible(rows[j], Fresh, Y) <=> Vis(rows[j], active, Y)
  <2>1. ASSUME NEW j \in 1 .. Len(rows)
        PROVE  row_visible(rows[j], Fresh, Y) <=> Vis(rows[j], active, Y)
    <3> DEFINE r == rows[j]
    <3>1. r \in RowIn(next_xid)
        BY <1>1
    <3> HIDE DEF r
    <3>2. row_visible(r, [next_xid |-> next_xid, active |-> active], Y) <=> Vis(r, active, Y)
        BY <1>1, <3>1, VisIs
    <3> QED  BY <1>1, <3>2 DEF r
  <2> QED  BY <2>1
<1>3. /\ id \in DOMAIN rows /\ rows[id].table = "child" /\ rows[id].key # Null
      /\ row_visible(rows[id], Fresh, Y)
      /\ ~\E p \in DOMAIN rows : /\ rows[p].table = "parent" /\ rows[p].key = rows[id].key
                                 /\ row_visible(rows[p], Fresh, Y)
    BY DEF Dangling
<1>4. DOMAIN rows = 1 .. Len(rows)
    BY <1>1
<1> QED  BY <1>2, <1>3, <1>4 DEF Orphan

(* Referential integrity: in what has committed every child has its parent,    *)
(* whatever was checked at once (check_fk_child_row), cascaded                 *)
(* (plan_fk_cascade), postponed and fired (flush_deferred_fk), released or     *)
(* rolled back, for any number of sessions, keys and rows, while no open block *)
(* writes children as another removes keys, no postponed check is asked for at *)
(* once, none is queued under a sub-transaction, no COMMIT the log refuses     *)
(* follows a savepoint, and no key is given back or raced for (KeptApart).     *)
THEOREM ReferencesHold ==
    ASSUME KeptApart
    PROVE  Spec => []FkHolds
<1>1. Spec => []FkInv
    BY FkAlways
<1>2. ASSUME FkInv PROVE FkHolds
  <2>1. XInv /\ Kept(rows, active, txn, deferred)
      BY <1>2 DEF FkInv
  <2>2. Cover(rows, active, {}, {}, <<>>)
      BY <2>1 DEF Kept
  <2>3. ASSUME NEW id \in Dangling(Fresh, {}) PROVE FALSE
    <3>1. id \in 1 .. Len(rows) /\ Orphan(rows, active, {}, id)
        BY <2>1, <2>3, DanglingIs
    <3> QED  BY <2>2, <3>1 DEF Cover, CoverFrom
  <2> QED  BY <2>3 DEF FkHolds
<1> QED  BY <1>1, <1>2, PTL

(* Postponed is not forgotten: the queue of a block that can still commit has  *)
(* an entry for the key of every child that dangles in its view, through every *)
(* ROLLBACK TO (deferred_restore), and is empty between transactions           *)
(* (deferred_clear).                                                           *)
THEOREM PostponedIsQueued ==
    ASSUME KeptApart, "copy" \notin Quirks
    PROVE  Spec => []QueueHoldsPostponed
<1>2. Spec => []FkInv
    BY FkAlways
<1>3. Spec => []NothingLeftOver
    BY NothingIsLeftOver
<1>4. ASSUME FkInv PROVE PostponedNotForgotten
  <2>1. XInv /\ Kept(rows, active, txn, deferred)
      BY <1>4 DEF FkInv
  <2>2. ASSUME NEW s \in Sessions, InTxn(s), ~txn[s].failed,
               NEW id \in Dangling(Fresh, all_xids(txn[s]))
        PROVE  \E i \in DOMAIN deferred[s].queue : deferred[s].queue[i].key = rows[id].key
    <3> DEFINE Y == all_xids(txn[s])
               q == deferred[s].queue
    <3>1. txn[s].xid # 0 /\ Held(txn[s]) = Y
        BY <2>2 DEF InTxn, Held
    <3>2. Cover(rows, active, Y, txn[s].owned_xids, q)
      <4>1. Open(rows, active, txn[s], q)
          BY <2>1, <3>1, KeptIs
      <4> QED  BY <2>2, <3>1, <4>1 DEF Open
    <3>3. DOMAIN q = 1 .. Len(q) /\ Len(q) \in Nat
      <4>1. deferred[s] \in DeferralIn
          BY <2>1, XFacts
      <4>2. q \in Seq(PendingFk)
          BY <4>1 DEF DeferralIn
      <4> HIDE DEF q
      <4> QED  BY <4>2
    <3>4. id \in Dangling(Fresh, Y)
        OBVIOUS
    <3> HIDE DEF Y, q
    <3>5. id \in 1 .. Len(rows) /\ Orphan(rows, active, Y, id)
        BY <2>1, <3>4, DanglingIs
    <3>6. PICK i \in 0 + 1 .. Len(q) : Looks(q[i], rows[id], txn[s].owned_xids)
        BY <3>2, <3>5 DEF Cover, CoverFrom
    <3>7. i \in DOMAIN q /\ q[i].key = rows[id].key
        BY <3>3, <3>6 DEF Looks
    <3> QED  BY <3>7 DEF q
  <2> QED  BY <2>2 DEF PostponedNotForgotten
<1>5. ASSUME FkInv, NothingLeftOver PROVE QueueHoldsPostponed
    BY <1>4, <1>5 DEF QueueHoldsPostponed
<1> QED  BY <1>2, <1>3, <1>5, PTL

=============================================================================
