-------------------------- MODULE ForeignKeyProofs --------------------------
(***************************************************************************)
(* Proofs about ForeignKeys, for any number of sessions, keys, rows and      *)
(* savepoints and every definition of the foreign key.                       *)
(***************************************************************************)
EXTENDS ForeignKeys, TLAPS, SequenceTheorems, FiniteSetTheorems, WellFoundedInduction

-----------------------------------------------------------------------------
(* Counting up, and the model's three recursions.                            *)

(* A set of numbers that is not empty has a least one. *)
LEMMA Least ==
    ASSUME NEW T, T \subseteq Nat, T # {}
    PROVE  \E x \in T : \A y \in T : x <= y
<1> DEFINE R == OpToRel(<, Nat)
<1>1. PICK m \in T : \A y \in T : ~ (<<y, m>> \in R)
  <2> HIDE DEF R
  <2>1. IsWellFoundedOn(R, Nat)
      BY NatLessThanWellFounded DEF R
  <2> QED  BY <2>1, WFMin
<1>2. ASSUME NEW y \in T PROVE m <= y
  <2>1. ~ (y < m)
      BY <1>1 DEF OpToRel
  <2> QED  BY <2>1
<1> QED  BY <1>2

LEMMA CountUp ==
    ASSUME NEW N \in Nat, NEW G, 0 \in G, \A n \in 1 .. N : n - 1 \in G => n \in G
    PROVE  \A n \in 0 .. N : n \in G
<1> DEFINE Bad == {n \in 0 .. N : n \notin G}
<1>1. SUFFICES ASSUME Bad # {} PROVE FALSE
    OBVIOUS
<1>2. PICK m \in Bad : \A y \in Bad : m <= y
  <2>1. Bad \subseteq Nat
      OBVIOUS
  <2> HIDE DEF Bad
  <2> QED  BY <1>1, <2>1, Least
<1>3. m \in 1 .. N /\ m - 1 \in 0 .. N /\ ~(m <= m - 1)
    BY <1>2
<1>4. m - 1 \in G
    BY <1>2, <1>3
<1> QED  BY <1>2, <1>3, <1>4

UndoStep(rs, owns, ops, u, n) ==
    IF n = 0 THEN rs ELSE undo_write_op(u[n - 1], owns, ops[Len(ops) - n + 1])

(* The tables undo_all goes through, newest op first. *)
LEMMA UndoRun ==
    ASSUME NEW rs, NEW owns, NEW ops, Len(ops) \in Nat
    PROVE  \E u : /\ u[0] = rs
                  /\ \A n \in 1 .. Len(ops) :
                        u[n] = undo_write_op(u[n - 1], owns, ops[Len(ops) - n + 1])
                  /\ undo_all(rs, owns, ops) = u[Len(ops)]
<1> DEFINE N == Len(ops)
           Sol(m, u) == u = [n \in 0 .. m |-> UndoStep(rs, owns, ops, u, n)]
           Good == {m \in 0 .. N : \E u : Sol(m, u)}
<1>1. 0 \in Good
  <2> DEFINE u == [n \in 0 .. 0 |-> rs]
  <2>1. Sol(0, u)
      BY DEF UndoStep
  <2> QED  BY <2>1
<1>2. ASSUME NEW m \in 1 .. N, m - 1 \in Good PROVE m \in Good
  <2>1. PICK v : Sol(m - 1, v)
      BY <1>2
  <2> DEFINE u == [n \in 0 .. m |-> IF n = m THEN UndoStep(rs, owns, ops, v, n) ELSE v[n]]
  <2>2. \A n \in 0 .. m - 1 : v[n] = UndoStep(rs, owns, ops, v, n)
      BY <2>1
  <2>3. \A n \in 0 .. m : UndoStep(rs, owns, ops, u, n) = UndoStep(rs, owns, ops, v, n)
      BY DEF UndoStep
  <2>4. \A n \in 0 .. m : n = m \/ n \in 0 .. m - 1
      OBVIOUS
  <2>5. \A n \in 0 .. m : u[n] = UndoStep(rs, owns, ops, v, n)
      BY <2>2, <2>4
  <2>6. Sol(m, u)
      BY <2>3, <2>5
  <2>7. m \in 0 .. N
      OBVIOUS
  <2> HIDE DEF u, N
  <2>8. \E x : Sol(m, x)
      BY <2>6
  <2> HIDE DEF Sol
  <2> QED  BY <2>7, <2>8
<1>3. PICK u : Sol(N, u)
  <2> HIDE DEF Good
  <2>1. \A n \in 1 .. N : n - 1 \in Good => n \in Good
      BY <1>2
  <2>2. N \in Nat /\ N \in 0 .. N
      OBVIOUS
  <2> HIDE DEF N
  <2>3. N \in Good
      BY <1>1, <2>1, <2>2, CountUp
  <2> QED  BY <2>3 DEF Good
<1>4. undo_all(rs, owns, ops) = (CHOOSE w : Sol(N, w))[N]
    BY DEF undo_all, UndoStep
<1> DEFINE w == CHOOSE w : Sol(N, w)
<1>5. \A n \in 0 .. N : w[n] = UndoStep(rs, owns, ops, w, n)
    BY <1>3
<1> HIDE DEF w
<1>6. w[0] = rs /\ \A n \in 1 .. N : w[n] = undo_write_op(w[n - 1], owns, ops[N - n + 1])
    BY <1>5 DEF UndoStep
<1> QED  BY <1>4, <1>6 DEF w

Act(acc, c, new, refs, n) ==
    IF n \in refs THEN apply_fk_cascade(acc, c, n, new) ELSE acc

ActStep(st, c, new, refs, u, n) ==
    IF n = 0 THEN st ELSE Act(u[n - 1], c, new, refs, n)

Restricted(st, c, key, new) == FkAct(new) = "restrict" /\ OwnRows(st, c, "child", key) # {}

(* The states a cascade goes through, a row at a time. *)
LEMMA CascadeRun ==
    ASSUME NEW st, NEW c, NEW key, NEW new, Len(st.rows) \in Nat
    PROVE  \/ Restricted(st, c, key, new) /\ Cascade(st, c, key, new) = Fail(st)
           \/ /\ ~Restricted(st, c, key, new)
              /\ \E u : /\ u[0] = st
                        /\ \A n \in 1 .. Len(st.rows) :
                              u[n] = Act(u[n - 1], c, new, OwnRows(st, c, "child", key), n)
                        /\ Cascade(st, c, key, new) = u[Len(st.rows)]
<1> DEFINE N == Len(st.rows)
           refs == OwnRows(st, c, "child", key)
           Sol(m, u) == u = [n \in 0 .. m |-> ActStep(st, c, new, refs, u, n)]
           Good == {m \in 0 .. N : \E u : Sol(m, u)}
<1> HIDE DEF refs
<1>1. 0 \in Good
  <2> DEFINE u == [n \in 0 .. 0 |-> st]
  <2>1. Sol(0, u)
      BY DEF ActStep
  <2> QED  BY <2>1
<1>2. ASSUME NEW m \in 1 .. N, m - 1 \in Good PROVE m \in Good
  <2>1. PICK v : Sol(m - 1, v)
      BY <1>2
  <2> DEFINE u == [n \in 0 .. m |-> IF n = m THEN ActStep(st, c, new, refs, v, n) ELSE v[n]]
  <2>2. \A n \in 0 .. m - 1 : v[n] = ActStep(st, c, new, refs, v, n)
      BY <2>1
  <2>3. \A n \in 0 .. m : ActStep(st, c, new, refs, u, n) = ActStep(st, c, new, refs, v, n)
      BY DEF ActStep
  <2>4. \A n \in 0 .. m : n = m \/ n \in 0 .. m - 1
      OBVIOUS
  <2>5. \A n \in 0 .. m : u[n] = ActStep(st, c, new, refs, v, n)
      BY <2>2, <2>4
  <2>6. Sol(m, u)
      BY <2>3, <2>5
  <2>7. m \in 0 .. N
      OBVIOUS
  <2> HIDE DEF u, N
  <2>8. \E x : Sol(m, x)
      BY <2>6
  <2> HIDE DEF Sol
  <2> QED  BY <2>7, <2>8
<1>3. PICK u : Sol(N, u)
  <2> HIDE DEF Good
  <2>1. \A n \in 1 .. N : n - 1 \in Good => n \in Good
      BY <1>2
  <2>2. N \in Nat /\ N \in 0 .. N
      OBVIOUS
  <2> HIDE DEF N
  <2>3. N \in Good
      BY <1>1, <2>1, <2>2, CountUp
  <2> QED  BY <2>3 DEF Good
<1>4. ~Restricted(st, c, key, new) => Cascade(st, c, key, new) = (CHOOSE w : Sol(N, w))[N]
    BY DEF Cascade, Restricted, ActStep, Act, refs
<1>5. Restricted(st, c, key, new) => Cascade(st, c, key, new) = Fail(st)
    BY DEF Cascade, Restricted
<1> DEFINE w == CHOOSE w : Sol(N, w)
<1>6. \A n \in 0 .. N : w[n] = ActStep(st, c, new, refs, w, n)
    BY <1>3
<1> HIDE DEF w
<1>7. w[0] = st /\ \A n \in 1 .. N : w[n] = Act(w[n - 1], c, new, refs, n)
    BY <1>6 DEF ActStep
<1> QED  BY <1>4, <1>5, <1>7 DEF w, refs

Emptied(st) == [st EXCEPT !.queue = <<>>]

FireStep(st, c, u, n) ==
    IF n = 0 THEN Emptied(st) ELSE Fire(u[n - 1], c, st.queue[n])

(* The states a flush goes through, an entry at a time. *)
LEMMA FlushRun ==
    ASSUME NEW st, NEW c, Len(st.queue) \in Nat
    PROVE  \E u : /\ u[0] = Emptied(st)
                  /\ \A n \in 1 .. Len(st.queue) : u[n] = Fire(u[n - 1], c, st.queue[n])
                  /\ flush_deferred_fk(st, c) = u[Len(st.queue)]
<1> DEFINE N == Len(st.queue)
           Sol(m, u) == u = [n \in 0 .. m |-> FireStep(st, c, u, n)]
           Good == {m \in 0 .. N : \E u : Sol(m, u)}
<1>1. 0 \in Good
  <2> DEFINE u == [n \in 0 .. 0 |-> Emptied(st)]
  <2>1. Sol(0, u)
      BY DEF FireStep
  <2> QED  BY <2>1
<1>2. ASSUME NEW m \in 1 .. N, m - 1 \in Good PROVE m \in Good
  <2>1. PICK v : Sol(m - 1, v)
      BY <1>2
  <2> DEFINE u == [n \in 0 .. m |-> IF n = m THEN FireStep(st, c, v, n) ELSE v[n]]
  <2>2. \A n \in 0 .. m - 1 : v[n] = FireStep(st, c, v, n)
      BY <2>1
  <2>3. \A n \in 0 .. m : FireStep(st, c, u, n) = FireStep(st, c, v, n)
      BY DEF FireStep
  <2>4. \A n \in 0 .. m : n = m \/ n \in 0 .. m - 1
      OBVIOUS
  <2>5. \A n \in 0 .. m : u[n] = FireStep(st, c, v, n)
      BY <2>2, <2>4
  <2>6. Sol(m, u)
      BY <2>3, <2>5
  <2>7. m \in 0 .. N
      OBVIOUS
  <2> HIDE DEF u, N
  <2>8. \E x : Sol(m, x)
      BY <2>6
  <2> HIDE DEF Sol
  <2> QED  BY <2>7, <2>8
<1>3. PICK u : Sol(N, u)
  <2> HIDE DEF Good
  <2>1. \A n \in 1 .. N : n - 1 \in Good => n \in Good
      BY <1>2
  <2>2. N \in Nat /\ N \in 0 .. N
      OBVIOUS
  <2> HIDE DEF N
  <2>3. N \in Good
      BY <1>1, <2>1, <2>2, CountUp
  <2> QED  BY <2>3 DEF Good
<1>4. flush_deferred_fk(st, c) = (CHOOSE w : Sol(N, w))[N]
    BY DEF flush_deferred_fk, FireStep, Emptied
<1> DEFINE w == CHOOSE w : Sol(N, w)
<1>5. \A n \in 0 .. N : w[n] = FireStep(st, c, w, n)
    BY <1>3
<1> HIDE DEF w
<1>6. w[0] = Emptied(st) /\ \A n \in 1 .. N : w[n] = Fire(w[n - 1], c, st.queue[n])
    BY <1>5 DEF FireStep
<1> QED  BY <1>4, <1>6 DEF w

-----------------------------------------------------------------------------
(* Types.                                                                    *)

RowIn(N) ==
    {r \in [table : {"parent", "child", "none"}, key : Keys \cup {Null},
            xmin : 0 .. N - 1, xmax : 0 .. N - 1] : r.table = "parent" => r.key \in Keys}
OpIn(N) == [old : Nat, new : Nat, prev : 0 .. N - 1]
PendingFk == [side : {"child", "parent"}, key : Keys, row : Nat]

(* A statement's working state under xids below N. *)
StateIn(N) ==
    [ok : BOOLEAN, rows : Seq(RowIn(N)), ops : Seq(OpIn(N)),
     queue : Seq(PendingFk), modes : Seq(BOOLEAN)]

(* S has all of R's versions, with another xmax perhaps. *)
Grown(R, S) ==
    /\ Len(R) <= Len(S)
    /\ \A id \in 1 .. Len(R) : S[id] = [R[id] EXCEPT !.xmax = S[id].xmax]

(* The queued parents are rows. *)
Queued(q, R) == \A i \in 1 .. Len(q) : q[i].side = "parent" => q[i].row \in 1 .. Len(R)

(* From st the statement got to x. *)
Sound(st, x, N) == x \in StateIn(N) /\ Grown(st.rows, x.rows)

LEMMA FunSeq ==
    ASSUME NEW S, NEW n \in Nat, NEW f \in [1 .. n -> S]
    PROVE  f \in Seq(S) /\ Len(f) = n /\ DOMAIN f = 1 .. n
    OBVIOUS

LEMMA SeqIs ==
    ASSUME NEW S, NEW q \in Seq(S)
    PROVE  Len(q) \in Nat /\ DOMAIN q = 1 .. Len(q) /\ \A i \in 1 .. Len(q) : q[i] \in S
    OBVIOUS

LEMMA RowGrows ==
    ASSUME NEW N, NEW r \in RowIn(N)
    PROVE  r = [r EXCEPT !.xmax = r.xmax]
    BY DEF RowIn

LEMMA GrownSame ==
    ASSUME NEW N, NEW R \in Seq(RowIn(N))
    PROVE  Grown(R, R)
<1>1. Len(R) \in Nat /\ \A id \in 1 .. Len(R) : R[id] \in RowIn(N)
    OBVIOUS
<1> QED  BY <1>1, RowGrows DEF Grown

LEMMA GrownFields ==
    ASSUME NEW N, NEW R \in Seq(RowIn(N)), NEW S \in Seq(RowIn(N)), Grown(R, S), NEW id \in 1 .. Len(R)
    PROVE  /\ id \in 1 .. Len(S)
           /\ S[id].table = R[id].table /\ S[id].key = R[id].key /\ S[id].xmin = R[id].xmin
<1>1. Len(R) \in Nat /\ Len(S) \in Nat /\ Len(R) <= Len(S) /\ R[id] \in RowIn(N)
    BY DEF Grown
<1>2. S[id] = [R[id] EXCEPT !.xmax = S[id].xmax]
    BY DEF Grown
<1>3. id \in 1 .. Len(S)
    BY <1>1
<1> DEFINE x == S[id].xmax
<1> HIDE DEF x
<1>4. S[id] = [R[id] EXCEPT !.xmax = x]
    BY <1>2 DEF x
<1> QED  BY <1>1, <1>3, <1>4 DEF RowIn

LEMMA GrownOn ==
    ASSUME NEW N, NEW R \in Seq(RowIn(N)), NEW S \in Seq(RowIn(N)), NEW T \in Seq(RowIn(N)),
           Grown(R, S), Grown(S, T)
    PROVE  Grown(R, T)
<1>1. Len(R) \in Nat /\ Len(S) \in Nat /\ Len(T) \in Nat /\ Len(R) <= Len(S) /\ Len(S) <= Len(T)
    BY DEF Grown
<1>2. ASSUME NEW id \in 1 .. Len(R) PROVE T[id] = [R[id] EXCEPT !.xmax = T[id].xmax]
  <2>1. R[id] \in RowIn(N) /\ id \in 1 .. Len(S)
      BY <1>1
  <2> DEFINE x == S[id].xmax
             y == T[id].xmax
  <2>2. S[id] = [R[id] EXCEPT !.xmax = x] /\ T[id] = [S[id] EXCEPT !.xmax = y]
      BY <2>1 DEF Grown
  <2> HIDE DEF x, y
  <2>3. T[id] = [R[id] EXCEPT !.xmax = y]
      BY <2>1, <2>2 DEF RowIn
  <2> QED  BY <2>3 DEF y
<1> QED  BY <1>1, <1>2 DEF Grown

LEMMA SoundOn ==
    ASSUME NEW N, NEW st \in StateIn(N), NEW x, NEW y, Sound(st, x, N), Sound(x, y, N)
    PROVE  Sound(st, y, N)
    BY GrownOn DEF Sound, StateIn

LEMMA SoundSame ==
    ASSUME NEW N, NEW st \in StateIn(N)
    PROVE  Sound(st, st, N)
    BY GrownSame DEF Sound, StateIn

LEMMA QueuedOn ==
    ASSUME NEW q, NEW N, NEW st \in StateIn(N), NEW x, Sound(st, x, N), Queued(q, st.rows)
    PROVE  Queued(q, x.rows)
<1>1. Len(st.rows) \in Nat /\ Len(x.rows) \in Nat /\ Len(st.rows) <= Len(x.rows)
    BY DEF Sound, StateIn, Grown
<1> QED  BY <1>1 DEF Queued

-----------------------------------------------------------------------------
(* The three ways to write a row.                                            *)

StampedRows(R, id, w) == [R EXCEPT ![id].xmax = w]

LEMMA StampIn ==
    ASSUME NEW N \in Nat, NEW R \in Seq(RowIn(N)), NEW w \in 0 .. N - 1, NEW id \in 1 .. Len(R)
    PROVE  /\ StampedRows(R, id, w) \in Seq(RowIn(N))
           /\ Len(StampedRows(R, id, w)) = Len(R)
           /\ \A j \in 1 .. Len(R) :
                 StampedRows(R, id, w)[j] = IF j = id THEN [R[id] EXCEPT !.xmax = w] ELSE R[j]
           /\ Grown(R, StampedRows(R, id, w))
<1> DEFINE S == StampedRows(R, id, w)
<1>1. Len(R) \in Nat /\ DOMAIN R = 1 .. Len(R) /\ \A j \in 1 .. Len(R) : R[j] \in RowIn(N)
    OBVIOUS
<1>2. S = [j \in 1 .. Len(R) |-> IF j = id THEN [R[id] EXCEPT !.xmax = w] ELSE R[j]]
    BY <1>1 DEF StampedRows
<1>3. [R[id] EXCEPT !.xmax = w] \in RowIn(N) /\ [R[id] EXCEPT !.xmax = w].xmax = w
    BY <1>1 DEF RowIn
<1> HIDE DEF S
<1>4. \A j \in 1 .. Len(R) : S[j] \in RowIn(N) /\ S[j] = [R[j] EXCEPT !.xmax = S[j].xmax]
    BY <1>1, <1>2, <1>3, RowGrows
<1>5. S \in [1 .. Len(R) -> RowIn(N)]
    BY <1>2, <1>4
<1>6. S \in Seq(RowIn(N)) /\ Len(S) = Len(R)
  <2> DEFINE n == Len(R)
             T == RowIn(N)
  <2>1. n \in Nat /\ S \in [1 .. n -> T]
      BY <1>1, <1>5
  <2> HIDE DEF n, T
  <2>2. S \in Seq(T) /\ Len(S) = n
      BY <2>1, FunSeq
  <2> QED  BY <2>2 DEF n, T
<1>7. Grown(R, S)
    BY <1>1, <1>4, <1>6 DEF Grown
<1> QED  BY <1>2, <1>6, <1>7 DEF S

LEMMA AddIn ==
    ASSUME NEW N, NEW R \in Seq(RowIn(N)), NEW r \in RowIn(N)
    PROVE  /\ Append(R, r) \in Seq(RowIn(N))
           /\ Len(Append(R, r)) = Len(R) + 1
           /\ \A j \in 1 .. Len(R) : Append(R, r)[j] = R[j]
           /\ Append(R, r)[Len(R) + 1] = r
           /\ Grown(R, Append(R, r))
<1>1. /\ Append(R, r) \in Seq(RowIn(N)) /\ Len(R) \in Nat
      /\ Len(Append(R, r)) = Len(R) + 1
      /\ \A j \in 1 .. Len(R) : Append(R, r)[j] = R[j] /\ R[j] \in RowIn(N)
      /\ Append(R, r)[Len(R) + 1] = r
    OBVIOUS
<1> QED  BY <1>1, RowGrows DEF Grown

DeleteOp(st, id) == [old |-> id, new |-> 0, prev |-> st.rows[id].xmax]
InsertOp(st) == [old |-> 0, new |-> Len(st.rows) + 1, prev |-> 0]
UpdateOp(st, id) == [old |-> id, new |-> Len(st.rows) + 1, prev |-> st.rows[id].xmax]

(* x is st after one write. *)
WroteOp(st, x, op) ==
    /\ x.ops = Append(st.ops, op)
    /\ x.ok = st.ok /\ x.queue = st.queue /\ x.modes = st.modes

LEMMA DeleteIn ==
    ASSUME NEW N \in Nat, NEW st \in StateIn(N), NEW c, c.write_xid \in 0 .. N - 1,
           NEW id \in 1 .. Len(st.rows)
    PROVE  /\ Sound(st, Delete(st, c, id), N)
           /\ Delete(st, c, id).rows = StampedRows(st.rows, id, c.write_xid)
           /\ WroteOp(st, Delete(st, c, id), DeleteOp(st, id))
<1> DEFINE x == Delete(st, c, id)
           R == StampedRows(st.rows, id, c.write_xid)
<1>1. R \in Seq(RowIn(N)) /\ Grown(st.rows, R)
    BY StampIn DEF StateIn
<1>2. st.rows[id] \in RowIn(N) /\ id \in Nat /\ Len(st.rows) \in Nat
    BY DEF StateIn
<1>3. DeleteOp(st, id) \in OpIn(N)
    BY <1>2 DEF DeleteOp, OpIn, RowIn
<1>4. x = [st EXCEPT !.rows = R, !.ops = Append(st.ops, DeleteOp(st, id))]
    BY DEF Delete, StampedRows, DeleteOp, StateIn
<1>5. Append(st.ops, DeleteOp(st, id)) \in Seq(OpIn(N))
    BY <1>3 DEF StateIn
<1> HIDE DEF x, R
<1>6. x \in StateIn(N) /\ x.rows = R /\ WroteOp(st, x, DeleteOp(st, id))
    BY <1>1, <1>4, <1>5 DEF StateIn, WroteOp
<1> QED  BY <1>1, <1>6 DEF Sound, x, R

LEMMA InsertIn ==
    ASSUME NEW N \in Nat, NEW st \in StateIn(N), NEW c, c.write_xid \in 0 .. N - 1,
           NEW table \in {"parent", "child"}, NEW key \in Keys \cup {Null},
           table = "parent" => key \in Keys
    PROVE  /\ Sound(st, Insert(st, c, table, key), N)
           /\ Insert(st, c, table, key).rows = Append(st.rows, Row(table, key, c.write_xid))
           /\ WroteOp(st, Insert(st, c, table, key), InsertOp(st))
           /\ Row(table, key, c.write_xid) \in RowIn(N)
<1> DEFINE x == Insert(st, c, table, key)
           r == Row(table, key, c.write_xid)
           R == Append(st.rows, r)
<1>1. r \in RowIn(N)
    BY DEF Row, RowIn
<1> HIDE DEF r
<1>2. R \in Seq(RowIn(N)) /\ Grown(st.rows, R) /\ Len(st.rows) \in Nat
    BY <1>1, AddIn DEF StateIn
<1>3. InsertOp(st) \in OpIn(N)
    BY <1>2 DEF InsertOp, OpIn
<1>4. x = [st EXCEPT !.rows = R, !.ops = Append(st.ops, InsertOp(st))]
    BY DEF Insert, InsertOp, StateIn, r
<1>5. Append(st.ops, InsertOp(st)) \in Seq(OpIn(N))
    BY <1>3 DEF StateIn
<1> HIDE DEF x, R
<1>6. x \in StateIn(N) /\ x.rows = R /\ WroteOp(st, x, InsertOp(st))
    BY <1>2, <1>4, <1>5 DEF StateIn, WroteOp
<1> QED  BY <1>1, <1>2, <1>6 DEF Sound, x, R, r

LEMMA UpdateIn ==
    ASSUME NEW N \in Nat, NEW st \in StateIn(N), NEW c, c.write_xid \in 0 .. N - 1,
           NEW id \in 1 .. Len(st.rows), st.rows[id].table # "none",
           NEW key \in Keys \cup {Null}, st.rows[id].table = "parent" => key \in Keys
    PROVE  /\ Sound(st, Update(st, c, id, key), N)
           /\ Update(st, c, id, key).rows =
                 Append(StampedRows(st.rows, id, c.write_xid),
                        Row(st.rows[id].table, key, c.write_xid))
           /\ WroteOp(st, Update(st, c, id, key), UpdateOp(st, id))
           /\ Row(st.rows[id].table, key, c.write_xid) \in RowIn(N)
<1> DEFINE x == Update(st, c, id, key)
           r == Row(st.rows[id].table, key, c.write_xid)
           S == StampedRows(st.rows, id, c.write_xid)
           R == Append(S, r)
<1>1. st.rows[id] \in RowIn(N) /\ id \in Nat /\ Len(st.rows) \in Nat
    BY DEF StateIn
<1>2. r \in RowIn(N)
    BY <1>1 DEF Row, RowIn
<1> HIDE DEF r
<1>3. S \in Seq(RowIn(N)) /\ Grown(st.rows, S)
    BY StampIn DEF StateIn
<1> HIDE DEF S
<1>4. R \in Seq(RowIn(N)) /\ Grown(S, R)
    BY <1>2, <1>3, AddIn
<1> HIDE DEF R
<1>5. Grown(st.rows, R)
    BY <1>3, <1>4, GrownOn DEF StateIn
<1>6. UpdateOp(st, id) \in OpIn(N)
    BY <1>1 DEF UpdateOp, OpIn, RowIn
<1>7. x = [st EXCEPT !.rows = R, !.ops = Append(st.ops, UpdateOp(st, id))]
    BY DEF Update, StampedRows, UpdateOp, StateIn, r, R, S
<1>8. Append(st.ops, UpdateOp(st, id)) \in Seq(OpIn(N))
    BY <1>6 DEF StateIn
<1> HIDE DEF x
<1>9. x \in StateIn(N) /\ x.rows = R /\ WroteOp(st, x, UpdateOp(st, id))
    BY <1>4, <1>7, <1>8 DEF StateIn, WroteOp
<1> QED  BY <1>2, <1>5, <1>9 DEF Sound, x, R, S, r

-----------------------------------------------------------------------------
(* The foreign key's operators keep the types.                               *)

Same(st, x) == x.ok = st.ok /\ x.queue = st.queue /\ x.modes = st.modes
NewKeys == {<<>>} \cup {<<k>> : k \in Keys \cup {Null}}

LEMMA SoundIs ==
    ASSUME NEW N, NEW st, NEW x, Sound(st, x, N)
    PROVE  x \in StateIn(N) /\ Grown(st.rows, x.rows)
    BY DEF Sound

LEMMA OwnRowsAre ==
    ASSUME NEW N, NEW st \in StateIn(N), NEW c, NEW table, NEW key,
           NEW id \in OwnRows(st, c, table, key)
    PROVE  /\ id \in 1 .. Len(st.rows)
           /\ st.rows[id].table = table /\ st.rows[id].key = key
           /\ row_visible(st.rows[id], c.snap, {c.own})
    BY DEF OwnRows, StateIn

LEMMA FailIn ==
    ASSUME NEW N, NEW st \in StateIn(N)
    PROVE  /\ Sound(st, Fail(st), N) /\ ~Fail(st).ok
           /\ Fail(st).rows = st.rows /\ Fail(st).ops = st.ops
           /\ Fail(st).queue = st.queue /\ Fail(st).modes = st.modes
<1>1. /\ Fail(st) \in StateIn(N) /\ ~Fail(st).ok /\ Fail(st).rows = st.rows
      /\ Fail(st).ops = st.ops /\ Fail(st).queue = st.queue /\ Fail(st).modes = st.modes
    BY DEF Fail, StateIn
<1>2. Grown(st.rows, st.rows)
    BY GrownSame DEF StateIn
<1> QED  BY <1>1, <1>2 DEF Sound

LEMMA ActIn ==
    ASSUME NEW N \in Nat, NEW st \in StateIn(N), NEW c, c.write_xid \in 0 .. N - 1,
           NEW id \in 1 .. Len(st.rows), st.rows[id].table = "child", NEW new \in NewKeys
    PROVE  /\ Sound(st, apply_fk_cascade(st, c, id, new), N)
           /\ Same(st, apply_fk_cascade(st, c, id, new))
<1>1. CASE FkAct(new) = "set null"
  <2>1. apply_fk_cascade(st, c, id, new) = Update(st, c, id, Null)
      BY <1>1 DEF apply_fk_cascade
  <2>2. Sound(st, Update(st, c, id, Null), N) /\ WroteOp(st, Update(st, c, id, Null), UpdateOp(st, id))
      BY UpdateIn
  <2> QED  BY <2>1, <2>2 DEF Same, WroteOp
<1>2. CASE FkAct(new) # "set null" /\ new = <<>>
  <2>1. apply_fk_cascade(st, c, id, new) = Delete(st, c, id)
      BY <1>2 DEF apply_fk_cascade
  <2>2. Sound(st, Delete(st, c, id), N) /\ WroteOp(st, Delete(st, c, id), DeleteOp(st, id))
      BY DeleteIn
  <2> QED  BY <2>1, <2>2 DEF Same, WroteOp
<1>3. CASE FkAct(new) # "set null" /\ new # <<>>
  <2>1. PICK k \in Keys \cup {Null} : new = <<k>>
      BY <1>3 DEF NewKeys
  <2>2. apply_fk_cascade(st, c, id, new) = Update(st, c, id, k)
      BY <1>3, <2>1 DEF apply_fk_cascade
  <2>3. Sound(st, Update(st, c, id, k), N) /\ WroteOp(st, Update(st, c, id, k), UpdateOp(st, id))
      BY UpdateIn
  <2> QED  BY <2>2, <2>3 DEF Same, WroteOp
<1> QED  BY <1>1, <1>2, <1>3

LEMMA CascadeIn ==
    ASSUME NEW N \in Nat, NEW st \in StateIn(N), NEW c, c.write_xid \in 0 .. N - 1,
           NEW key, NEW new \in NewKeys
    PROVE  /\ Sound(st, Cascade(st, c, key, new), N)
           /\ Cascade(st, c, key, new).queue = st.queue
           /\ Cascade(st, c, key, new).modes = st.modes
<1>1. Len(st.rows) \in Nat
    BY DEF StateIn
<1>2. CASE Cascade(st, c, key, new) = Fail(st)
    BY <1>2, FailIn
<1>3. ASSUME NEW u, u[0] = st,
             \A n \in 1 .. Len(st.rows) :
                u[n] = Act(u[n - 1], c, new, OwnRows(st, c, "child", key), n),
             Cascade(st, c, key, new) = u[Len(st.rows)]
      PROVE  Sound(st, Cascade(st, c, key, new), N) /\ Same(st, Cascade(st, c, key, new))
  <2> DEFINE P(x) == Sound(st, x, N) /\ Same(st, x)
             L == Len(st.rows)
             G == {n \in 0 .. L : P(u[n])}
  <2>1. P(u[0])
      BY <1>3, SoundSame DEF Same
  <2>2. ASSUME NEW n \in 1 .. L, P(u[n - 1]) PROVE P(u[n])
    <3> DEFINE x == u[n - 1]
    <3>1. x \in StateIn(N) /\ Grown(st.rows, x.rows) /\ Same(st, x)
        BY <2>2 DEF Sound
    <3>2. u[n] = Act(x, c, new, OwnRows(st, c, "child", key), n)
        BY <1>3
    <3> HIDE DEF x
    <3>3. CASE n \notin OwnRows(st, c, "child", key)
      <4>1. u[n] = x
          BY <3>2, <3>3 DEF Act
      <4> QED  BY <4>1, <3>1 DEF Sound
    <3>4. CASE n \in OwnRows(st, c, "child", key)
      <4>1. u[n] = apply_fk_cascade(x, c, n, new)
          BY <3>2, <3>4 DEF Act
      <4>2. st.rows[n].table = "child" /\ n \in 1 .. Len(st.rows)
          BY <3>4 DEF OwnRows, StateIn
      <4> DEFINE R == st.rows
                 S == x.rows
      <4>a. R \in Seq(RowIn(N)) /\ S \in Seq(RowIn(N))
          BY <3>1 DEF StateIn
      <4>3. n \in 1 .. Len(x.rows) /\ x.rows[n].table = "child"
        <5>1. n \in 1 .. Len(R) /\ Grown(R, S) /\ R[n].table = "child"
            BY <3>1, <4>2
        <5> HIDE DEF R, S
        <5>2. n \in 1 .. Len(S) /\ S[n].table = "child"
            BY <4>a, <5>1, GrownFields
        <5> QED  BY <5>2 DEF S
      <4>4. Sound(x, u[n], N) /\ Same(x, u[n])
          BY <3>1, <4>1, <4>3, ActIn
      <4>5. Sound(st, u[n], N)
          BY <3>1, <4>4, SoundOn DEF Sound
      <4> QED  BY <3>1, <4>4, <4>5 DEF Same
    <3> QED  BY <3>3, <3>4
  <2>3. L \in Nat /\ L \in 0 .. L
      BY <1>1
  <2> HIDE DEF P, L
  <2>4. 0 \in G /\ \A n \in 1 .. L : n - 1 \in G => n \in G
      BY <2>1, <2>2, <2>3
  <2>5. L \in G
    <3> HIDE DEF G
    <3> QED  BY <2>3, <2>4, CountUp
  <2> QED  BY <1>3, <2>5 DEF P, L
<1> QED  BY <1>1, <1>2, <1>3, CascadeRun DEF Same

LEMMA FireIn ==
    ASSUME NEW N \in Nat, NEW st \in StateIn(N), NEW c, c.write_xid \in 0 .. N - 1,
           NEW e \in PendingFk, e.side = "parent" => e.row \in 1 .. Len(st.rows)
    PROVE  /\ Sound(st, Fire(st, c, e), N)
           /\ Fire(st, c, e).queue = st.queue
           /\ Fire(st, c, e).modes = st.modes
<1> DEFINE new == IF row_visible(st.rows[e.row], c.snap, c.owns) THEN <<st.rows[e.row].key>> ELSE <<>>
<1>1. Sound(st, st, N)
    BY SoundSame
<1>2. CASE Fire(st, c, e) = st
    BY <1>1, <1>2
<1>3. CASE Fire(st, c, e) = Fail(st)
    BY <1>3, FailIn
<1>4. CASE e.side = "parent" /\ Fire(st, c, e) = Cascade(st, c, e.key, new)
  <2>1. st.rows[e.row] \in RowIn(N)
      BY <1>4 DEF StateIn
  <2>2. st.rows[e.row].key \in Keys \cup {Null}
      BY <2>1 DEF RowIn
  <2>3. new \in NewKeys
      BY <2>2 DEF NewKeys
  <2> HIDE DEF new
  <2> QED  BY <1>4, <2>3, CascadeIn
<1>5. Fire(st, c, e) = st \/ Fire(st, c, e) = Fail(st)
        \/ (e.side = "parent" /\ Fire(st, c, e) = Cascade(st, c, e.key, new))
    BY DEF Fire, fire_child, fire_parent, PendingFk
<1> QED  BY <1>2, <1>3, <1>4, <1>5

LEMMA FlushIn ==
    ASSUME NEW N \in Nat, NEW st \in StateIn(N), NEW c, c.write_xid \in 0 .. N - 1,
           Queued(st.queue, st.rows)
    PROVE  /\ Sound(st, flush_deferred_fk(st, c), N)
           /\ flush_deferred_fk(st, c).queue = <<>>
           /\ flush_deferred_fk(st, c).modes = st.modes
<1> DEFINE L == Len(st.queue)
           P(x) == Sound(st, x, N) /\ x.queue = <<>> /\ x.modes = st.modes
<1>1. L \in Nat /\ L \in 0 .. L
    BY DEF StateIn
<1>2. PICK u : /\ u[0] = Emptied(st)
               /\ \A n \in 1 .. L : u[n] = Fire(u[n - 1], c, st.queue[n])
               /\ flush_deferred_fk(st, c) = u[L]
    BY <1>1, FlushRun
<1>3. P(u[0])
  <2> DEFINE x == Emptied(st)
  <2>1. /\ x \in StateIn(N) /\ x.rows = st.rows /\ x.queue = <<>> /\ x.modes = st.modes
    <3>1. <<>> \in Seq(PendingFk)
        OBVIOUS
    <3>2. x = [st EXCEPT !.queue = <<>>]
        BY DEF Emptied
    <3> HIDE DEF x
    <3> QED  BY <3>1, <3>2 DEF StateIn
  <2>2. Grown(st.rows, st.rows)
      BY GrownSame DEF StateIn
  <2> QED  BY <1>2, <2>1, <2>2 DEF Sound
<1>4. ASSUME NEW n \in 1 .. L, P(u[n - 1]) PROVE P(u[n])
  <2> DEFINE x == u[n - 1]
             e == st.queue[n]
  <2>1. x \in StateIn(N) /\ Sound(st, x, N) /\ x.queue = <<>> /\ x.modes = st.modes
      BY <1>4 DEF Sound
  <2>2. u[n] = Fire(x, c, e)
      BY <1>2
  <2>3. e \in PendingFk
      BY DEF StateIn
  <2>4. e.side = "parent" => e.row \in 1 .. Len(x.rows)
      BY <2>1, QueuedOn DEF Queued
  <2> HIDE DEF x, e, L
  <2>5. /\ Sound(x, Fire(x, c, e), N) /\ Fire(x, c, e).queue = x.queue
        /\ Fire(x, c, e).modes = x.modes
      BY <2>1, <2>3, <2>4, FireIn
  <2>6. Sound(st, u[n], N)
      BY <2>1, <2>2, <2>5, SoundOn
  <2> QED  BY <2>1, <2>2, <2>5, <2>6
<1> DEFINE G == {n \in 0 .. L : P(u[n])}
<1> HIDE DEF L, P
<1>5. 0 \in G /\ \A n \in 1 .. L : n - 1 \in G => n \in G
    BY <1>1, <1>3, <1>4
<1>6. L \in G
  <2> HIDE DEF G
  <2> QED  BY <1>1, <1>5, CountUp
<1> QED  BY <1>2, <1>6 DEF P

Enqueue(st, e) == [st EXCEPT !.queue = Append(@, e)]

LEMMA QueueIn ==
    ASSUME NEW N, NEW st \in StateIn(N), NEW e \in PendingFk,
           e.side = "parent" => e.row \in 1 .. Len(st.rows), Queued(st.queue, st.rows)
    PROVE  /\ Sound(st, Enqueue(st, e), N) /\ Queued(Enqueue(st, e).queue, Enqueue(st, e).rows)
           /\ Enqueue(st, e).rows = st.rows /\ Enqueue(st, e).ops = st.ops
           /\ Enqueue(st, e).ok = st.ok /\ Enqueue(st, e).modes = st.modes
           /\ Enqueue(st, e).queue = Append(st.queue, e)
<1> DEFINE x == Enqueue(st, e)
<1>1. /\ x \in StateIn(N) /\ x.rows = st.rows /\ x.queue = Append(st.queue, e)
      /\ x.ops = st.ops /\ x.ok = st.ok /\ x.modes = st.modes
  <2> DEFINE q == Append(st.queue, e)
  <2>1. q \in Seq(PendingFk)
      BY DEF StateIn
  <2>2. x = [st EXCEPT !.queue = q]
      BY DEF Enqueue
  <2> HIDE DEF q, x
  <2>3. /\ x \in StateIn(N) /\ x.rows = st.rows /\ x.queue = q
        /\ x.ops = st.ops /\ x.ok = st.ok /\ x.modes = st.modes
      BY <2>1, <2>2 DEF StateIn
  <2> QED  BY <2>3 DEF q
<1>2. Grown(st.rows, st.rows)
    BY GrownSame DEF StateIn
<1>3. st.queue \in Seq(PendingFk)
    BY DEF StateIn
<1> DEFINE q == st.queue
<1> HIDE DEF q, x
<1>4. Queued(Append(q, e), st.rows)
  <2>1. q \in Seq(PendingFk) /\ Queued(q, st.rows)
      BY <1>3 DEF q
  <2>2. /\ Len(Append(q, e)) = Len(q) + 1 /\ Len(q) \in Nat
        /\ \A i \in 1 .. Len(q) : Append(q, e)[i] = q[i]
        /\ Append(q, e)[Len(q) + 1] = e
      BY <2>1
  <2>3. ASSUME NEW i \in 1 .. Len(q) + 1
        PROVE  Append(q, e)[i].side = "parent" => Append(q, e)[i].row \in 1 .. Len(st.rows)
    <3>1. CASE i = Len(q) + 1
        BY <2>2, <3>1
    <3>2. CASE i \in 1 .. Len(q)
        BY <2>1, <2>2, <3>2 DEF Queued
    <3> QED  BY <2>2, <3>1, <3>2
  <2> QED  BY <2>2, <2>3 DEF Queued
<1> QED  BY <1>1, <1>2, <1>4 DEF Sound, q, x

LEMMA CheckIn ==
    ASSUME NEW N, NEW st \in StateIn(N), NEW c, NEW key \in Keys, Queued(st.queue, st.rows)
    PROVE  /\ Sound(st, check_fk_child_row(st, c, key), N)
           /\ Queued(check_fk_child_row(st, c, key).queue, check_fk_child_row(st, c, key).rows)
<1> DEFINE x == check_fk_child_row(st, c, key)
           e == Pending("child", key, 0)
<1>1. e \in PendingFk /\ e.side # "parent"
    BY DEF Pending, PendingFk
<1>2. CASE x = Enqueue(st, e)
  <2> HIDE DEF x, e
  <2>1. Sound(st, x, N) /\ Queued(x.queue, x.rows)
      BY <1>1, <1>2, QueueIn
  <2> QED  BY <2>1 DEF x
<1>3. CASE x = st
    BY <1>3, SoundSame
<1>4. CASE x = Fail(st)
    BY <1>4, FailIn
<1> QED  BY <1>2, <1>3, <1>4 DEF check_fk_child_row, queue_child_fk, Enqueue

LEMMA PlanIn ==
    ASSUME NEW N \in Nat, NEW st \in StateIn(N), NEW c, c.write_xid \in 0 .. N - 1,
           NEW id \in 1 .. Len(st.rows), st.rows[id].table = "parent", NEW new \in NewKeys,
           Queued(st.queue, st.rows)
    PROVE  /\ Sound(st, plan_fk_cascade(st, c, id, new), N)
           /\ Queued(plan_fk_cascade(st, c, id, new).queue, plan_fk_cascade(st, c, id, new).rows)
<1> DEFINE x == plan_fk_cascade(st, c, id, new)
           key == st.rows[id].key
           e == Pending("parent", key, id)
<1>1. st.rows[id] \in RowIn(N)
    BY DEF StateIn
<1>2. key \in Keys
    BY <1>1 DEF RowIn
<1>3. e \in PendingFk /\ e.row \in 1 .. Len(st.rows)
    BY <1>2 DEF Pending, PendingFk
<1>4. CASE x = Enqueue(st, e)
  <2> HIDE DEF x, e
  <2>1. Sound(st, x, N) /\ Queued(x.queue, x.rows)
      BY <1>3, <1>4, QueueIn
  <2> QED  BY <2>1 DEF x
<1>5. CASE x = Cascade(st, c, key, new)
  <2> HIDE DEF key
  <2>1. Sound(st, x, N) /\ x.queue = st.queue
      BY <1>5, CascadeIn
  <2> HIDE DEF x
  <2>2. Queued(st.queue, x.rows)
      BY <2>1, QueuedOn
  <2> QED  BY <2>1, <2>2 DEF x
<1> QED  BY <1>4, <1>5 DEF plan_fk_cascade, queue_parent_fk, Enqueue

LEMMA StatementIs ==
    ASSUME NEW q \in Statements
    PROVE  /\ q.kind \in {"insert child", "insert parent", "delete", "update", "set constraints"}
           /\ q.kind \in {"insert child", "insert parent", "update"} => q.key \in Keys
           /\ q.kind = "set constraints" => q.deferred \in BOOLEAN
    BY DEF Statements

Names(q, st) ==
    q.kind \in {"delete", "update"} =>
        /\ q.row \in 1 .. Len(st.rows)
        /\ st.rows[q.row].table \in {"parent", "child"}

LEMMA SeenNames ==
    ASSUME NEW N, NEW st \in StateIn(N), NEW c, NEW q,
           q.kind \in {"delete", "update"} =>
              q.row \in Seen(st, c, "parent") \cup Seen(st, c, "child")
    PROVE  Names(q, st)
    BY DEF Names, Seen, StateIn

SetModes(st, d) == [st EXCEPT !.modes = <<d>>]

LEMMA SetIn ==
    ASSUME NEW N, NEW st \in StateIn(N), NEW d \in BOOLEAN
    PROVE  /\ Sound(st, SetModes(st, d), N)
           /\ SetModes(st, d).rows = st.rows /\ SetModes(st, d).queue = st.queue
           /\ SetModes(st, d).ops = st.ops /\ SetModes(st, d).ok = st.ok
           /\ SetModes(st, d).modes = <<d>>
<1> DEFINE m == <<d>>
           x == SetModes(st, d)
<1>1. m \in Seq(BOOLEAN)
    OBVIOUS
<1>2. x = [st EXCEPT !.modes = m]
    BY DEF SetModes
<1> HIDE DEF m, x
<1>3. /\ x \in StateIn(N) /\ x.rows = st.rows /\ x.queue = st.queue
      /\ x.ops = st.ops /\ x.ok = st.ok /\ x.modes = m
    BY <1>1, <1>2 DEF StateIn
<1>4. Grown(st.rows, st.rows)
    BY GrownSame DEF StateIn
<1> QED  BY <1>3, <1>4 DEF Sound, m, x

LEMMA ExecuteIn ==
    ASSUME NEW N \in Nat, NEW st \in StateIn(N), NEW c, c.write_xid \in 0 .. N - 1,
           NEW q \in Statements, Names(q, st), st.rows = rows, Queued(st.queue, st.rows)
    PROVE  /\ Sound(st, execute(q, st, c), N)
           /\ Queued(execute(q, st, c).queue, execute(q, st, c).rows)
<1> DEFINE y == execute(q, st, c)
           Fine(x) == Sound(st, x, N) /\ Queued(x.queue, x.rows)
<1>1. ASSUME NEW x, NEW z, Fine(x), Sound(x, z, N), z.queue = x.queue
      PROVE  Fine(z)
  <2>1. Sound(st, z, N)
      BY <1>1, SoundOn
  <2>2. Queued(x.queue, z.rows)
      BY <1>1, QueuedOn DEF Sound
  <2> QED  BY <1>1, <2>1, <2>2
<1>2. Fine(st)
    BY SoundSame
<1>3. CASE q.kind = "insert child"
  <2> DEFINE x == check_fk_child_row(st, c, q.key)
             z == Insert(x, c, "child", q.key)
  <2>1. q.key \in Keys
      BY <1>3, StatementIs
  <2>2. Fine(x)
      BY <2>1, CheckIn
  <2>3. y = IF x.ok THEN z ELSE x
      BY <1>3 DEF execute
  <2> HIDE DEF x
  <2>4. Sound(x, z, N) /\ WroteOp(x, z, InsertOp(x))
      BY <2>1, <2>2, InsertIn DEF Sound
  <2> HIDE DEF z, y
  <2>5. Fine(z)
      BY <1>1, <2>2, <2>4 DEF WroteOp
  <2> HIDE DEF Fine
  <2>6. Fine(y)
      BY <2>2, <2>3, <2>5
  <2> QED  BY <2>6 DEF Fine, y
<1>4. CASE q.kind = "insert parent"
  <2> DEFINE z == Insert(st, c, "parent", q.key)
  <2>1. q.key \in Keys
      BY <1>4, StatementIs
  <2>2. y = z
      BY <1>4 DEF execute
  <2>3. Sound(st, z, N) /\ WroteOp(st, z, InsertOp(st))
      BY <2>1, InsertIn
  <2> HIDE DEF z, y
  <2>4. Fine(z)
      BY <1>1, <1>2, <2>3 DEF WroteOp
  <2> QED  BY <2>2, <2>4 DEF y
<1>5. ASSUME NEW x, NEW new \in NewKeys, q.kind \in {"delete", "update"},
             st.rows[q.row].table = "parent", x = plan_fk_cascade(st, c, q.row, new)
      PROVE  Fine(x)
  <2>1. q.row \in 1 .. Len(st.rows)
      BY <1>5 DEF Names
  <2> QED  BY <1>5, <2>1, PlanIn
<1>6. CASE q.kind = "delete"
  <2> DEFINE x == IF IsParent(q) THEN plan_fk_cascade(st, c, q.row, <<>>) ELSE st
             z == Delete(x, c, q.row)
  <2>1. Fine(x)
    <3>1. CASE IsParent(q)
        BY <1>5, <1>6, <3>1 DEF IsParent, NewKeys
    <3> QED  BY <1>2, <3>1
  <2>2. y = IF x.ok THEN z ELSE x
      BY <1>6 DEF execute
  <2>3. q.row \in 1 .. Len(st.rows)
      BY <1>6 DEF Names
  <2> HIDE DEF x
  <2>4. q.row \in 1 .. Len(x.rows)
      BY <2>1, <2>3 DEF Sound, Grown, StateIn
  <2>5. Sound(x, z, N) /\ WroteOp(x, z, DeleteOp(x, q.row))
      BY <2>1, <2>4, DeleteIn DEF Sound
  <2> HIDE DEF z, y
  <2>6. Fine(z)
      BY <1>1, <2>1, <2>5 DEF WroteOp
  <2> HIDE DEF Fine
  <2>7. Fine(y)
      BY <2>1, <2>2, <2>6
  <2> QED  BY <2>7 DEF Fine, y
<1>7. CASE q.kind = "update"
  <2> DEFINE x == IF IsParent(q) THEN plan_fk_cascade(st, c, q.row, <<q.key>>)
                  ELSE check_fk_child_row(st, c, q.key)
             z == Update(x, c, q.row, q.key)
  <2>0. q.key \in Keys
      BY <1>7, StatementIs
  <2>1. Fine(x)
    <3>1. CASE IsParent(q)
        BY <1>5, <1>7, <2>0, <3>1 DEF IsParent, NewKeys
    <3>2. CASE ~IsParent(q)
        BY <2>0, <3>2, CheckIn
    <3> QED  BY <3>1, <3>2
  <2>2. y = IF x.ok THEN z ELSE x
      BY <1>7 DEF execute
  <2>3. q.row \in 1 .. Len(st.rows) /\ st.rows[q.row].table # "none"
      BY <1>7 DEF Names
  <2> HIDE DEF x
  <2>4. q.row \in 1 .. Len(x.rows) /\ x.rows[q.row].table # "none"
    <3> DEFINE R == st.rows
               S == x.rows
    <3>1. R \in Seq(RowIn(N)) /\ S \in Seq(RowIn(N)) /\ Grown(R, S) /\ q.row \in 1 .. Len(R)
          /\ R[q.row].table # "none"
        BY <2>1, <2>3 DEF Sound, StateIn
    <3> HIDE DEF R, S
    <3>2. q.row \in 1 .. Len(S) /\ S[q.row].table # "none"
        BY <3>1, GrownFields
    <3> QED  BY <3>2 DEF S
  <2>5. Sound(x, z, N) /\ WroteOp(x, z, UpdateOp(x, q.row))
      BY <2>0, <2>1, <2>4, UpdateIn DEF Sound
  <2> HIDE DEF z, y
  <2>6. Fine(z)
      BY <1>1, <2>1, <2>5 DEF WroteOp
  <2> HIDE DEF Fine
  <2>7. Fine(y)
      BY <2>1, <2>2, <2>6
  <2> QED  BY <2>7 DEF Fine, y
<1>8. CASE q.kind = "set constraints"
  <2> DEFINE x == SetModes(st, q.deferred)
             z == flush_deferred_fk(x, c)
  <2>1. q.deferred \in BOOLEAN
      BY <1>8, StatementIs
  <2>2. y = IF q.deferred THEN x ELSE z
      BY <1>8 DEF execute, exec_set_constraints, SetModes
  <2>3. Sound(st, x, N) /\ x.rows = st.rows /\ x.queue = st.queue
      BY <2>1, SetIn
  <2> HIDE DEF x
  <2>4. Sound(x, z, N) /\ z.queue = <<>>
      BY <2>3, FlushIn DEF Sound
  <2> HIDE DEF z, y
  <2>5. Sound(st, z, N)
      BY <2>3, <2>4, SoundOn
  <2>6. Fine(z) /\ Fine(x)
      BY <2>3, <2>4, <2>5 DEF Queued
  <2> HIDE DEF Fine
  <2>7. Fine(y)
      BY <2>2, <2>6
  <2> QED  BY <2>7 DEF Fine, y
<1> QED  BY <1>3, <1>4, <1>6, <1>7, <1>8, StatementIs

(* Undoing keeps the types and the number of versions. *)
LEMMA UndoOpIn ==
    ASSUME NEW N \in Nat, N # 0, NEW R \in Seq(RowIn(N)), NEW owns, NEW w \in OpIn(N)
    PROVE  /\ undo_write_op(R, owns, w) \in Seq(RowIn(N))
           /\ Len(undo_write_op(R, owns, w)) = Len(R)
           /\ \A id \in 1 .. Len(R) : undo_write_op(R, owns, w)[id] =
                 IF id = w.new /\ R[id].xmin \in owns THEN NoRow
                 ELSE IF id = w.old /\ R[id].xmax \in owns THEN [R[id] EXCEPT !.xmax = w.prev]
                 ELSE R[id]
<1> DEFINE S == undo_write_op(R, owns, w)
           val(id) == IF id = w.new /\ R[id].xmin \in owns THEN NoRow
                      ELSE IF id = w.old /\ R[id].xmax \in owns THEN [R[id] EXCEPT !.xmax = w.prev]
                      ELSE R[id]
           T == RowIn(N)
           n == Len(R)
<1>1. n \in Nat /\ DOMAIN R = 1 .. n /\ \A id \in 1 .. n : R[id] \in T
    OBVIOUS
<1>2. S = [id \in 1 .. n |-> val(id)]
    BY <1>1 DEF undo_write_op
<1>3. NoRow \in T /\ w.prev \in 0 .. N - 1
    BY DEF NoRow, RowIn, Null, OpIn
<1>4. \A id \in 1 .. n : val(id) \in T
    BY <1>1, <1>3 DEF RowIn
<1> HIDE DEF val, S, T, n
<1>5. S \in [1 .. n -> T]
    BY <1>2, <1>4
<1>6. S \in Seq(T) /\ Len(S) = n
    BY <1>1, <1>5, FunSeq
<1>7. \A id \in 1 .. n : S[id] = val(id)
    BY <1>2
<1> QED  BY <1>6, <1>7 DEF S, T, n, val

LEMMA UndoIn ==
    ASSUME NEW N \in Nat, N # 0, NEW R \in Seq(RowIn(N)), NEW owns, NEW ops \in Seq(OpIn(N))
    PROVE  undo_all(R, owns, ops) \in Seq(RowIn(N)) /\ Len(undo_all(R, owns, ops)) = Len(R)
<1> DEFINE L == Len(ops)
           P(x) == x \in Seq(RowIn(N)) /\ Len(x) = Len(R)
<1>1. L \in Nat /\ L \in 0 .. L
    OBVIOUS
<1>2. PICK u : /\ u[0] = R
               /\ \A n \in 1 .. L : u[n] = undo_write_op(u[n - 1], owns, ops[L - n + 1])
               /\ undo_all(R, owns, ops) = u[L]
    BY <1>1, UndoRun
<1>3. ASSUME NEW n \in 1 .. L, P(u[n - 1]) PROVE P(u[n])
  <2>1. ops[L - n + 1] \in OpIn(N)
    <3>1. L - n + 1 \in 1 .. L
        OBVIOUS
    <3> QED  BY <3>1
  <2> QED  BY <1>2, <1>3, <2>1, UndoOpIn
<1> DEFINE G == {n \in 0 .. L : P(u[n])}
<1> HIDE DEF L
<1>4. 0 \in G /\ \A n \in 1 .. L : n - 1 \in G => n \in G
    BY <1>1, <1>2, <1>3
<1>5. L \in G
  <2> HIDE DEF G
  <2> QED  BY <1>1, <1>4, CountUp
<1> QED  BY <1>2, <1>5

-----------------------------------------------------------------------------
(* The state.                                                                *)

MarkIn == [writes : Nat, queue : Nat, modes : Seq(BOOLEAN)]
TxnIn(N) ==
    [xid : 0 .. N - 1, sub_xids : Seq(0 .. N - 1), owned_xids : SUBSET (0 .. N - 1),
     writes : Seq(OpIn(N)), saves : Seq(MarkIn), failed : BOOLEAN, deletes : BOOLEAN]
DeferralIn == [queue : Seq(PendingFk), modes : Seq(BOOLEAN)]

Shape(N, R, tx, df) ==
    /\ N \in Nat \ {0}
    /\ R \in Seq(RowIn(N))
    /\ tx \in [Sessions -> TxnIn(N)]
    /\ df \in [Sessions -> DeferralIn]
    /\ \A s \in Sessions : Queued(df[s].queue, R)

(* The savepoint stack: a sub-xid for each mark, handed out in order, and     *)
(* marks that grow along the stack and lie within the write log.              *)
Scoped(t) ==
    /\ t.xid = 0 => t = NoTxn
    /\ t.xid \notin t.owned_xids
    /\ Len(t.saves) = Len(t.sub_xids)
    /\ \A i \in 1 .. Len(t.sub_xids) :
          /\ t.sub_xids[i] \in t.owned_xids
          /\ t.saves[i].writes <= Len(t.writes)
    /\ \A i, j \in 1 .. Len(t.sub_xids) : i < j =>
          t.sub_xids[i] < t.sub_xids[j] /\ t.saves[i].writes <= t.saves[j].writes

(* The xids of an open transaction. *)
Held(t) == IF t.xid = 0 THEN {} ELSE all_xids(t)

(* active holds the open transactions' xids, and no two share one. *)
Owned(act, tx) ==
    /\ \A x : x \in act <=> \E s \in Sessions : x \in Held(tx[s])
    /\ \A s, o \in Sessions : s # o => Held(tx[s]) \cap Held(tx[o]) = {}

XInv ==
    /\ fk \in Constraints
    /\ statements \in Nat
    /\ Shape(next_xid, rows, txn, deferred)
    /\ \A s \in Sessions : Scoped(txn[s])
    /\ Owned(active, txn)

LEMMA SeqWider ==
    ASSUME NEW S, NEW T, S \subseteq T, NEW q \in Seq(S)
    PROVE  q \in Seq(T)
    OBVIOUS

LEMMA Wider ==
    ASSUME NEW N \in Nat, NEW M \in Nat, N <= M
    PROVE  /\ RowIn(N) \subseteq RowIn(M) /\ OpIn(N) \subseteq OpIn(M)
           /\ TxnIn(N) \subseteq TxnIn(M) /\ StateIn(N) \subseteq StateIn(M)
<1>1. 0 .. N - 1 \subseteq 0 .. M - 1
    OBVIOUS
<1>2. RowIn(N) \subseteq RowIn(M)
    BY <1>1 DEF RowIn
<1>3. OpIn(N) \subseteq OpIn(M)
    BY <1>1 DEF OpIn
<1>4. ASSUME NEW t \in TxnIn(N) PROVE t \in TxnIn(M)
  <2>1. t.sub_xids \in Seq(0 .. M - 1)
    <3>1. t.sub_xids \in Seq(0 .. N - 1)
        BY DEF TxnIn
    <3> QED  BY <1>1, <3>1, SeqWider
  <2>2. t.writes \in Seq(OpIn(M))
    <3>1. t.writes \in Seq(OpIn(N))
        BY DEF TxnIn
    <3> QED  BY <1>3, <3>1, SeqWider
  <2>3. t.owned_xids \in SUBSET (0 .. M - 1) /\ t.xid \in 0 .. M - 1
      BY <1>1 DEF TxnIn
  <2> QED  BY <2>1, <2>2, <2>3 DEF TxnIn
<1>5. ASSUME NEW st \in StateIn(N) PROVE st \in StateIn(M)
  <2>1. st.rows \in Seq(RowIn(M))
    <3>1. st.rows \in Seq(RowIn(N))
        BY DEF StateIn
    <3> QED  BY <1>2, <3>1, SeqWider
  <2>2. st.ops \in Seq(OpIn(M))
    <3>1. st.ops \in Seq(OpIn(N))
        BY DEF StateIn
    <3> QED  BY <1>3, <3>1, SeqWider
  <2> QED  BY <2>1, <2>2 DEF StateIn
<1> QED  BY <1>2, <1>3, <1>4, <1>5

(* One session moves on. *)
LEMMA ShapePut ==
    ASSUME NEW N, NEW R, NEW tx, NEW df, Shape(N, R, tx, df),
           NEW M \in Nat, N <= M, NEW S \in Seq(RowIn(M)), Len(R) <= Len(S),
           NEW s \in Sessions, NEW t \in TxnIn(M), NEW d \in DeferralIn, Queued(d.queue, S)
    PROVE  Shape(M, S, [tx EXCEPT ![s] = t], [df EXCEPT ![s] = d])
<1>1. /\ N \in Nat /\ R \in Seq(RowIn(N)) /\ tx \in [Sessions -> TxnIn(N)]
      /\ df \in [Sessions -> DeferralIn] /\ N # 0 /\ M # 0
    BY DEF Shape
<1>2. TxnIn(N) \subseteq TxnIn(M)
    BY <1>1, Wider
<1>3. [tx EXCEPT ![s] = t] \in [Sessions -> TxnIn(M)]
    BY <1>1, <1>2
<1>4. [df EXCEPT ![s] = d] \in [Sessions -> DeferralIn]
    BY <1>1
<1>5. Len(R) \in Nat /\ Len(S) \in Nat
    BY <1>1
<1>6. ASSUME NEW o \in Sessions PROVE Queued([df EXCEPT ![s] = d][o].queue, S)
  <2>1. CASE o = s
      BY <1>1, <2>1
  <2>2. CASE o # s
    <3>1. [df EXCEPT ![s] = d][o] = df[o] /\ Queued(df[o].queue, R)
        BY <1>1, <2>2 DEF Shape
    <3> DEFINE q == df[o].queue
    <3>2. Queued(q, S)
        BY <1>5, <3>1 DEF Queued
    <3> QED  BY <3>1, <3>2
  <2> QED  BY <2>1, <2>2
<1> QED  BY <1>1, <1>3, <1>4, <1>6 DEF Shape

-----------------------------------------------------------------------------
(* What the actions make of a transaction.                                   *)

BegunTxn(x) == [NoTxn EXCEPT !.xid = x]
RanTxn(t, st, d) ==
    [t EXCEPT !.writes = @ \o st.ops, !.failed = ~st.ok, !.deletes = @ \/ d]
SavedTxn(t, mark, x) ==
    [t EXCEPT !.saves = Append(@, mark), !.sub_xids = Append(@, x), !.owned_xids = @ \cup {x}]
CutTxn(t, w, x) ==
    [t EXCEPT !.writes = SubSeq(@, 1, w), !.sub_xids = Append(Front(@), x),
              !.owned_xids = @ \cup {x}, !.failed = FALSE]
ReleasedTxn(t) == [t EXCEPT !.saves = Front(@), !.sub_xids = Front(@)]

LEMMA NoTxnIn ==
    ASSUME NEW N \in Nat, N # 0
    PROVE  NoTxn \in TxnIn(N) /\ Scoped(NoTxn) /\ all_xids(NoTxn) = {0} /\ NoTxn.xid = 0
<1>1. <<>> \in Seq(0 .. N - 1) /\ <<>> \in Seq(OpIn(N)) /\ <<>> \in Seq(MarkIn)
    OBVIOUS
<1>2. NoTxn \in TxnIn(N)
    BY <1>1 DEF NoTxn, TxnIn
<1>3. Scoped(NoTxn)
  <2>1. NoTxn.sub_xids = <<>> /\ NoTxn.saves = <<>> /\ NoTxn.owned_xids = {}
      BY DEF NoTxn
  <2> QED  BY <2>1 DEF Scoped
<1> QED  BY <1>2, <1>3 DEF NoTxn, all_xids

LEMMA BegunIn ==
    ASSUME NEW N \in Nat, N # 0
    PROVE  /\ BegunTxn(N) \in TxnIn(N + 1) /\ Scoped(BegunTxn(N))
           /\ all_xids(BegunTxn(N)) = {N} /\ BegunTxn(N).xid = N
<1>1. <<>> \in Seq(0 .. (N + 1) - 1) /\ <<>> \in Seq(OpIn(N + 1)) /\ <<>> \in Seq(MarkIn)
    OBVIOUS
<1> DEFINE t == BegunTxn(N)
<1>2. /\ t.xid = N /\ t.sub_xids = <<>> /\ t.owned_xids = {} /\ t.writes = <<>>
      /\ t.saves = <<>> /\ t.failed = FALSE /\ t.deletes = FALSE
    BY DEF BegunTxn, NoTxn
<1>3. t \in TxnIn(N + 1)
  <2>1. N \in 0 .. (N + 1) - 1 /\ {} \in SUBSET (0 .. (N + 1) - 1)
      OBVIOUS
  <2>2. NoTxn \in TxnIn(N + 1) /\ t = [NoTxn EXCEPT !.xid = N]
      BY NoTxnIn DEF BegunTxn
  <2> HIDE DEF t
  <2> QED  BY <2>1, <2>2 DEF TxnIn
<1> HIDE DEF t
<1>4. Scoped(t)
    BY <1>2 DEF Scoped
<1> QED  BY <1>2, <1>3, <1>4 DEF t, all_xids

LEMMA RanIn ==
    ASSUME NEW N \in Nat, NEW t \in TxnIn(N), t.xid # 0, Scoped(t), NEW st \in StateIn(N), NEW d \in BOOLEAN
    PROVE  LET u == RanTxn(t, st, d) IN
           /\ u \in TxnIn(N) /\ Scoped(u) /\ all_xids(u) = all_xids(t) /\ u.xid = t.xid
<1> DEFINE u == RanTxn(t, st, d)
           w == t.writes \o st.ops
<1>1. t.writes \in Seq(OpIn(N)) /\ st.ops \in Seq(OpIn(N)) /\ st.ok \in BOOLEAN
    BY DEF TxnIn, StateIn
<1>2. w \in Seq(OpIn(N)) /\ Len(t.writes) \in Nat /\ Len(w) \in Nat /\ Len(t.writes) <= Len(w)
  <2> DEFINE a == t.writes
             b == st.ops
             T == OpIn(N)
  <2>1. a \in Seq(T) /\ b \in Seq(T)
      BY <1>1
  <2> HIDE DEF a, b, T
  <2>2. a \o b \in Seq(T) /\ Len(a \o b) = Len(a) + Len(b) /\ Len(a) \in Nat /\ Len(b) \in Nat
      BY <2>1, ConcatProperties
  <2>3. a \o b \in Seq(T) /\ Len(a \o b) \in Nat /\ Len(a) <= Len(a \o b)
      BY <2>2
  <2> QED  BY <2>2, <2>3 DEF a, b, T
<1>3. (t.deletes \/ d) \in BOOLEAN
    OBVIOUS
<1> DEFINE e == t.deletes \/ d
           f == ~st.ok
<1>4. u = [t EXCEPT !.writes = w, !.failed = f, !.deletes = e] /\ f \in BOOLEAN /\ e \in BOOLEAN
    BY DEF RanTxn
<1> HIDE DEF w, u, e, f
<1>5. /\ u \in TxnIn(N) /\ u.xid = t.xid /\ u.sub_xids = t.sub_xids
      /\ u.owned_xids = t.owned_xids /\ u.saves = t.saves /\ u.writes = w
    BY <1>2, <1>4 DEF TxnIn
<1>6. \A i \in 1 .. Len(t.sub_xids) : t.saves[i].writes \in Nat
  <2>1. t.saves \in Seq(MarkIn) /\ Len(t.saves) = Len(t.sub_xids)
      BY DEF TxnIn, Scoped
  <2>2. \A i \in 1 .. Len(t.saves) : t.saves[i] \in MarkIn
      BY <2>1
  <2> QED  BY <2>1, <2>2 DEF MarkIn
<1>7. Scoped(u)
    BY <1>2, <1>5, <1>6 DEF Scoped
<1> QED  BY <1>5, <1>7 DEF u, all_xids

LEMMA PrefixIs ==
    ASSUME NEW S, NEW q \in Seq(S), NEW n \in 0 .. Len(q)
    PROVE  /\ SubSeq(q, 1, n) \in Seq(S) /\ Len(SubSeq(q, 1, n)) = n
           /\ \A i \in 1 .. n : SubSeq(q, 1, n)[i] = q[i]
    OBVIOUS

LEMMA FrontIs ==
    ASSUME NEW S, NEW q \in Seq(S), q # <<>>
    PROVE  /\ Front(q) \in Seq(S) /\ Len(q) \in Nat /\ Len(q) # 0
           /\ Len(Front(q)) = Len(q) - 1
           /\ \A i \in 1 .. Len(q) - 1 : Front(q)[i] = q[i]
           /\ Last(q) = q[Len(q)] /\ Last(q) \in S
<1>1. Len(q) \in Nat /\ Len(q) # 0
    OBVIOUS
<1>2. Last(q) = q[Len(q)] /\ q[Len(q)] \in S
    BY <1>1 DEF Last
<1> DEFINE n == Len(q) - 1
<1>3. Front(q) = SubSeq(q, 1, n) /\ n \in 0 .. Len(q)
    BY <1>1 DEF Front
<1>4. /\ SubSeq(q, 1, n) \in Seq(S) /\ Len(SubSeq(q, 1, n)) = n
      /\ \A i \in 1 .. n : SubSeq(q, 1, n)[i] = q[i]
    BY <1>1, <1>3, PrefixIs
<1> QED  BY <1>1, <1>2, <1>3, <1>4

LEMMA AppendIs ==
    ASSUME NEW S, NEW q \in Seq(S), NEW x \in S
    PROVE  /\ Append(q, x) \in Seq(S) /\ Len(q) \in Nat /\ Len(Append(q, x)) = Len(q) + 1
           /\ \A i \in 1 .. Len(q) : Append(q, x)[i] = q[i]
           /\ Append(q, x)[Len(q) + 1] = x
    OBVIOUS

(* What is pushed, cut and popped stays in scope. *)
LEMMA SavedIn ==
    ASSUME NEW N \in Nat, N # 0, NEW t \in TxnIn(N), t.xid # 0, Scoped(t),
           NEW mark \in MarkIn, mark.writes = Len(t.writes)
    PROVE  LET u == SavedTxn(t, mark, N) IN
           /\ u \in TxnIn(N + 1) /\ Scoped(u) /\ all_xids(u) = all_xids(t) \cup {N}
           /\ u.xid = t.xid
<1> DEFINE u == SavedTxn(t, mark, N)
           sv == Append(t.saves, mark)
           sx == Append(t.sub_xids, N)
           ow == t.owned_xids \cup {N}
           n == Len(t.saves)
<1>1. t \in TxnIn(N + 1)
    BY Wider
<1>2. /\ t.saves \in Seq(MarkIn) /\ t.sub_xids \in Seq(0 .. (N + 1) - 1)
      /\ t.owned_xids \in SUBSET (0 .. N - 1) /\ N \in 0 .. (N + 1) - 1
      /\ t.xid \in 0 .. N - 1 /\ t.writes \in Seq(OpIn(N))
    BY <1>1 DEF TxnIn
<1>3. /\ sv \in Seq(MarkIn) /\ Len(sv) = n + 1 /\ n \in Nat
      /\ \A i \in 1 .. n : sv[i] = t.saves[i]
      /\ sv[n + 1] = mark
    BY <1>2, AppendIs
<1>4. /\ sx \in Seq(0 .. (N + 1) - 1) /\ Len(sx) = n + 1 /\ Len(t.sub_xids) = n
      /\ \A i \in 1 .. n : sx[i] = t.sub_xids[i]
      /\ sx[n + 1] = N
    BY <1>2, AppendIs DEF Scoped
<1>5. ow \in SUBSET (0 .. (N + 1) - 1) /\ t.xid \notin ow
    BY <1>2 DEF Scoped
<1>6. u = [t EXCEPT !.saves = sv, !.sub_xids = sx, !.owned_xids = ow]
    BY DEF SavedTxn
<1>7. N \in ow /\ t.owned_xids \subseteq ow
    OBVIOUS
<1>8. \A x \in t.owned_xids : x < N
    BY <1>2
<1>9. Len(t.writes) \in Nat
    BY <1>2
<1> HIDE DEF u, sv, sx, ow, n
<1>10. /\ u \in TxnIn(N + 1) /\ u.xid = t.xid /\ u.sub_xids = sx /\ u.owned_xids = ow
       /\ u.saves = sv /\ u.writes = t.writes
    BY <1>1, <1>3, <1>4, <1>5, <1>6 DEF TxnIn
<1>11. \A i \in 1 .. n : /\ t.sub_xids[i] \in t.owned_xids /\ t.saves[i].writes <= Len(t.writes)
                         /\ t.sub_xids[i] < N
    BY <1>4, <1>8 DEF Scoped
<1>12. \A i, j \in 1 .. n : i < j =>
          t.sub_xids[i] < t.sub_xids[j] /\ t.saves[i].writes <= t.saves[j].writes
    BY <1>4 DEF Scoped
<1>13. \A i \in 1 .. n + 1 : i \in 1 .. n \/ i = n + 1
    BY <1>3
<1>14. \A i \in 1 .. n + 1 : sx[i] \in ow /\ sv[i].writes <= Len(t.writes)
  <2> SUFFICES ASSUME NEW i \in 1 .. n + 1 PROVE sx[i] \in ow /\ sv[i].writes <= Len(t.writes)
      OBVIOUS
  <2>1. CASE i = n + 1
      BY <1>3, <1>4, <1>7, <1>9, <2>1
  <2>2. CASE i \in 1 .. n
      BY <1>3, <1>4, <1>7, <1>11, <2>2
  <2> QED  BY <1>13, <2>1, <2>2
<1>15. ASSUME NEW i \in 1 .. n + 1, NEW j \in 1 .. n + 1, i < j
       PROVE  sx[i] < sx[j] /\ sv[i].writes <= sv[j].writes
  <2>1. i \in 1 .. n
      BY <1>3, <1>15
  <2>2. CASE j = n + 1
      BY <1>3, <1>4, <1>11, <2>1, <2>2
  <2>3. CASE j \in 1 .. n
      BY <1>3, <1>4, <1>12, <1>15, <2>1, <2>3
  <2> QED  BY <1>13, <2>2, <2>3
<1>16. Scoped(u)
    BY <1>3, <1>4, <1>5, <1>10, <1>14, <1>15 DEF Scoped
<1>17. all_xids(u) = all_xids(t) \cup {N}
    BY <1>10 DEF all_xids, ow
<1> QED  BY <1>10, <1>16, <1>17 DEF u

LEMMA CutIn ==
    ASSUME NEW N \in Nat, N # 0, NEW t \in TxnIn(N), t.xid # 0, Scoped(t), t.saves # <<>>
    PROVE  LET u == CutTxn(t, Last(t.saves).writes, N) IN
           /\ u \in TxnIn(N + 1) /\ Scoped(u) /\ all_xids(u) = all_xids(t) \cup {N}
           /\ u.xid = t.xid
           /\ Last(t.saves).writes \in 0 .. Len(t.writes)
<1> DEFINE w == Last(t.saves).writes
           u == CutTxn(t, w, N)
           n == Len(t.saves)
           ws == SubSeq(t.writes, 1, w)
           fx == Front(t.sub_xids)
           sx == Append(fx, N)
           ow == t.owned_xids \cup {N}
<1>1. t \in TxnIn(N + 1)
    BY Wider
<1>2. /\ t.saves \in Seq(MarkIn) /\ t.sub_xids \in Seq(0 .. (N + 1) - 1)
      /\ t.owned_xids \in SUBSET (0 .. N - 1) /\ N \in 0 .. (N + 1) - 1
      /\ t.xid \in 0 .. N - 1 /\ t.writes \in Seq(OpIn(N + 1))
    BY <1>1 DEF TxnIn
<1>3. n \in Nat /\ n # 0 /\ Last(t.saves) = t.saves[n] /\ Last(t.saves) \in MarkIn
    BY <1>2, FrontIs
<1>4. Len(t.sub_xids) = n /\ t.sub_xids # <<>>
    BY <1>2, <1>3 DEF Scoped
<1>5. /\ fx \in Seq(0 .. (N + 1) - 1) /\ Len(fx) = n - 1
      /\ \A i \in 1 .. n - 1 : fx[i] = t.sub_xids[i]
    BY <1>2, <1>4, FrontIs
<1> HIDE DEF fx
<1>6. /\ sx \in Seq(0 .. (N + 1) - 1) /\ Len(sx) = n
      /\ \A i \in 1 .. n - 1 : sx[i] = t.sub_xids[i]
      /\ sx[n] = N
  <2>1. /\ sx \in Seq(0 .. (N + 1) - 1) /\ Len(sx) = Len(fx) + 1
        /\ \A i \in 1 .. Len(fx) : sx[i] = fx[i]
        /\ sx[Len(fx) + 1] = N
      BY <1>2, <1>5, AppendIs
  <2> HIDE DEF sx
  <2> QED  BY <1>3, <1>5, <2>1
<1>7. Len(t.writes) \in Nat /\ w \in Nat /\ w <= Len(t.writes)
  <2>1. Len(t.writes) \in Nat
      BY <1>2
  <2>2. w \in Nat
      BY <1>3 DEF MarkIn
  <2>3. n \in 1 .. Len(t.sub_xids)
      BY <1>3, <1>4
  <2> QED  BY <1>3, <2>1, <2>2, <2>3 DEF Scoped
<1>8. ws \in Seq(OpIn(N + 1)) /\ Len(ws) = w
    BY <1>2, <1>7, PrefixIs
<1>9. ow \in SUBSET (0 .. (N + 1) - 1) /\ t.xid \notin ow
    BY <1>2 DEF Scoped
<1>10. u = [t EXCEPT !.writes = ws, !.sub_xids = sx, !.owned_xids = ow, !.failed = FALSE]
    BY DEF CutTxn, fx
<1>11. N \in ow /\ t.owned_xids \subseteq ow
    OBVIOUS
<1>12. \A x \in t.owned_xids : x < N
    BY <1>2
<1> HIDE DEF u, ws, sx, ow, n, w
<1>13. /\ u \in TxnIn(N + 1) /\ u.xid = t.xid /\ u.sub_xids = sx /\ u.owned_xids = ow
       /\ u.saves = t.saves /\ u.writes = ws
    BY <1>1, <1>6, <1>8, <1>9, <1>10 DEF TxnIn
<1>14. \A i \in 1 .. n - 1 : t.sub_xids[i] \in t.owned_xids /\ t.sub_xids[i] < N
    BY <1>3, <1>4, <1>12 DEF Scoped
<1>15. \A i, j \in 1 .. n : i < j =>
          t.sub_xids[i] < t.sub_xids[j] /\ t.saves[i].writes <= t.saves[j].writes
    BY <1>4 DEF Scoped
<1>16. t.saves[n].writes = w
    BY <1>3 DEF w
<1>17. \A i \in 1 .. n : i \in 1 .. n - 1 \/ i = n
    BY <1>3
<1>18. \A i \in 1 .. n : sx[i] \in ow /\ t.saves[i].writes <= w
  <2>1. \A i \in 1 .. n - 1 : t.saves[i].writes <= t.saves[n].writes
      BY <1>3, <1>15
  <2> QED  BY <1>3, <1>6, <1>7, <1>11, <1>14, <1>16, <1>17, <2>1
<1>19. ASSUME NEW i \in 1 .. n, NEW j \in 1 .. n, i < j
       PROVE  sx[i] < sx[j]
  <2>1. i \in 1 .. n - 1
      BY <1>3, <1>19
  <2>2. CASE j = n
      BY <1>6, <1>14, <2>1, <2>2
  <2>3. CASE j \in 1 .. n - 1
      BY <1>6, <1>15, <1>19, <2>1, <2>3
  <2> QED  BY <1>17, <2>2, <2>3
<1>20. Scoped(u)
  <2>1. t.xid # 0 /\ Len(t.saves) = Len(sx) /\ Len(sx) = n
      BY <1>6 DEF n
  <2> QED  BY <1>8, <1>9, <1>13, <1>15, <1>18, <1>19, <2>1 DEF Scoped
<1>21. all_xids(u) = all_xids(t) \cup {N}
    BY <1>13 DEF all_xids, ow
<1>22. w \in 0 .. Len(t.writes)
    BY <1>7
<1> QED  BY <1>13, <1>20, <1>21, <1>22 DEF u, w

LEMMA ReleasedIn ==
    ASSUME NEW N \in Nat, N # 0, NEW t \in TxnIn(N), t.xid # 0, Scoped(t), t.saves # <<>>
    PROVE  LET u == ReleasedTxn(t) IN
           /\ u \in TxnIn(N) /\ Scoped(u) /\ all_xids(u) = all_xids(t) /\ u.xid = t.xid
<1> DEFINE u == ReleasedTxn(t)
           n == Len(t.saves)
           sv == Front(t.saves)
           sx == Front(t.sub_xids)
<1>1. t.saves \in Seq(MarkIn) /\ t.sub_xids \in Seq(0 .. N - 1) /\ t.writes \in Seq(OpIn(N))
    BY DEF TxnIn
<1>2. /\ n \in Nat /\ n # 0 /\ sv \in Seq(MarkIn) /\ Len(sv) = n - 1
      /\ \A i \in 1 .. n - 1 : sv[i] = t.saves[i]
    BY <1>1, FrontIs
<1>3. Len(t.sub_xids) = n /\ t.sub_xids # <<>>
    BY <1>1, <1>2 DEF Scoped
<1>4. /\ sx \in Seq(0 .. N - 1) /\ Len(sx) = n - 1
      /\ \A i \in 1 .. n - 1 : sx[i] = t.sub_xids[i]
    BY <1>1, <1>3, FrontIs
<1>5. u = [t EXCEPT !.saves = sv, !.sub_xids = sx]
    BY DEF ReleasedTxn
<1> HIDE DEF u, sv, sx, n
<1>6. /\ u \in TxnIn(N) /\ u.xid = t.xid /\ u.sub_xids = sx /\ u.owned_xids = t.owned_xids
      /\ u.saves = sv /\ u.writes = t.writes
    BY <1>2, <1>4, <1>5 DEF TxnIn
<1>7. \A i \in 1 .. n - 1 : i \in 1 .. n
    BY <1>2
<1>8. Scoped(u)
  <2>1. /\ \A i \in 1 .. n : /\ t.sub_xids[i] \in t.owned_xids
                             /\ t.saves[i].writes <= Len(t.writes)
        /\ \A i, j \in 1 .. n : i < j =>
              t.sub_xids[i] < t.sub_xids[j] /\ t.saves[i].writes <= t.saves[j].writes
        /\ t.xid \notin t.owned_xids
      BY <1>3 DEF Scoped
  <2> QED  BY <1>2, <1>4, <1>6, <1>7, <2>1 DEF Scoped
<1>9. all_xids(u) = all_xids(t)
    BY <1>6 DEF all_xids
<1> QED  BY <1>6, <1>8, <1>9 DEF u

LEMMA OwnedPut ==
    ASSUME NEW N, NEW act, NEW tx, tx \in [Sessions -> TxnIn(N)], Owned(act, tx),
           NEW s \in Sessions, NEW t, NEW a,
           \A x : x \in a <=> (x \in act /\ x \notin Held(tx[s])) \/ x \in Held(t),
           \A o \in Sessions \ {s} : Held(t) \cap Held(tx[o]) = {}
    PROVE  Owned(a, [tx EXCEPT ![s] = t])
<1> DEFINE ty == [tx EXCEPT ![s] = t]
<1>1. ty[s] = t /\ \A o \in Sessions \ {s} : ty[o] = tx[o]
    OBVIOUS
<1> HIDE DEF ty
<1>2. ASSUME NEW x PROVE x \in a <=> \E o \in Sessions : x \in Held(ty[o])
  <2>1. x \in act <=> \E o \in Sessions : x \in Held(tx[o])
      BY DEF Owned
  <2>2. \A o \in Sessions \ {s} : ~(x \in Held(tx[o]) /\ x \in Held(tx[s]))
      BY DEF Owned
  <2> QED  BY <1>1, <2>1, <2>2
<1>3. ASSUME NEW o \in Sessions, NEW p \in Sessions, o # p
      PROVE  Held(ty[o]) \cap Held(ty[p]) = {}
  <2>1. CASE o = s
      BY <1>1, <1>3, <2>1
  <2>2. CASE p = s
      BY <1>1, <1>3, <2>2
  <2>3. CASE o # s /\ p # s
      BY <1>1, <1>3, <2>3 DEF Owned
  <2> QED  BY <2>1, <2>2, <2>3
<1> QED  BY <1>2, <1>3 DEF Owned, ty

LEMMA HeldBelow ==
    ASSUME NEW N \in Nat, NEW t \in TxnIn(N), NEW x \in Held(t)
    PROVE  x \in 0 .. N - 1 /\ x < N /\ x # N
    BY DEF Held, all_xids, TxnIn

(* A transaction gets a fresh xid. *)
LEMMA OwnedGrows ==
    ASSUME NEW N \in Nat, NEW act, NEW tx, tx \in [Sessions -> TxnIn(N)], Owned(act, tx),
           NEW s \in Sessions, NEW t, Held(t) = Held(tx[s]) \cup {N}
    PROVE  Owned(act \cup {N}, [tx EXCEPT ![s] = t])
<1>1. \A x : x \in act \cup {N} <=> (x \in act /\ x \notin Held(tx[s])) \/ x \in Held(t)
    BY DEF Owned
<1>2. \A o \in Sessions \ {s} : Held(t) \cap Held(tx[o]) = {}
  <2> SUFFICES ASSUME NEW o \in Sessions \ {s} PROVE Held(t) \cap Held(tx[o]) = {}
      OBVIOUS
  <2>1. N \notin Held(tx[o])
      BY HeldBelow
  <2>2. Held(tx[s]) \cap Held(tx[o]) = {}
      BY DEF Owned
  <2> QED  BY <2>1, <2>2
<1> QED  BY <1>1, <1>2, OwnedPut

LEMMA OwnedKept ==
    ASSUME NEW N, NEW act, NEW tx, tx \in [Sessions -> TxnIn(N)], Owned(act, tx),
           NEW s \in Sessions, NEW t, Held(t) = Held(tx[s])
    PROVE  Owned(act, [tx EXCEPT ![s] = t])
<1>1. \A x : x \in act <=> (x \in act /\ x \notin Held(tx[s])) \/ x \in Held(t)
    BY DEF Owned
<1>2. \A o \in Sessions \ {s} : Held(t) \cap Held(tx[o]) = {}
    BY DEF Owned
<1> QED  BY <1>1, <1>2, OwnedPut

LEMMA OwnedEnds ==
    ASSUME NEW N, NEW act, NEW tx, tx \in [Sessions -> TxnIn(N)], Owned(act, tx),
           NEW s \in Sessions, tx[s].xid # 0
    PROVE  Owned(act \ all_xids(tx[s]), [tx EXCEPT ![s] = NoTxn])
<1>1. Held(NoTxn) = {}
    BY DEF Held, NoTxn
<1>2. \A x : x \in act \ all_xids(tx[s]) <=>
            (x \in act /\ x \notin Held(tx[s])) \/ x \in Held(NoTxn)
    BY <1>1 DEF Held
<1>3. \A o \in Sessions \ {s} : Held(NoTxn) \cap Held(tx[o]) = {}
    BY <1>1
<1> QED  BY <1>2, <1>3, OwnedPut

LEMMA ScopedPut ==
    ASSUME NEW N, NEW tx, tx \in [Sessions -> TxnIn(N)], \A s \in Sessions : Scoped(tx[s]),
           NEW s \in Sessions, NEW t, Scoped(t)
    PROVE  \A o \in Sessions : Scoped([tx EXCEPT ![s] = t][o])
    OBVIOUS

-----------------------------------------------------------------------------
(* What a step does to a statement's context.                                *)

LEMMA StartIn ==
    ASSUME NEW N, Shape(N, rows, txn, deferred), NEW s \in Sessions
    PROVE  LET st == Start(deferred[s]) IN
           /\ st \in StateIn(N) /\ st.ok /\ st.rows = rows /\ st.ops = <<>>
           /\ st.queue = deferred[s].queue /\ st.modes = deferred[s].modes
           /\ Queued(st.queue, st.rows)
<1> DEFINE st == Start(deferred[s])
<1>1. /\ rows \in Seq(RowIn(N)) /\ deferred[s] \in DeferralIn /\ <<>> \in Seq(OpIn(N))
      /\ Queued(deferred[s].queue, rows)
    BY DEF Shape
<1>2. /\ st.ok = TRUE /\ st.rows = rows /\ st.ops = <<>> /\ st.queue = deferred[s].queue
      /\ st.modes = deferred[s].modes
    BY DEF Start
<1>3. st \in StateIn(N)
    BY <1>1 DEF Start, StateIn, DeferralIn
<1> QED  BY <1>1, <1>2, <1>3

LEMMA WriteXidIn ==
    ASSUME NEW N \in Nat, N # 0, NEW t \in TxnIn(N), Scoped(t)
    PROVE  write_xid(t) \in 0 .. N - 1 /\ write_xid(t) \in all_xids(t)
<1>1. CASE t.sub_xids = <<>>
    BY <1>1 DEF write_xid, TxnIn, all_xids
<1>2. CASE t.sub_xids # <<>>
  <2>1. t.sub_xids \in Seq(0 .. N - 1)
      BY DEF TxnIn
  <2>2. /\ Last(t.sub_xids) \in 0 .. N - 1
        /\ Last(t.sub_xids) = t.sub_xids[Len(t.sub_xids)]
        /\ Len(t.sub_xids) \in 1 .. Len(t.sub_xids)
    <3> DEFINE q == t.sub_xids
               S == 0 .. N - 1
    <3>1. q \in Seq(S) /\ q # <<>>
        BY <1>2, <2>1
    <3> HIDE DEF q, S
    <3>2. Last(q) \in S /\ Last(q) = q[Len(q)] /\ Len(q) \in Nat /\ Len(q) # 0
        BY <3>1, FrontIs
    <3>3. Len(q) \in 1 .. Len(q)
        BY <3>2
    <3> QED  BY <3>2, <3>3 DEF q, S
  <2>3. Last(t.sub_xids) \in t.owned_xids
      BY <2>2 DEF Scoped
  <2> QED  BY <1>2, <2>2, <2>3 DEF write_xid, all_xids
<1> QED  BY <1>1, <1>2

LEMMA DeferralOf ==
    ASSUME NEW N, NEW st \in StateIn(N)
    PROVE  [queue |-> st.queue, modes |-> st.modes] \in DeferralIn
    BY DEF StateIn, DeferralIn

LEMMA DefaultIn ==
    Default \in DeferralIn /\ \A R : Queued(Default.queue, R)
<1>1. <<>> \in Seq(PendingFk) /\ <<>> \in Seq(BOOLEAN)
    OBVIOUS
<1>2. Default.queue = <<>>
    BY DEF Default
<1> QED  BY <1>1, <1>2 DEF Default, DeferralIn, Queued

-----------------------------------------------------------------------------
(* Every step keeps the invariant.                                           *)

LEMMA XStep ==
    ASSUME XInv, NEW s \in Sessions, NEW t, NEW d,
           fk' = fk, statements' \in Nat,
           next_xid' \in Nat, next_xid <= next_xid',
           rows' \in Seq(RowIn(next_xid')), Len(rows) <= Len(rows'),
           t \in TxnIn(next_xid'), Scoped(t), txn' = [txn EXCEPT ![s] = t],
           d \in DeferralIn, Queued(d.queue, rows'), deferred' = [deferred EXCEPT ![s] = d],
           Owned(active', txn')
    PROVE  XInv'
<1>1. Shape(next_xid, rows, txn, deferred) /\ txn \in [Sessions -> TxnIn(next_xid)]
    BY DEF XInv, Shape
<1>2. Shape(next_xid', rows', [txn EXCEPT ![s] = t], [deferred EXCEPT ![s] = d])
    BY <1>1, ShapePut
<1>3. \A o \in Sessions : Scoped([txn EXCEPT ![s] = t][o])
    BY <1>1, ScopedPut DEF XInv
<1>4. (\A o \in Sessions : Scoped(txn[o]))'
    BY <1>3
<1> QED  BY <1>2, <1>4 DEF XInv

LEMMA XFacts ==
    ASSUME XInv
    PROVE  /\ next_xid \in Nat /\ next_xid # 0 /\ rows \in Seq(RowIn(next_xid))
           /\ txn \in [Sessions -> TxnIn(next_xid)] /\ deferred \in [Sessions -> DeferralIn]
           /\ Len(rows) \in Nat /\ statements \in Nat
           /\ \A s \in Sessions : /\ txn[s] \in TxnIn(next_xid) /\ Scoped(txn[s])
                                  /\ deferred[s] \in DeferralIn /\ Queued(deferred[s].queue, rows)
           /\ Owned(active, txn)
    BY DEF XInv, Shape

LEMMA XBegin ==
    ASSUME XInv, NEW s \in Sessions, txn_begin(s)
    PROVE  XInv'
<1> DEFINE t == BegunTxn(next_xid)
<1>1. /\ txn[s].xid = 0 /\ txn' = [txn EXCEPT ![s] = t] /\ next_xid' = next_xid + 1
      /\ active' = active \cup {next_xid} /\ fk' = fk /\ rows' = rows
      /\ deferred' = deferred /\ statements' = statements
    BY DEF txn_begin, InTxn, BegunTxn
<1>2. t \in TxnIn(next_xid') /\ Scoped(t) /\ all_xids(t) = {next_xid} /\ t.xid # 0
    BY <1>1, XFacts, BegunIn
<1>3. Held(t) = Held(txn[s]) \cup {next_xid}
    BY <1>1, <1>2 DEF Held
<1> HIDE DEF t
<1>4. Owned(active', txn')
    BY <1>1, <1>3, XFacts, OwnedGrows
<1>5. rows' \in Seq(RowIn(next_xid'))
  <2>1. RowIn(next_xid) \subseteq RowIn(next_xid')
      BY <1>1, XFacts, Wider
  <2> QED  BY <1>1, <2>1, XFacts, SeqWider
<1>6. deferred' = [deferred EXCEPT ![s] = deferred[s]] /\ next_xid' \in Nat /\ next_xid <= next_xid'
      /\ Len(rows) <= Len(rows')
    BY <1>1, XFacts
<1> DEFINE d == deferred[s]
<1>7. d \in DeferralIn /\ Queued(d.queue, rows') /\ statements' \in Nat
    BY <1>1, XFacts
<1> HIDE DEF d
<1>8. deferred' = [deferred EXCEPT ![s] = d]
    BY <1>6 DEF d
<1> QED  BY <1>1, <1>2, <1>4, <1>5, <1>6, <1>7, <1>8, XStep

(* The statement runs in the session's own context. *)
LEMMA XRun ==
    ASSUME XInv, NEW N \in Nat, next_xid <= N, NEW s \in Sessions, NEW c,
           c.write_xid \in 0 .. N - 1, NEW q \in Statements,
           MayIssue(s, q, Start(deferred[s]), c)
    PROVE  /\ Start(deferred[s]) \in StateIn(N)
           /\ Names(q, Start(deferred[s])) /\ Start(deferred[s]).rows = rows
           /\ Queued(deferred[s].queue, rows)
           /\ Sound(Start(deferred[s]), execute(q, Start(deferred[s]), c), N)
           /\ Queued(execute(q, Start(deferred[s]), c).queue, execute(q, Start(deferred[s]), c).rows)
           /\ Len(rows) <= Len(execute(q, Start(deferred[s]), c).rows)
           /\ statements' \in Nat
<1> DEFINE st == Start(deferred[s])
<1>1. st \in StateIn(next_xid) /\ st.rows = rows /\ Queued(st.queue, st.rows)
      /\ st.queue = deferred[s].queue
    BY StartIn DEF XInv
<1>2. st \in StateIn(N)
    BY <1>1, XFacts, Wider
<1>3. Names(q, st)
  <2> HIDE DEF st
  <2>1. q.kind \in {"delete", "update"} => q.row \in Seen(st, c, "parent") \cup Seen(st, c, "child")
      BY DEF MayIssue, st
  <2> QED  BY <1>2, <2>1, SeenNames
<1> HIDE DEF st
<1>4. Sound(st, execute(q, st, c), N) /\ Queued(execute(q, st, c).queue, execute(q, st, c).rows)
    BY <1>1, <1>2, <1>3, ExecuteIn
<1>5. Len(rows) <= Len(execute(q, st, c).rows)
    BY <1>1, <1>4 DEF Sound, Grown
<1>6. statements' \in Nat
  <2>1. statements' = statements + 1
      BY Zenon DEF MayIssue
  <2> QED  BY <2>1, XFacts
<1> QED  BY <1>1, <1>2, <1>3, <1>4, <1>5, <1>6 DEF st

LEMMA XExecute ==
    ASSUME XInv, NEW s \in Sessions, NEW q \in Statements, txn_execute(s, q)
    PROVE  XInv'
<1> DEFINE c == TxnCtx(s)
           st0 == Start(deferred[s])
           st == execute(q, st0, c)
           dl == q.kind = "delete"
           t == RanTxn(txn[s], st, dl)
           d == [queue |-> st.queue, modes |-> st.modes]
<1>1. /\ txn[s].xid # 0 /\ MayIssue(s, q, st0, c) /\ rows' = st.rows
      /\ deferred' = [deferred EXCEPT ![s] = d]
      /\ fk' = fk /\ next_xid' = next_xid /\ active' = active
    BY DEF txn_execute, InTxn
<1>2. txn' = [txn EXCEPT ![s] = t]
  <2>1. txn' = [txn EXCEPT ![s].writes = @ \o st.ops, ![s].failed = ~st.ok, ![s].deletes = @ \/ dl]
      BY DEF txn_execute
  <2>2. txn \in [Sessions -> TxnIn(next_xid)]
      BY XFacts
  <2> HIDE DEF st, dl
  <2> QED  BY <2>1, <2>2 DEF RanTxn
<1>3. c.write_xid \in 0 .. next_xid - 1
    BY XFacts, WriteXidIn DEF TxnCtx, Ctx
<1> HIDE DEF c
<1>4. /\ Sound(st0, st, next_xid) /\ Queued(st.queue, st.rows) /\ Len(rows) <= Len(st.rows)
      /\ statements' \in Nat
    BY <1>1, <1>3, XFacts, XRun
<1> HIDE DEF st0, st
<1>5. st \in StateIn(next_xid) /\ dl \in BOOLEAN
    BY <1>4 DEF Sound
<1> HIDE DEF dl
<1>6. t \in TxnIn(next_xid) /\ Scoped(t) /\ all_xids(t) = all_xids(txn[s]) /\ t.xid = txn[s].xid
    BY <1>1, <1>5, XFacts, RanIn
<1> HIDE DEF t
<1>7. Owned(active', txn')
  <2>1. Held(t) = Held(txn[s])
      BY <1>6 DEF Held
  <2> QED  BY <1>1, <1>2, <2>1, XFacts, OwnedKept
<1>8. d \in DeferralIn /\ Queued(d.queue, rows')
    BY <1>1, <1>4, <1>5, DeferralOf
<1>9. rows' \in Seq(RowIn(next_xid')) /\ next_xid' \in Nat /\ next_xid <= next_xid'
    BY <1>1, <1>5, XFacts DEF StateIn
<1> HIDE DEF d
<1> QED  BY <1>1, <1>2, <1>4, <1>6, <1>7, <1>8, <1>9, XStep

LEMMA AutoCtxIs ==
    ASSUME XInv
    PROVE  /\ AutoCtx.own = next_xid /\ AutoCtx.write_xid = next_xid
           /\ AutoCtx.owns = {next_xid}
           /\ AutoCtx.snap = [next_xid |-> next_xid + 1, active |-> active \cup {next_xid}]
           /\ AutoCtx.write_xid \in 0 .. (next_xid + 1) - 1
           /\ next_xid + 1 \in Nat /\ next_xid <= next_xid + 1 /\ next_xid + 1 # 0
<1> DEFINE t == [NoTxn EXCEPT !.xid = next_xid]
<1>1. t.xid = next_xid /\ t.sub_xids = <<>> /\ t.owned_xids = {}
    BY DEF NoTxn
<1>2. write_xid(t) = next_xid /\ all_xids(t) = {next_xid}
    BY <1>1 DEF write_xid, all_xids
<1> HIDE DEF t
<1>3. AutoCtx = Ctx(t, [next_xid |-> next_xid + 1, active |-> active \cup {next_xid}])
    BY DEF AutoCtx, t
<1>4. next_xid \in 0 .. (next_xid + 1) - 1 /\ next_xid + 1 \in Nat /\ next_xid <= next_xid + 1
      /\ next_xid + 1 # 0
    BY XFacts
<1> QED  BY <1>1, <1>2, <1>3, <1>4 DEF Ctx

(* A step outside a block: the rows it leaves and the deferred state. *)
LEMMA XAuto ==
    ASSUME XInv, NEW s \in Sessions, next_xid' = next_xid + 1, statements' \in Nat,
           fk' = fk, active' = active, txn' = txn,
           rows' \in Seq(RowIn(next_xid + 1)), Len(rows) <= Len(rows'),
           NEW d \in DeferralIn, Queued(d.queue, rows'), deferred' = [deferred EXCEPT ![s] = d]
    PROVE  XInv'
<1> DEFINE t == txn[s]
<1>1. t \in TxnIn(next_xid') /\ Scoped(t)
    BY XFacts, AutoCtxIs, Wider
<1>2. txn' = [txn EXCEPT ![s] = t] /\ Owned(active', txn')
    BY XFacts
<1>3. next_xid' \in Nat /\ next_xid <= next_xid' /\ rows' \in Seq(RowIn(next_xid'))
    BY AutoCtxIs
<1> HIDE DEF t
<1> QED  BY <1>1, <1>2, <1>3, XStep

(* Undoing what a statement got to. *)
LEMMA XUndone ==
    ASSUME NEW N \in Nat, N # 0, NEW st \in StateIn(N), NEW owns, NEW ops \in Seq(OpIn(N))
    PROVE  /\ undo_all(st.rows, owns, ops) \in Seq(RowIn(N))
           /\ Len(undo_all(st.rows, owns, ops)) = Len(st.rows)
    BY UndoIn DEF StateIn

LEMMA XAutocommit ==
    ASSUME XInv, NEW s \in Sessions, NEW q \in Statements, autocommit_execute(s, q)
    PROVE  XInv'
<1> DEFINE c == AutoCtx
           N == next_xid + 1
           ran == execute(q, Start(deferred[s]), c)
           st == IF ran.ok THEN flush_deferred_fk(ran, c) ELSE ran
<1>1. /\ MayIssue(s, q, Start(deferred[s]), c)
      /\ rows' = st.rows \/ rows' = undo_all(st.rows, {c.own}, st.ops)
      /\ next_xid' = next_xid + 1 /\ deferred' = [deferred EXCEPT ![s] = Default]
      /\ fk' = fk /\ active' = active /\ txn' = txn
    BY DEF autocommit_execute
<1>2. c.write_xid \in 0 .. N - 1 /\ N \in Nat /\ next_xid <= N /\ N # 0
    BY AutoCtxIs
<1> HIDE DEF c, N
<1>3. /\ Sound(Start(deferred[s]), ran, N) /\ Queued(ran.queue, ran.rows)
      /\ Len(rows) <= Len(ran.rows) /\ statements' \in Nat
    BY <1>1, <1>2, XRun
<1> HIDE DEF ran
<1>4. st \in StateIn(N) /\ Len(rows) <= Len(st.rows)
  <2>1. ran \in StateIn(N)
      BY <1>3 DEF Sound
  <2>2. Sound(ran, flush_deferred_fk(ran, c), N)
      BY <1>2, <1>3, <2>1, FlushIn
  <2>3. flush_deferred_fk(ran, c) \in StateIn(N) /\ Len(rows) <= Len(flush_deferred_fk(ran, c).rows)
    <3> DEFINE x == flush_deferred_fk(ran, c)
    <3>1. x \in StateIn(N) /\ Len(ran.rows) <= Len(x.rows)
        BY <2>2 DEF Sound, Grown
    <3> HIDE DEF x
    <3>2. Len(rows) \in Nat /\ Len(ran.rows) \in Nat /\ Len(x.rows) \in Nat
        BY <2>1, <3>1, XFacts DEF StateIn
    <3> QED  BY <1>3, <3>1, <3>2 DEF x
  <2> QED  BY <1>3, <2>1, <2>3
<1> HIDE DEF st
<1>5. rows' \in Seq(RowIn(N)) /\ Len(rows) <= Len(rows')
  <2>1. st.rows \in Seq(RowIn(N)) /\ st.ops \in Seq(OpIn(N))
      BY <1>4 DEF StateIn
  <2> QED  BY <1>1, <1>2, <1>4, <2>1, XUndone
<1> QED  BY <1>1, <1>3, <1>5, XAuto, DefaultIn DEF N

LEMMA XCopy ==
    ASSUME XInv, NEW s \in Sessions, NEW key \in Keys, copy_from_ingest(s, key)
    PROVE  XInv'
<1> DEFINE c == AutoCtx
           N == next_xid + 1
           q == [kind |-> "insert child", key |-> key]
           ran == execute(q, Start(deferred[s]), c)
           st == flush_deferred_fk(ran, c)
           kept == [deferred[s] EXCEPT !.queue = ran.queue]
<1>1. /\ MayIssue(s, q, Start(deferred[s]), c)
      /\ next_xid' = next_xid + 1 /\ fk' = fk /\ active' = active /\ txn' = txn
      /\ \/ /\ rows' = st.rows \/ rows' = undo_all(st.rows, {c.own}, st.ops)
            /\ deferred' = [deferred EXCEPT ![s] = Default]
         \/ /\ rows' = undo_all(ran.rows, {c.own}, ran.ops)
            /\ deferred' = [deferred EXCEPT ![s].queue = ran.queue]
    BY DEF copy_from_ingest
<1>2. c.write_xid \in 0 .. N - 1 /\ N \in Nat /\ next_xid <= N /\ N # 0
    BY AutoCtxIs
<1>q. q \in Statements
    BY DEF Statements
<1> HIDE DEF c, N, q
<1>3. /\ Sound(Start(deferred[s]), ran, N) /\ Queued(ran.queue, ran.rows)
      /\ Len(rows) <= Len(ran.rows) /\ statements' \in Nat
    BY <1>1, <1>2, <1>q, XRun
<1> HIDE DEF ran
<1>4. ran \in StateIn(N)
    BY <1>3 DEF Sound
<1>5. st \in StateIn(N) /\ Len(rows) <= Len(st.rows)
  <2>1. Sound(ran, st, N)
      BY <1>2, <1>3, <1>4, FlushIn
  <2> HIDE DEF st
  <2>2. st \in StateIn(N) /\ Len(ran.rows) <= Len(st.rows)
      BY <2>1 DEF Sound, Grown
  <2>3. Len(rows) \in Nat /\ Len(ran.rows) \in Nat /\ Len(st.rows) \in Nat
      BY <1>4, <2>2, XFacts DEF StateIn
  <2> QED  BY <1>3, <2>2, <2>3
<1> HIDE DEF st
<1>6. CASE /\ rows' = st.rows \/ rows' = undo_all(st.rows, {c.own}, st.ops)
           /\ deferred' = [deferred EXCEPT ![s] = Default]
  <2>1. st.rows \in Seq(RowIn(N)) /\ st.ops \in Seq(OpIn(N))
      BY <1>5 DEF StateIn
  <2>2. rows' \in Seq(RowIn(N)) /\ Len(rows) <= Len(rows')
      BY <1>2, <1>5, <1>6, <2>1, XUndone
  <2> QED  BY <1>1, <1>3, <1>6, <2>2, XAuto, DefaultIn DEF N
<1>7. CASE /\ rows' = undo_all(ran.rows, {c.own}, ran.ops)
           /\ deferred' = [deferred EXCEPT ![s].queue = ran.queue]
  <2>1. ran.rows \in Seq(RowIn(N)) /\ ran.ops \in Seq(OpIn(N)) /\ ran.queue \in Seq(PendingFk)
      BY <1>4 DEF StateIn
  <2>2. rows' \in Seq(RowIn(N)) /\ Len(rows') = Len(ran.rows)
      BY <1>2, <1>4, <1>7, <2>1, XUndone
  <2>3. deferred' = [deferred EXCEPT ![s] = kept]
      BY <1>7, XFacts
  <2>4. kept \in DeferralIn /\ kept.queue = ran.queue
      BY <2>1, XFacts DEF DeferralIn
  <2> HIDE DEF kept
  <2>5. Queued(kept.queue, rows')
      BY <1>3, <2>2, <2>4 DEF Queued
  <2> QED  BY <1>1, <1>3, <2>2, <2>3, <2>4, <2>5, XAuto DEF N
<1> QED  BY <1>1, <1>6, <1>7

LEMMA XEnd ==
    ASSUME XInv, NEW s \in Sessions, txn[s].xid # 0, End(s),
           rows' \in Seq(RowIn(next_xid)), Len(rows) <= Len(rows')
    PROVE  XInv'
<1>1. /\ txn' = [txn EXCEPT ![s] = NoTxn] /\ active' = active \ all_xids(txn[s])
      /\ deferred' = [deferred EXCEPT ![s] = Default]
      /\ fk' = fk /\ next_xid' = next_xid /\ statements' = statements
    BY DEF End
<1>2. Owned(active', txn')
    BY <1>1, XFacts, OwnedEnds
<1>3. NoTxn \in TxnIn(next_xid') /\ Scoped(NoTxn)
    BY <1>1, XFacts, NoTxnIn
<1>4. next_xid' \in Nat /\ next_xid <= next_xid' /\ statements' \in Nat
    BY <1>1, XFacts
<1> QED  BY <1>1, <1>2, <1>3, <1>4, XStep, DefaultIn

LEMMA XFlushed ==
    ASSUME XInv, NEW s \in Sessions
    PROVE  /\ Sound(Start(deferred[s]), Flushed(s), next_xid)
           /\ Flushed(s) \in StateIn(next_xid) /\ Len(rows) <= Len(Flushed(s).rows)
           /\ Flushed(s).queue = <<>> /\ Queued(Flushed(s).queue, Flushed(s).rows)
<1> DEFINE st == Start(deferred[s])
           c == TxnCtx(s)
<1>1. st \in StateIn(next_xid) /\ st.rows = rows /\ Queued(st.queue, st.rows)
    BY StartIn DEF XInv
<1>2. c.write_xid \in 0 .. next_xid - 1
    BY XFacts, WriteXidIn DEF TxnCtx, Ctx
<1>3. Flushed(s) = flush_deferred_fk(st, c)
    BY DEF Flushed
<1> HIDE DEF st, c
<1>4. Sound(st, flush_deferred_fk(st, c), next_xid) /\ flush_deferred_fk(st, c).queue = <<>>
    BY <1>1, <1>2, XFacts, FlushIn
<1>5. Flushed(s).queue = <<>> /\ Queued(Flushed(s).queue, Flushed(s).rows)
    BY <1>3, <1>4 DEF Queued
<1> QED  BY <1>1, <1>3, <1>4, <1>5 DEF Sound, Grown, st

LEMMA XCommit ==
    ASSUME XInv, NEW s \in Sessions, Commit(s)
    PROVE  XInv'
<1>1. txn[s].xid # 0 /\ rows' = Flushed(s).rows /\ End(s)
    BY DEF Commit, InTxn
<1>2. rows' \in Seq(RowIn(next_xid)) /\ Len(rows) <= Len(rows')
    BY <1>1, XFlushed DEF StateIn
<1> QED  BY <1>1, <1>2, XEnd

LEMMA XFails ==
    ASSUME XInv, NEW s \in Sessions, CommitFails(s)
    PROVE  XInv'
<1> DEFINE f == Flushed(s)
           st == Fail(f)
           t == RanTxn(txn[s], st, FALSE)
           d == [queue |-> st.queue, modes |-> st.modes]
<1>1. /\ txn[s].xid # 0 /\ rows' = f.rows
      /\ deferred' = [deferred EXCEPT ![s] = [queue |-> f.queue, modes |-> f.modes]]
      /\ txn' = [txn EXCEPT ![s].writes = @ \o f.ops, ![s].failed = TRUE]
      /\ fk' = fk /\ next_xid' = next_xid /\ active' = active /\ statements' = statements
    BY DEF CommitFails, InTxn
<1>2. f \in StateIn(next_xid) /\ Len(rows) <= Len(f.rows) /\ Queued(f.queue, f.rows)
    BY XFlushed
<1> HIDE DEF f
<1>3. /\ st \in StateIn(next_xid) /\ st.rows = f.rows /\ st.ops = f.ops /\ st.ok = FALSE
      /\ st.queue = f.queue /\ st.modes = f.modes
    BY <1>2 DEF Fail, StateIn
<1> HIDE DEF st
<1>4. txn' = [txn EXCEPT ![s] = t]
  <2>1. txn \in [Sessions -> TxnIn(next_xid)] /\ txn[s].deletes \in BOOLEAN
      BY XFacts DEF TxnIn
  <2> QED  BY <1>1, <1>3, <2>1 DEF RanTxn, TxnIn
<1>5. t \in TxnIn(next_xid) /\ Scoped(t) /\ all_xids(t) = all_xids(txn[s]) /\ t.xid = txn[s].xid
    BY <1>1, <1>3, XFacts, RanIn
<1> HIDE DEF t
<1>6. Owned(active', txn')
  <2>1. Held(t) = Held(txn[s]) /\ active' = active
      BY <1>1, <1>5 DEF Held
  <2> QED  BY <1>4, <2>1, XFacts, OwnedKept
<1>7. d \in DeferralIn /\ Queued(d.queue, rows') /\ deferred' = [deferred EXCEPT ![s] = d]
    BY <1>1, <1>2, <1>3, DeferralOf
<1>8. rows' \in Seq(RowIn(next_xid')) /\ next_xid' \in Nat /\ next_xid <= next_xid'
      /\ Len(rows) <= Len(rows') /\ statements' \in Nat
    BY <1>1, <1>2, XFacts DEF StateIn
<1> HIDE DEF d
<1> QED  BY <1>1, <1>4, <1>5, <1>6, <1>7, <1>8, XStep

LEMMA XRejected ==
    ASSUME XInv, NEW s \in Sessions, CommitRejected(s)
    PROVE  XInv'
<1> DEFINE st == Flushed(s)
           ops == txn[s].writes \o st.ops
<1>1. txn[s].xid # 0 /\ rows' = undo_all(st.rows, all_xids(txn[s]), ops) /\ End(s)
    BY DEF CommitRejected, InTxn
<1>2. st \in StateIn(next_xid) /\ Len(rows) <= Len(st.rows)
    BY XFlushed
<1>3. ops \in Seq(OpIn(next_xid))
  <2>1. txn[s].writes \in Seq(OpIn(next_xid)) /\ st.ops \in Seq(OpIn(next_xid))
      BY <1>2, XFacts DEF StateIn, TxnIn
  <2> QED  BY <2>1, ConcatProperties
<1> HIDE DEF st, ops
<1>4. rows' \in Seq(RowIn(next_xid)) /\ Len(rows) <= Len(rows')
    BY <1>1, <1>2, <1>3, XFacts, XUndone
<1> QED  BY <1>1, <1>4, XEnd

LEMMA XRollback ==
    ASSUME XInv, NEW s \in Sessions, txn_rollback(s)
    PROVE  XInv'
<1>1. txn[s].xid # 0 /\ rows' = undo_all(rows, all_xids(txn[s]), txn[s].writes) /\ End(s)
    BY DEF txn_rollback, InTxn
<1>2. txn[s].writes \in Seq(OpIn(next_xid))
    BY XFacts DEF TxnIn
<1>3. rows' \in Seq(RowIn(next_xid)) /\ Len(rows) <= Len(rows')
    BY <1>1, <1>2, XFacts, UndoIn
<1> QED  BY <1>1, <1>3, XEnd

LEMMA XSavepoint ==
    ASSUME XInv, NEW s \in Sessions, txn_savepoint(s)
    PROVE  XInv'
<1> DEFINE mark == [writes |-> Len(txn[s].writes), queue |-> Len(deferred[s].queue),
                    modes |-> deferred[s].modes]
           t == SavedTxn(txn[s], mark, next_xid)
           d == deferred[s]
<1>1. /\ txn[s].xid # 0 /\ next_xid' = next_xid + 1 /\ active' = active \cup {next_xid}
      /\ fk' = fk /\ rows' = rows /\ deferred' = deferred /\ statements' = statements
    BY DEF txn_savepoint, InTxn
<1>2. txn' = [txn EXCEPT ![s] = t]
  <2>1. txn' = [txn EXCEPT ![s].saves = Append(@, mark), ![s].sub_xids = Append(@, next_xid),
                           ![s].owned_xids = @ \cup {next_xid}]
      BY DEF txn_savepoint
  <2> HIDE DEF mark
  <2> QED  BY <2>1, XFacts DEF SavedTxn
<1>3. mark \in MarkIn /\ mark.writes = Len(txn[s].writes)
  <2>1. txn[s].writes \in Seq(OpIn(next_xid)) /\ deferred[s].queue \in Seq(PendingFk)
        /\ deferred[s].modes \in Seq(BOOLEAN)
      BY XFacts DEF TxnIn, DeferralIn
  <2>2. Len(txn[s].writes) \in Nat /\ Len(deferred[s].queue) \in Nat
      BY <2>1
  <2> QED  BY <2>1, <2>2 DEF MarkIn
<1> HIDE DEF mark
<1>4. /\ t \in TxnIn(next_xid') /\ Scoped(t) /\ t.xid = txn[s].xid
      /\ all_xids(t) = all_xids(txn[s]) \cup {next_xid}
    BY <1>1, <1>3, XFacts, SavedIn
<1> HIDE DEF t
<1>5. Owned(active', txn')
  <2>1. Held(t) = Held(txn[s]) \cup {next_xid}
      BY <1>1, <1>4 DEF Held
  <2> QED  BY <1>1, <1>2, <2>1, XFacts, OwnedGrows
<1>6. rows' \in Seq(RowIn(next_xid'))
  <2>1. RowIn(next_xid) \subseteq RowIn(next_xid')
      BY <1>1, XFacts, Wider
  <2> QED  BY <1>1, <2>1, XFacts, SeqWider
<1>7. deferred' = [deferred EXCEPT ![s] = d] /\ next_xid' \in Nat /\ next_xid <= next_xid'
      /\ Len(rows) <= Len(rows') /\ d \in DeferralIn /\ Queued(d.queue, rows') /\ statements' \in Nat
    BY <1>1, XFacts
<1> HIDE DEF d
<1> QED  BY <1>1, <1>2, <1>4, <1>5, <1>6, <1>7, XStep

(* The queue kept by a savepoint's mark. *)
LEMMA RestoreIn ==
    ASSUME NEW d \in DeferralIn, NEW mark \in MarkIn
    PROVE  /\ deferred_restore(d, mark) \in DeferralIn
           /\ \E n \in 0 .. Len(d.queue) :
                 /\ n = IF Len(d.queue) <= mark.queue THEN Len(d.queue) ELSE mark.queue
                 /\ deferred_restore(d, mark).queue = SubSeq(d.queue, 1, n)
                 /\ Len(deferred_restore(d, mark).queue) = n
                 /\ \A i \in 1 .. n : deferred_restore(d, mark).queue[i] = d.queue[i]
           /\ deferred_restore(d, mark).modes = mark.modes
<1> DEFINE l == Len(d.queue)
           m == mark.queue
           n == Min({l, m})
<1>1. d.queue \in Seq(PendingFk) /\ l \in Nat /\ m \in Nat /\ mark.modes \in Seq(BOOLEAN)
    BY DEF DeferralIn, MarkIn
<1>2. n = IF l <= m THEN l ELSE m
  <2>1. n = CHOOSE x \in {l, m} : \A y \in {l, m} : x <= y
      BY DEF Min
  <2> HIDE DEF n
  <2>2. CASE l <= m
    <3>1. \A x \in {l, m} : (\A y \in {l, m} : x <= y) <=> x = l
        BY <1>1, <2>2
    <3> QED  BY <2>1, <2>2, <3>1
  <2>3. CASE ~(l <= m)
    <3>1. \A x \in {l, m} : (\A y \in {l, m} : x <= y) <=> x = m
        BY <1>1, <2>3
    <3> QED  BY <2>1, <2>3, <3>1
  <2> QED  BY <2>2, <2>3
<1>3. n \in 0 .. l
    BY <1>1, <1>2
<1> DEFINE q == SubSeq(d.queue, 1, n)
<1>4. q \in Seq(PendingFk) /\ Len(q) = n /\ \A i \in 1 .. n : q[i] = d.queue[i]
    BY <1>1, <1>3, PrefixIs
<1>5. deferred_restore(d, mark) = [queue |-> q, modes |-> mark.modes]
    BY DEF deferred_restore
<1> DEFINE r == deferred_restore(d, mark)
<1>6. r.queue = q /\ r.modes = mark.modes /\ r \in DeferralIn
  <2> HIDE DEF q
  <2> QED  BY <1>1, <1>4, <1>5 DEF DeferralIn
<1>7. n = IF Len(d.queue) <= mark.queue THEN Len(d.queue) ELSE mark.queue
    BY <1>2
<1> HIDE DEF n, r
<1>8. /\ n \in 0 .. Len(d.queue) /\ r.queue = SubSeq(d.queue, 1, n) /\ Len(r.queue) = n
      /\ \A i \in 1 .. n : r.queue[i] = d.queue[i]
    BY <1>3, <1>4, <1>6
<1> QED  BY <1>6, <1>7, <1>8 DEF r

LEMMA XRollbackTo ==
    ASSUME XInv, NEW s \in Sessions, txn_rollback_to(s)
    PROVE  XInv'
<1> DEFINE mark == Last(txn[s].saves)
           w == mark.writes
           ops == SubSeq(txn[s].writes, w + 1, Len(txn[s].writes))
           t == CutTxn(txn[s], w, next_xid)
           d == deferred_restore(deferred[s], mark)
<1>1. /\ txn[s].xid # 0 /\ txn[s].saves # <<>>
      /\ next_xid' = next_xid + 1 /\ active' = active \cup {next_xid}
      /\ fk' = fk /\ statements' = statements
      /\ rows' = undo_all(rows, all_xids(txn[s]), ops)
    BY DEF txn_rollback_to, InTxn
<1>2. txn' = [txn EXCEPT ![s] = t]
  <2>1. txn' = [txn EXCEPT ![s].writes = SubSeq(@, 1, w), ![s].sub_xids = Append(Front(@), next_xid),
                           ![s].owned_xids = @ \cup {next_xid}, ![s].failed = FALSE]
      BY DEF txn_rollback_to
  <2> HIDE DEF mark, w
  <2> QED  BY <2>1, XFacts DEF CutTxn
<1>3. deferred' = [deferred EXCEPT ![s] = d]
  <2>1. deferred' = [deferred EXCEPT ![s] = deferred_restore(@, mark)]
      BY DEF txn_rollback_to
  <2> HIDE DEF mark
  <2> QED  BY <2>1, XFacts
<1>4. mark \in MarkIn
  <2>1. txn[s].saves \in Seq(MarkIn)
      BY XFacts DEF TxnIn
  <2> QED  BY <1>1, <2>1, FrontIs
<1>5. /\ t \in TxnIn(next_xid') /\ Scoped(t) /\ t.xid = txn[s].xid
      /\ all_xids(t) = all_xids(txn[s]) \cup {next_xid}
      /\ w \in 0 .. Len(txn[s].writes)
    BY <1>1, XFacts, CutIn
<1>6. ops \in Seq(OpIn(next_xid))
  <2>1. txn[s].writes \in Seq(OpIn(next_xid))
      BY XFacts DEF TxnIn
  <2> DEFINE q == txn[s].writes
             T == OpIn(next_xid)
  <2>2. q \in Seq(T) /\ w \in 0 .. Len(q)
      BY <1>5, <2>1
  <2> HIDE DEF q, w, T
  <2>3. SubSeq(q, w + 1, Len(q)) \in Seq(T)
      BY <2>2
  <2> QED  BY <2>3 DEF q, T
<1>7. d \in DeferralIn /\ Queued(d.queue, rows)
  <2> HIDE DEF mark
  <2>1. d \in DeferralIn
      BY <1>4, XFacts, RestoreIn
  <2>2. PICK n \in 0 .. Len(deferred[s].queue) :
            Len(d.queue) = n /\ \A i \in 1 .. n : d.queue[i] = deferred[s].queue[i]
      BY <1>4, XFacts, RestoreIn
  <2>3. Queued(deferred[s].queue, rows) /\ Len(deferred[s].queue) \in Nat
      BY XFacts DEF DeferralIn
  <2> HIDE DEF d
  <2>4. \A i \in 1 .. n : i \in 1 .. Len(deferred[s].queue)
      BY <2>3
  <2> QED  BY <2>1, <2>2, <2>3, <2>4 DEF Queued
<1> HIDE DEF t, d, mark, w, ops
<1>8. Owned(active', txn')
  <2>1. Held(t) = Held(txn[s]) \cup {next_xid}
      BY <1>1, <1>5 DEF Held
  <2> QED  BY <1>1, <1>2, <2>1, XFacts, OwnedGrows
<1>9. rows' \in Seq(RowIn(next_xid)) /\ Len(rows') = Len(rows)
    BY <1>1, <1>6, XFacts, UndoIn
<1>10. rows' \in Seq(RowIn(next_xid'))
  <2>1. RowIn(next_xid) \subseteq RowIn(next_xid')
      BY <1>1, XFacts, Wider
  <2> QED  BY <1>9, <2>1, SeqWider
<1>11. next_xid' \in Nat /\ next_xid <= next_xid' /\ Len(rows) <= Len(rows')
       /\ Queued(d.queue, rows') /\ statements' \in Nat
    BY <1>1, <1>7, <1>9, XFacts DEF Queued
<1> QED  BY <1>1, <1>2, <1>3, <1>5, <1>7, <1>8, <1>10, <1>11, XStep

LEMMA XRelease ==
    ASSUME XInv, NEW s \in Sessions, txn_release(s)
    PROVE  XInv'
<1> DEFINE t == ReleasedTxn(txn[s])
           d == deferred[s]
<1>1. /\ txn[s].xid # 0 /\ txn[s].saves # <<>>
      /\ next_xid' = next_xid /\ active' = active /\ fk' = fk /\ rows' = rows
      /\ deferred' = deferred /\ statements' = statements
    BY DEF txn_release, InTxn
<1>2. txn' = [txn EXCEPT ![s] = t]
    BY XFacts DEF txn_release, ReleasedTxn
<1>3. t \in TxnIn(next_xid') /\ Scoped(t) /\ t.xid = txn[s].xid /\ all_xids(t) = all_xids(txn[s])
    BY <1>1, XFacts, ReleasedIn
<1> HIDE DEF t
<1>4. Owned(active', txn')
  <2>1. Held(t) = Held(txn[s])
      BY <1>3 DEF Held
  <2> QED  BY <1>1, <1>2, <2>1, XFacts, OwnedKept
<1>5. /\ deferred' = [deferred EXCEPT ![s] = d] /\ d \in DeferralIn /\ Queued(d.queue, rows')
      /\ next_xid' \in Nat /\ next_xid <= next_xid' /\ rows' \in Seq(RowIn(next_xid'))
      /\ Len(rows) <= Len(rows') /\ statements' \in Nat
    BY <1>1, XFacts
<1> HIDE DEF d
<1> QED  BY <1>1, <1>2, <1>3, <1>4, <1>5, XStep

(* Both loaded versions of a key carry it, and transaction 1 wrote them.      *)
LEMMA LoadedIn ==
    ASSUME NEW q \in Loads
    PROVE  /\ LoadedRows(q) \in Seq(RowIn(2)) /\ Len(LoadedRows(q)) = 2 * Len(q)
           /\ q \in Seq(Keys) /\ Len(q) \in Nat
           /\ \A i, j \in 1 .. Len(q) : q[i] = q[j] => i = j
           /\ \A id \in 1 .. Len(q) : LoadedRows(q)[id] = Row("parent", q[id], 1)
           /\ \A id \in Len(q) + 1 .. 2 * Len(q) :
                 LoadedRows(q)[id] = Row("child", q[id - Len(q)], 1)
<1> DEFINE n == Cardinality(Loaded)
           R == LoadedRows(q)
<1>1. n \in Nat
    BY ForeignKeysAssumption, FS_CardinalityType
<1>2. q \in [1 .. n -> Loaded] /\ \A i, j \in DOMAIN q : q[i] = q[j] => i = j
    BY DEF Loads
<1> HIDE DEF n
<1>3. q \in Seq(Loaded) /\ Len(q) = n /\ DOMAIN q = 1 .. n
    BY <1>1, <1>2
<1>4. q \in Seq(Keys) /\ \A i \in 1 .. n : q[i] \in Keys
  <2>1. Loaded \subseteq Keys
      BY ForeignKeysAssumption
  <2> QED  BY <1>2, <1>3, <2>1, SeqWider
<1>5. /\ \A id \in 1 .. 2 * n : R[id] = IF id <= n THEN Row("parent", q[id], 1)
                                       ELSE Row("child", q[id - n], 1)
      /\ DOMAIN R = 1 .. 2 * n
    BY <1>3 DEF LoadedRows
<1>6. R = [id \in 1 .. 2 * n |-> R[id]]
    BY <1>3 DEF LoadedRows
<1> HIDE DEF R
<1>7. /\ \A id \in 1 .. n : R[id] = Row("parent", q[id], 1)
      /\ \A id \in n + 1 .. 2 * n : R[id] = Row("child", q[id - n], 1)
    BY <1>1, <1>5
<1>8. \A id \in 1 .. 2 * n : R[id] \in RowIn(2)
  <2>1. \A key \in Keys, tb \in {"parent", "child"} : Row(tb, key, 1) \in RowIn(2)
      BY DEF Row, RowIn
  <2>2. \A id \in 1 .. 2 * n : id \in 1 .. n \/ (id \in n + 1 .. 2 * n /\ id - n \in 1 .. n)
      BY <1>1
  <2> QED  BY <1>4, <1>7, <2>1, <2>2
<1>9. R \in Seq(RowIn(2)) /\ Len(R) = 2 * n
  <2>1. 2 * n \in Nat
      BY <1>1
  <2>2. R \in [1 .. 2 * n -> RowIn(2)]
      BY <1>5, <1>6, <1>8
  <2> QED  BY <2>1, <2>2
<1> QED  BY <1>1, <1>2, <1>3, <1>4, <1>7, <1>9 DEF R

LEMMA XInit ==
    ASSUME Init
    PROVE  XInv
<1>1. /\ fk \in Constraints /\ next_xid = 2 /\ active = {}
      /\ txn = [s \in Sessions |-> NoTxn] /\ deferred = [s \in Sessions |-> Default]
      /\ statements = 0 /\ rows \in Seq(RowIn(2))
    BY LoadedIn DEF Init
<1>2. NoTxn \in TxnIn(2) /\ Scoped(NoTxn) /\ Held(NoTxn) = {}
    BY NoTxnIn DEF Held
<1>3. Shape(next_xid, rows, txn, deferred)
    BY <1>1, <1>2, DefaultIn DEF Shape
<1>4. Owned(active, txn)
    BY <1>1, <1>2 DEF Owned
<1>5. \A s \in Sessions : Scoped(txn[s])
    BY <1>1, <1>2
<1> QED  BY <1>1, <1>3, <1>4, <1>5 DEF XInv

LEMMA XNext ==
    ASSUME XInv, [Next]_vars
    PROVE  XInv'
<1>1. CASE UNCHANGED vars
    BY <1>1 DEF vars, XInv
<1>2. ASSUME NEW s \in Sessions,
             \/ txn_begin(s) \/ Commit(s) \/ CommitFails(s) \/ CommitRejected(s)
             \/ txn_rollback(s)
             \/ txn_savepoint(s) \/ txn_rollback_to(s) \/ txn_release(s)
      PROVE  XInv'
    BY <1>2, XBegin, XCommit, XFails, XRejected, XRollback, XSavepoint, XRollbackTo, XRelease
<1>3. ASSUME NEW s \in Sessions, NEW q \in Statements, txn_execute(s, q) \/ autocommit_execute(s, q)
      PROVE  XInv'
    BY <1>3, XExecute, XAutocommit
<1>4. ASSUME NEW s \in Sessions, NEW k \in Keys, copy_from_ingest(s, k)
      PROVE  XInv'
    BY <1>4, XCopy
<1> QED  BY <1>1, <1>2, <1>3, <1>4 DEF Next

LEMMA XAlways == Spec => []XInv
<1>1. Init => XInv
    BY XInit
<1>2. XInv /\ [Next]_vars => XInv'
    BY XNext
<1> QED  BY <1>1, <1>2, PTL DEF Spec

(* Versions carry keys of the domain and xids that were handed out; active is *)
(* the open transactions' xids; each savepoint has its sub-xid, and its mark   *)
(* lies within the write log (txn_savepoint, txn_rollback_to, txn_release).    *)
THEOREM TypesHold == Spec => []TypeOK
<1>1. ASSUME XInv PROVE TypeOK
  <2>1. ASSUME NEW id \in DOMAIN rows
        PROVE  /\ rows[id].table \in {"parent", "child", "none"}
               /\ rows[id].key \in Keys \cup {Null}
               /\ rows[id].xmin < next_xid /\ rows[id].xmax < next_xid
    <3>1. rows[id] \in RowIn(next_xid) /\ next_xid \in Nat
        BY <1>1, XFacts
    <3> QED  BY <3>1 DEF RowIn
  <2>2. active = UNION {all_xids(txn[s]) : s \in {o \in Sessions : InTxn(o)}}
      BY <1>1, XFacts DEF Owned, Held, InTxn
  <2>3. ASSUME NEW s \in Sessions
        PROVE  /\ Len(txn[s].saves) = Len(txn[s].sub_xids)
               /\ \A i \in DOMAIN txn[s].saves : txn[s].saves[i].writes <= Len(txn[s].writes)
    <3>1. txn[s].saves \in Seq(MarkIn) /\ Scoped(txn[s])
        BY <1>1, XFacts DEF TxnIn
    <3> QED  BY <3>1 DEF Scoped
  <2> QED  BY <2>1, <2>2, <2>3 DEF TypeOK
<1> QED  BY <1>1, XAlways, PTL


-----------------------------------------------------------------------------
(* The deferred state between transactions.                                  *)

CopyRow(key) == [kind |-> "insert child", key |-> key]

LEMMA CopyFails ==
    ASSUME NEW N \in Nat, NEW st \in StateIn(N), st.ok, NEW c, c.write_xid \in 0 .. N - 1,
           NEW key \in Keys, ~execute(CopyRow(key), st, c).ok, Queued(st.queue, st.rows)
    PROVE  execute(CopyRow(key), st, c) = Fail(st)
<1> DEFINE q == CopyRow(key)
           checked == check_fk_child_row(st, c, key)
           x == Insert(checked, c, "child", key)
<1>1. execute(q, st, c) = IF checked.ok THEN x ELSE checked
    BY DEF execute, CopyRow
<1>2. checked = st \/ checked = Enqueue(st, Pending("child", key, 0)) \/ checked = Fail(st)
    BY DEF check_fk_child_row, queue_child_fk, Enqueue
<1>3. ~Fail(st).ok
    BY FailIn
<1>4. ASSUME checked \in StateIn(N) PROVE x.ok = checked.ok
  <2>1. WroteOp(checked, x, InsertOp(checked))
      BY <1>4, InsertIn
  <2> HIDE DEF x, checked
  <2> QED  BY <2>1 DEF WroteOp
<1>5. CASE checked = st
    BY <1>1, <1>4, <1>5
<1>6. CASE checked = Enqueue(st, Pending("child", key, 0))
  <2> DEFINE e == Pending("child", key, 0)
  <2>1. Enqueue(st, e).ok = st.ok /\ Enqueue(st, e) \in StateIn(N)
    <3>1. e \in PendingFk /\ e.side # "parent"
        BY DEF Pending, PendingFk
    <3> HIDE DEF e
    <3> QED  BY <3>1, QueueIn DEF Sound
  <2> QED  BY <1>1, <1>4, <1>6, <2>1
<1>7. CASE checked = Fail(st)
    BY <1>1, <1>3, <1>7
<1> QED  BY <1>2, <1>5, <1>6, <1>7

LEMMA LeftNothing ==
    ASSUME XInv, NothingLeftOver, NEW s \in Sessions, NEW t, NEW d,
           txn' = [txn EXCEPT ![s] = t], deferred' = [deferred EXCEPT ![s] = d],
           t.xid # 0 \/ d = Default
    PROVE  NothingLeftOver'
<1>1. txn \in [Sessions -> TxnIn(next_xid)] /\ deferred \in [Sessions -> DeferralIn]
    BY XFacts
<1>2. ASSUME NEW o \in Sessions PROVE txn'[o].xid = 0 => deferred'[o] = Default
  <2>1. CASE o = s
      BY <1>1, <2>1
  <2>2. CASE o # s
      BY <1>1, <2>2 DEF NothingLeftOver, InTxn
  <2> QED  BY <2>1, <2>2
<1> QED  BY <1>2 DEF NothingLeftOver, InTxn

(* Between transactions a session has nothing queued and no SET CONSTRAINTS    *)
(* mode (deferred_clear), unless a COPY failed after it queued a check: every  *)
(* end of a transaction clears both, and a failed first row queues nothing.   *)
THEOREM NothingIsLeftOver ==
    ASSUME "copy" \notin Quirks
    PROVE  Spec => []NothingLeftOver
<1>1. Init => NothingLeftOver
    BY DEF Init, NothingLeftOver
<1>2. ASSUME XInv, NothingLeftOver, [Next]_vars PROVE NothingLeftOver'
  <2>1. CASE UNCHANGED vars
      BY <1>2, <2>1 DEF vars, NothingLeftOver, InTxn
  <2>2. ASSUME NEW s \in Sessions, NEW t, txn' = [txn EXCEPT ![s] = t], deferred' = deferred, t.xid # 0
        PROVE  NothingLeftOver'
    <3> DEFINE d == deferred[s]
    <3>1. deferred' = [deferred EXCEPT ![s] = d]
        BY <2>2, <1>2, XFacts
    <3> HIDE DEF d
    <3> QED  BY <1>2, <2>2, <3>1, LeftNothing
  <2>3. ASSUME NEW s \in Sessions, txn_begin(s) PROVE NothingLeftOver'
    <3> DEFINE t == BegunTxn(next_xid)
    <3>1. txn' = [txn EXCEPT ![s] = t] /\ deferred' = deferred
        BY <2>3 DEF txn_begin, BegunTxn
    <3>2. t.xid # 0
        BY <1>2, XFacts DEF BegunTxn, NoTxn
    <3> HIDE DEF t
    <3> QED  BY <2>2, <3>1, <3>2
  <2>4. ASSUME NEW s \in Sessions, End(s) PROVE NothingLeftOver'
      BY <1>2, <2>4, LeftNothing DEF End
  <2>5. ASSUME NEW s \in Sessions, NEW q \in Statements, txn_execute(s, q) PROVE NothingLeftOver'
    <3> DEFINE st == execute(q, Start(deferred[s]), TxnCtx(s))
               dl == q.kind = "delete"
               t == RanTxn(txn[s], st, dl)
               d == [queue |-> st.queue, modes |-> st.modes]
    <3>1. deferred' = [deferred EXCEPT ![s] = d] /\ txn[s].xid # 0
        BY <2>5 DEF txn_execute, InTxn
    <3>2. txn' = [txn EXCEPT ![s].writes = @ \o st.ops, ![s].failed = ~st.ok, ![s].deletes = @ \/ dl]
        BY <2>5 DEF txn_execute
    <3>3. txn \in [Sessions -> TxnIn(next_xid)] /\ txn[s] \in TxnIn(next_xid)
        BY <1>2, XFacts
    <3> HIDE DEF st, dl
    <3>4. txn' = [txn EXCEPT ![s] = t]
        BY <3>2, <3>3 DEF RanTxn
    <3>5. t.xid # 0
        BY <3>1, <3>3 DEF RanTxn, TxnIn
    <3> HIDE DEF t, d
    <3> QED  BY <1>2, <3>1, <3>4, <3>5, LeftNothing
  <2>6. ASSUME NEW s \in Sessions, deferred' = [deferred EXCEPT ![s] = Default], txn' = txn
        PROVE  NothingLeftOver'
    <3> DEFINE t == txn[s]
    <3>1. txn' = [txn EXCEPT ![s] = t]
        BY <2>6, <1>2, XFacts
    <3> HIDE DEF t
    <3> QED  BY <1>2, <2>6, <3>1, LeftNothing
  <2>7. ASSUME NEW s \in Sessions, NEW q \in Statements, autocommit_execute(s, q) PROVE NothingLeftOver'
      BY <2>6, <2>7 DEF autocommit_execute
  <2>8. ASSUME NEW s \in Sessions, NEW k \in Keys, copy_from_ingest(s, k) PROVE NothingLeftOver'
    <3> DEFINE q == CopyRow(k)
               st == Start(deferred[s])
               ran == execute(q, st, AutoCtx)
    <3>1. /\ txn[s].xid = 0 /\ txn' = txn
          /\ \/ deferred' = [deferred EXCEPT ![s] = Default]
             \/ ~ran.ok /\ deferred' = [deferred EXCEPT ![s].queue = ran.queue]
        BY <2>8 DEF copy_from_ingest, InTxn, CopyRow
    <3>2. CASE ~ran.ok /\ deferred' = [deferred EXCEPT ![s].queue = ran.queue]
      <4>1. /\ st \in StateIn(next_xid) /\ st.ok /\ st.queue = deferred[s].queue
            /\ Queued(st.queue, st.rows)
          BY <1>2, StartIn DEF XInv
      <4>2. st \in StateIn(next_xid + 1)
          BY <1>2, <4>1, AutoCtxIs, XFacts, Wider
      <4>3. AutoCtx.write_xid \in 0 .. (next_xid + 1) - 1 /\ next_xid + 1 \in Nat
          BY <1>2, AutoCtxIs
      <4>4. ran = Fail(st)
        <5> HIDE DEF st
        <5> QED  BY <3>2, <4>1, <4>2, <4>3, CopyFails
      <4>5. ran.queue = deferred[s].queue /\ deferred[s] = Default
          BY <1>2, <3>1, <4>1, <4>4 DEF Fail, NothingLeftOver, InTxn, StateIn
      <4> HIDE DEF ran
      <4>6. deferred' = [deferred EXCEPT ![s] = Default]
          BY <1>2, <3>2, <4>5, XFacts DEF Default
      <4> QED  BY <2>6, <3>1, <4>6
    <3> QED  BY <2>6, <3>1, <3>2
  <2>9. ASSUME NEW s \in Sessions, Commit(s) \/ CommitRejected(s) \/ txn_rollback(s)
        PROVE  NothingLeftOver'
      BY <2>4, <2>9 DEF Commit, CommitRejected, txn_rollback
  <2>10. ASSUME NEW s \in Sessions, txn_savepoint(s) \/ txn_release(s) PROVE NothingLeftOver'
    <3>1. \A o \in Sessions : txn[o] \in TxnIn(next_xid)
        BY <1>2, XFacts
    <3>2. deferred' = deferred
        BY <2>10 DEF txn_savepoint, txn_release
    <3>3. CASE txn_release(s)
      <4>1. \A o \in Sessions : txn'[o].xid = txn[o].xid
          BY <1>2, <3>1, <3>3, XFacts DEF txn_release, TxnIn
      <4> QED  BY <1>2, <3>2, <4>1 DEF NothingLeftOver, InTxn
    <3>4. CASE txn_savepoint(s)
      <4>1. \A o \in Sessions : txn'[o].xid = txn[o].xid
          BY <1>2, <3>1, <3>4, XFacts DEF txn_savepoint, TxnIn
      <4> QED  BY <1>2, <3>2, <4>1 DEF NothingLeftOver, InTxn
    <3> QED  BY <2>10, <3>3, <3>4
  <2>11. ASSUME NEW s \in Sessions, txn_rollback_to(s) PROVE NothingLeftOver'
    <3>1. /\ txn[s].xid # 0
          /\ \A o \in Sessions : txn'[o].xid = txn[o].xid
          /\ \A o \in Sessions : o # s => deferred'[o] = deferred[o]
        BY <1>2, <2>11, XFacts DEF txn_rollback_to, InTxn, TxnIn
    <3> QED  BY <1>2, <3>1 DEF NothingLeftOver, InTxn
  <2>12. ASSUME NEW s \in Sessions, CommitFails(s) PROVE NothingLeftOver'
    <3>1. /\ txn[s].xid # 0
          /\ \A o \in Sessions : txn'[o].xid = txn[o].xid
          /\ \A o \in Sessions : o # s => deferred'[o] = deferred[o]
        BY <1>2, <2>12, XFacts DEF CommitFails, InTxn, TxnIn
    <3> QED  BY <1>2, <3>1 DEF NothingLeftOver, InTxn
  <2> QED  BY <1>2, <2>1, <2>3, <2>5, <2>7, <2>8, <2>9, <2>10, <2>11, <2>12 DEF Next
<1> QED  BY <1>1, <1>2, XAlways, PTL DEF Spec

=============================================================================
