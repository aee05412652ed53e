------------------------------ MODULE WalProofs ------------------------------
(***************************************************************************)
(* wal.log and checkpoint.dat implement the durable log, for any number of  *)
(* batches, checkpoints, crashes, torn frames, failed writes and failed     *)
(* checkpoints.                                                             *)
(*                                                                         *)
(* The hypotheses name what the code does not cope with: an fsync of        *)
(* wal.log that fails, a header that cannot be written after the log was    *)
(* truncated, and commits that go on behind a damaged log.                  *)
(***************************************************************************)
EXTENDS Wal, TLAPS, SequenceTheorems

(* Frames that can all be read, and frames with at most the last one torn.  *)
Clean(items) == items \in Seq(Nat) /\ \A i \in 1..Len(items) : items[i] # Torn
Sound(items) == Clean(items) \/ \E q : Clean(q) /\ items = Append(q, Torn)

-----------------------------------------------------------------------------
(* What read_frame and replay make of a log. *)

(* The frames that can be read are those before the first torn one; it is   *)
(* enough to show a prefix that has the property Readable chooses by.       *)
LEMMA ReadableIs ==
    ASSUME NEW items \in Seq(Nat), NEW n \in 0..Len(items),
           \A i \in 1..n : items[i] # Torn,
           n < Len(items) => items[n + 1] = Torn
    PROVE  Readable(items) = SubSeq(items, 1, n)
<1> DEFINE First(m) == /\ \A i \in 1..m : items[i] # Torn
                       /\ m < Len(items) => items[m + 1] = Torn
<1>1. Len(items) \in Nat
    BY LenProperties
<1>2. n = CHOOSE m \in 0..Len(items) : First(m)
    <2>1. First(n)
        OBVIOUS
    <2>2. \A m \in 0..Len(items) : First(m) => m = n
        <3> SUFFICES ASSUME NEW m \in 0..Len(items), First(m), m # n PROVE FALSE
            OBVIOUS
        <3>1. CASE m < n
            BY <1>1, <3>1
        <3>2. CASE n < m
            BY <1>1, <3>2
        <3> QED
            BY <1>1, <3>1, <3>2
    <2> HIDE DEF First
    <2> QED
        BY <2>1, <2>2
<1> QED
    BY <1>2 DEF Readable

(* A log without a torn frame is read to its end. *)
LEMMA ReadableClean == ASSUME NEW q, Clean(q) PROVE Readable(q) = q
<1>1. q \in Seq(Nat) /\ Len(q) \in Nat
    BY LenProperties DEF Clean
<1>2. Readable(q) = SubSeq(q, 1, Len(q))
    BY <1>1, ReadableIs DEF Clean
<1> QED
    BY <1>1, <1>2, SubSeqFull

(* Without its last frame a log is what it was. *)
LEMMA PrefixOfAppend ==
    ASSUME NEW q \in Seq(Nat), NEW x \in Nat
    PROVE  SubSeq(Append(q, x), 1, Len(q)) = q
<1> DEFINE items == Append(q, x)
<1>1. /\ items \in Seq(Nat) /\ Len(items) = Len(q) + 1 /\ Len(q) \in Nat
      /\ \A i \in 1..Len(q) : items[i] = q[i]
    BY AppendProperties, LenProperties
<1> HIDE DEF items
<1>2. \A i \in 1..Len(q) : items[i] \in Nat
    BY <1>1, ElementOfSeq
<1>3. /\ SubSeq(items, 1, Len(q)) \in Seq(Nat)
      /\ Len(SubSeq(items, 1, Len(q))) = Len(q)
      /\ \A i \in 1..Len(q) : SubSeq(items, 1, Len(q))[i] = items[i]
    BY <1>1, <1>2, SubSeqProperties
<1>4. SubSeq(items, 1, Len(q)) = q
    BY <1>1, <1>3, SeqEqual
<1> QED
    BY <1>4 DEF items

(* A torn frame at the end is not read, and the log no longer clean. *)
LEMMA ReadableTorn ==
    ASSUME NEW q, Clean(q)
    PROVE  Readable(Append(q, Torn)) = q /\ ~Clean(Append(q, Torn))
<1> DEFINE items == Append(q, Torn)
<1>1. q \in Seq(Nat) /\ Len(q) \in Nat /\ Torn \in Nat
    BY LenProperties DEF Clean, Torn
<1>2. /\ items \in Seq(Nat) /\ Len(items) = Len(q) + 1
      /\ \A i \in 1..Len(q) : items[i] = q[i]
      /\ items[Len(q) + 1] = Torn
    BY <1>1, AppendProperties
<1>3. SubSeq(items, 1, Len(q)) = q
    BY <1>1, PrefixOfAppend
<1> HIDE DEF items
<1>4. Readable(items) = SubSeq(items, 1, Len(q))
    <2>1. Len(q) \in 0..Len(items) /\ \A i \in 1..Len(q) : items[i] # Torn
        BY <1>1, <1>2 DEF Clean
    <2> QED
        BY <1>2, <2>1, ReadableIs
<1>5. ~Clean(items)
    <2>1. Len(q) + 1 \in 1..Len(items)
        BY <1>1, <1>2
    <2> QED
        BY <1>2, <2>1 DEF Clean
<1> QED
    BY <1>3, <1>4, <1>5 DEF items

(* A sound log is read up to its torn frame. *)
LEMMA ReadableSound ==
    ASSUME NEW items, Sound(items)
    PROVE  items \in Seq(Nat) /\ Clean(Readable(items)) /\ Len(Readable(items)) <= Len(items)
<1>1. CASE Clean(items)
    BY <1>1, ReadableClean, LenProperties DEF Clean
<1>2. CASE \E q : Clean(q) /\ items = Append(q, Torn)
    <2>1. PICK q : Clean(q) /\ items = Append(q, Torn)
        BY <1>2
    <2>2. q \in Seq(Nat) /\ Torn \in Nat
        BY <2>1 DEF Clean, Torn
    <2>3. items \in Seq(Nat) /\ Len(items) = Len(q) + 1 /\ Len(q) \in Nat
        BY <2>1, <2>2, AppendProperties, LenProperties
    <2> QED
        BY <2>1, <2>3, ReadableTorn
<1> QED
    BY <1>1, <1>2 DEF Sound

(* What is replayed from a log w with a checkpoint c behind it: the image   *)
(* and the readable frames beyond its end.                                  *)
Rest(w, c) == SubSeq(Readable(w.items), Covered(w, c) + 1, Len(Readable(w.items)))

(* The number of covered frames is a number. *)
LEMMA CoveredNat == \A w \in WalFile, c \in Checkpoint : Covered(w, c) \in Nat
BY DEF WalFile, Checkpoint, Covered

(* Replay is the image followed by the rest of the log. *)
LEMMA ReplayIs ==
    ASSUME NEW w \in WalFile, Sound(w.items), NEW c \in Checkpoint
    PROVE  Replay(w, c) = c.image \o Rest(w, c) /\ Rest(w, c) \in Seq(Nat)
           /\ Replay(w, c) \in Seq(Nat)
<1> DEFINE frames == Readable(w.items)
           from == Covered(w, c) + 1
<1>1. frames \in Seq(Nat) /\ Len(frames) \in Nat
    BY ReadableSound, LenProperties DEF Clean
<1>2. from \in Nat /\ from >= 1
    BY CoveredNat
<1>3. \A i \in from..Len(frames) : frames[i] \in Nat
    <2> HIDE DEF frames, from
    <2> QED
        BY <1>1, <1>2, ElementOfSeq
<1>4. Rest(w, c) \in Seq(Nat)
    <2>1. Rest(w, c) = SubSeq(frames, from, Len(frames))
        BY DEF Rest
    <2> HIDE DEF frames, from
    <2> QED
        BY <1>1, <1>2, <1>3, <2>1, SubSeqProperties
<1>5. Replay(w, c) = c.image \o Rest(w, c)
    BY DEF Replay, Rest
<1> QED
    BY <1>4, <1>5, ConcatProperties DEF Checkpoint

(* A checkpoint that reaches the end of the log leaves nothing to replay.   *)
LEMMA ReplayCovered ==
    ASSUME NEW w \in WalFile, Sound(w.items), NEW c \in Checkpoint,
           c.end >= w.base + Len(w.items)
    PROVE  Replay(w, c) = c.image
<1>1. Len(w.items) \in Nat /\ Len(Readable(w.items)) \in Nat
    BY ReadableSound, LenProperties DEF Clean
<1>2. Covered(w, c) >= Len(w.items) /\ Covered(w, c) \in Nat
    BY <1>1, CoveredNat DEF Covered, WalFile, Checkpoint
<1>3. Len(Readable(w.items)) < Covered(w, c) + 1
    BY <1>1, <1>2, ReadableSound
<1>4. Rest(w, c) = <<>>
    BY <1>1, <1>2, <1>3, SubSeqEmpty DEF Rest
<1> QED
    BY <1>4, ReplayIs, ConcatEmptySeq DEF Checkpoint

(* A torn frame at the end of the log changes nothing. *)
LEMMA ReplayTorn ==
    ASSUME NEW w \in WalFile, NEW v \in WalFile, NEW c \in Checkpoint,
           Clean(w.items), v.base = w.base, v.items = Append(w.items, Torn)
    PROVE  Replay(v, c) = Replay(w, c)
<1>1. Readable(v.items) = Readable(w.items)
    BY ReadableTorn, ReadableClean
<1> QED
    BY <1>1 DEF Replay, Covered

(* A subsequence up to the end of a log grows with the log. *)
LEMMA SubSeqAppend ==
    ASSUME NEW q \in Seq(Nat), NEW x \in Nat, NEW k \in 0..Len(q)
    PROVE  SubSeq(Append(q, x), k + 1, Len(q) + 1) = Append(SubSeq(q, k + 1, Len(q)), x)
<1> DEFINE t == Append(q, x)
           n == Len(q)
<1>1. /\ n \in Nat /\ t \in Seq(Nat) /\ Len(t) = n + 1 /\ t[n + 1] = x
      /\ t = q \o <<x>> /\ <<x>> \in Seq(Nat)
    BY LenProperties, AppendProperties, AppendIsConcat
<1>2. SubSeq(q, k + 1, n) \in Seq(Nat)
    <2>1. \A i \in k + 1..n : q[i] \in Nat
        BY <1>1, ElementOfSeq
    <2> HIDE DEF n
    <2> QED
        BY <1>1, <2>1, SubSeqProperties
<1> HIDE DEF t
<1>3. SubSeq(t, k + 1, n + 1) = SubSeq(t, k + 1, n) \o <<x>>
    <2>1. k + 1 \in 1..Len(t) /\ n + 1 \in k + 1..Len(t) /\ (n + 1) - 1 = n
        BY <1>1
    <2> HIDE DEF n
    <2>2. SubSeq(t, k + 1, n + 1) = SubSeq(t, k + 1, (n + 1) - 1) \o <<t[n + 1]>>
        BY <1>1, <2>1, SubSeqRecursiveSecond
    <2> QED
        BY <1>1, <2>1, <2>2
<1>4. SubSeq(t, k + 1, n) = SubSeq(q, k + 1, n)
    <2>1. CASE k = n
        BY <1>1, <2>1, SubSeqEmpty
    <2>2. CASE k # n
        <3>1. k + 1 \in 1..Len(q) /\ n \in 1..Len(q)
            BY <1>1, <2>2
        <3> QED
            BY <1>1, <3>1, SubSeqOfConcat1
    <2> QED
        BY <2>1, <2>2
<1> QED
    BY <1>2, <1>3, <1>4, AppendIsConcat DEF t

(* Appending to the second part appends to the whole. *)
LEMMA ConcatAppend ==
    ASSUME NEW a \in Seq(Nat), NEW b \in Seq(Nat), NEW x \in Nat
    PROVE  a \o Append(b, x) = Append(a \o b, x)
<1> DEFINE n == Len(a)  m == Len(b)
           ab == a \o b
           bx == Append(b, x)
           l == a \o bx
           r == Append(ab, x)
<1>1. n \in Nat /\ m \in Nat
    BY LenProperties
<1>2. /\ bx \in Seq(Nat) /\ Len(bx) = m + 1 /\ bx[m + 1] = x
      /\ \A i \in 1..m : bx[i] = b[i]
    BY AppendProperties
<1>3. /\ ab \in Seq(Nat) /\ Len(ab) = n + m
      /\ \A i \in 1..n + m : ab[i] = IF i <= n THEN a[i] ELSE b[i - n]
    BY ConcatProperties
<1> HIDE DEF n, m, ab, bx
<1>4. /\ l \in Seq(Nat) /\ Len(l) = n + m + 1
      /\ \A i \in 1..n + m + 1 : l[i] = IF i <= n THEN a[i] ELSE bx[i - n]
    <2>1. /\ l \in Seq(Nat) /\ Len(l) = Len(a) + Len(bx)
          /\ \A i \in 1..Len(a) + Len(bx) : l[i] = IF i <= Len(a) THEN a[i] ELSE bx[i - Len(a)]
        BY <1>2, ConcatProperties
    <2> HIDE DEF l
    <2> QED
        BY <1>1, <1>2, <2>1, SMTT(20) DEF n
<1>5. /\ r \in Seq(Nat) /\ Len(r) = n + m + 1 /\ r[n + m + 1] = x
      /\ \A i \in 1..n + m : r[i] = ab[i]
    <2>1. /\ r \in Seq(Nat) /\ Len(r) = Len(ab) + 1 /\ r[Len(ab) + 1] = x
          /\ \A i \in 1..Len(ab) : r[i] = ab[i]
        BY <1>3, AppendProperties
    <2> HIDE DEF r
    <2> QED
        BY <1>1, <1>3, <2>1
<1> HIDE DEF l, r
<1>6. ASSUME NEW i \in 1..n + m + 1 PROVE l[i] = r[i]
    <2>1. CASE i = n + m + 1
        BY <1>1, <1>2, <1>4, <1>5, <2>1
    <2>2. CASE i \in 1..n + m
        <3>1. r[i] = ab[i] /\ i \in 1..n + m + 1
            BY <1>1, <1>5, <2>2
        <3>2. CASE i <= n
            BY <1>1, <1>3, <1>4, <2>2, <3>1, <3>2
        <3>3. CASE i > n
            <4>1. i - n \in 1..m
                BY <1>1, <2>2, <3>3
            <4>2. l[i] = bx[i - n] /\ ab[i] = b[i - n]
                BY <1>1, <1>3, <1>4, <2>2, <3>1, <3>3, SMTT(20)
            <4> QED
                BY <1>2, <3>1, <4>1, <4>2
        <3> QED
            BY <1>1, <3>1, <3>2, <3>3
    <2> QED
        BY <1>1, <2>1, <2>2
<1>7. l = r
    BY <1>1, <1>4, <1>5, <1>6, SeqEqual
<1> QED
    BY <1>7 DEF l, r, ab, bx

(* One more frame behind the checkpoint's end is one more batch replayed.   *)
LEMMA ReplayAppend ==
    ASSUME NEW w \in WalFile, NEW v \in WalFile, NEW c \in Checkpoint,
           Clean(w.items), NEW x \in Nat, x # Torn,
           v.base = w.base, v.items = Append(w.items, x),
           c.end <= w.base + Len(w.items)
    PROVE  Clean(v.items) /\ Replay(v, c) = Append(Replay(w, c), x)
<1> DEFINE k == Covered(w, c)
           n == Len(w.items)
<1>1. w.items \in Seq(Nat) /\ n \in Nat
    BY LenProperties DEF Clean
<1>2. k \in Nat /\ k <= n
    BY <1>1, CoveredNat, SMTT(20) DEF Covered, WalFile, Checkpoint
<1>3. /\ v.items \in Seq(Nat) /\ Len(v.items) = n + 1
      /\ \A i \in 1..n : v.items[i] = w.items[i]
      /\ v.items[n + 1] = x
    BY <1>1, AppendProperties
<1>4. Clean(v.items)
    BY <1>1, <1>3 DEF Clean
<1>5. /\ Rest(w, c) = SubSeq(w.items, k + 1, n)
      /\ Rest(v, c) = SubSeq(v.items, k + 1, n + 1)
    BY <1>3, <1>4, ReadableClean DEF Rest, Covered
<1>6. Rest(v, c) = Append(Rest(w, c), x)
    <2>1. k \in 0..Len(w.items)
        BY <1>1, <1>2
    <2> HIDE DEF k
    <2>2. SubSeq(Append(w.items, x), k + 1, Len(w.items) + 1)
            = Append(SubSeq(w.items, k + 1, Len(w.items)), x)
        BY <1>1, <2>1, SubSeqAppend
    <2> QED
        BY <1>5, <2>2
<1>7. Replay(w, c) = c.image \o Rest(w, c) /\ Rest(w, c) \in Seq(Nat)
      /\ Replay(w, c) \in Seq(Nat) /\ c.image \in Seq(Nat)
    BY ReplayIs DEF Sound, Checkpoint
<1>8. Replay(v, c) = c.image \o Append(Rest(w, c), x)
    BY <1>4, <1>6, ReplayIs DEF Sound
<1> QED
    BY <1>4, <1>7, <1>8, ConcatAppend, ZenonT(40)

-----------------------------------------------------------------------------
(* The inductive invariant. *)

(* Is wal.log still the file of its last fsync, or one that grew from it?   *)
Same == wal.hdr /\ wal.gen = wal_synced.gen

(* The frames of the log the process sees that a crash leaves in place.     *)
Stable == IF Same THEN wal_synced.items ELSE <<>>

(* Beyond them is the frame being appended, or what a failed write left.    *)
Beyond ==
    IF pc = "written"
    THEN Clean(Stable) /\ wal.items = Append(Stable, inflight)
    ELSE wal.items = Stable \/ (Clean(Stable) /\ wal.items = Append(Stable, Torn))

(* Each checkpoint file that may survive and the fsynced log make up db,    *)
(* and the log begins where the checkpoint ends or before.                  *)
SyncedLog ==
    /\ wal_synced.hdr /\ Sound(wal_synced.items)
    /\ wal_synced.base + Len(wal_synced.items) = current_lsn
    /\ \A c \in {ckpt, ckpt_synced} :
            /\ wal_synced.base <= c.end /\ c.end <= current_lsn
            /\ Replay(wal_synced, c) = db

(* While a reset is not fsynced, either checkpoint has everything.          *)
SeenLog ==
    /\ wal.hdr => Beyond
    /\ Same => wal.base = wal_synced.base
    /\ ~Same =>
        /\ \A c \in {ckpt, ckpt_synced} : c.image = db /\ c.end = current_lsn
        /\ wal.hdr => wal.base = current_lsn
        /\ ~wal.hdr => wal = NoHeader

(* Where a checkpoint has got to. *)
Checkpointing ==
    /\ wal.hdr <=> pc # "truncated"
    /\ pc \in {"renamed", "dir_synced", "truncated", "headed"} =>
            ckpt.end = current_lsn /\ ckpt.image = db /\ wal_synced.gen < begun
    /\ pc \in {"dir_synced", "truncated", "headed"} => ckpt_synced = ckpt
    /\ pc = "headed" => wal = Generation(ckpt.end, begun)

(* Nobody appends behind a torn frame. *)
Appending == inflight # 0 /\ pc = "idle" => Clean(wal.items)

(* What open() finds. *)
Downtime ==
    /\ wal_synced = wal /\ ckpt_synced = ckpt
    /\ Sound(wal.items)
    /\ wal.hdr => wal.base <= ckpt.end /\ ckpt.end <= wal.base + Len(wal.items)
    /\ ~wal.hdr => wal.items = <<>>

WInv ==
    /\ TypeOK
    /\ wal.gen <= begun /\ wal_synced.gen <= begun
    /\ pc # "down" => SyncedLog /\ SeenLog /\ Checkpointing /\ Appending
    /\ pc = "down" => Downtime

(* The stable part of the log and either checkpoint make up db. *)
LEMMA StableLog ==
    ASSUME WInv, pc # "down", wal.hdr, NEW c \in {ckpt, ckpt_synced}, NEW w \in WalFile,
           w.base = wal.base, w.items = Stable
    PROVE  /\ Sound(Stable) /\ Replay(w, c) = db
           /\ w.base <= c.end /\ c.end <= w.base + Len(Stable)
           /\ w.base + Len(Stable) = current_lsn
<1> USE DEF WInv
<1>1. c \in Checkpoint /\ base_lsn \in Nat /\ len \in Nat
    BY DEF TypeOK
<1>2. CASE Same
    <2>1. w.items = wal_synced.items /\ w.base = wal_synced.base
        BY <1>2 DEF SeenLog, Stable
    <2>2. Replay(w, c) = Replay(wal_synced, c)
        BY <2>1 DEF Replay, Covered
    <2> QED
        BY <1>2, <2>1, <2>2 DEF SyncedLog, Stable
<1>3. CASE ~Same
    <2>1. w.items = <<>> /\ w.base = current_lsn /\ c.image = db /\ c.end = current_lsn
        BY <1>3 DEF SeenLog, Stable
    <2>2. Sound(<<>>) /\ Len(<<>>) = 0
        BY EmptySeq DEF Sound, Clean
    <2>3. Replay(w, c) = db
        BY <1>1, <2>1, <2>2, ReplayCovered DEF current_lsn, Checkpoint
    <2> QED
        BY <1>1, <1>3, <2>1, <2>2, <2>3 DEF Stable, current_lsn
<1> QED
    BY <1>2, <1>3

-----------------------------------------------------------------------------
(* Init and append_batch. *)

(* The empty log is clean. *)
LEMMA EmptySound == Sound(<<>>) /\ Clean(<<>>) /\ Len(<<>>) = 0 /\ <<>> \in Seq(Nat)
BY EmptySeq DEF Sound, Clean

(* Init establishes the invariant. *)
LEMMA WInvInit == Init => WInv
<1> SUFFICES ASSUME Init PROVE WInv
    OBVIOUS
<1>1. /\ wal = [hdr |-> TRUE, gen |-> 0, base |-> 0, items |-> <<>>] /\ wal_synced = wal
      /\ ckpt = [end |-> 0, image |-> <<>>] /\ ckpt_synced = ckpt
      /\ db = <<>> /\ len = 0 /\ base_lsn = 0 /\ pc = "idle" /\ inflight = 0 /\ begun = 0
      /\ submitted = 0 /\ acked = <<>> /\ refused = {}
    BY DEF Init, Generation
<1>2. TypeOK
    BY <1>1, EmptySound DEF TypeOK, WalFile, Checkpoint
<1>3. Replay(wal_synced, ckpt) = <<>>
    BY <1>1, <1>2, EmptySound, ReplayCovered DEF TypeOK
<1>4. SyncedLog
    BY <1>1, <1>3, EmptySound DEF SyncedLog, current_lsn
<1>5. SeenLog
    BY <1>1 DEF SeenLog, Beyond, Stable, Same
<1>6. Checkpointing /\ Appending
    BY <1>1 DEF Checkpointing, Appending
<1> QED
    BY <1>1, <1>2, <1>4, <1>5, <1>6 DEF WInv

(* A commit is submitted to an undamaged log only. *)
LEMMA SubmitStep == ASSUME WInv, ~AppendBehindJunk, Submit PROVE WInv'
<1> USE DEF WInv
<1>1. /\ pc = "idle" /\ pc' = "idle" /\ inflight = 0 /\ inflight' = submitted + 1
      /\ UNCHANGED <<memory, files, history, begun>> /\ submitted' = submitted + 1 /\ ~Junk
    BY DEF Submit
<1>2. TypeOK'
    BY <1>1 DEF TypeOK, memory, files, history
<1>3. SyncedLog'
    BY <1>1 DEF SyncedLog, current_lsn, memory, files
<1>4. SeenLog'
    BY <1>1 DEF SeenLog, Beyond, Stable, Same, current_lsn, memory, files
<1>5. Checkpointing'
    BY <1>1 DEF Checkpointing, current_lsn, memory, files
<1>6. Appending'
    <2>1. wal.items \in Seq(Nat) /\ DOMAIN wal.items = 1..Len(wal.items)
        BY LenProperties DEF TypeOK, WalFile
    <2>2. Clean(wal.items)
        BY <1>1, <2>1 DEF Junk, Clean
    <2> QED
        BY <1>1, <2>2 DEF Appending, files
<1> QED
    BY <1>1, <1>2, <1>3, <1>4, <1>5, <1>6 DEF files

(* The frame goes behind the stable frames. *)
LEMMA WriteAllStep == ASSUME WInv, WriteAll PROVE WInv'
<1> USE DEF WInv
<1>1. /\ pc = "idle" /\ pc' = "written" /\ inflight # 0 /\ inflight' = inflight
      /\ wal' = [wal EXCEPT !.items = Append(@, inflight)]
      /\ UNCHANGED <<memory, wal_synced, ckpt, ckpt_synced, submitted, history, begun>>
    BY DEF WriteAll
<1>2. wal \in WalFile /\ wal.items \in Seq(Nat) /\ inflight \in Nat /\ wal.hdr
    BY <1>1 DEF TypeOK, WalFile, Checkpointing
<1>3. /\ wal' \in WalFile /\ wal'.hdr = wal.hdr /\ wal'.gen = wal.gen /\ wal'.base = wal.base
      /\ wal'.items = Append(wal.items, inflight)
    BY <1>1, <1>2, AppendProperties DEF WalFile
<1>4. Clean(wal.items) /\ wal.items = Stable
    BY <1>1, <1>2, ReadableTorn DEF Appending, SeenLog, Beyond
<1>5. TypeOK'
    BY <1>1, <1>3 DEF TypeOK, memory, history
<1>6. SyncedLog'
    BY <1>1 DEF SyncedLog, current_lsn, memory
<1>7. SeenLog'
    <2>1. Stable' = Stable /\ (Same' <=> Same)
        BY <1>1, <1>3 DEF Stable, Same
    <2>2. Beyond'
        BY <1>1, <1>3, <1>4, <2>1 DEF Beyond
    <2> QED
        BY <1>1, <1>2, <1>3, <2>1, <2>2 DEF SeenLog, current_lsn, memory
<1>8. Checkpointing' /\ Appending'
    BY <1>1, <1>3 DEF Checkpointing, Appending, current_lsn, memory
<1> QED
    BY <1>1, <1>3, <1>5, <1>6, <1>7, <1>8

(* A failed write leaves nothing, or a torn frame that nobody appends to.   *)
LEMMA WriteAllFailsStep == ASSUME WInv, WriteAllFails PROVE WInv'
<1> USE DEF WInv
<1>1. /\ pc = "idle" /\ pc' = "idle" /\ inflight # 0 /\ inflight' = 0
      /\ wal' = wal \/ wal' = [wal EXCEPT !.items = Append(@, Torn)]
      /\ refused' = refused \cup {inflight}
      /\ UNCHANGED <<memory, wal_synced, ckpt, ckpt_synced, submitted, acked, begun>>
    BY DEF WriteAllFails, Refuse
<1>2. /\ wal \in WalFile /\ wal.items \in Seq(Nat) /\ inflight \in Nat /\ Torn \in Nat
      /\ wal.hdr
    BY <1>1 DEF TypeOK, WalFile, Checkpointing, Torn
<1>3. /\ wal' \in WalFile /\ wal'.hdr = wal.hdr /\ wal'.gen = wal.gen /\ wal'.base = wal.base
      /\ wal'.items = wal.items \/ wal'.items = Append(wal.items, Torn)
    <2>1. CASE wal' = wal
        BY <1>2, <2>1
    <2>2. CASE wal' = [wal EXCEPT !.items = Append(@, Torn)]
        <3>1. Append(wal.items, Torn) \in Seq(Nat)
            BY <1>2, AppendProperties
        <3> QED
            BY <1>2, <2>2, <3>1 DEF WalFile
    <2> QED
        BY <1>1, <2>1, <2>2
<1>4. Clean(wal.items) /\ wal.items = Stable
    BY <1>1, <1>2, ReadableTorn DEF Appending, SeenLog, Beyond
<1>5. TypeOK'
    BY <1>1, <1>2, <1>3 DEF TypeOK, memory
<1>6. SyncedLog'
    BY <1>1 DEF SyncedLog, current_lsn, memory
<1>7. SeenLog'
    <2>1. Stable' = Stable /\ (Same' <=> Same)
        BY <1>1, <1>3 DEF Stable, Same
    <2>2. Beyond'
        BY <1>1, <1>3, <1>4, <2>1 DEF Beyond
    <2> QED
        BY <1>1, <1>2, <1>3, <2>1, <2>2 DEF SeenLog, current_lsn, memory
<1>8. Checkpointing' /\ Appending'
    BY <1>1, <1>3 DEF Checkpointing, Appending, current_lsn, memory
<1> QED
    BY <1>1, <1>3, <1>5, <1>6, <1>7, <1>8

(* The frame that is fsynced becomes a batch of db. *)
LEMMA SyncAllStep == ASSUME WInv, SyncAll PROVE WInv'
<1> USE DEF WInv
<1>1. /\ pc = "written" /\ pc' = "idle" /\ inflight' = 0 /\ wal_synced' = wal /\ wal' = wal
      /\ len' = len + 1 /\ db' = Append(db, inflight) /\ acked' = Append(acked, inflight)
      /\ UNCHANGED <<base_lsn, ckpt, ckpt_synced, submitted, refused, begun>>
    BY DEF SyncAll
<1>2. /\ wal \in WalFile /\ inflight \in Nat /\ inflight # Torn /\ wal.hdr
      /\ base_lsn \in Nat /\ len \in Nat
      /\ Clean(Stable) /\ Stable \in Seq(Nat) /\ wal.items = Append(Stable, inflight)
    BY <1>1 DEF TypeOK, Checkpointing, SeenLog, Beyond, Torn, Clean
<1>3. PICK w \in WalFile : w.base = wal.base /\ w.items = Stable
    <2>1. [wal EXCEPT !.items = Stable] \in WalFile
        BY <1>2 DEF WalFile
    <2> QED
        BY <1>2, <2>1 DEF WalFile
<1>4. \A c \in {ckpt, ckpt_synced} :
            /\ wal.base <= c.end /\ c.end <= current_lsn
            /\ Clean(wal.items) /\ Replay(wal, c) = Append(db, inflight)
    <2> SUFFICES ASSUME NEW c \in {ckpt, ckpt_synced}
                 PROVE  /\ wal.base <= c.end /\ c.end <= current_lsn
                        /\ Clean(wal.items) /\ Replay(wal, c) = Append(db, inflight)
        OBVIOUS
    <2>1. /\ Replay(w, c) = db /\ w.base <= c.end /\ c.end <= w.base + Len(Stable)
          /\ w.base + Len(Stable) = current_lsn
        BY <1>1, <1>2, <1>3, StableLog
    <2>2. c \in Checkpoint
        BY DEF TypeOK
    <2>3. Clean(wal.items) /\ Replay(wal, c) = Append(Replay(w, c), inflight)
        BY <1>2, <1>3, <2>1, <2>2, ReplayAppend
    <2> QED
        BY <1>3, <2>1, <2>3
<1>5. wal.base + Len(wal.items) = current_lsn + 1
    <2>1. w.base + Len(Stable) = current_lsn /\ Len(Stable) \in Nat
        BY <1>1, <1>2, <1>3, StableLog, LenProperties
    <2>2. Len(wal.items) = Len(Stable) + 1
        BY <1>2, AppendProperties
    <2>3. wal.base \in Nat /\ w.base = wal.base
        BY <1>2, <1>3 DEF WalFile
    <2> QED
        BY <2>1, <2>2, <2>3
<1>6. TypeOK'
    <2>1. db' \in Seq(Nat) /\ acked' \in Seq(Nat)
        BY <1>1, <1>2, AppendProperties DEF TypeOK
    <2> QED
        BY <1>1, <2>1 DEF TypeOK
<1>7. SyncedLog'
    <2>1. \A c \in {ckpt, ckpt_synced} : c.end \in Nat
        BY DEF TypeOK, Checkpoint
    <2> QED
        BY <1>1, <1>2, <1>4, <1>5, <2>1, SMTT(20) DEF SyncedLog, Sound, current_lsn
<1>8. SeenLog'
    BY <1>1, <1>2 DEF SeenLog, Beyond, Stable, Same
<1>9. Checkpointing' /\ Appending'
    BY <1>1, <1>2 DEF Checkpointing, Appending
<1> QED
    BY <1>1, <1>6, <1>7, <1>8, <1>9

-----------------------------------------------------------------------------
(* checkpoint(). *)

(* The fsynced log ends where the new checkpoint does, so all of it is      *)
(* covered.                                                                 *)
LEMMA RenameStep == ASSUME WInv, Rename PROVE WInv'
<1> USE DEF WInv
<1>1. /\ pc = "idle" /\ pc' = "renamed" /\ inflight = 0 /\ inflight' = 0
      /\ begun' = begun + 1 /\ ckpt' = [end |-> current_lsn, image |-> db]
      /\ UNCHANGED <<db, len, base_lsn, wal, wal_synced, ckpt_synced, submitted, acked, refused>>
    BY DEF Rename, memory, history
<1>2. /\ base_lsn \in Nat /\ len \in Nat /\ current_lsn \in Nat /\ db \in Seq(Nat)
      /\ wal_synced \in WalFile /\ wal_synced.gen \in Nat /\ wal_synced.base \in Nat
      /\ wal.gen \in Nat /\ begun \in Nat
    BY DEF TypeOK, current_lsn, WalFile
<1>3. ckpt' \in Checkpoint /\ ckpt'.end = current_lsn /\ ckpt'.image = db
    BY <1>1, <1>2 DEF Checkpoint
<1>4. TypeOK'
    BY <1>1, <1>3 DEF TypeOK
<1>5. /\ Sound(wal_synced.items) /\ wal_synced.base + Len(wal_synced.items) = current_lsn
      /\ Len(wal_synced.items) \in Nat
    BY <1>1, ReadableSound, LenProperties DEF SyncedLog
<1>6. Replay(wal_synced, ckpt') = db
    BY <1>2, <1>3, <1>5, ReplayCovered
<1>7. SyncedLog'
    BY <1>1, <1>2, <1>3, <1>5, <1>6 DEF SyncedLog, current_lsn
<1>8. SeenLog'
    BY <1>1, <1>3 DEF SeenLog, Beyond, Stable, Same, current_lsn
<1>9. Checkpointing' /\ Appending'
    BY <1>1, <1>2, <1>3 DEF Checkpointing, Appending, current_lsn
<1> QED
    BY <1>1, <1>2, <1>4, <1>7, <1>8, <1>9

(* From here on a crash finds the new checkpoint. *)
LEMMA DirSyncStep == ASSUME WInv, DirSync PROVE WInv'
<1> USE DEF WInv
<1>1. /\ pc = "renamed" /\ pc' = "dir_synced" /\ ckpt_synced' = ckpt
      /\ UNCHANGED <<db, len, base_lsn, wal, wal_synced, ckpt, inflight, submitted, acked,
                     refused, begun>>
    BY DEF DirSync, memory, history
<1>2. TypeOK'
    BY <1>1 DEF TypeOK
<1>3. SyncedLog'
    BY <1>1 DEF SyncedLog, current_lsn
<1>4. SeenLog'
    BY <1>1 DEF SeenLog, Beyond, Stable, Same, current_lsn
<1>5. Checkpointing' /\ Appending'
    BY <1>1 DEF Checkpointing, Appending, current_lsn
<1> QED
    BY <1>1, <1>2, <1>3, <1>4, <1>5

(* The log may go: the checkpoint has everything. *)
LEMMA SetLenStep == ASSUME WInv, SetLen PROVE WInv'
<1> USE DEF WInv
<1>1. /\ pc = "dir_synced" /\ pc' = "truncated" /\ wal' = NoHeader
      /\ UNCHANGED <<db, len, base_lsn, wal_synced, ckpt, ckpt_synced, inflight, submitted,
                     acked, refused, begun>>
    BY DEF SetLen, memory, history
<1>2. /\ NoHeader \in WalFile /\ ~NoHeader.hdr /\ NoHeader.gen = 0
    BY EmptySound DEF NoHeader, WalFile
<1>3. TypeOK'
    BY <1>1, <1>2 DEF TypeOK
<1>4. SyncedLog'
    BY <1>1 DEF SyncedLog, current_lsn
<1>5. SeenLog'
    BY <1>1, <1>2 DEF SeenLog, Checkpointing, Same, current_lsn
<1>6. Checkpointing' /\ Appending'
    BY <1>1, <1>2 DEF Checkpointing, Appending, current_lsn
<1>7. wal'.gen <= begun
    BY <1>1, <1>2 DEF TypeOK
<1> QED
    BY <1>1, <1>3, <1>4, <1>5, <1>6, <1>7

(* The new log begins where the checkpoint ends. *)
LEMMA WriteHeaderStep == ASSUME WInv, WriteHeader PROVE WInv'
<1> USE DEF WInv
<1>1. /\ pc = "truncated" /\ pc' = "headed" /\ wal' = Generation(ckpt.end, begun)
      /\ UNCHANGED <<db, len, base_lsn, wal_synced, ckpt, ckpt_synced, inflight, submitted,
                     acked, refused, begun>>
    BY DEF WriteHeader, memory, history
<1>2. /\ ckpt \in Checkpoint /\ ckpt.end \in Nat /\ begun \in Nat /\ wal_synced.gen \in Nat
    BY DEF TypeOK, Checkpoint, WalFile
<1>3. /\ wal' \in WalFile /\ wal'.hdr /\ wal'.gen = begun /\ wal'.base = ckpt.end
      /\ wal'.items = <<>>
    BY <1>1, <1>2, EmptySound DEF Generation, WalFile
<1>4. TypeOK'
    BY <1>1, <1>3 DEF TypeOK
<1>5. SyncedLog'
    BY <1>1 DEF SyncedLog, current_lsn
<1>6. ~Same'
    BY <1>1, <1>2, <1>3 DEF Checkpointing, Same
<1>7. SeenLog'
    BY <1>1, <1>3, <1>6 DEF SeenLog, Checkpointing, Beyond, Stable, current_lsn
<1>8. Checkpointing' /\ Appending'
    BY <1>1, <1>3 DEF Checkpointing, Appending, current_lsn
<1> QED
    BY <1>1, <1>2, <1>3, <1>4, <1>5, <1>7, <1>8

(* The empty log becomes the stable one. *)
LEMMA SyncResetStep == ASSUME WInv, SyncReset PROVE WInv'
<1> USE DEF WInv
<1>1. /\ pc = "headed" /\ pc' = "idle" /\ wal_synced' = wal /\ wal' = wal
      /\ len' = 0 /\ base_lsn' = ckpt.end
      /\ UNCHANGED <<db, ckpt, ckpt_synced, inflight, submitted, acked, refused, begun>>
    BY DEF SyncReset, history
<1>2. /\ ckpt \in Checkpoint /\ ckpt.end \in Nat /\ wal \in WalFile /\ inflight = 0
      /\ ckpt_synced = ckpt /\ ckpt.image = db
      /\ wal = Generation(ckpt.end, begun)
    BY <1>1 DEF TypeOK, Checkpoint, Checkpointing
<1>3. wal.hdr /\ wal.base = ckpt.end /\ wal.items = <<>>
    BY <1>2 DEF Generation
<1>4. Replay(wal, ckpt) = db
    BY <1>2, <1>3, EmptySound, ReplayCovered
<1>5. TypeOK'
    BY <1>1, <1>2 DEF TypeOK
<1>6. SyncedLog'
    BY <1>1, <1>2, <1>3, <1>4, EmptySound DEF SyncedLog, current_lsn
<1>7. SeenLog'
    BY <1>1, <1>3 DEF SeenLog, Beyond, Stable, Same
<1>8. Checkpointing' /\ Appending'
    BY <1>1, <1>2, <1>3 DEF Checkpointing, Appending
<1> QED
    BY <1>1, <1>5, <1>6, <1>7, <1>8

(* A failed checkpoint leaves both files usable, the header being there.    *)
LEMMA CheckpointFailsStep ==
    ASSUME WInv, "reset" \notin Faults, CheckpointFails
    PROVE  WInv'
<1> USE DEF WInv
<1>1. /\ pc \in {"renamed", "dir_synced", "headed"} /\ pc' = "idle"
      /\ UNCHANGED <<db, len, base_lsn, wal, wal_synced, ckpt, ckpt_synced, inflight,
                     submitted, acked, refused, begun>>
    BY DEF CheckpointFails, memory, files, history
<1>2. inflight = 0
    BY <1>1 DEF TypeOK
<1>3. TypeOK'
    BY <1>1 DEF TypeOK
<1>4. SyncedLog'
    BY <1>1 DEF SyncedLog, current_lsn
<1>5. SeenLog'
    BY <1>1 DEF SeenLog, Beyond, Stable, Same, current_lsn
<1>6. Checkpointing' /\ Appending'
    BY <1>1, <1>2 DEF Checkpointing, Appending
<1> QED
    BY <1>1, <1>3, <1>4, <1>5, <1>6

-----------------------------------------------------------------------------
(* A crash and what open() makes of it. *)

(* The logs a crash may leave, by where they come from. *)
Survivor(w) ==
    \/ /\ wal.hdr /\ w.hdr /\ w.base = wal.base /\ w.gen = wal.gen
       /\ \/ w.items = Stable
          \/ Clean(Stable) /\ w.items = Append(Stable, Torn)
          \/ pc = "written" /\ Clean(Stable) /\ w.items = Append(Stable, inflight)
    \/ ~Same /\ w \in {wal_synced, NoHeader}

(* A prefix of the log that has the stable frames is one of two. *)
LEMMA Cuts ==
    ASSUME WInv, pc # "down", wal.hdr, NEW n \in 0..Len(wal.items), n >= Len(Stable)
    PROVE  /\ SubSeq(wal.items, 1, n) \in {Stable, wal.items}
           /\ n < Len(wal.items) => SubSeq(wal.items, 1, n) = Stable /\ Clean(Stable)
<1> USE DEF WInv
<1>1. Beyond
    BY DEF SeenLog
<1>2. wal.items \in Seq(Nat) /\ Stable \in Seq(Nat) /\ Len(Stable) \in Nat /\ Torn \in Nat
      /\ inflight \in Nat
    BY EmptySound, LenProperties DEF TypeOK, WalFile, Stable, Torn
<1>3. CASE wal.items = Stable
    <2>1. n = Len(wal.items)
        BY <1>2, <1>3
    <2> QED
        BY <1>2, <1>3, <2>1, SubSeqFull
<1>4. CASE \E x \in Nat : Clean(Stable) /\ wal.items = Append(Stable, x)
    <2>1. PICK x \in Nat : Clean(Stable) /\ wal.items = Append(Stable, x)
        BY <1>4
    <2>2. Len(wal.items) = Len(Stable) + 1
        BY <1>2, <2>1, AppendProperties
    <2>3. CASE n = Len(Stable)
        BY <1>2, <2>1, <2>3, PrefixOfAppend
    <2>4. CASE n = Len(wal.items)
        BY <1>2, <2>4, SubSeqFull
    <2> QED
        BY <1>2, <2>1, <2>2, <2>3, <2>4
<1> QED
    BY <1>1, <1>2, <1>3, <1>4 DEF Beyond

(* CrashImages gives survivors only. *)
LEMMA SurvivorIs ==
    ASSUME WInv, pc # "down", NEW w \in CrashImages
    PROVE  w \in WalFile /\ w.gen <= begun /\ Survivor(w)
<1> USE DEF WInv
<1> DEFINE same == wal.hdr /\ wal.gen = wal_synced.gen
           cut == {n \in 0..Len(wal.items) : same => n >= Len(wal_synced.items)}
           Cut(n) == SubSeq(wal.items, 1, n)
<1>1. \/ \E n \in cut : w = [wal EXCEPT !.items = Cut(n)]
      \/ \E n \in cut : n < Len(wal.items) /\ w = [wal EXCEPT !.items = Append(Cut(n), Torn)]
      \/ ~same /\ w \in {wal_synced, NoHeader}
    BY DEF CrashImages
<1>2. /\ wal \in WalFile /\ wal_synced \in WalFile /\ begun \in Nat /\ Torn \in Nat
      /\ inflight \in Nat /\ wal.items \in Seq(Nat) /\ Stable \in Seq(Nat)
    BY EmptySound DEF TypeOK, WalFile, Torn, Stable
<1>3. /\ NoHeader \in WalFile /\ ~NoHeader.hdr /\ NoHeader.gen = 0 /\ NoHeader.items = <<>>
    BY EmptySound DEF NoHeader, WalFile
<1>4. (same <=> Same) /\ \A n \in cut : n >= Len(Stable)
    BY EmptySound DEF Same, Stable
<1>5. CASE ~same /\ w \in {wal_synced, NoHeader}
    BY <1>2, <1>3, <1>4, <1>5 DEF Survivor
<1>6. ASSUME ~wal.hdr, NEW n \in cut, w = [wal EXCEPT !.items = Cut(n)] PROVE Survivor(w) /\ w = NoHeader
    <2>1. ~Same /\ wal = NoHeader /\ Len(wal.items) = 0
        BY <1>3, <1>6, EmptySound DEF Same, SeenLog
    <2>2. n = 0 /\ Cut(n) = <<>>
        BY <2>1, SubSeqEmpty
    <2>3. w = NoHeader
        BY <1>6, <2>1, <2>2 DEF NoHeader
    <2> QED
        BY <2>1, <2>3 DEF Survivor
<1>7. ~wal.hdr => Len(wal.items) = 0
    BY <1>3, EmptySound DEF SeenLog, Same
<1>8. ASSUME wal.hdr, NEW n \in cut, w = [wal EXCEPT !.items = Cut(n)]
      PROVE  w \in WalFile /\ w.gen <= begun /\ Survivor(w)
    <2>1. Cut(n) \in {Stable, wal.items}
        BY <1>4, <1>8, Cuts
    <2>2. Cut(n) \in Seq(Nat)
        BY <1>2, <2>1
    <2> HIDE DEF Cut
    <2>3. /\ w \in WalFile /\ w.hdr /\ w.base = wal.base /\ w.gen = wal.gen
          /\ w.items \in {Stable, wal.items}
        BY <1>2, <1>8, <2>1, <2>2 DEF WalFile
    <2>4. Beyond
        BY <1>8 DEF SeenLog
    <2> QED
        BY <1>8, <2>3, <2>4 DEF Survivor, Beyond
<1>9. ASSUME wal.hdr, NEW n \in cut, n < Len(wal.items),
             w = [wal EXCEPT !.items = Append(Cut(n), Torn)]
      PROVE  w \in WalFile /\ w.gen <= begun /\ Survivor(w)
    <2>1. Cut(n) = Stable /\ Clean(Stable)
        BY <1>4, <1>9, Cuts
    <2>2. Append(Stable, Torn) \in Seq(Nat)
        BY <1>2, AppendProperties
    <2> HIDE DEF Cut
    <2>3. /\ w \in WalFile /\ w.hdr /\ w.base = wal.base /\ w.gen = wal.gen
          /\ w.items = Append(Stable, Torn)
        BY <1>2, <1>9, <2>1, <2>2 DEF WalFile
    <2> QED
        BY <1>9, <2>1, <2>3 DEF Survivor
<1> HIDE DEF Cut, cut, same
<1>10. \A n \in cut : n \in 0..Len(wal.items)
    BY DEF cut
<1>11. ~wal.hdr => ~\E n \in cut : n < Len(wal.items)
    BY <1>7, <1>10
<1> QED
    BY <1>1, <1>2, <1>3, <1>5, <1>6, <1>8, <1>9, <1>11

(* What open() would make of a survivor and a checkpoint. *)
OpenedFrom(w, c) == IF w.hdr THEN w ELSE Generation(c.end, begun)

(* Whatever survives is replayed to db, or to db and the batch whose frame  *)
(* was written and not yet fsynced.                                         *)
LEMMA SurvivorReplay ==
    ASSUME WInv, pc # "down", NEW w \in WalFile, Survivor(w), NEW c \in {ckpt, ckpt_synced}
    PROVE  LET o == OpenedFrom(w, c)
           IN  /\ Sound(w.items)
               /\ w.hdr => w.base <= c.end /\ c.end <= w.base + Len(w.items)
               /\ ~w.hdr => w.items = <<>>
               /\ o.base + Len(o.items) >= current_lsn
               /\ \/ Replay(o, c) = db
                  \/ pc = "written" /\ Replay(o, c) = Append(db, inflight)
<1> USE DEF WInv
<1> DEFINE o == OpenedFrom(w, c)
<1>1. /\ c \in Checkpoint /\ c.end \in Nat /\ base_lsn \in Nat /\ len \in Nat
      /\ current_lsn \in Nat /\ w.base \in Nat /\ begun \in Nat /\ Torn \in Nat
      /\ inflight \in Nat
    BY DEF TypeOK, Checkpoint, WalFile, current_lsn, Torn
<1>2. CASE wal.hdr /\ w.hdr /\ w.base = wal.base
           /\ \/ w.items = Stable
              \/ Clean(Stable) /\ w.items = Append(Stable, Torn)
              \/ pc = "written" /\ Clean(Stable) /\ w.items = Append(Stable, inflight)
    <2>1. PICK v \in WalFile : v.base = wal.base /\ v.items = Stable
        <3>1. wal \in WalFile /\ Stable \in Seq(Nat)
            BY EmptySound DEF TypeOK, WalFile, Stable
        <3>2. [wal EXCEPT !.items = Stable] \in WalFile
            BY <3>1 DEF WalFile
        <3> QED
            BY <3>1, <3>2 DEF WalFile
    <2>2. /\ Sound(Stable) /\ Replay(v, c) = db
          /\ v.base <= c.end /\ c.end <= v.base + Len(Stable)
          /\ v.base + Len(Stable) = current_lsn
        BY <1>2, <2>1, StableLog
    <2>3. o = w /\ Stable \in Seq(Nat) /\ Len(Stable) \in Nat
        BY <1>2, <2>2, ReadableSound, LenProperties DEF OpenedFrom
    <2>4. CASE w.items = Stable
        <3>1. Replay(w, c) = Replay(v, c)
            BY <1>2, <2>1, <2>4 DEF Replay, Covered
        <3> QED
            BY <1>1, <1>2, <2>1, <2>2, <2>3, <2>4, <3>1
    <2>5. CASE Clean(Stable) /\ w.items = Append(Stable, Torn)
        <3>1. Replay(w, c) = Replay(v, c)
            BY <1>1, <1>2, <2>1, <2>5, ReplayTorn
        <3>2. Len(w.items) = Len(Stable) + 1 /\ Sound(w.items)
            BY <1>1, <2>3, <2>5, AppendProperties DEF Sound
        <3>3. w.base + Len(w.items) = current_lsn + 1 /\ w.base <= c.end /\ c.end <= current_lsn
            BY <1>1, <1>2, <2>1, <2>2, <2>3, <3>2
        <3> QED
            BY <1>1, <1>2, <2>2, <2>3, <3>1, <3>2, <3>3
    <2>6. CASE pc = "written" /\ Clean(Stable) /\ w.items = Append(Stable, inflight)
        <3>1. inflight # Torn
            BY <2>6 DEF TypeOK, Torn
        <3>2. Clean(w.items) /\ Replay(w, c) = Append(Replay(v, c), inflight)
            <4>1. /\ Clean(v.items) /\ w.base = v.base
                  /\ w.items = Append(v.items, inflight)
                  /\ c.end <= v.base + Len(v.items)
                BY <1>2, <2>1, <2>2, <2>6
            <4> QED
                BY <1>1, <2>1, <3>1, <4>1, ReplayAppend
        <3>3. Len(w.items) = Len(Stable) + 1
            BY <1>1, <2>3, <2>6, AppendProperties
        <3>4. w.base + Len(w.items) = current_lsn + 1 /\ w.base <= c.end /\ c.end <= current_lsn
            BY <1>1, <1>2, <2>1, <2>2, <2>3, <3>3
        <3> QED
            BY <1>1, <1>2, <2>2, <2>3, <2>6, <3>2, <3>4 DEF Sound
    <2> QED
        BY <1>2, <2>4, <2>5, <2>6
<1>3. CASE ~Same /\ w = wal_synced
    <2>1. o = w /\ w.hdr
        BY <1>3 DEF SyncedLog, OpenedFrom
    <2> QED
        BY <1>1, <1>3, <2>1 DEF SyncedLog
<1>4. CASE ~Same /\ w = NoHeader
    <2>1. /\ ~w.hdr /\ w.items = <<>> /\ o = Generation(c.end, begun)
        BY <1>4 DEF NoHeader, OpenedFrom
    <2>2. o \in WalFile /\ o.base = c.end /\ o.items = <<>>
        BY <1>1, <2>1, EmptySound DEF Generation, WalFile
    <2>3. c.image = db /\ c.end = current_lsn
        BY <1>4 DEF SeenLog
    <2> HIDE DEF o
    <2>4. Replay(o, c) = db
        BY <1>1, <2>2, <2>3, EmptySound, ReplayCovered
    <2> QED
        BY <1>1, <2>1, <2>2, <2>3, <2>4, EmptySound DEF o
<1> QED
    BY <1>2, <1>3, <1>4 DEF Survivor

(* A crash leaves files that open() can use. *)
LEMMA CrashStep == ASSUME WInv, Crash PROVE WInv'
<1> USE DEF WInv
<1>1. /\ pc # "down" /\ pc' = "down" /\ wal' \in CrashImages /\ wal_synced' = wal'
      /\ ckpt' \in {ckpt, ckpt_synced} /\ ckpt_synced' = ckpt' /\ inflight' = 0
      /\ UNCHANGED <<db, len, base_lsn, submitted, acked, refused, begun>>
    BY DEF Crash, memory, history
<1>2. wal' \in WalFile /\ wal'.gen <= begun /\ Survivor(wal')
    BY <1>1, SurvivorIs
<1>3. /\ Sound(wal'.items)
      /\ wal'.hdr => wal'.base <= ckpt'.end /\ ckpt'.end <= wal'.base + Len(wal'.items)
      /\ ~wal'.hdr => wal'.items = <<>>
    BY <1>1, <1>2, SurvivorReplay
<1>4. TypeOK'
    BY <1>1, <1>2 DEF TypeOK
<1> QED
    BY <1>1, <1>2, <1>3, <1>4 DEF Downtime

(* open() goes on with a sound log whose end the checkpoint does not pass.  *)
LEMMA OpenedIs ==
    ASSUME WInv, pc = "down"
    PROVE  /\ Opened \in WalFile /\ Opened.hdr /\ Opened.gen <= begun /\ Sound(Opened.items)
           /\ Opened.base <= ckpt.end /\ ckpt.end <= Opened.base + Len(Opened.items)
           /\ Replay(Opened, ckpt) \in Seq(Nat) /\ Openable
<1> USE DEF WInv
<1>1. ckpt \in Checkpoint /\ ckpt.end \in Nat /\ begun \in Nat /\ wal \in WalFile
    BY DEF TypeOK, Checkpoint
<1>2. CASE wal.hdr
    BY <1>1, <1>2, ReplayIs DEF Opened, Openable, Downtime
<1>3. CASE ~wal.hdr
    <2>1. Opened = Generation(ckpt.end, begun)
        BY <1>3 DEF Opened
    <2>2. /\ Opened \in WalFile /\ Opened.hdr /\ Opened.gen = begun
          /\ Opened.base = ckpt.end /\ Opened.items = <<>>
        BY <1>1, <2>1, EmptySound DEF Generation, WalFile
    <2> QED
        BY <1>1, <1>3, <2>2, EmptySound, ReplayIs DEF Openable, Downtime
<1> QED
    BY <1>2, <1>3

(* open() replays to db by definition. *)
LEMMA OpenStep == ASSUME WInv, Open PROVE WInv'
<1> USE DEF WInv
<1>1. /\ pc = "down" /\ pc' = "idle" /\ wal' = Opened /\ wal_synced' = Opened
      /\ db' = Replay(Opened, ckpt) /\ len' = Len(Opened.items) /\ base_lsn' = Opened.base
      /\ UNCHANGED <<ckpt, ckpt_synced, inflight, submitted, acked, refused, begun>>
    BY DEF Open, history
<1>2. inflight = 0 /\ ckpt_synced = ckpt
    BY <1>1 DEF TypeOK, Downtime
<1>3. /\ wal' \in WalFile /\ wal'.hdr /\ wal'.gen <= begun /\ Sound(wal'.items)
      /\ wal'.base <= ckpt.end /\ ckpt.end <= wal'.base + Len(wal'.items)
      /\ db' \in Seq(Nat) /\ base_lsn' \in Nat /\ len' \in Nat
    <2>1. /\ Opened \in WalFile /\ Opened.hdr /\ Opened.gen <= begun /\ Sound(Opened.items)
          /\ Opened.base <= ckpt.end /\ ckpt.end <= Opened.base + Len(Opened.items)
          /\ Replay(Opened, ckpt) \in Seq(Nat)
        BY <1>1, OpenedIs
    <2>2. Opened.base \in Nat /\ Len(Opened.items) \in Nat
        BY <2>1, LenProperties DEF WalFile
    <2> QED
        BY <1>1, <2>1, <2>2
<1>4. TypeOK'
    BY <1>1, <1>2, <1>3 DEF TypeOK
<1>5. SyncedLog'
    BY <1>1, <1>2, <1>3 DEF SyncedLog, current_lsn
<1>6. SeenLog'
    BY <1>1, <1>3 DEF SeenLog, Beyond, Stable, Same
<1>7. Checkpointing' /\ Appending'
    BY <1>1, <1>2, <1>3 DEF Checkpointing, Appending
<1> QED
    BY <1>1, <1>3, <1>4, <1>5, <1>6, <1>7

-----------------------------------------------------------------------------

(* Every step preserves the invariant. *)
LEMMA WInvStep ==
    ASSUME ~AppendBehindJunk, "sync" \notin Faults, "reset" \notin Faults,
           WInv, [Next]_vars
    PROVE  WInv'
<1>1. CASE UNCHANGED vars
    <2>1. UNCHANGED <<pc, db, len, base_lsn, wal, wal_synced, ckpt, ckpt_synced, inflight,
                      submitted, acked, refused, begun>>
        BY <1>1 DEF vars, memory, files, history
    <2>2. TypeOK' /\ (wal.gen <= begun /\ wal_synced.gen <= begun)'
        BY <2>1 DEF WInv, TypeOK
    <2>3. pc' # "down" => SyncedLog' /\ SeenLog' /\ Checkpointing' /\ Appending'
        BY <2>1 DEF WInv, SyncedLog, SeenLog, Beyond, Stable, Same, Checkpointing, Appending,
                    current_lsn
    <2>4. pc' = "down" => Downtime'
        BY <2>1 DEF WInv, Downtime
    <2> QED
        BY <2>2, <2>3, <2>4 DEF WInv
<1>2. ~SyncAllFails
    BY DEF SyncAllFails
<1> QED
    BY <1>1, <1>2, SubmitStep, WriteAllStep, WriteAllFailsStep, SyncAllStep, RenameStep,
       DirSyncStep, SetLenStep, WriteHeaderStep, SyncResetStep, CheckpointFailsStep,
       CrashStep, OpenStep
       DEF Next

-----------------------------------------------------------------------------
(* The theorems. *)

(* The invariant holds of every behaviour under the three hypotheses. *)
LEMMA WInvAlways ==
    ASSUME ~AppendBehindJunk, "sync" \notin Faults, "reset" \notin Faults
    PROVE  Spec => []WInv
<1>1. WInv /\ [Next]_vars => WInv'
    BY WInvStep
<1> QED
    BY <1>1, WInvInit, PTL DEF Spec

(* Every variable keeps the shape of what it stands for, db and the images  *)
(* rebuilt by Wal::open included.                                           *)
THEOREM WalTypeCorrect ==
    ASSUME ~AppendBehindJunk, "sync" \notin Faults, "reset" \notin Faults
    PROVE  Spec => []TypeOK
<1>1. WInv => TypeOK
    BY DEF WInv
<1> QED
    BY <1>1, WInvAlways, PTL

(* append_batch, checkpoint and the slots compute LSNs from base_lsn and    *)
(* len; they agree with the physical end of wal.log, unless a refused       *)
(* append left bytes there.                                                 *)
THEOREM LsnAgrees ==
    ASSUME ~AppendBehindJunk, "sync" \notin Faults, "reset" \notin Faults
    PROVE  Spec => []LsnMatchesFile
<1>1. WInv => LsnMatchesFile
    <2> SUFFICES ASSUME WInv, pc = "idle", inflight = 0, wal.hdr,
                        \A i \in DOMAIN wal.items :
                            wal.items[i] # Torn /\ wal.items[i] \notin refused
                 PROVE  wal.base + Len(wal.items) = current_lsn
        BY DEF LsnMatchesFile
    <2>1. wal \in WalFile /\ wal.items \in Seq(Nat) /\ DOMAIN wal.items = 1..Len(wal.items)
        BY LenProperties DEF WInv, TypeOK, WalFile
    <2>2. Clean(wal.items)
        BY <2>1 DEF Clean
    <2>3. wal.items = Stable
        BY <2>2, ReadableTorn DEF WInv, SeenLog, Beyond
    <2> QED
        BY <2>1, <2>3, StableLog
<1> QED
    BY <1>1, WInvAlways, PTL

(* What an open() after a crash computes as the end of the log is not       *)
(* before what the server had computed.                                     *)
LEMMA EndAfterCrash == ASSUME WInv, Crash PROVE EndLsn' >= EndLsn
<1> USE DEF WInv
<1>1. /\ pc # "down" /\ pc' = "down" /\ wal' \in CrashImages
      /\ ckpt' \in {ckpt, ckpt_synced} /\ begun' = begun
    BY DEF Crash
<1>2. wal' \in WalFile /\ Survivor(wal')
    BY <1>1, SurvivorIs
<1>3. LET o == OpenedFrom(wal', ckpt') IN o.base + Len(o.items) >= current_lsn
    BY <1>1, <1>2, SurvivorReplay
<1>4. OpenedFrom(wal', ckpt') = Opened'
    BY <1>1 DEF OpenedFrom, Opened
<1> QED
    BY <1>1, <1>3, <1>4 DEF EndLsn

(* The end of the log never moves back, whatever crash, checkpoint or       *)
(* failed append comes: an LSN handed to a replication slot stays in the    *)
(* past.                                                                    *)
THEOREM LsnMonotone ==
    ASSUME ~AppendBehindJunk, "sync" \notin Faults, "reset" \notin Faults
    PROVE  Spec => LsnNeverRegresses
<1>1. WInv /\ WInv' /\ [Next]_vars => [EndLsn' >= EndLsn]_vars
    <2> SUFFICES ASSUME WInv, WInv', [Next]_vars PROVE EndLsn' >= EndLsn \/ UNCHANGED vars
        OBVIOUS
    <2>1. base_lsn \in Nat /\ len \in Nat /\ current_lsn \in Nat
        BY DEF WInv, TypeOK, current_lsn
    <2>2. CASE Submit \/ WriteAll \/ WriteAllFails \/ Rename \/ DirSync \/ SetLen \/ WriteHeader
                \/ CheckpointFails
        <3>1. pc # "down" /\ pc' # "down" /\ base_lsn' = base_lsn /\ len' = len
            BY <2>2 DEF Submit, WriteAll, WriteAllFails, Refuse, Rename, DirSync, SetLen,
                        WriteHeader, CheckpointFails, memory
        <3> QED
            BY <2>1, <3>1 DEF EndLsn, current_lsn
    <2>3. CASE SyncAll
        <3>1. pc # "down" /\ pc' # "down" /\ base_lsn' = base_lsn /\ len' = len + 1
            BY <2>3 DEF SyncAll
        <3> QED
            BY <2>1, <3>1 DEF EndLsn, current_lsn
    <2>4. CASE SyncReset
        <3>1. pc # "down" /\ pc' # "down" /\ base_lsn' = current_lsn /\ len' = 0
            BY <2>4 DEF SyncReset, WInv, Checkpointing
        <3> QED
            BY <2>1, <3>1 DEF EndLsn, current_lsn
    <2>5. CASE Open
        <3>1. /\ pc = "down" /\ pc' # "down" /\ base_lsn' = Opened.base
              /\ len' = Len(Opened.items)
            BY <2>5 DEF Open
        <3>2. Opened.base \in Nat /\ Len(Opened.items) \in Nat
            BY <3>1, OpenedIs, LenProperties DEF WalFile
        <3> QED
            BY <3>1, <3>2 DEF EndLsn, current_lsn
    <2>6. CASE SyncAllFails
        <3>1. pc # "down" /\ pc' # "down" /\ base_lsn' = base_lsn /\ len' = len
            BY <2>6 DEF SyncAllFails, Refuse, memory
        <3> QED
            BY <2>1, <3>1 DEF EndLsn, current_lsn
    <2> QED
        BY <2>2, <2>3, <2>4, <2>5, <2>6, EndAfterCrash DEF Next
<1> QED
    BY <1>1, WInvAlways, PTL DEF Spec, LsnNeverRegresses

(* A crash refuses the batch in flight or acknowledges it. *)
LEMMA CrashImplements == ASSUME WInv, Crash PROVE [Log!Next]_Log!vars
<1> USE DEF WInv
<1>1. /\ pc # "down" /\ pc' = "down" /\ wal' \in CrashImages
      /\ ckpt' \in {ckpt, ckpt_synced} /\ begun' = begun
      /\ inflight' = 0 /\ submitted' = submitted
    BY DEF Crash
<1>2. wal' \in WalFile /\ Survivor(wal')
    BY <1>1, SurvivorIs
<1>3. LET o == OpenedFrom(wal', ckpt')
      IN  /\ ~wal'.hdr => wal'.items = <<>>
          /\ \/ Replay(o, ckpt') = db
             \/ pc = "written" /\ Replay(o, ckpt') = Append(db, inflight)
    BY <1>1, <1>2, SurvivorReplay
<1>4. Opened' = OpenedFrom(wal', ckpt') /\ Openable'
    BY <1>1, <1>3 DEF OpenedFrom, Opened, Openable
<1>5. Recovered = db /\ Recovered' = Replay(OpenedFrom(wal', ckpt'), ckpt')
    BY <1>1, <1>4 DEF Recovered
<1>6. CASE Recovered' = Recovered /\ inflight = 0
    BY <1>1, <1>6 DEF Log!vars
<1>7. CASE Recovered' = Recovered /\ inflight # 0
    BY <1>1, <1>7 DEF Log!Next, Log!Refuse
<1>8. CASE pc = "written" /\ Recovered' = Append(Recovered, inflight)
    <2>1. inflight # 0
        BY <1>8 DEF TypeOK
    <2> QED
        BY <1>1, <1>8, <2>1 DEF Log!Next, Log!Ack
<1> QED
    BY <1>3, <1>5, <1>6, <1>7, <1>8

(* Every step of the files and of the process is a step of the durable log, *)
(* or leaves it alone.                                                      *)
LEMMA StepImplements ==
    ASSUME "sync" \notin Faults, WInv, WInv', [Next]_vars
    PROVE  [Log!Next]_Log!vars
<1>1. CASE Submit
    <2>1. /\ inflight = 0 /\ submitted' = submitted + 1 /\ inflight' = submitted'
          /\ Recovered' = Recovered
        BY <1>1 DEF Submit, Recovered, memory
    <2> QED
        BY <2>1 DEF Log!Next, Log!Submit
<1>2. CASE WriteAllFails
    <2>1. inflight # 0 /\ inflight' = 0 /\ submitted' = submitted /\ Recovered' = Recovered
        BY <1>2 DEF WriteAllFails, Refuse, Recovered, memory
    <2> QED
        BY <2>1 DEF Log!Next, Log!Refuse
<1>3. CASE SyncAll
    <2>1. /\ inflight # 0 /\ inflight' = 0 /\ submitted' = submitted
          /\ Recovered' = Append(Recovered, inflight)
        BY <1>3 DEF SyncAll, Recovered, WInv, TypeOK
    <2> QED
        BY <2>1 DEF Log!Next, Log!Ack
<1>4. CASE WriteAll \/ Rename \/ DirSync \/ SetLen \/ WriteHeader \/ SyncReset \/ CheckpointFails
    <2>1. inflight' = inflight /\ submitted' = submitted /\ Recovered' = Recovered
        BY <1>4 DEF WriteAll, Rename, DirSync, SetLen, WriteHeader, SyncReset, CheckpointFails,
                    Recovered, memory
    <2> QED
        BY <2>1 DEF Log!vars
<1>5. CASE Open
    <2>1. pc = "down" /\ pc' # "down" /\ inflight' = inflight /\ submitted' = submitted
          /\ db' = Replay(Opened, ckpt)
        BY <1>5 DEF Open
    <2>2. Recovered' = Recovered
        BY <2>1, OpenedIs DEF Recovered
    <2> QED
        BY <2>1, <2>2 DEF Log!vars
<1>6. CASE UNCHANGED vars
    <2>1. inflight' = inflight /\ submitted' = submitted /\ Recovered' = Recovered
        BY <1>6 DEF vars, memory, files, Recovered, Opened, Openable, Replay, Covered, Readable
    <2> QED
        BY <2>1 DEF Log!vars
<1>7. ~SyncAllFails
    BY DEF SyncAllFails
<1> QED
    BY <1>1, <1>2, <1>3, <1>4, <1>5, <1>6, <1>7, CrashImplements DEF Next

(* wal.log and checkpoint.dat implement the durable log (append_batch,      *)
(* checkpoint, Wal::open): an acknowledged batch survives once and in       *)
(* order, a refused one never appears, and only the batch in flight at a    *)
(* crash may go either way.                                                 *)
THEOREM WalImplementsLog ==
    ASSUME ~AppendBehindJunk, "sync" \notin Faults, "reset" \notin Faults
    PROVE  Spec => ImplementsLog
<1>1. Init => Log!Init
    BY DEF Init, Log!Init, Recovered
<1>2. WInv /\ WInv' /\ [Next]_vars => [Log!Next]_Log!vars
    BY StepImplements
<1> QED
    BY <1>1, <1>2, WInvAlways, PTL DEF Spec, ImplementsLog, Log!Spec

-----------------------------------------------------------------------------
(* From the durable log to what its users rely on. *)

(* Batches are numbered in the order submitted, and only the one in flight  *)
(* can still come.                                                          *)
Numbered ==
    /\ inflight <= submitted
    /\ \A j \in 1..Len(Recovered) :
            Recovered[j] <= submitted /\ (inflight # 0 => Recovered[j] < inflight)
    /\ \A i, j \in 1..Len(Recovered) : Recovered[i] = Recovered[j] => i = j
    /\ \A i \in 1..Len(acked) : \E j \in 1..Len(Recovered) : Recovered[j] = acked[i]

(* The elements of an extended sequence. *)
LEMMA AppendCases ==
    ASSUME NEW q \in Seq(Nat), NEW x \in Nat
    PROVE  /\ \A i \in 1..Len(Append(q, x)) :
                \/ i \in 1..Len(q) /\ Append(q, x)[i] = q[i]
                \/ i = Len(q) + 1 /\ Append(q, x)[i] = x
           /\ \A i \in 1..Len(q) : i \in 1..Len(Append(q, x)) /\ Append(q, x)[i] = q[i]
           /\ Len(q) + 1 \in 1..Len(Append(q, x)) /\ Append(q, x)[Len(q) + 1] = x
<1>1. /\ Len(Append(q, x)) = Len(q) + 1 /\ Len(q) \in Nat
      /\ \A i \in 1..Len(q) : Append(q, x)[i] = q[i]
      /\ Append(q, x)[Len(q) + 1] = x
    BY AppendProperties, LenProperties
<1> QED
    BY <1>1

(* What recovery brings back is a sequence of batches. *)
LEMMA RecoveredSeq == WInv => Recovered \in Seq(Nat)
BY OpenedIs DEF WInv, TypeOK, Recovered

(* A batch is acknowledged by the step that makes it durable. *)
LEMMA AckedWithLog ==
    ASSUME "sync" \notin Faults, WInv, [Next]_vars
    PROVE  \/ acked' = acked
           \/ acked' = Append(acked, inflight) /\ Recovered' = Append(Recovered, inflight)
<1>1. CASE SyncAll
    BY <1>1 DEF SyncAll, Recovered
<1>2. CASE UNCHANGED vars
    BY <1>2 DEF vars, history
<1>3. CASE ~SyncAll /\ Next
    BY <1>3 DEF Next, Submit, WriteAll, WriteAllFails, SyncAllFails, Refuse, Rename, DirSync,
                SetLen, WriteHeader, SyncReset, CheckpointFails, Crash, Open, history
<1> QED
    BY <1>1, <1>2, <1>3

(* The numbering survives every step of the durable log. *)
LEMMA NumberedStep ==
    ASSUME "sync" \notin Faults, WInv, WInv', [Next]_vars, Numbered
    PROVE  Numbered'
<1>1. /\ Recovered \in Seq(Nat) /\ Len(Recovered) \in Nat
      /\ acked \in Seq(Nat) /\ Len(acked) \in Nat /\ inflight \in Nat /\ submitted \in Nat
      /\ \A j \in 1..Len(Recovered) : Recovered[j] \in Nat
    <2>1. Recovered \in Seq(Nat)
        BY RecoveredSeq
    <2>2. acked \in Seq(Nat) /\ inflight \in Nat /\ submitted \in Nat
        BY DEF WInv, TypeOK
    <2> QED
        BY <2>1, <2>2, LenProperties, ElementOfSeq
<1>2. CASE Recovered' = Recovered
    <2>1. /\ acked' = acked
          /\ \/ submitted' = submitted /\ inflight' \in {0, inflight}
             \/ submitted' = submitted + 1 /\ inflight' = submitted + 1
        <3>1. Recovered # Append(Recovered, inflight)
            BY <1>1, AppendProperties
        <3> QED
            BY <1>2, <3>1, StepImplements, AckedWithLog
               DEF Log!Next, Log!Submit, Log!Ack, Log!Refuse, Log!vars
    <2> QED
        BY <1>1, <1>2, <2>1 DEF Numbered
<1>3. CASE Recovered' = Append(Recovered, inflight) /\ inflight # 0
    <2>1. inflight' = 0 /\ submitted' = submitted
        <3>1. Recovered # Append(Recovered, inflight)
            BY <1>1, AppendProperties
        <3> QED
            BY <1>3, <3>1, StepImplements
               DEF Log!Next, Log!Submit, Log!Ack, Log!Refuse, Log!vars
    <2>2. /\ \A i \in 1..Len(Recovered') :
                \/ i \in 1..Len(Recovered) /\ Recovered'[i] = Recovered[i]
                \/ i = Len(Recovered) + 1 /\ Recovered'[i] = inflight
          /\ \A i \in 1..Len(Recovered) :
                i \in 1..Len(Recovered') /\ Recovered'[i] = Recovered[i]
          /\ Len(Recovered) + 1 \in 1..Len(Recovered')
          /\ Recovered'[Len(Recovered) + 1] = inflight
        BY <1>1, <1>3, AppendCases
    <2>3. /\ inflight' <= submitted'
          /\ \A j \in 1..Len(Recovered') : Recovered'[j] <= submitted'
        BY <1>1, <2>1, <2>2, SMTT(20) DEF Numbered
    <2>4. ASSUME NEW i \in 1..Len(Recovered'), NEW j \in 1..Len(Recovered'),
                 Recovered'[i] = Recovered'[j]
          PROVE  i = j
        <3>1. \A k \in 1..Len(Recovered) : Recovered[k] # inflight
            BY <1>1, <1>3 DEF Numbered
        <3> QED
            BY <2>2, <2>4, <3>1 DEF Numbered
    <2>5. \A i \in 1..Len(acked') : \E j \in 1..Len(Recovered') : Recovered'[j] = acked'[i]
        <3>1. \A i \in 1..Len(acked) : \E j \in 1..Len(Recovered') : Recovered'[j] = acked[i]
            BY <2>2 DEF Numbered
        <3>2. CASE acked' = acked
            BY <3>1, <3>2
        <3>3. CASE acked' = Append(acked, inflight)
            <4>1. \A i \in 1..Len(acked') :
                    \/ i \in 1..Len(acked) /\ acked'[i] = acked[i]
                    \/ i = Len(acked) + 1 /\ acked'[i] = inflight
                BY <1>1, <3>3, AppendCases
            <4> QED
                BY <2>2, <3>1, <4>1
        <3> QED
            BY <3>2, <3>3, AckedWithLog
    <2> QED
        BY <2>1, <2>3, <2>4, <2>5 DEF Numbered
<1> QED
    BY <1>2, <1>3, StepImplements DEF Log!Next, Log!Submit, Log!Ack, Log!Refuse, Log!vars

(* An acknowledged batch is there after every crash and restart, and no     *)
(* batch is there twice (append_batch, Wal::open).                          *)
THEOREM AckedExactlyOnce ==
    ASSUME ~AppendBehindJunk, "sync" \notin Faults, "reset" \notin Faults
    PROVE  Spec => []AckedOnce
<1>1. Init => Numbered
    <2> SUFFICES ASSUME Init PROVE Numbered
        OBVIOUS
    <2>1. Recovered = <<>> /\ acked = <<>> /\ inflight = 0 /\ submitted = 0
        BY DEF Init, Recovered
    <2> QED
        BY <2>1, EmptySound DEF Numbered
<1>2. WInv /\ WInv' /\ [Next]_vars /\ Numbered => Numbered'
    BY NumberedStep
<1>3. WInv /\ Numbered => AckedOnce
    <2> SUFFICES ASSUME WInv, Numbered PROVE AckedOnce
        OBVIOUS
    <2>1. DOMAIN Recovered = 1..Len(Recovered) /\ DOMAIN acked = 1..Len(acked)
        BY RecoveredSeq, LenProperties DEF WInv, TypeOK
    <2> QED
        BY <2>1 DEF Numbered, AckedOnce, AckedSurvive, AppliedOnce
<1> QED
    BY <1>1, <1>2, <1>3, WInvAlways, PTL DEF Spec
=============================================================================
