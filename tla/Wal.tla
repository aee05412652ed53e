--------------------------------- MODULE Wal ---------------------------------
(***************************************************************************)
(* wal.log and checkpoint.dat: append_batch (write, then fsync), the steps  *)
(* of checkpoint() (write the image and rename it, fsync the directory,     *)
(* truncate the log, write the new header, fsync), a crash between any two  *)
(* of them, and Wal::open, which loads the checkpoint and replays the       *)
(* frames behind it.                                                        *)
(*                                                                         *)
(* A commit's records are one batch, numbered in the order submitted; a     *)
(* frame is its batch number, a partial frame is Torn.  Lengths and LSNs    *)
(* count frames, the header apart.  An engine is the sequence of batches    *)
(* applied to it.  Whatever the process wrote but did not fsync may or may  *)
(* not survive a crash.                                                     *)
(***************************************************************************)
EXTENDS Naturals, Sequences

CONSTANTS
    Faults,             \* subset of AllFaults
    AppendBehindJunk,   \* do writers go on when wal.log is damaged?
    MaxBatch,           \* bound on the batches submitted
    MaxCheckpoints      \* bound on checkpoints begun

(***************************************************************************)
(* "crash"  the process or the machine dies at any point                    *)
(* "torn"   a crash may leave a prefix of an unsynced frame                  *)
(* "write"  write_all fails, leaving nothing or a prefix of the frame       *)
(* "sync"   fsync of wal.log fails in append_batch                          *)
(* "ckpt"   a step of checkpoint() fails, except the next one               *)
(* "reset"  writing the header fails after the log was truncated            *)
(***************************************************************************)
AllFaults == {"crash", "torn", "write", "sync", "ckpt", "reset"}

ASSUME WalAssumption ==
    /\ Faults \subseteq AllFaults
    /\ AppendBehindJunk \in BOOLEAN
    /\ MaxBatch \in Nat
    /\ MaxCheckpoints \in Nat

VARIABLES
    pc,         \* where the process is; "down" when it is not running
    db,         \* Engine: the batches published in memory
    len,        \* Wal.len: frames accounted for
    base_lsn,   \* Wal.base_lsn
    wal,        \* wal.log as the process sees it
    wal_synced, \* wal.log as of its last fsync
    ckpt,       \* checkpoint.dat as the process sees it
    ckpt_synced,\* checkpoint.dat as of the last fsync of the directory
    inflight,   \* the batch being appended, 0 if none
    submitted,  \* batches submitted so far
    acked,      \* history: batches whose append_batch returned Ok
    refused,    \* history: batches whose append_batch returned Err
    begun       \* checkpoints begun

files == <<wal, wal_synced, ckpt, ckpt_synced>>
memory == <<db, len, base_lsn>>
history == <<acked, refused>>
vars == <<pc, memory, files, inflight, submitted, history, begun>>

Torn == 0

(* wal.log: its header (absent when short or empty) and its frames.         *)
(* `gen' only tells one life of the file from the next.                     *)
NoHeader == [hdr |-> FALSE, gen |-> 0, base |-> 0, items |-> <<>>]
Generation(base, gen) == [hdr |-> TRUE, gen |-> gen, base |-> base, items |-> <<>>]

Init ==
    /\ pc = "idle"
    /\ db = <<>> /\ len = 0 /\ base_lsn = 0
    /\ wal = Generation(0, 0) /\ wal_synced = wal
    /\ ckpt = [end |-> 0, image |-> <<>>] /\ ckpt_synced = ckpt
    /\ inflight = 0 /\ submitted = 0
    /\ acked = <<>> /\ refused = {}
    /\ begun = 0

current_lsn == base_lsn + len

-----------------------------------------------------------------------------
(* append_batch. *)

(* Torn or unaccounted bytes behind the accounted frames, or no header. *)
Junk ==
    \/ ~wal.hdr
    \/ wal.base + Len(wal.items) > current_lsn
    \/ \E i \in DOMAIN wal.items : wal.items[i] = Torn

Submit ==
    /\ pc = "idle" /\ inflight = 0
    /\ submitted < MaxBatch
    /\ AppendBehindJunk \/ ~Junk
    /\ submitted' = submitted + 1
    /\ inflight' = submitted + 1
    /\ UNCHANGED <<pc, memory, files, history, begun>>

WriteAll ==
    /\ pc = "idle" /\ inflight # 0
    /\ pc' = "written"
    /\ wal' = [wal EXCEPT !.items = Append(@, inflight)]
    /\ UNCHANGED <<memory, wal_synced, ckpt, ckpt_synced, inflight, submitted, history, begun>>

(* append_batch returns Err; the caller undoes the transaction's writes. *)
Refuse ==
    /\ pc' = "idle"
    /\ inflight' = 0
    /\ refused' = refused \cup {inflight}
    /\ UNCHANGED <<memory, wal_synced, ckpt, ckpt_synced, submitted, acked, begun>>

WriteAllFails ==
    /\ "write" \in Faults
    /\ pc = "idle" /\ inflight # 0
    /\ \/ UNCHANGED wal
       \/ wal' = [wal EXCEPT !.items = Append(@, Torn)]
    /\ Refuse

(* Mutant of SyncAll: the frame is not added to the accounted length. *)
SyncAll_LenKept ==
    /\ pc = "written"
    /\ pc' = "idle"
    /\ wal_synced' = wal
    /\ db' = Append(db, inflight)
    /\ acked' = Append(acked, inflight)
    /\ inflight' = 0
    /\ UNCHANGED <<len, base_lsn, wal, ckpt, ckpt_synced, submitted, refused, begun>>

SyncAll ==
    /\ pc = "written"
    /\ pc' = "idle"
    /\ wal_synced' = wal
    /\ len' = len + 1
    /\ db' = Append(db, inflight)
    /\ acked' = Append(acked, inflight)
    /\ inflight' = 0
    /\ UNCHANGED <<base_lsn, wal, ckpt, ckpt_synced, submitted, refused, begun>>

SyncAllFails ==
    /\ "sync" \in Faults
    /\ pc = "written"
    /\ UNCHANGED wal
    /\ Refuse

-----------------------------------------------------------------------------
(* checkpoint(), under the engine and the wal lock throughout. *)

(* Mutant of Rename: wal_end is one frame short. *)
Rename_OffByOne ==
    /\ pc = "idle" /\ inflight = 0
    /\ begun < MaxCheckpoints
    /\ begun' = begun + 1
    /\ pc' = "renamed"
    /\ ckpt' = [end |-> current_lsn - 1, image |-> db]
    /\ UNCHANGED <<memory, wal, wal_synced, ckpt_synced, inflight, submitted, history>>

(* Steps 1-3: encode, write and fsync the tmp file, rename it. *)
Rename ==
    /\ pc = "idle" /\ inflight = 0
    /\ begun < MaxCheckpoints
    /\ begun' = begun + 1
    /\ pc' = "renamed"
    /\ ckpt' = [end |-> current_lsn, image |-> db]
    /\ UNCHANGED <<memory, wal, wal_synced, ckpt_synced, inflight, submitted, history>>

(* Mutant of DirSync: the directory is not fsynced. *)
DirSync_Skipped ==
    /\ pc = "renamed"
    /\ pc' = "dir_synced"
    /\ UNCHANGED <<memory, files, inflight, submitted, history, begun>>

DirSync ==
    /\ pc = "renamed"
    /\ pc' = "dir_synced"
    /\ ckpt_synced' = ckpt
    /\ UNCHANGED <<memory, wal, wal_synced, ckpt, inflight, submitted, history, begun>>

SetLen ==
    /\ pc = "dir_synced"
    /\ pc' = "truncated"
    /\ wal' = NoHeader
    /\ UNCHANGED <<memory, wal_synced, ckpt, ckpt_synced, inflight, submitted, history, begun>>

WriteHeader ==
    /\ pc = "truncated"
    /\ pc' = "headed"
    /\ wal' = Generation(ckpt.end, begun)
    /\ UNCHANGED <<memory, wal_synced, ckpt, ckpt_synced, inflight, submitted, history, begun>>

SyncReset ==
    /\ pc = "headed"
    /\ pc' = "idle"
    /\ wal_synced' = wal
    /\ len' = 0
    /\ base_lsn' = ckpt.end
    /\ UNCHANGED <<db, wal, ckpt, ckpt_synced, inflight, submitted, history, begun>>

(* An early return of checkpoint(): the server goes on with what there is. *)
CheckpointFails ==
    /\ \/ pc \in {"renamed", "dir_synced", "headed"} /\ "ckpt" \in Faults
       \/ pc = "truncated" /\ "reset" \in Faults
    /\ pc' = "idle"
    /\ UNCHANGED <<memory, files, inflight, submitted, history, begun>>

-----------------------------------------------------------------------------
(* Crash and recovery. *)

(***************************************************************************)
(* What wal.log may hold after a crash: any prefix of what was written that *)
(* contains the fsynced frames, the next frame possibly torn; and, while a  *)
(* reset is not fsynced, the old generation or nothing.                     *)
(***************************************************************************)
CrashImages ==
    LET same == wal.hdr /\ wal.gen = wal_synced.gen
        cut == {n \in 0..Len(wal.items) : same => n >= Len(wal_synced.items)}
        Cut(n) == SubSeq(wal.items, 1, n)
    IN  {[wal EXCEPT !.items = Cut(n)] : n \in cut}
        \cup {[wal EXCEPT !.items = Append(Cut(n), Torn)] :
                n \in {m \in cut : "torn" \in Faults /\ m < Len(wal.items)}}
        \cup {w \in {wal_synced, NoHeader} : ~same}

Crash ==
    /\ "crash" \in Faults
    /\ pc # "down"
    /\ pc' = "down"
    /\ wal' \in CrashImages
    /\ wal_synced' = wal'
    /\ ckpt' \in {ckpt, ckpt_synced}
    /\ ckpt_synced' = ckpt'
    /\ inflight' = 0
    /\ UNCHANGED <<memory, submitted, history, begun>>

(* The frames read_frame returns: those before the first torn one. *)
Readable(items) ==
    SubSeq(items, 1, CHOOSE n \in 0..Len(items) :
                        /\ \A i \in 1..n : items[i] # Torn
                        /\ n < Len(items) => items[n + 1] = Torn)

(* Mutant of Covered: every frame in the log is replayed. *)
Covered_None(w, c) == 0

(* The frames whose LSN is below the checkpoint's end. *)
Covered(w, c) == IF c.end > w.base THEN c.end - w.base ELSE 0

(* The checkpoint image plus every later readable frame. *)
Replay(w, c) ==
    LET frames == Readable(w.items)
    IN  c.image \o SubSeq(frames, Covered(w, c) + 1, Len(frames))

(* read_wal_header rejects a log that does not begin with a header. *)
Openable == wal.hdr \/ wal.items = <<>>

(* Mutant of Opened: a fresh generation always starts at LSN 0. *)
Opened_AtZero == IF wal.hdr THEN wal ELSE Generation(0, begun)

(* The log open() goes on with: an empty or torn one starts a generation.   *)
(* A crash before the new header is fsynced leaves it empty or torn again.  *)
Opened == IF wal.hdr THEN wal ELSE Generation(ckpt.end, begun)

Open ==
    /\ pc = "down"
    /\ Openable
    /\ pc' = "idle"
    /\ wal' = Opened
    /\ wal_synced' = Opened
    /\ db' = Replay(Opened, ckpt)
    /\ len' = Len(Opened.items)
    /\ base_lsn' = Opened.base
    /\ UNCHANGED <<ckpt, ckpt_synced, inflight, submitted, history, begun>>

Next ==
    \/ Submit \/ WriteAll \/ WriteAllFails \/ SyncAll \/ SyncAllFails
    \/ Rename \/ DirSync \/ SetLen \/ WriteHeader \/ SyncReset \/ CheckpointFails
    \/ Crash \/ Open

Spec == Init /\ [][Next]_vars
-----------------------------------------------------------------------------
(* Properties. *)

WalFile == [hdr : BOOLEAN, gen : Nat, base : Nat, items : Seq(Nat)]
Checkpoint == [end : Nat, image : Seq(Nat)]

(* Every variable has the shape of what it stands for, and an append is in  *)
(* flight exactly while a batch number is.                                  *)
TypeOK ==
    /\ pc \in {"down", "idle", "written", "renamed", "dir_synced", "truncated", "headed"}
    /\ db \in Seq(Nat) /\ len \in Nat /\ base_lsn \in Nat
    /\ wal \in WalFile /\ wal_synced \in WalFile
    /\ ckpt \in Checkpoint /\ ckpt_synced \in Checkpoint
    /\ submitted \in Nat /\ inflight \in 0..submitted
    /\ pc = "written" => inflight # 0
    /\ pc \notin {"idle", "written"} => inflight = 0
    /\ acked \in Seq(Nat) /\ refused \subseteq Nat
    /\ begun \in Nat

(* What the engine holds, or would hold after the next open(). *)
Recovered ==
    IF pc # "down" THEN db ELSE IF Openable THEN Replay(Opened, ckpt) ELSE <<>>

(* A batch whose append_batch returned Ok is never lost again, whatever     *)
(* append, checkpoint step or crash comes after it.                         *)
AckedSurvive ==
    \A i \in DOMAIN acked : \E j \in DOMAIN Recovered : Recovered[j] = acked[i]

(* A batch whose append_batch returned Err is never seen, not even after a  *)
(* restart.                                                                 *)
RefusedNeverVisible == \A j \in DOMAIN Recovered : Recovered[j] \notin refused

(* No batch is applied twice: replaying InsertRows is not idempotent.       *)
AppliedOnce == \A i, j \in DOMAIN Recovered : Recovered[i] = Recovered[j] => i = j

(* Acknowledged batches are there, and each batch once, whatever fails.     *)
AckedOnce == AckedSurvive /\ AppliedOnce

(* Unless a refused append has left bytes behind, the physical end of the   *)
(* log agrees with the LSN that append_batch, checkpoint and the slots      *)
(* compute from base_lsn and len, failed checkpoints included.              *)
LsnMatchesFile ==
    /\ pc = "idle" /\ inflight = 0 /\ wal.hdr
    /\ \A i \in DOMAIN wal.items : wal.items[i] # Torn /\ wal.items[i] \notin refused
    => wal.base + Len(wal.items) = current_lsn

(* The end of the log, as open() would compute it when the server is down,  *)
(* never moves back: LSNs handed to replication slots stay in the past.     *)
EndLsn == IF pc # "down" THEN current_lsn ELSE Opened.base + Len(Opened.items)

LsnNeverRegresses == [][EndLsn' >= EndLsn]_vars

Log == INSTANCE DurableLog WITH log <- Recovered

(* wal.log and checkpoint.dat implement the durable log: acknowledged       *)
(* batches survive once and in order, refused ones never appear, and only   *)
(* the batch in flight at a crash is uncertain.                             *)
ImplementsLog == Log!Spec
=============================================================================
