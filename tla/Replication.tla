----------------------------- MODULE Replication -----------------------------
(***************************************************************************)
(* Replication slots and the walsender (repl.rs): CREATE and DROP of a      *)
(* slot, START_REPLICATION, the poll loop that streams committed frames,    *)
(* the consumer's standby status, the records that make a slot durable      *)
(* (recovery.rs), CHECKPOINT, which truncates the log the walsender reads,   *)
(* and a crash.                                                             *)
(*                                                                         *)
(* A connection's thread takes the engine lock, the wal lock or both for a  *)
(* part of a command; each such part is one action, and pc[c] says which    *)
(* part comes next.  Socket writes touch nothing shared and belong to the    *)
(* part before them.  A frame counts one LSN.  An append either adds its     *)
(* frame or adds nothing (Wal.tla has the torn and unsynced cases), and a   *)
(* checkpoint is one step (Wal.tla has its crash points).  Slot names are   *)
(* well formed and every slot is logical.                                   *)
(***************************************************************************)
EXTENDS Integers, Sequences, FiniteSets, FiniteSetsExt

CONSTANTS
    Conns,              \* replication connections
    Names,              \* slot names
    Faults,             \* subset of AllFaults
    OverlappingDDL,     \* may commands on one slot overlap a CREATE or DROP of it?
    MaxLsn,             \* bound on the log
    MaxCommits,         \* bound on data frames
    MaxCheckpoints,     \* bound on checkpoints
    MaxCrashes          \* bound on crashes

(***************************************************************************)
(* "append"   append_batch fails for a slot record                          *)
(* "startup"  the CopyBoth response cannot be sent                          *)
(* "send"     a socket write or the log read fails inside the poll loop     *)
(* "slow"     a standby status arrives in two parts                         *)
(***************************************************************************)
AllFaults == {"append", "startup", "send", "slow"}

ASSUME ReplicationAssumption ==
    /\ Names # {}
    /\ Faults \subseteq AllFaults
    /\ OverlappingDDL \in BOOLEAN
    /\ MaxLsn \in Nat
    /\ MaxCommits \in Nat
    /\ MaxCheckpoints \in Nat
    /\ MaxCrashes \in Nat

VARIABLES
    slots,      \* Engine.repl_slots, NoSlot where there is none
    log,        \* the frames of wal.log
    base_lsn,   \* Wal.base_lsn
    image,      \* the slots in checkpoint.dat
    pc,         \* per connection: the next part of its command
    slot_name,  \* per connection: the slot its command is about
    next_lsn,   \* per connection: stream_loop's next_lsn
    saved,      \* per connection: the slot record a command works on unlocked
    end,        \* per connection: where the thread goes after the cleanup
    sent,       \* per connection: LSNs written to the socket by this stream
    chan,       \* per connection: LSNs written and not yet received
    torn,       \* per connection: did a read time out inside a message?
    got,        \* per slot: LSNs its consumer has received
    born,       \* history, per slot: the LSN it was created at
    lost,       \* history, per slot: unconfirmed frames a checkpoint removed
    commits,    \* history: LSNs of the data frames
    checkpoints, crashes

disk == <<log, base_lsn, image>>
sender == <<slot_name, next_lsn, saved, end>>
network == <<sent, chan, torn>>
consumer == <<got, born, lost>>
counters == <<commits, checkpoints, crashes>>
vars == <<slots, disk, pc, sender, network, consumer, counters>>

LSN == Nat
NoSlot == [restart |-> 0, confirmed |-> 0, active |-> FALSE, exists |-> FALSE]
NewSlot(lsn) == [restart |-> lsn, confirmed |-> lsn, active |-> FALSE, exists |-> TRUE]

Larger(a, b) == IF a > b THEN a ELSE b

Init ==
    /\ slots = [s \in Names |-> NoSlot]
    /\ log = <<>> /\ base_lsn = 0
    /\ image = [s \in Names |-> NoSlot]
    /\ pc = [c \in Conns |-> "cmd"]
    /\ slot_name \in [Conns -> {CHOOSE s \in Names : TRUE}]
    /\ next_lsn = [c \in Conns |-> 0]
    /\ saved = [c \in Conns |-> NoSlot]
    /\ end = [c \in Conns |-> "cmd"]
    /\ sent = [c \in Conns |-> <<>>]
    /\ chan = [c \in Conns |-> <<>>]
    /\ torn = [c \in Conns |-> FALSE]
    /\ got = [s \in Names |-> {}]
    /\ born = [s \in Names |-> 0]
    /\ lost = [s \in Names |-> {}]
    /\ commits = {} /\ checkpoints = 0 /\ crashes = 0

current_lsn == base_lsn + Len(log)

-----------------------------------------------------------------------------
(* Slot records in the log, and what recovery makes of them. *)

Frame(kind, s, slot) ==
    [kind |-> kind, slot |-> s, restart |-> slot.restart, confirmed |-> slot.confirmed]

(* Mutant of apply_record: a flush record overwrites the positions. *)
apply_record_Overwrite(eng, r) ==
    CASE r.kind = "create" -> [eng EXCEPT ![r.slot] = NewSlot(r.restart)]
      [] r.kind = "drop"   -> [eng EXCEPT ![r.slot] = NoSlot]
      [] r.kind = "flush" /\ eng[r.slot].exists ->
            [eng EXCEPT ![r.slot].confirmed = r.confirmed, ![r.slot].restart = r.restart]
      [] OTHER -> eng

apply_record(eng, r) ==
    CASE r.kind = "create" -> [eng EXCEPT ![r.slot] = NewSlot(r.restart)]
      [] r.kind = "drop"   -> [eng EXCEPT ![r.slot] = NoSlot]
      [] r.kind = "flush" /\ eng[r.slot].exists ->
            [eng EXCEPT ![r.slot].confirmed = Larger(@, r.confirmed),
                        ![r.slot].restart = Larger(@, r.restart)]
      [] OTHER -> eng

(* `active' is not stored. *)
Inactive(slot) ==
    [restart |-> slot.restart, confirmed |-> slot.confirmed, active |-> FALSE,
     exists |-> slot.exists]

(* Replay of the frames over the slots of an image. *)
Replayed(img, frames) ==
    LET eng[n \in 0..Len(frames)] ==
            IF n = 0 THEN img ELSE apply_record(eng[n - 1], frames[n])
    IN  eng[Len(frames)]

(* The slots a restart brings back: checkpoint image, then the log behind it. *)
Recovered == Replayed(image, log)

append_batch(r) ==
    /\ log' = Append(log, r)
    /\ UNCHANGED <<base_lsn, image>>

(* The bound on the log; room is kept for the slot commands under way. *)
Room == current_lsn + Cardinality({c \in Conns : pc[c] \in {"create_log", "drop_log"}}) < MaxLsn

(* A command or a stream is over, and with it the thread's locals. *)
Return(c, to) ==
    /\ pc' = [pc EXCEPT ![c] = to]
    /\ next_lsn' = [next_lsn EXCEPT ![c] = 0]
    /\ saved' = [saved EXCEPT ![c] = NoSlot]
    /\ end' = [end EXCEPT ![c] = "cmd"]
    /\ sent' = [sent EXCEPT ![c] = <<>>]
    /\ torn' = [torn EXCEPT ![c] = FALSE]
    /\ UNCHANGED <<slot_name, chan>>

-----------------------------------------------------------------------------
(* CREATE_REPLICATION_SLOT and DROP_REPLICATION_SLOT.  A client issues a    *)
(* command after ReadyForQuery, which follows all data of an earlier stream.*)

InDDL(s) == {c \in Conns : slot_name[c] = s
                /\ pc[c] \in {"create_log", "create_undo", "drop_log", "drop_undo"}}

(* Without OverlappingDDL nobody names a slot while a CREATE or DROP of it  *)
(* is under way, nor creates it while a START of it is.                     *)
MayIssue(s) == OverlappingDDL \/ InDDL(s) = {}
MayCreate(s) ==
    /\ MayIssue(s)
    /\ OverlappingDDL \/ ~\E c \in Conns : slot_name[c] = s /\ pc[c] = "start"

(* The slot enters the catalog; the engine lock is released before the      *)
(* record is appended.                                                      *)
create_slot(c, s) ==
    /\ pc[c] = "cmd" /\ MayCreate(s) /\ chan[c] = <<>> /\ Room
    /\ ~slots[s].exists
    /\ slots' = [slots EXCEPT ![s] = NewSlot(current_lsn)]
    /\ saved' = [saved EXCEPT ![c] = NewSlot(current_lsn)]
    /\ slot_name' = [slot_name EXCEPT ![c] = s]
    /\ pc' = [pc EXCEPT ![c] = "create_log"]
    /\ born' = [born EXCEPT ![s] = current_lsn]
    /\ got' = [got EXCEPT ![s] = {}]
    /\ lost' = [lost EXCEPT ![s] = {}]
    /\ UNCHANGED <<disk, next_lsn, end, network, counters>>

CreateLogged(c) ==
    /\ pc[c] = "create_log"
    /\ append_batch(Frame("create", slot_name[c], saved[c]))
    /\ Return(c, "cmd")
    /\ UNCHANGED <<slots, consumer, counters>>

CreateNotLogged(c) ==
    /\ pc[c] = "create_log" /\ "append" \in Faults
    /\ pc' = [pc EXCEPT ![c] = "create_undo"]
    /\ UNCHANGED <<slots, disk, sender, network, consumer, counters>>

(* Mutant of CreateUndo: a failed append leaves the slot in the catalog. *)
CreateUndo_Kept(c) ==
    /\ pc[c] = "create_undo"
    /\ Return(c, "cmd")
    /\ UNCHANGED <<slots, disk, consumer, counters>>

CreateUndo(c) ==
    /\ pc[c] = "create_undo"
    /\ slots' = [slots EXCEPT ![slot_name[c]] = NoSlot]
    /\ Return(c, "cmd")
    /\ UNCHANGED <<disk, consumer, counters>>

drop_slot(c, s) ==
    /\ pc[c] = "cmd" /\ MayIssue(s) /\ chan[c] = <<>> /\ Room
    /\ slots[s].exists /\ ~slots[s].active
    /\ saved' = [saved EXCEPT ![c] = slots[s]]
    /\ slots' = [slots EXCEPT ![s] = NoSlot]
    /\ slot_name' = [slot_name EXCEPT ![c] = s]
    /\ pc' = [pc EXCEPT ![c] = "drop_log"]
    /\ UNCHANGED <<disk, next_lsn, end, network, consumer, counters>>

DropLogged(c) ==
    /\ pc[c] = "drop_log"
    /\ append_batch(Frame("drop", slot_name[c], saved[c]))
    /\ Return(c, "cmd")
    /\ UNCHANGED <<slots, consumer, counters>>

DropNotLogged(c) ==
    /\ pc[c] = "drop_log" /\ "append" \in Faults
    /\ pc' = [pc EXCEPT ![c] = "drop_undo"]
    /\ UNCHANGED <<slots, disk, sender, network, consumer, counters>>

DropUndo(c) ==
    /\ pc[c] = "drop_undo"
    /\ slots' = [slots EXCEPT ![slot_name[c]] = saved[c]]
    /\ Return(c, "cmd")
    /\ UNCHANGED <<disk, consumer, counters>>

(* IDENTIFY_SYSTEM, and every command that is refused. *)
ReadOnlyCommand(c) ==
    /\ pc[c] = "cmd"
    /\ UNCHANGED vars

SlotCommand(c) ==
    \/ ReadOnlyCommand(c)
    \/ \E s \in Names : create_slot(c, s) \/ drop_slot(c, s)
    \/ CreateLogged(c) \/ CreateNotLogged(c) \/ CreateUndo(c)
    \/ DropLogged(c) \/ DropNotLogged(c) \/ DropUndo(c)

-----------------------------------------------------------------------------
(* START_REPLICATION: the pre-check, then stream_changes. *)

(* The consumer asks for 0/0 or for the last frame it has. *)
start_replication(c, s) ==
    /\ pc[c] = "cmd" /\ MayIssue(s) /\ chan[c] = <<>>
    /\ slots[s].exists /\ ~slots[s].active
    /\ \E start \in {0} \cup (IF got[s] = {} THEN {} ELSE {Max(got[s])}) :
            next_lsn' = [next_lsn EXCEPT ![c] = start]
    /\ slot_name' = [slot_name EXCEPT ![c] = s]
    /\ pc' = [pc EXCEPT ![c] = "start"]
    /\ UNCHANGED <<slots, disk, saved, end, network, consumer, counters>>

(* Mutant of Activate: only the pre-check looks at `active'. *)
Activate_Unchecked(c) ==
    LET s == slot_name[c] IN
    /\ pc[c] = "start"
    /\ slots[s].exists
    /\ slots' = [slots EXCEPT ![s].active = TRUE]
    /\ next_lsn' = [next_lsn EXCEPT ![c] = Larger(@, slots[s].confirmed)]
    /\ pc' = [pc EXCEPT ![c] = "copyboth"]
    /\ UNCHANGED <<disk, slot_name, saved, end, network, consumer, counters>>

(* Mutant of Activate: the stream starts one frame early. *)
Activate_OneEarly(c) ==
    LET s == slot_name[c] IN
    /\ pc[c] = "start"
    /\ slots[s].exists /\ ~slots[s].active
    /\ slots' = [slots EXCEPT ![s].active = TRUE]
    /\ next_lsn' = [next_lsn EXCEPT ![c] = Larger(@, slots[s].confirmed) - 1]
    /\ pc' = [pc EXCEPT ![c] = "copyboth"]
    /\ UNCHANGED <<disk, slot_name, saved, end, network, consumer, counters>>

(* Mutant of Activate: the stream starts at restart_lsn. *)
Activate_AtRestart(c) ==
    LET s == slot_name[c] IN
    /\ pc[c] = "start"
    /\ slots[s].exists /\ ~slots[s].active
    /\ slots' = [slots EXCEPT ![s].active = TRUE]
    /\ next_lsn' = [next_lsn EXCEPT ![c] = Larger(@, slots[s].restart)]
    /\ pc' = [pc EXCEPT ![c] = "copyboth"]
    /\ UNCHANGED <<disk, slot_name, saved, end, network, consumer, counters>>

Activate(c) ==
    LET s == slot_name[c] IN
    /\ pc[c] = "start"
    /\ slots[s].exists /\ ~slots[s].active
    /\ slots' = [slots EXCEPT ![s].active = TRUE]
    /\ next_lsn' = [next_lsn EXCEPT ![c] = Larger(@, slots[s].confirmed)]
    /\ pc' = [pc EXCEPT ![c] = "copyboth"]
    /\ UNCHANGED <<disk, slot_name, saved, end, network, consumer, counters>>

(* The slot went, or another walsender took it, since the pre-check: the    *)
(* error closes the connection.                                             *)
ActivateRefused(c) ==
    /\ pc[c] = "start"
    /\ ~slots[slot_name[c]].exists \/ slots[slot_name[c]].active
    /\ Return(c, "gone")
    /\ UNCHANGED <<slots, disk, consumer, counters>>

CopyBothSent(c) ==
    /\ pc[c] = "copyboth"
    /\ pc' = [pc EXCEPT ![c] = "poll"]
    /\ UNCHANGED <<slots, disk, sender, network, consumer, counters>>

(* `?' between the activation and the cleanup: the slot stays active. *)
CopyBothFails(c) ==
    /\ pc[c] = "copyboth" /\ "startup" \in Faults
    /\ Return(c, "gone")
    /\ UNCHANGED <<slots, disk, consumer, counters>>

-----------------------------------------------------------------------------
(* stream_loop: one round of poll and send, progress, read. *)

read_frames_since(from) ==
    LET first == Larger(from, base_lsn)
    IN  [i \in 1..Larger(0, current_lsn - first) |->
            [lsn |-> first + i - 1, data |-> log[first - base_lsn + i].kind = "commit"]]

(* Only data frames decode to lines. *)
Lines(frames) ==
    LET lines[n \in 0..Len(frames)] ==
            IF n = 0 THEN <<>>
            ELSE IF frames[n].data THEN Append(lines[n - 1], frames[n].lsn) ELSE lines[n - 1]
    IN  lines[Len(frames)]

Send(c, lines) ==
    /\ sent' = [sent EXCEPT ![c] = @ \o lines]
    /\ chan' = [chan EXCEPT ![c] = @ \o lines]

(* Mutant of Poll: the position stays where it is. *)
Poll_Stuck(c) ==
    /\ pc[c] = "poll"
    /\ pc' = [pc EXCEPT ![c] = "read"]
    /\ UNCHANGED <<slots, disk, sender, network, consumer, counters>>

(* Read the frames from next_lsn on, send their lines; the end of the last  *)
(* frame is the end of the log at the poll.                                 *)
Poll(c) ==
    LET frames == read_frames_since(next_lsn[c]) IN
    /\ pc[c] = "poll"
    /\ Send(c, Lines(frames))
    /\ next_lsn' = [next_lsn EXCEPT ![c] = IF frames = <<>> THEN @ ELSE Larger(@, current_lsn)]
    /\ pc' = [pc EXCEPT ![c] = IF frames = <<>> THEN "read" ELSE "progress"]
    /\ UNCHANGED <<slots, disk, slot_name, saved, end, torn, consumer, counters>>

(* The read of the log, a write or the keepalive fails: a part of the batch *)
(* may be on its way, and the loop returns the error.                       *)
StreamFails(c) ==
    LET frames == read_frames_since(next_lsn[c]) IN
    /\ pc[c] = "poll" /\ "send" \in Faults
    /\ \E n \in 0..Len(frames) : Send(c, Lines(SubSeq(frames, 1, n)))
    /\ pc' = [pc EXCEPT ![c] = "cleanup"]
    /\ end' = [end EXCEPT ![c] = "gone"]
    /\ UNCHANGED <<slots, disk, slot_name, next_lsn, saved, torn, consumer, counters>>

Progress(c) ==
    LET s == slot_name[c] IN
    /\ pc[c] = "progress"
    /\ slots' = IF slots[s].exists
                THEN [slots EXCEPT ![s].restart = Larger(@, next_lsn[c])]
                ELSE slots
    /\ pc' = [pc EXCEPT ![c] = "read"]
    /\ UNCHANGED <<disk, sender, network, consumer, counters>>

(* Confirm up to lsn; the log record follows at most once a second.  The    *)
(* keepalive that may come before the next poll changes nothing.            *)
Confirm(c, new) ==
    /\ IF slots[slot_name[c]].exists
       THEN /\ slots' = [slots EXCEPT ![slot_name[c]] = new]
            /\ \/ pc' = [pc EXCEPT ![c] = "flush_log"] /\ saved' = [saved EXCEPT ![c] = new]
               \/ pc' = [pc EXCEPT ![c] = "poll"] /\ UNCHANGED saved
       ELSE /\ pc' = [pc EXCEPT ![c] = "poll"]
            /\ UNCHANGED <<slots, saved>>
    /\ UNCHANGED <<disk, slot_name, next_lsn, end, network, consumer, counters>>

(* A standby status 'r'.  The consumer confirms the start of a frame it has *)
(* received, not always of the last one: a status may be old when read.     *)
ReadStatus(c) ==
    LET slot == slots[slot_name[c]] IN
    /\ pc[c] = "read" /\ ~torn[c]
    /\ \E flushed \in got[slot_name[c]] :
            Confirm(c, IF flushed > slot.confirmed
                       THEN [slot EXCEPT !.confirmed = flushed, !.restart = Larger(@, flushed)]
                       ELSE slot)

(* Nothing, or only the first part of a status, within POLL_INTERVAL.  The  *)
(* part that was read is thrown away.                                       *)
ReadTimeout(c) ==
    /\ pc[c] = "read" /\ ~torn[c]
    /\ \/ UNCHANGED torn
       \/ /\ "slow" \in Faults /\ got[slot_name[c]] # {}
          /\ torn' = [torn EXCEPT ![c] = TRUE]
    /\ pc' = [pc EXCEPT ![c] = "poll"]
    /\ UNCHANGED <<slots, disk, sender, sent, chan, consumer, counters>>

(* The rest of a status whose first part was thrown away is read as a       *)
(* message of an unknown type.                                              *)
ReadGarbage(c) ==
    /\ pc[c] = "read" /\ torn[c]
    /\ pc' = [pc EXCEPT ![c] = "cleanup"]
    /\ end' = [end EXCEPT ![c] = "gone"]
    /\ UNCHANGED <<slots, disk, slot_name, next_lsn, saved, network, consumer, counters>>

(* CopyDone returns to command mode; Terminate, a disconnect or a protocol  *)
(* error end the connection.                                                *)
ReadEnd(c) ==
    /\ pc[c] = "read" /\ ~torn[c]
    /\ pc' = [pc EXCEPT ![c] = "cleanup"]
    /\ end' \in {[end EXCEPT ![c] = e] : e \in {"cmd", "gone"}}
    /\ UNCHANGED <<slots, disk, slot_name, next_lsn, saved, network, consumer, counters>>

(* log_slot_flush: its error is only printed.  A full log is one. *)
log_slot_flush(c) ==
    \/ Room /\ append_batch(Frame("flush", slot_name[c], saved[c]))
    \/ ("append" \in Faults \/ ~Room) /\ UNCHANGED disk

FlushLog(c) ==
    /\ pc[c] = "flush_log"
    /\ log_slot_flush(c)
    /\ saved' = [saved EXCEPT ![c] = NoSlot]
    /\ pc' = [pc EXCEPT ![c] = "poll"]
    /\ UNCHANGED <<slots, slot_name, next_lsn, end, network, consumer, counters>>

Cleanup(c) ==
    LET s == slot_name[c] IN
    /\ pc[c] = "cleanup"
    /\ IF slots[s].exists
       THEN /\ slots' = [slots EXCEPT ![s].active = FALSE]
            /\ saved' = [saved EXCEPT ![c] = slots[s]]
            /\ pc' = [pc EXCEPT ![c] = "final_log"]
            /\ UNCHANGED <<slot_name, next_lsn, end>>
            /\ UNCHANGED network
       ELSE Return(c, end[c]) /\ UNCHANGED slots
    /\ UNCHANGED <<disk, consumer, counters>>

FinalLog(c) ==
    /\ pc[c] = "final_log"
    /\ log_slot_flush(c)
    /\ Return(c, end[c])
    /\ UNCHANGED <<slots, consumer, counters>>

(* What the walsender's thread does on its own. *)
Walsender(c) ==
    \/ Activate(c) \/ ActivateRefused(c) \/ CopyBothSent(c) \/ CopyBothFails(c)
    \/ Poll(c) \/ StreamFails(c) \/ Progress(c)
    \/ ReadStatus(c) \/ ReadTimeout(c) \/ ReadGarbage(c)
    \/ FlushLog(c) \/ Cleanup(c) \/ FinalLog(c)

-----------------------------------------------------------------------------
(* The consumer at the other end, external to the code. *)

Receive(c) ==
    /\ chan[c] # <<>>
    /\ got' = [got EXCEPT ![slot_name[c]] = @ \cup {Head(chan[c])}]
    /\ chan' = [chan EXCEPT ![c] = Tail(@)]
    /\ UNCHANGED <<slots, disk, pc, sender, sent, torn, born, lost, counters>>

(* A new connection; what the old one still carried is lost. *)
Reconnect(c) ==
    /\ pc[c] = "gone"
    /\ pc' = [pc EXCEPT ![c] = "cmd"]
    /\ chan' = [chan EXCEPT ![c] = <<>>]
    /\ UNCHANGED <<slots, disk, sender, sent, torn, consumer, counters>>

Consumer(c) ==
    \/ Receive(c) \/ Reconnect(c)
    \/ ReadEnd(c) \/ \E s \in Names : start_replication(c, s)

-----------------------------------------------------------------------------
(* The rest of the server. *)

(* An SQL session commits a change. *)
Commit ==
    /\ Cardinality(commits) < MaxCommits /\ Room
    /\ append_batch(Frame("commit", CHOOSE s \in Names : TRUE, NoSlot))
    /\ commits' = commits \cup {current_lsn}
    /\ UNCHANGED <<slots, pc, sender, network, consumer, checkpoints, crashes>>

(* Mutant of checkpoint: the image leaves the slots out. *)
checkpoint_NoSlots ==
    /\ checkpoints < MaxCheckpoints
    /\ image' = [s \in Names |-> NoSlot]
    /\ base_lsn' = current_lsn
    /\ log' = <<>>
    /\ checkpoints' = checkpoints + 1
    /\ UNCHANGED <<slots, pc, sender, network, consumer, commits, crashes>>

(* The image holds the catalog, `active' apart; the log is truncated        *)
(* whatever the slots still need.                                           *)
checkpoint ==
    /\ checkpoints < MaxCheckpoints
    /\ image' = [s \in Names |-> Inactive(slots[s])]
    /\ base_lsn' = current_lsn
    /\ log' = <<>>
    /\ lost' = [s \in Names |-> lost[s] \cup
                    {f \in commits : slots[s].exists /\ base_lsn <= f /\ slots[s].confirmed <= f}]
    /\ checkpoints' = checkpoints + 1
    /\ UNCHANGED <<slots, pc, sender, network, got, born, commits, crashes>>

Crash ==
    /\ crashes < MaxCrashes
    /\ slots' = [s \in Names |-> Inactive(Recovered[s])]
    /\ pc' = [c \in Conns |-> "gone"]
    /\ next_lsn' = [c \in Conns |-> 0]
    /\ saved' = [c \in Conns |-> NoSlot]
    /\ end' = [c \in Conns |-> "cmd"]
    /\ sent' = [c \in Conns |-> <<>>]
    /\ torn' = [c \in Conns |-> FALSE]
    /\ crashes' = crashes + 1
    /\ UNCHANGED <<disk, slot_name, chan, consumer, commits, checkpoints>>

Next ==
    \/ \E c \in Conns : SlotCommand(c) \/ Walsender(c) \/ Consumer(c)
    \/ Commit \/ checkpoint \/ Crash

Spec == Init /\ [][Next]_vars

(* The thread of a walsender runs on: neither mutex is held across a wait,   *)
(* and every read of the socket is bounded by POLL_INTERVAL.                *)
FairSpec == Spec /\ \A c \in Conns : WF_vars(Walsender(c))

-----------------------------------------------------------------------------
(* Properties. *)

(* A walsender between the activation of its slot and the cleanup. *)
Streaming == {"copyboth", "poll", "progress", "read", "flush_log", "cleanup"}

SlotRecord == [restart : LSN, confirmed : LSN, active : BOOLEAN, exists : BOOLEAN]

(* The type invariant. *)
TypeOK ==
    /\ slots \in [Names -> SlotRecord]
    /\ log \in Seq([kind : {"commit", "create", "drop", "flush"}, slot : Names,
                     restart : LSN, confirmed : LSN])
    /\ base_lsn \in LSN
    /\ image \in [Names -> SlotRecord]
    /\ pc \in [Conns -> Streaming \cup {"cmd", "gone", "start", "final_log",
                        "create_log", "create_undo", "drop_log", "drop_undo"}]
    /\ slot_name \in [Conns -> Names]
    /\ next_lsn \in [Conns -> LSN]
    /\ saved \in [Conns -> SlotRecord]
    /\ end \in [Conns -> {"cmd", "gone"}]
    /\ sent \in [Conns -> Seq(LSN)]
    /\ chan \in [Conns -> Seq(LSN)]
    /\ torn \in [Conns -> BOOLEAN]
    /\ got \in [Names -> SUBSET LSN]
    /\ born \in [Names -> LSN]
    /\ lost \in [Names -> SUBSET LSN]
    /\ commits \in SUBSET LSN
    /\ checkpoints \in Nat /\ crashes \in Nat

(* A walsender holds the slot it streams: a slot is active exactly while    *)
(* one connection is between its activation and its cleanup                 *)
(* (stream_changes).  A slot left active could never be started or dropped; *)
(* two walsenders on one slot would confirm for each other.                 *)
ActiveHasOneStream ==
    \A s \in Names :
        LET holders == {c \in Conns : slot_name[c] = s /\ pc[c] \in Streaming}
        IN  IF slots[s].active THEN Cardinality(holders) = 1 ELSE holders = {}

(* Outside the window between the catalog change and its record, a restart  *)
(* would bring back exactly the slots the catalog shows: a slot reported    *)
(* created survives, a slot reported dropped does not reappear, whatever    *)
(* appends failed and wherever the checkpoint fell (create_slot, drop_slot).*)
SlotCatalogDurable ==
    \A s \in Names : InDDL(s) = {} => (Recovered[s].exists <=> slots[s].exists)

(* Every change below the confirmed position of a slot was received by its  *)
(* consumer, or a CHECKPOINT removed it first: streams broken off, resumed  *)
(* on another connection or after a crash leave no gap (stream_loop,        *)
(* stream_changes).                                                         *)
NoGap ==
    \A s \in Names : slots[s].exists =>
        \A f \in commits : born[s] <= f /\ f < slots[s].confirmed => f \in got[s] \cup lost[s]

(* One stream sends the changes in log order and each at most once. *)
StreamInOrder ==
    \A c \in Conns : \A i, j \in DOMAIN sent[c] : i < j => sent[c][i] < sent[c][j]

(* Whatever breaks off, times out, is checkpointed away or restarted, the   *)
(* consumer confirms nothing it has not received and one stream neither     *)
(* repeats nor reorders.                                                    *)
StreamFaithful == NoGap /\ StreamInOrder

(* The position a restart would resume a slot from never moves back, though *)
(* flush records are appended late and after the lock is released           *)
(* (log_slot_flush, the ReplSlotFlush replay, checkpoint).                   *)
DurablePositionMonotone ==
    [][\A s \in Names : Recovered[s].exists /\ Recovered'[s].exists /\ born'[s] = born[s]
            => Recovered'[s].confirmed >= Recovered[s].confirmed]_vars

(* The log keeps what a slot needs from its restart_lsn on, the "WAL        *)
(* retention floor" of the ReplSlot declaration.                            *)
RetentionFloor ==
    \A s \in Names : slots[s].exists =>
        \A f \in commits : slots[s].restart <= f => base_lsn <= f

(* A change that is in the log while a stream runs is sent by that stream,  *)
(* unless the stream ends or a checkpoint removes it first.                 *)
StreamCatchesUp ==
    \A c \in Conns : \A f \in 0..MaxLsn :
        (pc[c] \in Streaming /\ f \in commits)
            ~> (pc[c] \notin Streaming \/ next_lsn[c] > f \/ base_lsn > f)
=============================================================================
