----------------------------- MODULE DurableLog ------------------------------
(***************************************************************************)
(* What the write-ahead log promises the engine: an append-only sequence of *)
(* commit batches.  A batch whose append returned success is in the log for *)
(* good, once and in order; one whose append returned an error never is;    *)
(* the one in flight when the server dies may go either way.                *)
(***************************************************************************)
EXTENDS Naturals, Sequences

VARIABLES
    log,        \* the batches recovery would bring back
    inflight,   \* the batch being appended, 0 if none
    submitted   \* number of batches submitted so far

vars == <<log, inflight, submitted>>

Init == log = <<>> /\ inflight = 0 /\ submitted = 0

Submit ==
    /\ inflight = 0
    /\ submitted' = submitted + 1
    /\ inflight' = submitted'
    /\ UNCHANGED log

Ack ==
    /\ inflight # 0
    /\ log' = Append(log, inflight)
    /\ inflight' = 0
    /\ UNCHANGED submitted

(* The append fails, or the server dies before the batch is stable. *)
Refuse ==
    /\ inflight # 0
    /\ inflight' = 0
    /\ UNCHANGED <<log, submitted>>

Next == Submit \/ Ack \/ Refuse

Spec == Init /\ [][Next]_vars
=============================================================================
