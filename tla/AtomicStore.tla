----------------------------- MODULE AtomicStore -----------------------------
(***************************************************************************)
(* What the transaction engine promises to sessions that lock the rows     *)
(* they write: a committed set of row versions that changes only by whole  *)
(* transactions.  A session collects the versions it will remove and add;  *)
(* COMMIT installs both at once, everything else leaves the committed set   *)
(* alone - ROLLBACK, a failed append, VACUUM, CHECKPOINT and a crash, after *)
(* which recovery brings back exactly the committed set.                   *)
(***************************************************************************)
EXTENDS Naturals

CONSTANTS Session, Row

VARIABLES
    live,   \* the committed row versions
    del,    \* per session: committed versions its transaction removes
    add,    \* per session: versions its transaction adds
    xids    \* transaction ids handed out: only a statement takes one

vars == <<live, del, add, xids>>

Nothing == [s \in Session |-> {}]

Init ==
    /\ live \subseteq Row
    /\ del = Nothing
    /\ add = Nothing
    /\ xids \in Nat

(* Two open transactions never remove the same version. *)
Claimed(s) == UNION {del[u] : u \in Session \ {s}}

(* A statement, ROLLBACK TO or RELEASE changes the pending work only. *)
Work(s) ==
    /\ del' = [del EXCEPT ![s] = del'[s]] /\ del'[s] \subseteq live \ Claimed(s)
    /\ add' = [add EXCEPT ![s] = add'[s]] /\ add'[s] \subseteq Row \ live
    /\ xids' \in {xids, xids + 1}
    /\ UNCHANGED live

Forget(s) ==
    /\ del' = [del EXCEPT ![s] = {}]
    /\ add' = [add EXCEPT ![s] = {}]
    /\ UNCHANGED xids

Commit(s) ==
    /\ live' = (live \ del[s]) \cup add[s]
    /\ Forget(s)

Abort(s) ==
    /\ UNCHANGED live
    /\ Forget(s)

(* A statement outside a block is a transaction of its own in one step; it  *)
(* removes no version that an open transaction has claimed.                 *)
Autocommit(s) ==
    /\ live' \subseteq Row
    /\ live \cap Claimed(s) \subseteq live'
    /\ xids' = xids + 1
    /\ UNCHANGED <<del, add>>

Crash ==
    /\ UNCHANGED live
    /\ xids' <= xids
    /\ del' = Nothing
    /\ add' = Nothing

Next ==
    \/ \E s \in Session : Work(s) \/ Commit(s) \/ Abort(s) \/ Autocommit(s)
    \/ Crash

Spec == Init /\ [][Next]_vars
=============================================================================
