-------------------------- MODULE ReplicationProofs --------------------------
(***************************************************************************)
(* What holds of slots and walsenders for any number of connections, slots, *)
(* commits, checkpoints and crashes:                                        *)
(*                                                                         *)
(*   OneWalsender      a slot is active exactly while one walsender streams *)
(*                     it                                                   *)
(*   Types             every variable keeps its shape                       *)
(*   DurablePositions  the position a restart would resume from never       *)
(*                     moves back                                           *)
(*   SlotsDurable      a restart brings back the slots the catalog shows    *)
(*   InOrder           one stream neither repeats nor reorders              *)
(*   Faithful          and no slot is confirmed past what its consumer has  *)
(*                                                                         *)
(* Types and InOrder have no hypothesis.  The others assume what the code   *)
(* does not guarantee: OverlappingDDL is FALSE (a DROP overlapping the      *)
(* CREATE of the same slot would have its undo put back or remove somebody  *)
(* else's slot); for SlotsDurable and Faithful, that no append fails or no  *)
(* checkpoint comes (a checkpoint between a failed append and its undo puts *)
(* a slot into the image that the undo takes away, or leaves one out); and  *)
(* for OneWalsender that the CopyBoth response can be sent (its `?' skips   *)
(* the cleanup).                                                            *)
(***************************************************************************)
EXTENDS Replication, TLAPS, SequenceTheorems, FiniteSetTheorems, WellFoundedInduction

(* What a connection is about, as far as the catalog of slots goes. *)
Phase(p) ==
    CASE p \in Streaming -> "stream"
      [] p \in {"create_log", "create_undo"} -> "create"
      [] p \in {"drop_log", "drop_undo"} -> "drop"
      [] p = "start" -> "start"
      [] OTHER -> "idle"

Shaped(slot) == {"active", "exists"} \subseteq DOMAIN slot /\ slot.active \in BOOLEAN

(* The parts of the inductive invariant. *)
Shapes ==
    /\ DOMAIN slots = Names
    /\ \A s \in Names : Shaped(slots[s])
    /\ DOMAIN pc = Conns
    /\ DOMAIN saved = Conns
    /\ slot_name \in [Conns -> Names]

(* No slot is active that is not there: the cleanup finds it. *)
ActiveExists == \A s \in Names : slots[s].active => slots[s].exists

(* A streamed slot is active.  The converse needs the cleanup, which a       *)
(* failing CopyBoth response skips.                                         *)
Holds(active, held) == (held => active) /\ ("startup" \notin Faults => (active => held))

HeldWhenActive ==
    \A s \in Names :
        Holds(slots[s].active, \E c \in Conns : slot_name[c] = s /\ Phase(pc[c]) = "stream")

OneHolder ==
    \A c, d \in Conns :
        Phase(pc[c]) = "stream" /\ Phase(pc[d]) = "stream" /\ slot_name[c] = slot_name[d]
            => c = d

OneDDL ==
    \A c, d \in Conns :
        (/\ Phase(pc[c]) \in {"create", "drop"} /\ Phase(pc[d]) \in {"create", "drop"}
         /\ slot_name[c] = slot_name[d])
            => c = d

(* A slot whose CREATE may be undone is in nobody's hands, nor about to be. *)
CreateWindow ==
    \A c \in Conns : Phase(pc[c]) = "create" =>
        /\ ~slots[slot_name[c]].active
        /\ \A d \in Conns : slot_name[d] = slot_name[c] => Phase(pc[d]) # "start"

(* A slot whose DROP may be undone is away, and comes back inactive. *)
DropWindow ==
    \A c \in Conns : Phase(pc[c]) = "drop" =>
        /\ ~slots[slot_name[c]].exists
        /\ Shaped(saved[c]) /\ ~saved[c].active

RInv ==
    /\ Shapes /\ ActiveExists /\ HeldWhenActive /\ OneHolder
    /\ OneDDL /\ CreateWindow /\ DropWindow

-----------------------------------------------------------------------------

(* A step of connection d that is over with what it did, or goes on with it. *)
KeepsPhase(d) ==
    \/ Phase(pc'[d]) = "idle" /\ Phase(pc[d]) # "stream"
    \/ /\ Phase(pc'[d]) = Phase(pc[d])
       /\ slot_name'[d] = slot_name[d]
       /\ Phase(pc[d]) = "drop" => saved'[d] = saved[d]

(* A step that changes no slot's `active' or existence and takes nobody in. *)
Quiet ==
    /\ Shapes'
    /\ \A s \in Names : /\ slots'[s].active = slots[s].active
                        /\ slots'[s].exists <=> slots[s].exists
    /\ \A d \in Conns : KeepsPhase(d)

(* Quiet steps preserve the invariant. *)
LEMMA QuietStep == RInv /\ Quiet => RInv'
<1> SUFFICES ASSUME RInv, Quiet PROVE RInv'
    OBVIOUS
<1> USE DEF RInv
<1>1. Shapes'
    BY DEF Quiet
<1>2. ActiveExists'
    BY DEF Quiet, ActiveExists
<1>3. \A d \in Conns : Phase(pc'[d]) # "idle" =>
            /\ Phase(pc[d]) = Phase(pc'[d]) /\ slot_name'[d] = slot_name[d]
            /\ Phase(pc[d]) = "drop" => saved'[d] = saved[d]
    BY DEF Quiet, KeepsPhase
<1>4. \A d \in Conns : Phase(pc[d]) = "stream" =>
            Phase(pc'[d]) = "stream" /\ slot_name'[d] = slot_name[d]
    BY DEF Quiet, KeepsPhase
<1>5. HeldWhenActive'
    BY <1>3, <1>4 DEF Quiet, HeldWhenActive, Holds
<1>6. OneHolder'
    BY <1>3 DEF OneHolder
<1>7. OneDDL'
    BY <1>3 DEF OneDDL
<1>8. CreateWindow'
    BY <1>1, <1>3 DEF Quiet, CreateWindow, Shapes
<1>9. DropWindow'
    BY <1>1, <1>3 DEF Quiet, DropWindow, Shapes
<1> QED
    BY <1>1, <1>2, <1>5, <1>6, <1>7, <1>8, <1>9

(* The phases by name. *)
LEMMA Phases ==
    /\ \A p \in Streaming : Phase(p) = "stream"
    /\ Phase("create_log") = "create" /\ Phase("create_undo") = "create"
    /\ Phase("drop_log") = "drop" /\ Phase("drop_undo") = "drop"
    /\ Phase("start") = "start"
    /\ Phase("cmd") = "idle" /\ Phase("gone") = "idle" /\ Phase("final_log") = "idle"
BY DEF Phase, Streaming

(* A new slot is inactive. *)
LEMMA ShapedNew == \A lsn : Shaped(NewSlot(lsn)) /\ ~NewSlot(lsn).active
BY DEF Shaped, NewSlot

(* A name without a slot counts as inactive. *)
LEMMA ShapedNone == Shaped(NoSlot) /\ ~NoSlot.active /\ ~NoSlot.exists
BY DEF Shaped, NoSlot

(* So is what the image and a restart hold. *)
LEMMA ShapedInactive ==
    \A slot : Shaped(Inactive(slot)) /\ ~Inactive(slot).active
BY DEF Shaped, Inactive

(* Setting `active' changes nothing else. *)
LEMMA ShapedActive ==
    ASSUME NEW slot, Shaped(slot), NEW b \in BOOLEAN
    PROVE  LET new == [slot EXCEPT !.active = b]
           IN  Shaped(new) /\ new.active = b /\ new.exists = slot.exists
BY DEF Shaped

(* Moving the positions changes neither. *)
LEMMA ShapedMoved ==
    ASSUME NEW slot, Shaped(slot), NEW x, NEW y
    PROVE  /\ LET new == [slot EXCEPT !.restart = x]
              IN  Shaped(new) /\ new.active = slot.active /\ new.exists = slot.exists
           /\ LET new == [slot EXCEPT !.confirmed = x, !.restart = y]
              IN  Shaped(new) /\ new.active = slot.active /\ new.exists = slot.exists
BY DEF Shaped

(* Init establishes the invariant. *)
LEMMA RInvInit == Init => RInv
<1> SUFFICES ASSUME Init PROVE RInv
    OBVIOUS
<1>1. \A c \in Conns : Phase(pc[c]) = "idle"
    BY Phases DEF Init
<1>2. \A s \in Names : slots[s] = NoSlot
    BY DEF Init
<1>3. Shapes
    BY <1>2, ShapedNone, ReplicationAssumption DEF Init, Shapes
<1> QED
    BY <1>1, <1>2, <1>3, ShapedNone
       DEF RInv, ActiveExists, HeldWhenActive, Holds, OneHolder, OneDDL, CreateWindow, DropWindow

-----------------------------------------------------------------------------
(* The steps that are not quiet, one lemma each. *)

(* What a DDL command may rely on when it is issued. *)
LEMMA Issued ==
    ASSUME RInv, ~OverlappingDDL, NEW s \in Names, MayIssue(s)
    PROVE  \A d \in Conns : slot_name[d] = s => Phase(pc[d]) \notin {"create", "drop"}
<1> SUFFICES ASSUME NEW d \in Conns, slot_name[d] = s, Phase(pc[d]) \in {"create", "drop"}
             PROVE  FALSE
    OBVIOUS
<1>1. pc[d] \in {"create_log", "create_undo", "drop_log", "drop_undo"}
    BY DEF Phase
<1>2. d \in InDDL(s)
    BY <1>1 DEF InDDL
<1> QED
    BY <1>2 DEF MayIssue

(* CREATE: the slot was not there, so nobody holds it. *)
LEMMA CreateStep ==
    ASSUME RInv, ~OverlappingDDL, NEW c \in Conns, NEW s \in Names, create_slot(c, s)
    PROVE  RInv'
<1> USE DEF RInv
<1>1. \A d \in Conns : slot_name[d] = s => Phase(pc[d]) \notin {"create", "drop"}
    BY Issued DEF create_slot, MayCreate
<1>2. \A d \in Conns : slot_name[d] = s => Phase(pc[d]) # "start"
    BY DEF create_slot, MayCreate, Phase
<1>3. ~slots[s].exists /\ ~slots[s].active
    BY DEF create_slot, ActiveExists
<1>4. \A d \in Conns : slot_name[d] = s => Phase(pc[d]) # "stream"
    BY <1>3 DEF HeldWhenActive, Holds
<1>5. /\ Phase(pc[c]) = "idle" /\ Phase(pc'[c]) = "create" /\ slot_name'[c] = s
      /\ \A d \in Conns \ {c} : pc'[d] = pc[d] /\ slot_name'[d] = slot_name[d]
                                /\ saved'[d] = saved[d]
    BY Phases DEF create_slot, Shapes
<1>6. /\ Shaped(slots'[s]) /\ ~slots'[s].active
      /\ \A t \in Names \ {s} : slots'[t] = slots[t]
    BY ShapedNew DEF create_slot, Shapes
<1>7. Shapes'
    BY <1>6 DEF create_slot, Shapes
<1>8. ActiveExists'
    BY <1>6 DEF ActiveExists
<1>9. HeldWhenActive'
    <2> SUFFICES ASSUME NEW t \in Names
                 PROVE  Holds(slots'[t].active,
                              \E d \in Conns : slot_name'[d] = t /\ Phase(pc'[d]) = "stream")
        BY DEF HeldWhenActive, Holds
    <2>1. CASE t = s
        BY <2>1, <1>4, <1>5, <1>6 DEF Holds
    <2>2. CASE t # s
        BY <2>2, <1>5, <1>6 DEF HeldWhenActive, Holds
    <2> QED
        BY <2>1, <2>2
<1>10. OneHolder'
    BY <1>5 DEF OneHolder
<1>11. OneDDL'
    BY <1>1, <1>5 DEF OneDDL
<1>12. CreateWindow'
    BY <1>2, <1>5, <1>6, <1>7 DEF CreateWindow, Shapes
<1>13. DropWindow'
    <2> SUFFICES ASSUME NEW d \in Conns, Phase(pc'[d]) = "drop"
                 PROVE  /\ ~slots'[slot_name'[d]].exists
                        /\ Shaped(saved'[d]) /\ ~saved'[d].active
        BY DEF DropWindow
    <2>1. d # c /\ Phase(pc[d]) = "drop" /\ slot_name'[d] = slot_name[d] /\ saved'[d] = saved[d]
        BY <1>5
    <2>2. slot_name[d] # s /\ slot_name[d] \in Names
        BY <2>1, <1>1 DEF Shapes
    <2> QED
        BY <2>1, <2>2, <1>6 DEF DropWindow
<1> QED
    BY <1>7, <1>8, <1>9, <1>10, <1>11, <1>12, <1>13

(* What the steps below leave alone: the other connections and slots. *)
Others(c, s) ==
    /\ \A d \in Conns \ {c} : pc'[d] = pc[d] /\ slot_name'[d] = slot_name[d]
                              /\ saved'[d] = saved[d]
    /\ \A t \in Names \ {s} : slots'[t] = slots[t]

(* A slot nobody holds is replaced by an inactive one, at the end of a DDL  *)
(* command.                                                                 *)
LEMMA UndoStep ==
    ASSUME RInv, NEW c \in Conns, NEW s \in Names, Others(c, s), Shapes',
           slot_name[c] = s, Phase(pc[c]) \in {"create", "drop"}, Phase(pc'[c]) = "idle",
           ~slots[s].active, ~slots'[s].active
    PROVE  RInv'
<1> USE DEF RInv, Others
<1>1. \A d \in Conns \ {c} : slot_name[d] = s => Phase(pc[d]) \notin {"create", "drop"}
    BY DEF OneDDL
<1>2. \A d \in Conns : slot_name[d] = s => Phase(pc[d]) # "stream"
    BY DEF HeldWhenActive, Holds
<1>3. ActiveExists'
    BY DEF ActiveExists
<1>4. HeldWhenActive'
    <2> SUFFICES ASSUME NEW t \in Names
                 PROVE  Holds(slots'[t].active,
                              \E d \in Conns : slot_name'[d] = t /\ Phase(pc'[d]) = "stream")
        BY DEF HeldWhenActive, Holds
    <2>1. CASE t = s
        BY <2>1, <1>2 DEF Holds
    <2>2. CASE t # s
        BY <2>2, <1>2 DEF HeldWhenActive, Holds
    <2> QED
        BY <2>1, <2>2
<1>5. OneHolder'
    BY DEF OneHolder
<1>6. OneDDL'
    BY DEF OneDDL
<1>7. CreateWindow'
    <2> SUFFICES ASSUME NEW d \in Conns, Phase(pc'[d]) = "create"
                 PROVE  /\ ~slots'[slot_name'[d]].active
                        /\ \A e \in Conns : slot_name'[e] = slot_name'[d]
                                => Phase(pc'[e]) # "start"
        BY DEF CreateWindow
    <2>1. d # c /\ slot_name[d] # s /\ slot_name[d] \in Names
        BY <1>1 DEF Shapes
    <2> QED
        BY <2>1 DEF CreateWindow
<1>8. DropWindow'
    <2> SUFFICES ASSUME NEW d \in Conns, Phase(pc'[d]) = "drop"
                 PROVE  /\ ~slots'[slot_name'[d]].exists
                        /\ Shaped(saved'[d]) /\ ~saved'[d].active
        BY DEF DropWindow
    <2>1. d # c /\ slot_name[d] # s /\ slot_name[d] \in Names
        BY <1>1 DEF Shapes
    <2> QED
        BY <2>1 DEF DropWindow
<1> QED
    BY <1>3, <1>4, <1>5, <1>6, <1>7, <1>8

(* The undo of a CREATE removes the slot that nobody has started meanwhile. *)
LEMMA CreateUndoStep == ASSUME RInv, NEW c \in Conns, CreateUndo(c) PROVE RInv'
<1> DEFINE s == slot_name[c]
<1> USE DEF RInv
<1>1. s \in Names /\ Phase(pc[c]) = "create" /\ ~slots[s].active
    BY Phases DEF CreateUndo, CreateWindow, Shapes
<1>2. /\ slots' = [slots EXCEPT ![s] = NoSlot] /\ slot_name' = slot_name
      /\ pc' = [pc EXCEPT ![c] = "cmd"] /\ saved' = [saved EXCEPT ![c] = NoSlot]
    BY DEF CreateUndo, Return
<1>3. Others(c, s) /\ Phase(pc'[c]) = "idle" /\ ~slots'[s].active
    BY <1>1, <1>2, Phases, ShapedNone DEF Others, Shapes
<1>4. Shapes'
    BY <1>1, <1>2, ShapedNone DEF Shapes
<1> QED
    BY <1>1, <1>3, <1>4, UndoStep

(* The undo of a DROP puts an inactive slot back where none is. *)
LEMMA DropUndoStep == ASSUME RInv, NEW c \in Conns, DropUndo(c) PROVE RInv'
<1> DEFINE s == slot_name[c]
<1> USE DEF RInv
<1>1. /\ s \in Names /\ Phase(pc[c]) = "drop" /\ ~slots[s].exists
      /\ Shaped(saved[c]) /\ ~saved[c].active
    BY Phases DEF DropUndo, DropWindow, Shapes
<1>2. ~slots[s].active
    BY <1>1 DEF ActiveExists
<1>3. /\ slots' = [slots EXCEPT ![s] = saved[c]] /\ slot_name' = slot_name
      /\ pc' = [pc EXCEPT ![c] = "cmd"] /\ saved' = [saved EXCEPT ![c] = NoSlot]
    BY DEF DropUndo, Return
<1>4. Others(c, s) /\ Phase(pc'[c]) = "idle" /\ ~slots'[s].active
    BY <1>1, <1>3, Phases DEF Others, Shapes
<1>5. Shapes'
    BY <1>1, <1>3 DEF Shapes
<1> QED
    BY <1>1, <1>2, <1>4, <1>5, UndoStep

(* DROP takes away an inactive slot that no other DDL command is about. *)
LEMMA DropStep ==
    ASSUME RInv, ~OverlappingDDL, NEW c \in Conns, NEW s \in Names, drop_slot(c, s)
    PROVE  RInv'
<1> USE DEF RInv
<1>1. \A d \in Conns : slot_name[d] = s => Phase(pc[d]) \notin {"create", "drop"}
    BY Issued DEF drop_slot
<1>2. /\ ~slots[s].active /\ Shaped(slots[s])
      /\ \A d \in Conns : slot_name[d] = s => Phase(pc[d]) # "stream"
    BY DEF drop_slot, Shapes, HeldWhenActive, Holds
<1>3. /\ Phase(pc[c]) = "idle" /\ Phase(pc'[c]) = "drop" /\ slot_name'[c] = s
      /\ saved'[c] = slots[s] /\ Others(c, s)
    BY Phases DEF drop_slot, Shapes, Others
<1>4. Shaped(slots'[s]) /\ ~slots'[s].active /\ ~slots'[s].exists
    BY ShapedNone DEF drop_slot, Shapes
<1>5. Shapes'
    BY <1>4 DEF drop_slot, Shapes
<1>6. ActiveExists'
    BY <1>3, <1>4 DEF ActiveExists, Others
<1>7. HeldWhenActive'
    <2> SUFFICES ASSUME NEW t \in Names
                 PROVE  Holds(slots'[t].active,
                              \E d \in Conns : slot_name'[d] = t /\ Phase(pc'[d]) = "stream")
        BY DEF HeldWhenActive, Holds
    <2>1. CASE t = s
        BY <2>1, <1>2, <1>3, <1>4 DEF Others, Holds
    <2>2. CASE t # s
        BY <2>2, <1>3 DEF HeldWhenActive, Holds, Others
    <2> QED
        BY <2>1, <2>2
<1>8. OneHolder'
    BY <1>3 DEF OneHolder, Others
<1>9. OneDDL'
    BY <1>1, <1>3 DEF OneDDL, Others
<1>10. CreateWindow'
    BY <1>1, <1>3, <1>5 DEF CreateWindow, Shapes, Others
<1>11. DropWindow'
    <2> SUFFICES ASSUME NEW d \in Conns, Phase(pc'[d]) = "drop"
                 PROVE  /\ ~slots'[slot_name'[d]].exists
                        /\ Shaped(saved'[d]) /\ ~saved'[d].active
        BY DEF DropWindow
    <2>1. CASE d = c
        BY <2>1, <1>2, <1>3, <1>4
    <2>2. CASE d # c
        BY <2>2, <1>1, <1>3 DEF DropWindow, Shapes, Others
    <2> QED
        BY <2>1, <2>2
<1> QED
    BY <1>5, <1>6, <1>7, <1>8, <1>9, <1>10, <1>11

(* The pre-check of START takes nothing yet, but no CREATE is under way. *)
LEMMA StartStep ==
    ASSUME RInv, ~OverlappingDDL, NEW c \in Conns, NEW s \in Names, start_replication(c, s)
    PROVE  RInv'
<1> USE DEF RInv
<1>1. \A d \in Conns : slot_name[d] = s => Phase(pc[d]) \notin {"create", "drop"}
    BY Issued DEF start_replication
<1>2. /\ Phase(pc[c]) = "idle" /\ Phase(pc'[c]) = "start" /\ slot_name'[c] = s
      /\ slots' = slots /\ saved' = saved
      /\ \A d \in Conns \ {c} : pc'[d] = pc[d] /\ slot_name'[d] = slot_name[d]
    BY Phases DEF start_replication, Shapes
<1>3. Shapes'
    BY DEF start_replication, Shapes
<1>4. ActiveExists'
    BY <1>2 DEF ActiveExists
<1>5. HeldWhenActive'
    BY <1>2 DEF HeldWhenActive, Holds
<1>6. OneHolder'
    BY <1>2 DEF OneHolder
<1>7. OneDDL'
    BY <1>2 DEF OneDDL
<1>8. CreateWindow'
    BY <1>1, <1>2 DEF CreateWindow
<1>9. DropWindow'
    BY <1>2 DEF DropWindow
<1> QED
    BY <1>3, <1>4, <1>5, <1>6, <1>7, <1>8, <1>9

(* stream_changes checks again under the lock that sets `active'. *)
LEMMA ActivateStep == ASSUME RInv, NEW c \in Conns, Activate(c) PROVE RInv'
<1> DEFINE s == slot_name[c]
<1> USE DEF RInv
<1>1. s \in Names /\ Shaped(slots[s]) /\ slots[s].exists /\ ~slots[s].active
    BY DEF Activate, Shapes
<1>2. /\ Phase(pc[c]) = "start" /\ Phase(pc'[c]) = "stream"
      /\ slot_name' = slot_name /\ Others(c, s)
    BY Phases DEF Activate, Shapes, Streaming, Others
<1>3. Shaped(slots'[s]) /\ slots'[s].active /\ slots'[s].exists
    BY <1>1, ShapedActive DEF Activate, Shapes
<1>4. \A d \in Conns : slot_name[d] = s => Phase(pc[d]) \notin {"stream", "create"}
    <2>1. \A d \in Conns : slot_name[d] = s => Phase(pc[d]) # "stream"
        BY <1>1 DEF HeldWhenActive, Holds
    <2>2. \A d \in Conns : slot_name[d] = s => Phase(pc[d]) # "create"
        BY <1>2 DEF CreateWindow
    <2> QED
        BY <2>1, <2>2
<1>5. \A d \in Conns : slot_name[d] = s => Phase(pc[d]) # "drop"
    BY <1>1 DEF DropWindow
<1>6. Shapes'
    BY <1>2, <1>3 DEF Activate, Shapes, Others
<1>7. ActiveExists'
    BY <1>2, <1>3 DEF ActiveExists, Others
<1>8. HeldWhenActive'
    <2> SUFFICES ASSUME NEW t \in Names
                 PROVE  Holds(slots'[t].active,
                              \E d \in Conns : slot_name'[d] = t /\ Phase(pc'[d]) = "stream")
        BY DEF HeldWhenActive, Holds
    <2>1. CASE t = s
        BY <2>1, <1>2, <1>3 DEF Holds
    <2>2. CASE t # s
        BY <2>2, <1>2 DEF HeldWhenActive, Holds, Others
    <2> QED
        BY <2>1, <2>2
<1>9. OneHolder'
    BY <1>2, <1>4 DEF OneHolder, Others
<1>10. OneDDL'
    BY <1>2 DEF OneDDL, Others
<1>11. CreateWindow'
    BY <1>2, <1>4, <1>6 DEF CreateWindow, Shapes, Others
<1>12. DropWindow'
    BY <1>2, <1>5, <1>6 DEF DropWindow, Shapes, Others
<1> QED
    BY <1>6, <1>7, <1>8, <1>9, <1>10, <1>11, <1>12

(* The cleanup finds its slot and is its only holder. *)
LEMMA CleanupStep == ASSUME RInv, NEW c \in Conns, Cleanup(c) PROVE RInv'
<1> DEFINE s == slot_name[c]
<1> USE DEF RInv
<1>1. s \in Names /\ Shaped(slots[s]) /\ Phase(pc[c]) = "stream"
    BY Phases DEF Cleanup, Shapes, Streaming
<1>2. slots[s].active /\ slots[s].exists
    BY <1>1 DEF HeldWhenActive, Holds, ActiveExists
<1>3. /\ Phase(pc'[c]) = "idle" /\ slot_name' = slot_name /\ Others(c, s)
    BY <1>2, Phases DEF Cleanup, Shapes, Others
<1>4. Shaped(slots'[s]) /\ ~slots'[s].active
    <2>1. slots'[s] = [slots[s] EXCEPT !.active = FALSE]
        BY <1>1, <1>2 DEF Cleanup, Shapes
    <2> QED
        BY <1>1, <2>1, ShapedActive
<1>5. \A d \in Conns \ {c} : slot_name[d] = s => Phase(pc[d]) \notin {"stream", "create", "drop"}
    <2>1. \A d \in Conns \ {c} : slot_name[d] = s => Phase(pc[d]) # "stream"
        BY <1>1 DEF OneHolder
    <2>2. \A d \in Conns : slot_name[d] = s => Phase(pc[d]) # "create"
        BY <1>2 DEF CreateWindow
    <2>3. \A d \in Conns : slot_name[d] = s => Phase(pc[d]) # "drop"
        BY <1>2 DEF DropWindow
    <2> QED
        BY <2>1, <2>2, <2>3
<1>6. Shapes'
    BY <1>2, <1>3, <1>4 DEF Cleanup, Shapes, Others
<1>7. ActiveExists'
    BY <1>3, <1>4 DEF ActiveExists, Others
<1>8. HeldWhenActive'
    <2> SUFFICES ASSUME NEW t \in Names
                 PROVE  Holds(slots'[t].active,
                              \E d \in Conns : slot_name'[d] = t /\ Phase(pc'[d]) = "stream")
        BY DEF HeldWhenActive, Holds
    <2>1. CASE t = s
        BY <2>1, <1>3, <1>4, <1>5 DEF Others, Holds
    <2>2. CASE t # s
        BY <2>2, <1>3 DEF HeldWhenActive, Holds, Others
    <2> QED
        BY <2>1, <2>2
<1>9. OneHolder'
    BY <1>3 DEF OneHolder, Others
<1>10. OneDDL'
    BY <1>3 DEF OneDDL, Others
<1>11. CreateWindow'
    BY <1>3, <1>5, <1>6 DEF CreateWindow, Shapes, Others
<1>12. DropWindow'
    BY <1>3, <1>5, <1>6 DEF DropWindow, Shapes, Others
<1> QED
    BY <1>6, <1>7, <1>8, <1>9, <1>10, <1>11, <1>12

(* The thread is gone, the slot stays as it is: active, and nobody's. *)
LEMMA CopyBothFailsStep == ASSUME RInv, NEW c \in Conns, CopyBothFails(c) PROVE RInv'
<1> USE DEF RInv
<1>1. /\ Phase(pc'[c]) = "idle" /\ slots' = slots /\ slot_name' = slot_name
      /\ \A d \in Conns \ {c} : pc'[d] = pc[d] /\ saved'[d] = saved[d]
    BY Phases DEF CopyBothFails, Return, Shapes
<1>2. Shapes'
    BY <1>1 DEF CopyBothFails, Return, Shapes
<1>3. HeldWhenActive'
    BY <1>1 DEF CopyBothFails, HeldWhenActive, Holds
<1>4. ActiveExists' /\ OneHolder' /\ OneDDL' /\ CreateWindow' /\ DropWindow'
    BY <1>1 DEF ActiveExists, OneHolder, OneDDL, CreateWindow, DropWindow
<1> QED
    BY <1>2, <1>3, <1>4

(* A restart finds no connection and no active slot. *)
LEMMA CrashStep == ASSUME RInv, Crash PROVE RInv'
<1>1. \A c \in Conns : Phase(pc'[c]) = "idle"
    BY Phases DEF Crash
<1>2. \A s \in Names : Shaped(slots'[s]) /\ ~slots'[s].active
    BY ShapedInactive DEF Crash
<1>3. Shapes'
    BY <1>2 DEF RInv, Crash, Shapes
<1> QED
    BY <1>1, <1>2, <1>3
       DEF RInv, ActiveExists, HeldWhenActive, Holds, OneHolder, OneDDL, CreateWindow, DropWindow

-----------------------------------------------------------------------------
(* The quiet steps. *)

(* After its cleanup a thread serves commands again or is gone. *)
EndsWell == end \in [Conns -> {"cmd", "gone"}]

(* Every step keeps it so. *)
LEMMA EndsWellStep == EndsWell /\ [Next]_vars => EndsWell'
<1> SUFFICES ASSUME EndsWell, [Next]_vars PROVE EndsWell'
    OBVIOUS
<1> USE DEF EndsWell
<1>1. ASSUME NEW c \in Conns, NEW to, Return(c, to) PROVE EndsWell'
    BY <1>1 DEF Return
<1>2. ASSUME NEW c \in Conns, SlotCommand(c) PROVE EndsWell'
    BY <1>1, <1>2
       DEF SlotCommand, ReadOnlyCommand, vars, sender, create_slot, drop_slot, CreateLogged,
           CreateNotLogged, CreateUndo, DropLogged, DropNotLogged, DropUndo
<1>3. ASSUME NEW c \in Conns, Walsender(c) PROVE EndsWell'
    <2>1. CASE ActivateRefused(c) \/ CopyBothFails(c) \/ FinalLog(c)
        BY <1>1, <2>1 DEF ActivateRefused, CopyBothFails, FinalLog
    <2>2. CASE Cleanup(c)
        BY <1>1, <2>2 DEF Cleanup
    <2>3. CASE StreamFails(c) \/ ReadGarbage(c)
        BY <2>3 DEF StreamFails, ReadGarbage
    <2>4. CASE Activate(c) \/ CopyBothSent(c) \/ Poll(c) \/ Progress(c)
        BY <2>4 DEF Activate, CopyBothSent, Poll, Progress, sender
    <2>5. CASE ReadStatus(c) \/ ReadTimeout(c) \/ FlushLog(c)
        BY <2>5 DEF ReadStatus, Confirm, ReadTimeout, FlushLog, sender
    <2> QED
        BY <1>3, <2>1, <2>2, <2>3, <2>4, <2>5 DEF Walsender
<1>4. ASSUME NEW c \in Conns, Consumer(c) PROVE EndsWell'
    BY <1>4 DEF Consumer, Receive, Reconnect, ReadEnd, start_replication, sender
<1>5. CASE Commit \/ checkpoint \/ Crash
    BY <1>5 DEF Commit, checkpoint, Crash, sender
<1>6. CASE UNCHANGED vars
    BY <1>6 DEF vars, sender
<1> QED
    BY <1>2, <1>3, <1>4, <1>5, <1>6 DEF Next

(* No slot appears, goes, or changes hands. *)
SameSlots ==
    /\ DOMAIN slots' = Names
    /\ \A s \in Names : /\ Shaped(slots'[s])
                        /\ slots'[s].active = slots[s].active
                        /\ slots'[s].exists <=> slots[s].exists

(* Leaving the slots alone. *)
LEMMA SlotsUnchanged == RInv /\ slots' = slots => SameSlots
BY DEF RInv, Shapes, SameSlots

(* Moving the positions of one slot. *)
LEMMA SlotMoved ==
    ASSUME RInv, NEW s \in Names, NEW new, slots' = [slots EXCEPT ![s] = new],
           Shaped(new), new.active = slots[s].active, new.exists = slots[s].exists
    PROVE  SameSlots
BY DEF RInv, Shapes, SameSlots

(* A step of one connection that stays in its phase, or gets idle from a    *)
(* phase other than streaming.                                              *)
LEMMA OneStep ==
    ASSUME RInv, SameSlots, NEW c \in Conns, NEW p,
           pc' = [pc EXCEPT ![c] = p], slot_name' = slot_name,
           \/ saved' = saved
           \/ Phase(p) # "drop" /\ \E x : saved' = [saved EXCEPT ![c] = x],
           \/ Phase(p) = Phase(pc[c])
           \/ Phase(p) = "idle" /\ Phase(pc[c]) # "stream"
    PROVE  RInv'
<1>1. DOMAIN saved' = Conns /\ \A d \in Conns \ {c} : saved'[d] = saved[d]
    BY DEF RInv, Shapes
<1>2. pc'[c] = p /\ DOMAIN pc' = Conns /\ \A d \in Conns \ {c} : pc'[d] = pc[d]
    BY DEF RInv, Shapes
<1>3. Shapes'
    BY <1>1, <1>2 DEF RInv, Shapes, SameSlots
<1>4. \A d \in Conns : KeepsPhase(d)
    BY <1>1, <1>2 DEF KeepsPhase
<1> QED
    BY <1>3, <1>4, QuietStep DEF Quiet, SameSlots

(* The records of CREATE and DROP. *)
LEMMA CommandQuiet ==
    ASSUME RInv, NEW c \in Conns,
           CreateLogged(c) \/ CreateNotLogged(c) \/ DropLogged(c) \/ DropNotLogged(c)
    PROVE  RInv'
<1>1. SameSlots /\ slot_name' = slot_name
    BY SlotsUnchanged
       DEF CreateLogged, CreateNotLogged, DropLogged, DropNotLogged, Return, sender
<1>2. CASE CreateLogged(c) \/ DropLogged(c)
    BY <1>1, <1>2, Phases, OneStep DEF CreateLogged, DropLogged, Return
<1>3. CASE CreateNotLogged(c) \/ DropNotLogged(c)
    BY <1>1, <1>3, Phases, OneStep DEF CreateNotLogged, DropNotLogged, sender
<1> QED
    BY <1>2, <1>3

(* The loop of the walsender. *)
LEMMA LoopQuiet ==
    ASSUME RInv, EndsWell, NEW c \in Conns,
           \/ ActivateRefused(c) \/ CopyBothSent(c) \/ Poll(c) \/ StreamFails(c)
           \/ ReadTimeout(c) \/ ReadGarbage(c) \/ ReadEnd(c) \/ FlushLog(c) \/ FinalLog(c)
    PROVE  RInv'
<1> USE Phases DEF Streaming
<1>1. SameSlots
    BY SlotsUnchanged
       DEF ActivateRefused, CopyBothSent, Poll, StreamFails, ReadTimeout, ReadGarbage,
           ReadEnd, FlushLog, FinalLog
<1>2. CASE ActivateRefused(c)
    BY <1>1, <1>2, OneStep DEF ActivateRefused, Return
<1>3. CASE CopyBothSent(c)
    BY <1>1, <1>3, OneStep DEF CopyBothSent, sender
<1>4. CASE Poll(c)
    <2> DEFINE p == IF read_frames_since(next_lsn[c]) = <<>> THEN "read" ELSE "progress"
    <2>1. /\ pc' = [pc EXCEPT ![c] = p] /\ pc[c] = "poll"
          /\ slot_name' = slot_name /\ saved' = saved
        BY <1>4 DEF Poll
    <2>2. Phase(p) = "stream" /\ Phase(pc[c]) = "stream"
        BY <2>1
    <2> HIDE DEF p
    <2> QED
        BY <1>1, <2>1, <2>2, OneStep
<1>5. CASE StreamFails(c)
    <2>1. /\ pc' = [pc EXCEPT ![c] = "cleanup"] /\ pc[c] = "poll"
          /\ slot_name' = slot_name /\ saved' = saved
        BY <1>5 DEF StreamFails
    <2> QED
        BY <1>1, <2>1, OneStep
<1>6. CASE ReadTimeout(c)
    BY <1>1, <1>6, OneStep DEF ReadTimeout, sender
<1>7. CASE ReadGarbage(c)
    BY <1>1, <1>7, OneStep DEF ReadGarbage
<1>8. CASE ReadEnd(c)
    BY <1>1, <1>8, OneStep DEF ReadEnd
<1>9. CASE FlushLog(c)
    BY <1>1, <1>9, OneStep DEF FlushLog
<1>10. CASE FinalLog(c)
    <2>1. /\ pc' = [pc EXCEPT ![c] = end[c]] /\ pc[c] = "final_log"
          /\ slot_name' = slot_name /\ saved' = [saved EXCEPT ![c] = NoSlot]
        BY <1>10 DEF FinalLog, Return
    <2>2. Phase(end[c]) = "idle" /\ Phase(pc[c]) = "idle"
        BY <2>1 DEF EndsWell
    <2> QED
        BY <1>1, <2>1, <2>2, OneStep
<1> QED
    BY <1>2, <1>3, <1>4, <1>5, <1>6, <1>7, <1>8, <1>9, <1>10

(* Progress and the standby status move positions only. *)
LEMMA ProgressQuiet == ASSUME RInv, NEW c \in Conns, Progress(c) PROVE RInv'
<1> DEFINE s == slot_name[c]
           new == [slots[s] EXCEPT !.restart = Larger(@, next_lsn[c])]
<1>1. s \in Names /\ Shaped(slots[s]) /\ DOMAIN slots = Names
    BY DEF RInv, Shapes
<1>2. Shaped(new) /\ new.active = slots[s].active /\ new.exists = slots[s].exists
    BY <1>1, ShapedMoved
<1>3. slots' = [slots EXCEPT ![s] = new] \/ slots' = slots
    BY <1>1 DEF Progress
<1> HIDE DEF new
<1>4. SameSlots
    BY <1>1, <1>2, <1>3, SlotMoved, SlotsUnchanged
<1> QED
    BY <1>4, Phases, OneStep DEF Progress, sender, Streaming

(* The standby status of the consumer. *)
LEMMA StatusQuiet == ASSUME RInv, NEW c \in Conns, ReadStatus(c) PROVE RInv'
<1> DEFINE s == slot_name[c]
<1>1. s \in Names /\ Shaped(slots[s])
    BY DEF RInv, Shapes
<1>2. PICK new : /\ Confirm(c, new) /\ Shaped(new)
                 /\ new.active = slots[s].active /\ new.exists = slots[s].exists
    <2>1. PICK flushed :
            Confirm(c, IF flushed > slots[s].confirmed
                       THEN [slots[s] EXCEPT !.confirmed = flushed,
                                             !.restart = Larger(@, flushed)]
                       ELSE slots[s])
        BY DEF ReadStatus
    <2> DEFINE moved == [slots[s] EXCEPT !.confirmed = flushed,
                                         !.restart = Larger(@, flushed)]
    <2>2. Shaped(moved) /\ moved.active = slots[s].active /\ moved.exists = slots[s].exists
        BY <1>1 DEF Shaped
    <2> HIDE DEF moved
    <2>3. Confirm(c, moved) \/ Confirm(c, slots[s])
        BY <2>1 DEF moved
    <2> QED
        BY <1>1, <2>2, <2>3
<1>3. SameSlots
    <2>1. slots' = [slots EXCEPT ![s] = new] \/ slots' = slots
        BY <1>2 DEF Confirm
    <2> QED
        BY <1>1, <1>2, <2>1, SlotMoved, SlotsUnchanged
<1>4. pc[c] = "read" /\ slot_name' = slot_name
    BY <1>2 DEF ReadStatus, Confirm
<1>5. \/ pc' = [pc EXCEPT ![c] = "flush_log"] /\ saved' = [saved EXCEPT ![c] = new]
      \/ pc' = [pc EXCEPT ![c] = "poll"] /\ saved' = saved
    BY <1>2 DEF Confirm
<1> QED
    BY <1>3, <1>4, <1>5, Phases, OneStep DEF Streaming

(* Steps that leave the slots and every thread where they are. *)
LEMMA IdleQuiet ==
    ASSUME RInv, slots' = slots, slot_name' = slot_name, saved' = saved, pc' = pc
    PROVE  RInv'
BY DEF RInv, Shapes, ActiveExists, HeldWhenActive, Holds, OneHolder, OneDDL, CreateWindow,
       DropWindow

(* A new connection takes nothing. *)
LEMMA ReconnectQuiet == ASSUME RInv, NEW c \in Conns, Reconnect(c) PROVE RInv'
BY SlotsUnchanged, Phases, OneStep DEF Reconnect, sender

-----------------------------------------------------------------------------

(* Every step preserves the invariant. *)
LEMMA RInvStep ==
    ASSUME ~OverlappingDDL, RInv, EndsWell, [Next]_vars
    PROVE  RInv'
<1>1. ASSUME NEW c \in Conns, SlotCommand(c) PROVE RInv'
    <2>1. CASE ReadOnlyCommand(c)
        BY <2>1, IdleQuiet DEF ReadOnlyCommand, vars, sender
    <2>2. CASE \E s \in Names : create_slot(c, s) \/ drop_slot(c, s)
        BY <2>2, CreateStep, DropStep
    <2>3. CASE CreateUndo(c) \/ DropUndo(c)
        BY <2>3, CreateUndoStep, DropUndoStep
    <2> QED
        BY <1>1, <2>1, <2>2, <2>3, CommandQuiet DEF SlotCommand
<1>2. ASSUME NEW c \in Conns, Walsender(c) PROVE RInv'
    BY <1>2, ActivateStep, CopyBothFailsStep, CleanupStep, ProgressQuiet, StatusQuiet,
       LoopQuiet DEF Walsender
<1>3. ASSUME NEW c \in Conns, Consumer(c) PROVE RInv'
    <2>1. CASE Receive(c)
        BY <2>1, IdleQuiet DEF Receive, sender
    <2> QED
        BY <1>3, <2>1, ReconnectQuiet, LoopQuiet, StartStep DEF Consumer
<1>4. CASE Commit \/ checkpoint
    BY <1>4, IdleQuiet DEF Commit, checkpoint, sender
<1>5. CASE UNCHANGED vars
    BY <1>5, IdleQuiet DEF vars, sender
<1> QED
    BY <1>1, <1>2, <1>3, <1>4, <1>5, CrashStep DEF Next

(* The invariant says what ActiveHasOneStream does. *)
LEMMA RInvActive == ASSUME "startup" \notin Faults PROVE RInv => ActiveHasOneStream
<1> SUFFICES ASSUME RInv, NEW s \in Names
             PROVE  LET holders == {c \in Conns : slot_name[c] = s /\ pc[c] \in Streaming}
                    IN  IF slots[s].active THEN Cardinality(holders) = 1 ELSE holders = {}
    BY DEF ActiveHasOneStream
<1> DEFINE holders == {c \in Conns : slot_name[c] = s /\ pc[c] \in Streaming}
<1>1. holders = {c \in Conns : slot_name[c] = s /\ Phase(pc[c]) = "stream"}
    <2>1. \A p : p \in Streaming <=> Phase(p) = "stream"
        BY DEF Phase, Streaming
    <2> QED
        BY <2>1, Zenon
<1> HIDE DEF holders
<1>2. CASE slots[s].active
    <2>1. PICK c \in Conns : slot_name[c] = s /\ Phase(pc[c]) = "stream"
        BY <1>2 DEF RInv, HeldWhenActive, Holds
    <2>2. holders = {c}
        BY <1>1, <2>1 DEF RInv, OneHolder
    <2>3. Cardinality(holders) = 1
        BY <2>2, FS_Singleton
    <2> QED
        BY <1>2, <2>3 DEF holders
<1>3. CASE ~slots[s].active
    <2>1. holders = {}
        BY <1>1, <1>3 DEF RInv, HeldWhenActive, Holds
    <2> QED
        BY <1>3, <2>1 DEF holders
<1> QED
    BY <1>2, <1>3

(* A slot is active exactly while one walsender is between its activation   *)
(* and its cleanup (stream_changes, START_REPLICATION), for any number of   *)
(* connections and slots, whatever appends, writes and reads fail, and      *)
(* across crashes.                                                          *)
THEOREM OneWalsender ==
    ASSUME ~OverlappingDDL, "startup" \notin Faults
    PROVE  Spec => []ActiveHasOneStream
<1>1. Init => RInv /\ EndsWell
    BY RInvInit DEF Init, EndsWell
<1>2. RInv /\ EndsWell /\ [Next]_vars => (RInv /\ EndsWell)'
    BY RInvStep, EndsWellStep
<1> QED
    BY <1>1, <1>2, RInvActive, PTL DEF Spec

-----------------------------------------------------------------------------
(* Recursion over the frames of the log.                                    *)

(* A nonempty set of naturals has a least element. *)
LEMMA Least ==
    ASSUME NEW S, S \subseteq Nat, S # {}
    PROVE  \E x \in S : \A y \in S : x <= y
<1> DEFINE R == OpToRel(<, Nat)
<1>1. PICK m \in S : \A y \in S : ~ (<<y, m>> \in R)
    <2> HIDE DEF R
    <2>1. IsWellFoundedOn(R, Nat)
        BY NatLessThanWellFounded DEF R
    <2> QED
        BY <2>1, WFMin
<1>2. ASSUME NEW y \in S PROVE m <= y
    <2>1. ~ (y < m)
        BY <1>1 DEF OpToRel
    <2> QED
        BY <2>1
<1> QED
    BY <1>2

(* The table Replayed reads its result from. *)
Replays(f, img, q, m) ==
    f = [n \in 0..m |-> IF n = 0 THEN img ELSE apply_record(f[n - 1], q[n])]

(* There is one ... *)
LEMMA ReplayExists ==
    ASSUME NEW img, NEW q, NEW k \in Nat
    PROVE  \E f : Replays(f, img, q, k)
<1> DEFINE Bad == {m \in Nat : ~ \E f : Replays(f, img, q, m)}
<1>1. SUFFICES ASSUME Bad # {} PROVE FALSE
    OBVIOUS
<1>2. PICK m \in Bad : \A y \in Bad : m <= y
    <2> HIDE DEF Bad
    <2>1. Bad \subseteq Nat
        BY DEF Bad
    <2> QED
        BY <1>1, <2>1, Least
<1>3. m \in Nat /\ ~ \E f : Replays(f, img, q, m)
    OBVIOUS
<1>4. CASE m = 0
    <2>1. Replays([n \in 0..0 |-> img], img, q, 0)
        BY DEF Replays
    <2> QED
        BY <1>3, <1>4, <2>1
<1>5. CASE m # 0
    <2>1. m - 1 \in Nat /\ m - 1 \notin Bad
        BY <1>2, <1>3, <1>5
    <2>2. PICK f : Replays(f, img, q, m - 1)
        BY <2>1
    <2> DEFINE g == [n \in 0..m |-> IF n = m THEN apply_record(f[m - 1], q[m]) ELSE f[n]]
    <2>3. \A n \in 0 .. m - 1 :
            f[n] = IF n = 0 THEN img ELSE apply_record(f[n - 1], q[n])
        BY <2>2 DEF Replays
    <2>4. ASSUME NEW n \in 0..m
          PROVE  g[n] = IF n = 0 THEN img ELSE apply_record(g[n - 1], q[n])
        <3>1. CASE n = m
            <4>1. m - 1 \in 0..m /\ m - 1 # m /\ n # 0
                BY <1>3, <1>5, <3>1
            <4> QED
                BY <3>1, <4>1
        <3>2. CASE n # m
            <4>1. n \in 0 .. m - 1 /\ g[n] = f[n]
                BY <1>3, <3>2
            <4>2. CASE n = 0
                BY <2>3, <4>1, <4>2
            <4>3. CASE n # 0
                <5>1. n - 1 \in 0..m /\ n - 1 # m
                    BY <1>3, <4>1, <4>3
                <5> QED
                    BY <2>3, <4>1, <4>3, <5>1
            <4> QED
                BY <4>2, <4>3
        <3> QED
            BY <3>1, <3>2
    <2>5. Replays(g, img, q, m)
        <3>1. g = [n \in 0..m |-> g[n]]
            OBVIOUS
        <3> HIDE DEF g
        <3> QED
            BY <2>4, <3>1 DEF Replays
    <2> QED
        BY <1>3, <2>5
<1> QED
    BY <1>4, <1>5

(* ... and what it says of a frame depends on the frames up to it only. *)
LEMMA ReplaySame ==
    ASSUME NEW img, NEW q, NEW r, NEW f, NEW g, NEW m, NEW k, m \in Nat, k \in Nat, m <= k,
           \A i \in 1..m : r[i] = q[i],
           Replays(f, img, q, m), Replays(g, img, r, k)
    PROVE  \A n \in 0..m : f[n] = g[n]
<1> DEFINE Bad == {n \in 0..m : f[n] # g[n]}
<1>1. SUFFICES ASSUME Bad # {} PROVE FALSE
    OBVIOUS
<1>2. PICK n \in Bad : \A y \in Bad : n <= y
    <2> HIDE DEF Bad
    <2>1. Bad \subseteq Nat
        BY DEF Bad
    <2> QED
        BY <1>1, <2>1, Least
<1>3. /\ f[n] = IF n = 0 THEN img ELSE apply_record(f[n - 1], q[n])
      /\ g[n] = IF n = 0 THEN img ELSE apply_record(g[n - 1], r[n])
    <2>1. n \in 0..m /\ n \in 0..k
        OBVIOUS
    <2> QED
        BY <2>1 DEF Replays
<1>4. CASE n = 0
    BY <1>3, <1>4
<1>5. CASE n # 0
    <2>1. n \in 1..m /\ n - 1 \in 0..m /\ n - 1 \notin Bad
        BY <1>2, <1>5
    <2> QED
        BY <1>3, <1>5, <2>1
<1> QED
    BY <1>4, <1>5

(* Replayed is the last entry of such a table. *)
LEMMA ReplayedIs ==
    ASSUME NEW img, NEW q, Len(q) \in Nat
    PROVE  \E f : Replays(f, img, q, Len(q)) /\ Replayed(img, q) = f[Len(q)]
<1>1. Replayed(img, q) = (CHOOSE f : Replays(f, img, q, Len(q)))[Len(q)]
    BY DEF Replayed, Replays
<1> QED
    BY <1>1, ReplayExists

(* Without frames nothing happens. *)
LEMMA ReplayedNone == \A img : Replayed(img, <<>>) = img
<1> TAKE img
<1>1. Len(<<>>) = 0
    OBVIOUS
<1>2. PICK f : Replays(f, img, <<>>, 0) /\ Replayed(img, <<>>) = f[0]
    BY <1>1, ReplayedIs
<1> QED
    BY <1>2 DEF Replays

(* A frame appended to the log is applied last. *)
LEMMA ReplayedAppend ==
    ASSUME NEW img, NEW S, NEW q \in Seq(S), NEW r \in S
    PROVE  Replayed(img, Append(q, r)) = apply_record(Replayed(img, q), r)
<1> DEFINE n == Len(q)
           p == Append(q, r)
<1>1. n \in Nat /\ Len(p) = n + 1 /\ p[n + 1] = r /\ \A i \in 1..n : p[i] = q[i]
    BY AppendProperties, LenProperties
<1> HIDE DEF n, p
<1>2. PICK f : Replays(f, img, q, n) /\ Replayed(img, q) = f[n]
    BY <1>1, ReplayedIs DEF n
<1>3. PICK g : Replays(g, img, p, n + 1) /\ Replayed(img, p) = g[n + 1]
    BY <1>1, ReplayedIs
<1>4. f[n] = g[n]
    <2>1. n + 1 \in Nat /\ n <= n + 1 /\ n \in 0..n
        BY <1>1
    <2>2. \A i \in 1..n : p[i] = q[i]
        BY <1>1
    <2>3. n \in Nat /\ Replays(f, img, q, n)
        BY <1>1, <1>2
    <2>4. Replays(g, img, p, n + 1)
        BY <1>3
    <2>5. \A i \in 0..n : f[i] = g[i]
        BY <2>1, <2>2, <2>3, <2>4, ReplaySame
    <2> QED
        BY <2>1, <2>5
<1>5. g[n + 1] = apply_record(g[n], p[n + 1])
    <2>1. n + 1 \in 0 .. n + 1 /\ n + 1 # 0 /\ (n + 1) - 1 = n
        BY <1>1
    <2> QED
        BY <1>3, <2>1 DEF Replays
<1> QED
    BY <1>1, <1>2, <1>3, <1>4, <1>5 DEF p

(* The table Lines reads its result from. *)
Sends(h, q, m) ==
    h = [n \in 0..m |->
            IF n = 0 THEN <<>>
            ELSE IF q[n].data THEN Append(h[n - 1], q[n].lsn) ELSE h[n - 1]]

(* There is one. *)
LEMMA SendExists == ASSUME NEW q, NEW k \in Nat PROVE \E h : Sends(h, q, k)
<1> DEFINE Bad == {m \in Nat : ~ \E h : Sends(h, q, m)}
<1>1. SUFFICES ASSUME Bad # {} PROVE FALSE
    OBVIOUS
<1>2. PICK m \in Bad : \A y \in Bad : m <= y
    <2> HIDE DEF Bad
    <2>1. Bad \subseteq Nat
        BY DEF Bad
    <2> QED
        BY <1>1, <2>1, Least
<1>3. m \in Nat /\ ~ \E h : Sends(h, q, m)
    OBVIOUS
<1>4. CASE m = 0
    <2>1. Sends([n \in 0..0 |-> <<>>], q, 0)
        BY DEF Sends
    <2> QED
        BY <1>3, <1>4, <2>1
<1>5. CASE m # 0
    <2>1. m - 1 \in Nat /\ m - 1 \notin Bad
        BY <1>2, <1>3, <1>5
    <2>2. PICK h : Sends(h, q, m - 1)
        BY <2>1
    <2> DEFINE last == IF q[m].data THEN Append(h[m - 1], q[m].lsn) ELSE h[m - 1]
               g == [n \in 0..m |-> IF n = m THEN last ELSE h[n]]
               Next1(f, n) == IF n = 0 THEN <<>>
                              ELSE IF q[n].data THEN Append(f[n - 1], q[n].lsn) ELSE f[n - 1]
    <2>3. \A n \in 0 .. m - 1 : h[n] = Next1(h, n)
        BY <2>2 DEF Sends
    <2>4. ASSUME NEW n \in 0..m PROVE g[n] = Next1(g, n)
        <3>1. CASE n = m
            <4>1. m - 1 \in 0..m /\ m - 1 # m /\ n # 0
                BY <1>3, <1>5, <3>1
            <4> QED
                BY <3>1, <4>1
        <3>2. CASE n # m
            <4>1. n \in 0 .. m - 1 /\ g[n] = h[n]
                BY <1>3, <3>2
            <4>2. CASE n = 0
                BY <2>3, <4>1, <4>2
            <4>3. CASE n # 0
                <5>1. n - 1 \in 0..m /\ n - 1 # m
                    BY <1>3, <4>1, <4>3
                <5> QED
                    BY <2>3, <4>1, <4>3, <5>1
            <4> QED
                BY <4>2, <4>3
        <3> QED
            BY <3>1, <3>2
    <2>5. Sends(g, q, m)
        <3>1. g = [n \in 0..m |-> g[n]]
            OBVIOUS
        <3> HIDE DEF g
        <3> QED
            BY <2>4, <3>1 DEF Sends
    <2> QED
        BY <1>3, <2>5
<1> QED
    BY <1>4, <1>5

Increasing(q) == \A i, j \in DOMAIN q : i < j => q[i] < q[j]

(* Appending a larger number. *)
LEMMA IncreasingAppend ==
    ASSUME NEW q \in Seq(Nat), NEW x \in Nat, Increasing(q), \A i \in DOMAIN q : q[i] < x
    PROVE  LET p == Append(q, x)
           IN  /\ p \in Seq(Nat) /\ Increasing(p)
               /\ \A y : (\E i \in DOMAIN p : p[i] = y) <=> y = x \/ \E i \in DOMAIN q : q[i] = y
<1> DEFINE n == Len(q)
           p == Append(q, x)
<1>1. n \in Nat /\ DOMAIN q = 1..n
    BY LenProperties
<1>2. p \in Seq(Nat) /\ DOMAIN p = 1..n + 1 /\ p[n + 1] = x /\ \A i \in 1..n : p[i] = q[i]
    BY AppendProperties, LenProperties
<1> HIDE DEF n, p
<1>3. Increasing(p)
    <2> SUFFICES ASSUME NEW i \in 1..n + 1, NEW j \in 1..n + 1, i < j PROVE p[i] < p[j]
        BY <1>2 DEF Increasing
    <2>1. i \in 1..n
        BY <1>1
    <2>2. CASE j \in 1..n
        BY <1>1, <1>2, <2>1, <2>2 DEF Increasing
    <2>3. CASE j = n + 1
        BY <1>1, <1>2, <2>1, <2>3
    <2> QED
        BY <1>1, <2>2, <2>3
<1>4. ASSUME NEW y
      PROVE  (\E i \in DOMAIN p : p[i] = y) <=> y = x \/ \E i \in DOMAIN q : q[i] = y
    <2>1. \A i \in 1..n + 1 : i = n + 1 \/ i \in 1..n
        BY <1>1
    <2>2. n + 1 \in 1..n + 1 /\ \A i \in 1..n : i \in 1..n + 1
        BY <1>1
    <2> QED
        BY <1>1, <1>2, <2>1, <2>2
<1> QED
    BY <1>2, <1>3, <1>4 DEF p

(* The lines of frames in log order: the LSNs of the data frames, in order. *)
LEMMA LinesAre ==
    ASSUME NEW q, Len(q) \in Nat, \A i \in 1..Len(q) : q[i].lsn \in Nat,
           \A i, j \in 1..Len(q) : i < j => q[i].lsn < q[j].lsn
    PROVE  LET l == Lines(q)
           IN  /\ l \in Seq(Nat) /\ Increasing(l)
               /\ \A x : (\E i \in DOMAIN l : l[i] = x)
                            <=> \E i \in 1..Len(q) : q[i].data /\ q[i].lsn = x
<1> DEFINE k == Len(q)
<1>1. PICK h : Sends(h, q, k) /\ Lines(q) = h[k]
    <2>1. Lines(q) = (CHOOSE h : Sends(h, q, k))[k]
        BY DEF Lines, Sends
    <2> QED
        BY <2>1, SendExists
<1>2. \A n \in 0..k :
            h[n] = IF n = 0 THEN <<>>
                   ELSE IF q[n].data THEN Append(h[n - 1], q[n].lsn) ELSE h[n - 1]
    BY <1>1 DEF Sends
<1> HIDE DEF k
<1>3. k \in Nat /\ k = Len(q)
    BY DEF k
<1> DEFINE Fine(n) ==
                /\ h[n] \in Seq(Nat) /\ Increasing(h[n])
                /\ \A x : (\E i \in DOMAIN h[n] : h[n][i] = x)
                            <=> \E i \in 1..n : q[i].data /\ q[i].lsn = x
           Bad == {n \in 0..k : ~Fine(n)}
<1>4. ASSUME Bad # {} PROVE FALSE
    <2>1. PICK n \in Bad : \A y \in Bad : n <= y
        <3> HIDE DEF Bad
        <3>1. Bad \subseteq Nat
            BY DEF Bad
        <3> QED
            BY <1>4, <3>1, Least
    <2>2. n \in 0..k /\ ~Fine(n) /\ \A m \in 0..k : m < n => Fine(m)
        <3>1. n \in Nat
            BY <1>3
        <3>2. \A m \in 0..k : m < n => m \notin Bad
            <4> HIDE DEF Bad
            <4> QED
                BY <1>3, <2>1, <3>1
        <3> QED
            BY <3>2
    <2> HIDE DEF Bad
    <2>3. CASE n = 0
        <3>1. h[n] = <<>>
            BY <1>2, <2>2, <2>3
        <3>2. 1..n = {} /\ DOMAIN h[n] = {} /\ h[n] \in Seq(Nat)
            BY <2>3, <3>1
        <3>3. Fine(n)
            BY <3>2 DEF Increasing
        <3> QED
            BY <2>2, <3>3
    <2>4. CASE n # 0
        <3> DEFINE m == n - 1
                   g == h[m]
        <3>1. /\ m \in 0..k /\ m < n /\ n \in 1..k
              /\ \A i \in 1..n : i = n \/ i \in 1..m
              /\ \A i \in 1..m : i \in 1..n /\ i \in 1..k /\ i < n
            BY <1>3, <2>2, <2>4
        <3>2. Fine(m)
            BY <2>2, <3>1
        <3>3. g \in Seq(Nat) /\ Increasing(g)
              /\ \A x : (\E i \in DOMAIN g : g[i] = x)
                            <=> \E i \in 1..m : q[i].data /\ q[i].lsn = x
            BY <3>2
        <3>4. h[n] = IF q[n].data THEN Append(g, q[n].lsn) ELSE g
            BY <1>2, <2>2, <2>4
        <3>5. q[n].lsn \in Nat /\ \A i \in 1..m : q[i].lsn < q[n].lsn
            BY <1>3, <3>1
        <3>6. \A x : (\E i \in 1..n : q[i].data /\ q[i].lsn = x)
                        <=> \/ q[n].data /\ q[n].lsn = x
                            \/ \E i \in 1..m : q[i].data /\ q[i].lsn = x
            BY <3>1
        <3>10. n \in 1..k
            BY <3>1
        <3> HIDE DEF m, g
        <3>7. CASE q[n].data
            <4>1. \A i \in DOMAIN g : g[i] < q[n].lsn
                BY <3>3, <3>5
            <4>2. h[n] = Append(g, q[n].lsn)
                BY <3>4, <3>7
            <4>3. /\ h[n] \in Seq(Nat) /\ Increasing(h[n])
                  /\ \A y : (\E i \in DOMAIN h[n] : h[n][i] = y)
                                <=> y = q[n].lsn \/ \E i \in DOMAIN g : g[i] = y
                <5> DEFINE x == q[n].lsn
                <5> HIDE DEF x
                <5>1. x \in Nat /\ \A i \in DOMAIN g : g[i] < x
                    BY <3>5, <4>1 DEF x
                <5>2. /\ Append(g, x) \in Seq(Nat) /\ Increasing(Append(g, x))
                      /\ \A y : (\E i \in DOMAIN Append(g, x) : Append(g, x)[i] = y)
                                    <=> y = x \/ \E i \in DOMAIN g : g[i] = y
                    BY <3>3, <5>1, IncreasingAppend
                <5> QED
                    BY <4>2, <5>2 DEF x
            <4>4. Fine(n)
                BY <3>3, <3>6, <3>7, <4>3
            <4> QED
                BY <2>2, <4>4
        <3>8. CASE ~q[n].data
            <4>1. h[n] = g
                BY <3>4, <3>8
            <4>2. Fine(n)
                BY <3>3, <3>6, <3>8, <4>1
            <4> QED
                BY <2>2, <4>2
        <3> QED
            BY <3>7, <3>8
    <2> QED
        BY <2>3, <2>4
<1>5. Fine(k)
    <2>1. k \in 0..k
        BY <1>3
    <2>2. k \notin Bad
        <3> HIDE DEF Bad
        <3> QED
            BY <1>4
    <2> QED
        BY <2>1, <2>2
<1> QED
    BY <1>1, <1>3, <1>5


-----------------------------------------------------------------------------
(* Types: every position is a position of the log as it is now.             *)

SlotUpTo(n) == [restart : 0..n, confirmed : 0..n, active : BOOLEAN, exists : BOOLEAN]

FrameUpTo(n) ==
    [kind : {"commit", "create", "drop", "flush"}, slot : Names, restart : 0..n, confirmed : 0..n]

Places == Streaming \cup {"cmd", "gone", "start", "final_log",
                           "create_log", "create_undo", "drop_log", "drop_undo"}

(* What the disk holds, and what the rest holds, when the log ends at n. *)
Stored(n) ==
    /\ log \in Seq(FrameUpTo(n))
    /\ image \in [Names -> SlotUpTo(n)] /\ Recovered \in [Names -> SlotUpTo(n)]

Held(n) ==
    /\ slots \in [Names -> SlotUpTo(n)]
    /\ next_lsn \in [Conns -> 0..n]
    /\ saved \in [Conns -> SlotUpTo(n)]
    /\ sent \in [Conns -> Seq(0 .. n - 1)]
    /\ chan \in [Conns -> Seq(0 .. n - 1)]
    /\ got \in [Names -> SUBSET (0 .. n - 1)]
    /\ born \in [Names -> 0..n]
    /\ lost \in [Names -> SUBSET (0 .. n - 1)]
    /\ commits \subseteq 0 .. n - 1

Controls ==
    /\ base_lsn \in Nat
    /\ pc \in [Conns -> Places]
    /\ slot_name \in [Conns -> Names]
    /\ end \in [Conns -> {"cmd", "gone"}]
    /\ torn \in [Conns -> BOOLEAN]
    /\ checkpoints \in Nat /\ crashes \in Nat

TInv == Controls /\ Stored(current_lsn) /\ Held(current_lsn)

(* TypeOK is TInv without the bounds. *)
LEMMA TInvTypeOK == TInv => TypeOK
<1> SUFFICES ASSUME TInv PROVE TypeOK
    OBVIOUS
<1> DEFINE n == current_lsn
<1>1. n \in Nat
    BY LenProperties DEF TInv, Controls, Stored, Held, current_lsn
<1>2. Stored(n) /\ Held(n)
    BY DEF TInv
<1> HIDE DEF n
<1>3. SlotUpTo(n) \subseteq SlotRecord /\ 0 .. n - 1 \subseteq LSN
    BY <1>1 DEF SlotUpTo, SlotRecord, LSN
<1>4. log \in Seq([kind : {"commit", "create", "drop", "flush"}, slot : Names,
                   restart : LSN, confirmed : LSN])
    <2>1. FrameUpTo(n) \subseteq [kind : {"commit", "create", "drop", "flush"}, slot : Names,
                                  restart : LSN, confirmed : LSN]
        BY <1>1 DEF FrameUpTo, LSN
    <2> QED
        BY <1>2, <2>1, SeqMonotonic DEF Stored, Held
<1>5. sent \in [Conns -> Seq(LSN)] /\ chan \in [Conns -> Seq(LSN)]
    <2>1. Seq(0 .. n - 1) \subseteq Seq(LSN)
        BY <1>3, SeqMonotonic
    <2> QED
        BY <1>2, <2>1 DEF Stored, Held
<1>6. slots \in [Names -> SlotRecord] /\ image \in [Names -> SlotRecord]
      /\ saved \in [Conns -> SlotRecord]
    BY <1>2, <1>3 DEF Stored, Held
<1>7. /\ next_lsn \in [Conns -> LSN] /\ got \in [Names -> SUBSET LSN]
      /\ born \in [Names -> LSN] /\ lost \in [Names -> SUBSET LSN] /\ commits \in SUBSET LSN
    BY <1>1, <1>2 DEF Stored, Held, LSN
<1> QED
    BY <1>4, <1>5, <1>6, <1>7 DEF TypeOK, TInv, Controls, Places, LSN


(* The frames a poll reads, and the lines of any prefix of them: the LSNs   *)
(* of the commits in that part of the log, in order.                        *)
LEMMA FramesAre ==
    ASSUME base_lsn \in Nat, Len(log) \in Nat, NEW from \in Nat
    PROVE  LET frames == read_frames_since(from)
               first == Larger(from, base_lsn)
           IN  /\ first \in Nat /\ from <= first /\ base_lsn <= first
               /\ Len(frames) \in Nat
               /\ Len(frames) = Larger(0, current_lsn - first)
               /\ frames = <<>> => current_lsn <= first
               /\ \A q, n : n \in 0..Len(frames) /\ q \in {frames, SubSeq(frames, 1, n)}
                            /\ Len(q) = n =>
                    /\ Lines(q) \in Seq(Nat) /\ Increasing(Lines(q))
                    /\ \A x : (\E i \in DOMAIN Lines(q) : Lines(q)[i] = x)
                                <=> /\ x \in Nat /\ first <= x /\ x < first + n
                                    /\ log[x - base_lsn + 1].kind = "commit"
<1> DEFINE frames == read_frames_since(from)
           first == Larger(from, base_lsn)
           k == Larger(0, current_lsn - first)
           frame(i) == [lsn |-> first + i - 1, data |-> log[first - base_lsn + i].kind = "commit"]
<1>1. current_lsn \in Nat /\ first \in Nat /\ from <= first /\ base_lsn <= first
    BY DEF current_lsn, Larger
<1>2. k \in Nat
    BY <1>1 DEF Larger
<1>3. frames = [i \in 1..k |-> frame(i)]
    BY DEF read_frames_since
<1>4. first = Larger(from, base_lsn) /\ k = Larger(0, current_lsn - first) /\ frames = read_frames_since(from)
    OBVIOUS
<1> HIDE DEF first, k, frames
<1>5. /\ frames \in Seq({frame(i) : i \in 1..k}) /\ Len(frames) = k
      /\ \A i \in 1..k : frames[i] = frame(i)
    <2>1. frames \in [1..k -> {frame(i) : i \in 1..k}]
        BY <1>3
    <2>2. frames \in Seq({frame(i) : i \in 1..k})
        BY <1>2, <2>1, SeqDef
    <2>3. Len(frames) = k
        BY <1>2, <1>3, <2>2, LenProperties
    <2> QED
        BY <1>3, <2>2, <2>3
<1>6. ASSUME frames = <<>> PROVE current_lsn <= first
    <2>1. k = 0
        BY <1>5, <1>6
    <2> QED
        BY <1>1, <1>4, <2>1 DEF Larger
<1>7. ASSUME NEW q, NEW n \in 0..k, q \in {frames, SubSeq(frames, 1, n)}, Len(q) = n
      PROVE  /\ Lines(q) \in Seq(Nat) /\ Increasing(Lines(q))
             /\ \A x : (\E i \in DOMAIN Lines(q) : Lines(q)[i] = x)
                            <=> /\ x \in Nat /\ first <= x /\ x < first + n
                                /\ log[x - base_lsn + 1].kind = "commit"
    <2>1. \A i \in 1..n : q[i] = frame(i)
        <3>1. CASE q = frames
            BY <1>2, <1>5, <1>7, <3>1
        <3>2. CASE q = SubSeq(frames, 1, n)
            <4> DEFINE F == {frame(i) : i \in 1..k}
            <4>1. \A i \in 1..n : frames[i] \in F
                <5> TAKE i \in 1..n
                <5>1. i \in 1..k
                    BY <1>2
                <5>2. frames[i] = frame(i) /\ frame(i) \in F
                    BY <1>5, <5>1, ZenonT(40)
                <5> QED
                    BY <5>2
            <4> HIDE DEF F
            <4>2. \A i \in 1 .. n - 1 + 1 : q[i] = frames[1 + i - 1]
                <5>1. 1 \in Int /\ n \in Int
                    BY <1>2
                <5> QED
                    BY <3>2, <4>1, <5>1, SubSeqProperties
            <4>3. \A i \in 1..n : i \in 1 .. n - 1 + 1 /\ 1 + i - 1 = i /\ i \in 1..k
                BY <1>2
            <4> QED
                BY <1>5, <4>2, <4>3
        <3> QED
            BY <1>7, <3>1, <3>2
    <2>2. n \in Nat /\ n = Len(q)
        BY <1>2, <1>7
    <2>3. \A i \in 1..n : /\ q[i].lsn = first + i - 1
                          /\ q[i].data <=> log[first - base_lsn + i].kind = "commit"
        <3> TAKE i \in 1..n
        <3> DEFINE a == first + i - 1
                   b == (log[first - base_lsn + i].kind = "commit")
        <3>1. q[i] = [lsn |-> a, data |-> b]
            BY <2>1
        <3>2. b \in BOOLEAN
            OBVIOUS
        <3> HIDE DEF a, b
        <3>3. q[i].lsn = a /\ q[i].data = b
            BY <3>1, <3>2
        <3>4. q[i].lsn = a /\ (q[i].data <=> b)
            BY <3>3
        <3> QED
            BY <3>4 DEF a, b
    <2>4. \A i \in 1..n : q[i].lsn \in Nat
        BY <1>1, <2>2, <2>3
    <2>5. \A i, j \in 1..n : i < j => q[i].lsn < q[j].lsn
        BY <1>1, <2>2, <2>3
    <2>6. /\ Lines(q) \in Seq(Nat) /\ Increasing(Lines(q))
          /\ \A x : (\E i \in DOMAIN Lines(q) : Lines(q)[i] = x)
                        <=> \E i \in 1..n : q[i].data /\ q[i].lsn = x
        <3>1. /\ Len(q) \in Nat /\ \A i \in 1..Len(q) : q[i].lsn \in Nat
              /\ \A i, j \in 1..Len(q) : i < j => q[i].lsn < q[j].lsn
            BY <2>2, <2>4, <2>5
        <3>2. /\ Lines(q) \in Seq(Nat) /\ Increasing(Lines(q))
              /\ \A x : (\E i \in DOMAIN Lines(q) : Lines(q)[i] = x)
                            <=> \E i \in 1..Len(q) : q[i].data /\ q[i].lsn = x
            BY <3>1, LinesAre
        <3> QED
            BY <2>2, <3>2
    <2>7. ASSUME NEW x
          PROVE  (\E i \in 1..n : q[i].data /\ q[i].lsn = x)
                    <=> /\ x \in Nat /\ first <= x /\ x < first + n
                        /\ log[x - base_lsn + 1].kind = "commit"
        <3>1. ASSUME NEW i \in 1..n, q[i].data, q[i].lsn = x
              PROVE  /\ x \in Nat /\ first <= x /\ x < first + n
                     /\ log[x - base_lsn + 1].kind = "commit"
            <4>1. x = first + i - 1 /\ first - base_lsn + i = x - base_lsn + 1
                BY <1>1, <2>3, <3>1
            <4> QED
                BY <1>1, <2>2, <2>3, <3>1, <4>1
        <3>2. ASSUME x \in Nat, first <= x, x < first + n, log[x - base_lsn + 1].kind = "commit"
              PROVE  \E i \in 1..n : q[i].data /\ q[i].lsn = x
            <4> DEFINE i == x - first + 1
            <4>1. i \in 1..n /\ first + i - 1 = x /\ first - base_lsn + i = x - base_lsn + 1
                BY <1>1, <2>2, <3>2
            <4> HIDE DEF i
            <4>2. q[i].data /\ q[i].lsn = x
                BY <2>3, <3>2, <4>1
            <4> QED
                BY <4>1, <4>2
        <3> QED
            BY <3>1, <3>2
    <2> QED
        BY <2>6, <2>7
<1> QED
    BY <1>1, <1>2, <1>4, <1>5, <1>6, <1>7 DEF first, frames, k

-----------------------------------------------------------------------------
(* How the log grows. *)

(* A bounded nonempty set of numbers has a largest element. *)
LEMMA MaxIs ==
    ASSUME NEW n \in Nat, NEW S, S \subseteq 0 .. n - 1, S # {}
    PROVE  Max(S) \in S
<1> DEFINE U == {k \in Nat : \A x \in S : x <= k}
<1>1. n \in U
    OBVIOUS
<1>2. PICK k \in U : \A y \in U : k <= y
    <2> HIDE DEF U
    <2>1. U \subseteq Nat
        BY DEF U
    <2> QED
        BY <1>1, <2>1, Least
<1>3. \E x \in S : \A y \in S : x >= y
    <2>1. CASE k \in S
        BY <2>1
    <2>2. CASE k \notin S
        <3>1. k # 0
            <4>1. PICK x \in S : x \in 0 .. n - 1 /\ x <= k
                BY <1>2
            <4> QED
                BY <2>2, <4>1
        <3>2. k - 1 \in Nat /\ \A x \in S : x <= k - 1
            BY <2>2, <3>1
        <3> QED
            BY <1>2, <3>2
    <2> QED
        BY <2>1, <2>2
<1> QED
    BY <1>3 DEF Max

(* Types widen with the log. *)
LEMMA Widen ==
    ASSUME NEW n, NEW m, n \in Nat, m \in Nat, n <= m
    PROVE  /\ SlotUpTo(n) \subseteq SlotUpTo(m) /\ FrameUpTo(n) \subseteq FrameUpTo(m)
           /\ 0 .. n - 1 \subseteq 0 .. m - 1 /\ Seq(0 .. n - 1) \subseteq Seq(0 .. m - 1)
           /\ Held(n) => Held(m)
<1>1. SlotUpTo(n) \subseteq SlotUpTo(m) /\ 0 .. n \subseteq 0 .. m
    BY DEF SlotUpTo
<1>2. FrameUpTo(n) \subseteq FrameUpTo(m)
    BY DEF FrameUpTo
<1>3. 0 .. n - 1 \subseteq 0 .. m - 1
    OBVIOUS
<1>4. Seq(0 .. n - 1) \subseteq Seq(0 .. m - 1)
    BY <1>3, SeqMonotonic
<1>5. ASSUME Held(n) PROVE Held(m)
    BY <1>1, <1>3, <1>4, <1>5 DEF Held
<1> QED
    BY <1>1, <1>2, <1>3, <1>4, <1>5

(* Slots of known shape stay so when a frame is applied. *)
LEMMA ApplyTyped ==
    ASSUME NEW n, NEW eng, NEW r, n \in Nat, eng \in [Names -> SlotUpTo(n)], r \in FrameUpTo(n)
    PROVE  apply_record(eng, r) \in [Names -> SlotUpTo(n)]
<1>1. r.slot \in Names /\ r.restart \in 0..n /\ r.confirmed \in 0..n
    BY DEF FrameUpTo
<1>2. NewSlot(r.restart) \in SlotUpTo(n) /\ NoSlot \in SlotUpTo(n)
    BY <1>1 DEF NewSlot, NoSlot, SlotUpTo
<1>3. eng[r.slot] \in SlotUpTo(n)
    BY <1>1
<1>4. [eng[r.slot] EXCEPT !.confirmed = Larger(@, r.confirmed),
                          !.restart = Larger(@, r.restart)] \in SlotUpTo(n)
    BY <1>1, <1>3 DEF SlotUpTo, Larger
<1> QED
    BY <1>1, <1>2, <1>3, <1>4 DEF apply_record

(* The length of the log is a number. *)
LEMMA Lsn ==
    TInv => /\ current_lsn \in Nat /\ Len(log) \in Nat /\ base_lsn \in Nat
            /\ base_lsn <= current_lsn
BY LenProperties DEF TInv, Controls, Stored, current_lsn

(* What a step that leaves the disk alone leaves alone. *)
LEMMA DiskSame ==
    UNCHANGED disk => current_lsn' = current_lsn /\ Recovered' = Recovered
BY DEF disk, current_lsn, Recovered

(* What an append changes. *)
LEMMA Appended ==
    ASSUME TInv, NEW r, r \in FrameUpTo(current_lsn), append_batch(r)
    PROVE  /\ current_lsn' = current_lsn + 1 /\ base_lsn' = base_lsn
           /\ Recovered' = apply_record(Recovered, r)
           /\ Stored(current_lsn)'
           /\ Len(log') = Len(log) + 1 /\ log'[Len(log) + 1] = r
           /\ \A i \in 1..Len(log) : log'[i] = log[i]
<1> PICK n : n = current_lsn
    OBVIOUS
<1>1. n \in Nat /\ n + 1 \in Nat /\ n <= n + 1 /\ Len(log) \in Nat
    BY Lsn
<1>2. log \in Seq(FrameUpTo(n)) /\ r \in FrameUpTo(n)
    BY DEF TInv, Stored
<1>3. log' = Append(log, r) /\ base_lsn' = base_lsn /\ image' = image
    BY DEF append_batch
<1>4. /\ log' \in Seq(FrameUpTo(n)) /\ Len(log') = Len(log) + 1 /\ log'[Len(log) + 1] = r
      /\ \A i \in 1..Len(log) : log'[i] = log[i]
    BY <1>2, <1>3, AppendProperties
<1>5. current_lsn' = n + 1
    BY <1>1, <1>3, <1>4, Lsn DEF current_lsn
<1>6. Recovered' = apply_record(Recovered, r)
    BY <1>2, <1>3, ReplayedAppend DEF Recovered
<1>7. FrameUpTo(n) \subseteq FrameUpTo(n + 1) /\ SlotUpTo(n) \subseteq SlotUpTo(n + 1)
    BY <1>1, Widen
<1>8. Stored(n + 1)'
    <2>1. log' \in Seq(FrameUpTo(n + 1))
        BY <1>4, <1>7, SeqMonotonic
    <2>2. image' \in [Names -> SlotUpTo(n + 1)]
        BY <1>3, <1>7 DEF TInv, Stored
    <2>3. Recovered' \in [Names -> SlotUpTo(n + 1)]
        <3>1. Recovered \in [Names -> SlotUpTo(n)]
            BY DEF TInv, Stored
        <3>2. apply_record(Recovered, r) \in [Names -> SlotUpTo(n)]
            BY <1>1, <1>2, <3>1, ApplyTyped
        <3> QED
            BY <1>6, <1>7, <3>2
    <2> QED
        BY <2>1, <2>2, <2>3 DEF Stored
<1> QED
    BY <1>3, <1>4, <1>5, <1>6, <1>8 DEF Stored

-----------------------------------------------------------------------------
(* The type invariant, step by step. *)

(* Records of the right shape. *)
LEMMA SlotTyped ==
    ASSUME NEW n, n \in Nat
    PROVE  /\ NoSlot \in SlotUpTo(n)
           /\ \A x \in 0..n : NewSlot(x) \in SlotUpTo(n)
           /\ \A slot \in SlotUpTo(n) :
                /\ Inactive(slot) \in SlotUpTo(n)
                /\ \A b \in BOOLEAN : [slot EXCEPT !.active = b] \in SlotUpTo(n)
                /\ \A x \in 0..n :
                    /\ [slot EXCEPT !.restart = Larger(@, x)] \in SlotUpTo(n)
                    /\ [slot EXCEPT !.confirmed = x, !.restart = Larger(@, x)] \in SlotUpTo(n)
                /\ \A k \in {"commit", "create", "drop", "flush"} : \A s \in Names :
                    Frame(k, s, slot) \in FrameUpTo(n)
<1>1. NoSlot \in SlotUpTo(n) /\ \A x \in 0..n : NewSlot(x) \in SlotUpTo(n)
    BY DEF NoSlot, NewSlot, SlotUpTo
<1>2. ASSUME NEW slot \in SlotUpTo(n)
      PROVE  /\ Inactive(slot) \in SlotUpTo(n)
             /\ \A b \in BOOLEAN : [slot EXCEPT !.active = b] \in SlotUpTo(n)
             /\ \A k \in {"commit", "create", "drop", "flush"} : \A s \in Names :
                    Frame(k, s, slot) \in FrameUpTo(n)
    BY <1>2 DEF Inactive, Frame, SlotUpTo, FrameUpTo
<1>3. ASSUME NEW slot \in SlotUpTo(n), NEW x \in 0..n
      PROVE  /\ [slot EXCEPT !.restart = Larger(@, x)] \in SlotUpTo(n)
             /\ [slot EXCEPT !.confirmed = x, !.restart = Larger(@, x)] \in SlotUpTo(n)
    BY <1>3 DEF Larger, SlotUpTo
<1> QED
    BY <1>1, <1>2, <1>3

(* A thread that returns. *)
LEMMA ReturnTyped ==
    ASSUME NEW n, NEW c, NEW to, n \in Nat, c \in Conns, to \in {"cmd", "gone"},
           Controls, Held(n), Return(c, to)
    PROVE  /\ pc' \in [Conns -> Places] /\ slot_name' \in [Conns -> Names]
           /\ end' \in [Conns -> {"cmd", "gone"}] /\ torn' \in [Conns -> BOOLEAN]
           /\ next_lsn' \in [Conns -> 0..n] /\ saved' \in [Conns -> SlotUpTo(n)]
           /\ sent' \in [Conns -> Seq(0 .. n - 1)] /\ chan' \in [Conns -> Seq(0 .. n - 1)]
<1>1. NoSlot \in SlotUpTo(n)
    BY SlotTyped
<1>2. <<>> \in Seq(0 .. n - 1)
    BY EmptySeq
<1> QED
    BY <1>1, <1>2 DEF Return, Controls, Held, Places

(* The commands on a slot. *)
LEMMA CommandTyped ==
    ASSUME NEW n, NEW c, TInv, n \in Nat, current_lsn <= n, Held(n), c \in Conns, SlotCommand(c)
    PROVE  /\ Controls' /\ Held(n)'
           /\ \/ UNCHANGED disk
              \/ \E r \in FrameUpTo(current_lsn) : append_batch(r)
<1>1. /\ current_lsn \in 0..n /\ Controls /\ base_lsn \in Nat
      /\ Held(current_lsn) /\ current_lsn \in Nat
    BY Lsn DEF TInv
<1> USE DEF Controls, Held
<1>2. slot_name[c] \in Names /\ saved[c] \in SlotUpTo(n) /\ saved[c] \in SlotUpTo(current_lsn)
    BY <1>1
<1>3. NoSlot \in SlotUpTo(n) /\ NewSlot(current_lsn) \in SlotUpTo(n)
    BY <1>1, SlotTyped
<1>4. \A k \in {"create", "drop"} :
            Frame(k, slot_name[c], saved[c]) \in FrameUpTo(current_lsn)
    BY <1>1, <1>2, SlotTyped
<1>5. ASSUME NEW s \in Names, create_slot(c, s) PROVE Controls' /\ Held(n)' /\ UNCHANGED disk
    <2>1. Controls'
        BY <1>1, <1>5 DEF create_slot, disk, network, counters, Places
    <2>2. Held(n)'
        BY <1>1, <1>3, <1>5 DEF create_slot, network, counters
    <2> QED
        BY <1>5, <2>1, <2>2 DEF create_slot
<1>6. ASSUME NEW s \in Names, drop_slot(c, s) PROVE Controls' /\ Held(n)' /\ UNCHANGED disk
    <2>1. Controls'
        BY <1>1, <1>6 DEF drop_slot, disk, network, counters, Places
    <2>2. slots[s] \in SlotUpTo(n)
        OBVIOUS
    <2>3. Held(n)'
        BY <1>3, <1>6, <2>2 DEF drop_slot, network, consumer, counters
    <2> QED
        BY <1>6, <2>1, <2>3 DEF drop_slot
<1>7. ASSUME CreateLogged(c) \/ DropLogged(c)
      PROVE  Controls' /\ Held(n)' /\ \E r \in FrameUpTo(current_lsn) : append_batch(r)
    <2>1. Return(c, "cmd") /\ base_lsn' = base_lsn /\ UNCHANGED <<slots, consumer, counters>>
        BY <1>7 DEF CreateLogged, DropLogged, append_batch
    <2>2. Controls' /\ Held(n)'
        BY <1>1, <2>1, ReturnTyped DEF consumer, counters
    <2> QED
        BY <1>4, <1>7, <2>2 DEF CreateLogged, DropLogged
<1>8. ASSUME CreateNotLogged(c) \/ DropNotLogged(c)
      PROVE  Controls' /\ Held(n)' /\ UNCHANGED disk
    BY <1>1, <1>8 DEF CreateNotLogged, DropNotLogged, disk, sender, network, consumer, counters, Places
<1>9. ASSUME CreateUndo(c) \/ DropUndo(c)
      PROVE  Controls' /\ Held(n)' /\ UNCHANGED disk
    <2>1. Return(c, "cmd") /\ UNCHANGED <<disk, consumer, counters>>
        BY <1>9 DEF CreateUndo, DropUndo
    <2>2. slots' \in [Names -> SlotUpTo(n)]
        BY <1>2, <1>3, <1>9 DEF CreateUndo, DropUndo
    <2> QED
        BY <1>1, <2>1, <2>2, ReturnTyped DEF disk, consumer, counters
<1>10. ASSUME ReadOnlyCommand(c) PROVE Controls' /\ Held(n)' /\ UNCHANGED disk
    BY <1>1, <1>10 DEF ReadOnlyCommand, vars, disk, sender, network, consumer, counters
<1> QED
    BY <1>5, <1>6, <1>7, <1>8, <1>9, <1>10 DEF SlotCommand

(* What a poll writes to the socket, complete or cut short. *)
Batch(c, l, k) ==
    LET first == Larger(next_lsn[c], base_lsn)
    IN  /\ k \in Nat /\ first + k <= Larger(first, current_lsn)
        /\ Send(c, l) /\ l \in Seq(0 .. current_lsn - 1) /\ Increasing(l)
        /\ \A x : (\E i \in DOMAIN l : l[i] = x)
                        <=> /\ x \in Nat /\ first <= x /\ x < first + k
                            /\ log[x - base_lsn + 1].kind = "commit"

(* Where a complete one takes the stream. *)
Moves(c, k) ==
    LET first == Larger(next_lsn[c], base_lsn)
    IN  \/ next_lsn' = next_lsn /\ k = 0 /\ current_lsn <= first
        \/ /\ next_lsn' = [next_lsn EXCEPT ![c] = current_lsn]
           /\ k = current_lsn - first /\ first <= current_lsn

LEMMA BatchSent ==
    ASSUME TInv, NEW c, c \in Conns, Poll(c) \/ StreamFails(c)
    PROVE  \E l, k : Batch(c, l, k) /\ (Poll(c) => Moves(c, k))
<1> DEFINE from == next_lsn[c]
           first == Larger(from, base_lsn)
           frames == read_frames_since(from)
<1>1. base_lsn \in Nat /\ Len(log) \in Nat /\ current_lsn \in Nat /\ from \in 0..current_lsn
    BY Lsn DEF TInv, Held
<1>2. first \in Nat /\ from <= first /\ base_lsn <= first
    BY <1>1 DEF Larger
<1>3. /\ Len(frames) \in Nat /\ Len(frames) = Larger(0, current_lsn - first)
      /\ frames = <<>> => current_lsn <= first
      /\ \A q, n : n \in 0..Len(frames) /\ q \in {frames, SubSeq(frames, 1, n)} /\ Len(q) = n =>
            /\ Lines(q) \in Seq(Nat) /\ Increasing(Lines(q))
            /\ \A x : (\E i \in DOMAIN Lines(q) : Lines(q)[i] = x)
                        <=> /\ x \in Nat /\ first <= x /\ x < first + n
                            /\ log[x - base_lsn + 1].kind = "commit"
    <2>1. from \in Nat
        BY <1>1
    <2> QED
        BY <1>1, <2>1, FramesAre
<1> HIDE DEF first, frames
<1>4. ASSUME NEW n \in 0..Len(frames), NEW q, q \in {frames, SubSeq(frames, 1, n)}, Len(q) = n,
             Send(c, Lines(q))
      PROVE  Batch(c, Lines(q), n)
    <2> DEFINE l == Lines(q)
    <2>1. /\ l \in Seq(Nat) /\ Increasing(l)
          /\ \A x : (\E i \in DOMAIN l : l[i] = x)
                        <=> /\ x \in Nat /\ first <= x /\ x < first + n
                            /\ log[x - base_lsn + 1].kind = "commit"
        BY <1>3, <1>4
    <2> HIDE DEF l
    <2>2. n \in Nat /\ first + n <= Larger(first, current_lsn)
          /\ (n # 0 => first + n <= current_lsn)
        BY <1>1, <1>2, <1>3 DEF Larger
    <2>3. \A i \in 1..Len(l) : l[i] \in 0 .. current_lsn - 1
        <3> TAKE i \in 1..Len(l)
        <3>1. i \in DOMAIN l
            BY <2>1, LenProperties
        <3>2. l[i] \in Nat /\ first <= l[i] /\ l[i] < first + n
            BY <2>1, <3>1
        <3> QED
            BY <1>1, <1>2, <2>2, <3>2
    <2>4. l \in Seq(0 .. current_lsn - 1)
        <3>1. l = [i \in 1..Len(l) |-> l[i]] /\ Len(l) \in Nat
            BY <2>1, LenProperties
        <3>2. l \in [1..Len(l) -> 0 .. current_lsn - 1]
            BY <2>3, <3>1
        <3> QED
            BY <3>1, <3>2, SeqDef
    <2> QED
        BY <1>4, <2>1, <2>2, <2>4 DEF Batch, first, l
<1>5. CASE Poll(c)
    <2>1. Send(c, Lines(frames))
        BY <1>5 DEF Poll, frames
    <2>2. Len(frames) \in 0..Len(frames)
        BY <1>3
    <2>3. Batch(c, Lines(frames), Len(frames))
        BY <1>4, <2>1, <2>2
    <2>4. next_lsn' = [next_lsn EXCEPT ![c] =
                        IF frames = <<>> THEN @ ELSE Larger(@, current_lsn)]
        BY <1>5 DEF Poll, frames
    <2>5. CASE frames = <<>>
        <3>1. next_lsn' = next_lsn
            BY <2>4, <2>5 DEF TInv, Held
        <3>2. Len(frames) = 0 /\ current_lsn <= first
            BY <1>3, <2>5
        <3> QED
            BY <2>3, <3>1, <3>2 DEF first, Moves
    <2>6. CASE frames # <<>>
        <3>0. Larger(from, current_lsn) = current_lsn
            BY <1>1 DEF Larger
        <3>1. next_lsn' = [next_lsn EXCEPT ![c] = current_lsn]
            BY <2>4, <2>6, <3>0
        <3>2. Len(frames) # 0
            <4>1. frames = [i \in 1..Len(frames) |-> frames[i]]
                BY <1>3 DEF frames, read_frames_since, first
            <4>2. ASSUME Len(frames) = 0 PROVE FALSE
                <5>1. DOMAIN frames = {}
                    BY <4>1, <4>2
                <5>2. frames \in Seq(Nat)
                    BY <4>1, <4>2, <5>1, SeqDef
                <5> QED
                    BY <2>6, <4>2, <5>2, EmptySeq
            <4> QED
                BY <4>2
        <3>3. Len(frames) = current_lsn - first /\ first <= current_lsn
            BY <1>1, <1>2, <1>3, <3>2 DEF Larger
        <3> QED
            BY <2>3, <3>1, <3>3 DEF first, Moves
    <2> QED
        BY <2>5, <2>6
<1>6. CASE StreamFails(c) /\ ~Poll(c)
    <2>1. PICK n \in 0..Len(frames) : Send(c, Lines(SubSeq(frames, 1, n)))
        BY <1>6 DEF StreamFails, frames
    <2>2. Len(SubSeq(frames, 1, n)) = n
        <3>1. \A i \in 1..n : frames[i] \in {frames[j] : j \in 1..Len(frames)}
            BY <1>3
        <3>2. 1 \in Int /\ n \in Int /\ Len(SubSeq(frames, 1, n)) = IF 1 <= n THEN n - 1 + 1 ELSE 0
            BY <3>1, SubSeqProperties
        <3> QED
            BY <3>2
    <2>3. Batch(c, Lines(SubSeq(frames, 1, n)), n)
        BY <1>4, <2>1, <2>2
    <2> QED
        BY <1>6, <2>3
<1> QED
    BY <1>5, <1>6

(* What the streaming steps share: a batch on its way. *)
LEMMA SendTyped ==
    ASSUME NEW n, NEW c, NEW l, n \in Nat, c \in Conns, l \in Seq(0 .. n - 1), Held(n), Send(c, l)
    PROVE  /\ sent' \in [Conns -> Seq(0 .. n - 1)] /\ chan' \in [Conns -> Seq(0 .. n - 1)]
           /\ sent'[c] = sent[c] \o l /\ chan'[c] = chan[c] \o l
           /\ \A d \in Conns \ {c} : sent'[d] = sent[d] /\ chan'[d] = chan[d]
<1>1. sent[c] \o l \in Seq(0 .. n - 1) /\ chan[c] \o l \in Seq(0 .. n - 1)
    <2>1. sent[c] \in Seq(0 .. n - 1) /\ chan[c] \in Seq(0 .. n - 1)
        BY DEF Held
    <2> QED
        BY <2>1, ConcatProperties
<1>2. DOMAIN sent = Conns /\ DOMAIN chan = Conns
    BY DEF Held
<1> QED
    BY <1>1, <1>2 DEF Send, Held

(* A walsender's record in the log, or none. *)
LEMMA FlushTyped ==
    ASSUME TInv, NEW c, c \in Conns, log_slot_flush(c)
    PROVE  UNCHANGED disk \/ \E r \in FrameUpTo(current_lsn) : append_batch(r)
<1>1. current_lsn \in Nat /\ saved[c] \in SlotUpTo(current_lsn) /\ slot_name[c] \in Names
    BY Lsn DEF TInv, Held, Controls
<1>2. Frame("flush", slot_name[c], saved[c]) \in FrameUpTo(current_lsn)
    BY <1>1, SlotTyped
<1> QED
    BY <1>2 DEF log_slot_flush

(* The walsender. *)
LEMMA WalsenderTyped ==
    ASSUME NEW n, NEW c, TInv, n \in Nat, current_lsn <= n, Held(n), c \in Conns, Walsender(c)
    PROVE  /\ Controls' /\ Held(n)'
           /\ \/ UNCHANGED disk
              \/ \E r \in FrameUpTo(current_lsn) : append_batch(r)
<1>1. /\ current_lsn \in 0..n /\ Controls /\ base_lsn \in Nat
      /\ Held(current_lsn) /\ current_lsn \in Nat
    BY Lsn DEF TInv
<1> USE DEF Controls, Held
<1>2. /\ slot_name[c] \in Names /\ slots[slot_name[c]] \in SlotUpTo(n)
      /\ next_lsn[c] \in 0..n /\ end[c] \in {"cmd", "gone"}
    BY <1>1
<1>3. slots[slot_name[c]].confirmed \in 0..n
    BY <1>2 DEF SlotUpTo
<1>4. ASSUME Activate(c) PROVE Controls' /\ Held(n)' /\ UNCHANGED disk
    <2>1. [slots[slot_name[c]] EXCEPT !.active = TRUE] \in SlotUpTo(n)
        BY <1>2, SlotTyped
    <2>2. slots' \in [Names -> SlotUpTo(n)]
        BY <1>2, <1>4, <2>1 DEF Activate
    <2>3. Larger(next_lsn[c], slots[slot_name[c]].confirmed) \in 0..n
        BY <1>2, <1>3 DEF Larger
    <2>4. next_lsn' \in [Conns -> 0..n]
        BY <1>4, <2>3 DEF Activate
    <2>5. Controls'
        BY <1>1, <1>4 DEF Activate, disk, network, counters, Places, Streaming
    <2> QED
        BY <1>1, <1>4, <2>2, <2>4, <2>5 DEF Activate, network, consumer, counters
<1>5. ASSUME ActivateRefused(c) \/ CopyBothFails(c)
      PROVE  Controls' /\ Held(n)' /\ UNCHANGED disk
    <2>1. Return(c, "gone") /\ UNCHANGED <<slots, disk, consumer, counters>>
        BY <1>5 DEF ActivateRefused, CopyBothFails
    <2> QED
        BY <1>1, <2>1, ReturnTyped DEF disk, consumer, counters
<1>6. ASSUME CopyBothSent(c) PROVE Controls' /\ Held(n)' /\ UNCHANGED disk
    BY <1>1, <1>6 DEF CopyBothSent, disk, sender, network, consumer, counters, Places, Streaming
<1>7. ASSUME Poll(c) \/ StreamFails(c) PROVE Controls' /\ Held(n)' /\ UNCHANGED disk
    <2>1. PICK l, k : /\ Batch(c, l, k)
                      /\ Poll(c) => \/ next_lsn' = next_lsn
                                    \/ next_lsn' = [next_lsn EXCEPT ![c] = current_lsn]
        BY <1>7, BatchSent DEF Moves
    <2>2. l \in Seq(0 .. n - 1) /\ Send(c, l)
        <3>1. 0 .. current_lsn - 1 \subseteq 0 .. n - 1
            BY <1>1
        <3>2. l \in Seq(0 .. current_lsn - 1) /\ Send(c, l)
            BY <2>1 DEF Batch
        <3> QED
            BY <3>1, <3>2, SeqMonotonic
    <2>3. sent' \in [Conns -> Seq(0 .. n - 1)] /\ chan' \in [Conns -> Seq(0 .. n - 1)]
        BY <2>2, SendTyped
    <2>4. next_lsn' \in [Conns -> 0..n]
        BY <1>1, <1>7, <2>1 DEF StreamFails
    <2>5. Controls'
        BY <1>1, <1>7 DEF Poll, StreamFails, disk, counters, Places, Streaming
    <2> QED
        BY <1>1, <1>7, <2>3, <2>4, <2>5 DEF Poll, StreamFails, consumer, counters
<1>8. ASSUME Progress(c) PROVE Controls' /\ Held(n)' /\ UNCHANGED disk
    <2>1. [slots[slot_name[c]] EXCEPT !.restart = Larger(@, next_lsn[c])] \in SlotUpTo(n)
        BY <1>2, SlotTyped
    <2>2. slots' \in [Names -> SlotUpTo(n)]
        BY <1>2, <1>8, <2>1 DEF Progress
    <2>3. Controls'
        BY <1>1, <1>8 DEF Progress, disk, sender, network, counters, Places, Streaming
    <2> QED
        BY <1>1, <1>8, <2>2, <2>3 DEF Progress, sender, network, consumer, counters
<1>9. ASSUME ReadStatus(c) PROVE Controls' /\ Held(n)' /\ UNCHANGED disk
    <2> DEFINE slot == slots[slot_name[c]]
    <2>1. PICK flushed \in got[slot_name[c]] :
                Confirm(c, IF flushed > slot.confirmed
                           THEN [slot EXCEPT !.confirmed = flushed, !.restart = Larger(@, flushed)]
                           ELSE slot)
        BY <1>9 DEF ReadStatus
    <2> DEFINE new == IF flushed > slot.confirmed
                      THEN [slot EXCEPT !.confirmed = flushed, !.restart = Larger(@, flushed)]
                      ELSE slot
    <2>2. new \in SlotUpTo(n)
        <3>1. flushed \in 0..n
            BY <1>2
        <3> QED
            BY <1>2, <3>1, SlotTyped
    <2>3. Confirm(c, new)
        BY <2>1
    <2> HIDE DEF new
    <2>4. slots' \in [Names -> SlotUpTo(n)] /\ saved' \in [Conns -> SlotUpTo(n)]
        BY <1>2, <2>2, <2>3 DEF Confirm
    <2>5. Controls'
        BY <1>1, <2>3 DEF Confirm, disk, network, counters, Places, Streaming
    <2> QED
        BY <1>1, <2>3, <2>4, <2>5 DEF Confirm, network, consumer, counters
<1>10. ASSUME ReadTimeout(c) \/ ReadGarbage(c) PROVE Controls' /\ Held(n)' /\ UNCHANGED disk
    <2>1. Controls'
        BY <1>1, <1>10 DEF ReadTimeout, ReadGarbage, disk, sender, network, counters, Places, Streaming
    <2> QED
        BY <1>1, <1>10, <2>1 DEF ReadTimeout, ReadGarbage, sender, network, consumer, counters
<1>11. ASSUME FlushLog(c)
       PROVE  /\ Controls' /\ Held(n)'
              /\ UNCHANGED disk \/ \E r \in FrameUpTo(current_lsn) : append_batch(r)
    <2>1. UNCHANGED disk \/ \E r \in FrameUpTo(current_lsn) : append_batch(r)
        BY <1>11, FlushTyped DEF FlushLog
    <2>2. base_lsn' = base_lsn
        BY <2>1 DEF disk, append_batch
    <2>3. NoSlot \in SlotUpTo(n)
        BY SlotTyped
    <2>4. Controls'
        BY <1>1, <1>11, <2>2 DEF FlushLog, network, counters, Places, Streaming
    <2>5. Held(n)'
        BY <1>1, <1>11, <2>3 DEF FlushLog, network, consumer, counters
    <2> QED
        BY <2>1, <2>4, <2>5
<1>12. ASSUME Cleanup(c) PROVE Controls' /\ Held(n)' /\ UNCHANGED disk
    <2>1. CASE slots[slot_name[c]].exists
        <3>1. [slots[slot_name[c]] EXCEPT !.active = FALSE] \in SlotUpTo(n)
            BY <1>2, SlotTyped
        <3>2. slots' \in [Names -> SlotUpTo(n)] /\ saved' \in [Conns -> SlotUpTo(n)]
            BY <1>2, <1>12, <2>1, <3>1 DEF Cleanup
        <3>3. Controls'
            BY <1>1, <1>12, <2>1 DEF Cleanup, disk, network, counters, Places
        <3> QED
            BY <1>1, <1>12, <2>1, <3>2, <3>3 DEF Cleanup, network, consumer, counters
    <2>2. CASE ~slots[slot_name[c]].exists
        <3>1. Return(c, end[c]) /\ UNCHANGED <<slots, disk, consumer, counters>>
            BY <1>12, <2>2 DEF Cleanup
        <3> QED
            BY <1>1, <1>2, <3>1, ReturnTyped DEF disk, consumer, counters
    <2> QED
        BY <2>1, <2>2
<1>13. ASSUME FinalLog(c)
       PROVE  /\ Controls' /\ Held(n)'
              /\ UNCHANGED disk \/ \E r \in FrameUpTo(current_lsn) : append_batch(r)
    <2>1. UNCHANGED disk \/ \E r \in FrameUpTo(current_lsn) : append_batch(r)
        BY <1>13, FlushTyped DEF FinalLog
    <2>2. base_lsn' = base_lsn
        BY <2>1 DEF disk, append_batch
    <2>3. Return(c, end[c]) /\ UNCHANGED <<slots, consumer, counters>>
        BY <1>13 DEF FinalLog
    <2>4. Controls' /\ Held(n)'
        BY <1>1, <1>2, <2>2, <2>3, ReturnTyped DEF consumer, counters
    <2> QED
        BY <2>1, <2>4
<1> QED
    BY <1>4, <1>5, <1>6, <1>7, <1>8, <1>9, <1>10, <1>11, <1>12, <1>13 DEF Walsender

(* The consumer. *)
LEMMA ConsumerTyped ==
    ASSUME NEW n, NEW c, TInv, n \in Nat, current_lsn <= n, Held(n), c \in Conns, Consumer(c)
    PROVE  Controls' /\ Held(n)' /\ UNCHANGED disk
<1>1. /\ current_lsn \in 0..n /\ Controls /\ base_lsn \in Nat
      /\ Held(current_lsn) /\ current_lsn \in Nat
    BY Lsn DEF TInv
<1> USE DEF Controls, Held
<1>2. CASE Receive(c)
    <2>1. chan[c] \in Seq(0 .. n - 1) /\ chan[c] # <<>>
        BY <1>2 DEF Receive
    <2>2. Head(chan[c]) \in 0 .. n - 1 /\ Tail(chan[c]) \in Seq(0 .. n - 1)
        BY <2>1, HeadTailProperties
    <2>3. slot_name[c] \in Names /\ got' \in [Names -> SUBSET (0 .. n - 1)]
        BY <1>1, <1>2, <2>2 DEF Receive
    <2>4. chan' \in [Conns -> Seq(0 .. n - 1)]
        BY <1>2, <2>2 DEF Receive
    <2>5. Controls'
        BY <1>1, <1>2 DEF Receive, disk, sender, counters
    <2> QED
        BY <1>2, <2>3, <2>4, <2>5 DEF Receive, sender, counters
<1>3. CASE Reconnect(c)
    <2>1. <<>> \in Seq(0 .. n - 1)
        BY EmptySeq
    <2>2. Controls'
        BY <1>1, <1>3 DEF Reconnect, disk, sender, counters, Places
    <2> QED
        BY <1>3, <2>1, <2>2 DEF Reconnect, sender, consumer, counters
<1>4. CASE ReadEnd(c)
    <2>1. Controls'
        BY <1>1, <1>4 DEF ReadEnd, disk, network, counters, Places, Streaming
    <2> QED
        BY <1>4, <2>1 DEF ReadEnd, network, consumer, counters
<1>5. CASE \E s \in Names : start_replication(c, s)
    <2>1. PICK s \in Names : start_replication(c, s)
        BY <1>5
    <2>2. PICK start \in {0} \cup (IF got[s] = {} THEN {} ELSE {Max(got[s])}) :
                next_lsn' = [next_lsn EXCEPT ![c] = start]
        BY <2>1 DEF start_replication
    <2>3. start \in 0..n
        <3>1. CASE start = 0
            BY <3>1
        <3>2. CASE start # 0
            <4>1. got[s] # {} /\ start = Max(got[s]) /\ got[s] \subseteq 0 .. n - 1
                BY <2>2, <3>2
            <4>2. Max(got[s]) \in got[s]
                BY <4>1, MaxIs
            <4> QED
                BY <4>1, <4>2
        <3> QED
            BY <3>1, <3>2
    <2>4. Controls'
        BY <1>1, <2>1 DEF start_replication, disk, network, counters, Places
    <2> QED
        BY <2>1, <2>2, <2>3, <2>4 DEF start_replication, network, consumer, counters
<1> QED
    BY <1>2, <1>3, <1>4, <1>5 DEF Consumer

(* What is typed when the disk has not changed, or has grown by a frame. *)
LEMMA StillTyped ==
    ASSUME TInv, UNCHANGED disk, Controls', NEW n, n = current_lsn, Held(n)'
    PROVE  TInv'
<1>1. current_lsn' = n /\ Recovered' = Recovered
    BY DiskSame
<1>2. Stored(n)'
    BY <1>1 DEF TInv, Stored, disk
<1> QED
    BY <1>1, <1>2 DEF TInv, Stored, Held

LEMMA GrownTyped ==
    ASSUME TInv, NEW r, r \in FrameUpTo(current_lsn), append_batch(r), Controls',
           NEW n, n = current_lsn, Held(n + 1)'
    PROVE  TInv'
<1>1. current_lsn' = n + 1 /\ Stored(current_lsn)'
    BY Appended
<1> QED
    BY <1>1 DEF TInv, Held

(* A CHECKPOINT removes the frames and not the positions. *)
LEMMA CheckpointTyped == ASSUME TInv, checkpoint PROVE TInv' /\ current_lsn' = current_lsn /\ Recovered' = image'
<1> PICK n : n = current_lsn
    OBVIOUS
<1>1. n \in Nat /\ Controls /\ Stored(n) /\ Held(n)
    BY Lsn DEF TInv
<1>2. log' = <<>> /\ base_lsn' = n /\ image' = [s \in Names |-> Inactive(slots[s])]
    BY DEF checkpoint
<1>3. current_lsn' = n
    BY <1>1, <1>2, EmptySeq DEF current_lsn
<1>4. Recovered' = image'
    BY <1>2, ReplayedNone DEF Recovered
<1>5. image' \in [Names -> SlotUpTo(n)]
    BY <1>1, <1>2, SlotTyped DEF Held
<1>6. log' \in Seq(FrameUpTo(n))
    BY <1>2, EmptySeq
<1>7. Controls'
    BY <1>1, <1>2 DEF checkpoint, Controls, sender, network
<1>8. lost' \in [Names -> SUBSET (0 .. n - 1)]
    BY <1>1 DEF checkpoint, Held
<1>9. Held(n)'
    BY <1>1, <1>8 DEF checkpoint, Held, sender, network
<1> QED
    BY <1>3, <1>4, <1>5, <1>6, <1>7, <1>9 DEF TInv, Stored, Held

LEMMA CrashTyped == ASSUME TInv, Crash PROVE TInv'
<1> PICK n : n = current_lsn
    OBVIOUS
<1>1. n \in Nat /\ Controls /\ Stored(n) /\ Held(n) /\ UNCHANGED disk
    BY Lsn DEF TInv, Crash
<1>2. slots' \in [Names -> SlotUpTo(n)]
    BY <1>1, SlotTyped DEF Crash, Stored
<1>3. NoSlot \in SlotUpTo(n) /\ <<>> \in Seq(0 .. n - 1)
    <2>1. NoSlot \in SlotUpTo(n)
        BY <1>1, SlotTyped
    <2> QED
        BY <2>1, EmptySeq
<1>4. Controls'
    BY <1>1 DEF Crash, Controls, disk, consumer, Places
<1>5. Held(n)'
    BY <1>1, <1>2, <1>3 DEF Crash, Held, consumer
<1> QED
    BY <1>1, <1>4, <1>5, StillTyped

LEMMA CommitTyped == ASSUME TInv, Commit
                     PROVE  /\ TInv'
                            /\ LET r == Frame("commit", CHOOSE s \in Names : TRUE, NoSlot)
                               IN  r \in FrameUpTo(current_lsn) /\ append_batch(r)
<1> PICK n : n = current_lsn
    OBVIOUS
<1>1. n \in Nat /\ n + 1 \in Nat /\ n <= n + 1 /\ Controls /\ Stored(n) /\ Held(n)
    BY Lsn DEF TInv
<1>2. Held(n + 1)
    BY <1>1, Widen
<1> DEFINE r == Frame("commit", CHOOSE s \in Names : TRUE, NoSlot)
<1>3. r \in FrameUpTo(n)
    <2>1. NoSlot \in SlotUpTo(n) /\ (CHOOSE s \in Names : TRUE) \in Names
        BY <1>1, SlotTyped, ReplicationAssumption
    <2> QED
        BY <1>1, <2>1, SlotTyped
<1>4. append_batch(r) /\ base_lsn' = base_lsn
    BY DEF Commit, append_batch
<1>5. Controls'
    BY <1>1, <1>4 DEF Commit, Controls, sender, network
<1>6. commits' \subseteq 0 .. (n + 1) - 1
    BY <1>1, <1>2 DEF Commit, Held
<1>7. Held(n + 1)'
    BY <1>2, <1>6 DEF Commit, Held, sender, network, consumer
<1> HIDE DEF r
<1>8. TInv'
    BY <1>3, <1>4, <1>5, <1>7, GrownTyped
<1> QED
    BY <1>3, <1>4, <1>8 DEF r

(* A step of a connection keeps the disk or appends one frame. *)
LEMMA ConnTyped ==
    ASSUME TInv, NEW c, c \in Conns, SlotCommand(c) \/ Walsender(c) \/ Consumer(c)
    PROVE  /\ TInv'
           /\ \/ UNCHANGED disk
              \/ \E r \in FrameUpTo(current_lsn) : append_batch(r)
<1> PICK n : n = current_lsn
    OBVIOUS
<1>1. n \in Nat /\ n + 1 \in Nat /\ n <= n + 1 /\ Held(n) /\ Held(n + 1)
    BY Lsn, Widen DEF TInv
<1>2. /\ Controls' /\ Held(n)' /\ Held(n + 1)'
      /\ UNCHANGED disk \/ \E r \in FrameUpTo(n) : append_batch(r)
    <2>1. CASE SlotCommand(c)
        BY <1>1, <2>1, CommandTyped
    <2>2. CASE Walsender(c)
        BY <1>1, <2>2, WalsenderTyped
    <2>3. CASE Consumer(c)
        BY <1>1, <2>3, ConsumerTyped
    <2> QED
        BY <2>1, <2>2, <2>3
<1>3. CASE UNCHANGED disk
    BY <1>2, <1>3, StillTyped
<1>4. CASE \E r \in FrameUpTo(n) : append_batch(r)
    BY <1>2, <1>4, GrownTyped
<1> QED
    BY <1>2, <1>3, <1>4

LEMMA TInvStep == TInv /\ [Next]_vars => TInv'
<1> SUFFICES ASSUME TInv, [Next]_vars PROVE TInv'
    OBVIOUS
<1>1. CASE UNCHANGED vars
    <2> PICK n : n = current_lsn
        OBVIOUS
    <2>1. UNCHANGED disk /\ Controls' /\ Held(n)'
        BY <1>1 DEF TInv, Controls, Held, vars, disk, sender, network, consumer, counters
    <2> QED
        BY <2>1, StillTyped
<1> QED
    BY <1>1, ConnTyped, CommitTyped, CheckpointTyped, CrashTyped DEF Next

LEMMA TInvInit == Init => TInv
<1> SUFFICES ASSUME Init PROVE TInv
    OBVIOUS
<1>1. /\ log = <<>> /\ base_lsn = 0 /\ image = [s \in Names |-> NoSlot]
      /\ slots = image /\ saved = [c \in Conns |-> NoSlot]
    BY DEF Init
<1>2. current_lsn = 0 /\ Recovered = image
    BY <1>1, EmptySeq, ReplayedNone DEF current_lsn, Recovered
<1>3. image \in [Names -> SlotUpTo(0)] /\ saved \in [Conns -> SlotUpTo(0)]
    BY <1>1, SlotTyped
<1>4. log \in Seq(FrameUpTo(0)) /\ <<>> \in Seq(0 .. 0 - 1)
    BY <1>1, EmptySeq
<1>5. Stored(0)
    BY <1>2, <1>3, <1>4 DEF Stored
<1>6. Held(0)
    BY <1>1, <1>3, <1>4 DEF Init, Held
<1>7. Controls
    BY ReplicationAssumption DEF Init, Controls, Places
<1> QED
    BY <1>2, <1>5, <1>6, <1>7 DEF TInv

(* Every variable keeps its type, and every position it holds (confirmed,   *)
(* restart, received, on its way, in the log or in the image) is one the    *)
(* log has reached, whatever fails.                                         *)
THEOREM Types == Spec => []TypeOK
<1>1. Init => TInv
    BY TInvInit
<1>2. TInv /\ [Next]_vars => TInv'
    BY TInvStep
<1> QED
    BY <1>1, <1>2, TInvTypeOK, PTL DEF Spec

-----------------------------------------------------------------------------
(* The durable position of a slot never moves back.                         *)

(* What a record of connection c makes of the slots a restart brings back. *)
LEMMA RecordApplied ==
    ASSUME TInv, NEW c, NEW k, c \in Conns, k \in {"create", "drop", "flush"},
           append_batch(Frame(k, slot_name[c], saved[c]))
    PROVE  LET s == slot_name[c]
           IN  /\ s \in Names /\ \A t \in Names \ {s} : Recovered'[t] = Recovered[t]
               /\ k = "create" => Recovered'[s] = NewSlot(saved[c].restart)
               /\ k = "drop" => Recovered'[s] = NoSlot
               /\ k = "flush" =>
                    /\ Recovered'[s].exists <=> Recovered[s].exists
                    /\ Recovered'[s].confirmed =
                          IF Recovered[s].exists
                          THEN Larger(Recovered[s].confirmed, saved[c].confirmed)
                          ELSE Recovered[s].confirmed
<1> DEFINE s == slot_name[c]
           r == Frame(k, s, saved[c])
<1> PICK n : n = current_lsn
    OBVIOUS
<1>1. /\ n \in Nat /\ s \in Names /\ saved[c] \in SlotUpTo(n)
      /\ Recovered \in [Names -> SlotUpTo(n)]
    BY Lsn DEF TInv, Controls, Stored, Held
<1>2. r \in FrameUpTo(n)
    BY <1>1, SlotTyped
<1>3. Recovered' = apply_record(Recovered, r)
    BY <1>2, Appended
<1>4. /\ r.kind = k /\ r.slot = s
      /\ r.restart = saved[c].restart /\ r.confirmed = saved[c].confirmed
    BY DEF Frame
<1> HIDE DEF r
<1>5. CASE k = "create"
    <2>1. Recovered' = [Recovered EXCEPT ![s] = NewSlot(saved[c].restart)]
        BY <1>3, <1>4, <1>5 DEF apply_record
    <2> QED
        BY <1>1, <1>5, <2>1
<1>6. CASE k = "drop"
    <2>1. Recovered' = [Recovered EXCEPT ![s] = NoSlot]
        BY <1>3, <1>4, <1>6 DEF apply_record
    <2> QED
        BY <1>1, <1>6, <2>1
<1>7. CASE k = "flush"
    <2>1. CASE Recovered[s].exists
        <3> DEFINE new == [Recovered[s] EXCEPT !.confirmed = Larger(@, saved[c].confirmed),
                                               !.restart = Larger(@, saved[c].restart)]
        <3>1. Recovered' = [Recovered EXCEPT ![s] = new]
            BY <1>3, <1>4, <1>7, <2>1 DEF apply_record
        <3>2. /\ new.exists = Recovered[s].exists
              /\ new.confirmed = Larger(Recovered[s].confirmed, saved[c].confirmed)
            BY <1>1 DEF SlotUpTo
        <3> HIDE DEF new
        <3> QED
            BY <1>1, <1>7, <2>1, <3>1, <3>2
    <2>2. CASE ~Recovered[s].exists
        <3>1. Recovered' = Recovered
            BY <1>3, <1>4, <1>7, <2>2 DEF apply_record
        <3> QED
            BY <1>1, <1>7, <2>2, <3>1
    <2> QED
        BY <2>1, <2>2
<1> QED
    BY <1>1, <1>5, <1>6, <1>7

(* A commit changes no slot. *)
LEMMA CommitApplied == ASSUME TInv, Commit PROVE Recovered' = Recovered /\ current_lsn' = current_lsn + 1
<1> DEFINE r == Frame("commit", CHOOSE s \in Names : TRUE, NoSlot)
<1>1. r \in FrameUpTo(current_lsn) /\ append_batch(r)
    BY CommitTyped
<1>2. r.kind = "commit"
    BY DEF Frame
<1> HIDE DEF r
<1>3. Recovered' = apply_record(Recovered, r) /\ current_lsn' = current_lsn + 1
    BY <1>1, Appended
<1>4. apply_record(Recovered, r) = Recovered
    BY <1>2 DEF apply_record
<1> QED
    BY <1>3, <1>4

Flushing == {"flush_log", "final_log"}

(* A confirmed position that replay may use for s, now or once the flush    *)
(* record of a walsender is appended ...                                    *)
Low(s, x) ==
    \/ Recovered[s].exists /\ x = Recovered[s].confirmed
    \/ \E c \in Conns : pc[c] \in Flushing /\ slot_name[c] = s /\ x = saved[c].confirmed

(* ... and one the catalog holds, or will hold when a DROP is undone. *)
Top(s, y) ==
    \/ slots[s].exists /\ y = slots[s].confirmed
    \/ \E c \in Conns : Phase(pc[c]) = "drop" /\ slot_name[c] = s /\ y = saved[c].confirmed

(* A slot whose CREATE is under way is where it was created. *)
Fresh ==
    \A c \in Conns : Phase(pc[c]) = "create" =>
        slots[slot_name[c]].exists /\ slots[slot_name[c]].confirmed = saved[c].restart

PInv == Fresh /\ \A s \in Names : \A x, y : Low(s, x) /\ Top(s, y) => x <= y

(* No DROP of a slot that is there. *)
LEMMA TopIs ==
    ASSUME RInv, NEW s, s \in Names, slots[s].exists, NEW y, Top(s, y)
    PROVE  y = slots[s].confirmed
BY DEF RInv, DropWindow, Top

(* A step after which replay may use only what it could before, or what the *)
(* catalog holds, and the catalog holds nothing new.                        *)
LEMMA PKept ==
    ASSUME TInv, RInv, PInv, Fresh',
           \A s \in Names : \A x : Low(s, x)' =>
                Low(s, x) \/ (slots[s].exists /\ x = slots[s].confirmed),
           \A s \in Names : \A y : Top(s, y)' => Top(s, y)
    PROVE  PInv'
<1> SUFFICES ASSUME NEW s \in Names, NEW x, NEW y, Low(s, x)', Top(s, y)' PROVE x <= y
    BY DEF PInv
<1>1. Top(s, y)
    OBVIOUS
<1>2. CASE Low(s, x)
    BY <1>1, <1>2 DEF PInv
<1>3. CASE slots[s].exists /\ x = slots[s].confirmed
    <2>1. y = x
        BY <1>1, <1>3, TopIs
    <2>2. x \in Nat
        BY <1>3, Lsn DEF TInv, Held, SlotUpTo
    <2> QED
        BY <2>1, <2>2
<1> QED
    BY <1>2, <1>3

(* A step of a connection that goes on with, or is over with, what it did. *)
Idles(d) ==
    /\ pc'[d] \in Flushing => /\ pc[d] \in Flushing
                              /\ slot_name'[d] = slot_name[d] /\ saved'[d] = saved[d]
    /\ Phase(pc'[d]) \in {"create", "drop"} =>
            /\ Phase(pc'[d]) = Phase(pc[d])
            /\ slot_name'[d] = slot_name[d] /\ saved'[d] = saved[d]

(* A step that neither opens nor closes a CREATE or DROP, and undoes one     *)
(* only if appends can fail.                                                *)
Undoing == {"create_undo", "drop_undo"}

Steady(d) ==
    /\ (Phase(pc[d]) \in {"create", "drop"} \/ Phase(pc'[d]) \in {"create", "drop"}) =>
            /\ Phase(pc'[d]) = Phase(pc[d])
            /\ slot_name'[d] = slot_name[d] /\ saved'[d] = saved[d]
    /\ pc'[d] \in Undoing => pc[d] \in Undoing \/ "append" \in Faults

SameConfirmed ==
    \A s \in Names : /\ slots'[s].exists <=> slots[s].exists
                     /\ slots'[s].confirmed = slots[s].confirmed

(* A step that confirms nothing and appends nothing. *)
LEMMA PQuiet ==
    ASSUME TInv, RInv, PInv, SameConfirmed, Recovered' = Recovered, \A d \in Conns : Idles(d)
    PROVE  PInv'
<1>1. slot_name \in [Conns -> Names]
    BY DEF TInv, Controls
<1>2. Fresh'
    BY <1>1 DEF PInv, Fresh, SameConfirmed, Idles
<1>3. ASSUME NEW s \in Names, NEW x, Low(s, x)' PROVE Low(s, x)
    BY <1>3 DEF Low, Idles
<1>4. ASSUME NEW s \in Names, NEW y, Top(s, y)' PROVE Top(s, y)
    BY <1>4 DEF Top, Idles, SameConfirmed
<1> QED
    BY <1>2, <1>3, <1>4, PKept

(* What the phases and places have to do with each other. *)
LEMMA Flushes ==
    /\ \A p \in Flushing : Phase(p) \notin {"create", "drop"}
    /\ \A p : Phase(p) \in {"create", "drop"} => p \notin Streaming \cup {"cmd", "gone", "start"}
BY DEF Flushing, Phase, Streaming

(* Such are most steps. *)
LEMMA IdleStep ==
    ASSUME TInv, NEW c, c \in Conns,
           \/ CreateNotLogged(c) \/ DropNotLogged(c) \/ ReadOnlyCommand(c)
           \/ Activate(c) \/ ActivateRefused(c) \/ CopyBothSent(c) \/ CopyBothFails(c)
           \/ Poll(c) \/ StreamFails(c) \/ Progress(c)
           \/ ReadTimeout(c) \/ ReadGarbage(c) \/ Consumer(c)
    PROVE  /\ UNCHANGED disk /\ Recovered' = Recovered /\ SameConfirmed
           /\ \A d \in Conns : Idles(d) /\ Steady(d)
<1> USE Flushes, Phases
<1>1. /\ slot_name[c] \in Names /\ slots \in [Names -> SlotUpTo(current_lsn)]
      /\ DOMAIN pc = Conns /\ DOMAIN slot_name = Conns /\ DOMAIN saved = Conns
    BY DEF TInv, Controls, Held
<1>2. UNCHANGED disk
    BY DEF CreateNotLogged, DropNotLogged, ReadOnlyCommand, Activate, ActivateRefused,
           CopyBothSent, CopyBothFails, Poll, StreamFails, Progress, ReadTimeout, ReadGarbage,
           Consumer, Receive, Reconnect, ReadEnd, start_replication, vars
<1>3. Recovered' = Recovered
    BY <1>2, DiskSame
<1>4. SameConfirmed
    <2>1. CASE Activate(c)
        BY <1>1, <2>1 DEF Activate, SameConfirmed, SlotUpTo
    <2>2. CASE Progress(c)
        BY <1>1, <2>2 DEF Progress, SameConfirmed, SlotUpTo
    <2>3. CASE slots' = slots
        BY <2>3 DEF SameConfirmed
    <2> QED
        BY <2>1, <2>2, <2>3
           DEF CreateNotLogged, DropNotLogged, ReadOnlyCommand, ActivateRefused, CopyBothSent,
               CopyBothFails, Poll, StreamFails, ReadTimeout, ReadGarbage, Consumer,
               Receive, Reconnect, ReadEnd, start_replication, vars
<1>5. \A d \in Conns : Idles(d) /\ Steady(d)
    <2>1. \A d \in Conns \ {c} : /\ pc'[d] = pc[d] /\ slot_name'[d] = slot_name[d]
                                 /\ saved'[d] = saved[d]
        <3>1. CASE CreateNotLogged(c) \/ DropNotLogged(c) \/ ReadOnlyCommand(c)
            BY <1>1, <3>1 DEF CreateNotLogged, DropNotLogged, ReadOnlyCommand, vars, sender
        <3>2. CASE Activate(c) \/ ActivateRefused(c) \/ CopyBothSent(c) \/ CopyBothFails(c)
            BY <1>1, <3>2 DEF Activate, ActivateRefused, CopyBothSent, CopyBothFails, Return, sender
        <3>3. CASE Poll(c) \/ StreamFails(c) \/ Progress(c)
            BY <1>1, <3>3 DEF Poll, StreamFails, Progress, sender
        <3>4. CASE ReadTimeout(c) \/ ReadGarbage(c)
            BY <1>1, <3>4 DEF ReadTimeout, ReadGarbage, sender
        <3>5. CASE Consumer(c)
            BY <1>1, <3>5 DEF Consumer, Receive, Reconnect, ReadEnd, start_replication, sender
        <3> QED
            BY <3>1, <3>2, <3>3, <3>4, <3>5
    <2>2. Idles(c) /\ Steady(c)
        <3>1. CASE CreateNotLogged(c) \/ DropNotLogged(c) \/ ReadOnlyCommand(c)
            BY <1>1, <3>1
               DEF CreateNotLogged, DropNotLogged, ReadOnlyCommand, vars, sender, Idles, Steady,
                   Flushing, Undoing
        <3>2. CASE Activate(c) \/ ActivateRefused(c) \/ CopyBothSent(c) \/ CopyBothFails(c)
            BY <1>1, <3>2
               DEF Activate, ActivateRefused, CopyBothSent, CopyBothFails, Return, Idles, Steady,
                   Flushing, Undoing, Streaming
        <3>3. CASE Poll(c)
            <4>1. pc'[c] \in {"read", "progress"}
                BY <1>1, <3>3 DEF Poll
            <4>2. pc[c] = "poll"
                BY <3>3 DEF Poll
            <4> QED
                BY <4>1, <4>2 DEF Idles, Steady, Flushing, Undoing, Streaming
        <3>4. CASE StreamFails(c) \/ Progress(c) \/ ReadTimeout(c) \/ ReadGarbage(c)
            BY <1>1, <3>4
               DEF StreamFails, Progress, ReadTimeout, ReadGarbage, Idles, Steady, Flushing, Undoing,
                   Streaming
        <3>5. CASE Consumer(c)
            BY <1>1, <3>5
               DEF Consumer, Receive, Reconnect, ReadEnd, start_replication, sender, Idles, Steady,
                   Flushing, Undoing, Streaming
        <3> QED
            BY <3>1, <3>2, <3>3, <3>4, <3>5
    <2> QED
        BY <2>1, <2>2 DEF Idles, Steady
<1> QED
    BY <1>2, <1>3, <1>4, <1>5

(* CREATE: the new slot is at the end of the log, ahead of all there was.   *)
LEMMA PCreate ==
    ASSUME ~OverlappingDDL, TInv, RInv, PInv, NEW c, NEW s, c \in Conns, s \in Names,
           create_slot(c, s)
    PROVE  PInv'
<1> PICK n : n = current_lsn
    OBVIOUS
<1>1. /\ n \in Nat /\ slots \in [Names -> SlotUpTo(n)] /\ saved \in [Conns -> SlotUpTo(n)]
      /\ Recovered \in [Names -> SlotUpTo(n)]
      /\ slot_name \in [Conns -> Names] /\ DOMAIN pc = Conns
    BY Lsn DEF TInv, Controls, Held, Stored
<1>2. /\ slots' = [slots EXCEPT ![s] = NewSlot(n)] /\ saved' = [saved EXCEPT ![c] = NewSlot(n)]
      /\ slot_name' = [slot_name EXCEPT ![c] = s] /\ pc' = [pc EXCEPT ![c] = "create_log"]
      /\ UNCHANGED disk
    BY DEF create_slot
<1>3. Recovered' = Recovered
    BY <1>2, DiskSame
<1>4. NewSlot(n).exists /\ NewSlot(n).confirmed = n /\ NewSlot(n).restart = n
    BY DEF NewSlot
<1>5. \A d \in Conns : slot_name[d] = s => Phase(pc[d]) \notin {"create", "drop"}
    BY Issued DEF create_slot, MayCreate
<1>6. \A d \in Conns \ {c} : /\ pc'[d] = pc[d] /\ slot_name'[d] = slot_name[d]
                             /\ saved'[d] = saved[d]
    BY <1>1, <1>2
<1>7. pc'[c] = "create_log" /\ slot_name'[c] = s /\ saved'[c] = NewSlot(n)
    BY <1>1, <1>2
<1>8. slots'[s] = NewSlot(n) /\ \A t \in Names \ {s} : slots'[t] = slots[t]
    BY <1>1, <1>2
<1>9. Fresh'
    <2> SUFFICES ASSUME NEW d \in Conns, Phase(pc'[d]) = "create"
                 PROVE  /\ slots'[slot_name'[d]].exists
                        /\ slots'[slot_name'[d]].confirmed = saved'[d].restart
        BY DEF Fresh
    <2>1. CASE d = c
        BY <1>4, <1>7, <1>8, <2>1
    <2>2. CASE d # c
        <3>1. slot_name[d] \in Names \ {s} /\ Phase(pc[d]) = "create"
            BY <1>1, <1>5, <1>6, <2>2
        <3> QED
            BY <1>6, <1>8, <2>2, <3>1 DEF PInv, Fresh
    <2> QED
        BY <2>1, <2>2
<1>10. Phase(pc'[c]) = "create" /\ pc'[c] \notin Flushing
    BY <1>7, Phases DEF Flushing
<1>11. ASSUME NEW t \in Names, NEW x, Low(t, x)' PROVE Low(t, x) /\ x <= n
    <2>1. Low(t, x)
        BY <1>3, <1>6, <1>10, <1>11 DEF Low
    <2>2. x \in 0..n
        BY <1>1, <2>1 DEF Low, SlotUpTo
    <2> QED
        BY <1>1, <2>1, <2>2
<1>12. ASSUME NEW t \in Names, NEW y, Top(t, y)' PROVE (t = s /\ y = n) \/ (t # s /\ Top(t, y))
    <2>1. CASE slots'[t].exists /\ y = slots'[t].confirmed
        BY <1>4, <1>8, <2>1 DEF Top
    <2>2. CASE \E d \in Conns : Phase(pc'[d]) = "drop" /\ slot_name'[d] = t /\ y = saved'[d].confirmed
        BY <1>5, <1>6, <1>10, <2>2 DEF Top
    <2> QED
        BY <1>12, <2>1, <2>2 DEF Top
<1> QED
    BY <1>9, <1>11, <1>12 DEF PInv

(* DROP: what an undo would put back is what the catalog held. *)
LEMMA PDrop ==
    ASSUME ~OverlappingDDL, TInv, RInv, PInv, NEW c, NEW s, c \in Conns, s \in Names,
           drop_slot(c, s)
    PROVE  PInv'
<1>1. /\ DOMAIN slots = Names /\ DOMAIN saved = Conns
      /\ slot_name \in [Conns -> Names] /\ DOMAIN pc = Conns
    BY DEF TInv, Controls, Held
<1>2. /\ slots' = [slots EXCEPT ![s] = NoSlot] /\ saved' = [saved EXCEPT ![c] = slots[s]]
      /\ slot_name' = [slot_name EXCEPT ![c] = s] /\ pc' = [pc EXCEPT ![c] = "drop_log"]
      /\ UNCHANGED disk /\ slots[s].exists
    BY DEF drop_slot
<1>3. Recovered' = Recovered
    BY <1>2, DiskSame
<1>4. \A d \in Conns : slot_name[d] = s => Phase(pc[d]) \notin {"create", "drop"}
    BY Issued DEF drop_slot
<1>5. \A d \in Conns \ {c} : /\ pc'[d] = pc[d] /\ slot_name'[d] = slot_name[d]
                             /\ saved'[d] = saved[d]
    BY <1>1, <1>2
<1>6. /\ slot_name'[c] = s /\ saved'[c] = slots[s]
      /\ Phase(pc'[c]) = "drop" /\ pc'[c] \notin Flushing
    BY <1>1, <1>2, Phases DEF Flushing
<1>7. ~slots'[s].exists /\ \A t \in Names \ {s} : slots'[t] = slots[t]
    BY <1>1, <1>2 DEF NoSlot
<1>8. Fresh'
    <2> SUFFICES ASSUME NEW d \in Conns, Phase(pc'[d]) = "create"
                 PROVE  /\ slots'[slot_name'[d]].exists
                        /\ slots'[slot_name'[d]].confirmed = saved'[d].restart
        BY DEF Fresh
    <2>1. d # c
        BY <1>6
    <2>2. slot_name[d] \in Names \ {s} /\ Phase(pc[d]) = "create"
        BY <1>1, <1>4, <1>5, <2>1
    <2> QED
        BY <1>5, <1>7, <2>1, <2>2 DEF PInv, Fresh
<1>9. ASSUME NEW t \in Names, NEW x, Low(t, x)' PROVE Low(t, x)
    BY <1>3, <1>5, <1>6, <1>9 DEF Low
<1>10. ASSUME NEW t \in Names, NEW y, Top(t, y)' PROVE Top(t, y)
    <2>1. CASE slots'[t].exists /\ y = slots'[t].confirmed
        BY <1>7, <2>1 DEF Top
    <2>2. CASE \E d \in Conns : Phase(pc'[d]) = "drop" /\ slot_name'[d] = t /\ y = saved'[d].confirmed
        BY <1>2, <1>5, <1>6, <2>2 DEF Top
    <2> QED
        BY <1>10, <2>1, <2>2 DEF Top
<1> QED
    BY <1>8, <1>9, <1>10, PKept

(* The end of a CREATE or DROP, logged or undone. *)
LEMMA PDone ==
    ASSUME TInv, RInv, PInv, NEW c, c \in Conns,
           CreateLogged(c) \/ DropLogged(c) \/ CreateUndo(c) \/ DropUndo(c)
    PROVE  PInv'
<1> DEFINE s == slot_name[c]
<1> USE Phases
<1>1. /\ slots \in [Names -> SlotUpTo(current_lsn)] /\ DOMAIN saved = Conns
      /\ slot_name \in [Conns -> Names] /\ DOMAIN pc = Conns
    BY DEF TInv, Controls, Held
<1>2. /\ pc' = [pc EXCEPT ![c] = "cmd"] /\ slot_name' = slot_name
      /\ saved' = [saved EXCEPT ![c] = NoSlot]
    BY DEF CreateLogged, DropLogged, CreateUndo, DropUndo, Return
<1>3. Phase(pc'[c]) = "idle" /\ pc'[c] \notin Flushing
    BY <1>1, <1>2 DEF Flushing
<1>4. \A d \in Conns \ {c} : pc'[d] = pc[d] /\ slot_name'[d] = slot_name[d] /\ saved'[d] = saved[d]
    BY <1>1, <1>2
<1>5. Phase(pc[c]) \in {"create", "drop"}
    BY DEF CreateLogged, DropLogged, CreateUndo, DropUndo
<1>6. \A d \in Conns \ {c} : slot_name[d] = s => Phase(pc[d]) \notin {"create", "drop"}
    BY <1>5 DEF RInv, OneDDL
<1>7. /\ \A t \in Names \ {s} : slots'[t] = slots[t]
      /\ slots'[s] = slots[s] \/ slots'[s] = NoSlot \/ (Phase(pc[c]) = "drop" /\ slots'[s] = saved[c])
    BY <1>1 DEF CreateLogged, DropLogged, CreateUndo, DropUndo
<1>8. Fresh'
    <2> SUFFICES ASSUME NEW d \in Conns, Phase(pc'[d]) = "create"
                 PROVE  /\ slots'[slot_name'[d]].exists
                        /\ slots'[slot_name'[d]].confirmed = saved'[d].restart
        BY DEF Fresh
    <2>1. d # c
        BY <1>3
    <2>2. slot_name[d] \in Names \ {s} /\ Phase(pc[d]) = "create"
        BY <1>1, <1>4, <1>6, <2>1
    <2> QED
        BY <1>4, <1>7, <2>1, <2>2 DEF PInv, Fresh
<1>9. ASSUME NEW t \in Names, NEW y, Top(t, y)' PROVE Top(t, y)
    <2>1. CASE slots'[t].exists /\ y = slots'[t].confirmed
        BY <1>7, <2>1 DEF Top, NoSlot
    <2>2. CASE \E d \in Conns : Phase(pc'[d]) = "drop" /\ slot_name'[d] = t /\ y = saved'[d].confirmed
        BY <1>3, <1>4, <2>2 DEF Top
    <2> QED
        BY <1>9, <2>1, <2>2 DEF Top
<1>10. \A t \in Names : Recovered'[t].exists =>
            \/ Recovered'[t] = Recovered[t]
            \/ slots[t].exists /\ Recovered'[t].confirmed = slots[t].confirmed
    <2>1. CASE CreateLogged(c)
        <3>1. /\ \A t \in Names \ {s} : Recovered'[t] = Recovered[t]
              /\ Recovered'[s] = NewSlot(saved[c].restart)
            BY <2>1, RecordApplied DEF CreateLogged
        <3>2. slots[s].exists /\ slots[s].confirmed = saved[c].restart
            BY <2>1 DEF PInv, Fresh, CreateLogged
        <3> QED
            BY <3>1, <3>2 DEF NewSlot
    <2>2. CASE DropLogged(c)
        <3>1. /\ \A t \in Names \ {s} : Recovered'[t] = Recovered[t]
              /\ Recovered'[s] = NoSlot
            BY <2>2, RecordApplied DEF DropLogged
        <3> QED
            BY <3>1 DEF NoSlot
    <2>3. CASE CreateUndo(c) \/ DropUndo(c)
        BY <2>3, DiskSame DEF CreateUndo, DropUndo
    <2> QED
        BY <2>1, <2>2, <2>3
<1>11. ASSUME NEW t \in Names, NEW x, Low(t, x)'
       PROVE  Low(t, x) \/ (slots[t].exists /\ x = slots[t].confirmed)
    <2>1. CASE Recovered'[t].exists /\ x = Recovered'[t].confirmed
        BY <1>10, <2>1 DEF Low
    <2>2. CASE \E d \in Conns : pc'[d] \in Flushing /\ slot_name'[d] = t /\ x = saved'[d].confirmed
        BY <1>3, <1>4, <2>2 DEF Low
    <2> QED
        BY <1>11, <2>1, <2>2 DEF Low
<1> QED
    BY <1>8, <1>9, <1>11, PKept

(* What a standby status does: the confirmed position of the slot moves to   *)
(* one its consumer has received, or stays.                                 *)
LEMMA StatusIs ==
    ASSUME TInv, NEW c, c \in Conns, ReadStatus(c)
    PROVE  LET s == slot_name[c]
           IN  /\ pc[c] = "read" /\ slot_name' = slot_name /\ UNCHANGED <<disk, consumer, commits>>
               /\ UNCHANGED <<next_lsn, network>>
               /\ \/ /\ slots' = slots /\ saved' = saved /\ pc' = [pc EXCEPT ![c] = "poll"]
                  \/ \E new : /\ new.exists /\ slots[s].exists
                              /\ new.confirmed \in Nat /\ slots[s].confirmed <= new.confirmed
                              /\ new.confirmed \in got[s] \cup {slots[s].confirmed}
                              /\ slots' = [slots EXCEPT ![s] = new]
                              /\ \/ /\ pc' = [pc EXCEPT ![c] = "poll"] /\ saved' = saved
                                 \/ /\ pc' = [pc EXCEPT ![c] = "flush_log"]
                                    /\ saved' = [saved EXCEPT ![c] = new]
<1> DEFINE s == slot_name[c]
           slot == slots[s]
<1> PICK n : n = current_lsn
    OBVIOUS
<1>1. n \in Nat /\ s \in Names /\ slot \in SlotUpTo(n) /\ got[s] \subseteq 0 .. n - 1
    BY Lsn DEF TInv, Controls, Held
<1>2. PICK flushed \in got[s] :
            Confirm(c, IF flushed > slot.confirmed
                       THEN [slot EXCEPT !.confirmed = flushed, !.restart = Larger(@, flushed)]
                       ELSE slot)
    BY DEF ReadStatus
<1> DEFINE new == IF flushed > slot.confirmed
                  THEN [slot EXCEPT !.confirmed = flushed, !.restart = Larger(@, flushed)]
                  ELSE slot
<1>3. /\ new.exists = slot.exists /\ new.confirmed \in Nat /\ slot.confirmed <= new.confirmed
      /\ new.confirmed \in got[s] \cup {slot.confirmed}
    <2>1. flushed \in Nat /\ slot.confirmed \in Nat
        BY <1>1 DEF SlotUpTo
    <2>2. CASE flushed > slot.confirmed
        <3>1. new = [slot EXCEPT !.confirmed = flushed, !.restart = Larger(@, flushed)]
            BY <2>2
        <3>2. new.confirmed = flushed /\ new.exists = slot.exists
            BY <1>1, <3>1 DEF SlotUpTo
        <3> HIDE DEF new
        <3> QED
            BY <2>1, <2>2, <3>2
    <2>3. CASE ~(flushed > slot.confirmed)
        BY <2>1, <2>3
    <2> QED
        BY <2>2, <2>3
<1>4. Confirm(c, new)
    BY <1>2
<1> HIDE DEF new
<1>5. /\ pc[c] = "read" /\ slot_name' = slot_name /\ UNCHANGED <<disk, consumer, commits>>
      /\ UNCHANGED <<next_lsn, network>>
    BY <1>4 DEF ReadStatus, Confirm, counters
<1> QED
    BY <1>3, <1>4, <1>5 DEF Confirm

LEMMA PStatus ==
    ASSUME TInv, RInv, PInv, NEW c, c \in Conns, ReadStatus(c)
    PROVE  PInv'
<1> DEFINE s == slot_name[c]
<1> USE Phases, Flushes
<1>1. /\ slots \in [Names -> SlotUpTo(current_lsn)] /\ DOMAIN saved = Conns /\ s \in Names
      /\ slot_name \in [Conns -> Names] /\ DOMAIN pc = Conns
    BY DEF TInv, Controls, Held
<1>2. pc[c] = "read" /\ slot_name' = slot_name /\ UNCHANGED disk
    BY StatusIs
<1>3. Recovered' = Recovered
    BY <1>2, DiskSame
<1>4. CASE slots' = slots /\ saved' = saved /\ pc' = [pc EXCEPT ![c] = "poll"]
    <2>1. \A d \in Conns : Idles(d)
        BY <1>1, <1>2, <1>4 DEF Idles, Flushing, Streaming
    <2>2. SameConfirmed
        BY <1>4 DEF SameConfirmed
    <2> QED
        BY <1>3, <2>1, <2>2, PQuiet
<1>5. ASSUME NEW new, new.exists, slots[s].exists,
             new.confirmed \in Nat, slots[s].confirmed <= new.confirmed,
             slots' = [slots EXCEPT ![s] = new],
             \/ pc' = [pc EXCEPT ![c] = "poll"] /\ saved' = saved
             \/ pc' = [pc EXCEPT ![c] = "flush_log"] /\ saved' = [saved EXCEPT ![c] = new]
      PROVE  PInv'
    <2>1. slots'[s] = new /\ \A t \in Names \ {s} : slots'[t] = slots[t]
        BY <1>1, <1>5
    <2>2. \A d \in Conns \ {c} : pc'[d] = pc[d] /\ saved'[d] = saved[d]
        BY <1>1, <1>5
    <2>3. /\ Phase(pc'[c]) \notin {"create", "drop"}
          /\ pc'[c] \in Flushing => saved'[c] = new
        BY <1>1, <1>5 DEF Flushing, Streaming
    <2>4. slots[s].active
        <3>1. Phase(pc[c]) = "stream"
            BY <1>2 DEF Streaming
        <3> QED
            BY <1>1, <3>1 DEF RInv, HeldWhenActive, Holds
    <2>5. \A d \in Conns : slot_name[d] = s => Phase(pc[d]) \notin {"create", "drop"}
        BY <1>5, <2>4 DEF RInv, CreateWindow, DropWindow
    <2>6. Fresh'
        <3> SUFFICES ASSUME NEW d \in Conns, Phase(pc'[d]) = "create"
                     PROVE  /\ slots'[slot_name[d]].exists
                            /\ slots'[slot_name[d]].confirmed = saved'[d].restart
            BY <1>2 DEF Fresh
        <3>1. d # c
            BY <2>3
        <3>2. slot_name[d] \in Names \ {s} /\ Phase(pc[d]) = "create"
            BY <1>1, <2>2, <2>5, <3>1
        <3> QED
            BY <2>1, <2>2, <3>1, <3>2 DEF PInv, Fresh
    <2>7. ASSUME NEW t \in Names, NEW x, Low(t, x)'
          PROVE  Low(t, x) \/ (t = s /\ x = new.confirmed)
        BY <1>2, <1>3, <2>2, <2>3, <2>7 DEF Low
    <2>8. ASSUME NEW t \in Names, NEW y, Top(t, y)'
          PROVE  (t = s /\ y = new.confirmed) \/ (t # s /\ Top(t, y))
        <3>1. CASE slots'[t].exists /\ y = slots'[t].confirmed
            BY <2>1, <3>1 DEF Top
        <3>2. CASE \E d \in Conns : Phase(pc'[d]) = "drop" /\ slot_name'[d] = t
                                    /\ y = saved'[d].confirmed
            BY <1>2, <2>2, <2>3, <2>5, <3>2 DEF Top
        <3> QED
            BY <2>8, <3>1, <3>2 DEF Top
    <2>9. ASSUME NEW t \in Names, NEW x, NEW y, Low(t, x)', Top(t, y)' PROVE x <= y
        <3>1. CASE t # s
            BY <2>7, <2>8, <2>9, <3>1 DEF PInv
        <3>2. CASE t = s
            <4>1. y = new.confirmed
                BY <2>8, <2>9, <3>2
            <4>2. CASE Low(s, x)
                <5>1. x <= slots[s].confirmed
                    BY <1>1, <1>5, <4>2 DEF PInv, Top
                <5>2. x \in Nat /\ slots[s].confirmed \in Nat
                    <6>1. \A slot \in SlotUpTo(current_lsn) : slot.confirmed \in Nat
                        BY Lsn DEF SlotUpTo
                    <6>2. slots[s] \in SlotUpTo(current_lsn) /\ Recovered[s] \in SlotUpTo(current_lsn)
                        BY <1>1 DEF TInv, Held, Stored
                    <6>3. \A d \in Conns : saved[d] \in SlotUpTo(current_lsn)
                        BY DEF TInv, Held
                    <6> QED
                        BY <4>2, <6>1, <6>2, <6>3 DEF Low
                <5> QED
                    BY <1>5, <4>1, <5>1, <5>2
            <4>3. CASE x = new.confirmed
                BY <1>5, <4>1, <4>3
            <4> QED
                BY <2>7, <2>9, <3>2, <4>2, <4>3
        <3> QED
            BY <3>1, <3>2
    <2> QED
        BY <2>6, <2>9 DEF PInv
<1> QED
    BY <1>4, <1>5, StatusIs

(* A flush record raises what replay finds to a position it could already    *)
(* have come to; without the record nothing changes.                        *)
LEMMA PFlush ==
    ASSUME TInv, RInv, PInv, EndsWell, NEW c, c \in Conns, FlushLog(c) \/ FinalLog(c)
    PROVE  PInv'
<1> DEFINE s == slot_name[c]
<1> USE Phases, Flushes
<1>1. /\ Recovered \in [Names -> SlotUpTo(current_lsn)] /\ DOMAIN saved = Conns /\ s \in Names
      /\ slot_name \in [Conns -> Names] /\ DOMAIN pc = Conns
      /\ saved[c] \in SlotUpTo(current_lsn)
    BY DEF TInv, Controls, Held, Stored
<1>2. slots' = slots /\ slot_name' = slot_name /\ pc[c] \in Flushing /\ log_slot_flush(c)
    BY DEF FlushLog, FinalLog, Flushing, Return
<1>3. \A d \in Conns : Idles(d)
    <2>1. \A d \in Conns \ {c} : pc'[d] = pc[d] /\ saved'[d] = saved[d]
        BY <1>1 DEF FlushLog, FinalLog, Return
    <2>2. pc'[c] \in {"poll", "cmd", "gone"}
        BY <1>1 DEF FlushLog, FinalLog, Return, EndsWell
    <2> QED
        BY <1>2, <2>1, <2>2 DEF Idles, Flushing, Streaming
<1>4. SameConfirmed
    BY <1>2 DEF SameConfirmed
<1>5. CASE UNCHANGED disk
    BY <1>3, <1>4, <1>5, DiskSame, PQuiet
<1>6. CASE append_batch(Frame("flush", s, saved[c]))
    <2>1. /\ \A t \in Names \ {s} : Recovered'[t] = Recovered[t]
          /\ Recovered'[s].exists <=> Recovered[s].exists
          /\ Recovered'[s].confirmed = IF Recovered[s].exists
                                       THEN Larger(Recovered[s].confirmed, saved[c].confirmed)
                                       ELSE Recovered[s].confirmed
        BY <1>6, RecordApplied
    <2>2. Fresh'
        BY <1>1, <1>2, <1>3 DEF PInv, Fresh, Idles
    <2>3. ASSUME NEW t \in Names, NEW x, Low(t, x)' PROVE Low(t, x)
        <3>1. CASE Recovered'[t].exists /\ x = Recovered'[t].confirmed
            <4>1. CASE t # s
                BY <2>1, <3>1, <4>1 DEF Low
            <4>2. CASE t = s
                <5>1. Recovered[s].exists /\ x = Larger(Recovered[s].confirmed, saved[c].confirmed)
                    BY <2>1, <3>1, <4>2
                <5>2. x = Recovered[s].confirmed \/ x = saved[c].confirmed
                    BY <5>1 DEF Larger
                <5> QED
                    BY <1>2, <4>2, <5>1, <5>2 DEF Low
            <4> QED
                BY <4>1, <4>2
        <3>2. CASE \E d \in Conns : pc'[d] \in Flushing /\ slot_name'[d] = t
                                    /\ x = saved'[d].confirmed
            BY <1>3, <3>2 DEF Low, Idles
        <3> QED
            BY <2>3, <3>1, <3>2 DEF Low
    <2>4. ASSUME NEW t \in Names, NEW y, Top(t, y)' PROVE Top(t, y)
        BY <1>2, <1>3, <2>4 DEF Top, Idles
    <2> QED
        BY <2>2, <2>3, <2>4, PKept
<1> QED
    BY <1>2, <1>5, <1>6 DEF log_slot_flush

(* The cleanup takes the slot's positions from the catalog. *)
LEMMA PCleanup ==
    ASSUME TInv, RInv, PInv, EndsWell, NEW c, c \in Conns, Cleanup(c)
    PROVE  PInv'
<1> DEFINE s == slot_name[c]
<1> USE Phases, Flushes
<1>1. /\ slots \in [Names -> SlotUpTo(current_lsn)] /\ DOMAIN saved = Conns /\ s \in Names
      /\ slot_name \in [Conns -> Names] /\ DOMAIN pc = Conns
    BY DEF TInv, Controls, Held
<1>2. slot_name' = slot_name /\ UNCHANGED disk
    BY DEF Cleanup, Return
<1>3. Recovered' = Recovered
    BY <1>2, DiskSame
<1>4. SameConfirmed
    BY <1>1 DEF Cleanup, SameConfirmed, SlotUpTo
<1>5. \A d \in Conns \ {c} : pc'[d] = pc[d] /\ saved'[d] = saved[d]
    BY <1>1 DEF Cleanup, Return
<1>6. CASE slots[s].exists
    <2>1. saved'[c] = slots[s] /\ pc'[c] = "final_log"
        BY <1>1, <1>6 DEF Cleanup
    <2>2. Phase(pc'[c]) \notin {"create", "drop"}
        BY <2>1
    <2>3. Fresh'
        BY <1>1, <1>2, <1>4, <1>5, <2>2 DEF PInv, Fresh, SameConfirmed
    <2>4. ASSUME NEW t \in Names, NEW x, Low(t, x)'
          PROVE  Low(t, x) \/ (slots[t].exists /\ x = slots[t].confirmed)
        BY <1>2, <1>3, <1>5, <1>6, <2>1, <2>4 DEF Low
    <2>5. ASSUME NEW t \in Names, NEW y, Top(t, y)' PROVE Top(t, y)
        BY <1>2, <1>4, <1>5, <2>2, <2>5 DEF Top, SameConfirmed
    <2> QED
        BY <2>3, <2>4, <2>5, PKept
<1>7. CASE ~slots[s].exists
    <2>1. pc'[c] \in {"cmd", "gone"}
        BY <1>1, <1>7 DEF Cleanup, Return, EndsWell
    <2>2. \A d \in Conns : Idles(d)
        BY <1>2, <1>5, <2>1 DEF Idles, Flushing
    <2> QED
        BY <1>3, <1>4, <2>2, PQuiet
<1> QED
    BY <1>6, <1>7

(* After a checkpoint replay finds what the catalog holds. *)
LEMMA PCheckpoint == ASSUME TInv, RInv, PInv, checkpoint PROVE PInv'
<1>1. /\ slots' = slots /\ pc' = pc /\ slot_name' = slot_name /\ saved' = saved
      /\ image' = [s \in Names |-> Inactive(slots[s])]
    BY DEF checkpoint, sender
<1>2. Recovered' = image'
    BY CheckpointTyped
<1>3. Fresh'
    BY <1>1 DEF PInv, Fresh
<1>4. ASSUME NEW s \in Names, NEW x, Low(s, x)'
      PROVE  Low(s, x) \/ (slots[s].exists /\ x = slots[s].confirmed)
    BY <1>1, <1>2, <1>4 DEF Low, Inactive
<1>5. ASSUME NEW s \in Names, NEW y, Top(s, y)' PROVE Top(s, y)
    BY <1>1, <1>5 DEF Top
<1> QED
    BY <1>3, <1>4, <1>5, PKept

(* After a restart the catalog holds what replay found. *)
LEMMA PCrash == ASSUME TInv, Crash PROVE PInv'
<1>1. Recovered' = Recovered /\ Recovered \in [Names -> SlotUpTo(current_lsn)]
    BY DiskSame DEF Crash, TInv, Stored
<1>2. \A s \in Names : slots'[s].exists = Recovered[s].exists
                       /\ slots'[s].confirmed = Recovered[s].confirmed
    BY DEF Crash, Inactive
<1>3. \A c \in Conns : Phase(pc'[c]) = "idle" /\ pc'[c] \notin Flushing
    BY Phases DEF Crash, Flushing
<1>4. Fresh'
    BY <1>3 DEF Fresh
<1>5. ASSUME NEW s \in Names, NEW x, NEW y, Low(s, x)', Top(s, y)' PROVE x <= y
    <2>1. x = Recovered[s].confirmed /\ y = Recovered[s].confirmed
        BY <1>1, <1>2, <1>3, <1>5 DEF Low, Top
    <2>2. Recovered[s].confirmed \in Nat
        BY <1>1, Lsn DEF SlotUpTo
    <2> QED
        BY <2>1, <2>2
<1> QED
    BY <1>4, <1>5 DEF PInv

LEMMA PInvStep ==
    ASSUME ~OverlappingDDL, TInv, RInv, EndsWell, PInv, [Next]_vars
    PROVE  PInv'
<1>1. CASE \E c \in Conns : SlotCommand(c) \/ Walsender(c) \/ Consumer(c)
    <2>1. PICK c \in Conns : SlotCommand(c) \/ Walsender(c) \/ Consumer(c)
        BY <1>1
    <2>2. CASE SlotCommand(c)
        BY <2>2, IdleStep, PQuiet, PCreate, PDrop, PDone DEF SlotCommand
    <2>3. CASE Walsender(c)
        BY <2>3, IdleStep, PQuiet, PStatus, PFlush, PCleanup DEF Walsender
    <2> QED
        BY <2>1, <2>2, <2>3, IdleStep, PQuiet
<1>2. CASE Commit \/ UNCHANGED vars
    <2>1. /\ slots' = slots /\ pc' = pc /\ slot_name' = slot_name /\ saved' = saved
        BY <1>2 DEF Commit, sender, vars
    <2>2. Recovered' = Recovered
        BY <1>2, CommitApplied, DiskSame DEF vars
    <2>3. SameConfirmed /\ \A d \in Conns : Idles(d)
        BY <2>1 DEF SameConfirmed, Idles
    <2> QED
        BY <2>2, <2>3, PQuiet
<1> QED
    BY <1>1, <1>2, PCheckpoint, PCrash DEF Next

LEMMA PInvInit == Init => PInv
<1> SUFFICES ASSUME Init PROVE PInv
    OBVIOUS
<1>1. \A c \in Conns : Phase(pc[c]) = "idle" /\ pc[c] \notin Flushing
    BY Phases DEF Init, Flushing
<1>2. \A s \in Names : ~slots[s].exists
    BY DEF Init, NoSlot
<1>3. \A s \in Names : \A y : ~Top(s, y)
    BY <1>1, <1>2 DEF Top
<1> QED
    BY <1>1, <1>3 DEF PInv, Fresh

(* What connections append. *)
LEMMA Records ==
    ASSUME NEW c, c \in Conns, SlotCommand(c) \/ Walsender(c) \/ Consumer(c)
    PROVE  \/ UNCHANGED disk
           \/ CreateLogged(c) \/ DropLogged(c)
           \/ (FlushLog(c) \/ FinalLog(c)) /\ append_batch(Frame("flush", slot_name[c], saved[c]))
<1>1. CASE SlotCommand(c)
    BY <1>1 DEF SlotCommand, create_slot, drop_slot, CreateNotLogged, CreateUndo, DropNotLogged,
                DropUndo, ReadOnlyCommand, vars
<1>2. CASE Walsender(c)
    BY <1>2 DEF Walsender, Activate, ActivateRefused, CopyBothSent, CopyBothFails, Poll,
                StreamFails, Progress, ReadStatus, Confirm, ReadTimeout, ReadGarbage, FlushLog,
                Cleanup, FinalLog, log_slot_flush
<1>3. CASE Consumer(c)
    BY <1>3 DEF Consumer, Receive, Reconnect, ReadEnd, start_replication
<1> QED
    BY <1>1, <1>2, <1>3

(* One step, one slot. *)
LEMMA PositionStep ==
    ASSUME TInv, PInv, [Next]_vars,
           NEW s \in Names, Recovered[s].exists, Recovered'[s].exists
    PROVE  Recovered'[s].confirmed >= Recovered[s].confirmed
<1>1. Recovered \in [Names -> SlotUpTo(current_lsn)] /\ slots \in [Names -> SlotUpTo(current_lsn)]
    BY DEF TInv, Stored, Held
<1>2. Recovered[s].confirmed \in Nat /\ slots[s].confirmed \in Nat
    BY <1>1, Lsn DEF SlotUpTo
<1>3. slots[s].exists => Recovered[s].confirmed <= slots[s].confirmed
    BY DEF PInv, Low, Top
<1>4. CASE \E c \in Conns : SlotCommand(c) \/ Walsender(c) \/ Consumer(c)
    <2>1. PICK c \in Conns : SlotCommand(c) \/ Walsender(c) \/ Consumer(c)
        BY <1>4
    <2>2. saved[c].confirmed \in Nat
        BY Lsn DEF TInv, Held, SlotUpTo
    <2>3. CASE UNCHANGED disk
        BY <1>2, <2>3, DiskSame
    <2>4. CASE CreateLogged(c)
        <3>1. \/ Recovered'[s] = Recovered[s]
              \/ s = slot_name[c] /\ Recovered'[s] = NewSlot(saved[c].restart)
            BY <2>4, RecordApplied DEF CreateLogged
        <3>2. CASE s = slot_name[c] /\ Recovered'[s] = NewSlot(saved[c].restart)
            <4>1. slots[s].exists /\ slots[s].confirmed = saved[c].restart
                BY <2>4, <3>2, Phases DEF PInv, Fresh, CreateLogged
            <4> QED
                BY <1>2, <1>3, <3>2, <4>1 DEF NewSlot
        <3> QED
            BY <1>2, <3>1, <3>2
    <2>5. CASE DropLogged(c)
        <3>1. Recovered'[s] = Recovered[s] \/ Recovered'[s] = NoSlot
            BY <2>5, RecordApplied DEF DropLogged
        <3> QED
            BY <1>2, <3>1 DEF NoSlot
    <2>6. CASE append_batch(Frame("flush", slot_name[c], saved[c]))
        <3>1. \/ Recovered'[s] = Recovered[s]
              \/ Recovered'[s].confirmed = Larger(Recovered[s].confirmed, saved[c].confirmed)
            BY <2>6, RecordApplied
        <3> QED
            BY <1>2, <2>2, <3>1 DEF Larger
    <2> QED
        BY <2>1, <2>3, <2>4, <2>5, <2>6, Records
<1>5. CASE checkpoint
    <2>1. Recovered'[s] = Inactive(slots[s])
        BY <1>5, CheckpointTyped DEF checkpoint
    <2> QED
        BY <1>2, <1>3, <2>1 DEF Inactive
<1>6. CASE Commit \/ Crash \/ UNCHANGED vars
    BY <1>2, <1>6, CommitApplied, DiskSame DEF Crash, vars
<1> QED
    BY <1>4, <1>5, <1>6 DEF Next

(* The position a restart would resume a slot from never moves back while    *)
(* the slot is there, whatever appends, writes and reads fail and wherever   *)
(* checkpoints and crashes fall, though flush records are appended late and  *)
(* after the lock is released (log_slot_flush, the ReplSlotFlush replay).    *)
THEOREM DurablePositions ==
    ASSUME ~OverlappingDDL
    PROVE  Spec => DurablePositionMonotone
<1> DEFINE All == TInv /\ RInv /\ EndsWell /\ PInv
<1>1. Init => All
    BY TInvInit, RInvInit, PInvInit DEF Init, EndsWell
<1>2. All /\ [Next]_vars => All'
    BY TInvStep, RInvStep, EndsWellStep, PInvStep
<1>3. All /\ [Next]_vars =>
        [\A s \in Names : Recovered[s].exists /\ Recovered'[s].exists /\ born'[s] = born[s]
            => Recovered'[s].confirmed >= Recovered[s].confirmed]_vars
    BY PositionStep
<1> QED
    BY <1>1, <1>2, <1>3, PTL DEF Spec, DurablePositionMonotone

-----------------------------------------------------------------------------
(* A restart brings back the slots the catalog shows.                       *)

(* No CREATE or DROP of s is under way. *)
Calm(s) == \A c \in Conns : slot_name[c] = s => Phase(pc[c]) \notin {"create", "drop"}

Agree == \A s \in Names : Calm(s) => (Recovered[s].exists <=> slots[s].exists)

(* What an undo relies on: it puts the catalog back to what replay finds.    *)
Windows ==
    \A c \in Conns :
        /\ Phase(pc[c]) = "create" => ("append" \in Faults => ~Recovered[slot_name[c]].exists)
        /\ Phase(pc[c]) = "drop" =>
                saved[c].exists /\ ("append" \in Faults => Recovered[slot_name[c]].exists)
        /\ pc[c] \in Undoing => "append" \in Faults

CInv == Agree /\ Windows

SameExists ==
    \A s \in Names : /\ slots'[s].exists <=> slots[s].exists
                     /\ Recovered'[s].exists <=> Recovered[s].exists

(* Steps that neither create nor drop. *)
LEMMA CKept ==
    ASSUME TInv, CInv, SameExists, \A d \in Conns : Steady(d)
    PROVE  CInv'
<1>1. slot_name \in [Conns -> Names]
    BY DEF TInv, Controls
<1>2. \A s \in Names : Calm(s)' => Calm(s)
    BY DEF Calm, Steady
<1>3. Agree'
    BY <1>2 DEF CInv, Agree, SameExists
<1>4. Windows'
    BY <1>1 DEF CInv, Windows, SameExists, Steady
<1> QED
    BY <1>3, <1>4 DEF CInv

(* A CREATE or DROP is issued when nobody else is at it. *)
LEMMA CIssue ==
    ASSUME ~OverlappingDDL, TInv, RInv, CInv, NEW c, NEW s, c \in Conns, s \in Names,
           create_slot(c, s) \/ drop_slot(c, s)
    PROVE  CInv'
<1> USE Phases
<1>1. /\ DOMAIN slots = Names /\ DOMAIN saved = Conns
      /\ slot_name \in [Conns -> Names] /\ DOMAIN pc = Conns
    BY DEF TInv, Controls, Held
<1>2. Calm(s)
    BY Issued DEF Calm, create_slot, drop_slot, MayCreate
<1>3. Recovered' = Recovered
    BY DiskSame DEF create_slot, drop_slot
<1>4. /\ \A d \in Conns \ {c} : pc'[d] = pc[d] /\ slot_name'[d] = slot_name[d]
                                /\ saved'[d] = saved[d]
      /\ \A t \in Names \ {s} : slots'[t] = slots[t]
      /\ slot_name'[c] = s /\ Phase(pc[c]) = "idle"
    BY <1>1 DEF create_slot, drop_slot
<1>5. /\ Phase(pc'[c]) \in {"create", "drop"} /\ pc'[c] \notin Undoing
      /\ Phase(pc'[c]) = "create" => ~slots[s].exists
      /\ Phase(pc'[c]) = "drop" => slots[s].exists /\ saved'[c] = slots[s]
    BY <1>1 DEF create_slot, drop_slot, Undoing
<1>6. ASSUME NEW t \in Names, Calm(t)' PROVE t # s /\ Calm(t)
    BY <1>4, <1>5, <1>6 DEF Calm
<1>7. Agree'
    BY <1>3, <1>4, <1>6 DEF CInv, Agree
<1>8. Recovered[s].exists <=> slots[s].exists
    BY <1>2 DEF CInv, Agree
<1>9. ASSUME NEW d \in Conns
      PROVE  /\ Phase(pc'[d]) = "create" => ("append" \in Faults => ~Recovered[slot_name'[d]].exists)
             /\ Phase(pc'[d]) = "drop" =>
                    saved'[d].exists /\ ("append" \in Faults => Recovered[slot_name'[d]].exists)
             /\ pc'[d] \in Undoing => "append" \in Faults
    <2>1. CASE d = c
        BY <1>4, <1>5, <1>8, <2>1
    <2>2. CASE d # c
        BY <1>4, <2>2 DEF CInv, Windows
    <2> QED
        BY <2>1, <2>2
<1>10. Windows'
    BY <1>3, <1>9 DEF Windows
<1> QED
    BY <1>7, <1>10 DEF CInv

(* The end of a CREATE or DROP leaves catalog and replay at one. *)
LEMMA CDone ==
    ASSUME TInv, RInv, PInv, CInv, NEW c, c \in Conns,
           CreateLogged(c) \/ DropLogged(c) \/ CreateUndo(c) \/ DropUndo(c)
    PROVE  CInv'
<1> DEFINE s == slot_name[c]
<1> USE Phases
<1>1. /\ DOMAIN slots = Names /\ DOMAIN saved = Conns /\ s \in Names
      /\ slot_name \in [Conns -> Names] /\ DOMAIN pc = Conns
    BY DEF TInv, Controls, Held
<1>2. /\ pc' = [pc EXCEPT ![c] = "cmd"] /\ slot_name' = slot_name
      /\ saved' = [saved EXCEPT ![c] = NoSlot]
    BY DEF CreateLogged, DropLogged, CreateUndo, DropUndo, Return
<1>3. Phase(pc'[c]) = "idle" /\ pc'[c] \notin Undoing
    BY <1>1, <1>2 DEF Undoing
<1>4. \A d \in Conns \ {c} : pc'[d] = pc[d] /\ saved'[d] = saved[d]
    BY <1>1, <1>2
<1>5. \A d \in Conns \ {c} : slot_name[d] = s => Phase(pc[d]) \notin {"create", "drop"}
    BY DEF RInv, OneDDL, CreateLogged, DropLogged, CreateUndo, DropUndo
<1>6. /\ \A t \in Names \ {s} : slots'[t] = slots[t] /\ Recovered'[t] = Recovered[t]
      /\ Recovered'[s].exists <=> slots'[s].exists
    <2>1. CASE CreateLogged(c)
        <3>1. /\ \A t \in Names \ {s} : Recovered'[t] = Recovered[t]
              /\ Recovered'[s] = NewSlot(saved[c].restart)
            BY <2>1, RecordApplied DEF CreateLogged
        <3>2. slots[s].exists /\ slots' = slots
            BY <2>1 DEF PInv, Fresh, CreateLogged
        <3> QED
            BY <3>1, <3>2 DEF NewSlot
    <2>2. CASE DropLogged(c)
        <3>1. /\ \A t \in Names \ {s} : Recovered'[t] = Recovered[t]
              /\ Recovered'[s] = NoSlot
            BY <2>2, RecordApplied DEF DropLogged
        <3>2. ~slots[s].exists /\ slots' = slots
            BY <2>2 DEF RInv, DropWindow, DropLogged
        <3> QED
            BY <3>1, <3>2 DEF NoSlot
    <2>3. CASE CreateUndo(c)
        <3>1. Recovered' = Recovered /\ slots' = [slots EXCEPT ![s] = NoSlot]
            BY <2>3, DiskSame DEF CreateUndo
        <3>2. ~Recovered[s].exists
            BY <2>3 DEF CInv, Windows, CreateUndo, Undoing
        <3> QED
            BY <1>1, <3>1, <3>2 DEF NoSlot
    <2>4. CASE DropUndo(c)
        <3>1. Recovered' = Recovered /\ slots' = [slots EXCEPT ![s] = saved[c]]
            BY <2>4, DiskSame DEF DropUndo
        <3>2. Recovered[s].exists /\ saved[c].exists
            BY <2>4 DEF CInv, Windows, DropUndo, Undoing
        <3> QED
            BY <1>1, <3>1, <3>2
    <2> QED
        BY <2>1, <2>2, <2>3, <2>4
<1>7. \A t \in Names \ {s} : Calm(t)' => Calm(t)
    BY <1>2, <1>4 DEF Calm
<1>8. Agree'
    BY <1>6, <1>7 DEF CInv, Agree
<1>9. ASSUME NEW d \in Conns
      PROVE  /\ Phase(pc'[d]) = "create" => ("append" \in Faults => ~Recovered'[slot_name[d]].exists)
             /\ Phase(pc'[d]) = "drop" =>
                    saved'[d].exists /\ ("append" \in Faults => Recovered'[slot_name[d]].exists)
             /\ pc'[d] \in Undoing => "append" \in Faults
    <2>1. CASE d = c
        BY <1>3, <2>1
    <2>2. CASE d # c
        BY <1>1, <1>4, <1>5, <1>6, <2>2 DEF CInv, Windows
    <2> QED
        BY <2>1, <2>2
<1>10. Windows'
    BY <1>2, <1>9 DEF Windows
<1> QED
    BY <1>8, <1>10 DEF CInv

(* Status, flush and cleanup are about slots that are there and stay. *)
LEMMA CStream ==
    ASSUME TInv, EndsWell, CInv, NEW c, c \in Conns,
           ReadStatus(c) \/ FlushLog(c) \/ Cleanup(c) \/ FinalLog(c)
    PROVE  CInv'
<1> DEFINE s == slot_name[c]
<1> USE Phases
<1>1. /\ slots \in [Names -> SlotUpTo(current_lsn)] /\ DOMAIN saved = Conns /\ s \in Names
      /\ slot_name \in [Conns -> Names] /\ DOMAIN pc = Conns
    BY DEF TInv, Controls, Held
<1>2. CASE ReadStatus(c)
    <2>1. Recovered' = Recovered
        BY <1>2, StatusIs, DiskSame
    <2>2. SameExists
        BY <1>1, <1>2, <2>1, StatusIs DEF SameExists
    <2>3. pc[c] = "read" /\ pc'[c] \in {"poll", "flush_log"} /\ slot_name' = slot_name
        BY <1>1, <1>2, StatusIs
    <2>4. \A d \in Conns \ {c} : pc'[d] = pc[d] /\ saved'[d] = saved[d]
        BY <1>1, <1>2, StatusIs
    <2>5. \A d \in Conns : Steady(d)
        BY <2>3, <2>4 DEF Steady, Undoing, Streaming
    <2> QED
        BY <2>2, <2>5, CKept
<1>3. CASE FlushLog(c) \/ FinalLog(c)
    <2>1. \A t \in Names : Recovered'[t].exists <=> Recovered[t].exists
        <3>1. UNCHANGED disk \/ append_batch(Frame("flush", s, saved[c]))
            BY <1>3 DEF FlushLog, FinalLog, log_slot_flush
        <3>2. CASE UNCHANGED disk
            BY <3>2, DiskSame
        <3>3. CASE append_batch(Frame("flush", s, saved[c]))
            <4>1. /\ \A t \in Names \ {s} : Recovered'[t] = Recovered[t]
                  /\ Recovered'[s].exists <=> Recovered[s].exists
                BY <3>3, RecordApplied
            <4> QED
                BY <4>1
        <3> QED
            BY <3>1, <3>2, <3>3
    <2>2. SameExists
        BY <1>3, <2>1 DEF SameExists, FlushLog, FinalLog
    <2>3. /\ pc[c] \in Flushing /\ pc'[c] \in {"poll", "cmd", "gone"} /\ slot_name' = slot_name
          /\ \A d \in Conns \ {c} : pc'[d] = pc[d] /\ saved'[d] = saved[d]
        BY <1>1, <1>3 DEF FlushLog, FinalLog, Return, EndsWell, Flushing
    <2>4. \A d \in Conns : Steady(d)
        BY <2>3, Flushes DEF Steady, Undoing, Streaming
    <2> QED
        BY <2>2, <2>4, CKept
<1>4. CASE Cleanup(c)
    <2>1. Recovered' = Recovered
        BY <1>4, DiskSame DEF Cleanup
    <2>2. SameExists
        BY <1>1, <1>4, <2>1 DEF SameExists, Cleanup, SlotUpTo
    <2>3. /\ pc[c] = "cleanup" /\ pc'[c] \in {"final_log", "cmd", "gone"} /\ slot_name' = slot_name
          /\ \A d \in Conns \ {c} : pc'[d] = pc[d] /\ saved'[d] = saved[d]
        BY <1>1, <1>4 DEF Cleanup, Return, EndsWell
    <2>4. \A d \in Conns : Steady(d)
        BY <2>3 DEF Steady, Undoing, Streaming
    <2> QED
        BY <2>2, <2>4, CKept
<1> QED
    BY <1>2, <1>3, <1>4

(* A checkpoint and a crash make the two the same. *)
LEMMA CCheckpoint ==
    ASSUME "append" \notin Faults \/ MaxCheckpoints = 0, TInv, CInv, checkpoint
    PROVE  CInv' /\ "append" \notin Faults
<1>1. "append" \notin Faults
    BY DEF checkpoint, TInv, Controls
<1>2. \A s \in Names : Recovered'[s].exists <=> slots'[s].exists
    BY CheckpointTyped DEF checkpoint, Inactive
<1>3. /\ \A c \in Conns : pc'[c] = pc[c] /\ saved'[c] = saved[c]
    BY DEF checkpoint, sender
<1>4. Agree'
    BY <1>2 DEF Agree
<1>5. Windows'
    BY <1>1, <1>3 DEF CInv, Windows
<1> QED
    BY <1>1, <1>4, <1>5 DEF CInv

LEMMA CCrash == ASSUME TInv, Crash PROVE CInv'
<1>1. \A s \in Names : Recovered'[s].exists <=> slots'[s].exists
    BY DiskSame DEF Crash, Inactive
<1>2. \A c \in Conns : Phase(pc'[c]) = "idle" /\ pc'[c] \notin Undoing
    BY Phases DEF Crash, Undoing
<1> QED
    BY <1>1, <1>2 DEF CInv, Agree, Windows

LEMMA CInvStep ==
    ASSUME ~OverlappingDDL, "append" \notin Faults \/ MaxCheckpoints = 0,
           TInv, RInv, EndsWell, PInv, CInv, [Next]_vars
    PROVE  CInv'
<1>1. CASE \E c \in Conns : SlotCommand(c) \/ Walsender(c) \/ Consumer(c)
    <2>1. PICK c \in Conns : SlotCommand(c) \/ Walsender(c) \/ Consumer(c)
        BY <1>1
    <2>2. ASSUME Recovered' = Recovered, SameConfirmed, \A d \in Conns : Idles(d) /\ Steady(d)
          PROVE  CInv'
        BY <2>2, CKept DEF SameConfirmed, SameExists
    <2>3. CASE SlotCommand(c)
        BY <2>2, <2>3, IdleStep, CIssue, CDone DEF SlotCommand
    <2>4. CASE Walsender(c)
        BY <2>2, <2>4, IdleStep, CStream DEF Walsender
    <2> QED
        BY <2>1, <2>2, <2>3, <2>4, IdleStep
<1>2. CASE Commit \/ UNCHANGED vars
    <2>1. /\ slots' = slots /\ pc' = pc /\ slot_name' = slot_name /\ saved' = saved
        BY <1>2 DEF Commit, sender, vars
    <2>2. Recovered' = Recovered
        BY <1>2, CommitApplied, DiskSame DEF vars
    <2>3. SameExists /\ \A d \in Conns : Steady(d)
        BY <2>1, <2>2 DEF SameExists, Steady
    <2> QED
        BY <2>3, CKept
<1> QED
    BY <1>1, <1>2, CCheckpoint, CCrash DEF Next

LEMMA CInvInit == Init => CInv
<1> SUFFICES ASSUME Init PROVE CInv
    OBVIOUS
<1>1. \A c \in Conns : Phase(pc[c]) = "idle" /\ pc[c] \notin Undoing
    BY Phases DEF Init, Undoing
<1>2. log = <<>> /\ image = slots
    BY DEF Init
<1>3. Recovered = slots
    BY <1>2, ReplayedNone DEF Recovered
<1> QED
    BY <1>1, <1>3 DEF CInv, Agree, Windows

LEMMA CInvDurable == CInv => SlotCatalogDurable
<1> SUFFICES ASSUME CInv, NEW s \in Names, InDDL(s) = {}
             PROVE  Recovered[s].exists <=> slots[s].exists
    BY DEF SlotCatalogDurable
<1>1. \A c \in Conns : slot_name[c] = s => c \notin InDDL(s)
    OBVIOUS
<1>2. Calm(s)
    BY <1>1 DEF Calm, InDDL, Phase
<1> QED
    BY <1>2 DEF CInv, Agree

(* Outside the window of a CREATE or DROP a restart brings back exactly the  *)
(* slots the catalog shows (create_slot, drop_slot).  The undo of a failed   *)
(* append is what a checkpoint in the same window defeats: it has already    *)
(* put the new slot into the image, or left the dropped one out.             *)
THEOREM SlotsDurable ==
    ASSUME ~OverlappingDDL, "append" \notin Faults \/ MaxCheckpoints = 0
    PROVE  Spec => []SlotCatalogDurable
<1> DEFINE All == TInv /\ RInv /\ EndsWell /\ PInv /\ CInv
<1>1. Init => All
    BY TInvInit, RInvInit, PInvInit, CInvInit DEF Init, EndsWell
<1>2. All /\ [Next]_vars => All'
    BY TInvStep, RInvStep, EndsWellStep, PInvStep, CInvStep
<1> QED
    BY <1>1, <1>2, CInvDurable, PTL DEF Spec

-----------------------------------------------------------------------------
(* A stream sends in log order, each change at most once.                   *)

(* The elements of a concatenation, by place. *)
LEMMA Concat ==
    ASSUME NEW S, NEW p, NEW q, p \in Seq(S), q \in Seq(S)
    PROVE  LET r == p \o q
               m == Len(p)
               k == Len(q)
           IN  /\ r \in Seq(S) /\ m \in Nat /\ k \in Nat
               /\ DOMAIN p = 1..m /\ DOMAIN q = 1..k /\ DOMAIN r = 1 .. m + k
               /\ \A i \in 1..m : r[i] = p[i]
               /\ \A j \in 1..k : r[m + j] = q[j]
               /\ \A i \in 1 .. m + k : i \in 1..m \/ (i - m \in 1..k /\ m + (i - m) = i)
<1> DEFINE r == p \o q
           m == Len(p)
           k == Len(q)
<1>1. /\ r \in Seq(S) /\ Len(r) = m + k
      /\ \A i \in 1 .. m + k : r[i] = IF i <= m THEN p[i] ELSE q[i - m]
    BY ConcatProperties
<1>2. m \in Nat /\ k \in Nat /\ DOMAIN p = 1..m /\ DOMAIN q = 1..k
    BY LenProperties
<1>3. DOMAIN r = 1 .. m + k
    BY <1>1, LenProperties
<1> HIDE DEF r, m, k
<1>4. \A i \in 1..m : r[i] = p[i]
    <2> TAKE i \in 1..m
    <2>1. i \in 1 .. m + k /\ i <= m
        BY <1>2
    <2> QED
        BY <1>1, <2>1
<1>5. \A j \in 1..k : r[m + j] = q[j]
    <2> TAKE j \in 1..k
    <2>1. m + j \in 1 .. m + k /\ ~(m + j <= m) /\ (m + j) - m = j
        BY <1>2
    <2> QED
        BY <1>1, <2>1
<1>6. \A i \in 1 .. m + k : i \in 1..m \/ (i - m \in 1..k /\ m + (i - m) = i)
    BY <1>2
<1> QED
    BY <1>1, <1>2, <1>3, <1>4, <1>5, <1>6 DEF r, m, k

Elems(q) == {q[i] : i \in DOMAIN q}

(* One stream's output so far lies below its position. *)
Sending(c) ==
    /\ Increasing(sent[c])
    /\ pc[c] \notin {"cleanup", "final_log"} => \A i \in DOMAIN sent[c] : sent[c][i] < next_lsn[c]
    /\ pc[c] \notin Streaming \cup {"final_log"} => sent[c] = <<>>

OInv == \A c \in Conns : Sending(c)

(* Nothing sent is in order. *)
LEMMA NothingSent == \A c : sent[c] = <<>> => Sending(c)
<1> SUFFICES ASSUME NEW c, sent[c] = <<>> PROVE Sending(c)
    OBVIOUS
<1>1. DOMAIN sent[c] = {}
    OBVIOUS
<1> QED
    BY <1>1 DEF Sending, Increasing

LEMMA NothingSentNext == \A c : sent'[c] = <<>> => Sending(c)'
<1> SUFFICES ASSUME NEW c, sent'[c] = <<>> PROVE Sending(c)'
    OBVIOUS
<1>1. DOMAIN sent'[c] = {}
    OBVIOUS
<1> QED
    BY <1>1 DEF Sending, Increasing

(* What a batch adds to a sequence that lies below the stream's position. *)
LEMMA BatchGrows ==
    ASSUME TInv, NEW c, NEW l, NEW k, NEW p, c \in Conns, Batch(c, l, k),
           p \in Seq(0 .. current_lsn - 1), Increasing(p),
           \A i \in DOMAIN p : p[i] < next_lsn[c]
    PROVE  LET q == p \o l
           IN  /\ Increasing(q)
               /\ Moves(c, k) => \A i \in DOMAIN q : q[i] < next_lsn'[c]
               /\ Elems(q) = Elems(p) \cup Elems(l)
<1> PICK n : n = current_lsn
    OBVIOUS
<1> DEFINE first == Larger(next_lsn[c], base_lsn)
           q == p \o l
           m == Len(p)
           b == Len(l)
<1>1. /\ n \in Nat /\ p \in Seq(0 .. n - 1) /\ next_lsn[c] \in 0..n /\ base_lsn \in Nat
      /\ DOMAIN next_lsn = Conns
    BY Lsn DEF TInv, Held
<1>2. first \in Nat /\ next_lsn[c] <= first
    BY <1>1 DEF Larger
<1>3. /\ k \in Nat /\ l \in Seq(0 .. n - 1) /\ Increasing(l)
      /\ \A i \in DOMAIN l : l[i] \in Nat /\ first <= l[i] /\ l[i] < first + k
    BY DEF Batch
<1>4. /\ q \in Seq(0 .. n - 1) /\ m \in Nat /\ b \in Nat
      /\ DOMAIN p = 1..m /\ DOMAIN l = 1..b /\ DOMAIN q = 1 .. m + b
      /\ \A i \in 1..m : q[i] = p[i]
      /\ \A j \in 1..b : q[m + j] = l[j]
      /\ \A i \in 1 .. m + b : i \in 1..m \/ (i - m \in 1..b /\ m + (i - m) = i)
    BY <1>1, <1>3, Concat
<1>5. Moves(c, k) => \/ next_lsn' = next_lsn /\ k = 0
                     \/ next_lsn'[c] = n
    BY <1>1 DEF Moves
<1> HIDE DEF first, q, m, b
<1>6. \A i \in 1..m : p[i] \in Nat /\ p[i] < next_lsn[c]
    <2> TAKE i \in 1..m
    <2>1. i \in 1..Len(p)
        BY DEF m
    <2>2. p[i] \in 0 .. n - 1
        BY <1>1, <2>1, ElementOfSeq
    <2>3. p[i] < next_lsn[c]
        BY <1>4
    <2>4. p[i] \in Nat
        BY <1>1, <2>2
    <2> QED
        BY <2>3, <2>4
<1>7. \A j \in 1..b : l[j] \in Nat /\ first <= l[j] /\ l[j] < first + k
    BY <1>3, <1>4
<1>8. \A i, j \in 1..m : i < j => p[i] < p[j]
    BY <1>4 DEF Increasing
<1>9. \A i, j \in 1..b : i < j => l[i] < l[j]
    BY <1>3, <1>4 DEF Increasing
<1>10. Increasing(q)
    <2> SUFFICES ASSUME NEW i \in 1 .. m + b, NEW j \in 1 .. m + b, i < j PROVE q[i] < q[j]
        BY <1>4 DEF Increasing
    <2>1. CASE i \in 1..m /\ j \in 1..m
        BY <1>4, <1>8, <2>1
    <2>2. CASE i \in 1..m /\ j \notin 1..m
        <3>1. j - m \in 1..b /\ q[j] = l[j - m]
            BY <1>4, <2>2
        <3>2. q[i] = p[i] /\ p[i] \in Nat /\ p[i] < next_lsn[c]
            BY <1>4, <1>6, <2>2
        <3>3. l[j - m] \in Nat /\ first <= l[j - m]
            BY <1>7, <3>1
        <3> QED
            BY <1>1, <1>2, <3>1, <3>2, <3>3
    <2>3. CASE i \notin 1..m
        <3>1. i - m \in 1..b /\ j - m \in 1..b /\ i - m < j - m
            BY <1>4, <2>3
        <3>2. q[i] = l[i - m] /\ q[j] = l[j - m]
            BY <1>4, <2>3, <3>1
        <3> QED
            BY <1>9, <3>1, <3>2
    <2> QED
        BY <2>1, <2>2, <2>3
<1>11. ASSUME Moves(c, k), NEW i \in 1 .. m + b PROVE q[i] < next_lsn'[c]
    <2>1. CASE next_lsn' = next_lsn /\ k = 0
        <3>1. \A j \in 1..b : FALSE
            BY <1>2, <1>7, <2>1
        <3>2. i \in 1..m
            BY <1>4, <3>1
        <3> QED
            BY <1>4, <1>6, <2>1, <3>2
    <2>2. CASE next_lsn'[c] = n
        <3>1. q \in Seq(0 .. n - 1) /\ i \in 1..Len(q)
            BY <1>4, <1>11, LenProperties
        <3>2. q[i] \in 0 .. n - 1
            BY <3>1, ElementOfSeq
        <3> QED
            BY <1>1, <2>2, <3>2
    <2> QED
        BY <1>5, <1>11, <2>1, <2>2
<1>12. Elems(q) = Elems(p) \cup Elems(l)
    <2>1. ASSUME NEW i \in 1 .. m + b PROVE q[i] \in Elems(p) \cup Elems(l)
        BY <1>4, <2>1 DEF Elems
    <2>2. ASSUME NEW i \in 1..m PROVE p[i] \in Elems(q)
        <3>1. i \in 1 .. m + b /\ q[i] = p[i]
            BY <1>4, <2>2
        <3> QED
            BY <1>4, <3>1 DEF Elems
    <2>3. ASSUME NEW j \in 1..b PROVE l[j] \in Elems(q)
        <3>1. m + j \in 1 .. m + b /\ q[m + j] = l[j]
            BY <1>4, <2>3
        <3> QED
            BY <1>4, <3>1 DEF Elems
    <2>4. Elems(q) \subseteq Elems(p) \cup Elems(l)
        BY <1>4, <2>1 DEF Elems
    <2>5. Elems(p) \subseteq Elems(q) /\ Elems(l) \subseteq Elems(q)
        BY <1>4, <2>2, <2>3 DEF Elems
    <2> QED
        BY <2>4, <2>5
<1> QED
    BY <1>4, <1>10, <1>11, <1>12 DEF q

LEMMA OPoll ==
    ASSUME TInv, NEW c, c \in Conns, Sending(c), Poll(c) \/ StreamFails(c)
    PROVE  Sending(c)' /\ \A d \in Conns \ {c} : sent'[d] = sent[d]
<1>1. PICK l, k : Batch(c, l, k) /\ (Poll(c) => Moves(c, k))
    BY BatchSent
<1>2. /\ DOMAIN sent = Conns /\ DOMAIN pc = Conns
      /\ sent[c] \in Seq(0 .. current_lsn - 1)
    BY DEF TInv, Held, Controls
<1>3. sent'[c] = sent[c] \o l /\ \A d \in Conns \ {c} : sent'[d] = sent[d]
    BY <1>1, <1>2 DEF Batch, Send
<1>4. pc[c] = "poll"
    BY DEF Poll, StreamFails
<1>5. Increasing(sent[c]) /\ \A i \in DOMAIN sent[c] : sent[c][i] < next_lsn[c]
    BY <1>4 DEF Sending
<1>6. /\ Increasing(sent'[c])
      /\ Poll(c) => \A i \in DOMAIN sent'[c] : sent'[c][i] < next_lsn'[c]
    <2>1. /\ Increasing(sent[c] \o l)
          /\ Moves(c, k) => \A i \in DOMAIN (sent[c] \o l) : (sent[c] \o l)[i] < next_lsn'[c]
        BY <1>1, <1>2, <1>5, BatchGrows
    <2> QED
        BY <1>1, <1>3, <2>1
<1>7. (Poll(c) /\ pc'[c] \in {"read", "progress"}) \/ pc'[c] = "cleanup"
    BY <1>2 DEF Poll, StreamFails
<1> QED
    BY <1>3, <1>6, <1>7 DEF Sending, Streaming

(* A thread that returns has nothing left of its stream. *)
LEMMA OReturn ==
    ASSUME TInv, NEW c, NEW to, c \in Conns, Return(c, to)
    PROVE  Sending(c)' /\ \A d \in Conns \ {c} : sent'[d] = sent[d]
<1>1. sent'[c] = <<>> /\ \A d \in Conns \ {c} : sent'[d] = sent[d]
    BY DEF TInv, Held, Return
<1> QED
    BY <1>1, NothingSentNext

(* One connection at a time. *)
LEMMA OConn ==
    ASSUME TInv, OInv, NEW c, c \in Conns, SlotCommand(c) \/ Walsender(c) \/ Consumer(c)
    PROVE  OInv'
<1>1. /\ DOMAIN pc = Conns /\ DOMAIN next_lsn = Conns /\ DOMAIN sent = Conns
      /\ next_lsn[c] \in Nat /\ Sending(c) /\ slots[slot_name[c]].confirmed \in Nat
    BY Lsn DEF TInv, Controls, Held, SlotUpTo, OInv
<1>2. \A d \in Conns \ {c} : pc'[d] = pc[d] /\ next_lsn'[d] = next_lsn[d]
    <2>1. CASE SlotCommand(c)
        BY <1>1, <2>1
           DEF SlotCommand, ReadOnlyCommand, create_slot, drop_slot, CreateLogged, DropLogged,
               CreateNotLogged, DropNotLogged, CreateUndo, DropUndo, Return, sender, vars
    <2>2. CASE \/ Activate(c) \/ ActivateRefused(c) \/ CopyBothSent(c) \/ CopyBothFails(c)
               \/ Poll(c) \/ StreamFails(c) \/ Progress(c)
        BY <1>1, <2>2
           DEF Activate, ActivateRefused, CopyBothSent, CopyBothFails, Poll, StreamFails,
               Progress, Return, sender
    <2>3. CASE ReadStatus(c)
        BY <1>1, <2>3, StatusIs
    <2>4. CASE \/ ReadTimeout(c) \/ ReadGarbage(c) \/ FlushLog(c) \/ Cleanup(c) \/ FinalLog(c)
        BY <1>1, <2>4 DEF ReadTimeout, ReadGarbage, FlushLog, Cleanup, FinalLog, Return, sender
    <2>5. CASE Consumer(c)
        BY <1>1, <2>5 DEF Consumer, Receive, Reconnect, ReadEnd, start_replication, sender
    <2> QED
        BY <2>1, <2>2, <2>3, <2>4, <2>5 DEF Walsender
<1>3. Sending(c)' /\ \A d \in Conns \ {c} : sent'[d] = sent[d]
    <2>1. CASE Poll(c) \/ StreamFails(c)
        BY <1>1, <2>1, OPoll
    <2>2. CASE \E to : Return(c, to)
        BY <2>2, OReturn
    <2>3. CASE pc[c] \notin Streaming \cup {"final_log"} /\ sent' = sent
        <3>1. sent'[c] = <<>>
            BY <1>1, <2>3 DEF Sending
        <3> QED
            BY <2>3, <3>1, NothingSentNext
    <2>4. CASE /\ pc[c] \in Streaming \ {"cleanup"} /\ pc'[c] \in Streaming
               /\ sent' = sent /\ next_lsn' = next_lsn
        BY <1>1, <2>4 DEF Sending, Streaming
    <2>5. CASE pc[c] \in Streaming /\ pc'[c] \in {"cleanup", "final_log"} /\ sent' = sent
        BY <1>1, <2>5 DEF Sending, Streaming
    <2>6. CASE UNCHANGED <<pc, next_lsn, sent>>
        BY <1>1, <2>6 DEF Sending
    <2>7. CASE SlotCommand(c)
        BY <2>2, <2>3, <2>6, <2>7
           DEF SlotCommand, ReadOnlyCommand, create_slot, drop_slot, CreateLogged, DropLogged,
               CreateNotLogged, DropNotLogged, CreateUndo, DropUndo, network, vars, sender,
               Streaming
    <2>8. CASE \/ Activate(c) \/ ActivateRefused(c) \/ CopyBothSent(c) \/ CopyBothFails(c)
               \/ Progress(c)
        BY <1>1, <2>2, <2>3, <2>4, <2>8
           DEF Activate, ActivateRefused, CopyBothSent, CopyBothFails, Progress, network, sender,
               Streaming
    <2>9. CASE ReadStatus(c)
        <3>1. pc[c] = "read" /\ pc'[c] \in {"poll", "flush_log"} /\ UNCHANGED <<next_lsn, network>>
            BY <1>1, <2>9, StatusIs
        <3> QED
            BY <2>4, <3>1 DEF network, Streaming
    <2>10. CASE ReadTimeout(c) \/ ReadGarbage(c) \/ FlushLog(c)
        BY <1>1, <2>4, <2>5, <2>10 DEF ReadTimeout, ReadGarbage, FlushLog, network, sender, Streaming
    <2>11. CASE Cleanup(c) \/ FinalLog(c)
        BY <1>1, <2>2, <2>5, <2>11 DEF Cleanup, FinalLog, network, Streaming
    <2>12. CASE Consumer(c)
        BY <1>1, <2>3, <2>5, <2>6, <2>12
           DEF Consumer, Receive, Reconnect, ReadEnd, start_replication, network, sender, Streaming
    <2> QED
        BY <2>1, <2>7, <2>8, <2>9, <2>10, <2>11, <2>12 DEF Walsender
<1>4. \A d \in Conns \ {c} : Sending(d)'
    BY <1>2, <1>3 DEF OInv, Sending
<1> QED
    BY <1>3, <1>4 DEF OInv

LEMMA OInvStep == ASSUME TInv, OInv, [Next]_vars PROVE OInv'
<1>1. CASE Commit \/ checkpoint \/ UNCHANGED vars
    BY <1>1 DEF Commit, checkpoint, vars, sender, network, OInv, Sending
<1>2. CASE Crash
    BY <1>2, NothingSentNext DEF Crash, OInv
<1> QED
    BY <1>1, <1>2, OConn DEF Next

(* A stream sends the changes in log order and none of them twice, whatever  *)
(* breaks off (stream_loop).                                                *)
THEOREM InOrder == Spec => []StreamInOrder
<1>1. Init => TInv /\ OInv
    BY TInvInit, NothingSent DEF Init, OInv
<1>2. TInv /\ OInv /\ [Next]_vars => (TInv /\ OInv)'
    BY TInvStep, OInvStep
<1>3. OInv => StreamInOrder
    BY DEF OInv, Sending, Increasing, StreamInOrder
<1> QED
    BY <1>1, <1>2, <1>3, PTL DEF Spec

-----------------------------------------------------------------------------
(* No gap below a confirmed position.                                       *)

(* The changes of C between b and n are all in H. *)
Reaches(C, b, H, n) == \A f \in C : b <= f /\ f < n => f \in H

Had(s) == got[s] \cup lost[s]

(* The consumer of s lacks nothing below n. *)
Covered(s, n) == Reaches(commits, born[s], Had(s), n)

(* A position a slot is at, was at or may yet be put back to.  A slot that   *)
(* is there, or that a restart would bring back, has nothing to read below   *)
(* the log's beginning.                                                     *)
Mark(s, n) ==
    \/ n \in got[s]
    \/ n = slots[s].confirmed \/ n = Recovered[s].confirmed
    \/ \E c \in Conns : slot_name[c] = s /\ n = saved[c].confirmed
    \/ (slots[s].exists \/ Recovered[s].exists) /\ n = base_lsn

GInv == \A s \in Names : \A n : Mark(s, n) => Covered(s, n)

(* Between commands a connection has no position. *)
AtRest(c) == pc[c] \in {"cmd", "gone"} => next_lsn[c] = 0 /\ saved[c].confirmed = 0

Rest == \A c \in Conns : AtRest(c)

(* The data frames in the log are the commits it has not lost. *)
Logged ==
    \A f \in Nat : base_lsn <= f /\ f < current_lsn =>
        (log[f - base_lsn + 1].kind = "commit" <=> f \in commits)

(* What a step does to the history of s. *)
LEMMA History ==
    ASSUME TInv, [Next]_vars, NEW s \in Names
    PROVE  /\ commits' \subseteq commits \cup {current_lsn}
           /\ \/ born'[s] = current_lsn
              \/ born'[s] = born[s] /\ Had(s) \subseteq Had(s)'
<1>1. DOMAIN got = Names /\ DOMAIN born = Names /\ DOMAIN lost = Names
    BY DEF TInv, Held
<1>2. CASE UNCHANGED <<consumer, commits>>
    BY <1>2 DEF consumer, Had
<1>3. CASE \E c \in Conns : SlotCommand(c) \/ Walsender(c) \/ Consumer(c)
    <2>1. PICK c \in Conns : SlotCommand(c) \/ Walsender(c) \/ Consumer(c)
        BY <1>3
    <2>2. CASE SlotCommand(c)
        <3>1. CASE \E t \in Names : create_slot(c, t)
            <4>1. PICK t \in Names : create_slot(c, t)
                BY <3>1
            <4>2. CASE s = t
                BY <1>1, <4>1, <4>2 DEF create_slot, counters
            <4>3. CASE s # t
                BY <1>1, <4>1, <4>3 DEF create_slot, counters, Had
            <4> QED
                BY <4>2, <4>3
        <3> QED
            BY <1>2, <2>2, <3>1
               DEF SlotCommand, ReadOnlyCommand, drop_slot, CreateLogged, DropLogged,
                   CreateNotLogged, DropNotLogged, CreateUndo, DropUndo, vars, counters
    <2>3. CASE Walsender(c)
        <3>1. CASE ReadStatus(c)
            BY <1>2, <3>1, StatusIs
        <3> QED
            BY <1>2, <2>3, <3>1
               DEF Walsender, Activate, ActivateRefused, CopyBothSent, CopyBothFails, Poll,
                   StreamFails, Progress, ReadTimeout, ReadGarbage, FlushLog, Cleanup,
                   FinalLog, counters
    <2>4. CASE Consumer(c)
        <3>1. CASE Receive(c)
            BY <1>1, <3>1 DEF Receive, counters, Had
        <3> QED
            BY <1>2, <2>4, <3>1 DEF Consumer, Reconnect, ReadEnd, start_replication, counters
    <2> QED
        BY <2>1, <2>2, <2>3, <2>4
<1>4. CASE Commit
    BY <1>4 DEF Commit, consumer, Had
<1>5. CASE checkpoint
    BY <1>1, <1>5 DEF checkpoint, Had
<1>6. CASE Crash
    BY <1>2, <1>6 DEF Crash
<1>7. CASE UNCHANGED vars
    BY <1>2, <1>7 DEF vars, counters
<1> QED
    BY <1>3, <1>4, <1>5, <1>6, <1>7 DEF Next

(* What is covered stays covered: new changes come later, and a new slot     *)
(* starts at the end of the log.                                            *)
LEMMA ReachKept ==
    ASSUME TInv, [Next]_vars, NEW s \in Names, NEW X, NEW n \in 0..current_lsn,
           Reaches(commits, born[s], Had(s) \cup X, n)
    PROVE  Reaches(commits, born[s], Had(s) \cup X, n)'
<1> SUFFICES ASSUME NEW f \in commits', born'[s] <= f, f < n
             PROVE  f \in Had(s)' \cup X
    BY DEF Reaches
<1>1. current_lsn \in Nat /\ commits \subseteq Nat
    BY Lsn DEF TInv, Held
<1>2. f \in commits /\ f # current_lsn
    BY <1>1, History
<1>3. born'[s] = born[s] /\ Had(s) \subseteq Had(s)'
    <2>1. born'[s] # current_lsn
        BY <1>1, <1>2
    <2> QED
        BY <2>1, History
<1>4. f \in Had(s) \cup X
    BY <1>2, <1>3 DEF Reaches
<1> QED
    BY <1>3, <1>4

LEMMA CoverKept ==
    ASSUME TInv, [Next]_vars, NEW s \in Names, NEW n \in 0..current_lsn, Covered(s, n)
    PROVE  Covered(s, n)'
<1>1. Reaches(commits, born[s], Had(s) \cup {}, n)
    BY DEF Covered
<1>2. Reaches(commits, born[s], Had(s) \cup {}, n)'
    BY <1>1, ReachKept
<1> QED
    BY <1>2 DEF Covered

(* Marks are positions. *)
LEMMA MarkTyped ==
    ASSUME TInv, NEW s \in Names, NEW n, Mark(s, n)
    PROVE  n \in 0..current_lsn
<1>1. current_lsn \in Nat /\ base_lsn \in 0..current_lsn
    BY Lsn
<1>2. \A slot \in SlotUpTo(current_lsn) : slot.confirmed \in 0..current_lsn
    BY DEF SlotUpTo
<1> QED
    BY <1>1, <1>2 DEF Mark, TInv, Held, Stored

LEMMA MarkTypedNext ==
    (\A s \in Names : \A n : TInv /\ Mark(s, n) => n \in 0..current_lsn)'
<1>1. \A s \in Names : \A n : TInv /\ Mark(s, n) => n \in 0..current_lsn
    BY MarkTyped
<1> QED
    BY <1>1, PTL

(* A step that makes no mark but 0 and what is covered. *)
LEMMA GKept ==
    ASSUME TInv, TInv', [Next]_vars, GInv,
           \A s \in Names : \A n : Mark(s, n)' => Mark(s, n) \/ n = 0 \/ Covered(s, n)'
    PROVE  GInv'
<1> SUFFICES ASSUME NEW s \in Names, NEW n, Mark(s, n)' PROVE Covered(s, n)'
    BY DEF GInv
<1>1. CASE Mark(s, n)
    <2>1. n \in 0..current_lsn /\ Covered(s, n)
        BY <1>1, MarkTyped DEF GInv
    <2> QED
        BY <2>1, CoverKept
<1>2. CASE n = 0
    <2>1. commits' \subseteq Nat
        BY Lsn DEF TInv, Held
    <2> QED
        BY <1>2, <2>1 DEF Covered, Reaches
<1> QED
    BY <1>1, <1>2

(* Steps that leave the marks where they are. *)
LEMMA GIdle ==
    ASSUME TInv, TInv', [Next]_vars, GInv, Rest, NEW c, c \in Conns,
           \/ CreateNotLogged(c) \/ DropNotLogged(c) \/ ReadOnlyCommand(c)
           \/ Activate(c) \/ ActivateRefused(c) \/ CopyBothSent(c) \/ CopyBothFails(c)
           \/ Poll(c) \/ StreamFails(c) \/ Progress(c)
           \/ ReadTimeout(c) \/ ReadGarbage(c) \/ Consumer(c)
    PROVE  GInv' \/ Receive(c)
<1>1. UNCHANGED disk /\ Recovered' = Recovered /\ SameConfirmed
    BY IdleStep
<1>2. DOMAIN saved = Conns /\ DOMAIN slot_name = Conns /\ base_lsn' = base_lsn
    BY <1>1 DEF TInv, Controls, Held, disk
<1>3. CASE \E s \in Names : start_replication(c, s)
    <2>1. PICK s \in Names : start_replication(c, s)
        BY <1>3
    <2>2. /\ pc[c] = "cmd" /\ slot_name' = [slot_name EXCEPT ![c] = s] /\ saved' = saved
          /\ got' = got
        BY <2>1 DEF start_replication, consumer
    <2>3. saved[c].confirmed = 0
        BY <2>2 DEF Rest, AtRest
    <2>4. ASSUME NEW t \in Names, NEW n, Mark(t, n)' PROVE Mark(t, n) \/ n = 0
        <3>1. CASE \E d \in Conns : slot_name'[d] = t /\ n = saved'[d].confirmed
            BY <1>2, <2>2, <2>3, <3>1 DEF Mark
        <3> QED
            BY <1>1, <1>2, <2>2, <2>4, <3>1 DEF Mark, SameConfirmed
    <2> QED
        BY <2>4, GKept
<1>4. CASE /\ slot_name' = slot_name /\ got' = got
           /\ saved' = saved \/ saved' = [saved EXCEPT ![c] = NoSlot]
    <2>1. \A d \in Conns : saved'[d] = saved[d] \/ saved'[d].confirmed = 0
        BY <1>2, <1>4 DEF NoSlot
    <2>2. ASSUME NEW t \in Names, NEW n, Mark(t, n)' PROVE Mark(t, n) \/ n = 0
        <3>1. CASE \E d \in Conns : slot_name'[d] = t /\ n = saved'[d].confirmed
            BY <1>4, <2>1, <3>1 DEF Mark
        <3> QED
            BY <1>1, <1>2, <1>4, <2>2, <3>1 DEF Mark, SameConfirmed
    <2> QED
        BY <2>2, GKept
<1>5. CASE CreateNotLogged(c) \/ DropNotLogged(c) \/ ReadOnlyCommand(c)
    BY <1>4, <1>5 DEF CreateNotLogged, DropNotLogged, ReadOnlyCommand, vars, sender, consumer
<1>6. CASE \/ Activate(c) \/ ActivateRefused(c) \/ CopyBothSent(c) \/ CopyBothFails(c)
           \/ Poll(c) \/ StreamFails(c) \/ Progress(c) \/ ReadTimeout(c) \/ ReadGarbage(c)
    BY <1>4, <1>6
       DEF Activate, ActivateRefused, CopyBothSent, CopyBothFails, Poll, StreamFails, Progress,
           ReadTimeout, ReadGarbage, Return, sender, consumer
<1>7. CASE Consumer(c)
    BY <1>3, <1>4, <1>7 DEF Consumer, Reconnect, ReadEnd, sender, consumer
<1> QED
    BY <1>5, <1>6, <1>7

(* CREATE: the end of the log is ahead of every change. *)
LEMMA GCreate ==
    ASSUME TInv, TInv', [Next]_vars, GInv, NEW c, NEW s, c \in Conns, s \in Names,
           create_slot(c, s)
    PROVE  GInv'
<1>1. /\ DOMAIN saved = Conns /\ DOMAIN slot_name = Conns /\ DOMAIN slots = Names
      /\ DOMAIN got = Names /\ DOMAIN born = Names
    BY DEF TInv, Controls, Held
<1>2. UNCHANGED disk /\ base_lsn' = base_lsn /\ Recovered' = Recovered /\ current_lsn' = current_lsn
    BY DiskSame DEF create_slot, disk
<1>3. ASSUME NEW n, Mark(s, n)' PROVE Covered(s, n)'
    <2>1. n \in 0..current_lsn'
        BY <1>3, MarkTypedNext
    <2>2. born'[s] = current_lsn'
        BY <1>1, <1>2 DEF create_slot
    <2>3. commits' \subseteq Nat /\ current_lsn' \in Nat
        BY <1>2, Lsn DEF TInv, Held
    <2> QED
        BY <2>1, <2>2, <2>3 DEF Covered, Reaches
<1>4. ASSUME NEW t \in Names \ {s}, NEW n, Mark(t, n)' PROVE Mark(t, n)
    <2>1. slots'[t] = slots[t] /\ got'[t] = got[t]
        BY <1>1 DEF create_slot
    <2>2. /\ slot_name'[c] = s
          /\ \A d \in Conns \ {c} : slot_name'[d] = slot_name[d] /\ saved'[d] = saved[d]
        BY <1>1 DEF create_slot
    <2>3. CASE \E d \in Conns : slot_name'[d] = t /\ n = saved'[d].confirmed
        BY <2>2, <2>3 DEF Mark
    <2> QED
        BY <1>2, <1>4, <2>1, <2>3 DEF Mark
<1> QED
    BY <1>3, <1>4, GKept

(* The other commands put back what was there, or take it away. *)
LEMMA GCommand ==
    ASSUME TInv, TInv', [Next]_vars, GInv, RInv, PInv, CInv, NEW c, c \in Conns,
           \/ \E s \in Names : drop_slot(c, s)
           \/ CreateLogged(c) \/ DropLogged(c) \/ CreateUndo(c) \/ DropUndo(c)
    PROVE  GInv'
<1> USE Phases
<1>1. /\ DOMAIN saved = Conns /\ DOMAIN slot_name = Conns /\ DOMAIN slots = Names
      /\ slot_name[c] \in Names
    BY DEF TInv, Controls, Held
<1>2. CASE \E s \in Names : drop_slot(c, s)
    <2>1. PICK s \in Names : drop_slot(c, s)
        BY <1>2
    <2>2. UNCHANGED disk /\ base_lsn' = base_lsn /\ Recovered' = Recovered
        BY <2>1, DiskSame DEF drop_slot, disk
    <2>3. /\ slots'[s] = NoSlot /\ \A t \in Names \ {s} : slots'[t] = slots[t]
          /\ slot_name'[c] = s /\ saved'[c] = slots[s] /\ got' = got
          /\ \A d \in Conns \ {c} : slot_name'[d] = slot_name[d] /\ saved'[d] = saved[d]
        BY <1>1, <2>1 DEF drop_slot, consumer
    <2>4. ASSUME NEW t \in Names, NEW n, Mark(t, n)' PROVE Mark(t, n) \/ n = 0
        <3>1. CASE \E d \in Conns : slot_name'[d] = t /\ n = saved'[d].confirmed
            BY <2>3, <3>1 DEF Mark
        <3>2. CASE n = slots'[t].confirmed
            BY <2>3, <3>2 DEF Mark, NoSlot
        <3> QED
            BY <2>2, <2>3, <2>4, <3>1, <3>2 DEF Mark, NoSlot
    <2> QED
        BY <2>4, GKept
<1>3. CASE CreateLogged(c) \/ DropLogged(c) \/ CreateUndo(c) \/ DropUndo(c)
    <2> DEFINE s == slot_name[c]
    <2>1. slot_name' = slot_name /\ saved' = [saved EXCEPT ![c] = NoSlot] /\ got' = got
        BY <1>3 DEF CreateLogged, DropLogged, CreateUndo, DropUndo, Return, consumer
    <2>2. \A d \in Conns : saved'[d] = saved[d] \/ saved'[d].confirmed = 0
        BY <1>1, <2>1 DEF NoSlot
    <2>3. base_lsn' = base_lsn
        BY <1>3 DEF CreateLogged, DropLogged, CreateUndo, DropUndo, append_batch, disk
    <2>4. ASSUME NEW t \in Names
          PROVE  /\ \/ Recovered'[t].confirmed = Recovered[t].confirmed
                    \/ Recovered'[t].confirmed = slots[t].confirmed
                    \/ Recovered'[t].confirmed = 0
                 /\ \/ slots'[t].confirmed = slots[t].confirmed
                    \/ \E d \in Conns : slot_name[d] = t /\ slots'[t].confirmed = saved[d].confirmed
                    \/ slots'[t].confirmed = 0
                 /\ slots'[t].exists \/ Recovered'[t].exists => slots[t].exists \/ Recovered[t].exists
        <3>1. CASE CreateLogged(c)
            <4>1. /\ \A u \in Names \ {s} : Recovered'[u] = Recovered[u]
                  /\ Recovered'[s] = NewSlot(saved[c].restart)
                BY <3>1, RecordApplied DEF CreateLogged
            <4>2. slots[s].exists /\ slots[s].confirmed = saved[c].restart /\ slots' = slots
                BY <3>1 DEF PInv, Fresh, CreateLogged
            <4> QED
                BY <4>1, <4>2 DEF NewSlot
        <3>2. CASE DropLogged(c)
            <4>1. /\ \A u \in Names \ {s} : Recovered'[u] = Recovered[u]
                  /\ Recovered'[s] = NoSlot
                BY <3>2, RecordApplied DEF DropLogged
            <4>2. slots' = slots
                BY <3>2 DEF DropLogged
            <4> QED
                BY <4>1, <4>2 DEF NoSlot
        <3>3. CASE CreateUndo(c)
            <4>1. Recovered' = Recovered /\ slots' = [slots EXCEPT ![s] = NoSlot]
                BY <3>3, DiskSame DEF CreateUndo
            <4> QED
                BY <1>1, <4>1 DEF NoSlot
        <3>4. CASE DropUndo(c)
            <4>1. Recovered' = Recovered /\ slots' = [slots EXCEPT ![s] = saved[c]]
                BY <3>4, DiskSame DEF DropUndo
            <4>2. Recovered[s].exists
                BY <3>4 DEF CInv, Windows, DropUndo, Undoing
            <4> QED
                BY <1>1, <4>1, <4>2
        <3> QED
            BY <1>3, <3>1, <3>2, <3>3, <3>4
    <2>5. ASSUME NEW t \in Names, NEW n, Mark(t, n)' PROVE Mark(t, n) \/ n = 0
        <3>1. CASE \E d \in Conns : slot_name'[d] = t /\ n = saved'[d].confirmed
            BY <2>1, <2>2, <3>1 DEF Mark
        <3>2. CASE n = slots'[t].confirmed \/ n = Recovered'[t].confirmed
            BY <2>4, <3>2 DEF Mark
        <3>3. CASE (slots'[t].exists \/ Recovered'[t].exists) /\ n = base_lsn'
            BY <2>3, <2>4, <3>3 DEF Mark
        <3> QED
            BY <2>1, <2>5, <3>1, <3>2, <3>3 DEF Mark
    <2> QED
        BY <2>5, GKept
<1> QED
    BY <1>2, <1>3

(* The walsender moves a slot to what its consumer has received, and writes  *)
(* and restores positions the slot was at.                                  *)
LEMMA GStream ==
    ASSUME TInv, TInv', [Next]_vars, GInv, NEW c, c \in Conns,
           ReadStatus(c) \/ FlushLog(c) \/ Cleanup(c) \/ FinalLog(c)
    PROVE  GInv'
<1> DEFINE s == slot_name[c]
<1>1. /\ slots \in [Names -> SlotUpTo(current_lsn)] /\ DOMAIN saved = Conns /\ s \in Names
      /\ DOMAIN slot_name = Conns
    BY DEF TInv, Controls, Held
<1>2. CASE ReadStatus(c)
    <2>1. /\ slot_name' = slot_name /\ UNCHANGED disk /\ base_lsn' = base_lsn /\ got' = got
          /\ Recovered' = Recovered
        BY <1>2, StatusIs, DiskSame DEF consumer, disk
    <2>2. CASE slots' = slots /\ saved' = saved
        <3>1. ASSUME NEW t \in Names, NEW n, Mark(t, n)' PROVE Mark(t, n)
            BY <2>1, <2>2, <3>1 DEF Mark
        <3> QED
            BY <3>1, GKept
    <2>3. ASSUME NEW new, slots[s].exists, new.confirmed \in got[s] \cup {slots[s].confirmed},
                 slots' = [slots EXCEPT ![s] = new],
                 saved' = saved \/ saved' = [saved EXCEPT ![c] = new]
          PROVE  GInv'
        <3>1. slots'[s] = new /\ \A t \in Names \ {s} : slots'[t] = slots[t]
            BY <1>1, <2>3
        <3>2. \A d \in Conns : saved'[d] = saved[d] \/ (d = c /\ saved'[d] = new)
            BY <1>1, <2>3
        <3>3. Mark(s, new.confirmed)
            BY <2>3 DEF Mark
        <3>4. ASSUME NEW t \in Names, NEW n, Mark(t, n)' PROVE Mark(t, n)
            <4>1. CASE \E d \in Conns : slot_name'[d] = t /\ n = saved'[d].confirmed
                BY <2>1, <3>2, <3>3, <4>1 DEF Mark
            <4>2. CASE t = s
                BY <2>1, <2>3, <3>1, <3>3, <3>4, <4>1, <4>2 DEF Mark
            <4>3. CASE t # s
                BY <2>1, <3>1, <3>4, <4>1, <4>3 DEF Mark
            <4> QED
                BY <4>2, <4>3
        <3> QED
            BY <3>4, GKept
    <2> QED
        BY <1>2, <2>2, <2>3, StatusIs
<1>3. CASE FlushLog(c) \/ FinalLog(c)
    <2>1. /\ slots' = slots /\ slot_name' = slot_name /\ saved' = [saved EXCEPT ![c] = NoSlot]
          /\ got' = got /\ base_lsn' = base_lsn
        BY <1>3 DEF FlushLog, FinalLog, Return, consumer, log_slot_flush, append_batch, disk
    <2>2. \A d \in Conns : saved'[d] = saved[d] \/ saved'[d].confirmed = 0
        BY <1>1, <2>1 DEF NoSlot
    <2>3. ASSUME NEW t \in Names
          PROVE  /\ Recovered'[t].exists <=> Recovered[t].exists
                 /\ \/ Recovered'[t].confirmed = Recovered[t].confirmed
                    \/ t = s /\ Recovered'[t].confirmed = saved[c].confirmed
        <3>1. UNCHANGED disk \/ append_batch(Frame("flush", s, saved[c]))
            BY <1>3 DEF FlushLog, FinalLog, log_slot_flush
        <3>2. CASE UNCHANGED disk
            BY <3>2, DiskSame
        <3>3. CASE append_batch(Frame("flush", s, saved[c]))
            <4>1. /\ \A u \in Names \ {s} : Recovered'[u] = Recovered[u]
                  /\ Recovered'[s].exists <=> Recovered[s].exists
                  /\ Recovered'[s].confirmed = IF Recovered[s].exists
                                               THEN Larger(Recovered[s].confirmed, saved[c].confirmed)
                                               ELSE Recovered[s].confirmed
                BY <3>3, RecordApplied
            <4>2. \/ Recovered'[s].confirmed = Recovered[s].confirmed
                  \/ Recovered'[s].confirmed = saved[c].confirmed
                BY <4>1 DEF Larger
            <4> QED
                BY <4>1, <4>2
        <3> QED
            BY <3>1, <3>2, <3>3
    <2>4. ASSUME NEW t \in Names, NEW n, Mark(t, n)' PROVE Mark(t, n) \/ n = 0
        <3>1. CASE \E d \in Conns : slot_name'[d] = t /\ n = saved'[d].confirmed
            BY <2>1, <2>2, <3>1 DEF Mark
        <3>2. CASE n = Recovered'[t].confirmed
            BY <2>3, <3>2 DEF Mark
        <3> QED
            BY <2>1, <2>3, <2>4, <3>1, <3>2 DEF Mark
    <2> QED
        BY <2>4, GKept
<1>4. CASE Cleanup(c)
    <2>1. /\ slot_name' = slot_name /\ UNCHANGED disk /\ base_lsn' = base_lsn /\ got' = got
          /\ Recovered' = Recovered
        BY <1>4, DiskSame DEF Cleanup, Return, consumer, disk
    <2>2. SameConfirmed
        BY <1>1, <1>4 DEF Cleanup, SameConfirmed, SlotUpTo
    <2>3. \A d \in Conns : \/ saved'[d] = saved[d] \/ saved'[d].confirmed = 0
                           \/ d = c /\ saved'[d] = slots[s]
        BY <1>1, <1>4 DEF Cleanup, Return, NoSlot
    <2>4. ASSUME NEW t \in Names, NEW n, Mark(t, n)' PROVE Mark(t, n) \/ n = 0
        <3>1. CASE \E d \in Conns : slot_name'[d] = t /\ n = saved'[d].confirmed
            BY <2>1, <2>3, <3>1 DEF Mark
        <3> QED
            BY <2>1, <2>2, <2>4, <3>1 DEF Mark, SameConfirmed
    <2> QED
        BY <2>4, GKept
<1> QED
    BY <1>2, <1>3, <1>4

(* A checkpoint takes from a slot what it counts as lost. *)
LEMMA GCheckpoint ==
    ASSUME TInv, TInv', [Next]_vars, GInv, checkpoint
    PROVE  GInv'
<1> PICK n : n = current_lsn
    OBVIOUS
<1>1. /\ slots' = slots /\ saved' = saved /\ slot_name' = slot_name /\ got' = got
      /\ base_lsn' = n /\ born' = born /\ commits' = commits
      /\ \A s \in Names : lost'[s] = lost[s] \cup
            {f \in commits : slots[s].exists /\ base_lsn <= f /\ slots[s].confirmed <= f}
    BY DEF checkpoint, sender
<1>2. \A s \in Names : /\ Recovered'[s].exists <=> slots[s].exists
                       /\ Recovered'[s].confirmed = slots[s].confirmed
    <2>1. Recovered' = image' /\ image' = [s \in Names |-> Inactive(slots[s])]
        BY CheckpointTyped DEF checkpoint
    <2> QED
        BY <2>1 DEF Inactive
<1>3. ASSUME NEW s \in Names, slots[s].exists PROVE Covered(s, n)'
    <2> SUFFICES ASSUME NEW f \in commits, born[s] <= f PROVE f \in Had(s)'
        BY <1>1 DEF Covered, Reaches
    <2>1. /\ f \in Nat /\ base_lsn \in Nat /\ slots[s].confirmed \in Nat
        BY Lsn DEF TInv, Held, SlotUpTo
    <2>2. Had(s) \subseteq Had(s)'
        BY <1>1 DEF Had
    <2>3. CASE f < base_lsn
        <3>1. Covered(s, base_lsn)
            BY <1>3 DEF GInv, Mark
        <3> QED
            BY <2>2, <2>3, <3>1 DEF Covered, Reaches
    <2>4. CASE f < slots[s].confirmed
        <3>1. Covered(s, slots[s].confirmed)
            BY DEF GInv, Mark
        <3> QED
            BY <2>2, <2>4, <3>1 DEF Covered, Reaches
    <2>5. CASE base_lsn <= f /\ slots[s].confirmed <= f
        BY <1>1, <1>3, <2>5 DEF Had
    <2> QED
        BY <2>1, <2>3, <2>4, <2>5
<1>4. ASSUME NEW s \in Names, NEW m, Mark(s, m)' PROVE Mark(s, m) \/ Covered(s, m)'
    <2>1. CASE (slots'[s].exists \/ Recovered'[s].exists) /\ m = base_lsn'
        <3>1. slots[s].exists /\ m = n
            BY <1>1, <1>2, <2>1
        <3> QED
            BY <1>3, <3>1
    <2>2. CASE m = Recovered'[s].confirmed
        BY <1>2, <2>2 DEF Mark
    <2> QED
        BY <1>1, <1>4, <2>1, <2>2 DEF Mark
<1> QED
    BY <1>4, GKept

(* A restart takes what replay finds. *)
LEMMA GCrash == ASSUME TInv, TInv', [Next]_vars, GInv, Crash PROVE GInv'
<1>1. /\ Recovered' = Recovered /\ base_lsn' = base_lsn /\ got' = got
      /\ \A s \in Names : /\ slots'[s].confirmed = Recovered[s].confirmed
                          /\ slots'[s].exists <=> Recovered[s].exists
      /\ \A c \in Conns : saved'[c].confirmed = 0
    BY DiskSame DEF Crash, disk, consumer, Inactive, NoSlot
<1>2. ASSUME NEW s \in Names, NEW n, Mark(s, n)' PROVE Mark(s, n) \/ n = 0
    BY <1>1, <1>2 DEF Mark
<1> QED
    BY <1>2, GKept

(* A commit, or nothing. *)
LEMMA GCommit == ASSUME TInv, TInv', GInv, Commit \/ UNCHANGED vars PROVE GInv'
<1>1. [Next]_vars
    BY DEF Next
<1>2. /\ Recovered' = Recovered /\ base_lsn' = base_lsn /\ got' = got /\ slots' = slots
      /\ saved' = saved /\ slot_name' = slot_name
    BY CommitApplied, DiskSame DEF Commit, append_batch, consumer, sender, vars, disk
<1>3. ASSUME NEW s \in Names, NEW n, Mark(s, n)' PROVE Mark(s, n)
    BY <1>2, <1>3 DEF Mark
<1> QED
    BY <1>1, <1>3, GKept

(* Whatever takes a connection to rest takes its position away. *)
LEMMA RestStep == ASSUME TInv, Rest, [Next]_vars PROVE Rest'
<1>1. /\ DOMAIN pc = Conns /\ DOMAIN next_lsn = Conns /\ DOMAIN saved = Conns
      /\ NoSlot.confirmed = 0
    BY DEF TInv, Controls, Held, NoSlot
<1>2. ASSUME NEW c \in Conns, SlotCommand(c) \/ Walsender(c) \/ Consumer(c) PROVE Rest'
    <2>1. CASE \E to : Return(c, to)
        BY <1>1, <2>1 DEF Return, Rest, AtRest
    <2>2. CASE /\ pc'[c] \notin {"cmd", "gone"}
               /\ \A d \in Conns \ {c} : /\ pc'[d] = pc[d] /\ next_lsn'[d] = next_lsn[d]
                                         /\ saved'[d] = saved[d]
        BY <2>2 DEF Rest, AtRest
    <2>3. CASE UNCHANGED <<pc, next_lsn, saved>>
        BY <2>3 DEF Rest, AtRest
    <2>4. CASE SlotCommand(c)
        BY <1>1, <2>1, <2>2, <2>3, <2>4
           DEF SlotCommand, ReadOnlyCommand, create_slot, drop_slot, CreateLogged, DropLogged,
               CreateNotLogged, DropNotLogged, CreateUndo, DropUndo, sender, vars
    <2>5. CASE \/ Activate(c) \/ ActivateRefused(c) \/ CopyBothSent(c) \/ CopyBothFails(c)
               \/ Poll(c) \/ StreamFails(c) \/ Progress(c)
        BY <1>1, <2>1, <2>2, <2>5
           DEF Activate, ActivateRefused, CopyBothSent, CopyBothFails, Poll, StreamFails,
               Progress, sender
    <2>6. CASE ReadStatus(c)
        <3>1. /\ pc'[c] \in {"poll", "flush_log"} /\ next_lsn' = next_lsn
              /\ \A d \in Conns \ {c} : pc'[d] = pc[d] /\ saved'[d] = saved[d]
            BY <1>1, <2>6, StatusIs
        <3> QED
            BY <2>2, <3>1
    <2>7. CASE ReadTimeout(c) \/ ReadGarbage(c) \/ FlushLog(c) \/ Cleanup(c) \/ FinalLog(c)
        BY <1>1, <2>1, <2>2, <2>7 DEF ReadTimeout, ReadGarbage, FlushLog, Cleanup, FinalLog, sender
    <2>8. CASE Consumer(c)
        <3>1. CASE Reconnect(c)
            BY <1>1, <3>1 DEF Reconnect, sender, Rest, AtRest
        <3> QED
            BY <1>1, <2>2, <2>3, <2>8, <3>1 DEF Consumer, Receive, ReadEnd, start_replication, sender
    <2> QED
        BY <1>2, <2>4, <2>5, <2>6, <2>7, <2>8 DEF Walsender
<1>3. CASE Commit \/ checkpoint \/ UNCHANGED vars
    BY <1>3 DEF Commit, checkpoint, vars, sender, Rest, AtRest
<1>4. CASE Crash
    BY <1>1, <1>4 DEF Crash, Rest, AtRest
<1> QED
    BY <1>2, <1>3, <1>4 DEF Next

(* An appended frame is a commit, or no commit; a checkpoint leaves none. *)
LEMMA LoggedAppend ==
    ASSUME TInv, Logged, NEW r, r \in FrameUpTo(current_lsn), append_batch(r),
           commits' = IF r.kind = "commit" THEN commits \cup {current_lsn} ELSE commits
    PROVE  Logged'
<1> PICK n : n = current_lsn
    OBVIOUS
<1> PICK b : b = base_lsn
    OBVIOUS
<1> PICK m : m = Len(log)
    OBVIOUS
<1>1. n \in Nat /\ b \in Nat /\ m \in Nat /\ n = b + m /\ commits \subseteq 0 .. n - 1
    BY Lsn DEF TInv, Held, current_lsn
<1>2. /\ current_lsn' = n + 1 /\ base_lsn' = b /\ log'[m + 1] = r
      /\ \A i \in 1..m : log'[i] = log[i]
    BY Appended
<1> SUFFICES ASSUME NEW f \in Nat, b <= f, f < n + 1
             PROVE  log'[f - b + 1].kind = "commit" <=> f \in commits'
    BY <1>2 DEF Logged
<1>3. CASE f < n
    <2>1. f - b + 1 \in 1..m /\ f # n
        BY <1>1, <1>3
    <2>2. log[f - b + 1].kind = "commit" <=> f \in commits
        BY <1>3 DEF Logged
    <2> QED
        BY <1>2, <2>1, <2>2
<1>4. CASE f = n
    <2>1. f - b + 1 = m + 1 /\ f \notin commits
        BY <1>1, <1>4
    <2> QED
        BY <1>2, <1>4, <2>1
<1> QED
    BY <1>1, <1>3, <1>4

LEMMA LoggedStep == ASSUME TInv, Logged, [Next]_vars PROVE Logged'
<1>1. CASE UNCHANGED <<disk, commits>>
    BY <1>1 DEF Logged, current_lsn, disk
<1>2. ASSUME NEW c \in Conns, NEW k \in {"create", "drop", "flush"},
             append_batch(Frame(k, slot_name[c], saved[c])), commits' = commits
      PROVE  Logged'
    <2>1. Frame(k, slot_name[c], saved[c]) \in FrameUpTo(current_lsn)
        BY DEF TInv, Controls, Held, Frame, FrameUpTo, SlotUpTo
    <2>2. Frame(k, slot_name[c], saved[c]).kind # "commit"
        BY DEF Frame
    <2> QED
        BY <1>2, <2>1, <2>2, LoggedAppend
<1>3. ASSUME NEW c \in Conns, SlotCommand(c) \/ Walsender(c) \/ Consumer(c) PROVE Logged'
    <2>1. CASE SlotCommand(c)
        BY <1>1, <1>2, <2>1
           DEF SlotCommand, ReadOnlyCommand, create_slot, drop_slot, CreateLogged, DropLogged,
               CreateNotLogged, DropNotLogged, CreateUndo, DropUndo, vars, counters
    <2>2. CASE FlushLog(c) \/ FinalLog(c)
        BY <1>1, <1>2, <2>2 DEF FlushLog, FinalLog, log_slot_flush, counters
    <2>3. CASE ReadStatus(c)
        BY <1>1, <2>3, StatusIs
    <2>4. CASE Walsender(c)
        BY <1>1, <2>2, <2>3, <2>4
           DEF Walsender, Activate, ActivateRefused, CopyBothSent, CopyBothFails, Poll,
               StreamFails, Progress, ReadTimeout, ReadGarbage, Cleanup, counters
    <2>5. CASE Consumer(c)
        BY <1>1, <2>5 DEF Consumer, Receive, Reconnect, ReadEnd, start_replication, counters
    <2> QED
        BY <1>3, <2>1, <2>4, <2>5
<1>4. CASE Commit
    <2> DEFINE r == Frame("commit", CHOOSE s \in Names : TRUE, NoSlot)
    <2>1. r \in FrameUpTo(current_lsn) /\ append_batch(r) /\ commits' = commits \cup {current_lsn}
        BY <1>4, CommitTyped DEF Commit
    <2>2. r.kind = "commit"
        BY DEF Frame
    <2> HIDE DEF r
    <2> QED
        BY <2>1, <2>2, LoggedAppend
<1>5. CASE checkpoint
    <2>1. base_lsn' = current_lsn' /\ current_lsn' \in Nat
        BY <1>5, CheckpointTyped, Lsn DEF checkpoint
    <2> QED
        BY <2>1 DEF Logged
<1>6. CASE Crash
    BY <1>1, <1>6 DEF Crash
<1>7. CASE UNCHANGED vars
    BY <1>1, <1>7 DEF vars, counters
<1> QED
    BY <1>3, <1>4, <1>5, <1>6, <1>7 DEF Next


(* What is on its way to the consumer, and what the stream reads next, leave *)
(* no gap behind what the consumer has had.                                 *)
Flow(c) ==
    LET s == slot_name[c]
        there == Elems(chan[c])
    IN  /\ Increasing(chan[c])
        /\ pc[c] = "start" => chan[c] = <<>>
        /\ pc[c] \in Streaming \ {"cleanup"} => \A n \in there : n < next_lsn[c]
        /\ \A n \in there \cup {next_lsn[c]} : Reaches(commits, born[s], Had(s) \cup there, n)

WInv == \A c \in Conns : Flow(c)

(* A connection that a step leaves alone, or takes away from its stream. *)
LEMMA FlowKept ==
    ASSUME TInv, TInv', [Next]_vars, NEW c, c \in Conns, Flow(c),
           slot_name'[c] = slot_name[c], chan'[c] = chan[c],
           next_lsn'[c] = next_lsn[c] \/ next_lsn'[c] = 0,
           pc'[c] = "start" => pc[c] = "start",
           pc'[c] \in Streaming \ {"cleanup"} =>
                pc[c] \in Streaming \ {"cleanup"} /\ next_lsn'[c] = next_lsn[c]
    PROVE  Flow(c)'
<1> PICK s : s = slot_name[c]
    OBVIOUS
<1> PICK X : X = Elems(chan[c])
    OBVIOUS
<1> PICK k : k = next_lsn[c]
    OBVIOUS
<1>1. s \in Names /\ k \in 0..current_lsn /\ commits' \subseteq Nat
    BY Lsn DEF TInv, Controls, Held
<1>2. X \subseteq 0..current_lsn
    <2>1. chan[c] \in Seq(0 .. current_lsn - 1) /\ current_lsn \in Nat
        BY Lsn DEF TInv, Held
    <2>2. \A i \in DOMAIN chan[c] : chan[c][i] \in 0 .. current_lsn - 1
        BY <2>1, LenProperties, ElementOfSeq
    <2> QED
        BY <2>1, <2>2 DEF Elems
<1>3. ASSUME NEW n \in X \cup {k} PROVE Reaches(commits, born[s], Had(s) \cup X, n)'
    <2>1. Reaches(commits, born[s], Had(s) \cup X, n)
        BY DEF Flow
    <2> QED
        BY <1>1, <1>2, <2>1, ReachKept
<1>4. Reaches(commits, born[s], Had(s) \cup X, 0)'
    BY <1>1, TInv' DEF Reaches, TInv, Held
<1>5. Elems(chan[c])' = X /\ slot_name'[c] = s
    BY DEF Elems
<1>6. next_lsn'[c] = k \/ next_lsn'[c] = 0
    OBVIOUS
<1>7. \A n \in X \cup {next_lsn'[c]} : Reaches(commits, born[s], Had(s) \cup X, n)'
    BY <1>3, <1>4, <1>6
<1>8. /\ Increasing(chan'[c]) /\ (pc'[c] = "start" => chan'[c] = <<>>)
      /\ pc'[c] \in Streaming \ {"cleanup"} => \A n \in X : n < next_lsn'[c]
    BY DEF Flow
<1> QED
    BY <1>5, <1>7, <1>8 DEF Flow

(* Nothing on the way, and nothing missing below the position. *)
LEMMA FlowEmpty ==
    ASSUME NEW c, c \in Conns, chan'[c] = <<>>, Covered(slot_name[c], next_lsn[c])'
    PROVE  Flow(c)'
<1> PICK s : s = slot_name'[c]
    OBVIOUS
<1> PICK k : k = next_lsn'[c]
    OBVIOUS
<1>1. DOMAIN chan'[c] = {} /\ Elems(chan[c])' = {}
    BY DEF Elems
<1>2. Reaches(commits, born[s], Had(s), k)'
    BY DEF Covered
<1>3. \A n \in {} \cup {k} : Reaches(commits, born[s], Had(s) \cup {}, n)'
    BY <1>2
<1> QED
    BY <1>1, <1>3 DEF Flow, Increasing

(* Nothing is missing below 0. *)
LEMMA CoveredZero == ASSUME TInv' PROVE \A s \in Names : Covered(s, 0)'
<1>1. commits' \subseteq Nat
    BY Lsn DEF TInv, Held
<1> QED
    BY <1>1 DEF Covered, Reaches


(* A poll sends every change from the position on that is in the log; what   *)
(* the log has lost below it was covered.                                   *)
LEMMA FlowPoll ==
    ASSUME TInv, GInv, Logged, NEW c, c \in Conns, Flow(c), slots[slot_name[c]].exists,
           Poll(c) \/ StreamFails(c)
    PROVE  Flow(c)'
<1> PICK s : s = slot_name[c]
    OBVIOUS
<1> PICK n : n = current_lsn
    OBVIOUS
<1> PICK b : b = base_lsn
    OBVIOUS
<1> PICK p : p = chan[c]
    OBVIOUS
<1> PICK at : at = next_lsn[c]
    OBVIOUS
<1> PICK H : H = Had(s)
    OBVIOUS
<1> PICK first : first = Larger(at, b)
    OBVIOUS
<1>1. PICK l, k : Batch(c, l, k) /\ (Poll(c) => Moves(c, k))
    BY BatchSent
<1>2. /\ n \in Nat /\ b \in Nat /\ b <= n /\ at \in 0..n /\ s \in Names
      /\ commits \subseteq 0 .. n - 1 /\ p \in Seq(0 .. n - 1)
      /\ DOMAIN chan = Conns /\ DOMAIN next_lsn = Conns /\ DOMAIN pc = Conns
    BY Lsn DEF TInv, Controls, Held
<1>3. pc[c] = "poll" /\ "poll" \in Streaming \ {"cleanup"}
    BY DEF Poll, StreamFails, Streaming
<1>4. Increasing(p) /\ \A i \in DOMAIN p : p[i] < at
    BY <1>3 DEF Flow, Elems
<1>5. /\ Increasing(p \o l)
      /\ Moves(c, k) => \A i \in DOMAIN (p \o l) : (p \o l)[i] < next_lsn'[c]
      /\ Elems(p \o l) = Elems(p) \cup Elems(l)
    BY <1>1, <1>2, <1>4, BatchGrows
<1>6. chan'[c] = p \o l
    BY <1>1, <1>2 DEF Batch, Send
<1>7. /\ commits' = commits /\ born' = born /\ Had(s)' = H /\ slot_name' = slot_name
      /\ next_lsn'[c] = at \/ (next_lsn'[c] = n /\ first <= n /\ k = n - first)
      /\ (pc'[c] = "cleanup") \/ (pc'[c] \in {"read", "progress"} /\ Poll(c))
    BY <1>1, <1>2 DEF Poll, StreamFails, Had, consumer, counters, Moves
<1>8. k \in Nat /\ \A x : x \in Elems(l) <=> /\ x \in Nat /\ first <= x /\ x < first + k
                                             /\ log[x - b + 1].kind = "commit"
    BY <1>1 DEF Batch, Elems
<1>9. ASSUME NEW x \in Elems(p) \cup Elems(l) \cup {next_lsn'[c]},
             NEW f \in commits, born[s] <= f, f < x
      PROVE  f \in H \cup Elems(p) \cup Elems(l)
    <2>1. f \in Nat /\ f < n
        BY <1>2
    <2>2. CASE x \in Elems(p) \cup {at}
        BY <1>9, <2>2 DEF Flow, Reaches
    <2>3. CASE f < at
        BY <1>9, <2>3 DEF Flow, Reaches
    <2>4. CASE f < b
        <3>1. Covered(s, b)
            BY <1>2 DEF GInv, Mark
        <3> QED
            BY <1>9, <2>4, <3>1 DEF Covered, Reaches
    <2>5. CASE /\ x \in Elems(l) \/ (x = n /\ k = n - first /\ first <= n)
               /\ ~(f < at) /\ ~(f < b)
        <3>1. first <= f /\ first \in Nat
            BY <1>2, <2>1, <2>5 DEF Larger
        <3>2. f < first + k
            BY <1>2, <1>8, <1>9, <2>1, <2>5, <3>1
        <3>3. log[f - b + 1].kind = "commit"
            BY <1>2, <2>1, <2>5 DEF Logged
        <3> QED
            BY <1>8, <2>1, <3>1, <3>2, <3>3
    <2> QED
        BY <1>7, <1>9, <2>2, <2>3, <2>4, <2>5
<1>10. \A x \in Elems(p \o l) \cup {next_lsn'[c]} :
            Reaches(commits, born[s], Had(s) \cup Elems(p \o l), x)'
    BY <1>5, <1>7, <1>9 DEF Reaches
<1>11. Elems(chan[c])' = Elems(p \o l)
    BY <1>6 DEF Elems
<1>12. pc'[c] \in Streaming \ {"cleanup"} => \A x \in Elems(p \o l) : x < next_lsn'[c]
    BY <1>1, <1>5, <1>7 DEF Elems
<1> QED
    BY <1>5, <1>6, <1>7, <1>10, <1>11, <1>12 DEF Flow


(* Taking the first of an increasing sequence. *)
LEMMA TakeFirst ==
    ASSUME NEW q, q \in Seq(Nat), q # <<>>, Increasing(q)
    PROVE  /\ Increasing(Tail(q)) /\ Head(q) \in Elems(q)
           /\ Elems(q) = {Head(q)} \cup Elems(Tail(q))
           /\ \A x \in Elems(Tail(q)) : Head(q) < x
<1> DEFINE m == Len(q)
           t == Tail(q)
<1>1. m \in Nat /\ m >= 1 /\ DOMAIN q = 1..m /\ \A i \in 1..m : q[i] \in Nat
    BY LenProperties, EmptySeq, ElementOfSeq
<1>2. /\ Head(q) = q[1] /\ t \in Seq(Nat) /\ Len(t) = m - 1
      /\ \A i \in 1 .. m - 1 : t[i] = q[i + 1]
    BY HeadTailProperties
<1>3. DOMAIN t = 1 .. m - 1
    BY <1>2, LenProperties
<1> HIDE DEF t, m
<1>4. Increasing(t)
    <2> SUFFICES ASSUME NEW i \in 1 .. m - 1, NEW j \in 1 .. m - 1, i < j PROVE t[i] < t[j]
        BY <1>3 DEF Increasing
    <2>1. i + 1 \in 1..m /\ j + 1 \in 1..m /\ i + 1 < j + 1
        BY <1>1
    <2> QED
        BY <1>1, <1>2, <2>1 DEF Increasing
<1>5. ASSUME NEW i \in 1 .. m - 1 PROVE q[1] < t[i] /\ t[i] \in Elems(q)
    <2>1. i + 1 \in 1..m /\ 1 \in 1..m /\ 1 < i + 1 /\ t[i] = q[i + 1]
        BY <1>1, <1>2
    <2> QED
        BY <1>1, <2>1 DEF Increasing, Elems
<1>6. ASSUME NEW i \in 1..m, i # 1 PROVE q[i] \in Elems(t)
    <2>1. i - 1 \in 1 .. m - 1 /\ t[i - 1] = q[(i - 1) + 1] /\ (i - 1) + 1 = i
        BY <1>1, <1>2, <1>6
    <2> QED
        BY <1>3, <2>1 DEF Elems
<1>7. Head(q) \in Elems(q)
    <2>1. 1 \in DOMAIN q /\ Head(q) = q[1]
        BY <1>1, <1>2
    <2> QED
        BY <2>1 DEF Elems
<1>8. Elems(q) = {Head(q)} \cup Elems(t)
    <2>1. Elems(q) \subseteq {Head(q)} \cup Elems(t)
        BY <1>1, <1>2, <1>6 DEF Elems
    <2>2. Elems(t) \subseteq Elems(q)
        BY <1>3, <1>5 DEF Elems
    <2> QED
        BY <1>7, <2>1, <2>2
<1>9. \A x \in Elems(t) : Head(q) < x
    BY <1>2, <1>3, <1>5 DEF Elems
<1> QED
    BY <1>4, <1>7, <1>8, <1>9 DEF t

(* What the consumer receives moves from the way to the consumer. *)
LEMMA Received ==
    ASSUME TInv, TInv', [Next]_vars, GInv, NEW c, c \in Conns, Flow(c), Receive(c)
    PROVE  Flow(c)' /\ GInv'
<1> PICK s : s = slot_name[c]
    OBVIOUS
<1> PICK q : q = chan[c]
    OBVIOUS
<1>1. /\ q \in Seq(Nat) /\ q # <<>> /\ s \in Names
      /\ DOMAIN chan = Conns /\ DOMAIN got = Names
    <2> PICK n : n = current_lsn
        OBVIOUS
    <2>1. q \in Seq(0 .. n - 1) /\ n \in Nat
        BY Lsn DEF TInv, Held
    <2>2. Seq(0 .. n - 1) \subseteq Seq(Nat)
        BY <2>1
    <2> QED
        BY <2>1, <2>2 DEF TInv, Controls, Held, Receive
<1>2. Increasing(q) /\ \A n \in Elems(q) \cup {next_lsn[c]} :
                            Reaches(commits, born[s], Had(s) \cup Elems(q), n)
    BY DEF Flow
<1>3. /\ Increasing(Tail(q)) /\ Head(q) \in Elems(q)
      /\ Elems(q) = {Head(q)} \cup Elems(Tail(q))
      /\ \A x \in Elems(Tail(q)) : Head(q) < x
    BY <1>1, <1>2, TakeFirst
<1>4. /\ chan'[c] = Tail(q) /\ got'[s] = got[s] \cup {Head(q)}
      /\ \A t \in Names \ {s} : got'[t] = got[t]
      /\ UNCHANGED <<slots, disk, pc, slot_name, next_lsn, saved, born, lost, commits>>
    BY <1>1 DEF Receive, sender, counters
<1>5. Had(s)' = Had(s) \cup {Head(q)} /\ Elems(chan[c])' = Elems(Tail(q))
    BY <1>4 DEF Had, Elems
<1>6. Flow(c)'
    <2>1. Had(s)' \cup Elems(Tail(q)) = Had(s) \cup Elems(q)
        BY <1>3, <1>5
    <2>2. \A n \in Elems(Tail(q)) \cup {next_lsn[c]} :
                Reaches(commits, born[s], Had(s) \cup Elems(q), n)
        BY <1>2, <1>3
    <2>3. pc[c] # "start" /\ (pc[c] \in Streaming \ {"cleanup"} => \A n \in Elems(q) : n < next_lsn[c])
        BY <1>1 DEF Flow
    <2>4. \A n \in Elems(Tail(q)) \cup {next_lsn'[c]} :
                Reaches(commits, born[s], Had(s) \cup Elems(Tail(q)), n)'
        BY <1>4, <2>1, <2>2 DEF Reaches
    <2> QED
        BY <1>3, <1>4, <1>5, <2>3, <2>4 DEF Flow
<1>7. Covered(s, Head(q))'
    <2>1. ASSUME NEW f \in commits, born[s] <= f, f < Head(q) PROVE f \in Had(s)
        <3>1. f \in Had(s) \cup Elems(q)
            BY <1>2, <1>3, <2>1 DEF Reaches
        <3>2. f \in Nat /\ Head(q) \in Nat /\ f # Head(q)
            BY <1>1, <2>1, HeadTailProperties, Lsn DEF TInv, Held
        <3>3. f \notin Elems(Tail(q))
            BY <1>3, <2>1, <3>2
        <3> QED
            BY <1>3, <3>1, <3>2, <3>3
    <2> QED
        BY <1>4, <1>5, <2>1 DEF Covered, Reaches
<1>8. ASSUME NEW t \in Names, NEW n, Mark(t, n)' PROVE Mark(t, n) \/ Covered(t, n)'
    <2>1. Recovered' = Recovered /\ base_lsn' = base_lsn
        BY <1>4, DiskSame DEF disk
    <2>2. CASE n \in got'[t]
        BY <1>4, <1>7, <2>2 DEF Mark
    <2> QED
        BY <1>4, <1>8, <2>1, <2>2 DEF Mark
<1> QED
    BY <1>6, <1>8, GKept


(* A stream starts where the consumer lacks nothing. *)
LEMMA FlowStarts ==
    ASSUME TInv, TInv', [Next]_vars, GInv, Rest, NEW c, c \in Conns, Flow(c),
           \/ \E s \in Names : create_slot(c, s) \/ drop_slot(c, s) \/ start_replication(c, s)
           \/ Activate(c) \/ Reconnect(c)
    PROVE  Flow(c)'
<1>1. /\ DOMAIN next_lsn = Conns /\ DOMAIN slot_name = Conns /\ DOMAIN chan = Conns
      /\ current_lsn \in Nat
    BY Lsn DEF TInv, Controls, Held
<1>2. CASE \/ \E s \in Names : create_slot(c, s) \/ drop_slot(c, s)
           \/ Reconnect(c)
    <2>1. chan'[c] = <<>> /\ next_lsn' = next_lsn /\ pc[c] \in {"cmd", "gone"}
        BY <1>1, <1>2 DEF create_slot, drop_slot, Reconnect, network, sender
    <2>2. next_lsn'[c] = 0 /\ slot_name'[c] \in Names
        BY <2>1 DEF Rest, AtRest, TInv, Controls
    <2>3. Covered(slot_name[c], next_lsn[c])'
        BY <2>2, CoveredZero
    <2> QED
        BY <2>1, <2>3, FlowEmpty
<1>3. CASE \E s \in Names : start_replication(c, s)
    <2>1. PICK s \in Names : start_replication(c, s)
        BY <1>3
    <2>2. PICK start \in {0} \cup (IF got[s] = {} THEN {} ELSE {Max(got[s])}) :
                next_lsn' = [next_lsn EXCEPT ![c] = start]
        BY <2>1 DEF start_replication
    <2>3. chan'[c] = <<>> /\ next_lsn'[c] = start /\ slot_name'[c] = s
        BY <1>1, <2>1, <2>2 DEF start_replication, network
    <2>4. CASE start = 0
        BY <2>3, <2>4, CoveredZero, FlowEmpty
    <2>5. CASE got[s] # {} /\ start = Max(got[s])
        <3>1. start \in got[s]
            BY <1>1, <2>5, MaxIs DEF TInv, Held
        <3>2. Mark(s, start)
            BY <3>1 DEF Mark
        <3>3. start \in 0..current_lsn /\ Covered(s, start)
            BY <3>2, MarkTyped DEF GInv
        <3>4. Covered(s, start)'
            BY <3>3, CoverKept
        <3> QED
            BY <2>3, <3>4, FlowEmpty
    <2> QED
        BY <2>2, <2>4, <2>5
<1>4. CASE Activate(c)
    <2> PICK s : s = slot_name[c]
        OBVIOUS
    <2> PICK n : n = Larger(next_lsn[c], slots[s].confirmed)
        OBVIOUS
    <2>1. s \in Names /\ chan[c] = <<>> /\ chan' = chan /\ slot_name' = slot_name /\ next_lsn'[c] = n
        BY <1>1, <1>4 DEF Activate, Flow, network, TInv, Controls
    <2>2. Mark(s, slots[s].confirmed)
        BY DEF Mark
    <2>3. slots[s].confirmed \in 0..current_lsn /\ Covered(s, slots[s].confirmed)
        BY <2>1, <2>2, MarkTyped DEF GInv
    <2>4. next_lsn[c] \in 0..current_lsn /\ Covered(s, next_lsn[c])
        <3>1. Elems(chan[c]) = {}
            BY <2>1 DEF Elems
        <3> QED
            BY <3>1 DEF Flow, Covered, Reaches, TInv, Held
    <2>5. n \in 0..current_lsn /\ Covered(s, n)
        BY <2>3, <2>4 DEF Larger
    <2>6. Covered(s, n)'
        BY <2>1, <2>5, CoverKept
    <2> QED
        BY <2>1, <2>6, FlowEmpty
<1> QED
    BY <1>2, <1>3, <1>4

(* One connection at a time. *)
LEMMA FlowConn ==
    ASSUME TInv, TInv', [Next]_vars, RInv, GInv, Logged, Rest, WInv, NEW c, c \in Conns,
           SlotCommand(c) \/ Walsender(c) \/ Consumer(c)
    PROVE  WInv'
<1> DEFINE Kept(d) ==
        /\ slot_name'[d] = slot_name[d] /\ chan'[d] = chan[d]
        /\ next_lsn'[d] = next_lsn[d] \/ next_lsn'[d] = 0
        /\ pc'[d] = "start" => pc[d] = "start"
        /\ pc'[d] \in Streaming \ {"cleanup"} =>
                pc[d] \in Streaming \ {"cleanup"} /\ next_lsn'[d] = next_lsn[d]
<1>1. /\ DOMAIN next_lsn = Conns /\ DOMAIN slot_name = Conns /\ DOMAIN chan = Conns
      /\ DOMAIN pc = Conns /\ end[c] \in {"cmd", "gone"} /\ Flow(c)
    BY DEF TInv, Controls, Held, WInv
<1>2. \A d \in Conns : Kept(d) => Flow(d)'
    <2> TAKE d \in Conns
    <2>1. Flow(d)
        BY DEF WInv
    <2> QED
        BY <2>1, FlowKept
<1> DEFINE Alone == \A d \in Conns \ {c} : /\ slot_name'[d] = slot_name[d] /\ chan'[d] = chan[d]
                                           /\ next_lsn'[d] = next_lsn[d] /\ pc'[d] = pc[d]
<1>3. Alone => \A d \in Conns \ {c} : Kept(d)
    OBVIOUS
<1>4. CASE \/ \E s \in Names : create_slot(c, s) \/ drop_slot(c, s) \/ start_replication(c, s)
           \/ Activate(c) \/ Reconnect(c)
    <2>1. Alone
        BY <1>1, <1>4
           DEF create_slot, drop_slot, start_replication, Activate, Reconnect, network, sender
    <2>2. Flow(c)'
        BY <1>1, <1>4, FlowStarts
    <2> QED
        BY <1>2, <1>3, <2>1, <2>2 DEF WInv
<1>5. CASE Poll(c) \/ StreamFails(c)
    <2>1. Alone
        BY <1>1, <1>5 DEF Poll, StreamFails, Send
    <2>2. slots[slot_name[c]].exists
        <3>1. pc[c] = "poll" /\ slot_name[c] \in Names
            BY <1>5 DEF Poll, StreamFails, TInv, Controls
        <3>2. Phase(pc[c]) = "stream"
            BY <3>1, Phases DEF Streaming
        <3> QED
            BY <3>1, <3>2 DEF RInv, HeldWhenActive, Holds, ActiveExists
    <2>3. Flow(c)'
        BY <1>1, <1>5, <2>2, FlowPoll
    <2> QED
        BY <1>2, <1>3, <2>1, <2>3 DEF WInv
<1>6. CASE Receive(c)
    <2>1. Alone
        BY <1>1, <1>6 DEF Receive, sender
    <2>2. Flow(c)'
        BY <1>1, <1>6, Received
    <2> QED
        BY <1>2, <1>3, <2>1, <2>2 DEF WInv
<1>7. ASSUME Alone, Kept(c) PROVE WInv'
    BY <1>2, <1>3, <1>7 DEF WInv
<1>8. ASSUME NEW to, to \in {"cmd", "gone"}, Return(c, to) PROVE WInv'
    <2>1. Alone /\ slot_name' = slot_name /\ chan' = chan /\ next_lsn'[c] = 0 /\ pc'[c] = to
        BY <1>1, <1>8 DEF Return
    <2> QED
        BY <1>7, <1>8, <2>1 DEF Streaming
<1>9. ASSUME UNCHANGED <<slot_name, chan, next_lsn>>, \A d \in Conns \ {c} : pc'[d] = pc[d],
             \/ pc'[c] = pc[c]
             \/ pc[c] \in Streaming \ {"cleanup"} /\ pc'[c] # "start"
             \/ pc'[c] \notin Streaming \cup {"start"} \/ pc'[c] = "cleanup"
      PROVE  WInv'
    <2>1. Alone /\ Kept(c)
        BY <1>9
    <2> QED
        BY <1>7, <2>1
<1> HIDE DEF Kept, Alone
<1>10. CASE SlotCommand(c)
    BY <1>1, <1>4, <1>8, <1>9, <1>10
       DEF SlotCommand, ReadOnlyCommand, CreateLogged, DropLogged, CreateNotLogged,
           DropNotLogged, CreateUndo, DropUndo, vars, sender, network, Streaming
<1>11. CASE \/ ActivateRefused(c) \/ CopyBothSent(c) \/ CopyBothFails(c) \/ Progress(c)
    BY <1>1, <1>8, <1>9, <1>11
       DEF ActivateRefused, CopyBothSent, CopyBothFails, Progress, sender, network, Streaming
<1>12. CASE ReadStatus(c)
    <2>1. /\ pc[c] = "read" /\ UNCHANGED <<slot_name, chan, next_lsn>>
          /\ pc'[c] \in {"poll", "flush_log"} /\ \A d \in Conns \ {c} : pc'[d] = pc[d]
        BY <1>1, <1>12, StatusIs DEF network
    <2> QED
        BY <1>9, <2>1 DEF Streaming
<1>13. CASE ReadTimeout(c) \/ ReadGarbage(c) \/ FlushLog(c) \/ Cleanup(c) \/ FinalLog(c)
    BY <1>1, <1>8, <1>9, <1>13
       DEF ReadTimeout, ReadGarbage, FlushLog, Cleanup, FinalLog, sender, network, Streaming
<1>14. CASE Consumer(c)
    BY <1>1, <1>4, <1>6, <1>9, <1>14 DEF Consumer, ReadEnd, network
<1> QED
    BY <1>4, <1>5, <1>10, <1>11, <1>12, <1>13, <1>14 DEF Walsender

LEMMA WInvStep ==
    ASSUME TInv, TInv', RInv, GInv, Logged, Rest, WInv, [Next]_vars
    PROVE  WInv'
<1> SUFFICES ASSUME ~\E c \in Conns : SlotCommand(c) \/ Walsender(c) \/ Consumer(c) PROVE WInv'
    BY FlowConn
<1>1. \A c \in Conns : /\ slot_name'[c] = slot_name[c] /\ chan'[c] = chan[c]
                       /\ \/ next_lsn'[c] = next_lsn[c] /\ pc'[c] = pc[c]
                          \/ next_lsn'[c] = 0 /\ pc'[c] = "gone"
    BY DEF Next, Commit, checkpoint, Crash, vars, sender, network
<1> SUFFICES ASSUME NEW c \in Conns PROVE Flow(c)'
    BY DEF WInv
<1>2. Flow(c)
    BY DEF WInv
<1> QED
    BY <1>1, <1>2, FlowKept DEF Streaming


LEMMA GInvStep ==
    ASSUME TInv, TInv', RInv, PInv, CInv, GInv, Rest, WInv, [Next]_vars
    PROVE  GInv'
<1>1. CASE \E c \in Conns : SlotCommand(c) \/ Walsender(c) \/ Consumer(c)
    <2>1. PICK c \in Conns : SlotCommand(c) \/ Walsender(c) \/ Consumer(c)
        BY <1>1
    <2>2. CASE Receive(c)
        BY <2>2, Received DEF WInv
    <2>3. CASE SlotCommand(c)
        BY <2>2, <2>3, GIdle, GCreate, GCommand DEF SlotCommand
    <2>4. CASE Walsender(c)
        BY <2>2, <2>4, GIdle, GStream DEF Walsender
    <2>5. CASE Consumer(c)
        BY <2>2, <2>5, GIdle
    <2> QED
        BY <2>1, <2>3, <2>4, <2>5
<1> QED
    BY <1>1, GCheckpoint, GCrash, GCommit DEF Next

LEMMA GapsInit == Init => GInv /\ Logged /\ Rest /\ WInv
<1> SUFFICES ASSUME Init PROVE GInv /\ Logged /\ Rest /\ WInv
    OBVIOUS
<1>1. commits = {} /\ base_lsn = 0 /\ log = <<>> /\ current_lsn = 0
    BY EmptySeq DEF Init, current_lsn
<1>2. \A c \in Conns : /\ chan[c] = <<>> /\ DOMAIN chan[c] = {} /\ next_lsn[c] = 0
                       /\ saved[c].confirmed = 0
    BY DEF Init, NoSlot
<1> QED
    BY <1>1, <1>2
       DEF GInv, Covered, Reaches, Logged, Rest, AtRest, WInv, Flow, Elems, Increasing

(* Whatever breaks off, times out, is checkpointed away or restarted, the     *)
(* consumer has every change below the confirmed position of its slot, or a  *)
(* checkpoint removed it; and one stream sends in order (stream_changes,     *)
(* stream_loop).  A checkpoint between a DROP and its undo is left out: it    *)
(* does not count what it takes from a slot it does not see.                *)
THEOREM Faithful ==
    ASSUME ~OverlappingDDL, "append" \notin Faults \/ MaxCheckpoints = 0
    PROVE  Spec => []StreamFaithful
<1> DEFINE Slots == RInv /\ EndsWell /\ PInv /\ CInv
           Gaps == GInv /\ Logged /\ Rest /\ WInv
           All == TInv /\ Slots /\ Gaps
<1>1. Init => All
    BY TInvInit, RInvInit, PInvInit, CInvInit, GapsInit DEF Init, EndsWell
<1>2. All /\ [Next]_vars => All'
    <2> SUFFICES ASSUME All, [Next]_vars PROVE All'
        OBVIOUS
    <2>1. TInv'
        BY TInvStep
    <2>2. Slots'
        BY RInvStep, EndsWellStep, PInvStep, CInvStep
    <2>3. GInv' /\ WInv'
        BY <2>1, GInvStep, WInvStep
    <2>4. Logged' /\ Rest'
        BY LoggedStep, RestStep
    <2> QED
        BY <2>1, <2>2, <2>3, <2>4
<1>3. All => NoGap
    <2> SUFFICES ASSUME All, NEW s \in Names PROVE Covered(s, slots[s].confirmed)
        BY DEF NoGap, Covered, Reaches, Had
    <2> QED
        BY DEF GInv, Mark
<1>4. Spec => []StreamInOrder
    BY InOrder
<1> QED
    BY <1>1, <1>2, <1>3, <1>4, PTL DEF Spec, StreamFaithful


=============================================================================
