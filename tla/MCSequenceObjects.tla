---------------------------- MODULE MCSequenceObjects ----------------------------
(* Instances of SequenceObjects for TLC. *)
EXTENDS SequenceObjects, TLC

(* MAXVALUE 3. *)
Creates == {[NoOpts EXCEPT !.max = Some(3)]}

(* AS smallint INCREMENT BY -1 CYCLE, and NO MAXVALUE RESTART. *)
Alters == {[NoOpts EXCEPT !.type = Some("smallint"), !.increment = Some(-1), !.cycle = Some(TRUE)],
           [NoOpts EXCEPT !.reset_max = TRUE, !.restart_start = TRUE]}

(* MAXVALUE 2, below a position that may have been reached. *)
ShrinkingAlters == {[NoOpts EXCEPT !.max = Some(2)]}

Symm == Permutations(Sessions)
=============================================================================
