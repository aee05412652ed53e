---------------------------- MODULE MCForeignKeys ----------------------------
(* Instances of ForeignKeys for TLC. *)
EXTENDS ForeignKeys, TLC

Fk(d, del, upd) == [initially_deferred |-> d, on_delete |-> del, on_update |-> upd]

\* All that an action does: refuse, remove and move the children, or set them
\* to null; SET CONSTRAINTS turns each mode into the other.
SomeConstraints ==
    {Fk(TRUE, "restrict", "cascade"), Fk(FALSE, "cascade", "set null")}

Symm == Permutations(Sessions)
=============================================================================
