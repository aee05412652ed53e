------------------------------- MODULE MCMvcc -------------------------------
(***************************************************************************)
(* Small instances of Mvcc for TLC.                                         *)
(***************************************************************************)
EXTENDS Mvcc, TLC

Sessions == Permutations(Session)
=============================================================================
