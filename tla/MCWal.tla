-------------------------------- MODULE MCWal --------------------------------
(***************************************************************************)
(* Small instances of Wal for TLC.                                          *)
(***************************************************************************)
EXTENDS Wal
=============================================================================
