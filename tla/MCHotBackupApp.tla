--------------------------- MODULE MCHotBackupApp --------------------------
(* Instances of HotBackupApp for TLC. *)
EXTENDS HotBackupApp
=============================================================================
