--------------------------- MODULE MCBackupManager --------------------------
(* Instances of BackupManager for TLC. *)
EXTENDS BackupManager, TLC
=============================================================================
