-------------------------- MODULE MCFileBackupQueue -------------------------
(* Instances of FileBackupQueue for TLC. *)
EXTENDS FileBackupQueue

============================================================================
