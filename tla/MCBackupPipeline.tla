-------------------------- MODULE MCBackupPipeline --------------------------
(* Instances of BackupPipeline for TLC. *)
EXTENDS BackupPipeline, TLC

(* The workers are interchangeable, and so are the files. *)
Symmetry == Permutations(Workers) \cup Permutations(Files)
=============================================================================
