--------------------------- MODULE MCFileObserver --------------------------
(* Instances of FileObserver for TLC. *)
EXTENDS FileObserver
=============================================================================
