------------------------- MODULE MCFileDeleterPlugin -----------------------
(* Instances of FileDeleterPlugin for TLC. *)
EXTENDS FileDeleterPlugin
=============================================================================
