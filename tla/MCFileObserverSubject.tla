------------------------ MODULE MCFileObserverSubject ----------------------
(* Instances of FileObserverSubject for TLC. *)
EXTENDS FileObserverSubject
=============================================================================
