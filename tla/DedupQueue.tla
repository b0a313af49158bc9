----------------------------- MODULE DedupQueue -----------------------------
(***************************************************************************)
(* What the file backup queue promises its users, without threads, locks   *)
(* or condition variables: a FIFO of distinct paths which any number of    *)
(* producers fill and any number of consumers empty, and which hands out   *)
(* nothing once it is closed.                                              *)
(*                                                                         *)
(* FileBackupQueue.tla is shown to implement this specification, and       *)
(* BackupPipeline.tla uses its operations in place of the queue's code.    *)
(***************************************************************************)
EXTENDS Sequences, Functions

CONSTANTS
  Paths,      (* the paths that may be queued, the empty one possibly too  *)
  Consumers,  (* the threads that take paths out                           *)
  NoPath      (* the empty path, which get_next_item() returns for nothing *)

VARIABLES
  items,      (* the queued paths, oldest first                            *)
  got,        (* the path each consumer holds, NoPath when it holds none   *)
              (* or was given the empty one                                *)
  closed      (* whether shutdown() has been called                        *)

abstractVars == <<items, got, closed>>

-----------------------------------------------------------------------------
(* push_item(): a path that is already queued keeps its place. *)
Pushed(queue, f) == IF f \in Range(queue) THEN queue ELSE Append(queue, f)

-----------------------------------------------------------------------------
Init ==
  /\ items = <<>>
  /\ got = [c \in Consumers |-> NoPath]
  /\ closed = FALSE

(* A producer that passed the test of m_shutdown may still queue its path  *)
(* after the queue is closed, so closed is no guard here.                  *)
Push(f) ==
  /\ f \notin Range(items)
  /\ items' = Pushed(items, f)
  /\ UNCHANGED <<got, closed>>

Take(c) ==
  /\ ~closed
  /\ items # <<>>
  /\ got[c] = NoPath
  /\ got' = [got EXCEPT ![c] = Head(items)]
  /\ items' = Tail(items)
  /\ UNCHANGED closed

(* The consumer is done with its path. *)
Release(c) ==
  /\ got' = [got EXCEPT ![c] = NoPath]
  /\ UNCHANGED <<items, closed>>

Close ==
  /\ closed' = TRUE
  /\ UNCHANGED <<items, got>>

Next ==
  \/ \E f \in Paths : Push(f)
  \/ \E c \in Consumers : Take(c) \/ Release(c)
  \/ Close

Spec == Init /\ [][Next]_abstractVars

=============================================================================
