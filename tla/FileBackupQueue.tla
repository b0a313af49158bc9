--------------------------- MODULE FileBackupQueue --------------------------
(***************************************************************************)
(* HotBackup::FileBackupQueue (file_backup_queue.h, file_backup_queue.cpp) *)
(* at the grain of its atomic steps: one load or store of m_shutdown, one  *)
(* acquisition of m_mutex, one container operation, one block or wake-up   *)
(* on m_condVar is one step.  Producers call push_item(), consumers call   *)
(* get_next_item(), and the thread Main calls shutdown().                  *)
(*                                                                         *)
(* The pc of a thread names the call it is in and what it does next;       *)
(* "idle" is a thread that is in no call.                                  *)
(***************************************************************************)
EXTENDS Integers, Sequences, FiniteSets, Functions

CONSTANTS
  Producers,  (* threads that call push_item: the observer's thread        *)
  Consumers,  (* threads that call get_next_item: the backup workers       *)
  Main,       (* the thread that calls shutdown                            *)
  Paths,      (* the paths that are pushed, the empty one possibly too: the *)
              (* callback pushes it when inotify's queue has overflowed    *)
  NoPath,     (* the empty path                                            *)
  NoThread    (* the owner of a free mutex                                 *)

ASSUME ThreadsAssumption ==
  /\ Producers \cap Consumers = {}
  /\ Main \notin Producers \cup Consumers
  /\ NoThread \notin Producers \cup Consumers \cup {Main}

VARIABLES
  m_queue,            (* the order of the queued paths                     *)
  m_uniqueFilePaths,  (* the set that dedupes them                         *)
  m_shutdown,         (* atomic flag, read and written without m_mutex     *)
  m_mutex,            (* the thread that owns the mutex, or NoThread       *)
  pc,                 (* per thread: the step it takes next                *)
  fPath               (* per thread: the local variable fPath, or NoPath   *)

vars == <<m_queue, m_uniqueFilePaths, m_shutdown, m_mutex, pc, fPath>>

Threads == Producers \cup Consumers \cup {Main}

ProducerSteps ==
  {"idle", "push_test", "push_lock", "push_count", "push_enqueue",
   "push_notify"}

ConsumerSteps ==
  {"idle", "get_test", "get_lock", "get_pred", "get_sleep", "get_wait",
   "get_woken", "get_timeout", "get_check", "get_pop", "get_erase", "got"}

MainSteps == {"idle", "shutdown_notify"}

(* The steps a thread takes while it owns m_mutex. *)
CriticalSteps ==
  {"push_count", "push_enqueue",
   "get_pred", "get_sleep", "get_check", "get_pop", "get_erase"}

-----------------------------------------------------------------------------
Step(t, from, to) == pc[t] = from /\ pc' = [pc EXCEPT ![t] = to]

Lock(t)   == m_mutex = NoThread /\ m_mutex' = t
Unlock(t) == m_mutex' = NoThread

SetPath(t, f) == fPath' = [fPath EXCEPT ![t] = f]

Init ==
  /\ m_queue = <<>>
  /\ m_uniqueFilePaths = {}
  /\ m_shutdown = FALSE
  /\ m_mutex = NoThread
  /\ pc = [t \in Threads |-> "idle"]
  /\ fPath = [t \in Threads |-> NoPath]

-----------------------------------------------------------------------------
(* push_item() *)

PushCall(p, f) ==
  /\ Step(p, "idle", "push_test")
  /\ SetPath(p, f)
  /\ UNCHANGED <<m_queue, m_uniqueFilePaths, m_shutdown, m_mutex>>

(* The load of m_shutdown, and is_directory(), whose answer is the file    *)
(* system's; a throw of is_directory() leaves the queue as an early return *)
(* does.                                                                   *)
PushTest(p) ==
  /\ \/ /\ ~m_shutdown
        /\ Step(p, "push_test", "push_lock")
        /\ UNCHANGED fPath
     \/ \* shutting down, or a directory
        /\ Step(p, "push_test", "idle")
        /\ SetPath(p, NoPath)
  /\ UNCHANGED <<m_queue, m_uniqueFilePaths, m_shutdown, m_mutex>>

PushLock(p) ==
  /\ Step(p, "push_lock", "push_count")
  /\ Lock(p)
  /\ UNCHANGED <<m_queue, m_uniqueFilePaths, m_shutdown, fPath>>

PushDuplicateLocked(p) ==
  /\ fPath[p] \in m_uniqueFilePaths
  /\ Step(p, "push_count", "idle")
  /\ SetPath(p, NoPath)
  /\ UNCHANGED <<m_queue, m_uniqueFilePaths, m_shutdown, m_mutex>>

PushDuplicate(p) ==
  /\ fPath[p] \in m_uniqueFilePaths
  /\ Step(p, "push_count", "idle")
  /\ SetPath(p, NoPath)
  /\ Unlock(p)
  /\ UNCHANGED <<m_queue, m_uniqueFilePaths, m_shutdown>>

PushEmplace(p) ==
  /\ fPath[p] \notin m_uniqueFilePaths
  /\ Step(p, "push_count", "push_enqueue")
  /\ m_uniqueFilePaths' = m_uniqueFilePaths \cup {fPath[p]}
  /\ UNCHANGED <<m_queue, m_shutdown, m_mutex, fPath>>

PushEnqueueSilent(p) ==
  /\ Step(p, "push_enqueue", "idle")
  /\ m_queue' = Append(m_queue, fPath[p])
  /\ SetPath(p, NoPath)
  /\ Unlock(p)
  /\ UNCHANGED <<m_uniqueFilePaths, m_shutdown>>

(* m_queue.push(), then the lock leaves its scope. *)
PushEnqueue(p) ==
  /\ Step(p, "push_enqueue", "push_notify")
  /\ m_queue' = Append(m_queue, fPath[p])
  /\ SetPath(p, NoPath)
  /\ Unlock(p)
  /\ UNCHANGED <<m_uniqueFilePaths, m_shutdown>>

(* notify_one() without the mutex: any one of the waiters wakes up. *)
PushNotify(p) ==
  /\ pc[p] = "push_notify"
  /\ LET waiting == {c \in Consumers : pc[c] = "get_wait"}
     IN \/ \E c \in waiting :
             pc' = [pc EXCEPT ![p] = "idle", ![c] = "get_woken"]
        \/ /\ waiting = {}
           /\ pc' = [pc EXCEPT ![p] = "idle"]
  /\ UNCHANGED <<m_queue, m_uniqueFilePaths, m_shutdown, m_mutex, fPath>>

-----------------------------------------------------------------------------
(* get_next_item(timeoutInMs).  The timeout is not a parameter: a waiter   *)
(* may time out at any moment, which covers every value of it, the -1 the  *)
(* workers pass included (it has expired when the wait begins).            *)

GetCall(c) ==
  /\ Step(c, "idle", "get_test")
  /\ UNCHANGED <<m_queue, m_uniqueFilePaths, m_shutdown, m_mutex, fPath>>

GetTest(c) ==
  /\ Step(c, "get_test", IF m_shutdown THEN "idle" ELSE "get_lock")
  /\ UNCHANGED <<m_queue, m_uniqueFilePaths, m_shutdown, m_mutex, fPath>>

GetLock(c) ==
  /\ Step(c, "get_lock", "get_pred")
  /\ Lock(c)
  /\ UNCHANGED <<m_queue, m_uniqueFilePaths, m_shutdown, fPath>>

(* The predicate of wait_for, evaluated with the mutex held. *)
GetPred(c) ==
  /\ Step(c, "get_pred",
          IF m_queue # <<>> \/ m_shutdown THEN "get_check" ELSE "get_sleep")
  /\ UNCHANGED <<m_queue, m_uniqueFilePaths, m_shutdown, m_mutex, fPath>>

(* The condition variable releases the mutex and blocks in one step. *)
GetSleep(c) ==
  /\ Step(c, "get_sleep", "get_wait")
  /\ Unlock(c)
  /\ UNCHANGED <<m_queue, m_uniqueFilePaths, m_shutdown, fPath>>

GetTimeoutNever(c) == pc[c] = "get_wait" /\ FALSE /\ UNCHANGED vars

GetTimeout(c) ==
  /\ Step(c, "get_wait", "get_timeout")
  /\ UNCHANGED <<m_queue, m_uniqueFilePaths, m_shutdown, m_mutex, fPath>>

(* std::condition_variable may return without notification or timeout. *)
GetSpurious(c) ==
  /\ Step(c, "get_wait", "get_woken")
  /\ UNCHANGED <<m_queue, m_uniqueFilePaths, m_shutdown, m_mutex, fPath>>

(* The wait returns with the mutex held.  Woken, it tests the predicate    *)
(* again; after a timeout wait_for returns whatever the predicate says.    *)
GetRelock(c) ==
  /\ \/ Step(c, "get_woken", "get_pred")
     \/ Step(c, "get_timeout", "get_check")
  /\ Lock(c)
  /\ UNCHANGED <<m_queue, m_uniqueFilePaths, m_shutdown, fPath>>

GetNothing(c) ==
  /\ m_shutdown \/ m_queue = <<>>
  /\ Step(c, "get_check", "idle")
  /\ Unlock(c)
  /\ UNCHANGED <<m_queue, m_uniqueFilePaths, m_shutdown, fPath>>

GetSomethingUntested(c) ==
  /\ ~m_shutdown
  /\ Step(c, "get_check", "get_pop")
  /\ UNCHANGED <<m_queue, m_uniqueFilePaths, m_shutdown, m_mutex, fPath>>

GetSomethingClosed(c) ==
  /\ m_queue # <<>>
  /\ Step(c, "get_check", "get_pop")
  /\ UNCHANGED <<m_queue, m_uniqueFilePaths, m_shutdown, m_mutex, fPath>>

GetSomething(c) ==
  /\ ~m_shutdown /\ m_queue # <<>>
  /\ Step(c, "get_check", "get_pop")
  /\ UNCHANGED <<m_queue, m_uniqueFilePaths, m_shutdown, m_mutex, fPath>>

GetPop(c) ==
  /\ Step(c, "get_pop", "get_erase")
  /\ SetPath(c, Head(m_queue))
  /\ m_queue' = Tail(m_queue)
  /\ UNCHANGED <<m_uniqueFilePaths, m_shutdown, m_mutex>>

GetEraseForgotten(c) ==
  /\ Step(c, "get_erase", "got")
  /\ Unlock(c)
  /\ UNCHANGED <<m_queue, m_uniqueFilePaths, m_shutdown, fPath>>

(* The path leaves the dedupe set, the lock its scope, and the call        *)
(* returns: from here the same path can be queued again.                   *)
GetErase(c) ==
  /\ Step(c, "get_erase", "got")
  /\ m_uniqueFilePaths' = m_uniqueFilePaths \ {fPath[c]}
  /\ Unlock(c)
  /\ UNCHANGED <<m_queue, m_shutdown, fPath>>

(* The caller has dealt with the path it was given. *)
GotDone(c) ==
  /\ Step(c, "got", "idle")
  /\ SetPath(c, NoPath)
  /\ UNCHANGED <<m_queue, m_uniqueFilePaths, m_shutdown, m_mutex>>

-----------------------------------------------------------------------------
(* shutdown(), which the destructor calls again: neither the store nor     *)
(* notify_all() takes the mutex.                                           *)

ShutdownStore ==
  /\ Step(Main, "idle", "shutdown_notify")
  /\ m_shutdown' = TRUE
  /\ UNCHANGED <<m_queue, m_uniqueFilePaths, m_mutex, fPath>>

ShutdownNotifyAll ==
  /\ pc[Main] = "shutdown_notify"
  /\ pc' = [t \in Threads |->
              CASE t = Main           -> "idle"
                [] pc[t] = "get_wait" -> "get_woken"
                [] OTHER              -> pc[t]]
  /\ UNCHANGED <<m_queue, m_uniqueFilePaths, m_shutdown, m_mutex, fPath>>

-----------------------------------------------------------------------------
(* The steps of a producer and of a consumer within a call. *)
PushSteps(p) ==
  \/ PushTest(p) \/ PushDuplicate(p) \/ PushEmplace(p) \/ PushEnqueue(p)
  \/ PushNotify(p)

GetSteps(c) ==
  \/ GetTest(c) \/ GetPred(c) \/ GetSleep(c) \/ GetTimeout(c)
  \/ GetNothing(c) \/ GetSomething(c) \/ GetPop(c) \/ GetErase(c)

Next ==
  \/ \E p \in Producers :
       \/ \E f \in Paths : PushCall(p, f)
       \/ PushLock(p) \/ PushSteps(p)
  \/ \E c \in Consumers :
       \/ GetCall(c) \/ GetLock(c) \/ GetRelock(c) \/ GetSteps(c)
       \/ GetSpurious(c) \/ GotDone(c)
  \/ ShutdownStore \/ ShutdownNotifyAll

SafeSpec == Init /\ [][Next]_vars

(* Every thread keeps running its calls, a wait ends by its timeout, and a *)
(* thread that finds the mutex free again and again acquires it at last.   *)
(* Producers need not push and nobody need shut the queue down; consumers  *)
(* call again, as the workers' loop does.                                  *)
Fairness ==
  /\ \A p \in Producers : WF_vars(PushSteps(p)) /\ SF_vars(PushLock(p))
  /\ \A c \in Consumers :
       /\ WF_vars(GetSteps(c)) /\ WF_vars(GetCall(c)) /\ WF_vars(GotDone(c))
       /\ SF_vars(GetLock(c)) /\ SF_vars(GetRelock(c))
  /\ WF_vars(ShutdownNotifyAll)

Spec == SafeSpec /\ Fairness

-----------------------------------------------------------------------------
(* Invariants *)

(* Every variable has the values its C++ counterpart can hold, and front() *)
(* and pop() are not called when the queue is empty: consumers may wake up *)
(* for a path that another takes, and the wait of a worker has timed out   *)
(* before it begins. *)
TypeOK ==
  /\ m_queue \in Seq(Paths)
  /\ m_uniqueFilePaths \subseteq Paths
  /\ m_shutdown \in BOOLEAN
  /\ m_mutex \in Threads \cup {NoThread}
  /\ pc \in [Threads -> ProducerSteps \cup ConsumerSteps \cup MainSteps]
  /\ \A p \in Producers : pc[p] \in ProducerSteps
  /\ \A c \in Consumers : pc[c] \in ConsumerSteps
  /\ \A c \in Consumers : pc[c] = "get_pop" => m_queue # <<>>
  /\ pc[Main] \in MainSteps
  /\ fPath \in [Threads -> Paths \cup {NoPath}]

(* The paths between the two containers: emplaced but not yet queued, or   *)
(* popped but not yet erased. *)
InTransit ==
  {fPath[t] : t \in {u \in Threads : pc[u] \in {"push_enqueue", "get_erase"}}}

(* push_item and get_next_item keep the two containers in step: the set    *)
(* holds exactly the queued paths, up to the one path a thread is moving,  *)
(* and no path is queued twice.  A path left behind in the set would never *)
(* be backed up again, one missing from it would be queued twice.          *)
ContainersAgree ==
  /\ IsInjective(m_queue)
  /\ m_uniqueFilePaths = Range(m_queue) \cup InTransit

(* Consumers that are inside a call and will look at the queue before they *)
(* sleep. *)
Awake ==
  {c \in Consumers :
     pc[c] \in {"get_lock", "get_pred", "get_woken", "get_timeout",
                "get_check", "get_pop"}}

Asleep == {c \in Consumers : pc[c] = "get_wait"}

(* push_item notifies one waiter per path, after it has released the       *)
(* mutex, and no notification is lost: while a consumer sleeps, every      *)
(* queued path has a consumer of its own that is awake or a notify_one()   *)
(* still to come.  (After a shutdown the awake consumers leave.)           *)
NoLostWakeup ==
  Asleep # {} /\ ~m_shutdown =>
    Len(m_queue) <= Cardinality(Awake)
                      + Cardinality({p \in Producers : pc[p] = "push_notify"})

-----------------------------------------------------------------------------
(* The abstract queue.  A path counts as taken once the test of            *)
(* get_next_item's last guard has passed: no other thread can see the      *)
(* queue before pop() follows, but a shutdown() may come in between.       *)

Popping == {c \in Consumers : pc[c] = "get_pop"}

abstractItems == IF Popping = {} THEN m_queue ELSE Tail(m_queue)

abstractGot ==
  [c \in Consumers |-> IF c \in Popping THEN Head(m_queue) ELSE fPath[c]]

Abstract == INSTANCE DedupQueue WITH
  items <- abstractItems, got <- abstractGot, closed <- m_shutdown

(* push_item, get_next_item and shutdown implement a FIFO of distinct      *)
(* paths that hands out each accepted path to one consumer, in order, and  *)
(* none to a consumer whose last test of m_shutdown came after shutdown(). *)
ImplementsDedupQueue == Abstract!Spec

-----------------------------------------------------------------------------
(* Liveness *)

(* The workers empty the queue: a queued path is handed out, unless the    *)
(* queue is shut down. *)
QueuedIsTaken ==
  \A f \in Paths : f \in Range(m_queue) ~> (f \notin Range(m_queue) \/ m_shutdown)

(* After shutdown() no consumer stays in get_next_item, although the store *)
(* of m_shutdown may fall between a consumer's test of the predicate and   *)
(* its block, where notify_all() does not reach it: its timeout does.      *)
ShutdownFreesConsumers ==
  \A c \in Consumers : m_shutdown ~> pc[c] \in {"idle", "got"}

=============================================================================
