------------------------- MODULE FileDeleterPlugin -------------------------
(***************************************************************************)
(* BackupManagement::FileDeleterPlugin: deletions that are scheduled for a *)
(* timestamp.  execute() starts a thread per deletion and keeps its future *)
(* in a vector; the thread waits on a condition variable until the         *)
(* timestamp comes or shutdown() wakes it.  BackupPipeline.tla has the     *)
(* deletions that are executed at once.                                    *)
(*                                                                         *)
(* Time is the number of ticks that a deletion has left until its time,    *)
(* not a clock; times that have passed are 0.  A timestamp is local time,  *)
(* as users write it and the code reads it, although it ends in Z.         *)
(***************************************************************************)
EXTENDS Integers, Sequences

CONSTANTS
  Workers,     (* threads that call execute                                *)
  Deletions,   (* the scheduled deletions, with the threads that run them  *)
  NoDeletion,  (* a future without state                                   *)
  NoThread,    (* the owner of a free mutex                                *)
  MaxDelay,    (* the bound on the ticks until a timestamp                 *)
  Millisecond, (* the ticks, of the clock's resolution, in a millisecond   *)
  SummerHour,  (* the ticks by which summer time is ahead                  *)
  Horizon      (* the first number of ticks, about 292 years, that is too  *)
               (* long for a duration: nanoseconds in 64 bits              *)

ASSUME DeleterAssumption ==
  /\ NoDeletion \notin Deletions
  /\ NoThread \notin Deletions
  /\ MaxDelay \in Nat /\ SummerHour \in Nat
  /\ Millisecond \in Nat \ {0} /\ Horizon \in Nat \ {0}

VARIABLES
  m_shutdown,  (* atomic flag, read and written without the mutex          *)
  m_mutex,     (* m_scheduledDeletionThreadsMutex: its owner, or NoThread  *)
  m_futures,   (* m_scheduledDeletionFutures: the memory of the vector     *)
  m_size,      (* and its size                                             *)
  workerPc,    (* per worker: its next step in schedule_files_for_deletion *)
  scheduled,   (* per worker: the deletion it is scheduling                *)
  slot,        (* per worker: the size that its push_back has read         *)
  raced,       (* history: the deletions whose push_back overlapped another*)
  mainPc,      (* the next step of the thread that destroys the plugin     *)
  waiting,     (* the index of the future that shutdown() waits for        *)
  pc,          (* per deletion: the next step of its thread                *)
  due,         (* per deletion: the ticks left until its timestamp         *)
  remaining,   (* per deletion: the ticks left of its wait                 *)
  deleted,     (* per deletion: the files it has come to                   *)
  overflowed   (* history: the deletions whose time to wait was too long   *)

workerVars == <<m_futures, m_size, workerPc, scheduled, slot, raced>>
mainVars   == <<mainPc, waiting>>
timeVars   == <<due, remaining, overflowed>>
vars == <<m_shutdown, m_mutex, workerVars, mainVars, pc, timeVars, deleted>>

DeletionSteps ==
  {"none", "deferred", "log", "lock", "pred", "sleep", "wait", "woken",
   "timeout", "check", "delete_source", "delete_backup", "log_deleted",
   "done"}

MainSteps ==
  {"working", "shutdown_store", "shutdown_notify", "shutdown_wait",
   "destroyed", "thrown"}

(* The steps that a deletion takes while it owns the mutex. *)
CriticalSteps ==
  {"pred", "sleep", "check", "delete_source", "delete_backup", "log_deleted"}

Started == {d \in Deletions : pc[d] # "none"}

-----------------------------------------------------------------------------
Step(d, from, to) == pc[d] = from /\ pc' = [pc EXCEPT ![d] = to]

WorkerStep(w, from, to) ==
  workerPc[w] = from /\ workerPc' = [workerPc EXCEPT ![w] = to]

MainStep(from, to) == mainPc = from /\ mainPc' = to

Lock(d) == m_mutex = NoThread /\ m_mutex' = d
Unlock  == m_mutex' = NoThread

Init ==
  /\ m_shutdown = FALSE
  /\ m_mutex = NoThread
  /\ m_futures = <<>>
  /\ m_size = 0
  /\ workerPc = [w \in Workers |-> "idle"]
  /\ scheduled = [w \in Workers |-> NoDeletion]
  /\ slot = [w \in Workers |-> 0]
  /\ raced = {}
  /\ mainPc = "working"
  /\ waiting = 1
  /\ pc = [d \in Deletions |-> "none"]
  /\ due = [d \in Deletions |-> 0]
  /\ remaining = [d \in Deletions |-> 0]
  /\ deleted = [d \in Deletions |-> {}]
  /\ overflowed = {}

-----------------------------------------------------------------------------
(* execute() for a name with a timestamp.  std::async(), without a launch  *)
(* policy, starts a thread or, as when the system has none left, defers    *)
(* the call to the wait() for its future.                                  *)
Schedule(w, d) ==
  /\ mainPc = "working"
  /\ WorkerStep(w, "idle", "push_read")
  /\ scheduled' = [scheduled EXCEPT ![w] = d]
  /\ Step(d, "none", "log") \/ Step(d, "none", "deferred")
  /\ \E delay \in 0 .. MaxDelay : due' = [due EXCEPT ![d] = delay]
  /\ UNCHANGED <<m_shutdown, m_mutex, m_futures, m_size, slot, raced, mainVars,
                 remaining, overflowed, deleted>>

(* The workers within push_back(). *)
Pushing == {v \in Workers : workerPc[v] = "push_write"}

(* push_back() reads the end of the vector, constructs an element there    *)
(* and moves the end, all without a lock. *)
PushRead(w) ==
  /\ WorkerStep(w, "push_read", "push_write")
  /\ slot' = [slot EXCEPT ![w] = m_size]
  /\ raced' = raced \cup
       IF Pushing = {} THEN {} ELSE {scheduled[v] : v \in Pushing \cup {w}}
  /\ UNCHANGED <<m_shutdown, m_mutex, m_futures, m_size, scheduled, mainVars,
                 pc, timeVars, deleted>>

(* The vector after d was constructed at index n + 1, with room for size.  *)
Constructed(n, d, size) ==
  LET memory == IF n < Len(m_futures) THEN [m_futures EXCEPT ![n + 1] = d]
                                      ELSE Append(m_futures, d)
  IN IF size <= Len(memory) THEN memory ELSE Append(memory, NoDeletion)

PushWriteUnconstructed(w) ==
  /\ WorkerStep(w, "push_write", "idle")
  /\ \E size \in {slot[w] + 1, m_size + 1} : m_size' = size
  /\ scheduled' = [scheduled EXCEPT ![w] = NoDeletion]
  /\ slot' = [slot EXCEPT ![w] = 0]
  /\ UNCHANGED <<m_shutdown, m_mutex, m_futures, raced, mainVars, pc, timeVars,
                 deleted>>

(* Where another push_back() came between, the two construct their element *)
(* in one place, and the end moves from what was read before or from what  *)
(* the other one has stored: a future is lost, and the last may be none.   *)
PushWrite(w) ==
  /\ WorkerStep(w, "push_write", "idle")
  /\ \E size \in {slot[w] + 1, m_size + 1} :
       /\ m_size' = size
       /\ m_futures' = Constructed(slot[w], scheduled[w], size)
  /\ scheduled' = [scheduled EXCEPT ![w] = NoDeletion]
  /\ slot' = [slot EXCEPT ![w] = 0]
  /\ UNCHANGED <<m_shutdown, m_mutex, raced, mainVars, pc, timeVars, deleted>>

-----------------------------------------------------------------------------
(* The thread of a deletion *)

(* get_waiting_time_before_deletion().  mktime(), with tm_isdst = 0, reads *)
(* the timestamp as standard time, and so comes out late if summer time is *)
(* in effect then.  The difference to now is taken in nanoseconds: of a    *)
(* time too far ahead, or too long ago, the overflow makes anything.       *)
(* duration_cast() drops what is left beyond whole milliseconds.           *)
TimeToWait(d) ==
  \E shift \in {0, SummerHour} :
    LET left == due[d] + shift
    IN \/ /\ left < Horizon
          /\ remaining' = [remaining EXCEPT ![d] = left - (left % Millisecond)]
          /\ UNCHANGED overflowed
       \/ /\ left >= Horizon \/ due[d] = 0
          /\ \E any \in 0 .. Horizon - 1 :
               remaining' = [remaining EXCEPT ![d] = any]
          /\ overflowed' = overflowed \cup {d}

(* The thread logs, and computes the time to wait. *)
DeletionStarts(d) ==
  /\ Step(d, "log", "lock")
  /\ TimeToWait(d)
  /\ UNCHANGED <<m_shutdown, m_mutex, workerVars, mainVars, due, deleted>>

DeletionLock(d) ==
  /\ Step(d, "lock", "pred")
  /\ Lock(d)
  /\ UNCHANGED <<m_shutdown, workerVars, mainVars, timeVars, deleted>>

DeletionPredUntested(d) ==
  /\ Step(d, "pred", "sleep")
  /\ UNCHANGED <<m_shutdown, m_mutex, workerVars, mainVars, timeVars, deleted>>

(* The predicate of wait_for, evaluated with the mutex held. *)
DeletionPred(d) ==
  /\ Step(d, "pred", IF m_shutdown THEN "check" ELSE "sleep")
  /\ UNCHANGED <<m_shutdown, m_mutex, workerVars, mainVars, timeVars, deleted>>

(* The condition variable releases the mutex and blocks in one step. *)
DeletionSleep(d) ==
  /\ Step(d, "sleep", "wait")
  /\ Unlock
  /\ UNCHANGED <<m_shutdown, workerVars, mainVars, timeVars, deleted>>

DeletionTimeout(d) ==
  /\ remaining[d] = 0
  /\ Step(d, "wait", "timeout")
  /\ UNCHANGED <<m_shutdown, m_mutex, workerVars, mainVars, timeVars, deleted>>

(* std::condition_variable may return without notification or timeout; at  *)
(* the deadline, every return is a timeout. *)
DeletionSpurious(d) ==
  /\ remaining[d] > 0
  /\ Step(d, "wait", "woken")
  /\ UNCHANGED <<m_shutdown, m_mutex, workerVars, mainVars, timeVars, deleted>>

DeletionRelockUntested(d) ==
  /\ \/ Step(d, "woken", "check")
     \/ Step(d, "timeout", "check")
  /\ Lock(d)
  /\ UNCHANGED <<m_shutdown, workerVars, mainVars, timeVars, deleted>>

(* Woken, the wait tests the predicate again; after a timeout it returns. *)
DeletionRelock(d) ==
  /\ \/ Step(d, "woken", "pred")
     \/ Step(d, "timeout", "check")
  /\ Lock(d)
  /\ UNCHANGED <<m_shutdown, workerVars, mainVars, timeVars, deleted>>

DeletionGivesUp(d) ==
  /\ m_shutdown
  /\ Step(d, "check", "done")
  /\ Unlock
  /\ UNCHANGED <<m_shutdown, workerVars, mainVars, timeVars, deleted>>

DeletionProceeds(d) ==
  /\ ~m_shutdown
  /\ Step(d, "check", "delete_source")
  /\ UNCHANGED <<m_shutdown, m_mutex, workerVars, mainVars, timeVars, deleted>>

(* delete_file() of the two names; whether they exist does not matter. *)
DeletionDeletes(d) ==
  /\ \/ /\ Step(d, "delete_source", "delete_backup")
        /\ deleted' = [deleted EXCEPT ![d] = @ \cup {"source"}]
     \/ /\ Step(d, "delete_backup", "log_deleted")
        /\ deleted' = [deleted EXCEPT ![d] = @ \cup {"backup"}]
  /\ UNCHANGED <<m_shutdown, m_mutex, workerVars, mainVars, timeVars>>

DeletionThrowsLocked(d) ==
  /\ pc[d] \in {"delete_source", "delete_backup"}
  /\ pc' = [pc EXCEPT ![d] = "done"]
  /\ UNCHANGED <<m_shutdown, m_mutex, workerVars, mainVars, timeVars, deleted>>

(* std::filesystem::remove() throws: the exception ends in the future.     *)
DeletionThrows(d) ==
  /\ pc[d] \in {"delete_source", "delete_backup"}
  /\ pc' = [pc EXCEPT ![d] = "done"]
  /\ Unlock
  /\ UNCHANGED <<m_shutdown, workerVars, mainVars, timeVars, deleted>>

DeletionEnds(d) ==
  /\ Step(d, "log_deleted", "done")
  /\ Unlock
  /\ UNCHANGED <<m_shutdown, workerVars, mainVars, timeVars, deleted>>

-----------------------------------------------------------------------------
(* The destructor runs when the workers have been joined. *)
DestructorCalls ==
  /\ \A w \in Workers : workerPc[w] = "idle"
  /\ MainStep("working", "shutdown_store")
  /\ UNCHANGED <<m_shutdown, m_mutex, workerVars, waiting, pc, timeVars, deleted>>

(* shutdown(): neither the store nor notify_all() takes the mutex. *)
ShutdownStoreLocked ==
  /\ MainStep("shutdown_store", "shutdown_notify")
  /\ m_mutex = NoThread /\ m_mutex' = "main"
  /\ m_shutdown' = TRUE
  /\ UNCHANGED <<workerVars, waiting, pc, timeVars, deleted>>

ShutdownStore ==
  /\ MainStep("shutdown_store", "shutdown_notify")
  /\ m_shutdown' = TRUE
  /\ UNCHANGED <<m_mutex, workerVars, waiting, pc, timeVars, deleted>>

ShutdownNotifyAll ==
  /\ MainStep("shutdown_notify", "shutdown_wait")
  /\ pc' = [d \in Deletions |-> IF pc[d] = "wait" THEN "woken" ELSE pc[d]]
  /\ UNCHANGED <<m_shutdown, m_mutex, workerVars, waiting, timeVars, deleted>>

(* wait() for the next future: it runs a deferred call, throws when there  *)
(* is no shared state, and otherwise returns when the thread has ended.    *)
ShutdownWait ==
  /\ mainPc = "shutdown_wait" /\ waiting <= m_size
  /\ LET d == m_futures[waiting]
     IN \/ d = NoDeletion /\ mainPc' = "thrown" /\ UNCHANGED <<pc, waiting>>
        \/ /\ d # NoDeletion
           /\ Step(d, "deferred", "log")
           /\ UNCHANGED mainVars
        \/ /\ d # NoDeletion /\ pc[d] = "done"
           /\ waiting' = waiting + 1
           /\ UNCHANGED <<mainPc, pc>>
  /\ UNCHANGED <<m_shutdown, m_mutex, workerVars, timeVars, deleted>>

ShutdownReturnsEarly ==
  /\ waiting >= m_size
  /\ MainStep("shutdown_wait", "destroyed")
  /\ UNCHANGED <<m_shutdown, m_mutex, workerVars, waiting, pc, timeVars, deleted>>

ShutdownReturns ==
  /\ waiting > m_size
  /\ MainStep("shutdown_wait", "destroyed")
  /\ UNCHANGED <<m_shutdown, m_mutex, workerVars, waiting, pc, timeVars, deleted>>

-----------------------------------------------------------------------------
(* wait_for has fixed its deadline when it begins, with the mutex held. *)
Timed(d) == remaining[d] > 0 /\ pc[d] \in {"pred", "sleep", "wait", "woken"}

TickDeadlines ==
  remaining' =
    [d \in Deletions |-> IF Timed(d) THEN remaining[d] - 1 ELSE remaining[d]]

(* Time passes, for the timestamps and for the waits that have begun. *)
Tick ==
  /\ \E d \in Deletions : due[d] > 0 \/ Timed(d)
  /\ due' = [d \in Deletions |-> IF due[d] > 0 THEN due[d] - 1 ELSE 0]
  /\ TickDeadlines
  /\ UNCHANGED <<m_shutdown, m_mutex, workerVars, mainVars, pc, deleted,
                 overflowed>>

(* The steps that a deletion's thread takes unless it is blocked. *)
DeletionRuns(d) ==
  \/ DeletionStarts(d) \/ DeletionPred(d) \/ DeletionSleep(d)
  \/ DeletionGivesUp(d) \/ DeletionProceeds(d) \/ DeletionDeletes(d)
  \/ DeletionEnds(d)

MainRuns ==
  \/ ShutdownStore \/ ShutdownNotifyAll \/ ShutdownWait \/ ShutdownReturns

Next ==
  \/ \E w \in Workers :
       (\E d \in Deletions : Schedule(w, d)) \/ PushRead(w) \/ PushWrite(w)
  \/ \E d \in Deletions :
       \/ DeletionRuns(d) \/ DeletionLock(d) \/ DeletionRelock(d)
       \/ DeletionTimeout(d) \/ DeletionSpurious(d) \/ DeletionThrows(d)
  \/ DestructorCalls \/ MainRuns
  \/ Tick

SafeSpec == Init /\ [][Next]_vars

(* Threads keep running, a mutex that is free again and again is acquired, *)
(* a wait that is past its deadline ends, and time passes.  Nobody need    *)
(* schedule, fail, or destroy the plugin.                                  *)
Fairness ==
  /\ \A w \in Workers : WF_vars(PushRead(w) \/ PushWrite(w))
  /\ \A d \in Deletions :
       /\ WF_vars(DeletionRuns(d)) /\ WF_vars(DeletionTimeout(d))
       /\ SF_vars(DeletionLock(d) \/ DeletionRelock(d))
  /\ WF_vars(MainRuns) /\ WF_vars(Tick)

Spec == SafeSpec /\ Fairness

-----------------------------------------------------------------------------
(* Every variable has the values its C++ counterpart can hold. *)
TypeOK ==
  /\ m_shutdown \in BOOLEAN
  /\ m_mutex \in Deletions \cup {NoThread}
  /\ m_futures \in Seq(Deletions \cup {NoDeletion})
  /\ m_size \in 0 .. Len(m_futures)
  /\ workerPc \in [Workers -> {"idle", "push_read", "push_write"}]
  /\ scheduled \in [Workers -> Deletions \cup {NoDeletion}]
  /\ slot \in [Workers -> 0 .. Len(m_futures)]
  /\ raced \subseteq Deletions \cup {NoDeletion}
  /\ mainPc \in MainSteps
  /\ waiting \in Nat \ {0}
  /\ pc \in [Deletions -> DeletionSteps]
  /\ due \in [Deletions -> 0 .. MaxDelay]
  /\ remaining \in [Deletions -> 0 .. Horizon - 1]
  /\ deleted \in [Deletions -> SUBSET {"source", "backup"}]
  /\ overflowed \subseteq Deletions

(* The wait of schedule_files_for_deletion, which may end by a spurious    *)
(* wake-up or begin late because another deletion holds the mutex, ends    *)
(* with a deletion only less than a millisecond before the timestamp or    *)
(* later, provided that its distance can be represented. *)
NeverEarly ==
  \A d \in Deletions \ overflowed : deleted[d] # {} => due[d] < Millisecond

(* What is waited for is the time that is left until the local time of the *)
(* timestamp, whenever that is, in milliseconds, if it can be represented. *)
WaitIsTimeLeft ==
  [][\A d \in Deletions :
       DeletionStarts(d) /\ d \notin overflowed' =>
         remaining'[d] <= due[d] /\ due[d] < remaining'[d] + Millisecond]_vars

(* When the destructor's shutdown() returns, no deletion thread is left    *)
(* that would use the destroyed plugin, except one whose push_back()       *)
(* overlapped another: shutdown() waits for every other one, although      *)
(* overlapping calls may have overwritten futures and moved the end back.  *)
(* It throws, for a future without state, only after such an overlap.      *)
ShutdownJoinsDeletions ==
  /\ mainPc = "destroyed" => \A d \in Started \ raced : pc[d] = "done"
  /\ mainPc = "thrown" => raced # {}

(* notify_all() does not take the mutex, and so misses a deletion that has *)
(* found no shutdown and is about to wait; it misses no more than this one,*)
(* and neither a spurious wake-up nor a deletion that shutdown() itself    *)
(* runs makes another wait: one timestamp at most delays the shutdown.     *)
AtMostOneMisses ==
  mainPc \in {"shutdown_wait", "thrown", "destroyed"} =>
    \A d, e \in Deletions : pc[d] = "wait" /\ pc[e] = "wait" => d = e

(* A deletion on a thread of its own ends, by deleting its files at its    *)
(* time, by an error, or by shutdown(); one deletion that fails or is late *)
(* does not block the others. *)
DueIsServed == \A d \in Deletions : pc[d] = "log" ~> pc[d] = "done"

(* shutdown() returns, at the latest when the last timestamp has come, or  *)
(* throws: wait() does for a future without state, which an overlap of two *)
(* calls of push_back() may leave in the vector.  Out of a destructor that *)
(* ends the program. *)
ShutdownTerminates ==
  mainPc = "shutdown_store" ~> mainPc \in {"destroyed", "thrown"}

(* The wait is interruptible by a shutdown request: after notify_all() no  *)
(* deletion waits for its timestamp. *)
InterruptibleByShutdown ==
  mainPc = "shutdown_wait" => \A d \in Deletions : pc[d] # "wait"

=============================================================================
