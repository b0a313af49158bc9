----------------------- MODULE FileBackupQueueWakeup -----------------------
(***************************************************************************)
(* Proof that FileBackupQueue loses no notification, for every finite      *)
(* number of producers and consumers.                                      *)
(***************************************************************************)
EXTENDS FileBackupQueueProofs, FiniteSetTheorems

(* The producers that have queued a path and are about to notify. *)
Notifying == {p \in Producers : pc[p] = "push_notify"}

(* A consumer that is about to block has found the queue empty, and keeps  *)
(* it empty by holding the mutex. *)
SleepInv == \A c \in Consumers : pc[c] = "get_sleep" => m_queue = <<>>

WakeInv == SleepInv /\ NoLostWakeup

-----------------------------------------------------------------------------
LEMMA CountsAreNat ==
  ASSUME IsFiniteSet(Producers), IsFiniteSet(Consumers)
  PROVE  /\ IsFiniteSet(Awake) /\ Cardinality(Awake) \in Nat
         /\ IsFiniteSet(Notifying) /\ Cardinality(Notifying) \in Nat
  <1>1. Awake \in SUBSET Consumers /\ Notifying \in SUBSET Producers
    BY DEF Awake, Notifying
  <1>2. QED
    BY <1>1, FS_Subset, FS_CardinalityType

(* A queue that is empty needs nobody. *)
LEMMA EmptyQueue ==
  ASSUME IsFiniteSet(Producers), IsFiniteSet(Consumers), m_queue' = <<>>
  PROVE  NoLostWakeup'
  <1>1. Awake' \in SUBSET Consumers /\ Notifying' \in SUBSET Producers
    BY DEF Awake, Notifying
  <1>2. Cardinality(Awake') \in Nat /\ Cardinality(Notifying') \in Nat
    BY <1>1, FS_Subset, FS_CardinalityType
  <1>3. Len(m_queue') = 0
    OBVIOUS
  <1>4. QED
    BY <1>2, <1>3 DEF NoLostWakeup, Notifying

(* Steps that leave the queue alone, put nobody to sleep, and take nobody  *)
(* from those that look at the queue or will notify. *)
LEMMA WakeFrame ==
  ASSUME IsFiniteSet(Producers), IsFiniteSet(Consumers), TypeOK, NoLostWakeup,
         m_queue' = m_queue, m_shutdown => m_shutdown',
         Asleep' \subseteq Asleep, Awake \subseteq Awake',
         Notifying \subseteq Notifying'
  PROVE  NoLostWakeup'
  <1>1. /\ IsFiniteSet(Awake) /\ Cardinality(Awake) \in Nat
        /\ IsFiniteSet(Notifying) /\ Cardinality(Notifying) \in Nat
    BY CountsAreNat
  <1>2. /\ IsFiniteSet(Awake') /\ Cardinality(Awake') \in Nat
        /\ IsFiniteSet(Notifying') /\ Cardinality(Notifying') \in Nat
    <2>1. Awake' \in SUBSET Consumers /\ Notifying' \in SUBSET Producers
      BY DEF Awake, Notifying
    <2>2. QED
      BY <2>1, FS_Subset, FS_CardinalityType
  <1>3. Cardinality(Awake) <= Cardinality(Awake')
    BY <1>2, FS_Subset
  <1>4. Cardinality(Notifying) <= Cardinality(Notifying')
    BY <1>2, FS_Subset
  <1>5. SUFFICES ASSUME Asleep' # {}, ~m_shutdown'
                 PROVE  Len(m_queue') <= Cardinality(Awake')
                                           + Cardinality(Notifying')
    BY DEF NoLostWakeup, Notifying
  <1>6. Len(m_queue) <= Cardinality(Awake) + Cardinality(Notifying)
    BY <1>5 DEF NoLostWakeup, Notifying
  <1>7. Len(m_queue) \in Nat
    BY DEF TypeOK
  <1>8. QED
    BY <1>1, <1>2, <1>3, <1>4, <1>6, <1>7

(* Steps of consumers that change nothing but the consumer's place, and    *)
(* that neither begin to wait nor give up looking at the queue. *)
LEMMA ConsumerFrame ==
  ASSUME IsFiniteSet(Producers), IsFiniteSet(Consumers), TypeOK, WakeInv,
         NEW c \in Consumers, NEW to \in ConsumerSteps \ {"get_sleep", "get_wait"},
         pc' = [pc EXCEPT ![c] = to], c \in Awake => c \in Awake',
         UNCHANGED <<m_queue, m_shutdown>>
  PROVE  WakeInv'
  <1> USE ThreadsAssumption
  <1>1. /\ Asleep' \subseteq Asleep /\ Awake \subseteq Awake'
        /\ Notifying \subseteq Notifying'
    BY DEF Asleep, Awake, Notifying, TypeOK, Threads
  <1>2. SleepInv'
    BY DEF WakeInv, SleepInv, TypeOK, Threads
  <1>3. QED
    BY <1>1, <1>2, WakeFrame DEF WakeInv

(* Steps of producers up to the queueing: they move neither the consumers  *)
(* nor the queue. *)
LEMMA ProducerFrame ==
  ASSUME IsFiniteSet(Producers), IsFiniteSet(Consumers), TypeOK, WakeInv,
         NEW p \in Producers, NEW to \in ProducerSteps,
         pc' = [pc EXCEPT ![p] = to], pc[p] # "push_notify",
         UNCHANGED <<m_queue, m_shutdown>>
  PROVE  WakeInv'
  <1> USE ThreadsAssumption
  <1>1. /\ Asleep' \subseteq Asleep /\ Awake \subseteq Awake'
        /\ Notifying \subseteq Notifying'
    BY DEF Asleep, Awake, Notifying, TypeOK, Threads
  <1>2. SleepInv'
    BY DEF WakeInv, SleepInv, TypeOK, Threads
  <1>3. QED
    BY <1>1, <1>2, WakeFrame DEF WakeInv

-----------------------------------------------------------------------------
(* The steps that count *)

LEMMA PushEnqueueWakes ==
  ASSUME IsFiniteSet(Producers), IsFiniteSet(Consumers), IInv, WakeInv,
         NEW p \in Producers, PushEnqueue(p)
  PROVE  WakeInv'
  <1> USE ThreadsAssumption
  <1>1. /\ pc' = [pc EXCEPT ![p] = "push_notify"] /\ pc[p] = "push_enqueue"
        /\ m_queue' = Append(m_queue, fPath[p]) /\ UNCHANGED m_shutdown
    BY DEF PushEnqueue, Step
  <1>2. \A c \in Consumers : pc'[c] = pc[c] /\ pc[c] # "get_sleep"
    BY <1>1 DEF IInv, MutexInv, TypeOK, Threads, CriticalSteps
  <1>3. SleepInv'
    BY <1>2 DEF SleepInv
  <1>4. Asleep' = Asleep /\ Awake' = Awake
    BY <1>2 DEF Asleep, Awake
  <1>5. Notifying' = Notifying \cup {p} /\ p \notin Notifying
    BY <1>1 DEF Notifying, IInv, TypeOK, Threads
  <1>6. Cardinality(Notifying') = Cardinality(Notifying) + 1
    BY <1>5, CountsAreNat, FS_AddElement
  <1>7. m_queue \in Seq(Paths) /\ fPath[p] \in Paths
    BY <1>1 DEF IInv, TypeOK, PathInv, HoldingSteps, Threads
  <1>8. Len(m_queue') = Len(m_queue) + 1 /\ Len(m_queue) \in Nat
    BY <1>1, <1>7
  <1>9. NoLostWakeup'
    <2>1. SUFFICES ASSUME Asleep' # {}, ~m_shutdown'
                   PROVE  Len(m_queue') <= Cardinality(Awake')
                                             + Cardinality(Notifying')
      BY DEF NoLostWakeup, Notifying
    <2>2. Len(m_queue) <= Cardinality(Awake) + Cardinality(Notifying)
      BY <1>1, <1>4, <2>1 DEF WakeInv, NoLostWakeup, Notifying
    <2>3. QED
      BY <1>4, <1>6, <1>8, <2>2, CountsAreNat
  <1>10. QED
    BY <1>3, <1>9 DEF WakeInv

LEMMA PushNotifyWakes ==
  ASSUME IsFiniteSet(Producers), IsFiniteSet(Consumers), TypeOK, WakeInv,
         NEW p \in Producers, PushNotify(p)
  PROVE  WakeInv'
  <1> USE ThreadsAssumption
  <1>1. pc[p] = "push_notify" /\ UNCHANGED <<m_queue, m_shutdown>>
    BY DEF PushNotify
  <1>2. CASE Asleep = {} /\ pc' = [pc EXCEPT ![p] = "idle"]
    <2>1. Asleep' = {} /\ SleepInv'
      BY <1>1, <1>2 DEF Asleep, WakeInv, SleepInv, TypeOK, Threads
    <2>2. QED
      BY <2>1 DEF WakeInv, NoLostWakeup
  <1>3. ASSUME NEW c \in Consumers, pc[c] = "get_wait",
               pc' = [pc EXCEPT ![p] = "idle", ![c] = "get_woken"]
        PROVE  WakeInv'
    <2>1. SleepInv' /\ c \in Asleep
      BY <1>1, <1>3 DEF Asleep, WakeInv, SleepInv, TypeOK, Threads
    <2>2. Awake' = Awake \cup {c} /\ c \notin Awake
      BY <1>3 DEF Awake, TypeOK, Threads
    <2>3. Notifying' = Notifying \ {p} /\ p \in Notifying
      BY <1>1, <1>3 DEF Notifying, TypeOK, Threads
    <2>4. Cardinality(Awake') = Cardinality(Awake) + 1
      BY <2>2, CountsAreNat, FS_AddElement
    <2>5. Cardinality(Notifying') = Cardinality(Notifying) - 1
      BY <2>3, CountsAreNat, FS_RemoveElement
    <2>6. Len(m_queue) \in Nat
      BY DEF TypeOK
    <2>7. ~m_shutdown =>
            Len(m_queue) <= Cardinality(Awake) + Cardinality(Notifying)
      BY <2>1 DEF WakeInv, NoLostWakeup, Notifying
    <2>8. ~m_shutdown' =>
            Len(m_queue') <= Cardinality(Awake') + Cardinality(Notifying')
      BY <1>1, <2>4, <2>5, <2>6, <2>7, CountsAreNat
    <2>9. NoLostWakeup'
      BY <2>8 DEF NoLostWakeup, Notifying
    <2>10. QED
      BY <2>1, <2>9 DEF WakeInv
  <1>4. QED
    BY <1>2, <1>3 DEF PushNotify, Asleep

LEMMA GetPopWakes ==
  ASSUME IsFiniteSet(Producers), IsFiniteSet(Consumers), IInv, WakeInv,
         NEW c \in Consumers, GetPop(c)
  PROVE  WakeInv'
  <1> USE ThreadsAssumption
  <1>1. /\ pc' = [pc EXCEPT ![c] = "get_erase"] /\ pc[c] = "get_pop"
        /\ m_queue' = Tail(m_queue) /\ UNCHANGED m_shutdown
    BY DEF GetPop, Step
  <1>2. m_queue \in Seq(Paths) /\ m_queue # <<>>
    BY <1>1 DEF IInv, TypeOK, Threads
  <1>3. Len(m_queue') = Len(m_queue) - 1 /\ Len(m_queue) \in Nat
    BY <1>1, <1>2
  <1>4. \A d \in Consumers : pc'[d] # "get_sleep"
    BY <1>1 DEF IInv, MutexInv, TypeOK, Threads, CriticalSteps
  <1>5. Asleep' = Asleep /\ Notifying' = Notifying
    BY <1>1 DEF Asleep, Notifying, IInv, TypeOK, Threads
  <1>6. Awake' = Awake \ {c} /\ c \in Awake
    BY <1>1 DEF Awake, IInv, TypeOK, Threads
  <1>7. Cardinality(Awake') = Cardinality(Awake) - 1
    BY <1>6, CountsAreNat, FS_RemoveElement
  <1>8. NoLostWakeup'
    <2>1. SUFFICES ASSUME Asleep' # {}, ~m_shutdown'
                   PROVE  Len(m_queue') <= Cardinality(Awake')
                                             + Cardinality(Notifying')
      BY DEF NoLostWakeup, Notifying
    <2>2. Len(m_queue) <= Cardinality(Awake) + Cardinality(Notifying)
      BY <1>1, <1>5, <2>1 DEF WakeInv, NoLostWakeup, Notifying
    <2>3. QED
      BY <1>3, <1>5, <1>7, <2>2, CountsAreNat
  <1>9. QED
    BY <1>4, <1>8 DEF WakeInv, SleepInv

-----------------------------------------------------------------------------
(* Steps that are right because the queue is empty or closed *)

LEMMA GetPredWakes ==
  ASSUME IsFiniteSet(Producers), IsFiniteSet(Consumers), TypeOK, WakeInv,
         NEW c \in Consumers, GetPred(c)
  PROVE  WakeInv'
  <1> USE ThreadsAssumption
  <1>1. CASE m_queue # <<>> \/ m_shutdown
    <2>1. pc[c] = "get_pred" /\ pc' = [pc EXCEPT ![c] = "get_check"]
          /\ UNCHANGED <<m_queue, m_shutdown>>
      BY <1>1 DEF GetPred, Step
    <2>2. c \in Awake'
      BY <2>1 DEF Awake, TypeOK, Threads
    <2>3. "get_check" \in ConsumerSteps \ {"get_sleep", "get_wait"}
      BY DEF ConsumerSteps
    <2>4. QED
      BY <2>1, <2>2, <2>3, ConsumerFrame
  <1>2. CASE m_queue = <<>> /\ ~m_shutdown
    <2>1. m_queue' = <<>>
      BY <1>2 DEF GetPred
    <2>2. QED
      BY <2>1, EmptyQueue DEF WakeInv, SleepInv
  <1>3. QED
    BY <1>1, <1>2

LEMMA GetSleepWakes ==
  ASSUME IsFiniteSet(Producers), IsFiniteSet(Consumers), WakeInv,
         NEW c \in Consumers, GetSleep(c)
  PROVE  WakeInv'
  <1>1. m_queue' = <<>>
    BY DEF GetSleep, Step, WakeInv, SleepInv
  <1>2. QED
    BY <1>1, EmptyQueue DEF WakeInv, SleepInv

LEMMA GetNothingWakes ==
  ASSUME IsFiniteSet(Producers), IsFiniteSet(Consumers), TypeOK, WakeInv,
         NEW c \in Consumers, GetNothing(c)
  PROVE  WakeInv'
  <1> USE ThreadsAssumption
  <1>1. CASE m_queue = <<>>
    <2>1. m_queue' = <<>>
      BY <1>1 DEF GetNothing
    <2>2. QED
      BY <2>1, EmptyQueue DEF WakeInv, SleepInv
  <1>2. CASE m_shutdown
    <2>1. SleepInv'
      BY DEF GetNothing, Step, WakeInv, SleepInv, TypeOK, Threads
    <2>2. m_shutdown'
      BY <1>2 DEF GetNothing
    <2>3. QED
      BY <2>1, <2>2 DEF WakeInv, NoLostWakeup
  <1>3. QED
    BY <1>1, <1>2 DEF GetNothing

-----------------------------------------------------------------------------
LEMMA ProducerWakes ==
  ASSUME IsFiniteSet(Producers), IsFiniteSet(Consumers), IInv, WakeInv,
         NEW p \in Producers,
         (\E f \in Paths : PushCall(p, f)) \/ PushLock(p) \/ PushSteps(p)
  PROVE  WakeInv'
  <1>1. CASE PushEnqueue(p)
    BY <1>1, PushEnqueueWakes
  <1>2. CASE PushNotify(p)
    BY <1>2, PushNotifyWakes DEF IInv
  <1>3. CASE \/ \E f \in Paths : PushCall(p, f)
             \/ PushLock(p) \/ PushTest(p) \/ PushDuplicate(p) \/ PushEmplace(p)
    <2>1. /\ pc[p] # "push_notify" /\ UNCHANGED <<m_queue, m_shutdown>>
          /\ \E to \in ProducerSteps : pc' = [pc EXCEPT ![p] = to]
      BY <1>3 DEF PushCall, PushLock, PushTest, PushDuplicate, PushEmplace,
                  Step, ProducerSteps
    <2>2. QED
      BY <2>1, ProducerFrame DEF IInv
  <1>4. QED
    BY <1>1, <1>2, <1>3 DEF PushSteps

LEMMA ConsumerWakes ==
  ASSUME IsFiniteSet(Producers), IsFiniteSet(Consumers), IInv, WakeInv,
         NEW c \in Consumers,
         \/ GetCall(c) \/ GetLock(c) \/ GetRelock(c) \/ GetSteps(c)
         \/ GetSpurious(c) \/ GotDone(c)
  PROVE  WakeInv'
  <1> USE ThreadsAssumption
  <1>1. CASE GetPred(c)
    BY <1>1, GetPredWakes DEF IInv
  <1>2. CASE GetSleep(c)
    BY <1>2, GetSleepWakes
  <1>3. CASE GetNothing(c)
    BY <1>3, GetNothingWakes DEF IInv
  <1>4. CASE GetPop(c)
    BY <1>4, GetPopWakes
  <1>5. CASE \/ GetCall(c) \/ GetLock(c) \/ GetRelock(c) \/ GetTest(c)
             \/ GetTimeout(c) \/ GetSomething(c) \/ GetErase(c)
             \/ GetSpurious(c) \/ GotDone(c)
    <2>1. PICK to \in ConsumerSteps \ {"get_sleep", "get_wait"} :
            /\ pc' = [pc EXCEPT ![c] = to]
            /\ \/ pc[c] \in {"idle", "get_test", "get_wait", "get_erase", "got"}
               \/ to \in {"get_pred", "get_check", "get_pop"}
      BY <1>5 DEF GetCall, GetLock, GetRelock, GetTest, GetTimeout,
                  GetSomething, GetErase, GetSpurious, GotDone, Step,
                  ConsumerSteps
    <2>2. c \in Awake => c \in Awake'
      BY <2>1 DEF Awake, IInv, TypeOK, Threads
    <2>3. UNCHANGED <<m_queue, m_shutdown>>
      BY <1>5 DEF GetCall, GetLock, GetRelock, GetTest, GetTimeout,
                  GetSomething, GetErase, GetSpurious, GotDone
    <2>4. QED
      BY <2>1, <2>2, <2>3, ConsumerFrame DEF IInv
  <1>6. QED
    BY <1>1, <1>2, <1>3, <1>4, <1>5 DEF GetSteps

LEMMA ShutdownWakes ==
  ASSUME IsFiniteSet(Producers), IsFiniteSet(Consumers), IInv, WakeInv,
         ShutdownStore \/ ShutdownNotifyAll
  PROVE  WakeInv'
  <1> USE ThreadsAssumption
  <1>1. m_queue' = m_queue /\ (m_shutdown => m_shutdown')
    BY DEF ShutdownStore, ShutdownNotifyAll
  <1>2. /\ \A c \in Consumers :
             pc'[c] = pc[c] \/ (pc[c] = "get_wait" /\ pc'[c] = "get_woken")
        /\ \A p \in Producers : pc'[p] = pc[p]
    <2>1. CASE ShutdownStore
      BY <2>1 DEF ShutdownStore, Step, IInv, TypeOK, Threads
    <2>2. CASE ShutdownNotifyAll
      BY <2>2 DEF ShutdownNotifyAll, IInv, TypeOK, Threads, ProducerSteps
    <2>3. QED
      BY <2>1, <2>2
  <1>3. /\ Asleep' \subseteq Asleep /\ Awake \subseteq Awake'
        /\ Notifying \subseteq Notifying'
    BY <1>2 DEF Asleep, Awake, Notifying
  <1>4. SleepInv'
    BY <1>1, <1>2 DEF WakeInv, SleepInv
  <1>5. QED
    BY <1>1, <1>3, <1>4, WakeFrame DEF WakeInv, IInv

(* Every step preserves the invariant, given that the other one holds.     *)
LEMMA NextWakeInv ==
  ASSUME IsFiniteSet(Producers), IsFiniteSet(Consumers)
  PROVE  IInv /\ WakeInv /\ [Next]_vars => WakeInv'
  <1> SUFFICES ASSUME IInv, WakeInv, [Next]_vars PROVE WakeInv'
    OBVIOUS
  <1>1. CASE UNCHANGED vars
    BY <1>1 DEF vars, WakeInv, SleepInv, NoLostWakeup, Asleep, Awake
  <1>2. CASE Next
    BY <1>2, ProducerWakes, ConsumerWakes, ShutdownWakes DEF Next
  <1>3. QED
    BY <1>1, <1>2

(* push_item notifies after it has released the mutex, get_next_item's     *)
(* wait may end by a timeout or for no reason, and yet no queued path is   *)
(* left to sleeping consumers, for any finite number of threads.           *)
THEOREM NoWakeupIsLost ==
  ASSUME IsFiniteSet(Producers), IsFiniteSet(Consumers)
  PROVE  SafeSpec => []NoLostWakeup
  <1>1. Init => WakeInv
    <2> SUFFICES ASSUME Init PROVE WakeInv
      OBVIOUS
    <2>1. \A c \in Consumers : pc[c] = "idle"
      BY DEF Init, Threads
    <2>2. QED
      BY <2>1 DEF WakeInv, SleepInv, NoLostWakeup, Asleep
  <1>2. IInv /\ WakeInv /\ [Next]_vars => WakeInv'
    BY NextWakeInv
  <1>3. WakeInv => NoLostWakeup
    BY DEF WakeInv
  <1>4. QED
    BY <1>1, <1>2, <1>3, InductiveInvariant, PTL DEF SafeSpec

=============================================================================
