------------------------ MODULE FileBackupQueueProofs -----------------------
(***************************************************************************)
(* Proofs about FileBackupQueue, for every number of producers, consumers  *)
(* and paths.                                                              *)
(***************************************************************************)
EXTENDS FileBackupQueue, SequenceTheorems, TLAPS

-----------------------------------------------------------------------------
(* Sequences without duplicates *)

(* What queue.push() does to the set of the queued paths. *)
LEMMA RangeOfAppend ==
  ASSUME NEW S, NEW q \in Seq(S), NEW x \in S
  PROVE  Range(Append(q, x)) = Range(q) \cup {x}
  <1>1. Range(Append(q, x)) \subseteq Range(q) \cup {x}
    BY DEF Range
  <1>2. \A i \in 1 .. Len(q) : Append(q, x)[i] = q[i] /\ i \in 1 .. Len(q) + 1
    OBVIOUS
  <1>3. Append(q, x)[Len(q) + 1] = x /\ Len(q) + 1 \in 1 .. Len(q) + 1
    OBVIOUS
  <1>4. DOMAIN Append(q, x) = 1 .. Len(q) + 1 /\ DOMAIN q = 1 .. Len(q)
    OBVIOUS
  <1>5. QED
    BY <1>1, <1>2, <1>3, <1>4 DEF Range

(* A path that is not queued can be appended without a duplicate. *)
LEMMA InjectiveAppend ==
  ASSUME NEW S, NEW q \in Seq(S), NEW x \in S,
         IsInjective(q), x \notin Range(q)
  PROVE  IsInjective(Append(q, x))
  BY DEF IsInjective, Range

(* Taking the head of a sequence without duplicates takes it out of the    *)
(* set of the queued paths. *)
LEMMA TailOfInjective ==
  ASSUME NEW S, NEW q \in Seq(S), q # <<>>, IsInjective(q)
  PROVE  /\ Tail(q) \in Seq(S)
         /\ Head(q) \in S
         /\ IsInjective(Tail(q))
         /\ Range(q) = Range(Tail(q)) \cup {Head(q)}
         /\ Head(q) \notin Range(Tail(q))
  <1>1. /\ Tail(q) \in Seq(S) /\ Head(q) \in S /\ Head(q) = q[1]
        /\ DOMAIN q = 1 .. Len(q) /\ DOMAIN Tail(q) = 1 .. Len(q) - 1
        /\ Len(q) \in Nat /\ Len(q) > 0
    OBVIOUS
  <1>2. \A i \in 1 .. Len(q) - 1 : Tail(q)[i] = q[i + 1]
    OBVIOUS
  <1>3. IsInjective(Tail(q))
    BY <1>1, <1>2 DEF IsInjective
  <1>4. \A i \in 1 .. Len(q) :
          i = 1 \/ (i - 1 \in 1 .. Len(q) - 1 /\ q[i] = Tail(q)[i - 1])
    BY <1>1, <1>2
  <1>5. ASSUME NEW x \in Range(q) PROVE x \in Range(Tail(q)) \cup {Head(q)}
    <2>1. PICK i \in 1 .. Len(q) : x = q[i]
      BY <1>1 DEF Range
    <2>2. CASE i = 1
      BY <1>1, <2>1, <2>2
    <2>3. CASE i # 1
      <3>1. i - 1 \in 1 .. Len(q) - 1 /\ x = Tail(q)[i - 1]
        BY <1>4, <2>1, <2>3
      <3>2. QED
        BY <1>1, <3>1 DEF Range
    <2>4. QED
      BY <2>2, <2>3
  <1>6. Range(Tail(q)) \cup {Head(q)} \subseteq Range(q)
    BY <1>1, <1>2 DEF Range
  <1>7. Head(q) \notin Range(Tail(q))
    BY <1>1, <1>2 DEF Range, IsInjective
  <1>8. QED
    BY <1>1, <1>3, <1>5, <1>6, <1>7

-----------------------------------------------------------------------------
(* The inductive invariant *)

(* The thread that is between the two containers' operations. *)
MovingSteps == {"push_enqueue", "get_erase"}

HoldingSteps ==
  {"push_test", "push_lock", "push_count", "push_enqueue", "get_erase", "got"}

(* Only the owner of the mutex is in a critical section. *)
MutexInv == \A t \in Threads : pc[t] \in CriticalSteps => m_mutex = t

(* A thread has a path in its local variable exactly while it needs one. *)
PathInv ==
  \A t \in Threads :
    IF pc[t] \in HoldingSteps THEN fPath[t] \in Paths ELSE fPath[t] = NoPath

(* What the tests made under the mutex established still holds where it is *)
(* relied upon. *)
TestedInv ==
  \A t \in Threads :
    pc[t] \in MovingSteps => fPath[t] \notin Range(m_queue)

IInv == TypeOK /\ MutexInv /\ PathInv /\ TestedInv /\ ContainersAgree

(* At most one path is in transit: that of the thread that owns the mutex. *)
LEMMA TransitOfOwner ==
  ASSUME MutexInv, NEW t \in Threads, pc[t] \in CriticalSteps
  PROVE  InTransit = IF pc[t] \in MovingSteps THEN {fPath[t]} ELSE {}
  BY DEF MutexInv, InTransit, MovingSteps, CriticalSteps

(* A step that leaves the containers alone and begins or ends no move      *)
(* keeps them in agreement. *)
LEMMA AgreementFrame ==
  ASSUME TypeOK, ContainersAgree, UNCHANGED <<m_queue, m_uniqueFilePaths>>,
         \A t \in Threads :
           /\ pc'[t] \in MovingSteps <=> pc[t] \in MovingSteps
           /\ pc[t] \in MovingSteps => fPath'[t] = fPath[t]
  PROVE  ContainersAgree'
  <1>1. InTransit' = InTransit
    BY DEF InTransit, MovingSteps
  <1>2. QED
    BY <1>1 DEF ContainersAgree

LEMMA InitIInv == Init => IInv
  <1> SUFFICES ASSUME Init PROVE IInv
    OBVIOUS
  <1>1. Range(m_queue) = {} /\ InTransit = {} /\ IsInjective(m_queue)
    BY DEF Init, Range, InTransit, IsInjective
  <1>2. TypeOK
    <2>1. m_queue \in Seq(Paths) /\ m_uniqueFilePaths \subseteq Paths
      BY DEF Init
    <2>2. pc \in [Threads -> ProducerSteps \cup ConsumerSteps \cup MainSteps]
      BY DEF Init, ProducerSteps
    <2>3. QED
      BY <2>1, <2>2 DEF Init, TypeOK, Threads, ProducerSteps, ConsumerSteps,
                        MainSteps
  <1>3. \A t \in Threads : pc[t] = "idle" /\ fPath[t] = NoPath
    BY DEF Init
  <1>4. MutexInv /\ PathInv /\ TestedInv
    BY <1>3 DEF MutexInv, PathInv, TestedInv, CriticalSteps, HoldingSteps,
                MovingSteps
  <1>5. ContainersAgree
    BY <1>1 DEF Init, ContainersAgree
  <1>6. QED
    BY <1>2, <1>4, <1>5 DEF IInv

(* Every step preserves the inductive invariant. *)
LEMMA NextIInv == IInv /\ [Next]_vars => IInv'
  <1> SUFFICES ASSUME IInv, [Next]_vars PROVE IInv'
    OBVIOUS
  <1> USE ThreadsAssumption
      DEF IInv, Threads, ProducerSteps, ConsumerSteps, MainSteps,
          CriticalSteps, HoldingSteps, MovingSteps
  <1>1. ASSUME NEW p \in Producers, NEW f \in Paths, PushCall(p, f) PROVE IInv'
    <2>1. TypeOK'
      BY <1>1 DEF TypeOK, PushCall, Step, SetPath
    <2>2. MutexInv' /\ PathInv' /\ TestedInv'
      BY <1>1 DEF TypeOK, MutexInv, PathInv, TestedInv, PushCall, Step, SetPath
    <2>3. ContainersAgree'
      BY <1>1, AgreementFrame DEF TypeOK, PushCall, Step, SetPath
    <2>4. QED
      BY <2>1, <2>2, <2>3
  <1>2. ASSUME NEW p \in Producers, PushTest(p) PROVE IInv'
    <2>1. TypeOK'
      BY <1>2 DEF TypeOK, PushTest, Step, SetPath
    <2>2. MutexInv' /\ PathInv' /\ TestedInv'
      BY <1>2 DEF TypeOK, MutexInv, PathInv, TestedInv, PushTest, Step, SetPath
    <2>3. ContainersAgree'
      BY <1>2, AgreementFrame DEF TypeOK, PushTest, Step, SetPath
    <2>4. QED
      BY <2>1, <2>2, <2>3
  <1>3. ASSUME NEW p \in Producers, PushLock(p) PROVE IInv'
    <2>1. TypeOK'
      BY <1>3 DEF TypeOK, PushLock, Step, Lock
    <2>2. MutexInv' /\ PathInv' /\ TestedInv'
      BY <1>3 DEF TypeOK, MutexInv, PathInv, TestedInv, PushLock, Step, Lock
    <2>3. ContainersAgree'
      BY <1>3, AgreementFrame DEF TypeOK, PushLock, Step, Lock
    <2>4. QED
      BY <2>1, <2>2, <2>3
  <1>4. ASSUME NEW p \in Producers, PushDuplicate(p) PROVE IInv'
    <2>1. TypeOK'
      BY <1>4 DEF TypeOK, PushDuplicate, Step, SetPath, Unlock
    <2>2. MutexInv' /\ PathInv' /\ TestedInv'
      BY <1>4 DEF TypeOK, MutexInv, PathInv, TestedInv, PushDuplicate, Step, SetPath, Unlock
    <2>3. ContainersAgree'
      BY <1>4, AgreementFrame DEF TypeOK, PushDuplicate, Step, SetPath, Unlock
    <2>4. QED
      BY <2>1, <2>2, <2>3
  <1>5. ASSUME NEW p \in Producers, PushNotify(p) PROVE IInv'
    <2>1. TypeOK'
      BY <1>5 DEF TypeOK, PushNotify
    <2>2. MutexInv' /\ PathInv' /\ TestedInv'
      BY <1>5 DEF TypeOK, MutexInv, PathInv, TestedInv, PushNotify
    <2>3. ContainersAgree'
      BY <1>5, AgreementFrame DEF TypeOK, PushNotify
    <2>4. QED
      BY <2>1, <2>2, <2>3
  <1>6. ASSUME NEW c \in Consumers, GetCall(c) PROVE IInv'
    <2>1. TypeOK'
      BY <1>6 DEF TypeOK, GetCall, Step
    <2>2. MutexInv' /\ PathInv' /\ TestedInv'
      BY <1>6 DEF TypeOK, MutexInv, PathInv, TestedInv, GetCall, Step
    <2>3. ContainersAgree'
      BY <1>6, AgreementFrame DEF TypeOK, GetCall, Step
    <2>4. QED
      BY <2>1, <2>2, <2>3
  <1>7. ASSUME NEW c \in Consumers, GetTest(c) PROVE IInv'
    <2>1. TypeOK'
      BY <1>7 DEF TypeOK, GetTest, Step
    <2>2. MutexInv' /\ PathInv' /\ TestedInv'
      BY <1>7 DEF TypeOK, MutexInv, PathInv, TestedInv, GetTest, Step
    <2>3. ContainersAgree'
      BY <1>7, AgreementFrame DEF TypeOK, GetTest, Step
    <2>4. QED
      BY <2>1, <2>2, <2>3
  <1>8. ASSUME NEW c \in Consumers, GetLock(c) PROVE IInv'
    <2>1. TypeOK'
      BY <1>8 DEF TypeOK, GetLock, Step, Lock
    <2>2. MutexInv' /\ PathInv' /\ TestedInv'
      BY <1>8 DEF TypeOK, MutexInv, PathInv, TestedInv, GetLock, Step, Lock
    <2>3. ContainersAgree'
      BY <1>8, AgreementFrame DEF TypeOK, GetLock, Step, Lock
    <2>4. QED
      BY <2>1, <2>2, <2>3
  <1>9. ASSUME NEW c \in Consumers, GetPred(c) PROVE IInv'
    <2>1. TypeOK'
      BY <1>9 DEF TypeOK, GetPred, Step
    <2>2. MutexInv' /\ PathInv' /\ TestedInv'
      BY <1>9 DEF TypeOK, MutexInv, PathInv, TestedInv, GetPred, Step
    <2>3. ContainersAgree'
      BY <1>9, AgreementFrame DEF TypeOK, GetPred, Step
    <2>4. QED
      BY <2>1, <2>2, <2>3
  <1>10. ASSUME NEW c \in Consumers, GetSleep(c) PROVE IInv'
    <2>1. TypeOK'
      BY <1>10 DEF TypeOK, GetSleep, Step, Unlock
    <2>2. MutexInv' /\ PathInv' /\ TestedInv'
      BY <1>10 DEF TypeOK, MutexInv, PathInv, TestedInv, GetSleep, Step, Unlock
    <2>3. ContainersAgree'
      BY <1>10, AgreementFrame DEF TypeOK, GetSleep, Step, Unlock
    <2>4. QED
      BY <2>1, <2>2, <2>3
  <1>11. ASSUME NEW c \in Consumers, GetTimeout(c) PROVE IInv'
    <2>1. TypeOK'
      BY <1>11 DEF TypeOK, GetTimeout, Step
    <2>2. MutexInv' /\ PathInv' /\ TestedInv'
      BY <1>11 DEF TypeOK, MutexInv, PathInv, TestedInv, GetTimeout, Step
    <2>3. ContainersAgree'
      BY <1>11, AgreementFrame DEF TypeOK, GetTimeout, Step
    <2>4. QED
      BY <2>1, <2>2, <2>3
  <1>12. ASSUME NEW c \in Consumers, GetSpurious(c) PROVE IInv'
    <2>1. TypeOK'
      BY <1>12 DEF TypeOK, GetSpurious, Step
    <2>2. MutexInv' /\ PathInv' /\ TestedInv'
      BY <1>12 DEF TypeOK, MutexInv, PathInv, TestedInv, GetSpurious, Step
    <2>3. ContainersAgree'
      BY <1>12, AgreementFrame DEF TypeOK, GetSpurious, Step
    <2>4. QED
      BY <2>1, <2>2, <2>3
  <1>13. ASSUME NEW c \in Consumers, GetRelock(c) PROVE IInv'
    <2>1. TypeOK'
      BY <1>13 DEF TypeOK, GetRelock, Step, Lock
    <2>2. MutexInv' /\ PathInv' /\ TestedInv'
      BY <1>13 DEF TypeOK, MutexInv, PathInv, TestedInv, GetRelock, Step, Lock
    <2>3. ContainersAgree'
      BY <1>13, AgreementFrame DEF TypeOK, GetRelock, Step, Lock
    <2>4. QED
      BY <2>1, <2>2, <2>3
  <1>14. ASSUME NEW c \in Consumers, GetNothing(c) PROVE IInv'
    <2>1. TypeOK'
      BY <1>14 DEF TypeOK, GetNothing, Step, Unlock
    <2>2. MutexInv' /\ PathInv' /\ TestedInv'
      BY <1>14 DEF TypeOK, MutexInv, PathInv, TestedInv, GetNothing, Step, Unlock
    <2>3. ContainersAgree'
      BY <1>14, AgreementFrame DEF TypeOK, GetNothing, Step, Unlock
    <2>4. QED
      BY <2>1, <2>2, <2>3
  <1>15. ASSUME NEW c \in Consumers, GetSomething(c) PROVE IInv'
    <2>1. TypeOK'
      BY <1>15 DEF TypeOK, GetSomething, Step
    <2>2. MutexInv' /\ PathInv' /\ TestedInv'
      BY <1>15 DEF TypeOK, MutexInv, PathInv, TestedInv, GetSomething, Step
    <2>3. ContainersAgree'
      BY <1>15, AgreementFrame DEF TypeOK, GetSomething, Step
    <2>4. QED
      BY <2>1, <2>2, <2>3
  <1>16. ASSUME NEW c \in Consumers, GotDone(c) PROVE IInv'
    <2>1. TypeOK'
      BY <1>16 DEF TypeOK, GotDone, Step, SetPath
    <2>2. MutexInv' /\ PathInv' /\ TestedInv'
      BY <1>16 DEF TypeOK, MutexInv, PathInv, TestedInv, GotDone, Step, SetPath
    <2>3. ContainersAgree'
      BY <1>16, AgreementFrame DEF TypeOK, GotDone, Step, SetPath
    <2>4. QED
      BY <2>1, <2>2, <2>3
  <1>17. ASSUME ShutdownStore PROVE IInv'
    <2>1. TypeOK'
      BY <1>17 DEF TypeOK, ShutdownStore, Step
    <2>2. MutexInv' /\ PathInv' /\ TestedInv'
      BY <1>17 DEF TypeOK, MutexInv, PathInv, TestedInv, ShutdownStore, Step
    <2>3. ContainersAgree'
      BY <1>17, AgreementFrame DEF TypeOK, ShutdownStore, Step
    <2>4. QED
      BY <2>1, <2>2, <2>3
  <1>18. ASSUME ShutdownNotifyAll PROVE IInv'
    <2>1. TypeOK'
      BY <1>18 DEF TypeOK, ShutdownNotifyAll
    <2>2. MutexInv' /\ PathInv' /\ TestedInv'
      BY <1>18 DEF TypeOK, MutexInv, PathInv, TestedInv, ShutdownNotifyAll
    <2>3. ContainersAgree'
      BY <1>18, AgreementFrame DEF TypeOK, ShutdownNotifyAll
    <2>4. QED
      BY <2>1, <2>2, <2>3
  <1>19. ASSUME NEW p \in Producers, PushEmplace(p) PROVE IInv'
    <2>1. TypeOK'
      BY <1>19 DEF TypeOK, PathInv, PushEmplace, Step
    <2>2. fPath[p] \notin Range(m_queue)
      BY <1>19 DEF PushEmplace, ContainersAgree
    <2>3. MutexInv' /\ PathInv' /\ TestedInv'
      BY <1>19, <2>2 DEF TypeOK, MutexInv, PathInv, TestedInv, PushEmplace, Step
    <2>4. InTransit = {}
      BY <1>19, TransitOfOwner DEF PushEmplace, Step
    <2>5. InTransit' = {fPath[p]}
      BY <1>19, <2>4 DEF TypeOK, PushEmplace, Step, InTransit
    <2>6. ContainersAgree'
      BY <1>19, <2>4, <2>5 DEF ContainersAgree, PushEmplace
    <2>7. QED
      BY <2>1, <2>3, <2>6
  <1>20. ASSUME NEW p \in Producers, PushEnqueue(p) PROVE IInv'
    <2>1. fPath[p] \in Paths /\ fPath[p] \notin Range(m_queue)
      BY <1>20 DEF PushEnqueue, Step, PathInv, TestedInv
    <2>2. m_queue' \in Seq(Paths) /\ m_queue' = Append(m_queue, fPath[p])
      BY <1>20, <2>1 DEF TypeOK, PushEnqueue
    <2>3. TypeOK'
      BY <1>20, <2>2 DEF TypeOK, PushEnqueue, Step, SetPath, Unlock
    <2>4. MutexInv' /\ PathInv' /\ TestedInv'
      BY <1>20 DEF TypeOK, MutexInv, PathInv, TestedInv, PushEnqueue, Step,
                   SetPath, Unlock
    <2>5. InTransit = {fPath[p]}
      BY <1>20, TransitOfOwner DEF PushEnqueue, Step
    <2>6. InTransit' = {}
      BY <1>20 DEF TypeOK, MutexInv, PushEnqueue, Step, InTransit
    <2>7. Range(m_queue') = Range(m_queue) \cup {fPath[p]}
      BY <2>1, <2>2, RangeOfAppend DEF TypeOK
    <2>8. IsInjective(m_queue')
      BY <2>1, <2>2, InjectiveAppend DEF TypeOK, ContainersAgree
    <2>9. ContainersAgree'
      BY <1>20, <2>5, <2>6, <2>7, <2>8 DEF ContainersAgree, PushEnqueue
    <2>10. QED
      BY <2>3, <2>4, <2>9
  <1>21. ASSUME NEW c \in Consumers, GetPop(c) PROVE IInv'
    <2>1. m_queue # <<>> /\ m_queue' = Tail(m_queue)
      BY <1>21 DEF GetPop, Step, TypeOK
    <2>2. /\ m_queue' \in Seq(Paths) /\ Head(m_queue) \in Paths
          /\ IsInjective(m_queue')
          /\ Range(m_queue) = Range(m_queue') \cup {Head(m_queue)}
          /\ Head(m_queue) \notin Range(m_queue')
      BY <2>1, TailOfInjective DEF TypeOK, ContainersAgree
    <2>3. TypeOK'
      BY <1>21, <2>2 DEF TypeOK, MutexInv, GetPop, Step, SetPath
    <2>4. MutexInv' /\ PathInv' /\ TestedInv'
      BY <1>21, <2>2 DEF TypeOK, MutexInv, PathInv, TestedInv, GetPop, Step,
                         SetPath
    <2>5. InTransit = {}
      BY <1>21, TransitOfOwner DEF GetPop, Step
    <2>6. InTransit' = {Head(m_queue)}
      <3>1. /\ pc' = [pc EXCEPT ![c] = "get_erase"]
            /\ fPath' = [fPath EXCEPT ![c] = Head(m_queue)]
        BY <1>21 DEF GetPop, Step, SetPath
      <3>2. /\ pc'[c] = "get_erase" /\ fPath'[c] = Head(m_queue)
            /\ \A t \in Threads \ {c} : pc'[t] = pc[t]
        BY <3>1 DEF TypeOK
      <3>3. \A t \in Threads : pc[t] \notin {"push_enqueue", "get_erase"}
        BY <2>5 DEF InTransit
      <3>4. {t \in Threads : pc'[t] \in {"push_enqueue", "get_erase"}} = {c}
        BY <3>2, <3>3
      <3>5. QED
        BY <3>2, <3>4 DEF InTransit
    <2>7. ContainersAgree'
      BY <1>21, <2>2, <2>5, <2>6 DEF ContainersAgree, GetPop
    <2>8. QED
      BY <2>3, <2>4, <2>7
  <1>22. ASSUME NEW c \in Consumers, GetErase(c) PROVE IInv'
    <2>1. fPath[c] \notin Range(m_queue)
      BY <1>22 DEF GetErase, Step, TestedInv
    <2>2. TypeOK'
      BY <1>22 DEF TypeOK, GetErase, Step, Unlock
    <2>3. MutexInv' /\ PathInv' /\ TestedInv'
      BY <1>22 DEF TypeOK, MutexInv, PathInv, TestedInv, GetErase, Step, Unlock
    <2>4. InTransit = {fPath[c]}
      BY <1>22, TransitOfOwner DEF GetErase, Step
    <2>5. InTransit' = {}
      BY <1>22 DEF TypeOK, MutexInv, GetErase, Step, InTransit
    <2>6. ContainersAgree'
      BY <1>22, <2>1, <2>4, <2>5 DEF ContainersAgree, GetErase
    <2>7. QED
      BY <2>2, <2>3, <2>6
  <1>23. CASE UNCHANGED vars
    BY <1>23 DEF vars, TypeOK, MutexInv, PathInv, TestedInv, ContainersAgree,
                 InTransit
  <1>24. QED
    BY <1>1, <1>2, <1>3, <1>4, <1>5, <1>6, <1>7, <1>8, <1>9, <1>10, <1>11,
       <1>12, <1>13, <1>14, <1>15, <1>16, <1>17, <1>18, <1>19, <1>20, <1>21,
       <1>22, <1>23
    DEF Next, PushSteps, GetSteps

(* The inductive invariant holds in every reachable state. *)
THEOREM InductiveInvariant == SafeSpec => []IInv
  BY InitIInv, NextIInv, PTL DEF SafeSpec

(* Every variable keeps its type: push_item and get_next_item move nothing *)
(* but what was pushed, the empty path if that is among it, and no thread  *)
(* dequeues from an empty queue.                                           *)
THEOREM TypeCorrect == SafeSpec => []TypeOK
  BY InductiveInvariant, PTL DEF IInv

(* The set and the queue that push_item and get_next_item maintain agree,  *)
(* whatever the interleaving. *)
THEOREM ContainersAlwaysAgree == SafeSpec => []ContainersAgree
  BY InductiveInvariant, PTL DEF IInv

-----------------------------------------------------------------------------
(* The refinement of DedupQueue *)

(* A step that neither touches the queue, nor begins or ends a pop, nor    *)
(* changes a consumer's path is invisible to the abstract queue. *)
LEMMA Stutter ==
  ASSUME UNCHANGED <<m_queue, m_shutdown>>, Popping' = Popping,
         \A c \in Consumers : fPath'[c] = fPath[c]
  PROVE  UNCHANGED Abstract!abstractVars
  BY DEF Abstract!abstractVars, abstractItems, abstractGot

(* Nobody pops a path while another thread is in a critical section. *)
LEMMA PoppingIsExclusive ==
  ASSUME MutexInv, NEW t \in Threads, pc[t] \in CriticalSteps
  PROVE  Popping = IF pc[t] = "get_pop" /\ t \in Consumers THEN {t} ELSE {}
  BY DEF MutexInv, Popping, CriticalSteps, Threads

LEMMA InitRefines == Init => Abstract!Init
  <1> SUFFICES ASSUME Init PROVE Abstract!Init
    OBVIOUS
  <1>1. Popping = {}
    BY DEF Init, Popping, Threads
  <1>2. abstractItems = <<>> /\ abstractGot = [c \in Consumers |-> NoPath]
    BY <1>1 DEF Init, abstractItems, abstractGot, Threads
  <1>3. QED
    BY <1>2 DEF Init, Abstract!Init

LEMMA PushEnqueueRefines ==
  ASSUME IInv, NEW p \in Producers, PushEnqueue(p)
  PROVE  Abstract!Push(fPath[p]) /\ fPath[p] \in Paths
  <1> USE ThreadsAssumption DEF IInv, Threads
  <1>1. /\ fPath[p] \in Paths /\ fPath[p] \notin Range(m_queue)
        /\ m_queue' = Append(m_queue, fPath[p])
    BY DEF PushEnqueue, Step, PathInv, TestedInv, HoldingSteps, MovingSteps
  <1>2. Popping = {}
    BY PoppingIsExclusive DEF PushEnqueue, Step, CriticalSteps
  <1>3. Popping' = {}
    BY <1>2 DEF PushEnqueue, Step, TypeOK, Popping
  <1>4. abstractItems = m_queue /\ abstractItems' = m_queue'
    BY <1>2, <1>3 DEF abstractItems
  <1>5. abstractGot' = abstractGot
    BY <1>2, <1>3 DEF abstractGot, PushEnqueue, SetPath, TypeOK
  <1>6. QED
    BY <1>1, <1>4, <1>5 DEF Abstract!Push, Abstract!Pushed, Abstract!Range, Range, PushEnqueue

LEMMA GetSomethingRefines ==
  ASSUME IInv, NEW c \in Consumers, GetSomething(c)
  PROVE  Abstract!Take(c)
  <1> USE ThreadsAssumption DEF IInv, Threads
  <1>1. Popping = {}
    BY PoppingIsExclusive DEF GetSomething, Step, CriticalSteps
  <1>2. Popping' = {c}
    BY <1>1 DEF GetSomething, Step, TypeOK, Popping
  <1>3. abstractItems = m_queue /\ abstractItems' = Tail(m_queue)
    BY <1>1, <1>2 DEF abstractItems, GetSomething
  <1>4. abstractGot = [d \in Consumers |-> fPath[d]]
    BY <1>1 DEF abstractGot
  <1>5. abstractGot' = [abstractGot EXCEPT ![c] = Head(m_queue)]
    BY <1>2, <1>4 DEF abstractGot, GetSomething
  <1>6. abstractGot[c] = NoPath
    BY <1>4 DEF GetSomething, Step, PathInv, HoldingSteps
  <1>7. QED
    BY <1>3, <1>5, <1>6 DEF Abstract!Take, GetSomething

LEMMA GetPopStutters ==
  ASSUME IInv, NEW c \in Consumers, GetPop(c)
  PROVE  UNCHANGED Abstract!abstractVars
  <1> USE ThreadsAssumption DEF IInv, Threads
  <1>1. Popping = {c}
    BY PoppingIsExclusive DEF GetPop, Step, CriticalSteps
  <1>2. Popping' = {}
    BY <1>1 DEF GetPop, Step, TypeOK, Popping
  <1>3. abstractItems' = abstractItems
    BY <1>1, <1>2 DEF abstractItems, GetPop
  <1>4. abstractGot' = abstractGot
    BY <1>1, <1>2 DEF abstractGot, GetPop, SetPath, TypeOK
  <1>5. QED
    BY <1>3, <1>4 DEF Abstract!abstractVars, GetPop

LEMMA GotDoneRefines ==
  ASSUME IInv, NEW c \in Consumers, GotDone(c)
  PROVE  Abstract!Release(c)
  <1> USE DEF IInv, Threads
  <1>1. Popping' = Popping /\ c \notin Popping
    BY DEF GotDone, Step, TypeOK, Popping
  <1>2. abstractItems' = abstractItems
    BY <1>1 DEF abstractItems, GotDone
  <1>3. abstractGot' = [abstractGot EXCEPT ![c] = NoPath]
    BY <1>1 DEF abstractGot, GotDone, SetPath, TypeOK
  <1>4. QED
    BY <1>2, <1>3 DEF Abstract!Release, GotDone

LEMMA ShutdownStoreRefines ==
  ASSUME IInv, ShutdownStore
  PROVE  Abstract!Close
  <1>1. Popping' = Popping
    BY ThreadsAssumption DEF IInv, TypeOK, Threads, ShutdownStore, Step, Popping
  <1>2. QED
    BY <1>1 DEF Abstract!Close, abstractItems, abstractGot, ShutdownStore

(* Every step is a step of the abstract queue or invisible to it. *)
LEMMA NextRefines ==
  ASSUME IInv, [Next]_vars
  PROVE  [Abstract!Next]_(Abstract!abstractVars)
  <1> DEFINE Invisible == UNCHANGED Abstract!abstractVars
  <1> USE ThreadsAssumption DEF IInv, Threads
  <1>1. ASSUME NEW p \in Producers, NEW f \in Paths, PushCall(p, f) PROVE Invisible
    BY <1>1, Stutter DEF TypeOK, Popping, PushCall, Step, SetPath
  <1>2. ASSUME NEW p \in Producers, PushTest(p) PROVE Invisible
    BY <1>2, Stutter DEF TypeOK, Popping, PushTest, Step, SetPath
  <1>3. ASSUME NEW p \in Producers, PushLock(p) PROVE Invisible
    BY <1>3, Stutter DEF TypeOK, Popping, PushLock, Step
  <1>4. ASSUME NEW p \in Producers, PushDuplicate(p) PROVE Invisible
    BY <1>4, Stutter DEF TypeOK, Popping, PushDuplicate, Step, SetPath
  <1>5. ASSUME NEW p \in Producers, PushEmplace(p) PROVE Invisible
    BY <1>5, Stutter DEF TypeOK, Popping, PushEmplace, Step
  <1>6. ASSUME NEW p \in Producers, PushNotify(p) PROVE Invisible
    BY <1>6, Stutter DEF TypeOK, Popping, PushNotify
  <1>7. ASSUME NEW c \in Consumers, GetCall(c) PROVE Invisible
    BY <1>7, Stutter DEF TypeOK, Popping, GetCall, Step
  <1>8. ASSUME NEW c \in Consumers, GetTest(c) PROVE Invisible
    BY <1>8, Stutter DEF TypeOK, Popping, GetTest, Step
  <1>9. ASSUME NEW c \in Consumers, GetLock(c) PROVE Invisible
    BY <1>9, Stutter DEF TypeOK, Popping, GetLock, Step
  <1>10. ASSUME NEW c \in Consumers, GetPred(c) PROVE Invisible
    BY <1>10, Stutter DEF TypeOK, Popping, GetPred, Step
  <1>11. ASSUME NEW c \in Consumers, GetSleep(c) PROVE Invisible
    BY <1>11, Stutter DEF TypeOK, Popping, GetSleep, Step
  <1>12. ASSUME NEW c \in Consumers, GetTimeout(c) PROVE Invisible
    BY <1>12, Stutter DEF TypeOK, Popping, GetTimeout, Step
  <1>13. ASSUME NEW c \in Consumers, GetSpurious(c) PROVE Invisible
    BY <1>13, Stutter DEF TypeOK, Popping, GetSpurious, Step
  <1>14. ASSUME NEW c \in Consumers, GetRelock(c) PROVE Invisible
    BY <1>14, Stutter DEF TypeOK, Popping, GetRelock, Step
  <1>15. ASSUME NEW c \in Consumers, GetNothing(c) PROVE Invisible
    BY <1>15, Stutter DEF TypeOK, Popping, GetNothing, Step
  <1>16. ASSUME NEW c \in Consumers, GetErase(c) PROVE Invisible
    BY <1>16, Stutter DEF TypeOK, Popping, GetErase, Step
  <1>17. ASSUME ShutdownNotifyAll PROVE Invisible
    BY <1>17, Stutter DEF TypeOK, Popping, ShutdownNotifyAll
  <1>18. CASE UNCHANGED vars
    BY <1>18, Stutter DEF vars, Popping
  <1>19. QED
    BY <1>1, <1>2, <1>3, <1>4, <1>5, <1>6, <1>7, <1>8, <1>9, <1>10, <1>11,
       <1>12, <1>13, <1>14, <1>15, <1>16, <1>17, <1>18, PushEnqueueRefines,
       GetSomethingRefines, GetPopStutters, GotDoneRefines, ShutdownStoreRefines
    DEF Next, PushSteps, GetSteps, Abstract!Next

(* The queue's code, with its threads, mutex and condition variable, hands *)
(* out what the FIFO of distinct paths hands out. *)
THEOREM Refinement == SafeSpec => ImplementsDedupQueue
  BY InductiveInvariant, InitRefines, NextRefines, PTL
  DEF SafeSpec, ImplementsDedupQueue, Abstract!Spec

=============================================================================
