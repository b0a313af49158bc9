----------------------- MODULE FileDeleterPluginProofs ----------------------
(***************************************************************************)
(* Proofs about FileDeleterPlugin, for every number of workers, deletions  *)
(* and threads, and timestamps that are any number of ticks ahead.         *)
(***************************************************************************)
EXTENDS FileDeleterPlugin, TLAPS

-----------------------------------------------------------------------------
(* The vector of futures *)

(* push_back() leaves a vector whose memory has room for its size and that *)
(* has not become shorter, also when two of them overlap.                  *)
LEMMA ConstructedFits ==
  ASSUME NEW n \in 0 .. Len(m_futures), NEW d \in Deletions \cup {NoDeletion},
         m_futures \in Seq(Deletions \cup {NoDeletion}),
         m_size \in 0 .. Len(m_futures),
         NEW size \in {n + 1, m_size + 1}
  PROVE  /\ Constructed(n, d, size) \in Seq(Deletions \cup {NoDeletion})
         /\ size \in 0 .. Len(Constructed(n, d, size))
         /\ Len(m_futures) <= Len(Constructed(n, d, size))
         /\ Len(Constructed(n, d, size)) \in Nat
  <1> DEFINE F == Deletions \cup {NoDeletion}
             memory == IF n < Len(m_futures) THEN [m_futures EXCEPT ![n + 1] = d]
                                             ELSE Append(m_futures, d)
  <1>1. /\ memory \in Seq(F) /\ Len(memory) \in Nat
        /\ Len(m_futures) <= Len(memory) /\ n + 1 <= Len(memory)
    <2>1. CASE n < Len(m_futures)
      <3>1. n + 1 \in 1 .. Len(m_futures)
        BY <2>1
      <3>2. [m_futures EXCEPT ![n + 1] = d] \in Seq(F)
            /\ Len([m_futures EXCEPT ![n + 1] = d]) = Len(m_futures)
        BY <3>1
      <3>3. QED
        BY <2>1, <3>1, <3>2
    <2>2. CASE ~(n < Len(m_futures))
      BY <2>2
    <2>3. QED
      BY <2>1, <2>2
  <1> HIDE DEF memory
  <1>2. Append(memory, NoDeletion) \in Seq(F)
        /\ Len(Append(memory, NoDeletion)) = Len(memory) + 1
    BY <1>1
  <1>3. Constructed(n, d, size) =
          IF size <= Len(memory) THEN memory ELSE Append(memory, NoDeletion)
    BY DEF Constructed, memory
  <1>4. QED
    BY <1>1, <1>2, <1>3

-----------------------------------------------------------------------------
(* What a conversion to milliseconds drops is less than one, and no more   *)
(* than there is. *)
LEMMA Truncation ==
  ASSUME NEW n \in Nat, NEW m \in Nat \ {0}
  PROVE  n % m \in 0 .. m - 1 /\ n % m <= n
  <1>1. n % m \in 0 .. m - 1
    BY SMT
  <1>2. n % m <= n
    BY SMT
  <1>3. QED
    BY <1>1, <1>2

-----------------------------------------------------------------------------
(* The inductive invariant *)

(* A deletion that waits, or is about to, has less than a millisecond more *)
(* until its timestamp than until the end of its wait; past its wait, the  *)
(* timestamp is less than a millisecond ahead or the deletion has seen the *)
(* shutdown; unless its time to wait could not be represented.             *)
TimingInv ==
  \A d \in Deletions :
    /\ d \notin overflowed =>
         /\ pc[d] \in {"lock", "pred", "sleep", "wait", "woken"} =>
              due[d] < remaining[d] + Millisecond
         /\ pc[d] \in {"timeout", "delete_source", "delete_backup",
                       "log_deleted"} => due[d] < Millisecond
         /\ pc[d] = "check" => due[d] < Millisecond \/ m_shutdown
    /\ pc[d] = "none" => deleted[d] = {}

IInv == TypeOK /\ TimingInv /\ NeverEarly

LEMMA InitIInv == Init => IInv
  <1> SUFFICES ASSUME Init PROVE IInv
    OBVIOUS
  <1>1. due = [d \in Deletions |-> 0] /\ 0 \in 0 .. MaxDelay
    BY DeleterAssumption DEF Init
  <1>2. TypeOK
    <2>1. m_futures \in Seq(Deletions \cup {NoDeletion}) /\ Len(m_futures) = 0
      BY DEF Init
    <2>2. /\ m_size \in 0 .. Len(m_futures)
          /\ slot \in [Workers -> 0 .. Len(m_futures)]
      BY <2>1 DEF Init
    <2>3. /\ m_shutdown \in BOOLEAN
          /\ m_mutex \in Deletions \cup {NoThread}
          /\ workerPc \in [Workers -> {"idle", "push_read", "push_write"}]
          /\ scheduled \in [Workers -> Deletions \cup {NoDeletion}]
          /\ mainPc \in MainSteps
      BY Zenon DEF Init, MainSteps
    <2>4. /\ pc \in [Deletions -> DeletionSteps]
          /\ due \in [Deletions -> 0 .. MaxDelay]
          /\ remaining \in [Deletions -> 0 .. Horizon - 1]
          /\ deleted \in [Deletions -> SUBSET {"source", "backup"}]
          /\ overflowed \subseteq Deletions
      BY <1>1, DeleterAssumption DEF Init, DeletionSteps
    <2>5. waiting \in Nat \ {0} /\ raced \subseteq Deletions \cup {NoDeletion}
      BY DEF Init
    <2>6. QED
      BY <2>1, <2>2, <2>3, <2>4, <2>5 DEF TypeOK
  <1>3. TimingInv /\ NeverEarly
    BY DEF Init, TimingInv, NeverEarly
  <1>4. QED
    BY <1>2, <1>3 DEF IInv

-----------------------------------------------------------------------------
(* Workers *)

LEMMA SchedulePreserves ==
  ASSUME IInv, NEW w \in Workers, NEW d \in Deletions, Schedule(w, d)
  PROVE  IInv'
  <1> USE DEF IInv
  <1>1. pc' \in [Deletions -> DeletionSteps]
        /\ pc[d] = "none" /\ pc'[d] \in {"log", "deferred"}
        /\ \A e \in Deletions \ {d} : pc'[e] = pc[e]
    <2>1. pc \in [Deletions -> DeletionSteps]
      BY DEF TypeOK
    <2>2. \E to \in {"log", "deferred"} : Step(d, "none", to)
      BY DEF Schedule
    <2>3. QED
      BY <2>1, <2>2 DEF Step, DeletionSteps
  <1>2. due' \in [Deletions -> 0 .. MaxDelay]
        /\ \A e \in Deletions \ {d} : due'[e] = due[e]
    BY DEF Schedule, TypeOK
  <1>3. TypeOK'
    BY <1>1, <1>2 DEF Schedule, WorkerStep, TypeOK, mainVars
  <1>4. TimingInv' /\ NeverEarly'
    BY <1>1, <1>2 DEF Schedule, TimingInv, NeverEarly
  <1>5. QED
    BY <1>3, <1>4

LEMMA PushPreserves ==
  ASSUME IInv, NEW w \in Workers, PushRead(w) \/ PushWrite(w)
  PROVE  IInv'
  <1> USE DEF IInv
  <1>1. UNCHANGED <<m_shutdown, m_mutex, mainVars, pc, timeVars, deleted>>
    BY DEF PushRead, PushWrite
  <1>2. TimingInv' /\ NeverEarly'
    BY <1>1 DEF TimingInv, NeverEarly, timeVars
  <1>3. CASE PushRead(w)
    <2>1. raced' \subseteq Deletions \cup {NoDeletion}
      <3>1. \A v \in Workers : scheduled[v] \in Deletions \cup {NoDeletion}
        BY DEF TypeOK
      <3>2. QED
        BY <1>3, <3>1 DEF PushRead, Pushing, TypeOK
    <2>2. TypeOK'
      BY <1>1, <1>3, <2>1
      DEF PushRead, WorkerStep, TypeOK, timeVars, mainVars
    <2>3. QED
      BY <1>2, <2>2
  <1>4. CASE PushWrite(w)
    <2>1. PICK size \in {slot[w] + 1, m_size + 1} :
            /\ m_size' = size
            /\ m_futures' = Constructed(slot[w], scheduled[w], size)
      BY <1>4 DEF PushWrite
    <2>2. /\ m_futures' \in Seq(Deletions \cup {NoDeletion})
          /\ m_size' \in 0 .. Len(m_futures')
          /\ Len(m_futures) <= Len(m_futures')
          /\ Len(m_futures) \in Nat /\ Len(m_futures') \in Nat
      <3>1. slot[w] \in 0 .. Len(m_futures)
            /\ scheduled[w] \in Deletions \cup {NoDeletion}
        BY DEF TypeOK
      <3>2. /\ m_futures \in Seq(Deletions \cup {NoDeletion})
            /\ m_size \in 0 .. Len(m_futures)
        BY DEF TypeOK
      <3>3. Len(m_futures) \in Nat
        BY <3>2
      <3>4. /\ Constructed(slot[w], scheduled[w], size)
                 \in Seq(Deletions \cup {NoDeletion})
            /\ size \in 0 .. Len(Constructed(slot[w], scheduled[w], size))
            /\ Len(m_futures)
                 <= Len(Constructed(slot[w], scheduled[w], size))
            /\ Len(Constructed(slot[w], scheduled[w], size)) \in Nat
        BY <3>1, <3>2, ConstructedFits
      <3>5. QED
        BY <2>1, <3>3, <3>4
    <2>3. slot' \in [Workers -> 0 .. Len(m_futures')]
      <3>1. \A v \in Workers : slot[v] \in 0 .. Len(m_futures')
        BY <2>2 DEF TypeOK
      <3>2. slot' = [slot EXCEPT ![w] = 0] /\ 0 \in 0 .. Len(m_futures')
        BY <1>4, <2>2 DEF PushWrite
      <3>3. QED
        BY <3>1, <3>2 DEF TypeOK
    <2>4. /\ workerPc' \in [Workers -> {"idle", "push_read", "push_write"}]
          /\ scheduled' \in [Workers -> Deletions \cup {NoDeletion}]
          /\ raced' \subseteq Deletions \cup {NoDeletion}
      BY <1>4 DEF PushWrite, WorkerStep, TypeOK
    <2>5. TypeOK'
      BY <1>1, <2>2, <2>3, <2>4 DEF TypeOK, timeVars, mainVars
    <2>6. QED
      BY <1>2, <2>5
  <1>5. QED
    BY <1>3, <1>4

-----------------------------------------------------------------------------
(* Deletions *)

(* What the steps of a deletion have in common: they leave the other       *)
(* deletions, the workers, the destroying thread and time alone.           *)
LEMMA DeletionFrame ==
  ASSUME IInv, NEW d \in Deletions, NEW to \in DeletionSteps,
         pc' = [pc EXCEPT ![d] = to],
         m_mutex' \in Deletions \cup {NoThread},
         UNCHANGED <<m_shutdown, workerVars, mainVars, due>>,
         remaining' \in [Deletions -> 0 .. Horizon - 1],
         deleted' \in [Deletions -> SUBSET {"source", "backup"}],
         overflowed' \in {overflowed, overflowed \cup {d}},
         \A e \in Deletions \ {d} :
           remaining'[e] = remaining[e] /\ deleted'[e] = deleted[e],
         to # "none",
         d \notin overflowed' =>
           /\ to \in {"lock", "pred", "sleep", "wait", "woken"} =>
                due[d] < remaining'[d] + Millisecond
           /\ to \in {"timeout", "delete_source", "delete_backup",
                      "log_deleted"} => due[d] < Millisecond
           /\ to = "check" => due[d] < Millisecond \/ m_shutdown
           /\ deleted'[d] # {} => due[d] < Millisecond
  PROVE  IInv'
  <1> USE DEF IInv
  <1>1. TypeOK'
    BY DEF TypeOK, workerVars, mainVars
  <1>2. pc'[d] = to /\ \A e \in Deletions \ {d} : pc'[e] = pc[e]
    BY DEF TypeOK
  <1>3. TimingInv'
    BY <1>2 DEF TimingInv
  <1>4. NeverEarly'
    BY DEF NeverEarly
  <1>5. QED
    BY <1>1, <1>3, <1>4

LEMMA DeletionPreserves ==
  ASSUME IInv, NEW d \in Deletions,
         \/ DeletionRuns(d) \/ DeletionLock(d) \/ DeletionRelock(d)
         \/ DeletionTimeout(d) \/ DeletionSpurious(d) \/ DeletionThrows(d)
  PROVE  IInv'
  <1> USE DEF IInv
  <1>t. /\ pc \in [Deletions -> DeletionSteps]
        /\ m_mutex \in Deletions \cup {NoThread}
        /\ due \in [Deletions -> 0 .. MaxDelay]
        /\ remaining \in [Deletions -> 0 .. Horizon - 1]
        /\ deleted \in [Deletions -> SUBSET {"source", "backup"}]
        /\ MaxDelay \in Nat /\ Millisecond \in Nat \ {0}
        /\ d \notin overflowed => (deleted[d] # {} => due[d] < Millisecond)
    BY DeleterAssumption DEF TypeOK, NeverEarly
  <1>1. CASE DeletionStarts(d)
    <2>1. PICK shift \in {0, SummerHour}, left \in Nat :
            /\ left = due[d] + shift
            /\ \/ /\ left < Horizon
                  /\ remaining' =
                       [remaining EXCEPT ![d] = left - (left % Millisecond)]
                  /\ UNCHANGED overflowed
               \/ /\ \E any \in 0 .. Horizon - 1 :
                       remaining' = [remaining EXCEPT ![d] = any]
                  /\ overflowed' = overflowed \cup {d}
      BY <1>1, <1>t, DeleterAssumption DEF DeletionStarts, TimeToWait
    <2>2. /\ left - (left % Millisecond) \in 0 .. left
          /\ due[d] < left - (left % Millisecond) + Millisecond
      <3>1. left % Millisecond \in 0 .. Millisecond - 1 /\ left % Millisecond <= left
        BY <1>t, <2>1, Truncation
      <3>2. due[d] \in Nat /\ due[d] <= left
        BY <1>t, <2>1, DeleterAssumption
      <3>3. QED
        BY <1>t, <3>1, <3>2
    <2>3. /\ remaining' \in [Deletions -> 0 .. Horizon - 1]
          /\ overflowed' \in {overflowed, overflowed \cup {d}}
          /\ d \notin overflowed' => due[d] < remaining'[d] + Millisecond
          /\ \A e \in Deletions \ {d} : remaining'[e] = remaining[e]
      BY <1>t, <2>1, <2>2, DeleterAssumption
    <2>4. QED
      BY <1>1, <1>t, <2>3, DeletionFrame
      DEF DeletionStarts, Step, DeletionSteps
  <1>2. CASE \/ DeletionLock(d) \/ DeletionSleep(d) \/ DeletionSpurious(d)
             \/ DeletionPred(d)
    BY <1>2, <1>t, DeletionFrame
    DEF DeletionLock, DeletionSleep, DeletionSpurious, DeletionPred, Step,
        Lock, Unlock, TimingInv, DeletionSteps, timeVars
  <1>3. CASE DeletionTimeout(d)
    <2>1. d \notin overflowed => due[d] < Millisecond
      <3>1. /\ d \notin overflowed => due[d] < remaining[d] + Millisecond
            /\ remaining[d] = 0
        BY <1>3 DEF DeletionTimeout, Step, TimingInv
      <3>2. QED
        BY <1>t, <3>1
    <2>2. QED
      BY <1>3, <1>t, <2>1, DeletionFrame
      DEF DeletionTimeout, Step, DeletionSteps, timeVars
  <1>4. CASE DeletionRelock(d)
    BY <1>4, <1>t, DeletionFrame
    DEF DeletionRelock, Step, Lock, TimingInv, DeletionSteps, timeVars
  <1>5. CASE DeletionGivesUp(d) \/ DeletionThrows(d) \/ DeletionEnds(d)
    BY <1>5, <1>t, DeletionFrame
    DEF DeletionGivesUp, DeletionThrows, DeletionEnds, Step, Unlock,
        DeletionSteps, timeVars
  <1>6. CASE DeletionProceeds(d)
    BY <1>6, <1>t, DeletionFrame
    DEF DeletionProceeds, Step, TimingInv, DeletionSteps, timeVars
  <1>7. CASE DeletionDeletes(d)
    <2>1. d \notin overflowed => due[d] < Millisecond
      BY <1>7 DEF DeletionDeletes, Step, TimingInv
    <2>2. /\ deleted' \in [Deletions -> SUBSET {"source", "backup"}]
          /\ \A e \in Deletions \ {d} : deleted'[e] = deleted[e]
      BY <1>7, <1>t DEF DeletionDeletes
    <2>3. QED
      BY <1>7, <1>t, <2>1, <2>2, DeletionFrame
      DEF DeletionDeletes, Step, DeletionSteps, timeVars
  <1>8. QED
    BY <1>1, <1>2, <1>3, <1>4, <1>5, <1>6, <1>7 DEF DeletionRuns

-----------------------------------------------------------------------------
(* Shutdown and time *)

LEMMA MainPreserves ==
  ASSUME IInv, DestructorCalls \/ MainRuns
  PROVE  IInv'
  <1> USE DEF IInv
  <1>1. CASE DestructorCalls \/ ShutdownReturns
    BY <1>1 DEF DestructorCalls, ShutdownReturns, MainStep, TypeOK, MainSteps,
                TimingInv, NeverEarly, workerVars, timeVars
  <1>2. CASE ShutdownStore
    BY <1>2 DEF ShutdownStore, MainStep, TypeOK, MainSteps, TimingInv,
                NeverEarly, workerVars, timeVars
  <1>3. CASE ShutdownNotifyAll
    <2>1. /\ pc' \in [Deletions -> DeletionSteps]
          /\ \A d \in Deletions :
               pc'[d] = pc[d] \/ (pc[d] = "wait" /\ pc'[d] = "woken")
      BY <1>3 DEF ShutdownNotifyAll, TypeOK, DeletionSteps
    <2>2. TypeOK'
      BY <1>3, <2>1 DEF ShutdownNotifyAll, MainStep, TypeOK, MainSteps,
                        workerVars, timeVars
    <2>3. TimingInv' /\ NeverEarly'
      BY <1>3, <2>1 DEF ShutdownNotifyAll, TimingInv, NeverEarly, timeVars
    <2>4. QED
      BY <2>2, <2>3
  <1>4. CASE ShutdownWait
    <2>1. /\ pc' \in [Deletions -> DeletionSteps]
          /\ \A d \in Deletions :
               pc'[d] = pc[d] \/ (pc[d] = "deferred" /\ pc'[d] = "log")
      <3>1. pc \in [Deletions -> DeletionSteps] /\ "log" \in DeletionSteps
        BY DEF TypeOK, DeletionSteps
      <3>2. pc' = pc \/ \E d : Step(d, "deferred", "log")
        BY <1>4 DEF ShutdownWait
      <3>3. QED
        BY <3>1, <3>2 DEF Step
    <2>2. mainPc' \in MainSteps /\ waiting' \in Nat \ {0}
      BY <1>4 DEF ShutdownWait, TypeOK, MainSteps, mainVars
    <2>3. TypeOK'
      BY <1>4, <2>1, <2>2 DEF ShutdownWait, TypeOK, workerVars, timeVars
    <2>4. TimingInv' /\ NeverEarly'
      BY <1>4, <2>1 DEF ShutdownWait, TimingInv, NeverEarly, timeVars
    <2>5. QED
      BY <2>3, <2>4
  <1>5. QED
    BY <1>1, <1>2, <1>3, <1>4 DEF MainRuns

(* A tick brings the timestamps nearer by one, and the deadlines of the    *)
(* waits that have begun by no more.                                       *)
LEMMA TickPreserves ==
  ASSUME IInv, Tick
  PROVE  IInv'
  <1> USE DEF IInv
  <1>1. \A d \in Deletions :
          /\ due[d] \in 0 .. MaxDelay /\ remaining[d] \in 0 .. Horizon - 1
          /\ due'[d] = IF due[d] > 0 THEN due[d] - 1 ELSE 0
          /\ remaining'[d] = IF Timed(d) THEN remaining[d] - 1 ELSE remaining[d]
    BY DEF Tick, TickDeadlines, TypeOK
  <1>2. \A d \in Deletions : remaining'[d] = remaining[d] - 1 => remaining[d] > 0
    BY <1>1, DeleterAssumption DEF Timed
  <1>3. \A d \in Deletions :
          /\ due'[d] \in 0 .. MaxDelay /\ remaining'[d] \in 0 .. Horizon - 1
          /\ due[d] < remaining[d] + Millisecond =>
               due'[d] < remaining'[d] + Millisecond
          /\ due[d] < Millisecond => due'[d] < Millisecond
    BY <1>1, <1>2, DeleterAssumption DEF Timed
  <1>4. /\ due' \in [Deletions -> 0 .. MaxDelay]
        /\ remaining' \in [Deletions -> 0 .. Horizon - 1]
    BY <1>3 DEF Tick, TickDeadlines
  <1>5. UNCHANGED <<m_shutdown, m_mutex, workerVars, mainVars, pc, deleted,
                    overflowed>>
    BY DEF Tick
  <1>6. TypeOK'
    BY <1>4, <1>5 DEF TypeOK, workerVars, mainVars
  <1>7. TimingInv' /\ NeverEarly'
    BY <1>3, <1>5 DEF TimingInv, NeverEarly
  <1>8. QED
    BY <1>6, <1>7

-----------------------------------------------------------------------------
LEMMA NextPreservesIInv == IInv /\ [Next]_vars => IInv'
  <1> SUFFICES ASSUME IInv, [Next]_vars PROVE IInv'
    OBVIOUS
  <1>1. CASE UNCHANGED vars
    BY <1>1 DEF IInv, TypeOK, TimingInv, NeverEarly, vars, workerVars,
                mainVars, timeVars
  <1>2. ASSUME NEW w \in Workers, NEW d \in Deletions, Schedule(w, d)
        PROVE  IInv'
    BY <1>2, SchedulePreserves
  <1>3. ASSUME NEW w \in Workers, PushRead(w) \/ PushWrite(w)
        PROVE  IInv'
    BY <1>3, PushPreserves
  <1>4. ASSUME NEW d \in Deletions,
               \/ DeletionRuns(d) \/ DeletionLock(d) \/ DeletionRelock(d)
               \/ DeletionTimeout(d) \/ DeletionSpurious(d)
               \/ DeletionThrows(d)
        PROVE  IInv'
    BY <1>4, DeletionPreserves
  <1>5. CASE DestructorCalls \/ MainRuns
    BY <1>5, MainPreserves
  <1>6. CASE Tick
    BY <1>6, TickPreserves
  <1>7. QED
    BY <1>1, <1>2, <1>3, <1>4, <1>5, <1>6 DEF Next

THEOREM InductiveInvariant == SafeSpec => []IInv
  <1>1. QED
    BY InitIInv, NextPreservesIInv, PTL DEF SafeSpec

(* Type correctness: execute(), the deletion threads and shutdown() keep   *)
(* every variable in its type; the vector's size stays within its memory   *)
(* even when calls of push_back() overlap. *)
THEOREM TypeCorrect == SafeSpec => []TypeOK
  <1>1. IInv => TypeOK
    BY DEF IInv
  <1>2. QED
    BY <1>1, InductiveInvariant, PTL

(* No deletion whose time to wait can be represented comes a millisecond   *)
(* before its timestamp or earlier, however the threads and time           *)
(* interleave, whatever wakes the waiting threads, and however long one    *)
(* deletion keeps the others from the mutex.                               *)
THEOREM DeletionsAreNeverEarly == SafeSpec => []NeverEarly
  <1>1. IInv => NeverEarly
    BY DEF IInv
  <1>2. QED
    BY <1>1, InductiveInvariant, PTL

-----------------------------------------------------------------------------
(* The shutdown *)

(* The future of deletion d is in the vector, where no push_back() that    *)
(* has begun will write or end the vector; or it is about to be.           *)
Kept(d) ==
  \E i \in 1 .. m_size :
    m_futures[i] = d /\ \A w \in Pushing : i <= slot[w]

Coming(d) == \E w \in Workers : workerPc[w] # "idle" /\ scheduled[w] = d

(* A push_back() that overlaps no other has read the vector's end, no      *)
(* deletion is lost whose push_back() overlapped no other, and what        *)
(* shutdown() has waited for is done.                                      *)
JoinInv ==
  /\ \A w \in Workers :
       workerPc[w] # "idle" => scheduled[w] \in Deletions /\ mainPc = "working"
  /\ \A w \in Pushing :
       scheduled[w] \notin raced => Pushing = {w} /\ slot[w] = m_size
  /\ \A d \in Started \ raced : Kept(d) \/ Coming(d)
  /\ \A i \in 1 .. m_size :
       i < waiting => m_futures[i] \in Deletions /\ pc[m_futures[i]] = "done"
  /\ mainPc = "working" => waiting = 1
  /\ mainPc = "destroyed" => waiting > m_size
  /\ raced = {} => \A i \in 1 .. m_size : m_futures[i] \in Deletions
  /\ mainPc = "thrown" => raced # {}

LEMMA InitJoin == Init => JoinInv
  BY DEF Init, JoinInv, Started, Pushing

(* Whatever leaves the workers and shutdown() alone, starts no deletion    *)
(* and keeps what is done.                                                 *)
LEMMA JoinFrame ==
  ASSUME JoinInv, UNCHANGED <<workerVars, mainVars>>,
         \A d \in Deletions : /\ pc[d] = "none" => pc'[d] = "none"
                              /\ pc[d] = "done" => pc'[d] = "done"
  PROVE  JoinInv'
  BY DEF JoinInv, Started, Kept, Coming, Pushing, workerVars, mainVars

LEMMA ScheduleJoin ==
  ASSUME IInv, JoinInv, NEW w \in Workers, NEW d \in Deletions, Schedule(w, d)
  PROVE  JoinInv'
  <1>1. /\ workerPc[w] = "idle" /\ workerPc'[w] = "push_read"
        /\ scheduled'[w] = d
        /\ \A v \in Workers \ {w} : /\ workerPc'[v] = workerPc[v]
                                    /\ scheduled'[v] = scheduled[v]
    BY DEF Schedule, WorkerStep, IInv, TypeOK
  <1>2. /\ pc[d] = "none" /\ pc'[d] # "none"
        /\ \A e \in Deletions \ {d} : pc'[e] = pc[e]
    BY DEF Schedule, Step, IInv, TypeOK
  <1>3. /\ mainPc = "working"
        /\ UNCHANGED <<m_futures, m_size, slot, raced, mainPc, waiting>>
    BY DEF Schedule, mainVars
  <1>4. Pushing' = Pushing /\ w \notin Pushing
    BY <1>1 DEF Pushing
  <1>5. \A e \in Started' \ raced' : Kept(e)' \/ Coming(e)'
    BY <1>1, <1>2, <1>3, <1>4 DEF JoinInv, Started, Kept, Coming
  <1>6. \A i \in 1 .. m_size : ~(i < waiting)
    BY <1>3 DEF JoinInv
  <1>7. \A v \in Pushing' :
          scheduled'[v] \notin raced' => Pushing' = {v} /\ slot'[v] = m_size'
    BY <1>1, <1>3, <1>4 DEF JoinInv, Pushing
  <1>8. QED
    BY <1>1, <1>3, <1>5, <1>6, <1>7 DEF JoinInv

(* A push_back() that begins has read an end behind all that is kept.      *)
LEMMA PushReadJoin ==
  ASSUME IInv, JoinInv, NEW w \in Workers, PushRead(w)
  PROVE  JoinInv'
  <1>1. /\ workerPc[w] = "push_read" /\ workerPc'[w] = "push_write"
        /\ slot'[w] = m_size
        /\ \A v \in Workers \ {w} : /\ workerPc'[v] = workerPc[v]
                                    /\ slot'[v] = slot[v]
    BY DEF PushRead, WorkerStep, IInv, TypeOK
  <1>2. UNCHANGED <<m_futures, m_size, scheduled, mainPc, waiting, pc>>
    BY DEF PushRead, mainVars
  <1>3. /\ Pushing' = Pushing \cup {w} /\ raced \subseteq raced'
        /\ Pushing # {} => \A v \in Pushing' : scheduled'[v] \in raced'
    BY <1>1, <1>2 DEF PushRead, Pushing
  <1>4. \A d \in Started' \ raced' : Kept(d)' \/ Coming(d)'
    <2>1. ASSUME NEW d \in Started' \ raced', Kept(d) PROVE Kept(d)'
      <3>1. PICK i \in 1 .. m_size :
              m_futures[i] = d /\ \A v \in Pushing : i <= slot[v]
        BY <2>1 DEF Kept
      <3>2. i <= m_size
        BY <3>1 DEF IInv, TypeOK
      <3>3. \A v \in Pushing' : i <= slot'[v]
        BY <1>1, <1>3, <3>1, <3>2 DEF Pushing
      <3>4. QED
        BY <1>2, <3>1, <3>3 DEF Kept
    <2>2. \A d \in Deletions : Coming(d) => Coming(d)'
      BY <1>1, <1>2 DEF Coming
    <2>3. QED
      BY <1>2, <1>3, <2>1, <2>2 DEF JoinInv, Started
  <1>5. \A v \in Pushing' :
          scheduled'[v] \notin raced' => Pushing' = {v} /\ slot'[v] = m_size'
    BY <1>1, <1>2, <1>3
  <1>6. QED
    BY <1>1, <1>2, <1>3, <1>4, <1>5 DEF JoinInv

(* push_back() keeps what is in front of the end that it has read.         *)
LEMMA ConstructedKeeps ==
  ASSUME NEW n \in 0 .. Len(m_futures), NEW d \in Deletions \cup {NoDeletion},
         m_futures \in Seq(Deletions \cup {NoDeletion}), NEW size
  PROVE  /\ \A i \in 1 .. n : Constructed(n, d, size)[i] = m_futures[i]
         /\ Constructed(n, d, size)[n + 1] = d
  <1> DEFINE F == Deletions \cup {NoDeletion}
             memory == IF n < Len(m_futures) THEN [m_futures EXCEPT ![n + 1] = d]
                                             ELSE Append(m_futures, d)
  <1>1. /\ memory \in Seq(F) /\ n + 1 \in 1 .. Len(memory)
        /\ memory[n + 1] = d
        /\ \A i \in 1 .. n : memory[i] = m_futures[i]
    <2>1. CASE n < Len(m_futures)
      <3>1. n + 1 \in 1 .. Len(m_futures) /\ \A i \in 1 .. n : i # n + 1
        BY <2>1
      <3>2. memory = [m_futures EXCEPT ![n + 1] = d]
        BY <2>1
      <3>3. /\ m_futures \in [1 .. Len(m_futures) -> F]
            /\ \A i \in 1 .. n : i \in 1 .. Len(m_futures)
        BY <2>1
      <3>4. /\ memory[n + 1] = d /\ \A i \in 1 .. n : memory[i] = m_futures[i]
        BY <3>1, <3>2, <3>3
      <3>5. memory \in Seq(F) /\ Len(memory) = Len(m_futures)
        BY <3>1, <3>2
      <3>6. QED
        BY <3>1, <3>4, <3>5
    <2>2. CASE n = Len(m_futures)
      BY <2>2
    <2>3. QED
      BY <2>1, <2>2
  <1> HIDE DEF memory
  <1>2. /\ Append(memory, NoDeletion)[n + 1] = d
        /\ \A i \in 1 .. n : Append(memory, NoDeletion)[i] = m_futures[i]
    <2>1. \A i \in 1 .. Len(memory) : Append(memory, NoDeletion)[i] = memory[i]
      BY <1>1
    <2>2. \A i \in 1 .. n : i \in 1 .. Len(memory)
      BY <1>1
    <2>3. QED
      BY <1>1, <2>1, <2>2
  <1>3. Constructed(n, d, size) =
          IF size <= Len(memory) THEN memory ELSE Append(memory, NoDeletion)
    BY DEF Constructed, memory
  <1>4. QED
    BY <1>1, <1>2, <1>3

LEMMA PushWriteJoin ==
  ASSUME IInv, JoinInv, NEW w \in Workers, PushWrite(w)
  PROVE  JoinInv'
  <1>1. /\ m_size \in Nat /\ slot[w] \in Nat /\ slot[w] \in 0 .. Len(m_futures)
        /\ m_futures \in Seq(Deletions \cup {NoDeletion})
        /\ workerPc[w] = "push_write" /\ w \in Pushing
        /\ mainPc = "working" /\ waiting = 1
        /\ scheduled[w] \in Deletions
    BY DEF PushWrite, WorkerStep, JoinInv, Pushing, IInv, TypeOK
  <1>2. PICK size \in {slot[w] + 1, m_size + 1} :
          m_size' = size /\ m_futures' = Constructed(slot[w], scheduled[w], size)
    BY DEF PushWrite
  <1>3. /\ \A i \in 1 .. slot[w] : m_futures'[i] = m_futures[i]
        /\ m_futures'[slot[w] + 1] = scheduled[w]
    <2>1. scheduled[w] \in Deletions \cup {NoDeletion}
      BY <1>1
    <2>2. /\ \A i \in 1 .. slot[w] :
               Constructed(slot[w], scheduled[w], size)[i] = m_futures[i]
          /\ Constructed(slot[w], scheduled[w], size)[slot[w] + 1] = scheduled[w]
      BY <1>1, <2>1, ConstructedKeeps
    <2>3. QED
      BY <1>2, <2>2
  <1>4. UNCHANGED <<mainPc, waiting, pc, raced>>
    BY DEF PushWrite, mainVars
  <1>5. /\ workerPc'[w] = "idle"
        /\ \A v \in Workers \ {w} : /\ workerPc'[v] = workerPc[v]
                                    /\ scheduled'[v] = scheduled[v]
                                    /\ slot'[v] = slot[v]
    BY DEF PushWrite, WorkerStep, IInv, TypeOK
  <1>6. Pushing' = Pushing \ {w}
    BY <1>5 DEF Pushing
  <1>7. scheduled[w] \notin raced =>
          Pushing' = {} /\ slot[w] = m_size /\ m_size' = m_size + 1
    BY <1>1, <1>2, <1>6 DEF JoinInv
  <1>8. ASSUME NEW d \in Started' \ raced' PROVE Kept(d)' \/ Coming(d)'
    <2>1. CASE Kept(d)
      <3>1. PICK i \in 1 .. m_size :
              m_futures[i] = d /\ \A v \in Pushing : i <= slot[v]
        BY <2>1 DEF Kept
      <3>2. i \in 1 .. slot[w] /\ i \in 1 .. m_size'
        BY <1>1, <1>2, <3>1
      <3>3. m_futures'[i] = d
        BY <1>3, <3>1, <3>2
      <3>4. \A v \in Pushing' : i <= slot'[v]
        BY <1>5, <1>6, <3>1 DEF Pushing
      <3>5. QED
        BY <3>2, <3>3, <3>4 DEF Kept
    <2>2. CASE \E v \in Workers \ {w} : workerPc[v] # "idle" /\ scheduled[v] = d
      BY <1>5, <2>2 DEF Coming
    <2>3. CASE d = scheduled[w]
      <3>1. Pushing' = {} /\ m_size' = m_size + 1 /\ slot[w] = m_size
        BY <1>4, <1>7, <2>3
      <3>2. m_futures'[m_size'] = d /\ m_size' \in 1 .. m_size'
        BY <1>1, <1>3, <2>3, <3>1
      <3>3. QED
        BY <3>1, <3>2 DEF Kept
    <2>4. QED
      BY <1>4, <2>1, <2>2, <2>3 DEF JoinInv, Started, Coming
  <1>9. \A v \in Pushing' :
          scheduled'[v] \notin raced' => Pushing' = {v} /\ slot'[v] = m_size'
    <2> SUFFICES ASSUME NEW v \in Pushing', scheduled'[v] \notin raced'
                 PROVE  FALSE
      OBVIOUS
    <2>1. v \in Pushing /\ v # w /\ scheduled[v] \notin raced
      BY <1>4, <1>5, <1>6 DEF Pushing
    <2>2. Pushing = {v}
      BY <2>1 DEF JoinInv
    <2>3. QED
      BY <1>1, <2>1, <2>2
  <1>10. raced' = {} => \A i \in 1 .. m_size' : m_futures'[i] \in Deletions
    <2> SUFFICES ASSUME raced = {}, NEW i \in 1 .. m_size'
                 PROVE  m_futures'[i] \in Deletions
      BY <1>4
    <2>1. slot[w] = m_size /\ m_size' = m_size + 1
      BY <1>7
    <2>2. CASE i \in 1 .. m_size
      BY <1>3, <2>1, <2>2 DEF JoinInv
    <2>3. CASE i = m_size + 1
      BY <1>1, <1>3, <2>1, <2>3
    <2>4. QED
      BY <1>1, <2>1, <2>2, <2>3
  <1>11. \A i \in 1 .. m_size' : ~(i < waiting')
    BY <1>1, <1>4
  <1>12. \A v \in Workers :
           workerPc'[v] # "idle" => scheduled'[v] \in Deletions /\ mainPc' = "working"
    BY <1>1, <1>4, <1>5 DEF JoinInv
  <1>13. QED
    BY <1>1, <1>4, <1>8, <1>9, <1>10, <1>11, <1>12 DEF JoinInv

(* No step of a deletion ends its being done. *)
LEMMA DeletionJoin ==
  ASSUME IInv, JoinInv, NEW d \in Deletions,
         \/ DeletionRuns(d) \/ DeletionLock(d) \/ DeletionRelock(d)
         \/ DeletionTimeout(d) \/ DeletionSpurious(d) \/ DeletionThrows(d)
  PROVE  JoinInv'
  <1>1. /\ UNCHANGED <<workerVars, mainVars>>
        /\ pc[d] \notin {"none", "done"}
        /\ \E to \in DeletionSteps : pc' = [pc EXCEPT ![d] = to]
    BY DEF DeletionRuns, DeletionStarts, DeletionPred, DeletionSleep,
           DeletionGivesUp, DeletionProceeds, DeletionDeletes, DeletionEnds,
           DeletionLock, DeletionRelock, DeletionTimeout, DeletionSpurious,
           DeletionThrows, Step, DeletionSteps
  <1>2. pc \in [Deletions -> DeletionSteps]
    BY DEF IInv, TypeOK
  <1>3. \A e \in Deletions : /\ pc[e] = "none" => pc'[e] = "none"
                             /\ pc[e] = "done" => pc'[e] = "done"
    BY <1>1, <1>2
  <1>4. QED
    BY <1>1, <1>3, JoinFrame

LEMMA MainJoin ==
  ASSUME IInv, JoinInv, DestructorCalls \/ MainRuns
  PROVE  JoinInv'
  <1>t. /\ pc \in [Deletions -> DeletionSteps] /\ m_size \in Nat
        /\ waiting \in Nat \ {0}
    BY DEF IInv, TypeOK
  <1>1. CASE DestructorCalls \/ ShutdownStore \/ ShutdownReturns
    <2>1. /\ UNCHANGED <<workerVars, waiting, pc>>
          /\ mainPc' # "working" /\ (mainPc' = "destroyed" => waiting > m_size)
          /\ \A w \in Workers : workerPc[w] = "idle"
      BY <1>1 DEF DestructorCalls, ShutdownStore, ShutdownReturns, MainStep,
                  JoinInv
    <2>2. mainPc # "thrown" /\ mainPc' # "thrown"
      BY <1>1 DEF DestructorCalls, ShutdownStore, ShutdownReturns, MainStep
    <2>3. QED
      BY <2>1, <2>2 DEF JoinInv, Started, Kept, Coming, Pushing, workerVars
  <1>2. CASE ShutdownNotifyAll
    <2>1. /\ UNCHANGED <<workerVars, waiting>>
          /\ mainPc = "shutdown_notify" /\ mainPc' = "shutdown_wait"
          /\ \A d \in Deletions : /\ pc[d] = "none" => pc'[d] = "none"
                                  /\ pc[d] = "done" => pc'[d] = "done"
      BY <1>2 DEF ShutdownNotifyAll, MainStep
    <2>2. \A i \in 1 .. m_size :
            i < waiting' => m_futures[i] \in Deletions
                            /\ pc'[m_futures[i]] = "done"
      BY <2>1 DEF JoinInv
    <2>3. \A d \in Started' \ raced' : Kept(d)' \/ Coming(d)'
      <3>1. raced' = raced /\ \A d \in Started' : d \in Started
        BY <2>1 DEF Started, workerVars
      <3>2. \A d \in Deletions : (Kept(d)' <=> Kept(d)) /\ (Coming(d)' <=> Coming(d))
        BY <2>1 DEF Kept, Coming, Pushing, workerVars
      <3>3. QED
        BY <3>1, <3>2 DEF JoinInv, Started
    <2>4. \A w \in Workers : workerPc[w] = "idle"
      BY <2>1 DEF JoinInv
    <2>5. QED
      BY <2>1, <2>2, <2>3, <2>4 DEF JoinInv, Pushing, workerVars
  <1>3. CASE ShutdownWait
    <2> DEFINE d == m_futures[waiting]
    <2>1. /\ mainPc = "shutdown_wait" /\ waiting \in 1 .. m_size
          /\ d \in Deletions \cup {NoDeletion}
      BY <1>3, <1>t DEF ShutdownWait, JoinInv, IInv, TypeOK
    <2>2. UNCHANGED workerVars
      BY <1>3 DEF ShutdownWait
    <2>3. CASE d = NoDeletion /\ mainPc' = "thrown" /\ UNCHANGED <<pc, waiting>>
      <3>1. raced # {}
        BY <2>1, <2>3, DeleterAssumption DEF JoinInv
      <3>2. QED
        BY <2>1, <2>2, <2>3, <3>1
        DEF JoinInv, Started, Kept, Coming, Pushing, workerVars
    <2>4. CASE d # NoDeletion /\ Step(d, "deferred", "log") /\ UNCHANGED mainVars
      <3>1. \A e \in Deletions : /\ pc[e] = "none" => pc'[e] = "none"
                                 /\ pc[e] = "done" => pc'[e] = "done"
        BY <1>t, <2>1, <2>4 DEF Step
      <3>2. QED
        BY <2>2, <2>4, <3>1, JoinFrame
    <2>5. CASE /\ d # NoDeletion /\ pc[d] = "done" /\ waiting' = waiting + 1
               /\ UNCHANGED <<mainPc, pc>>
      <3>1. \A i \in 1 .. m_size :
              i < waiting' => m_futures[i] \in Deletions
                              /\ pc[m_futures[i]] = "done"
        BY <1>t, <2>1, <2>5 DEF JoinInv
      <3>2. QED
        BY <2>1, <2>2, <2>5, <3>1
        DEF JoinInv, Started, Kept, Coming, Pushing, workerVars
    <2>6. QED
      BY <1>3, <2>3, <2>4, <2>5 DEF ShutdownWait
  <1>4. QED
    BY <1>1, <1>2, <1>3 DEF MainRuns

LEMMA NextPreservesJoin == IInv /\ JoinInv /\ [Next]_vars => JoinInv'
  <1> SUFFICES ASSUME IInv, JoinInv, [Next]_vars PROVE JoinInv'
    OBVIOUS
  <1>1. CASE UNCHANGED vars
    BY <1>1, JoinFrame DEF vars
  <1>2. ASSUME NEW w \in Workers, NEW d \in Deletions, Schedule(w, d)
        PROVE  JoinInv'
    BY <1>2, ScheduleJoin
  <1>3. ASSUME NEW w \in Workers, PushRead(w) \/ PushWrite(w)
        PROVE  JoinInv'
    BY <1>3, PushReadJoin, PushWriteJoin
  <1>4. ASSUME NEW d \in Deletions,
               \/ DeletionRuns(d) \/ DeletionLock(d) \/ DeletionRelock(d)
               \/ DeletionTimeout(d) \/ DeletionSpurious(d)
               \/ DeletionThrows(d)
        PROVE  JoinInv'
    BY <1>4, DeletionJoin
  <1>5. CASE DestructorCalls \/ MainRuns
    BY <1>5, MainJoin
  <1>6. CASE Tick
    BY <1>6, JoinFrame DEF Tick
  <1>7. QED
    BY <1>1, <1>2, <1>3, <1>4, <1>5, <1>6 DEF Next

(* However many workers schedule, the plugin is not destroyed before the   *)
(* threads of all deletions have ended whose push_back() overlapped no     *)
(* other, those included whose call was deferred to shutdown() or ended by *)
(* an exception, and shutdown() throws only after such an overlap.         *)
THEOREM ShutdownAlwaysJoins == SafeSpec => []ShutdownJoinsDeletions
  <1>1. IInv /\ JoinInv => ShutdownJoinsDeletions
    <2>1. ASSUME IInv, JoinInv, mainPc = "destroyed", NEW d \in Started \ raced
          PROVE  pc[d] = "done"
      <3>1. Kept(d)
        BY <2>1 DEF JoinInv, Coming
      <3>2. PICK i \in 1 .. m_size : m_futures[i] = d
        BY <3>1 DEF Kept
      <3>3. i < waiting
        BY <2>1, <3>2 DEF JoinInv, IInv, TypeOK
      <3>4. QED
        BY <2>1, <3>2, <3>3 DEF JoinInv
    <2>2. QED
      BY <2>1 DEF ShutdownJoinsDeletions, JoinInv
  <1>2. QED
    BY <1>1, NextPreservesJoin, InitJoin, InductiveInvariant, PTL DEF SafeSpec

-----------------------------------------------------------------------------
(* What shutdown() misses *)

(* A deletion whose wait would begin, or has begun, without a notification *)
(* that is still to come.                                                  *)
Unnotified == {d \in Deletions : pc[d] \in {"sleep", "wait"}}

(* The critical steps exclude each other; and after notify_all(), whoever  *)
(* evaluates the predicate finds the shutdown, so that the deletion that   *)
(* was then between the predicate and its wait stays the only one.         *)
MissInv ==
  /\ \A d \in Deletions : pc[d] \in CriticalSteps => m_mutex = d
  /\ mainPc \notin {"working", "shutdown_store"} => m_shutdown
  /\ mainPc \in {"shutdown_wait", "thrown", "destroyed"} =>
       \A d, e \in Unnotified : d = e

LEMMA InitMiss == Init => MissInv
  BY DEF Init, MissInv, CriticalSteps

(* Whatever leaves the mutex, the flag and the destroying thread alone,    *)
(* and brings no deletion to a critical step or to its wait.               *)
LEMMA MissFrame ==
  ASSUME MissInv, UNCHANGED <<m_mutex, m_shutdown, mainPc>>,
         \A d \in Deletions :
           \/ pc'[d] = pc[d]
           \/ pc'[d] \notin CriticalSteps \cup {"sleep", "wait"}
  PROVE  MissInv'
  BY DEF MissInv, Unnotified

(* A deletion that acquires the mutex, has it, or releases it.             *)
LEMMA CriticalMiss ==
  ASSUME MissInv, UNCHANGED <<m_shutdown, mainPc>>,
         NEW d \in Deletions, NEW to \in DeletionSteps,
         pc \in [Deletions -> DeletionSteps],
         pc' = [pc EXCEPT ![d] = to],
         m_mutex \in {d, NoThread}, m_mutex' \in {d, NoThread},
         to \in CriticalSteps => m_mutex' = d,
         to \in {"sleep", "wait"} => d \in Unnotified \/ ~m_shutdown
  PROVE  MissInv'
  <1>1. pc'[d] = to /\ \A e \in Deletions \ {d} : pc'[e] = pc[e]
    OBVIOUS
  <1>2. \A e \in Deletions \ {d} : pc[e] \notin CriticalSteps
    BY DeleterAssumption DEF MissInv
  <1>3. \A e \in Deletions : pc'[e] \in CriticalSteps => m_mutex' = e
    BY <1>1, <1>2
  <1>4. m_shutdown => Unnotified' \subseteq Unnotified
    BY <1>1 DEF Unnotified
  <1>5. QED
    BY <1>3, <1>4 DEF MissInv

LEMMA DeletionMiss ==
  ASSUME IInv, MissInv, NEW d \in Deletions,
         \/ DeletionRuns(d) \/ DeletionLock(d) \/ DeletionRelock(d)
         \/ DeletionTimeout(d) \/ DeletionSpurious(d) \/ DeletionThrows(d)
  PROVE  MissInv'
  <1>t. pc \in [Deletions -> DeletionSteps]
    BY DEF IInv, TypeOK
  <1>1. CASE DeletionStarts(d) \/ DeletionTimeout(d) \/ DeletionSpurious(d)
    BY <1>1, <1>t, MissFrame
    DEF DeletionStarts, DeletionTimeout, DeletionSpurious, Step, mainVars,
        CriticalSteps
  <1>2. CASE DeletionLock(d) \/ DeletionRelock(d)
    BY <1>2, <1>t, CriticalMiss
    DEF DeletionLock, DeletionRelock, Step, Lock, mainVars, DeletionSteps
  <1>3. CASE DeletionPred(d) \/ DeletionProceeds(d) \/ DeletionDeletes(d)
    <2>1. m_mutex = d /\ m_mutex' = d
      BY <1>3 DEF DeletionPred, DeletionProceeds, DeletionDeletes, Step,
                  MissInv, CriticalSteps
    <2>2. QED
      BY <1>3, <1>t, <2>1, CriticalMiss
      DEF DeletionPred, DeletionProceeds, DeletionDeletes, Step, mainVars,
          DeletionSteps
  <1>4. CASE \/ DeletionSleep(d) \/ DeletionGivesUp(d) \/ DeletionEnds(d)
             \/ DeletionThrows(d)
    <2>1. m_mutex = d /\ m_mutex' = NoThread
      BY <1>4 DEF DeletionSleep, DeletionGivesUp, DeletionEnds, DeletionThrows,
                  Step, Unlock, MissInv, CriticalSteps
    <2>2. QED
      BY <1>4, <1>t, <2>1, CriticalMiss
      DEF DeletionSleep, DeletionGivesUp, DeletionEnds, DeletionThrows, Step,
          mainVars, DeletionSteps, CriticalSteps, Unnotified
  <1>5. QED
    BY <1>1, <1>2, <1>3, <1>4 DEF DeletionRuns

LEMMA MainMiss ==
  ASSUME IInv, MissInv, DestructorCalls \/ MainRuns
  PROVE  MissInv'
  <1>t. pc \in [Deletions -> DeletionSteps]
    BY DEF IInv, TypeOK
  <1>1. CASE DestructorCalls \/ ShutdownStore
    BY <1>1 DEF DestructorCalls, ShutdownStore, MainStep, MissInv
  <1>2. CASE ShutdownNotifyAll
    <2>1. \A d \in Deletions :
            \/ pc'[d] = pc[d] /\ pc[d] # "wait"
            \/ pc'[d] = "woken"
      BY <1>2 DEF ShutdownNotifyAll
    <2>2. /\ UNCHANGED <<m_mutex, m_shutdown>> /\ m_shutdown
          /\ \A d \in Deletions : pc'[d] \in CriticalSteps => m_mutex' = d
      BY <1>2, <2>1 DEF ShutdownNotifyAll, MainStep, MissInv, CriticalSteps
    <2>3. \A d \in Unnotified' : m_mutex' = d
      BY <2>1, <2>2 DEF Unnotified, CriticalSteps
    <2>4. QED
      BY <2>2, <2>3 DEF MissInv
  <1>3. CASE ShutdownWait
    <2>1. /\ UNCHANGED <<m_mutex, m_shutdown>>
          /\ mainPc = "shutdown_wait" /\ mainPc' \in {"shutdown_wait", "thrown"}
          /\ \A d \in Deletions : pc'[d] = pc[d] \/ pc'[d] = "log"
      BY <1>3, <1>t DEF ShutdownWait, Step, mainVars
    <2>2. QED
      BY <2>1 DEF MissInv, Unnotified, CriticalSteps
  <1>4. CASE ShutdownReturns
    BY <1>4 DEF ShutdownReturns, MainStep, MissInv, Unnotified
  <1>5. QED
    BY <1>1, <1>2, <1>3, <1>4 DEF MainRuns

LEMMA NextPreservesMiss == IInv /\ MissInv /\ [Next]_vars => MissInv'
  <1> SUFFICES ASSUME IInv, MissInv, [Next]_vars PROVE MissInv'
    OBVIOUS
  <1>1. CASE UNCHANGED vars \/ Tick
    BY <1>1, MissFrame DEF vars, Tick, mainVars
  <1>2. ASSUME NEW w \in Workers, NEW d \in Deletions, Schedule(w, d)
        PROVE  MissInv'
    <2>1. \A e \in Deletions : pc'[e] = pc[e] \/ pc'[e] \in {"log", "deferred"}
      BY <1>2 DEF Schedule, Step, IInv, TypeOK
    <2>2. QED
      BY <1>2, <2>1, MissFrame DEF Schedule, mainVars, CriticalSteps
  <1>3. ASSUME NEW w \in Workers, PushRead(w) \/ PushWrite(w)
        PROVE  MissInv'
    BY <1>3, MissFrame DEF PushRead, PushWrite, mainVars
  <1>4. ASSUME NEW d \in Deletions,
               \/ DeletionRuns(d) \/ DeletionLock(d) \/ DeletionRelock(d)
               \/ DeletionTimeout(d) \/ DeletionSpurious(d)
               \/ DeletionThrows(d)
        PROVE  MissInv'
    BY <1>4, DeletionMiss
  <1>5. CASE DestructorCalls \/ MainRuns
    BY <1>5, MainMiss
  <1>6. QED
    BY <1>1, <1>2, <1>3, <1>4, <1>5 DEF Next

(* However many deletions are scheduled, the notification without the      *)
(* mutex misses one of them at most, and none begins to wait afterwards:   *)
(* what a shutdown may have to wait for is one timestamp.                  *)
THEOREM ShutdownMissesAtMostOne == SafeSpec => []AtMostOneMisses
  <1>1. MissInv => AtMostOneMisses
    BY DEF MissInv, AtMostOneMisses, Unnotified
  <1>2. QED
    BY <1>1, InitMiss, NextPreservesMiss, InductiveInvariant, PTL DEF SafeSpec

=============================================================================
