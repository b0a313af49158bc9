------------------------- MODULE BackupManagerProofs ------------------------
(***************************************************************************)
(* Proofs about BackupManager, for every number of workers, plugins and    *)
(* paths.                                                                  *)
(***************************************************************************)
EXTENDS BackupManager, SequenceTheorems, TLAPS

-----------------------------------------------------------------------------
(* The inductive invariant *)

(* The flag is up exactly while stop_workers() joins. *)
FlagInv == m_shutdown <=> mainPc = "join"

IInv == TypeOK /\ FlagInv /\ PoolIsWhatRuns

LEMMA InitIInv == Init => IInv
  <1> SUFFICES ASSUME Init PROVE IInv
    OBVIOUS
  <1>1. TypeOK
    <2>1. /\ plugin \in [Workers -> Nat \ {0}]
          /\ workerPc \in [Workers -> WorkerSteps]
      BY DEF Init, WorkerSteps
    <2>2. got \in [Workers -> Paths \cup {NoPath}] /\ closed \in BOOLEAN
      BY DEF Init, Queue!Init
    <2>3. items \in Seq(Paths) /\ m_plugins \in Seq(Plugins)
      BY DEF Init, Queue!Init
    <2>4. m_workers \subseteq Workers /\ m_shutdown \in BOOLEAN /\ mainPc = "idle"
      BY DEF Init
    <2>5. QED
      BY <2>1, <2>2, <2>3, <2>4 DEF TypeOK
  <1>2. FlagInv /\ PoolIsWhatRuns
    BY DEF Init, FlagInv, PoolIsWhatRuns
  <1>3. QED
    BY <1>1, <1>2 DEF IInv

-----------------------------------------------------------------------------
(* The main thread *)

LEMMA AddPluginPreserves ==
  ASSUME IInv, NEW p \in Plugins, AddPlugin(p)
  PROVE  IInv'
  <1>1. TypeOK'
    BY DEF IInv, TypeOK, AddPlugin, workerVars, queueVars
  <1>2. FlagInv' /\ PoolIsWhatRuns'
    BY DEF IInv, FlagInv, PoolIsWhatRuns, AddPlugin, workerVars
  <1>3. QED
    BY <1>1, <1>2 DEF IInv

LEMMA StartWorkersPreserves ==
  ASSUME IInv, NEW W \in SUBSET Workers, StartWorkers(W)
  PROVE  IInv'
  <1>1. TypeOK'
    BY DEF IInv, TypeOK, StartWorkers, WorkerSteps, queueVars
  <1>2. FlagInv'
    BY DEF IInv, FlagInv, StartWorkers
  <1>3. PoolIsWhatRuns'
    BY DEF IInv, TypeOK, PoolIsWhatRuns, StartWorkers
  <1>4. QED
    BY <1>1, <1>2, <1>3 DEF IInv

LEMMA StopWorkersPreserves ==
  ASSUME IInv, StopWorkers
  PROVE  IInv'
  <1>1. TypeOK'
    BY DEF IInv, TypeOK, StopWorkers, workerVars, queueVars
  <1>2. FlagInv' /\ PoolIsWhatRuns'
    BY DEF IInv, FlagInv, PoolIsWhatRuns, StopWorkers, workerVars
  <1>3. QED
    BY <1>1, <1>2 DEF IInv

LEMMA StopJoinedPreserves ==
  ASSUME IInv, StopJoined
  PROVE  IInv'
  <1>1. TypeOK'
    BY DEF IInv, TypeOK, StopJoined, WorkerSteps, queueVars
  <1>2. FlagInv' /\ PoolIsWhatRuns'
    BY DEF IInv, FlagInv, PoolIsWhatRuns, StopJoined
  <1>3. QED
    BY <1>1, <1>2 DEF IInv

-----------------------------------------------------------------------------
(* The workers *)

(* Where a worker goes does not change the pool, unless it ends; and it    *)
(* ends only when the flag is up. *)
LEMMA WorkerFrame ==
  ASSUME IInv, NEW w \in Workers, NEW from \in WorkerSteps \ {"none"},
         NEW to \in WorkerSteps \ {"none"}, WorkerGoes(w, from, to),
         UNCHANGED mainVars, to = "exited" => m_shutdown
  PROVE  /\ workerPc' \in [Workers -> WorkerSteps]
         /\ FlagInv' /\ PoolIsWhatRuns'
  <1>1. /\ workerPc[w] # "none"
        /\ workerPc' = [workerPc EXCEPT ![w] = to]
        /\ UNCHANGED <<m_workers, m_plugins, m_shutdown, mainPc>>
    BY DEF WorkerGoes, mainVars
  <1>2. workerPc' \in [Workers -> WorkerSteps]
    BY <1>1 DEF IInv, TypeOK
  <1>3. FlagInv'
    BY <1>1 DEF IInv, FlagInv
  <1>4. \A v \in Workers : workerPc'[v] # "none" <=> v \in m_workers'
    BY <1>1 DEF IInv, TypeOK, PoolIsWhatRuns
  <1>5. ASSUME mainPc' = "idle", NEW v \in m_workers'
        PROVE  workerPc'[v] # "exited"
    BY <1>1, <1>5 DEF IInv, TypeOK, FlagInv, PoolIsWhatRuns
  <1>6. QED
    BY <1>2, <1>3, <1>4, <1>5 DEF PoolIsWhatRuns

LEMMA WorkerPreserves ==
  ASSUME IInv, NEW w \in Workers, WorkerNext(w)
  PROVE  IInv'
  <1> USE DEF WorkerSteps
  <1>1. CASE WorkerTest(w)
    <2>1. CASE m_shutdown
      <3>1. WorkerGoes(w, "test", "exited") /\ UNCHANGED mainVars
        BY <1>1, <2>1 DEF WorkerTest
      <3>2. workerPc' \in [Workers -> WorkerSteps] /\ FlagInv' /\ PoolIsWhatRuns'
        BY <2>1, <3>1, WorkerFrame
      <3>3. QED
        BY <1>1, <3>2 DEF IInv, TypeOK, WorkerTest, mainVars, queueVars
    <2>2. CASE ~m_shutdown
      <3>1. WorkerGoes(w, "test", "get") /\ UNCHANGED mainVars
        BY <1>1, <2>2 DEF WorkerTest
      <3>2. workerPc' \in [Workers -> WorkerSteps] /\ FlagInv' /\ PoolIsWhatRuns'
        BY <3>1, WorkerFrame
      <3>3. QED
        BY <1>1, <3>2 DEF IInv, TypeOK, WorkerTest, mainVars, queueVars
    <2>3. QED
      BY <2>1, <2>2
  <1>2. CASE WorkerGet(w)
    <2>1. workerPc' \in [Workers -> WorkerSteps] /\ FlagInv' /\ PoolIsWhatRuns'
      BY <1>2, WorkerFrame DEF WorkerGet
    <2>2. Head(items) \in Paths /\ Tail(items) \in Seq(Paths)
      BY <1>2 DEF IInv, TypeOK, WorkerGet, Queue!Take
    <2>3. got' \in [Workers -> Paths \cup {NoPath}]
      BY <1>2, <2>2 DEF IInv, TypeOK, WorkerGet, Queue!Take
    <2>4. plugin' \in [Workers -> Nat \ {0}]
      BY <1>2 DEF IInv, TypeOK, WorkerGet
    <2>5. TypeOK'
      BY <1>2, <2>1, <2>2, <2>3, <2>4
         DEF IInv, TypeOK, WorkerGet, Queue!Take, mainVars
    <2>6. QED
      BY <2>1, <2>5 DEF IInv
  <1>3. CASE WorkerGetNothing(w)
    <2>1. workerPc' \in [Workers -> WorkerSteps] /\ FlagInv' /\ PoolIsWhatRuns'
      BY <1>3, WorkerFrame DEF WorkerGetNothing
    <2>2. QED
      BY <1>3, <2>1 DEF IInv, TypeOK, WorkerGetNothing, mainVars, queueVars
  <1>4. CASE PluginContinues(w)
    <2>1. plugin' \in [Workers -> Nat \ {0}]
      BY <1>4 DEF IInv, TypeOK, PluginContinues
    <2>2. TypeOK'
      BY <1>4, <2>1 DEF IInv, TypeOK, PluginContinues, mainVars, queueVars
    <2>3. FlagInv' /\ PoolIsWhatRuns'
      BY <1>4 DEF IInv, FlagInv, PoolIsWhatRuns, PluginContinues, mainVars
    <2>4. QED
      BY <2>2, <2>3 DEF IInv
  <1>5. CASE PluginsDone(w)
    <2>1. workerPc' \in [Workers -> WorkerSteps] /\ FlagInv' /\ PoolIsWhatRuns'
      BY <1>5, WorkerFrame DEF PluginsDone
    <2>2. QED
      BY <1>5, <2>1 DEF IInv, TypeOK, PluginsDone, mainVars, queueVars
  <1>6. CASE PluginEnds(w)
    <2>1. workerPc' \in [Workers -> WorkerSteps] /\ FlagInv' /\ PoolIsWhatRuns'
      BY <1>6, WorkerFrame DEF PluginEnds
    <2>2. QED
      BY <1>6, <2>1 DEF IInv, TypeOK, PluginEnds, Queue!Release, mainVars
  <1>7. CASE BackupEnds(w)
    <2>1. workerPc' \in [Workers -> WorkerSteps] /\ FlagInv' /\ PoolIsWhatRuns'
      BY <1>7, WorkerFrame DEF BackupEnds
    <2>2. QED
      BY <1>7, <2>1 DEF IInv, TypeOK, BackupEnds, Queue!Release, mainVars
  <1>8. CASE WorkerGetEmpty(w)
    <2>1. workerPc' \in [Workers -> WorkerSteps] /\ FlagInv' /\ PoolIsWhatRuns'
      BY <1>8, WorkerFrame DEF WorkerGetEmpty
    <2>2. Head(items) \in Paths /\ Tail(items) \in Seq(Paths)
      BY <1>8 DEF IInv, TypeOK, WorkerGetEmpty, Queue!Take
    <2>3. got' \in [Workers -> Paths \cup {NoPath}]
      BY <1>8, <2>2 DEF IInv, TypeOK, WorkerGetEmpty, Queue!Take
    <2>4. TypeOK'
      BY <1>8, <2>1, <2>2, <2>3
         DEF IInv, TypeOK, WorkerGetEmpty, Queue!Take, mainVars
    <2>5. QED
      BY <2>1, <2>4 DEF IInv
  <1>9. QED
    BY <1>1, <1>2, <1>3, <1>4, <1>5, <1>6, <1>7, <1>8 DEF WorkerNext

-----------------------------------------------------------------------------
(* The queue's other users *)

LEMMA QueuePreserves ==
  ASSUME IInv, QueueNext
  PROVE  IInv'
  <1>1. items' \in Seq(Paths) /\ closed' \in BOOLEAN /\ UNCHANGED got
    <2>1. ASSUME NEW f \in Paths, Queue!Push(f)
          PROVE  items' \in Seq(Paths) /\ closed' \in BOOLEAN /\ UNCHANGED got
      BY <2>1 DEF IInv, TypeOK, Queue!Push, Queue!Pushed
    <2>2. CASE Queue!Close
      BY <2>2 DEF IInv, TypeOK, Queue!Close
    <2>3. QED
      BY <2>1, <2>2 DEF QueueNext
  <1>2. UNCHANGED <<m_workers, m_plugins, m_shutdown, mainPc, workerPc, plugin>>
    BY DEF QueueNext, mainVars, workerVars
  <1>3. TypeOK'
    BY <1>1, <1>2 DEF IInv, TypeOK
  <1>4. FlagInv' /\ PoolIsWhatRuns'
    BY <1>2 DEF IInv, FlagInv, PoolIsWhatRuns
  <1>5. QED
    BY <1>3, <1>4 DEF IInv

-----------------------------------------------------------------------------
LEMMA NextIInv == IInv /\ [Next]_managerVars => IInv'
  <1> SUFFICES ASSUME IInv, [Next]_managerVars PROVE IInv'
    OBVIOUS
  <1>1. CASE MainNext
    BY <1>1, AddPluginPreserves, StartWorkersPreserves, StopWorkersPreserves,
       StopJoinedPreserves DEF MainNext
  <1>2. CASE \E w \in Workers : WorkerNext(w)
    BY <1>2, WorkerPreserves
  <1>3. CASE QueueNext
    BY <1>3, QueuePreserves
  <1>4. CASE UNCHANGED managerVars
    <2>1. UNCHANGED <<m_workers, m_plugins, m_shutdown, mainPc, workerPc, plugin,
                      items, got, closed>>
      BY <1>4 DEF managerVars, mainVars, workerVars, queueVars
    <2>2. TypeOK'
      BY <2>1 DEF IInv, TypeOK
    <2>3. FlagInv' /\ PoolIsWhatRuns'
      BY <2>1 DEF IInv, FlagInv, PoolIsWhatRuns
    <2>4. QED
      BY <2>2, <2>3 DEF IInv
  <1>5. QED
    BY <1>1, <1>2, <1>3, <1>4 DEF Next

LEMMA Invariance == Spec => []IInv
  BY InitIInv, NextIInv, PTL DEF Spec

(* The vectors, flags and positions of the manager, its workers and their  *)
(* queue keep their types, however often the pool is started and stopped.  *)
THEOREM TypeCorrect == Spec => []TypeOK
  <1>1. IInv => TypeOK
    BY DEF IInv
  <1>2. QED
    BY <1>1, Invariance, PTL

(* No thread survives stop_workers(), and none that runs outside of it has *)
(* been told to stop: the reset of the flag comes neither too early nor    *)
(* too late for any worker. *)
THEOREM PoolIsAlwaysWhatRuns == Spec => []PoolIsWhatRuns
  <1>1. IInv => PoolIsWhatRuns
    BY DEF IInv
  <1>2. QED
    BY <1>1, Invariance, PTL

(* The test of add_plugin() is enough to keep the vector of plugins as it  *)
(* is while any worker iterates over it, though neither takes a lock. *)
THEOREM PluginsAreStable == Spec => PluginsStableUnderIteration
  <1>1. IInv /\ [Next]_managerVars
          => [(\E w \in Workers : workerPc[w] = "plugins")
                => UNCHANGED m_plugins]_managerVars
    <2> SUFFICES ASSUME IInv, Next, NEW w \in Workers, workerPc[w] = "plugins"
                 PROVE  UNCHANGED m_plugins
      BY DEF managerVars, mainVars
    <2>1. w \in m_workers
      BY DEF IInv, PoolIsWhatRuns
    <2>2. CASE MainNext
      BY <2>1, <2>2 DEF MainNext, AddPlugin, StartWorkers, StopWorkers, StopJoined
    <2>3. ASSUME NEW v \in Workers, WorkerNext(v)
          PROVE  UNCHANGED m_plugins
      BY <2>3 DEF WorkerNext, WorkerTest, WorkerGet, WorkerGetEmpty, WorkerGetNothing,
         PluginContinues, PluginEnds, PluginsDone, BackupEnds, mainVars
    <2>4. CASE QueueNext
      BY <2>4 DEF QueueNext, mainVars
    <2>5. QED
      BY <2>2, <2>3, <2>4 DEF Next
  <1>2. QED
    BY <1>1, Invariance, PTL DEF Spec, PluginsStableUnderIteration

-----------------------------------------------------------------------------
(* The queue under the manager *)

(* A worker takes a path only when it holds none, and only the worker that *)
(* has one lets go of it; the main thread leaves the queue alone.          *)
LEMMA NextUsesQueue == [Next]_managerVars => [Queue!Next]_(Queue!abstractVars)
  <1> SUFFICES ASSUME [Next]_managerVars
               PROVE  Queue!Next \/ UNCHANGED queueVars
    BY DEF Queue!abstractVars, queueVars
  <1>1. CASE MainNext \/ UNCHANGED managerVars
    BY <1>1 DEF MainNext, AddPlugin, StartWorkers, StopWorkers, StopJoined,
                managerVars
  <1>2. ASSUME NEW w \in Workers, WorkerNext(w)
        PROVE  Queue!Take(w) \/ Queue!Release(w) \/ UNCHANGED queueVars
    BY <1>2 DEF WorkerNext, WorkerTest, WorkerGet, WorkerGetEmpty, WorkerGetNothing,
                PluginContinues, PluginEnds, PluginsDone, BackupEnds
  <1>3. CASE QueueNext
    BY <1>3 DEF QueueNext, Queue!Next
  <1>4. QED
    BY <1>1, <1>2, <1>3 DEF Next, Queue!Next

(* The manager uses its queue as DedupQueue specifies it, which            *)
(* FileBackupQueue is shown to implement: no worker takes a second path    *)
(* before it is done with the first, however the pool is stopped and       *)
(* started again, and none takes one when the queue is closed.             *)
THEOREM ManagerUsesQueue == Spec => Queue!Spec
  <1>1. Init => Queue!Init
    BY DEF Init
  <1>2. QED
    BY <1>1, NextUsesQueue, PTL DEF Spec, Queue!Spec

=============================================================================
