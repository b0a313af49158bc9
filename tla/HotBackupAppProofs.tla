-------------------------- MODULE HotBackupAppProofs ------------------------
(***************************************************************************)
(* Proofs about HotBackupApp and its Logger, for every number of workers,  *)
(* files, changes and sessions.                                            *)
(***************************************************************************)
EXTENDS HotBackupApp, SequenceTheorems, FiniteSetTheorems, TLAPS

-----------------------------------------------------------------------------
(* The inductive invariant *)

(* TypeOK in two parts: the threads with their queue, and the log. *)
ThreadType ==
  /\ session \in 0 .. MaxSessions
  /\ mainPc \in {"off", "init_logger", "init_rest", "init_manager",
                 "start_workers", "start_observer", "console", "spinning",
                 "stop_observer", "join_observer", "close_queue", "stop_workers",
                 "join_workers", "flush", "flushing", "destroy",
                 "join_deletions", "destroy_observer", "ended"}
  /\ observerPc \in {"none", "poll", "push", "ended"}
  /\ seen \in Names \cup {NoPath}
  /\ stopping \in BOOLEAN
  /\ changes \in 0 .. MaxChanges
  /\ items \in Seq(Names)
  /\ got \in [Workers -> Names \cup {NoPath}]
  /\ closed \in BOOLEAN
  /\ workerPc \in
       [Workers -> {"none", "loop", "work", "push", "log", "log_failed", "ended"}]
  /\ stopWorkers \in BOOLEAN
  /\ deletionPc \in
         [Deletions -> {"none", "start", "wait", "asleep", "log", "ended"}]
  /\ deletionOf \in [Deletions -> Names \cup {NoPath}]
  /\ pluginDown \in BOOLEAN
  /\ pushing \in [Workers -> Deletions \cup {0}]
  /\ unjoined \subseteq Deletions

LogType ==
  /\ m_logs \in Seq(Entries \cup {Garbage})
  /\ audit \in Seq(Entries \cup {Garbage})
  /\ flushEnd \in 0 .. Len(m_logs)
  /\ cursor \in 0 .. flushEnd + 1
  /\ moved \in BOOLEAN
  /\ logged \in Seq(Entries)
  /\ history \in Seq(Entries)
  /\ flushed \in BOOLEAN
  /\ lost \in BOOLEAN

(* Whoever is about to push or to log a name has one. *)
PhaseInv ==
  /\ observerPc = "push" => seen \in Names
  /\ \A w \in Workers :
       workerPc[w] \in {"work", "log", "log_failed"} => got[w] \in Names
  /\ \A d \in Deletions : deletionPc[d] # "none" => deletionOf[d] \in Names

(* The steps of main() at which there may be a thread of each kind. *)
WithObserver == {"console", "spinning", "stop_observer", "join_observer"}
WithWorkers  ==
  WithObserver \cup {"start_observer", "close_queue", "stop_workers",
                     "join_workers"}
FlushSteps   ==
  {"flushing", "destroy", "join_deletions", "destroy_observer", "ended"}
WithDeletions == WithWorkers \cup {"flush"} \cup FlushSteps

ThreadsInv ==
  /\ observerPc # "none" => mainPc \in WithObserver
  /\ \A w \in Workers : workerPc[w] # "none" => mainPc \in WithWorkers
  /\ \A d \in Deletions : deletionPc[d] # "none" => mainPc \in WithDeletions

(* What the step of main() says of the log. *)
MainInv ==
  /\ Flushing <=> mainPc = "flushing"
  /\ ~Flushing => flushEnd = 0
  /\ mainPc = "init_logger" => m_logs = <<>> /\ logged = <<>>
  /\ mainPc = "flushing" => flushed
  /\ flushed => mainPc \in FlushSteps \cup {"off"}

Loaded == mainPc \notin {"off", "ended", "init_logger"}

(* Before its flush, the log is what earlier sessions wrote and what this  *)
(* one logged. *)
LoadedInv == Loaded /\ ~flushed /\ ~lost => m_logs = history \o logged

(* From the flush on, it goes on with what the deletions say. *)
FlushedInv ==
  flushed /\ ~lost /\ mainPc # "off" =>
    /\ Len(history) <= Len(m_logs)
    /\ \A i \in 1 .. Len(history) : history[i] = m_logs[i]
    /\ \A i \in DOMAIN m_logs : i > Len(history) => OfDeletion(m_logs[i])

(* While the flush runs, the file holds the first lines of it. *)
FlushingInv ==
  Flushing /\ ~lost =>
    /\ Len(history) = flushEnd
    /\ Len(audit) = cursor - 1
    /\ \A i \in 1 .. cursor - 1 : audit[i] = history[i]

LogInv == HistoryKept /\ LoadedInv /\ FlushedInv /\ FlushingInv

IInv == ThreadType /\ LogType /\ PhaseInv /\ ThreadsInv /\ MainInv /\ LogInv

LEMMA InitIInv == Init => IInv
  <1> SUFFICES ASSUME Init PROVE IInv
    OBVIOUS
  <1> USE AppAssumption
  <1>1. /\ items \in Seq(Names) /\ closed \in BOOLEAN
        /\ got \in [Workers -> Names \cup {NoPath}]
    <2>1. items = <<>> /\ closed = FALSE /\ got = [w \in Workers |-> NoPath]
      BY DEF Init, Queue!Init
    <2>2. items \in Seq(Names)
      BY <2>1
    <2>3. got \in [Workers -> Names \cup {NoPath}]
      BY <2>1
    <2>4. QED
      BY <2>1, <2>2, <2>3
  <1>2. /\ session \in 0 .. MaxSessions /\ changes \in 0 .. MaxChanges
        /\ workerPc \in
             [Workers -> {"none", "loop", "work", "push", "log", "log_failed", "ended"}]
        /\ deletionPc \in
               [Deletions -> {"none", "start", "wait", "asleep", "log", "ended"}]
        /\ deletionOf \in [Deletions -> Names \cup {NoPath}]
        /\ pushing \in [Workers -> Deletions \cup {0}] /\ unjoined \subseteq Deletions
    BY DEF Init
  <1>3. ThreadType
    BY <1>1, <1>2 DEF Init, ThreadType
  <1>4. /\ m_logs = <<>> /\ audit = <<>> /\ logged = <<>> /\ history = <<>>
        /\ cursor = 0 /\ flushEnd = 0 /\ moved = FALSE /\ flushed = FALSE
        /\ lost = FALSE
    BY DEF Init, LoggerInit
  <1>5. LogType
    <2>1. /\ m_logs \in Seq(Entries \cup {Garbage}) /\ Len(m_logs) = 0
          /\ audit \in Seq(Entries \cup {Garbage})
          /\ logged \in Seq(Entries) /\ history \in Seq(Entries)
      BY <1>4
    <2>2. flushEnd \in 0 .. Len(m_logs) /\ cursor \in 0 .. flushEnd + 1
      BY <1>4, <2>1
    <2>3. QED
      BY <1>4, <2>1, <2>2 DEF LogType
  <1>6. PhaseInv /\ ThreadsInv
    BY DEF Init, PhaseInv, ThreadsInv
  <1>7. MainInv /\ LogInv
    BY <1>4 DEF Init, MainInv, LogInv, HistoryKept, LoadedInv, FlushedInv,
                FlushingInv, Flushing, Loaded
  <1>8. QED
    BY <1>3, <1>5, <1>6, <1>7 DEF IInv

-----------------------------------------------------------------------------
(* Steps of main() that leave the log alone *)

(* The log's part of the invariant holds on, when main() goes from one     *)
(* step to another without touching it. *)
LEMMA SilentMain ==
  ASSUME IInv, LogsNothing, mainPc # "flushing", mainPc' # "flushing",
         mainPc' # "init_logger", mainPc \notin {"off", "ended"},
         mainPc = "init_logger" => mainPc' = "off",
         mainPc \in FlushSteps => mainPc' \in FlushSteps
  PROVE  LogType' /\ MainInv' /\ LogInv'
  <1>1. UNCHANGED <<m_logs, audit, cursor, flushEnd, moved, logged, history,
                    flushed, lost>>
    BY DEF LogsNothing, loggerVars, flushVars, journalVars
  <1>2. LogType'
    BY <1>1 DEF IInv, LogType
  <1>3. MainInv'
    BY <1>1 DEF IInv, MainInv, Flushing
  <1>4. HistoryKept' /\ FlushedInv' /\ FlushingInv'
    BY <1>1 DEF IInv, LogInv, HistoryKept, FlushedInv, FlushingInv, Flushing,
                OfDeletion
  <1>5. LoadedInv'
    BY <1>1 DEF IInv, MainInv, LogInv, LoadedInv, Loaded, FlushSteps
  <1>6. QED
    BY <1>2, <1>3, <1>4, <1>5 DEF LogInv

(* The log's part holds on, when another thread moves without logging. *)
LEMMA SilentThread ==
  ASSUME IInv, LogsNothing, UNCHANGED mainPc
  PROVE  LogType' /\ MainInv' /\ LogInv'
  <1>1. UNCHANGED <<m_logs, audit, cursor, flushEnd, moved, logged, history,
                    flushed, lost>>
    BY DEF LogsNothing, loggerVars, flushVars, journalVars
  <1>2. LogType' /\ MainInv'
    BY <1>1 DEF IInv, LogType, MainInv, Flushing
  <1>3. LogInv'
    BY <1>1 DEF IInv, LogInv, HistoryKept, LoadedInv, FlushedInv, FlushingInv,
                Flushing, Loaded, OfDeletion
  <1>4. QED
    BY <1>2, <1>3

LEMMA StartPreserves ==
  ASSUME IInv, InitRest \/ InitManager \/ StartWorkers \/ StartObserver
  PROVE  IInv'
  <1>1. LogType' /\ MainInv' /\ LogInv'
    BY SilentMain DEF InitRest, InitManager, StartWorkers, StartObserver, Main,
                      FlushSteps
  <1>2. CASE InitRest \/ InitManager
    <2>1. UNCHANGED threadVars
          /\ \/ mainPc = "init_rest" /\ mainPc' = "init_manager"
             \/ mainPc = "init_manager" /\ mainPc' = "start_workers"
          /\ UNCHANGED session
      BY <1>2 DEF InitRest, InitManager, Main
    <2>2. ThreadType' /\ PhaseInv'
      BY <2>1 DEF IInv, ThreadType, PhaseInv, threadVars, observerVars, queueVars,
                  workerVars, deletionVars
    <2>3. ThreadsInv'
      BY <2>1 DEF IInv, ThreadsInv, threadVars, observerVars, workerVars,
                  deletionVars, WithObserver, WithWorkers, WithDeletions, FlushSteps
    <2>4. QED
      BY <1>1, <2>2, <2>3 DEF IInv
  <1>3. CASE StartWorkers
    <2>1. ThreadType' /\ PhaseInv'
      BY <1>3 DEF StartWorkers, Main, IInv, ThreadType, PhaseInv, observerVars,
                  queueVars, deletionVars
    <2>2. ThreadsInv'
      BY <1>3 DEF StartWorkers, Main, IInv, ThreadsInv, observerVars, deletionVars,
                  WithObserver, WithWorkers, WithDeletions, FlushSteps
    <2>3. QED
      BY <1>1, <2>1, <2>2 DEF IInv
  <1>4. CASE StartObserver
    <2>1. ThreadType' /\ PhaseInv'
      BY <1>4 DEF StartObserver, Main, IInv, ThreadType, PhaseInv, queueVars,
                  workerVars, deletionVars
    <2>2. ThreadsInv'
      BY <1>4 DEF StartObserver, Main, IInv, ThreadsInv, workerVars, deletionVars,
                  WithObserver, WithWorkers, WithDeletions, FlushSteps
    <2>3. QED
      BY <1>1, <2>1, <2>2 DEF IInv
  <1>5. QED
    BY <1>2, <1>3, <1>4

LEMMA InitThrowsPreserves == IInv /\ InitThrows => IInv'
  <1> SUFFICES ASSUME IInv, InitThrows PROVE IInv'
    OBVIOUS
  <1>1. LogType' /\ MainInv' /\ LogInv'
    BY SilentMain DEF InitThrows, FlushSteps
  <1>2. ThreadType' /\ PhaseInv'
    BY DEF InitThrows, IInv, ThreadType, PhaseInv, threadVars, observerVars,
           queueVars, workerVars, deletionVars
  <1>3. ThreadsInv'
    BY DEF InitThrows, IInv, ThreadsInv, threadVars, observerVars, workerVars,
           deletionVars, WithObserver, WithWorkers, WithDeletions, FlushSteps
  <1>4. QED
    BY <1>1, <1>2, <1>3 DEF IInv

(* The console and the first part of shutdown(). *)
LEMMA StopPreserves ==
  ASSUME IInv,
         \/ Console \/ StopObserver \/ JoinObserver \/ CloseQueue
         \/ StopWorkers \/ JoinWorkers \/ Destroy \/ JoinDeletions
         \/ DestroyObserver
  PROVE  IInv'
  <1>1. LogType' /\ MainInv' /\ LogInv'
    BY SilentMain DEF Console, StopObserver, JoinObserver, CloseQueue,
         StopWorkers, JoinWorkers, Destroy, JoinDeletions, DestroyObserver,
         Main, FlushSteps
  <1>2. ThreadType' /\ PhaseInv'
    <2>1. CASE Console \/ JoinDeletions
      BY <2>1 DEF Console, JoinDeletions, Main, IInv, ThreadType, PhaseInv,
           threadVars, observerVars, queueVars, workerVars, deletionVars
    <2>2. CASE StopObserver \/ JoinObserver
      BY <2>2 DEF StopObserver, JoinObserver, Main, IInv,
           ThreadType, PhaseInv, queueVars, workerVars, deletionVars
    <2>3. CASE CloseQueue
      BY <2>3 DEF CloseQueue, Queue!Close, Main, IInv, ThreadType, PhaseInv,
           observerVars, workerVars, deletionVars
    <2>4. CASE StopWorkers \/ JoinWorkers
      BY <2>4 DEF StopWorkers, JoinWorkers, Main, IInv, ThreadType, PhaseInv,
           observerVars, queueVars, deletionVars
    <2>5. CASE Destroy
      <3>1. /\ deletionPc' \in
                 [Deletions -> {"none", "start", "wait", "asleep", "log", "ended"}]
            /\ \A d \in Deletions : deletionPc'[d] # "none" => deletionPc[d] # "none"
        BY <2>5 DEF Destroy, Deletes, IInv, ThreadType
      <3>2. QED
        BY <2>5, <3>1 DEF Destroy, Main, IInv, ThreadType, PhaseInv, observerVars,
             queueVars, workerVars
    <2>6. CASE DestroyObserver
      <3>1. /\ deletionPc' \in
                 [Deletions -> {"none", "start", "wait", "asleep", "log", "ended"}]
            /\ \A d \in Deletions : deletionPc'[d] # "none" => deletionPc[d] # "none"
        BY <2>6 DEF DestroyObserver
      <3>2. QED
        BY <2>6, <3>1 DEF DestroyObserver, Main, IInv, ThreadType, PhaseInv,
             queueVars, workerVars
    <2>7. QED
      BY <2>1, <2>2, <2>3, <2>4, <2>5, <2>6
  <1>3. ThreadsInv'
    <2> USE DEF IInv, ThreadsInv, Main, WithObserver, WithWorkers, WithDeletions,
                FlushSteps
    <2>1. CASE Console \/ JoinDeletions
      BY <2>1 DEF Console, JoinDeletions, threadVars, observerVars, workerVars,
                  deletionVars
    <2>2. CASE StopObserver \/ JoinObserver
      BY <2>2 DEF StopObserver, JoinObserver, workerVars, deletionVars
    <2>3. CASE CloseQueue
      BY <2>3 DEF CloseQueue, observerVars, workerVars, deletionVars
    <2>4. CASE StopWorkers \/ JoinWorkers
      BY <2>4 DEF StopWorkers, JoinWorkers, observerVars, deletionVars
    <2>5. CASE Destroy
      BY <2>5 DEF Destroy, observerVars, workerVars
    <2>6. CASE DestroyObserver
      BY <2>6 DEF DestroyObserver, workerVars
    <2>7. QED
      BY <2>1, <2>2, <2>3, <2>4, <2>5, <2>6
  <1>4. QED
    BY <1>1, <1>2, <1>3 DEF IInv

-----------------------------------------------------------------------------
(* The start and the end of a session *)

LEMMA NewThreadsTypes ==
  ASSUME ThreadType, NewThreads, session' \in 0 .. MaxSessions, UNCHANGED changes,
         mainPc' \in {"off", "init_logger"}
  PROVE  ThreadType' /\ PhaseInv' /\ ThreadsInv'
  <1>1. items' = <<>> /\ items' \in Seq(Names)
    BY DEF NewThreads
  <1>2. /\ got' \in [Workers -> Names \cup {NoPath}]
        /\ workerPc' = [w \in Workers |-> "none"]
        /\ deletionPc' = [d \in Deletions |-> "none"]
        /\ deletionOf' \in [Deletions -> Names \cup {NoPath}]
        /\ observerPc' = "none" /\ seen' = NoPath /\ stopping' = FALSE
        /\ closed' = FALSE /\ stopWorkers' = FALSE /\ pluginDown' = FALSE
        /\ pushing' \in [Workers -> Deletions \cup {0}] /\ unjoined' = {}
    BY DEF NewThreads
  <1>3. /\ workerPc' \in
             [Workers -> {"none", "loop", "work", "push", "log", "log_failed", "ended"}]
        /\ deletionPc' \in
               [Deletions -> {"none", "start", "wait", "asleep", "log", "ended"}]
        /\ changes' \in 0 .. MaxChanges /\ UNCHANGED Deletions
    BY <1>2 DEF ThreadType, Deletions
  <1>4. ThreadType'
    BY <1>1, <1>2, <1>3 DEF ThreadType
  <1>5. PhaseInv' /\ ThreadsInv'
    BY <1>2 DEF PhaseInv, ThreadsInv, Deletions
  <1>6. QED
    BY <1>4, <1>5

LEMMA LaunchPreserves == IInv /\ Launch => IInv'
  <1> SUFFICES ASSUME IInv, Launch PROVE IInv'
    OBVIOUS
  <1>1. ThreadType' /\ PhaseInv' /\ ThreadsInv'
    <2>1. session' \in 0 .. MaxSessions /\ UNCHANGED changes /\ NewThreads
          /\ mainPc' = "init_logger" /\ ThreadType
      BY AppAssumption DEF IInv, ThreadType, Launch
    <2>2. QED
      BY <2>1, NewThreadsTypes
  <1>2. /\ m_logs' = <<>> /\ logged' = <<>> /\ flushed' = FALSE
        /\ mainPc' = "init_logger"
        /\ UNCHANGED <<audit, cursor, flushEnd, moved, history, lost>>
    BY DEF Launch, flushVars
  <1>3. ~Flushing /\ ~Flushing' /\ flushEnd = 0 /\ cursor = 0
    BY <1>2 DEF Launch, IInv, MainInv, Flushing
  <1>4. LogType'
    <2>1. m_logs' \in Seq(Entries \cup {Garbage}) /\ Len(m_logs') = 0
          /\ logged' \in Seq(Entries)
      BY <1>2
    <2>2. flushEnd' \in 0 .. Len(m_logs') /\ cursor' \in 0 .. flushEnd' + 1
      BY <1>2, <1>3, <2>1
    <2>3. QED
      BY <1>2, <2>1, <2>2 DEF IInv, LogType
  <1>5. MainInv'
    BY <1>2, <1>3 DEF MainInv
  <1>6. LogInv'
    BY <1>2, <1>3 DEF IInv, LogInv, HistoryKept, LoadedInv, FlushedInv, FlushingInv,
                      Loaded
  <1>7. QED
    BY <1>1, <1>4, <1>5, <1>6 DEF IInv

(* A flush that is killed after its last line has lost nothing. *)
LEMMA CrashPreserves == IInv /\ Crash => IInv'
  <1> SUFFICES ASSUME IInv, Crash PROVE IInv'
    OBVIOUS
  <1>1. ThreadType' /\ PhaseInv' /\ ThreadsInv'
    BY NewThreadsTypes DEF IInv, ThreadType, Crash
  <1>2. /\ mainPc' = "off" /\ cursor' = 0 /\ flushEnd' = 0 /\ moved' = FALSE
        /\ lost' = (lost \/ cursor \in 1 .. flushEnd)
        /\ UNCHANGED <<m_logs, audit, logged, history, flushed>>
    BY DEF Crash
  <1>3. LogType'
    <2>1. Len(m_logs) \in Nat
      BY DEF IInv, LogType
    <2>2. flushEnd' \in 0 .. Len(m_logs') /\ cursor' \in 0 .. flushEnd' + 1
      BY <1>2, <2>1
    <2>3. QED
      BY <1>2, <2>2 DEF IInv, LogType
  <1>4. MainInv'
    BY <1>2 DEF MainInv, Flushing
  <1>5. HistoryKept'
    <2> SUFFICES ASSUME ~lost, cursor \notin 1 .. flushEnd
                 PROVE  audit = history
      BY <1>2 DEF HistoryKept
    <2>1. CASE ~Flushing
      BY <2>1 DEF IInv, LogInv, HistoryKept
    <2>2. CASE Flushing
      <3>1. cursor = flushEnd + 1 /\ flushEnd \in Nat
        BY <2>2 DEF IInv, LogType, Flushing
      <3>2. /\ Len(audit) = flushEnd /\ Len(history) = flushEnd
            /\ \A i \in 1 .. flushEnd : audit[i] = history[i]
        BY <2>2, <3>1 DEF IInv, LogInv, FlushingInv
      <3>3. /\ audit \in Seq(Entries \cup {Garbage})
            /\ history \in Seq(Entries \cup {Garbage})
        BY DEF IInv, LogType
      <3>4. QED
        BY <3>2, <3>3, SeqEqual
    <2>3. QED
      BY <2>1, <2>2
  <1>6. LogInv'
    BY <1>2, <1>5 DEF LogInv, LoadedInv, FlushedInv, FlushingInv, Loaded, Flushing
  <1>7. QED
    BY <1>1, <1>3, <1>4, <1>6 DEF IInv

LEMMA InitLoggerPreserves == IInv /\ InitLogger => IInv'
  <1> SUFFICES ASSUME IInv, InitLogger PROVE IInv'
    OBVIOUS
  <1>1. /\ mainPc = "init_logger" /\ mainPc' = "init_rest"
        /\ UNCHANGED <<session, threadVars, logged, history, flushed>>
        /\ UNCHANGED <<audit, cursor, flushEnd, moved>>
        /\ m_logs = <<>> /\ logged = <<>>
    BY DEF InitLogger, Main, LoadPreviousLogs, LoadFails, loggerVars, flushVars,
           IInv, MainInv
  <1>2. ThreadType' /\ PhaseInv'
    BY <1>1 DEF IInv, ThreadType, PhaseInv, threadVars, observerVars, queueVars,
                workerVars, deletionVars
  <1>3. ThreadsInv'
    BY <1>1 DEF IInv, ThreadsInv, threadVars, observerVars, workerVars,
                deletionVars, WithObserver, WithWorkers, WithDeletions, FlushSteps
  <1>4. ~Flushing /\ cursor = 0 /\ flushEnd = 0 /\ ~flushed
    BY <1>1 DEF IInv, MainInv, Flushing, FlushSteps
  <1>5. \/ m_logs' = audit /\ UNCHANGED lost
        \/ m_logs' = <<>> /\ lost' = (lost \/ audit # <<>>)
    <2>1. <<>> \o audit = audit
      BY DEF IInv, LogType
    <2>2. QED
      BY <1>1, <2>1 DEF InitLogger, LoadPreviousLogs, LoadFails, loggerVars
  <1>6. LogType'
    <2>1. m_logs' \in Seq(Entries \cup {Garbage}) /\ lost' \in BOOLEAN
      <3>1. audit \in Seq(Entries \cup {Garbage}) /\ lost \in BOOLEAN
        BY DEF IInv, LogType
      <3>2. <<>> \in Seq(Entries \cup {Garbage})
        OBVIOUS
      <3>3. QED
        BY <1>5, <3>1, <3>2, Zenon
    <2>2. flushEnd' \in 0 .. Len(m_logs') /\ cursor' \in 0 .. flushEnd' + 1
      BY <1>1, <1>4, <2>1
    <2>3. QED
      BY <1>1, <2>1, <2>2 DEF IInv, LogType
  <1>7. MainInv'
    BY <1>1, <1>4 DEF MainInv, Flushing
  <1>8. LogInv'
    <2>1. HistoryKept'
      BY <1>1, <1>4, <1>5 DEF IInv, LogInv, HistoryKept, Flushing
    <2>2. ~lost' => m_logs' = history' \o logged'
      <3>1. ~lost' => m_logs' = history
        BY <1>4, <1>5 DEF IInv, LogInv, HistoryKept
      <3>2. history \o <<>> = history
        BY DEF IInv, LogType
      <3>3. QED
        BY <1>1, <3>1, <3>2
    <2>3. QED
      BY <1>1, <1>4, <2>1, <2>2
         DEF LogInv, LoadedInv, FlushedInv, FlushingInv, Flushing
  <1>9. QED
    BY <1>2, <1>3, <1>6, <1>7, <1>8 DEF IInv

-----------------------------------------------------------------------------
(* The flush *)

LEMMA FlushThreads ==
  ASSUME IInv, UNCHANGED <<session, threadVars>>,
         mainPc \in {"flush", "flushing"}, mainPc' \in {"flushing", "destroy"}
  PROVE  ThreadType' /\ PhaseInv' /\ ThreadsInv'
  <1>1. ThreadType' /\ PhaseInv'
    BY DEF IInv, ThreadType, PhaseInv, threadVars, observerVars, queueVars,
           workerVars, deletionVars
  <1>2. ThreadsInv'
    BY DEF IInv, ThreadsInv, threadVars, observerVars, workerVars, deletionVars,
           WithObserver, WithWorkers, WithDeletions, FlushSteps
  <1>3. QED
    BY <1>1, <1>2

(* A flush begins with what the history has from then on. *)
LEMMA FlushPreserves == IInv /\ Flush => IInv'
  <1> SUFFICES ASSUME IInv, Flush PROVE IInv'
    OBVIOUS
  <1>1. ThreadType' /\ PhaseInv' /\ ThreadsInv'
    BY FlushThreads DEF Flush, Main
  <1>2. CASE FlushOpenFails /\ mainPc' = "destroy"
    <2>1. mainPc = "flush" /\ LogsNothing
      BY <1>2 DEF Flush, FlushOpenFails, FlushOpens, Main, LogsNothing,
                  journalVars
    <2>2. LogType' /\ MainInv' /\ LogInv'
      BY <1>2, <2>1, SilentMain DEF FlushSteps
    <2>3. QED
      BY <1>1, <2>2 DEF IInv
  <1>3. CASE FlushOpens /\ mainPc' = "flushing"
    <2>1. /\ mainPc = "flush" /\ audit' = <<>> /\ cursor' = 1
          /\ flushEnd' = Len(m_logs) /\ flushed' = TRUE
          /\ history' = history \o logged
          /\ UNCHANGED <<m_logs, moved, logged, lost>>
      BY <1>3 DEF Flush, FlushOpens, FlushOpenFails, Main
    <2>2. ~flushed
      BY <2>1 DEF IInv, MainInv, FlushSteps
    <2>3. LogType'
      <3>1. audit' \in Seq(Entries \cup {Garbage}) /\ history' \in Seq(Entries)
        BY <2>1 DEF IInv, LogType
      <3>2. Len(m_logs) \in Nat
        BY DEF IInv, LogType
      <3>3. flushEnd' \in 0 .. Len(m_logs') /\ cursor' \in 0 .. flushEnd' + 1
        BY <2>1, <3>2
      <3>4. QED
        BY <2>1, <3>1, <3>3 DEF IInv, LogType
    <2>4. MainInv'
      BY <1>3, <2>1 DEF MainInv, Flushing, FlushSteps
    <2>5. ~lost => history' = m_logs
      BY <2>1, <2>2 DEF IInv, LogInv, LoadedInv, Loaded
    <2>6. Len(m_logs) \in Nat /\ DOMAIN m_logs = 1 .. Len(m_logs)
      BY DEF IInv, LogType
    <2>7. HistoryKept' /\ LoadedInv'
      BY <2>1 DEF HistoryKept, LoadedInv, Flushing
    <2>8. FlushedInv'
      BY <2>1, <2>5, <2>6 DEF FlushedInv
    <2>9. FlushingInv'
      <3>1. Len(audit') = 0
        BY <2>1
      <3>2. QED
        BY <2>1, <2>5, <2>6, <3>1 DEF FlushingInv
    <2>10. QED
      BY <1>1, <2>3, <2>4, <2>7, <2>8, <2>9 DEF IInv, LogInv
  <1>4. QED
    BY <1>2, <1>3 DEF Flush, Main

(* Each line of the flush is the next one of the history, or some is lost. *)
LEMMA FlushLoopPreserves == IInv /\ FlushLoop => IInv'
  <1> SUFFICES ASSUME IInv, FlushLoop PROVE IInv'
    OBVIOUS
  <1>1. /\ mainPc = "flushing" /\ mainPc' = "flushing" /\ cursor <= flushEnd
        /\ UNCHANGED <<session, threadVars, logged, history, flushed>>
        /\ UNCHANGED <<m_logs, flushEnd, moved>>
    BY DEF FlushLoop, FlushWritesLine, FlushBreaks
  <1>2. ThreadType' /\ PhaseInv' /\ ThreadsInv'
    BY <1>1, FlushThreads
  <1>3. /\ Flushing /\ flushed /\ cursor \in 1 .. flushEnd
        /\ flushEnd \in Nat /\ Len(m_logs) \in Nat /\ flushEnd <= Len(m_logs)
    BY <1>1 DEF IInv, MainInv, LogType, Flushing
  <1>4. /\ audit' \in Seq(Entries \cup {Garbage}) /\ lost' \in BOOLEAN
        /\ cursor' \in 1 .. flushEnd + 1
        /\ ~lost' => /\ ~lost /\ cursor' = cursor + 1
                     /\ audit' = Append(audit, m_logs[cursor])
    <2>1. ASSUME NEW line \in Readable(cursor), FlushWritesLine(line),
                 lost' = (lost \/ line # m_logs[cursor])
          PROVE  /\ audit' \in Seq(Entries \cup {Garbage})
                 /\ cursor' = cursor + 1 /\ lost' \in BOOLEAN
                 /\ ~lost' => ~lost /\ audit' = Append(audit, m_logs[cursor])
      <3>1. line \in Entries \cup {Garbage}
        BY <1>3 DEF Readable, IInv, LogType
      <3>2. audit \in Seq(Entries \cup {Garbage}) /\ lost \in BOOLEAN
        BY DEF IInv, LogType
      <3>3. audit' = Append(audit, line) /\ cursor' = cursor + 1
        BY <2>1 DEF FlushWritesLine
      <3>4. audit' \in Seq(Entries \cup {Garbage})
        BY <3>1, <3>2, <3>3
      <3>5. QED
        BY <2>1, <3>2, <3>3, <3>4, Zenon
    <2>2. CASE FlushBreaks /\ lost' = TRUE
      BY <1>3, <2>2 DEF FlushBreaks, IInv, LogType
    <2>3. CASE \E line \in Readable(cursor) :
                 FlushWritesLine(line) /\ lost' = (lost \/ line # m_logs[cursor])
      <3>1. cursor + 1 \in 1 .. flushEnd + 1
        BY <1>3
      <3>2. QED
        BY <2>1, <2>3, <3>1, Zenon
    <2>4. QED
      BY <2>2, <2>3, Zenon DEF FlushLoop
  <1>5. LogType'
    BY <1>1, <1>3, <1>4 DEF IInv, LogType
  <1>6. MainInv'
    BY <1>1, <1>3, <1>4 DEF IInv, MainInv, Flushing
  <1>7. HistoryKept' /\ LoadedInv'
    BY <1>1, <1>3, <1>4 DEF HistoryKept, LoadedInv, Flushing
  <1>8. FlushedInv'
    BY <1>1, <1>3, <1>4 DEF IInv, LogInv, FlushedInv, OfDeletion
  <1>9. FlushingInv'
    <2> SUFFICES ASSUME ~lost'
                 PROVE  /\ Len(history) = flushEnd
                        /\ Len(audit') = cursor' - 1
                        /\ \A i \in 1 .. cursor' - 1 : audit'[i] = history[i]
      BY <1>1 DEF FlushingInv
    <2>1. /\ ~lost /\ cursor' = cursor + 1
          /\ audit' = Append(audit, m_logs[cursor])
      BY <1>4
    <2>2. /\ Len(history) = flushEnd /\ Len(audit) = cursor - 1
          /\ \A i \in 1 .. cursor - 1 : audit[i] = history[i]
      BY <1>3, <2>1 DEF IInv, LogInv, FlushingInv
    <2>3. m_logs[cursor] = history[cursor]
      BY <1>1, <1>3, <2>1, <2>2 DEF IInv, LogInv, FlushedInv
    <2>4. /\ audit \in Seq(Entries \cup {Garbage})
          /\ m_logs[cursor] \in Entries \cup {Garbage}
      BY <1>3 DEF IInv, LogType
    <2>5. Len(audit') = cursor /\ audit'[cursor] = m_logs[cursor]
          /\ \A i \in 1 .. cursor - 1 : audit'[i] = audit[i]
      BY <1>3, <2>1, <2>2, <2>4
    <2>6. QED
      BY <1>3, <2>1, <2>2, <2>3, <2>5
  <1>10. QED
    BY <1>2, <1>5, <1>6, <1>7, <1>8, <1>9 DEF IInv, LogInv

(* The flush that ends has written the history. *)
LEMMA FlushDonePreserves == IInv /\ FlushDone => IInv'
  <1> SUFFICES ASSUME IInv, FlushDone PROVE IInv'
    OBVIOUS
  <1>1. /\ mainPc = "flushing" /\ mainPc' = "destroy" /\ cursor = flushEnd + 1
        /\ cursor' = 0 /\ flushEnd' = 0 /\ moved' = FALSE
        /\ UNCHANGED <<session, threadVars, m_logs, audit>>
        /\ UNCHANGED <<logged, history, flushed, lost>>
    BY DEF FlushDone, Main, FlushCloses, journalVars
  <1>2. ThreadType' /\ PhaseInv' /\ ThreadsInv'
    BY <1>1, FlushThreads
  <1>3. LogType'
    <2>1. Len(m_logs) \in Nat
      BY DEF IInv, LogType
    <2>2. flushEnd' \in 0 .. Len(m_logs') /\ cursor' \in 0 .. flushEnd' + 1
      BY <1>1, <2>1
    <2>3. QED
      BY <1>1, <2>2 DEF IInv, LogType
  <1>4. MainInv'
    BY <1>1 DEF IInv, MainInv, Flushing, FlushSteps
  <1>5. ~lost => audit = history
    <2> SUFFICES ASSUME ~lost PROVE audit = history
      OBVIOUS
    <2>1. Flushing /\ flushEnd \in Nat
      BY <1>1 DEF IInv, MainInv, LogType
    <2>2. /\ Len(audit) = flushEnd /\ Len(history) = flushEnd
          /\ \A i \in 1 .. flushEnd : audit[i] = history[i]
      BY <1>1, <2>1 DEF IInv, LogInv, FlushingInv
    <2>3. /\ audit \in Seq(Entries \cup {Garbage})
          /\ history \in Seq(Entries \cup {Garbage})
      BY DEF IInv, LogType
    <2>4. QED
      BY <2>2, <2>3, SeqEqual
  <1>6. flushed
    BY <1>1 DEF IInv, MainInv
  <1>7. HistoryKept' /\ LoadedInv' /\ FlushingInv'
    BY <1>1, <1>5, <1>6 DEF HistoryKept, LoadedInv, FlushingInv, Flushing
  <1>8. FlushedInv'
    BY <1>1, <1>6 DEF IInv, LogInv, FlushedInv, OfDeletion
  <1>9. QED
    BY <1>2, <1>3, <1>4, <1>7, <1>8 DEF IInv, LogInv

-----------------------------------------------------------------------------
(* An entry is logged *)

(* Before the flush an entry becomes part of what it will write; after it  *)
(* began, only deletions are left to log one.                              *)
LEMMA LogsPreserves ==
  ASSUME IInv, UNCHANGED mainPc, mainPc \notin {"off", "init_logger"},
         NEW kind \in {"changed", "backedup", "deleted", "failed", "scheduled",
                       "expired"},
         NEW n \in Names, Logs(kind, n),
         mainPc \in FlushSteps => kind \in {"scheduled", "expired"}
  PROVE  LogType' /\ MainInv' /\ LogInv'
  <1> DEFINE e == Entry(kind, n)
  <1>1. /\ m_logs' = Append(m_logs, e) /\ logged' = Append(logged, e)
        /\ UNCHANGED <<audit, cursor, flushEnd, history, flushed, lost>>
        /\ moved' \in {moved, TRUE}
    BY DEF Logs, Log, journalVars
  <1>2. /\ e \in Entries
        /\ mainPc \in FlushSteps => OfDeletion(e)
    BY DEF Entries, Entry, OfDeletion
  <1>3. /\ m_logs \in Seq(Entries \cup {Garbage}) /\ logged \in Seq(Entries)
        /\ history \in Seq(Entries) /\ moved \in BOOLEAN
    BY DEF IInv, LogType
  <1> HIDE DEF e
  <1>4. /\ m_logs' \in Seq(Entries \cup {Garbage}) /\ Len(m_logs') = Len(m_logs) + 1
        /\ DOMAIN m_logs = 1 .. Len(m_logs) /\ Len(m_logs) \in Nat
        /\ DOMAIN m_logs' = 1 .. Len(m_logs) + 1
        /\ \A i \in 1 .. Len(m_logs) : m_logs'[i] = m_logs[i]
        /\ m_logs'[Len(m_logs) + 1] = e
    BY <1>1, <1>2, <1>3
  <1>5. LogType'
    <2>1. logged' \in Seq(Entries)
      BY <1>1, <1>2, <1>3
    <2>2. flushEnd' \in 0 .. Len(m_logs')
      BY <1>1, <1>4 DEF IInv, LogType
    <2>3. QED
      BY <1>1, <1>3, <1>4, <2>1, <2>2 DEF IInv, LogType
  <1>6. MainInv'
    BY <1>1 DEF IInv, MainInv, Flushing
  <1>7. HistoryKept' /\ FlushingInv'
    BY <1>1 DEF IInv, LogInv, HistoryKept, FlushingInv, Flushing
  <1>8. LoadedInv'
    <2>1. history \o Append(logged, e) = Append(history \o logged, e)
      BY <1>2, <1>3
    <2>2. QED
      BY <1>1, <2>1 DEF IInv, LogInv, LoadedInv, Loaded
  <1>9. FlushedInv'
    <2> SUFFICES ASSUME flushed, ~lost
                 PROVE  /\ Len(history) <= Len(m_logs')
                        /\ \A i \in 1 .. Len(history) : history[i] = m_logs'[i]
                        /\ \A i \in DOMAIN m_logs' :
                             i > Len(history) => OfDeletion(m_logs'[i])
      BY <1>1 DEF FlushedInv, OfDeletion
    <2>1. OfDeletion(e)
      BY <1>2 DEF IInv, MainInv
    <2>2. /\ Len(history) <= Len(m_logs) /\ Len(history) \in Nat
          /\ \A i \in 1 .. Len(history) : history[i] = m_logs[i]
          /\ \A i \in DOMAIN m_logs : i > Len(history) => OfDeletion(m_logs[i])
      BY <1>3 DEF IInv, LogInv, FlushedInv
    <2>3. ASSUME NEW i \in DOMAIN m_logs', i > Len(history)
          PROVE  OfDeletion(m_logs'[i])
      <3>1. CASE i = Len(m_logs) + 1
        BY <1>4, <2>1, <3>1
      <3>2. CASE i # Len(m_logs) + 1
        <4>1. i \in DOMAIN m_logs /\ m_logs'[i] = m_logs[i]
          BY <1>4, <2>3, <3>2
        <4>2. QED
          BY <2>2, <2>3, <4>1
      <3>3. QED
        BY <3>1, <3>2
    <2>4. \A i \in 1 .. Len(history) : history[i] = m_logs'[i]
      BY <1>4, <2>2
    <2>5. QED
      BY <1>4, <2>2, <2>3, <2>4
  <1>10. QED
    BY <1>5, <1>6, <1>7, <1>8, <1>9 DEF LogInv

-----------------------------------------------------------------------------
(* The observer *)

LEMMA ObserverPreserves == IInv /\ (Observer \/ ObserverEnds) => IInv'
  <1> SUFFICES ASSUME IInv, Observer \/ ObserverEnds PROVE IInv'
    OBVIOUS
  <1>1. /\ UNCHANGED mainPc /\ mainPc \in WithObserver
        /\ observerPc' \in {"poll", "push", "ended"}
        /\ UNCHANGED <<session, stopping, got, closed, workerVars, deletionVars>>
    BY DEF Observer, ObserverLogs, ObserverPushes, ObserverEnds, Observes,
           queueVars, IInv, ThreadsInv
  <1>2. ThreadsInv'
    BY <1>1 DEF IInv, ThreadsInv, workerVars, deletionVars
  <1>3. ASSUME NEW n \in Names, ObserverLogs(n)
        PROVE  LogType' /\ MainInv' /\ LogInv' /\ ThreadType' /\ PhaseInv'
    <2>1. LogType' /\ MainInv' /\ LogInv'
      BY <1>1, <1>3, LogsPreserves DEF ObserverLogs, WithObserver, FlushSteps
    <2>2. changes' \in 0 .. MaxChanges
      BY <1>3, AppAssumption DEF ObserverLogs, IInv, ThreadType
    <2>3. ThreadType' /\ PhaseInv'
      BY <1>1, <1>3, <2>2 DEF ObserverLogs, Observes, IInv, ThreadType, PhaseInv,
           queueVars, workerVars, deletionVars
    <2>4. QED
      BY <2>1, <2>3
  <1>4. CASE ObserverPushes
    <2>1. LogType' /\ MainInv' /\ LogInv'
      BY <1>1, <1>4, SilentThread DEF ObserverPushes
    <2>2. items' \in Seq(Names)
      BY <1>4 DEF ObserverPushes, Observes, Queue!Pushed, IInv, ThreadType, PhaseInv
    <2>3. ThreadType' /\ PhaseInv'
      BY <1>1, <1>4, <2>2 DEF ObserverPushes, Observes, IInv, ThreadType, PhaseInv,
           workerVars, deletionVars
    <2>4. QED
      BY <1>2, <2>1, <2>3 DEF IInv
  <1>5. CASE ObserverEnds
    <2>1. LogType' /\ MainInv' /\ LogInv'
      BY <1>1, <1>5, SilentThread DEF ObserverEnds
    <2>2. ThreadType' /\ PhaseInv'
      BY <1>1, <1>5 DEF ObserverEnds, Observes, IInv, ThreadType, PhaseInv,
           queueVars, workerVars, deletionVars
    <2>3. QED
      BY <1>2, <2>1, <2>2 DEF IInv
  <1>6. QED
    BY <1>2, <1>3, <1>4, <1>5 DEF Observer, IInv

-----------------------------------------------------------------------------
(* The workers *)

(* The threads' part of the invariant, when a worker moves and holds a     *)
(* name where it needs one. *)
LEMMA WorkerFrame ==
  ASSUME IInv, NEW w \in Workers,
         NEW from \in {"loop", "work", "push", "log", "log_failed"},
         NEW to \in {"loop", "work", "log", "log_failed", "ended"},
         Works(w, from, to), NEW d \in Deletions \cup {0},
         items' \in Seq(Names), UNCHANGED closed,
         NEW name \in Names \cup {NoPath}, got' = [got EXCEPT ![w] = name],
         to \in {"work", "log", "log_failed"} => name \in Names,
         pushing' = [pushing EXCEPT ![w] = d],
         UNCHANGED <<session, mainPc, observerVars, stopWorkers, deletionPc,
                     deletionOf, pluginDown, unjoined>>
  PROVE  /\ mainPc \in WithWorkers
         /\ ThreadType' /\ PhaseInv' /\ ThreadsInv'
  <1>1. workerPc[w] = from /\ workerPc' = [workerPc EXCEPT ![w] = to]
    BY DEF Works
  <1>2. mainPc \in WithWorkers
    BY <1>1 DEF IInv, ThreadsInv
  <1>3. ThreadType'
    BY <1>1 DEF IInv, ThreadType, observerVars
  <1>4. PhaseInv'
    BY <1>1 DEF IInv, ThreadType, PhaseInv, observerVars
  <1>5. ThreadsInv'
    BY <1>1, <1>2 DEF IInv, ThreadType, ThreadsInv, observerVars
  <1>6. QED
    BY <1>2, <1>3, <1>4, <1>5

LEMMA WorkerKeepsQueue ==
  ASSUME IInv, NEW w \in Workers, UNCHANGED queueVars
  PROVE  /\ items' \in Seq(Names) /\ UNCHANGED closed
         /\ got[w] \in Names \cup {NoPath} /\ got' = [got EXCEPT ![w] = got[w]]
  BY DEF IInv, ThreadType, queueVars

LEMMA WorkerKeepsDeletions ==
  ASSUME IInv, NEW w \in Workers, UNCHANGED deletionVars
  PROVE  /\ pushing[w] \in Deletions \cup {0}
         /\ pushing' = [pushing EXCEPT ![w] = pushing[w]]
         /\ UNCHANGED <<deletionPc, deletionOf, pluginDown, unjoined>>
  BY DEF IInv, ThreadType, deletionVars

LEMMA WorkerReleases ==
  ASSUME IInv, NEW w \in Workers, Queue!Release(w)
  PROVE  /\ items' \in Seq(Names) /\ UNCHANGED closed
         /\ got' = [got EXCEPT ![w] = NoPath]
  BY DEF IInv, ThreadType, Queue!Release

(* A worker that keeps its name, and one that ends with it.                *)
LEMMA WorkerGoesOn ==
  ASSUME IInv, NEW w \in Workers, NEW from \in {"loop", "work"},
         NEW to \in {"log", "log_failed", "ended"}, Works(w, from, to),
         to # "ended" => got[w] \in Names,
         UNCHANGED <<session, mainPc, observerVars, stopWorkers, queueVars,
                     deletionVars>>
  PROVE  ThreadType' /\ PhaseInv' /\ ThreadsInv'
  <1>1. /\ items' \in Seq(Names) /\ UNCHANGED closed
        /\ got[w] \in Names \cup {NoPath} /\ got' = [got EXCEPT ![w] = got[w]]
    BY WorkerKeepsQueue
  <1>2. /\ pushing[w] \in Deletions \cup {0}
        /\ pushing' = [pushing EXCEPT ![w] = pushing[w]]
        /\ UNCHANGED <<deletionPc, deletionOf, pluginDown, unjoined>>
    BY WorkerKeepsDeletions
  <1>3. QED
    BY <1>1, <1>2, WorkerFrame

LEMMA WorkerIsDone ==
  ASSUME IInv, NEW w \in Workers, NEW from \in {"work", "log", "log_failed"},
         Works(w, from, "loop"), Queue!Release(w),
         UNCHANGED <<session, mainPc, observerVars, stopWorkers, deletionVars>>
  PROVE  /\ mainPc \in WithWorkers
         /\ ThreadType' /\ PhaseInv' /\ ThreadsInv'
  <1>1. /\ items' \in Seq(Names) /\ UNCHANGED closed
        /\ got' = [got EXCEPT ![w] = NoPath]
    BY WorkerReleases
  <1>2. /\ pushing[w] \in Deletions \cup {0}
        /\ pushing' = [pushing EXCEPT ![w] = pushing[w]]
        /\ UNCHANGED <<deletionPc, deletionOf, pluginDown, unjoined>>
    BY WorkerKeepsDeletions
  <1>3. NoPath \in Names \cup {NoPath}
    OBVIOUS
  <1>4. QED
    BY <1>1, <1>2, <1>3, WorkerFrame

LEMMA WorkerPreserves ==
  ASSUME IInv, NEW w \in Workers, Worker(w) \/ WorkerEnds(w)
  PROVE  IInv'
  <1>1. CASE WorkerTakes(w)
    <2>1. LogType' /\ MainInv' /\ LogInv'
      BY <1>1, SilentThread DEF WorkerTakes
    <2>2. /\ Head(items) \in Names /\ items' \in Seq(Names) /\ UNCHANGED closed
          /\ got' = [got EXCEPT ![w] = Head(items)]
      BY <1>1 DEF WorkerTakes, Queue!Take, IInv, ThreadType
    <2>3. ThreadType' /\ PhaseInv' /\ ThreadsInv'
      BY <1>1, <2>2, WorkerKeepsDeletions, WorkerFrame DEF WorkerTakes
    <2>4. QED
      BY <2>1, <2>3 DEF IInv
  <1>2. CASE WorkerServes(w)
    <2>1. LogType' /\ MainInv' /\ LogInv'
      BY <1>2, SilentThread DEF WorkerServes
    <2>2. got[w] \in Names
          /\ UNCHANGED <<session, mainPc, observerVars, stopWorkers, deletionVars>>
      BY <1>2 DEF WorkerServes, Names
    <2>3. ThreadType' /\ PhaseInv' /\ ThreadsInv'
      <3>1. CASE Works(w, "work", "log") /\ UNCHANGED queueVars
        BY <2>2, <3>1, WorkerGoesOn
      <3>2. CASE Works(w, "work", "log_failed") /\ UNCHANGED queueVars
        BY <2>2, <3>2, WorkerGoesOn
      <3>3. CASE Works(w, "work", "loop") /\ Queue!Release(w)
        BY <2>2, <3>3, WorkerIsDone
      <3>4. QED
        BY <1>2, <3>1, <3>2, <3>3 DEF WorkerServes
    <2>4. QED
      BY <2>1, <2>3 DEF IInv
  <1>3. CASE WorkerSchedules(w)
    <2>1. LogType' /\ MainInv' /\ LogInv'
      BY <1>3, SilentThread DEF WorkerSchedules
    <2>2. PICK d \in Deletions :
            /\ deletionPc' = [deletionPc EXCEPT ![d] = "start"]
            /\ deletionOf' = [deletionOf EXCEPT ![d] = got[w]]
            /\ pushing' = [pushing EXCEPT ![w] = d]
            /\ unjoined'
                 \subseteq unjoined \cup ({pushing[v] : v \in Workers} \ {0}) \cup {d}
      BY <1>3 DEF WorkerSchedules
    <2>3. /\ got[w] \in Names /\ Works(w, "work", "push") /\ Queue!Release(w)
          /\ UNCHANGED <<session, mainPc, observerVars, stopWorkers, pluginDown>>
      BY <1>3 DEF WorkerSchedules, Names
    <2>4. /\ items' \in Seq(Names) /\ UNCHANGED closed
          /\ got' = [got EXCEPT ![w] = NoPath]
          /\ workerPc[w] = "work" /\ workerPc' = [workerPc EXCEPT ![w] = "push"]
      BY <2>3, WorkerReleases DEF Works
    <2>5. ThreadType'
      <3>1. got' \in [Workers -> Names \cup {NoPath}]
            /\ workerPc' \in
                 [Workers -> {"none", "loop", "work", "push", "log", "log_failed", "ended"}]
        BY <2>4 DEF IInv, ThreadType
      <3>2. deletionPc' \in
                [Deletions -> {"none", "start", "wait", "asleep", "log", "ended"}]
            /\ deletionOf' \in [Deletions -> Names \cup {NoPath}]
        BY <2>2, <2>3 DEF IInv, ThreadType
      <3>3. /\ pushing' \in [Workers -> Deletions \cup {0}]
            /\ unjoined' \subseteq Deletions /\ UNCHANGED Deletions
        <4>1. {pushing[v] : v \in Workers} \ {0} \subseteq Deletions
          BY DEF IInv, ThreadType
        <4>2. QED
          BY <2>2, <4>1 DEF IInv, ThreadType, Deletions
      <3>4. QED
        BY <2>3, <2>4, <3>1, <3>2, <3>3 DEF IInv, ThreadType, observerVars
    <2>6. PhaseInv'
      <3>1. \A v \in Workers :
              workerPc'[v] \in {"work", "log", "log_failed"} => got'[v] \in Names
        BY <2>4 DEF IInv, ThreadType, PhaseInv
      <3>2. \A e \in Deletions : deletionPc'[e] # "none" => deletionOf'[e] \in Names
        BY <2>2, <2>3 DEF IInv, ThreadType, PhaseInv
      <3>3. QED
        BY <2>3, <3>1, <3>2 DEF IInv, PhaseInv, observerVars
    <2>7. ThreadsInv'
      <3>1. mainPc \in WithWorkers /\ mainPc \in WithDeletions
        BY <2>4 DEF IInv, ThreadsInv, WithDeletions
      <3>2. QED
        BY <2>2, <2>3, <2>4, <3>1 DEF IInv, ThreadType, ThreadsInv, observerVars
    <2>8. QED
      BY <2>1, <2>5, <2>6, <2>7 DEF IInv
  <1>4. CASE WorkerLogs(w)
    <2>1. PICK from \in {"log", "log_failed"},
               kind \in {"backedup", "deleted", "failed"} :
            Works(w, from, "loop") /\ Logs(kind, got[w])
      BY <1>4 DEF WorkerLogs, Answer
    <2>2. /\ items' \in Seq(Names) /\ UNCHANGED closed
          /\ got' = [got EXCEPT ![w] = NoPath]
          /\ UNCHANGED <<session, mainPc, observerVars, stopWorkers, deletionVars>>
      BY <1>4, WorkerReleases DEF WorkerLogs
    <2>3. /\ mainPc \in WithWorkers
          /\ ThreadType' /\ PhaseInv' /\ ThreadsInv'
      BY <1>4, <2>1, <2>2, WorkerIsDone DEF WorkerLogs
    <2>4. got[w] \in Names
      BY <2>1 DEF Works, IInv, PhaseInv
    <2>5. mainPc \notin FlushSteps \cup {"off", "init_logger"}
      BY <2>3 DEF WithWorkers, WithObserver, FlushSteps
    <2>6. LogType' /\ MainInv' /\ LogInv'
      BY <2>1, <2>2, <2>4, <2>5, LogsPreserves
    <2>7. QED
      BY <2>3, <2>6 DEF IInv
  <1>5. CASE WorkerEnds(w)
    <2>1. LogType' /\ MainInv' /\ LogInv'
      BY <1>5, SilentThread DEF WorkerEnds
    <2>2. ThreadType' /\ PhaseInv' /\ ThreadsInv'
      BY <1>5, WorkerGoesOn DEF WorkerEnds
    <2>3. QED
      BY <2>1, <2>2 DEF IInv
  <1>6. CASE WorkerPushes(w)
    <2>1. LogType' /\ MainInv' /\ LogInv'
      BY <1>6, SilentThread DEF WorkerPushes
    <2>2. ThreadType' /\ PhaseInv' /\ ThreadsInv'
      BY <1>6, WorkerKeepsQueue, WorkerFrame DEF WorkerPushes
    <2>3. QED
      BY <2>1, <2>2 DEF IInv
  <1>7. QED
    BY <1>1, <1>2, <1>3, <1>4, <1>5, <1>6 DEF Worker

-----------------------------------------------------------------------------
(* The deletions *)

LEMMA DeletionFrame ==
  ASSUME IInv, NEW d \in Deletions,
         NEW from \in {"start", "wait", "asleep", "log"},
         NEW to \in {"wait", "log", "ended"}, Deletes(d, from, to),
         UNCHANGED <<session, mainPc, observerVars, queueVars, workerVars,
                     deletionOf, pluginDown, pushing, unjoined>>
  PROVE  /\ mainPc \in WithDeletions /\ deletionOf[d] \in Names
         /\ ThreadType' /\ PhaseInv' /\ ThreadsInv'
  <1>1. deletionPc[d] = from /\ deletionPc' = [deletionPc EXCEPT ![d] = to]
    BY DEF Deletes
  <1>2. mainPc \in WithDeletions /\ deletionOf[d] \in Names
    BY <1>1 DEF IInv, ThreadsInv, PhaseInv
  <1>3. ThreadType'
    BY <1>1 DEF IInv, ThreadType, observerVars, queueVars, workerVars
  <1>4. PhaseInv' /\ ThreadsInv'
    BY <1>1, <1>2 DEF IInv, ThreadType, PhaseInv, ThreadsInv, observerVars,
                      queueVars, workerVars
  <1>5. QED
    BY <1>2, <1>3, <1>4

LEMMA DeletionPreserves ==
  ASSUME IInv, NEW d \in Deletions, Deletion(d)
  PROVE  IInv'
  <1>1. CASE DeletionLogs(d)
    <2>1. PICK from \in {"start", "log"}, to \in {"wait", "ended"},
               kind \in {"scheduled", "expired"} :
            Deletes(d, from, to) /\ Logs(kind, deletionOf[d])
      BY <1>1 DEF DeletionLogs
    <2>2. /\ mainPc \in WithDeletions /\ deletionOf[d] \in Names
          /\ ThreadType' /\ PhaseInv' /\ ThreadsInv'
      BY <1>1, <2>1, DeletionFrame DEF DeletionLogs
    <2>3. mainPc \notin {"off", "init_logger"}
      BY <2>2 DEF WithDeletions, WithWorkers, WithObserver, FlushSteps
    <2>4. LogType' /\ MainInv' /\ LogInv'
      BY <1>1, <2>1, <2>2, <2>3, LogsPreserves DEF DeletionLogs
    <2>5. QED
      BY <2>2, <2>4 DEF IInv
  <1>2. CASE DeletionExpires(d) \/ DeletionGivesUp(d) \/ DeletionOversleeps(d)
    <2>1. LogType' /\ MainInv' /\ LogInv'
      BY <1>2, SilentThread DEF DeletionExpires, DeletionGivesUp, DeletionOversleeps
    <2>2. ThreadType' /\ PhaseInv' /\ ThreadsInv'
      BY <1>2, DeletionFrame DEF DeletionExpires, DeletionGivesUp, DeletionOversleeps
    <2>3. QED
      BY <2>1, <2>2 DEF IInv
  <1>3. QED
    BY <1>1, <1>2 DEF Deletion

-----------------------------------------------------------------------------
LEMMA NextIInv == IInv /\ [Next]_vars => IInv'
  <1> SUFFICES ASSUME IInv, [Next]_vars PROVE IInv'
    OBVIOUS
  <1>1. CASE Launch \/ InitThrows \/ Crash \/ Console
    BY <1>1, LaunchPreserves, InitThrowsPreserves, CrashPreserves, StopPreserves
  <1>2. CASE MainRuns
    BY <1>2, InitLoggerPreserves, StartPreserves, StopPreserves, FlushPreserves,
       FlushLoopPreserves, FlushDonePreserves DEF MainRuns
  <1>3. CASE Observer \/ ObserverEnds
    BY <1>3, ObserverPreserves
  <1>4. CASE \E w \in Workers : Worker(w) \/ WorkerEnds(w)
    BY <1>4, WorkerPreserves
  <1>5. CASE \E d \in Deletions : Deletion(d)
    BY <1>5, DeletionPreserves
  <1>6. CASE UNCHANGED vars
    <2>1. UNCHANGED mainPc /\ UNCHANGED session /\ UNCHANGED threadVars
          /\ LogsNothing
      BY <1>6 DEF vars, LogsNothing
    <2>2. LogType' /\ MainInv' /\ LogInv'
      BY <2>1, SilentThread
    <2>3. ThreadType' /\ PhaseInv' /\ ThreadsInv'
      BY <2>1 DEF IInv, ThreadType, PhaseInv, ThreadsInv, threadVars, observerVars,
                  queueVars, workerVars, deletionVars
    <2>4. QED
      BY <2>2, <2>3 DEF IInv
  <1>7. QED
    BY <1>1, <1>2, <1>3, <1>4, <1>5, <1>6 DEF Next

LEMMA Invariance == SafeSpec => []IInv
  BY InitIInv, NextIInv, PTL DEF SafeSpec

(* The variables of main(), the threads, the queue and the log keep their  *)
(* types over all sessions; a flush stays within the log.                  *)
THEOREM TypeCorrect == SafeSpec => []TypeOK
  <1>1. IInv => TypeOK
    BY DEF IInv, ThreadType, LogType, TypeOK
  <1>2. QED
    BY <1>1, Invariance, PTL

(* The file is the history of all sessions, whatever sessions failed to    *)
(* start, were killed or logged on during their flush, unless a flush was  *)
(* cut off or a read or write failed. *)
THEOREM HistoryIsKept == SafeSpec => []HistoryKept
  <1>1. IInv => HistoryKept
    BY DEF IInv, LogInv
  <1>2. QED
    BY <1>1, Invariance, PTL

(* The flush of shutdown() comes after the last entry of the observer and  *)
(* of every worker. *)
THEOREM WorkIsAlwaysAudited == SafeSpec => []WorkIsAudited
  <1>1. IInv => WorkIsAudited
    <2> SUFFICES ASSUME IInv, flushed, ~Flushing, ~lost, mainPc # "off"
                 PROVE  /\ observerPc = "none"
                        /\ \A w \in Workers : workerPc[w] = "none"
                        /\ \A i \in DOMAIN m_logs :
                             ~OfDeletion(m_logs[i])
                               => i <= Len(audit) /\ audit[i] = m_logs[i]
      BY DEF WorkIsAudited
    <2>1. mainPc \in FlushSteps
      BY DEF IInv, MainInv
    <2>2. observerPc = "none" /\ \A w \in Workers : workerPc[w] = "none"
      BY <2>1 DEF IInv, ThreadsInv, FlushSteps, WithObserver, WithWorkers
    <2>3. audit = history /\ Len(history) \in Nat
          /\ DOMAIN m_logs = 1 .. Len(m_logs) /\ Len(m_logs) \in Nat
      BY DEF IInv, LogInv, HistoryKept, LogType
    <2>4. ASSUME NEW i \in DOMAIN m_logs, ~OfDeletion(m_logs[i])
          PROVE  i <= Len(audit) /\ audit[i] = m_logs[i]
      <3>1. i \in 1 .. Len(history)
        BY <2>3, <2>4 DEF IInv, LogInv, FlushedInv
      <3>2. history[i] = m_logs[i]
        BY <3>1 DEF IInv, LogInv, FlushedInv
      <3>3. QED
        BY <2>3, <3>1, <3>2
    <2>5. QED
      BY <2>2, <2>4
  <1>2. QED
    BY <1>1, Invariance, PTL

-----------------------------------------------------------------------------
(* The order of the entries *)

(* How many entries of this session have one of these kinds and name n.    *)
Count(kinds, n) == Said(kinds, n, Len(logged))

Answers == {"backedup", "deleted", "failed", "scheduled"}

(* Where a name is on its way from the entry that reports it to the one    *)
(* that answers it, and which of these places hold name n.                 *)
Places ==
  {<<"observer", 0>>, <<"queue", 0>>}
    \cup ({"worker"} \X Workers) \cup ({"deletion"} \X Deletions)

Holds(p, n) ==
  \/ p = <<"observer", 0>> /\ observerPc = "push" /\ seen = n
  \/ p = <<"queue", 0>> /\ n \in Range(items)
  \/ \E w \in Workers : p = <<"worker", w>> /\ got[w] = n
  \/ \E d \in Deletions :
       p = <<"deletion", d>> /\ deletionPc[d] = "start" /\ deletionOf[d] = n

OnTheWay(n) == {p \in Places : Holds(p, n)}

(* The deletions of n that were announced and wait for their time.         *)
Announced(n) ==
  {d \in Deletions : deletionPc[d] \in {"wait", "log"} /\ deletionOf[d] = n}

(* Each answer, and each name on its way to one, has a report of its own;  *)
(* each deletion at its time, and each that waits, its announcement.  The  *)
(* queue has no name twice, and deletions are started one by one.          *)
CausalInv ==
  /\ IsInjective(items)
  /\ \E k \in 0 .. MaxChanges :
       \A d \in Deletions : deletionPc[d] # "none" <=> d <= k
  /\ \A n \in Names :
       /\ Count(Answers, n) + Cardinality(OnTheWay(n)) <= Count({"changed"}, n)
       /\ Count({"expired"}, n) + Cardinality(Announced(n))
            <= Count({"scheduled"}, n)
  /\ LogIsCausal

(* What a new entry adds to such a count. *)
Gain(kinds, kind, m, n) == IF kind \in kinds /\ m = n THEN 1 ELSE 0

-----------------------------------------------------------------------------
(* Counting *)

LEMMA PlacesFinite ==
  ASSUME IsFiniteSet(Workers), NEW S, S \subseteq Places
  PROVE  IsFiniteSet(S) /\ Cardinality(S) \in Nat
  <1>1. IsFiniteSet({"worker"} \X Workers) /\ IsFiniteSet({"deletion"} \X Deletions)
    <2>1. IsFiniteSet({"worker"}) /\ IsFiniteSet({"deletion"})
      BY FS_Singleton
    <2>2. IsFiniteSet(Deletions)
      BY AppAssumption, FS_Interval DEF Deletions
    <2>3. QED
      BY <2>1, <2>2, FS_Product
  <1>2. IsFiniteSet({<<"observer", 0>>, <<"queue", 0>>})
    <2>1. IsFiniteSet({<<"observer", 0>>})
      BY FS_Singleton
    <2>2. IsFiniteSet({<<"observer", 0>>} \cup {<<"queue", 0>>})
      BY <2>1, FS_AddElement
    <2>3. {<<"observer", 0>>, <<"queue", 0>>} =
            {<<"observer", 0>>} \cup {<<"queue", 0>>}
      OBVIOUS
    <2>4. QED
      BY <2>2, <2>3
  <1>3. IsFiniteSet(Places)
    BY <1>1, <1>2, FS_Union DEF Places
  <1>4. QED
    BY <1>3, FS_Subset, FS_CardinalityType

LEMMA DeletionsFinite ==
  ASSUME NEW S, S \subseteq Deletions
  PROVE  IsFiniteSet(S) /\ Cardinality(S) \in Nat
  <1>1. IsFiniteSet(Deletions)
    BY AppAssumption, FS_Interval DEF Deletions
  <1>2. QED
    BY <1>1, FS_Subset, FS_CardinalityType

(* Something goes, and at most one thing comes in its place. *)
LEMMA CardMoved ==
  ASSUME NEW S, IsFiniteSet(S), NEW a \in S, NEW b, NEW T,
         T \subseteq (S \ {a}) \cup {b}
  PROVE  Cardinality(T) <= Cardinality(S)
  <1>1. IsFiniteSet(S \ {a}) /\ Cardinality(S \ {a}) = Cardinality(S) - 1
        /\ Cardinality(S) \in Nat
    BY FS_RemoveElement, FS_CardinalityType
  <1>2. IsFiniteSet((S \ {a}) \cup {b})
        /\ Cardinality((S \ {a}) \cup {b}) <= Cardinality(S)
    <2> DEFINE R == S \ {a}
    <2>1. IsFiniteSet(R) /\ Cardinality(R) = Cardinality(S) - 1
      BY <1>1
    <2> HIDE DEF R
    <2>2. /\ IsFiniteSet(R \cup {b})
          /\ Cardinality(R \cup {b}) \in {Cardinality(R), Cardinality(R) + 1}
      BY <2>1, FS_AddElement
    <2>3. IsFiniteSet(R \cup {b}) /\ Cardinality(R \cup {b}) <= Cardinality(S)
      BY <1>1, <2>1, <2>2
    <2>4. QED
      BY <2>3 DEF R
  <1>3. Cardinality(T) <= Cardinality((S \ {a}) \cup {b})
        /\ Cardinality(T) \in Nat
    BY <1>2, FS_Subset, FS_CardinalityType
  <1>4. Cardinality((S \ {a}) \cup {b}) \in Nat
    BY <1>2, FS_CardinalityType
  <1>5. QED
    BY <1>1, <1>2, <1>3, <1>4

LEMMA CardGone ==
  ASSUME NEW S, IsFiniteSet(S), NEW a \in S, NEW T, T \subseteq S \ {a}
  PROVE  Cardinality(T) + 1 <= Cardinality(S)
  <1>1. IsFiniteSet(S \ {a}) /\ Cardinality(S \ {a}) = Cardinality(S) - 1
        /\ Cardinality(S) \in Nat
    BY FS_RemoveElement, FS_CardinalityType
  <1>2. Cardinality(T) <= Cardinality(S \ {a}) /\ Cardinality(T) \in Nat
    BY <1>1, FS_Subset, FS_CardinalityType
  <1>3. QED
    BY <1>1, <1>2

LEMMA CardCome ==
  ASSUME NEW S, IsFiniteSet(S), NEW b, NEW T, T \subseteq S \cup {b}
  PROVE  Cardinality(T) <= Cardinality(S) + 1
  <1>1. IsFiniteSet(S \cup {b}) /\ Cardinality(S \cup {b}) <= Cardinality(S) + 1
        /\ Cardinality(S) \in Nat
    <2>1. Cardinality(S) \in Nat
      BY FS_CardinalityType
    <2>2. /\ IsFiniteSet(S \cup {b})
          /\ Cardinality(S \cup {b}) \in {Cardinality(S), Cardinality(S) + 1}
      BY FS_AddElement
    <2>3. QED
      BY <2>1, <2>2
  <1>2. Cardinality(T) <= Cardinality(S \cup {b}) /\ Cardinality(T) \in Nat
        /\ Cardinality(S \cup {b}) \in Nat
    BY <1>1, FS_Subset, FS_CardinalityType
  <1>3. QED
    BY <1>1, <1>2

LEMMA SaidNat ==
  ASSUME NEW kinds, NEW n, NEW i \in Nat
  PROVE  Said(kinds, n, i) \in Nat
  <1>1. IsFiniteSet(1 .. i)
    BY FS_Interval
  <1>2. {j \in 1 .. i : logged[j] \in kinds \X {n}} \in SUBSET (1 .. i)
    OBVIOUS
  <1>3. QED
    BY <1>1, <1>2, FS_Subset, FS_CardinalityType DEF Said

(* Said() for any log; an entry changes the counts up to itself only. *)
SaidBy(log, kinds, n, i) ==
  Cardinality({j \in 1 .. i : log[j] \in kinds \X {n}})

LEMMA SaidAppend ==
  ASSUME NEW log \in Seq(Entries), NEW kind, NEW m, <<kind, m>> \in Entries,
         NEW kinds, NEW n
  PROVE  LET L   == Len(log)
             new == Append(log, <<kind, m>>)
         IN  /\ \A i \in 0 .. L : SaidBy(new, kinds, n, i) = SaidBy(log, kinds, n, i)
             /\ SaidBy(new, kinds, n, L + 1) =
                  SaidBy(log, kinds, n, L) + Gain(kinds, kind, m, n)
  <1> DEFINE L == Len(log)
             new == Append(log, <<kind, m>>)
             Old == {j \in 1 .. L : log[j] \in kinds \X {n}}
             New == {j \in 1 .. L + 1 : new[j] \in kinds \X {n}}
  <1>1. /\ L \in Nat
        /\ \A j \in 1 .. L : new[j] = log[j]
        /\ new[L + 1] = <<kind, m>>
    OBVIOUS
  <1> HIDE DEF new
  <1>2. ASSUME NEW i \in 0 .. L
        PROVE  SaidBy(new, kinds, n, i) = SaidBy(log, kinds, n, i)
    <2>1. \A j \in 1 .. i : new[j] = log[j]
      BY <1>1
    <2>2. {j \in 1 .. i : new[j] \in kinds \X {n}} =
            {j \in 1 .. i : log[j] \in kinds \X {n}}
      BY <2>1
    <2>3. QED
      BY <2>2 DEF SaidBy
  <1>3. IsFiniteSet(Old) /\ L + 1 \notin Old
    <2>1. IsFiniteSet(1 .. L) /\ Old \in SUBSET (1 .. L)
      BY <1>1, FS_Interval
    <2>2. IsFiniteSet(Old)
      BY <2>1, FS_Subset
    <2>3. QED
      BY <1>1, <2>2
  <1>4. Cardinality(Old) \in Nat
        /\ Cardinality(Old \cup {L + 1}) = Cardinality(Old) + 1
    BY <1>3, FS_AddElement, FS_CardinalityType
  <1>5. /\ \A j \in 1 .. L + 1 : j \in 1 .. L \/ j = L + 1
        /\ L + 1 \in 1 .. L + 1 /\ \A j \in 1 .. L : j \in 1 .. L + 1
        /\ L + 1 \notin 1 .. L
    BY <1>1
  <1>6. \A j \in 1 .. L + 1 :
          new[j] \in kinds \X {n} <=>
            \/ j \in 1 .. L /\ log[j] \in kinds \X {n}
            \/ j = L + 1 /\ kind \in kinds /\ m = n
    <2>1. <<kind, m>> \in kinds \X {n} <=> kind \in kinds /\ m = n
      OBVIOUS
    <2>2. QED
      BY <1>1, <1>5, <2>1
  <1>7. SaidBy(new, kinds, n, L + 1) = Cardinality(New)
        /\ SaidBy(log, kinds, n, L) = Cardinality(Old)
    BY DEF SaidBy
  <1>8. Cardinality(New) = Cardinality(Old) + Gain(kinds, kind, m, n)
    <2>1. CASE kind \in kinds /\ m = n
      <3>1. New = Old \cup {L + 1}
        BY <1>5, <1>6, <2>1
      <3>2. Gain(kinds, kind, m, n) = 1
        BY <2>1 DEF Gain
      <3> HIDE DEF New, Old
      <3>3. QED
        BY <1>4, <3>1, <3>2
    <2>2. CASE ~(kind \in kinds /\ m = n)
      <3>1. New = Old
        BY <1>5, <1>6, <2>2
      <3>2. Gain(kinds, kind, m, n) = 0
        BY <2>2 DEF Gain
      <3> HIDE DEF New, Old
      <3>3. QED
        BY <1>4, <3>1, <3>2
    <2>3. QED
      BY <2>1, <2>2
  <1>9. QED
    BY <1>2, <1>7, <1>8 DEF new

-----------------------------------------------------------------------------
(* What keeps CausalInv *)

LEMMA WayIsFinite ==
  ASSUME IsFiniteSet(Workers), NEW n
  PROVE  /\ IsFiniteSet(OnTheWay(n)) /\ Cardinality(OnTheWay(n)) \in Nat
         /\ Cardinality(OnTheWay(n)') \in Nat
         /\ IsFiniteSet(Announced(n)) /\ Cardinality(Announced(n)) \in Nat
         /\ Cardinality(Announced(n)') \in Nat
  <1>1. OnTheWay(n) \subseteq Places /\ OnTheWay(n)' \subseteq Places
    BY DEF OnTheWay, Places, Deletions
  <1>2. Announced(n) \subseteq Deletions /\ Announced(n)' \subseteq Deletions
    BY DEF Announced, Deletions
  <1>3. QED
    BY <1>1, <1>2, PlacesFinite, DeletionsFinite

(* The deletions that were started are the first ones. *)
InOrder ==
  \E k \in 0 .. MaxChanges :
    \A d \in Deletions : deletionPc[d] # "none" <=> d <= k

(* Without a new entry, nothing may come to the places. *)
LEMMA CausalFrame ==
  ASSUME CausalInv, UNCHANGED logged, IsInjective(items'), InOrder',
         \A n \in Names :
           /\ Cardinality(OnTheWay(n)') <= Cardinality(OnTheWay(n))
           /\ Cardinality(Announced(n)') <= Cardinality(Announced(n)),
         IsFiniteSet(Workers), IInv
  PROVE  CausalInv'
  <1>1. \A kinds, n, i : Said(kinds, n, i)' = Said(kinds, n, i)
    BY DEF Said
  <1>2. \A kinds, n : Count(kinds, n)' = Count(kinds, n)
    BY <1>1 DEF Count, Said
  <1>3. LogIsCausal'
    BY <1>1 DEF CausalInv, LogIsCausal
  <1>4. ASSUME NEW n \in Names
        PROVE  /\ Count(Answers, n)' + Cardinality(OnTheWay(n)')
                    <= Count({"changed"}, n)'
               /\ Count({"expired"}, n)' + Cardinality(Announced(n)')
                    <= Count({"scheduled"}, n)'
    <2>1. /\ Count(Answers, n) \in Nat /\ Count({"changed"}, n) \in Nat
          /\ Count({"expired"}, n) \in Nat /\ Count({"scheduled"}, n) \in Nat
      BY SaidNat DEF Count, IInv, LogType
    <2>2. /\ Count(Answers, n) + Cardinality(OnTheWay(n)) <= Count({"changed"}, n)
          /\ Count({"expired"}, n) + Cardinality(Announced(n))
               <= Count({"scheduled"}, n)
      BY DEF CausalInv
    <2>3. QED
      BY <1>2, <1>4, <2>1, <2>2, WayIsFinite
  <1>5. QED
    BY <1>3, <1>4 DEF CausalInv, InOrder

(* A new answer takes a name from its place, and only a new report may     *)
(* bring one; likewise for the deletions. *)
LEMMA CausalEntry ==
  ASSUME CausalInv, IInv, IsFiniteSet(Workers),
         NEW kind \in {"changed", "backedup", "deleted", "failed", "scheduled",
                       "expired"},
         NEW m \in Names, Logs(kind, m), IsInjective(items'), InOrder',
         \A n \in Names :
           /\ Cardinality(OnTheWay(n)') + Gain(Answers, kind, m, n)
                <= Cardinality(OnTheWay(n)) + Gain({"changed"}, kind, m, n)
           /\ Cardinality(Announced(n)') + Gain({"expired"}, kind, m, n)
                <= Cardinality(Announced(n)) + Gain({"scheduled"}, kind, m, n)
  PROVE  CausalInv'
  <1>1. /\ logged \in Seq(Entries) /\ Entry(kind, m) \in Entries
        /\ logged' = Append(logged, Entry(kind, m))
    BY DEF IInv, LogType, Entries, Entry, Logs
  <1>l. Len(logged') = Len(logged) + 1 /\ Len(logged) \in Nat
    BY <1>1
  <1>2. ASSUME NEW kinds, NEW n
        PROVE  /\ \A i \in 0 .. Len(logged) : Said(kinds, n, i)' = Said(kinds, n, i)
               /\ Count(kinds, n)' = Count(kinds, n) + Gain(kinds, kind, m, n)
    <2>1. /\ Count(kinds, n) = SaidBy(logged, kinds, n, Len(logged))
          /\ Count(kinds, n)' = SaidBy(logged', kinds, n, Len(logged) + 1)
          /\ \A i : /\ Said(kinds, n, i) = SaidBy(logged, kinds, n, i)
                   /\ Said(kinds, n, i)' = SaidBy(logged', kinds, n, i)
      BY <1>l DEF Count, Said, SaidBy
    <2>2. /\ \A i \in 0 .. Len(logged) :
               SaidBy(logged', kinds, n, i) = SaidBy(logged, kinds, n, i)
          /\ SaidBy(logged', kinds, n, Len(logged) + 1) =
               SaidBy(logged, kinds, n, Len(logged)) + Gain(kinds, kind, m, n)
      BY <1>1, SaidAppend DEF Entry
    <2>3. QED
      BY <2>1, <2>2
  <1>3. ASSUME NEW n \in Names
        PROVE  /\ Count(Answers, n)' + Cardinality(OnTheWay(n)')
                    <= Count({"changed"}, n)'
               /\ Count({"expired"}, n)' + Cardinality(Announced(n)')
                    <= Count({"scheduled"}, n)'
               /\ Count(Answers, n)' <= Count({"changed"}, n)'
               /\ Count({"expired"}, n)' <= Count({"scheduled"}, n)'
    <2>1. /\ Count(Answers, n) \in Nat /\ Count({"changed"}, n) \in Nat
          /\ Count({"expired"}, n) \in Nat /\ Count({"scheduled"}, n) \in Nat
      BY <1>l, SaidNat DEF Count
    <2>2. /\ Count(Answers, n) + Cardinality(OnTheWay(n)) <= Count({"changed"}, n)
          /\ Count({"expired"}, n) + Cardinality(Announced(n))
               <= Count({"scheduled"}, n)
      BY DEF CausalInv
    <2>3. /\ Cardinality(OnTheWay(n)') + Gain(Answers, kind, m, n)
               <= Cardinality(OnTheWay(n)) + Gain({"changed"}, kind, m, n)
          /\ Cardinality(Announced(n)') + Gain({"expired"}, kind, m, n)
               <= Cardinality(Announced(n)) + Gain({"scheduled"}, kind, m, n)
      OBVIOUS
    <2>4. /\ Gain(Answers, kind, m, n) \in Nat /\ Gain({"changed"}, kind, m, n) \in Nat
          /\ Gain({"expired"}, kind, m, n) \in Nat
          /\ Gain({"scheduled"}, kind, m, n) \in Nat
      BY DEF Gain
    <2>5. /\ Count(Answers, n)' = Count(Answers, n) + Gain(Answers, kind, m, n)
          /\ Count({"changed"}, n)' =
               Count({"changed"}, n) + Gain({"changed"}, kind, m, n)
          /\ Count({"expired"}, n)' =
               Count({"expired"}, n) + Gain({"expired"}, kind, m, n)
          /\ Count({"scheduled"}, n)' =
               Count({"scheduled"}, n) + Gain({"scheduled"}, kind, m, n)
      BY <1>2
    <2>6. /\ Cardinality(OnTheWay(n)) \in Nat /\ Cardinality(OnTheWay(n)') \in Nat
          /\ Cardinality(Announced(n)) \in Nat /\ Cardinality(Announced(n)') \in Nat
      BY WayIsFinite
    <2>7. QED
      BY <2>1, <2>2, <2>3, <2>4, <2>5, <2>6
  <1>4. LogIsCausal'
    <2> SUFFICES ASSUME NEW i \in DOMAIN logged', NEW n \in Names
                 PROVE  /\ Said(Answers, n, i)' <= Said({"changed"}, n, i)'
                        /\ Said({"expired"}, n, i)' <= Said({"scheduled"}, n, i)'
      BY DEF LogIsCausal, Answers
    <2>1. i \in 1 .. Len(logged) + 1
      BY <1>1, <1>l
    <2>2. CASE i = Len(logged) + 1
      BY <1>l, <1>3, <2>2 DEF Count
    <2>3. CASE i # Len(logged) + 1
      <3>1. i \in 0 .. Len(logged) /\ i \in DOMAIN logged
        BY <1>1, <1>l, <2>1, <2>3
      <3>2. /\ Said(Answers, n, i) <= Said({"changed"}, n, i)
            /\ Said({"expired"}, n, i) <= Said({"scheduled"}, n, i)
        BY <3>1 DEF CausalInv, LogIsCausal, Answers
      <3>3. QED
        BY <1>2, <3>1, <3>2
    <2>4. QED
      BY <2>2, <2>3
  <1>5. QED
    BY <1>3, <1>4 DEF CausalInv, InOrder

(* Steps that log nothing and only take names from their places. *)
LEMMA CausalSilent ==
  ASSUME CausalInv, IInv, IsFiniteSet(Workers),
         UNCHANGED <<logged, items, seen, deletionOf>>,
         observerPc' = "push" => observerPc = "push",
         \A w \in Workers : got'[w] \in {got[w], NoPath},
         \A d \in Deletions :
           /\ deletionPc'[d] = "none" <=> deletionPc[d] = "none"
           /\ deletionPc'[d] = "start" => deletionPc[d] = "start"
           /\ deletionPc'[d] \in {"wait", "log"} => deletionPc[d] \in {"wait", "log"}
  PROVE  CausalInv'
  <1>1. IsInjective(items') /\ InOrder'
    BY DEF CausalInv, InOrder, Deletions
  <1>2. ASSUME NEW n \in Names
        PROVE  /\ OnTheWay(n)' \subseteq OnTheWay(n)
               /\ Announced(n)' \subseteq Announced(n)
    <2>1. n # NoPath
      BY AppAssumption
    <2>2. \A p \in Places : Holds(p, n)' => Holds(p, n)
      BY <2>1 DEF Holds, Deletions
    <2>3. QED
      BY <2>2 DEF OnTheWay, Announced, Places, Deletions
  <1>3. QED
    BY <1>1, <1>2, WayIsFinite, FS_Subset, CausalFrame

-----------------------------------------------------------------------------
(* The steps and the order of the entries *)

(* The queue holds a name once. *)
LEMMA AppendOnce ==
  ASSUME NEW q \in Seq(Names), NEW x \in Names, IsInjective(q), x \notin Range(q)
  PROVE  IsInjective(Append(q, x)) /\ Range(Append(q, x)) = Range(q) \cup {x}
  <1>1. /\ DOMAIN q = 1 .. Len(q) /\ DOMAIN Append(q, x) = 1 .. Len(q) + 1
        /\ Len(q) \in Nat /\ Append(q, x)[Len(q) + 1] = x
        /\ \A i \in 1 .. Len(q) : Append(q, x)[i] = q[i]
    OBVIOUS
  <1>2. \A i \in 1 .. Len(q) + 1 : i \in 1 .. Len(q) \/ i = Len(q) + 1
    BY <1>1
  <1>3. /\ Len(q) + 1 \in 1 .. Len(q) + 1
        /\ \A i \in 1 .. Len(q) : i \in 1 .. Len(q) + 1
    BY <1>1
  <1>4. \A i \in 1 .. Len(q) : q[i] # x
    BY <1>1 DEF Range
  <1>5. IsInjective(Append(q, x))
    BY <1>1, <1>2, <1>4 DEF IsInjective
  <1>6. Range(Append(q, x)) = Range(q) \cup {x}
    BY <1>1, <1>2, <1>3 DEF Range
  <1>7. QED
    BY <1>5, <1>6

LEMMA TailOnce ==
  ASSUME NEW q \in Seq(Names), q # <<>>, IsInjective(q)
  PROVE  /\ IsInjective(Tail(q)) /\ Head(q) \in Range(q)
         /\ Range(Tail(q)) \subseteq Range(q) \ {Head(q)}
  <1>1. /\ Head(q) = q[1] /\ DOMAIN q = 1 .. Len(q)
        /\ DOMAIN Tail(q) = 1 .. Len(q) - 1 /\ Len(q) \in Nat /\ Len(q) > 0
        /\ \A i \in 1 .. Len(q) - 1 : Tail(q)[i] = q[i + 1]
    OBVIOUS
  <1>2. 1 \in 1 .. Len(q)
        /\ \A i \in 1 .. Len(q) - 1 : i + 1 \in 1 .. Len(q) /\ i + 1 # 1
    BY <1>1
  <1>3. IsInjective(Tail(q))
    BY <1>1, <1>2 DEF IsInjective
  <1>4. Head(q) \in Range(q)
    BY <1>1, <1>2 DEF Range
  <1>5. Range(Tail(q)) \subseteq Range(q) \ {Head(q)}
    BY <1>1, <1>2 DEF Range, IsInjective
  <1>6. QED
    BY <1>3, <1>4, <1>5

LEMMA EmptyPlaces ==
  ASSUME NewThreads, NEW n \in Names
  PROVE  OnTheWay(n)' = {} /\ Announced(n)' = {}
  <1>1. /\ observerPc' = "none" /\ items' = <<>>
        /\ \A w \in Workers : got'[w] = NoPath
        /\ \A d \in Deletions : deletionPc'[d] = "none"
    BY DEF NewThreads
  <1>2. Range(items') = {} /\ n # NoPath
    BY <1>1, AppAssumption DEF Range
  <1>3. \A p : ~Holds(p, n)'
    BY <1>1, <1>2 DEF Holds, Deletions
  <1>4. QED
    BY <1>1, <1>3 DEF OnTheWay, Announced, Deletions

LEMMA EmptyInOrder == NewThreads => IsInjective(items') /\ InOrder'
  <1> SUFFICES ASSUME NewThreads PROVE IsInjective(items') /\ InOrder'
    OBVIOUS
  <1>1. items' = <<>> /\ \A d \in Deletions : deletionPc'[d] = "none"
    BY DEF NewThreads
  <1>2. IsInjective(items')
    BY <1>1 DEF IsInjective
  <1>3. 0 \in 0 .. MaxChanges /\ \A d \in Deletions : ~(d <= 0)
    BY AppAssumption DEF Deletions
  <1>4. InOrder'
    BY <1>1, <1>3 DEF InOrder, Deletions
  <1>5. QED
    BY <1>2, <1>4

(* No entry yet, and nothing on its way to one. *)
LEMMA FreshCausal ==
  ASSUME logged = <<>>, IsInjective(items), InOrder,
         \A n \in Names : OnTheWay(n) = {} /\ Announced(n) = {}
  PROVE  CausalInv
  <1>1. ASSUME NEW kinds, NEW n PROVE Count(kinds, n) = 0
    <2>1. {j \in 1 .. Len(logged) : logged[j] \in kinds \X {n}} = {}
      OBVIOUS
    <2>2. QED
      BY <2>1, FS_EmptySet DEF Count, Said
  <1>2. \A n \in Names : /\ Cardinality(OnTheWay(n)) = 0
                         /\ Cardinality(Announced(n)) = 0
    BY FS_EmptySet
  <1>3. LogIsCausal
    BY DEF LogIsCausal
  <1>4. QED
    BY <1>1, <1>2, <1>3 DEF CausalInv, InOrder

LEMMA InitCausal == Init => CausalInv
  <1> SUFFICES ASSUME Init PROVE CausalInv
    OBVIOUS
  <1>1. /\ logged = <<>> /\ items = <<>> /\ observerPc = "none"
        /\ \A w \in Workers : got[w] = NoPath
        /\ \A d \in Deletions : deletionPc[d] = "none"
    BY DEF Init, Queue!Init
  <1>2. Range(items) = {} /\ IsInjective(items)
    BY <1>1 DEF Range, IsInjective
  <1>3. 0 \in 0 .. MaxChanges /\ \A d \in Deletions : ~(d <= 0)
    BY AppAssumption DEF Deletions
  <1>4. InOrder
    BY <1>1, <1>3 DEF InOrder
  <1>5. ASSUME NEW n \in Names PROVE OnTheWay(n) = {} /\ Announced(n) = {}
    <2>1. n # NoPath
      BY AppAssumption
    <2>2. QED
      BY <1>1, <1>2, <2>1 DEF OnTheWay, Announced, Holds
  <1>6. QED
    BY <1>1, <1>2, <1>4, <1>5, FreshCausal

LEMMA SessionCausal ==
  ASSUME IInv, CausalInv, IsFiniteSet(Workers), Launch \/ Crash
  PROVE  CausalInv'
  <1>1. NewThreads /\ IsInjective(items') /\ InOrder'
    BY EmptyInOrder DEF Launch, Crash
  <1>2. \A n \in Names : OnTheWay(n)' = {} /\ Announced(n)' = {}
    BY <1>1, EmptyPlaces
  <1>3. CASE Launch
    <2>1. logged' = <<>>
      BY <1>3 DEF Launch
    <2>2. ASSUME NEW kinds, NEW n PROVE Count(kinds, n)' = 0
      <3>1. {j \in 1 .. Len(logged') : logged'[j] \in kinds \X {n}} = {}
        BY <2>1
      <3>2. QED
        BY <3>1, FS_EmptySet DEF Count, Said
    <2>3. \A n \in Names : /\ Cardinality(OnTheWay(n)') = 0
                           /\ Cardinality(Announced(n)') = 0
      BY <1>2, FS_EmptySet
    <2>4. LogIsCausal'
      BY <2>1 DEF LogIsCausal
    <2>5. QED
      BY <1>1, <2>2, <2>3, <2>4 DEF CausalInv, InOrder
  <1>4. CASE Crash
    <2>1. UNCHANGED logged
      BY <1>4 DEF Crash
    <2>2. ASSUME NEW n \in Names
          PROVE  /\ Cardinality(OnTheWay(n)') <= Cardinality(OnTheWay(n))
                 /\ Cardinality(Announced(n)') <= Cardinality(Announced(n))
      BY <1>2, WayIsFinite, FS_EmptySet
    <2>3. QED
      BY <1>1, <2>1, <2>2, CausalFrame
  <1>5. QED
    BY <1>3, <1>4

(* main() neither takes names nor logs. *)
LEMMA MainCausal ==
  ASSUME IInv, CausalInv, IsFiniteSet(Workers),
         InitThrows \/ Console \/ MainRuns \/ ObserverEnds
  PROVE  CausalInv'
  <1>1. UNCHANGED <<logged, items, got, seen, deletionOf>>
    BY DEF InitThrows, Console, MainRuns, ObserverEnds, InitLogger, InitRest,
       InitManager, StartWorkers, StartObserver, StopObserver, JoinObserver,
       CloseQueue, Queue!Close, StopWorkers, JoinWorkers, Flush, FlushLoop,
       FlushDone, Destroy, JoinDeletions, DestroyObserver, LogsNothing,
       threadVars, observerVars, queueVars, deletionVars
  <1>2. observerPc' = "push" => observerPc = "push"
    BY DEF InitThrows, Console, MainRuns, ObserverEnds, InitLogger, InitRest,
       InitManager, StartWorkers, StartObserver, StopObserver, JoinObserver,
       CloseQueue, StopWorkers, JoinWorkers, Flush, FlushLoop, FlushDone,
       Destroy, JoinDeletions, DestroyObserver, Observes, threadVars,
       observerVars
  <1>3. \/ UNCHANGED deletionPc
        \/ \E d \in Deletions : Deletes(d, "wait", "asleep")
        \/ deletionPc' = [d \in Deletions |->
                            IF deletionPc[d] = "none" THEN "none" ELSE "ended"]
    BY DEF InitThrows, Console, MainRuns, ObserverEnds, InitLogger, InitRest,
       InitManager, StartWorkers, StartObserver, StopObserver, JoinObserver,
       CloseQueue, StopWorkers, JoinWorkers, Flush, FlushLoop, FlushDone,
       Destroy, JoinDeletions, DestroyObserver, threadVars, deletionVars
  <1>4. \A d \in Deletions :
          /\ deletionPc'[d] = "none" <=> deletionPc[d] = "none"
          /\ deletionPc'[d] = "start" => deletionPc[d] = "start"
          /\ deletionPc'[d] \in {"wait", "log"} => deletionPc[d] \in {"wait", "log"}
    BY <1>3 DEF Deletes, IInv, ThreadType
  <1>5. QED
    BY <1>1, <1>2, <1>4, CausalSilent

LEMMA ObserverCausal ==
  ASSUME IInv, CausalInv, IsFiniteSet(Workers), Observer
  PROVE  CausalInv'
  <1> DEFINE here == <<"observer", 0>>
  <1>1. ASSUME NEW m \in Names, ObserverLogs(m)
        PROVE  CausalInv'
    <2>1. /\ observerPc = "poll" /\ seen' = m /\ Logs("changed", m)
          /\ UNCHANGED <<items, got, deletionPc, deletionOf>>
      BY <1>1 DEF ObserverLogs, Observes, queueVars, deletionVars
    <2>2. IsInjective(items') /\ InOrder'
      BY <2>1 DEF CausalInv, InOrder, Deletions
    <2>3. ASSUME NEW n \in Names
          PROVE  /\ Cardinality(OnTheWay(n)') + Gain(Answers, "changed", m, n)
                      <= Cardinality(OnTheWay(n))
                           + Gain({"changed"}, "changed", m, n)
                 /\ Cardinality(Announced(n)')
                      + Gain({"expired"}, "changed", m, n)
                      <= Cardinality(Announced(n))
                           + Gain({"scheduled"}, "changed", m, n)
      <3>1. Announced(n)' = Announced(n)
        BY <2>1 DEF Announced, Deletions
      <3>2. /\ Gain(Answers, "changed", m, n) = 0
            /\ Gain({"expired"}, "changed", m, n) = 0
            /\ Gain({"scheduled"}, "changed", m, n) = 0
        BY DEF Gain, Answers
      <3>3. CASE m = n
        <4>1. OnTheWay(n)' \subseteq OnTheWay(n) \cup {here}
          BY <2>1 DEF OnTheWay, Holds, Places, Deletions
        <4>2. Cardinality(OnTheWay(n)') <= Cardinality(OnTheWay(n)) + 1
          BY <4>1, CardCome, WayIsFinite
        <4>3. Gain({"changed"}, "changed", m, n) = 1
          BY <3>3 DEF Gain
        <4>4. QED
          BY <3>1, <3>2, <4>2, <4>3, WayIsFinite
      <3>4. CASE m # n
        <4>1. OnTheWay(n)' \subseteq OnTheWay(n)
          BY <2>1, <3>4 DEF OnTheWay, Holds, Places, Deletions
        <4>2. Cardinality(OnTheWay(n)') <= Cardinality(OnTheWay(n))
          BY <4>1, FS_Subset, WayIsFinite
        <4>3. Gain({"changed"}, "changed", m, n) = 0
          BY <3>4 DEF Gain
        <4>4. QED
          BY <3>1, <3>2, <4>2, <4>3, WayIsFinite
      <3>5. QED
        BY <3>3, <3>4
    <2>4. QED
      BY <2>1, <2>2, <2>3, CausalEntry
  <1>2. CASE ObserverPushes
    <2>1. /\ observerPc = "push" /\ observerPc' = "poll" /\ seen \in Names
          /\ items' = IF closed THEN items ELSE Queue!Pushed(items, seen)
          /\ UNCHANGED <<got, deletionPc, deletionOf, logged>>
      BY <1>2 DEF ObserverPushes, Observes, LogsNothing, deletionVars, IInv,
                  PhaseInv
    <2>2. /\ IsInjective(items')
          /\ Range(items') \subseteq Range(items) \cup {seen}
      <3>1. items \in Seq(Names) /\ IsInjective(items)
        BY DEF IInv, ThreadType, CausalInv
      <3>2. CASE items' = items
        BY <3>1, <3>2
      <3>3. CASE seen \notin Range(items) /\ items' = Append(items, seen)
        BY <2>1, <3>1, <3>3, AppendOnce
      <3>4. QED
        BY <2>1, <3>2, <3>3 DEF Queue!Pushed, Queue!Range, Range
    <2>3. InOrder'
      BY <2>1 DEF CausalInv, InOrder, Deletions
    <2>4. ASSUME NEW n \in Names
          PROVE  /\ Cardinality(OnTheWay(n)') <= Cardinality(OnTheWay(n))
                 /\ Cardinality(Announced(n)') <= Cardinality(Announced(n))
      <3>1. Announced(n)' = Announced(n)
        BY <2>1 DEF Announced, Deletions
      <3>2. CASE seen = n
        <4>1. here \in OnTheWay(n)
          BY <2>1, <3>2 DEF OnTheWay, Holds, Places
        <4>2. OnTheWay(n)' \subseteq (OnTheWay(n) \ {here}) \cup {<<"queue", 0>>}
          BY <2>1 DEF OnTheWay, Holds, Places, Deletions
        <4>3. Cardinality(OnTheWay(n)') <= Cardinality(OnTheWay(n))
          BY <4>1, <4>2, CardMoved, WayIsFinite
        <4>4. QED
          BY <3>1, <4>3, WayIsFinite
      <3>3. CASE seen # n
        <4>1. OnTheWay(n)' \subseteq OnTheWay(n)
          BY <2>1, <2>2, <3>3 DEF OnTheWay, Holds, Places, Deletions
        <4>2. QED
          BY <3>1, <4>1, FS_Subset, WayIsFinite
      <3>4. QED
        BY <3>2, <3>3
    <2>5. QED
      BY <2>1, <2>2, <2>3, <2>4, CausalFrame
  <1>3. QED
    BY <1>1, <1>2 DEF Observer

(* A worker that takes a name is the next place for it; one that ends with *)
(* it answers it, throws, or hands it to a deletion. *)
LEMMA WorkerCausal ==
  ASSUME IInv, CausalInv, IsFiniteSet(Workers), NEW w \in Workers,
         Worker(w) \/ WorkerEnds(w)
  PROVE  CausalInv'
  <1> DEFINE here == <<"worker", w>>
  <1>t. got \in [Workers -> Names \cup {NoPath}] /\ here \in Places
    BY DEF IInv, ThreadType, Places
  <1>1. CASE WorkerTakes(w)
    <2>1. /\ items \in Seq(Names) /\ items # <<>> /\ items' = Tail(items)
          /\ got' = [got EXCEPT ![w] = Head(items)] /\ IsInjective(items)
          /\ UNCHANGED <<observerPc, seen, deletionPc, deletionOf, logged>>
      BY <1>1 DEF WorkerTakes, Queue!Take, LogsNothing, observerVars,
                  deletionVars, IInv, ThreadType, CausalInv
    <2>2. /\ IsInjective(items') /\ Head(items) \in Range(items)
          /\ Range(items') \subseteq Range(items) \ {Head(items)}
      BY <2>1, TailOnce
    <2>3. InOrder'
      BY <2>1 DEF CausalInv, InOrder, Deletions
    <2>4. ASSUME NEW n \in Names
          PROVE  /\ Cardinality(OnTheWay(n)') <= Cardinality(OnTheWay(n))
                 /\ Cardinality(Announced(n)') <= Cardinality(Announced(n))
      <3>1. Announced(n)' = Announced(n)
        BY <2>1 DEF Announced, Deletions
      <3>2. Cardinality(OnTheWay(n)') <= Cardinality(OnTheWay(n))
        <4>1. CASE n = Head(items)
          <5>1. <<"queue", 0>> \in OnTheWay(n)
            BY <2>2, <4>1 DEF OnTheWay, Holds, Places
          <5>2. OnTheWay(n)' \subseteq (OnTheWay(n) \ {<<"queue", 0>>}) \cup {here}
            BY <1>t, <2>1, <2>2, <4>1 DEF OnTheWay, Holds, Places, Deletions
          <5>3. QED
            BY <5>1, <5>2, CardMoved, WayIsFinite
        <4>2. CASE n # Head(items)
          <5>1. OnTheWay(n)' \subseteq OnTheWay(n)
            BY <1>t, <2>1, <2>2, <4>2 DEF OnTheWay, Holds, Places, Deletions
          <5>2. QED
            BY <5>1, FS_Subset, WayIsFinite
        <4>3. QED
          BY <4>1, <4>2
      <3>3. QED
        BY <3>1, <3>2, WayIsFinite
    <2>5. QED
      BY <2>1, <2>2, <2>3, <2>4, CausalFrame
  <1>2. CASE WorkerServes(w) \/ WorkerPushes(w) \/ WorkerEnds(w)
    <2>1. /\ UNCHANGED <<observerPc, seen, items, deletionPc, deletionOf, logged>>
          /\ \A v \in Workers : got'[v] \in {got[v], NoPath}
      BY <1>2, <1>t DEF WorkerServes, WorkerPushes, WorkerEnds, Queue!Release, LogsNothing,
                        queueVars, observerVars, deletionVars
    <2>2. QED
      BY <2>1, CausalSilent
  <1>3. CASE WorkerSchedules(w)
    <2> DEFINE started == {e \in Deletions : deletionPc[e] # "none"}
               d       == Cardinality(started) + 1
    <2>1. /\ d \in Deletions /\ got[w] \in Names
          /\ deletionPc' = [deletionPc EXCEPT ![d] = "start"]
          /\ deletionOf' = [deletionOf EXCEPT ![d] = got[w]]
          /\ got' = [got EXCEPT ![w] = NoPath]
          /\ UNCHANGED <<observerPc, seen, items, logged>>
      BY <1>3 DEF WorkerSchedules, Queue!Release, LogsNothing, observerVars, Names
    <2>2. PICK k \in 0 .. MaxChanges :
            \A e \in Deletions : deletionPc[e] # "none" <=> e <= k
      BY DEF CausalInv
    <2>3. d = k + 1
      <3>1. started = 1 .. k
        BY <2>2, AppAssumption DEF Deletions
      <3>2. Cardinality(1 .. k) = k
        BY FS_Interval
      <3>3. QED
        BY <3>1, <3>2
    <2> HIDE DEF d
    <2>4. /\ deletionPc \in
                 [Deletions -> {"none", "start", "wait", "asleep", "log", "ended"}]
          /\ deletionOf \in [Deletions -> Names \cup {NoPath}]
          /\ \A e \in Deletions : e \in Nat
          /\ deletionPc[d] = "none"
      BY <2>1, <2>2, <2>3 DEF IInv, ThreadType, Deletions
    <2>5. IsInjective(items') /\ InOrder'
      <3>1. d \in 0 .. MaxChanges
        BY <2>1 DEF Deletions
      <3>2. \A e \in Deletions : deletionPc'[e] # "none" <=> e <= d
        BY <2>1, <2>2, <2>3, <2>4
      <3>3. QED
        BY <2>1, <3>1, <3>2 DEF CausalInv, InOrder, Deletions
    <2>6. ASSUME NEW n \in Names
          PROVE  /\ Cardinality(OnTheWay(n)') <= Cardinality(OnTheWay(n))
                 /\ Cardinality(Announced(n)') <= Cardinality(Announced(n))
      <3>0. n # NoPath
        BY AppAssumption
      <3>1. Announced(n)' = Announced(n)
        BY <2>1, <2>4 DEF Announced, Deletions
      <3>2. Cardinality(OnTheWay(n)') <= Cardinality(OnTheWay(n))
        <4>1. CASE n = got[w]
          <5>1. here \in OnTheWay(n)
            BY <1>t, <4>1 DEF OnTheWay, Holds
          <5>2. OnTheWay(n)'
                  \subseteq (OnTheWay(n) \ {here}) \cup {<<"deletion", d>>}
            BY <1>t, <2>1, <2>4, <3>0, <4>1
            DEF OnTheWay, Holds, Places, Deletions
          <5>3. QED
            BY <5>1, <5>2, CardMoved, WayIsFinite
        <4>2. CASE n # got[w]
          <5>1. OnTheWay(n)' \subseteq OnTheWay(n)
            BY <1>t, <2>1, <2>4, <3>0, <4>2
            DEF OnTheWay, Holds, Places, Deletions
          <5>2. QED
            BY <5>1, FS_Subset, WayIsFinite
        <4>3. QED
          BY <4>1, <4>2
      <3>3. QED
        BY <3>1, <3>2, WayIsFinite
    <2>7. QED
      BY <2>1, <2>5, <2>6, CausalFrame
  <1>4. CASE WorkerLogs(w)
    <2>1. PICK kind \in {"backedup", "deleted", "failed"} : Logs(kind, got[w])
      BY <1>4 DEF WorkerLogs, Answer
    <2>2. /\ got[w] \in Names /\ got' = [got EXCEPT ![w] = NoPath]
          /\ UNCHANGED <<observerPc, seen, items, deletionPc, deletionOf>>
      BY <1>4 DEF WorkerLogs, Works, Queue!Release, observerVars, deletionVars,
                  IInv, PhaseInv
    <2>3. IsInjective(items') /\ InOrder'
      BY <2>2 DEF CausalInv, InOrder, Deletions
    <2> DEFINE m == got[w]
    <2>4. ASSUME NEW n \in Names
          PROVE  /\ Cardinality(OnTheWay(n)') + Gain(Answers, kind, m, n)
                      <= Cardinality(OnTheWay(n)) + Gain({"changed"}, kind, m, n)
                 /\ Cardinality(Announced(n)') + Gain({"expired"}, kind, m, n)
                      <= Cardinality(Announced(n))
                           + Gain({"scheduled"}, kind, m, n)
      <3>1. Announced(n)' = Announced(n) /\ n # NoPath
        BY <2>2, AppAssumption DEF Announced, Deletions
      <3>2. /\ Gain({"changed"}, kind, m, n) = 0
            /\ Gain({"expired"}, kind, m, n) = 0
            /\ Gain({"scheduled"}, kind, m, n) = 0
        BY DEF Gain
      <3>3. Cardinality(OnTheWay(n)') + Gain(Answers, kind, m, n)
              <= Cardinality(OnTheWay(n))
        <4>1. CASE m = n
          <5>1. here \in OnTheWay(n)
            BY <1>t, <4>1 DEF OnTheWay, Holds
          <5>2. OnTheWay(n)' \subseteq OnTheWay(n) \ {here}
            BY <1>t, <2>2, <3>1 DEF OnTheWay, Holds, Places, Deletions
          <5>3. Cardinality(OnTheWay(n)') + 1 <= Cardinality(OnTheWay(n))
            BY <5>1, <5>2, CardGone, WayIsFinite
          <5>4. Gain(Answers, kind, m, n) = 1
            BY <4>1 DEF Gain, Answers
          <5>5. QED
            BY <5>3, <5>4
        <4>2. CASE m # n
          <5>1. OnTheWay(n)' \subseteq OnTheWay(n)
            BY <1>t, <2>2, <3>1 DEF OnTheWay, Holds, Places, Deletions
          <5>2. Cardinality(OnTheWay(n)') <= Cardinality(OnTheWay(n))
            BY <5>1, FS_Subset, WayIsFinite
          <5>3. Gain(Answers, kind, m, n) = 0
            BY <4>2 DEF Gain
          <5>4. QED
            BY <5>2, <5>3, WayIsFinite
        <4>3. QED
          BY <4>1, <4>2
      <3>4. QED
        BY <3>1, <3>2, <3>3, WayIsFinite
    <2>5. QED
      BY <2>1, <2>2, <2>3, <2>4, CausalEntry
  <1>5. QED
    BY <1>1, <1>2, <1>3, <1>4 DEF Worker

(* An announcement answers the request, and allows one deletion. *)
LEMMA DeletionCausal ==
  ASSUME IInv, CausalInv, IsFiniteSet(Workers), NEW d \in Deletions,
         Deletion(d)
  PROVE  CausalInv'
  <1> DEFINE here == <<"deletion", d>>
             m    == deletionOf[d]
  <1>t. /\ deletionPc \in
               [Deletions -> {"none", "start", "wait", "asleep", "log", "ended"}]
        /\ here \in Places
    BY DEF IInv, ThreadType, Places
  <1>u. UNCHANGED <<observerPc, seen, items, got, deletionOf>>
    BY DEF Deletion, DeletionLogs, DeletionExpires, DeletionGivesUp,
           DeletionOversleeps, observerVars, queueVars
  <1>1. CASE DeletionExpires(d) \/ DeletionGivesUp(d) \/ DeletionOversleeps(d)
    <2>1. /\ \/ deletionPc[d] = "wait"
             \/ deletionPc[d] = "asleep" /\ deletionPc' = [deletionPc EXCEPT ![d] = "ended"]
          /\ \E to \in {"log", "ended"} : deletionPc' = [deletionPc EXCEPT ![d] = to]
          /\ UNCHANGED logged
      BY <1>1 DEF DeletionExpires, DeletionGivesUp, DeletionOversleeps, Deletes,
                  LogsNothing
    <2>2. QED
      BY <1>t, <1>u, <2>1, CausalSilent
  <1>2. CASE DeletionLogs(d)
    <2>1. PICK from \in {"start", "log"}, to \in {"wait", "ended"},
               kind \in {"scheduled", "expired"} :
            /\ \/ from = "start" /\ to = "wait" /\ kind = "scheduled"
               \/ from = "log" /\ to = "ended" /\ kind = "expired"
            /\ deletionPc[d] = from /\ deletionPc' = [deletionPc EXCEPT ![d] = to]
            /\ Logs(kind, m)
      BY <1>2 DEF DeletionLogs, Deletes
    <2>2. m \in Names
      BY <2>1 DEF IInv, PhaseInv
    <2>3. IsInjective(items') /\ InOrder'
      <3>1. \A e \in Deletions : deletionPc'[e] # "none" <=> deletionPc[e] # "none"
        BY <1>t, <2>1
      <3>2. QED
        BY <1>u, <3>1 DEF CausalInv, InOrder, Deletions
    <2>4. ASSUME NEW n \in Names
          PROVE  /\ Cardinality(OnTheWay(n)') + Gain(Answers, kind, m, n)
                      <= Cardinality(OnTheWay(n)) + Gain({"changed"}, kind, m, n)
                 /\ Cardinality(Announced(n)') + Gain({"expired"}, kind, m, n)
                      <= Cardinality(Announced(n))
                           + Gain({"scheduled"}, kind, m, n)
      <3>0. OnTheWay(n)' \subseteq OnTheWay(n)
        BY <1>t, <1>u, <2>1 DEF OnTheWay, Holds, Places, Deletions
      <3>1. Cardinality(OnTheWay(n)') <= Cardinality(OnTheWay(n))
        BY <3>0, FS_Subset, WayIsFinite
      <3>2. Gain({"changed"}, kind, m, n) = 0
        BY DEF Gain
      <3>3. CASE m # n
        <4>1. Announced(n)' = Announced(n)
          BY <1>t, <1>u, <2>1, <3>3 DEF Announced, Deletions
        <4>2. /\ Gain(Answers, kind, m, n) = 0
              /\ Gain({"expired"}, kind, m, n) = 0
              /\ Gain({"scheduled"}, kind, m, n) = 0
          BY <3>3 DEF Gain
        <4>3. QED
          BY <3>1, <3>2, <4>1, <4>2, WayIsFinite
      <3>4. CASE m = n /\ kind = "scheduled"
        <4>1. here \in OnTheWay(n) /\ OnTheWay(n)' \subseteq OnTheWay(n) \ {here}
          BY <1>t, <1>u, <2>1, <3>4 DEF OnTheWay, Holds, Places, Deletions
        <4>2. Cardinality(OnTheWay(n)') + 1 <= Cardinality(OnTheWay(n))
          BY <4>1, CardGone, WayIsFinite
        <4>3. Announced(n)' \subseteq Announced(n) \cup {d}
          BY <1>t, <1>u, <2>1 DEF Announced, Deletions
        <4>4. Cardinality(Announced(n)') <= Cardinality(Announced(n)) + 1
          BY <4>3, CardCome, WayIsFinite
        <4>5. /\ Gain(Answers, kind, m, n) = 1
              /\ Gain({"expired"}, kind, m, n) = 0
              /\ Gain({"scheduled"}, kind, m, n) = 1
          BY <3>4 DEF Gain, Answers
        <4>6. QED
          BY <3>2, <4>2, <4>4, <4>5, WayIsFinite
      <3>5. CASE m = n /\ kind = "expired"
        <4>1. d \in Announced(n) /\ Announced(n)' \subseteq Announced(n) \ {d}
          BY <1>t, <1>u, <2>1, <3>5 DEF Announced, Deletions
        <4>2. Cardinality(Announced(n)') + 1 <= Cardinality(Announced(n))
          BY <4>1, CardGone, WayIsFinite
        <4>3. /\ Gain(Answers, kind, m, n) = 0
              /\ Gain({"expired"}, kind, m, n) = 1
              /\ Gain({"scheduled"}, kind, m, n) = 0
          BY <3>5 DEF Gain, Answers
        <4>4. QED
          BY <3>1, <3>2, <4>2, <4>3, WayIsFinite
      <3>6. QED
        BY <3>3, <3>4, <3>5
    <2>5. QED
      BY <2>1, <2>2, <2>3, <2>4, CausalEntry
  <1>3. QED
    BY <1>1, <1>2 DEF Deletion

LEMMA NextCausal ==
  ASSUME IInv, CausalInv, IsFiniteSet(Workers), [Next]_vars
  PROVE  CausalInv'
  <1>1. CASE Launch \/ Crash
    BY <1>1, SessionCausal
  <1>2. CASE InitThrows \/ Console \/ MainRuns \/ ObserverEnds
    BY <1>2, MainCausal
  <1>3. CASE Observer
    BY <1>3, ObserverCausal
  <1>4. CASE \E w \in Workers : Worker(w) \/ WorkerEnds(w)
    BY <1>4, WorkerCausal
  <1>5. CASE \E d \in Deletions : Deletion(d)
    BY <1>5, DeletionCausal
  <1>6. CASE UNCHANGED vars
    BY <1>6, CausalSilent DEF vars, threadVars, observerVars, queueVars,
                              deletionVars
  <1>7. QED
    BY <1>1, <1>2, <1>3, <1>4, <1>5, <1>6 DEF Next

(* For any finite number of workers, the log tells of causes before their  *)
(* effects: no answer without a report of its own before it, and no        *)
(* deletion at its time without an announcement, over all crashes.         *)
THEOREM LogIsAlwaysCausal ==
  ASSUME IsFiniteSet(Workers)
  PROVE  SafeSpec => []LogIsCausal
  <1>1. IInv /\ CausalInv /\ [Next]_vars => CausalInv'
    BY NextCausal
  <1>2. CausalInv => LogIsCausal
    BY DEF CausalInv
  <1>3. QED
    BY <1>1, <1>2, InitCausal, Invariance, PTL DEF SafeSpec

-----------------------------------------------------------------------------
(* The end of the threads *)

(* ThreadsInv bounds when there may be threads of a kind.  While main() is *)
(* at these steps, they are there; those that are waited for have been     *)
(* told to stop; and no deletion runs when all were waited for whose        *)
(* futures are there. *)
EndInv ==
  /\ mainPc \in WithObserver => observerPc # "none"
  /\ mainPc \in WithWorkers => \A w \in Workers : workerPc[w] # "none"
  /\ mainPc = "join_observer" => stopping
  /\ mainPc = "join_workers" => stopWorkers
  /\ mainPc = "join_deletions" => pluginDown
  /\ mainPc \in {"destroy_observer", "ended"} =>
       \A d \in Deletions \ unjoined : deletionPc[d] \in {"none", "ended"}

LEMMA InitEnd == Init => EndInv
  BY DEF Init, EndInv, WithObserver, WithWorkers

(* Before the workers are started and after the deletions were waited for, *)
(* nobody has to be there.                                                 *)
LEMMA EndOutside ==
  ASSUME mainPc' \in {"off", "init_logger", "init_rest", "init_manager",
                      "start_workers", "flush", "flushing", "destroy"}
  PROVE  EndInv'
  BY DEF EndInv, WithObserver, WithWorkers

(* The threads tell nobody to go on, and none goes without being joined.   *)
LEMMA EndFrame ==
  ASSUME EndInv, UNCHANGED <<mainPc, stopping, stopWorkers, pluginDown>>,
         mainPc \in {"destroy_observer", "ended"} => UNCHANGED unjoined,
         observerPc # "none" => observerPc' # "none",
         \A w \in Workers : workerPc[w] # "none" => workerPc'[w] # "none",
         mainPc \in {"destroy_observer", "ended"} =>
           \A d \in Deletions :
             deletionPc[d] \in {"none", "ended"} => deletionPc'[d] = deletionPc[d]
  PROVE  EndInv'
  BY DEF EndInv, Deletions

LEMMA MainEnd ==
  ASSUME IInv, EndInv, Launch \/ InitThrows \/ Crash \/ Console \/ MainRuns
  PROVE  EndInv'
  <1> USE DEF Main
  <1>1. CASE \/ Launch \/ InitThrows \/ Crash \/ InitLogger \/ InitRest
             \/ InitManager \/ JoinWorkers \/ Flush \/ FlushLoop \/ FlushDone
    BY <1>1, EndOutside
    DEF Launch, InitThrows, Crash, InitLogger, InitRest, InitManager,
        JoinWorkers, Flush, FlushLoop, FlushDone
  <1>2. CASE StartWorkers
    <2>1. mainPc' = "start_observer" /\ \A w \in Workers : workerPc'[w] = "loop"
      BY <1>2 DEF StartWorkers
    <2>2. QED
      BY <2>1 DEF EndInv, WithObserver
  <1>3. CASE StartObserver \/ Console \/ StopObserver
    <2>1. /\ mainPc \in WithWorkers /\ UNCHANGED workerPc
          /\ mainPc' \in {"console", "spinning", "stop_observer", "join_observer"}
          /\ mainPc' = "join_observer" => stopping'
          /\ mainPc = "start_observer" \/ UNCHANGED observerPc
          /\ mainPc = "start_observer" => observerPc' # "none"
          /\ mainPc # "start_observer" => mainPc \in WithObserver
      BY <1>3 DEF StartObserver, Console, StopObserver, WithWorkers, WithObserver,
                  threadVars, workerVars, observerVars
    <2>2. QED
      BY <2>1 DEF EndInv
  <1>4. CASE JoinObserver \/ CloseQueue \/ StopWorkers
    <2>1. /\ mainPc \in WithWorkers /\ UNCHANGED workerPc
          /\ mainPc' \in {"close_queue", "stop_workers", "join_workers"}
          /\ mainPc' = "join_workers" => stopWorkers'
      BY <1>4 DEF JoinObserver, CloseQueue, StopWorkers, WithWorkers,
                  WithObserver, workerVars
    <2>2. QED
      BY <2>1 DEF EndInv, WithObserver
  <1>5. CASE Destroy \/ JoinDeletions \/ DestroyObserver
    <2>1. \/ mainPc' = "join_deletions" /\ pluginDown'
          \/ /\ mainPc' \in {"destroy_observer", "ended"}
             /\ \A d \in Deletions \ unjoined' : deletionPc'[d] \in {"none", "ended"}
      BY <1>5 DEF Destroy, JoinDeletions, DestroyObserver, threadVars,
                  deletionVars
    <2>2. QED
      BY <2>1 DEF EndInv, WithObserver, WithWorkers, Deletions
  <1>6. QED
    BY <1>1, <1>2, <1>3, <1>4, <1>5 DEF MainRuns

LEMMA WorkerEnd ==
  ASSUME IInv, EndInv, NEW w \in Workers, Worker(w) \/ WorkerEnds(w)
  PROVE  EndInv'
  <1>1. /\ UNCHANGED <<mainPc, observerPc, stopping, stopWorkers, pluginDown>>
        /\ workerPc[w] # "none"
        /\ \E to \in {"loop", "work", "push", "log", "log_failed", "ended"} :
             workerPc' = [workerPc EXCEPT ![w] = to]
    BY DEF Worker, WorkerTakes, WorkerServes, WorkerSchedules, WorkerPushes,
           WorkerLogs, WorkerEnds, Works, observerVars, deletionVars
  <1>2. \A v \in Workers : workerPc[v] # "none" => workerPc'[v] # "none"
    BY <1>1 DEF IInv, ThreadType
  <1>3. mainPc \notin {"destroy_observer", "ended"}
    BY <1>1 DEF IInv, ThreadsInv, WithWorkers, WithObserver
  <1>4. QED
    BY <1>1, <1>2, <1>3, EndFrame

LEMMA DeletionEnd ==
  ASSUME IInv, EndInv, NEW d \in Deletions, Deletion(d)
  PROVE  EndInv'
  <1>1. /\ UNCHANGED <<mainPc, observerVars, workerVars, pluginDown, unjoined>>
        /\ deletionPc[d] \notin {"none", "ended"}
        /\ \E to \in {"wait", "log", "ended"} :
             deletionPc' = [deletionPc EXCEPT ![d] = to]
    BY DEF Deletion, DeletionLogs, DeletionExpires, DeletionGivesUp,
           DeletionOversleeps, Deletes
  <1>2. \A e \in Deletions :
          deletionPc[e] \in {"none", "ended"} => deletionPc'[e] = deletionPc[e]
    BY <1>1 DEF IInv, ThreadType
  <1>3. QED
    BY <1>1, <1>2, EndFrame DEF observerVars, workerVars

LEMMA NextEnd == IInv /\ EndInv /\ [Next]_vars => EndInv'
  <1> SUFFICES ASSUME IInv, EndInv, [Next]_vars PROVE EndInv'
    OBVIOUS
  <1>1. CASE Launch \/ InitThrows \/ Crash \/ Console \/ MainRuns
    BY <1>1, MainEnd
  <1>2. CASE Observer \/ ObserverEnds
    BY <1>2, EndFrame
    DEF Observer, ObserverLogs, ObserverPushes, ObserverEnds, Observes,
        workerVars, deletionVars
  <1>3. CASE \E w \in Workers : Worker(w) \/ WorkerEnds(w)
    BY <1>3, WorkerEnd
  <1>4. CASE \E d \in Deletions : Deletion(d)
    BY <1>4, DeletionEnd
  <1>5. CASE UNCHANGED vars
    BY <1>5, EndFrame DEF vars, threadVars, observerVars, workerVars, deletionVars
  <1>6. QED
    BY <1>1, <1>2, <1>3, <1>4, <1>5 DEF Next

(* What shutdown() and the destructors join has been told to stop and is   *)
(* not started again, so that no join waits for nobody or for ever; and no *)
(* observer or worker outlives the destructors, nor a deletion, but one    *)
(* whose future two workers have lost in the vector that no lock protects. *)
THEOREM ThreadsEndInOrder == SafeSpec => []JoinsInOrder
  <1>1. IInv /\ EndInv => JoinsInOrder
    <2> SUFFICES ASSUME IInv, EndInv PROVE JoinsInOrder
      OBVIOUS
    <2>1. /\ mainPc \notin WithObserver => observerPc = "none"
          /\ mainPc \notin WithWorkers => \A w \in Workers : workerPc[w] = "none"
      BY DEF IInv, ThreadsInv
    <2>2. QED
      BY <2>1 DEF EndInv, JoinsInOrder, WithObserver, WithWorkers
  <1>2. QED
    BY <1>1, InitEnd, NextEnd, Invariance, PTL DEF SafeSpec

-----------------------------------------------------------------------------
(* The queue over the sessions *)

NewQueue == Queue!Init'

LEMMA NextUsesQueue ==
  IInv /\ [Next]_vars => [Queue!Next \/ NewQueue]_(Queue!abstractVars)
  <1> SUFFICES ASSUME IInv, [Next]_vars
               PROVE  Queue!Next \/ NewQueue \/ UNCHANGED queueVars
    BY DEF Queue!abstractVars, queueVars
  <1>1. CASE Launch \/ Crash
    BY <1>1 DEF Launch, Crash, NewThreads, NewQueue, Queue!Init
  <1>2. CASE CloseQueue
    BY <1>2 DEF CloseQueue, Queue!Next
  <1>3. CASE \/ InitThrows \/ Console \/ UNCHANGED vars \/ InitLogger \/ InitRest
             \/ InitManager \/ StartWorkers \/ StartObserver \/ StopObserver
             \/ JoinObserver \/ StopWorkers \/ JoinWorkers \/ Flush \/ FlushLoop
             \/ FlushDone \/ Destroy \/ JoinDeletions \/ DestroyObserver
    BY <1>3 DEF InitThrows, Console, vars, InitLogger, InitRest, InitManager,
       StartWorkers, StartObserver, StopObserver, JoinObserver, StopWorkers,
       JoinWorkers, Flush, FlushLoop, FlushDone, Destroy, JoinDeletions,
       DestroyObserver, threadVars
  <1>4. CASE ObserverPushes
    <2>1. seen \in Names /\ UNCHANGED <<got, closed>>
      BY <1>4 DEF ObserverPushes, Observes, IInv, PhaseInv
    <2>2. CASE closed \/ seen \in Queue!Range(items)
      BY <1>4, <2>1, <2>2 DEF ObserverPushes, Queue!Pushed, queueVars
    <2>3. CASE ~closed /\ seen \notin Queue!Range(items)
      <3>1. Queue!Push(seen)
        BY <1>4, <2>1, <2>3 DEF ObserverPushes, Queue!Push
      <3>2. QED
        BY <2>1, <3>1 DEF Queue!Next
    <2>4. QED
      BY <2>2, <2>3
  <1>5. CASE (\E n \in Names : ObserverLogs(n)) \/ ObserverEnds
    BY <1>5 DEF ObserverLogs, ObserverEnds
  <1>6. ASSUME NEW w \in Workers, Worker(w) \/ WorkerEnds(w)
        PROVE  Queue!Take(w) \/ Queue!Release(w) \/ UNCHANGED queueVars
    BY <1>6 DEF Worker, WorkerEnds, WorkerTakes, WorkerServes, WorkerSchedules,
                WorkerPushes, WorkerLogs
  <1>7. ASSUME NEW d \in Deletions, Deletion(d)
        PROVE  UNCHANGED queueVars
    BY <1>7 DEF Deletion, DeletionLogs, DeletionExpires, DeletionGivesUp,
                DeletionOversleeps
  <1>8. QED
    BY <1>1, <1>2, <1>3, <1>4, <1>5, <1>6, <1>7
    DEF Next, MainRuns, Observer, Queue!Next

(* Within each session the threads of the application use the queue as     *)
(* DedupQueue specifies it; a new session, or the end of a killed one,     *)
(* leaves a new queue, for nothing of it is persistent.                    *)
THEOREM SessionsUseQueue ==
  SafeSpec => Queue!Init /\ [][Queue!Next \/ NewQueue]_(Queue!abstractVars)
  <1>1. Init => Queue!Init
    BY DEF Init
  <1>2. QED
    BY <1>1, Invariance, NextUsesQueue, PTL DEF SafeSpec

=============================================================================
