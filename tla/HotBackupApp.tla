---------------------------- MODULE HotBackupApp ---------------------------
(***************************************************************************)
(* main() and HotBackup::HotBackupApp over the life of the process: how    *)
(* the threads are started, what they tell the audit log, the order in     *)
(* which shutdown() and the destructors end them, and what is left in the  *)
(* file when the process ends in that way, fails to start, or is killed,   *)
(* and is started again.                                                   *)
(*                                                                         *)
(* The queue is that of DedupQueue.tla.  The threads are those of          *)
(* FileObserver, BackupManager and FileDeleterPlugin, reduced to what they *)
(* do to the queue and the log; what they do to the files is in            *)
(* BackupPipeline.tla.                                                     *)
(***************************************************************************)
EXTENDS Logger, FiniteSets, Functions

CONSTANTS
  Workers,     (* the worker threads: m_backupWorkersCount of them         *)
  Files,       (* the files of the hot directory                           *)
  NoPath,      (* the empty path                                           *)
  MaxChanges,  (* bound on the changes that the observer is told of        *)
  MaxSessions  (* bound on the number of times the program is started      *)

(* The names in the hot directory: f, delete_f, and delete_<time>_f. *)
Names == {"plain", "delete", "timed"} \X Files

ASSUME AppAssumption ==
  NoPath \notin Names /\ MaxChanges \in Nat /\ MaxSessions \in Nat

VARIABLES
  session,     (* how many times the program was started                   *)
  mainPc,      (* the next step of main(), or how the process has ended    *)
  (* the observer *)
  observerPc, seen,  (* the step of its thread, and the name it handles    *)
  stopping,    (* the controller's pipe is readable                        *)
  changes,     (* how many changes were reported                           *)
  (* the queue *)
  items, got, closed,
  (* the backup manager and its plugin *)
  workerPc,    (* per worker: the step of its loop                         *)
  stopWorkers, (* BackupManager::m_shutdown                                *)
  deletionPc,  (* per scheduled deletion: the step of its thread           *)
  deletionOf,  (* per scheduled deletion: the name that asked for it       *)
  pluginDown,  (* FileDeleterPlugin::m_shutdown                            *)
  pushing,     (* per worker: the deletion whose future it is adding to    *)
               (* the vector, or 0                                         *)
  unjoined,    (* the deletions whose futures were lost there              *)
  (* history *)
  logged,      (* the entries of this session                              *)
  history,     (* what the flushes of all sessions had to write            *)
  flushed,     (* whether this session's flush has opened the file         *)
  lost         (* whether lines of the file were lost: the process was     *)
               (* killed in a flush, a write failed, or the file was not   *)
               (* readable when it was loaded                              *)

Queue == INSTANCE DedupQueue WITH Paths <- Names, Consumers <- Workers

observerVars == <<observerPc, seen, stopping, changes>>
queueVars    == <<items, got, closed>>
workerVars   == <<workerPc, stopWorkers>>
deletionVars == <<deletionPc, deletionOf, pluginDown, pushing, unjoined>>
threadVars   == <<observerVars, queueVars, workerVars, deletionVars>>
journalVars  == <<history, flushed, lost>>
vars == <<session, mainPc, threadVars, loggerVars, logged, journalVars>>

(* The threads of scheduled deletions, in the order they were started. *)
Deletions == 1 .. MaxChanges

NewThreads ==
  /\ observerPc' = "none" /\ seen' = NoPath /\ stopping' = FALSE
  /\ items' = <<>> /\ got' = [w \in Workers |-> NoPath] /\ closed' = FALSE
  /\ workerPc' = [w \in Workers |-> "none"] /\ stopWorkers' = FALSE
  /\ deletionPc' = [d \in Deletions |-> "none"]
  /\ deletionOf' = [d \in Deletions |-> NoPath]
  /\ pluginDown' = FALSE
  /\ pushing' = [w \in Workers |-> 0] /\ unjoined' = {}

Init ==
  /\ session = 0
  /\ mainPc = "off"
  /\ observerPc = "none" /\ seen = NoPath /\ stopping = FALSE /\ changes = 0
  /\ Queue!Init
  /\ workerPc = [w \in Workers |-> "none"] /\ stopWorkers = FALSE
  /\ deletionPc = [d \in Deletions |-> "none"]
  /\ deletionOf = [d \in Deletions |-> NoPath]
  /\ pluginDown = FALSE
  /\ pushing = [w \in Workers |-> 0] /\ unjoined = {}
  /\ LoggerInit /\ audit = <<>>
  /\ logged = <<>> /\ history = <<>> /\ flushed = FALSE /\ lost = FALSE

-----------------------------------------------------------------------------
Entry(kind, name) == <<kind, name>>

Logs(kind, name) ==
  /\ Log(Entry(kind, name))
  /\ logged' = Append(logged, Entry(kind, name))
  /\ UNCHANGED journalVars

LogsNothing == UNCHANGED <<loggerVars, logged, journalVars>>

Main(from, to) == mainPc = from /\ mainPc' = to

Deletes(d, from, to) ==
  deletionPc[d] = from /\ deletionPc' = [deletionPc EXCEPT ![d] = to]

-----------------------------------------------------------------------------
(* main(): the start.  What throws before a thread runs ends in main()'s   *)
(* handler; nothing is flushed. *)

Launch ==
  /\ mainPc \in {"off", "ended"} /\ session < MaxSessions
  /\ session' = session + 1
  /\ mainPc' = "init_logger"
  /\ NewThreads
  /\ m_logs' = <<>> /\ logged' = <<>> /\ flushed' = FALSE
  /\ UNCHANGED <<changes, audit, flushVars, history, lost>>

(* The directories cannot be used, or one of the constructors throws. *)
InitThrows ==
  /\ mainPc \in {"init_logger", "init_rest", "init_manager", "start_workers"}
  /\ mainPc' = "off"
  /\ UNCHANGED <<session, threadVars>> /\ LogsNothing

InitLogger ==
  /\ Main("init_logger", "init_rest")
  /\ \/ LoadPreviousLogs /\ UNCHANGED lost
     \/ LoadFails /\ lost' = (lost \/ audit # <<>>)
  /\ UNCHANGED <<session, threadVars, logged, history, flushed>>

(* The queue, the manager, the plugin, and the observer with its subject.  *)
InitRest ==
  /\ Main("init_rest", "init_manager")
  /\ UNCHANGED <<session, threadVars>> /\ LogsNothing

(* BackupManager::init() and add_plugin(), while no worker is there to     *)
(* forbid it. *)
InitManager ==
  /\ ~stopWorkers /\ \A w \in Workers : workerPc[w] = "none"
  /\ Main("init_manager", "start_workers")
  /\ UNCHANGED <<session, threadVars>> /\ LogsNothing

StartWorkers ==
  /\ Main("start_workers", "start_observer")
  /\ workerPc' = [w \in Workers |-> "loop"]
  /\ UNCHANGED <<session, observerVars, queueVars, stopWorkers, deletionVars>>
  /\ LogsNothing

StartObserver ==
  /\ Main("start_observer", "console")
  /\ observerPc' = "poll"
  /\ UNCHANGED <<session, seen, stopping, changes, queueVars, workerVars,
                 deletionVars>>
  /\ LogsNothing

(* The process ends at once: it is killed; or a thread cannot be started   *)
(* when others run already, whose std::thread objects call terminate(); or *)
(* the vector of futures was damaged, and a wait() for none throws in the  *)
(* destructor. *)
Crash ==
  /\ mainPc \notin {"off", "ended"}
  /\ mainPc' = "off"
  /\ NewThreads
  /\ lost' = (lost \/ cursor \in 1 .. flushEnd)
  /\ cursor' = 0 /\ flushEnd' = 0 /\ moved' = FALSE
  /\ UNCHANGED <<session, changes, m_logs, audit, logged, history, flushed>>

-----------------------------------------------------------------------------
(* The console, and HotBackupApp::shutdown() *)

(* At the end of the input, the loop goes on with empty words for ever.    *)
Console ==
  /\ Main("console", "stop_observer") \/ Main("console", "spinning")
  /\ UNCHANGED <<session, threadVars>> /\ LogsNothing

StopObserverSilent ==
  /\ Main("stop_observer", "join_observer")
  /\ UNCHANGED <<session, threadVars>> /\ LogsNothing

StopObserver ==
  /\ Main("stop_observer", "join_observer")
  /\ stopping' = TRUE
  /\ UNCHANGED <<session, observerPc, seen, changes, queueVars, workerVars,
                 deletionVars>>
  /\ LogsNothing

JoinObserverNot ==
  /\ Main("join_observer", "close_queue")
  /\ UNCHANGED <<session, threadVars>> /\ LogsNothing

JoinObserver ==
  /\ observerPc = "ended"
  /\ Main("join_observer", "close_queue")
  /\ observerPc' = "none"
  /\ UNCHANGED <<session, seen, stopping, changes, queueVars, workerVars,
                 deletionVars>>
  /\ LogsNothing

CloseQueue ==
  /\ Main("close_queue", "stop_workers")
  /\ Queue!Close
  /\ UNCHANGED <<session, observerVars, workerVars, deletionVars>>
  /\ LogsNothing

StopWorkers ==
  /\ Main("stop_workers", "join_workers")
  /\ stopWorkers' = TRUE
  /\ UNCHANGED <<session, observerVars, queueVars, workerPc, deletionVars>>
  /\ LogsNothing

JoinWorkersNot ==
  /\ Main("join_workers", "flush")
  /\ UNCHANGED <<session, threadVars>> /\ LogsNothing

JoinWorkers ==
  /\ \A w \in Workers : workerPc[w] = "ended"
  /\ Main("join_workers", "flush")
  /\ workerPc' = [w \in Workers |-> "none"] /\ stopWorkers' = FALSE
  /\ UNCHANGED <<session, observerVars, queueVars, deletionVars>>
  /\ LogsNothing

(* m_logger->shutdown() *)
Flush ==
  /\ \/ /\ Main("flush", "flushing")
        /\ FlushOpens
        /\ flushed' = TRUE /\ history' = history \o logged
     \/ /\ Main("flush", "destroy")
        /\ FlushOpenFails
        /\ UNCHANGED <<flushed, history>>
  /\ UNCHANGED <<session, threadVars, logged, lost>>

FlushLoop ==
  /\ mainPc = "flushing" /\ cursor <= flushEnd
  /\ \/ \E line \in Readable(cursor) :
          /\ FlushWritesLine(line)
          /\ lost' = (lost \/ line # m_logs[cursor])
     \/ FlushBreaks /\ lost' = TRUE
  /\ UNCHANGED <<session, mainPc, threadVars, logged, history, flushed>>

FlushDone ==
  /\ Main("flushing", "destroy")
  /\ FlushCloses
  /\ UNCHANGED <<session, threadVars, logged, journalVars>>

(* ~HotBackupApp, and with the manager the plugin: its shutdown() is the   *)
(* first to hear of the end.  One of the deletions that wait may be        *)
(* between the predicate and the block when it is notified, and misses it. *)
Destroy ==
  /\ Main("destroy", "join_deletions")
  /\ pluginDown' = TRUE
  /\ \/ UNCHANGED deletionPc
     \/ \E d \in Deletions : Deletes(d, "wait", "asleep")
  /\ UNCHANGED <<session, observerVars, queueVars, workerVars, deletionOf,
                 pushing, unjoined>>
  /\ LogsNothing

(* It waits for the deletions whose futures it finds. *)
JoinDeletions ==
  /\ \A d \in Deletions \ unjoined : deletionPc[d] \in {"none", "ended"}
  /\ Main("join_deletions", "destroy_observer")
  /\ UNCHANGED <<session, threadVars>> /\ LogsNothing

(* ~FileObserver stops the observer once more, and joins it unless it was. *)
(* The end of main() is that of whatever thread was not waited for.        *)
DestroyObserver ==
  /\ observerPc \in {"none", "ended"}
  /\ Main("destroy_observer", "ended")
  /\ stopping' = TRUE
  /\ observerPc' = "none"
  /\ deletionPc' = [d \in Deletions |->
                      IF deletionPc[d] = "none" THEN "none" ELSE "ended"]
  /\ UNCHANGED <<session, seen, changes, queueVars, workerVars, deletionOf,
                 pluginDown, pushing, unjoined>>
  /\ LogsNothing

-----------------------------------------------------------------------------
(* The observer's thread: changedFilesHandler. *)

Observes(from, to) == observerPc = from /\ observerPc' = to

ObserverSaysNothing(n) ==
  /\ Observes("poll", "push")
  /\ changes < MaxChanges /\ changes' = changes + 1
  /\ seen' = n
  /\ LogsNothing
  /\ UNCHANGED <<session, mainPc, stopping, queueVars, workerVars, deletionVars>>

ObserverLogs(n) ==
  /\ Observes("poll", "push")
  /\ changes < MaxChanges /\ changes' = changes + 1
  /\ seen' = n
  /\ Logs("changed", n)
  /\ UNCHANGED <<session, mainPc, stopping, queueVars, workerVars, deletionVars>>

ObserverPushesReset ==
  /\ Observes("push", "poll")
  /\ seen' = NoPath
  /\ items' = IF closed THEN items ELSE Queue!Pushed(items, seen')
  /\ UNCHANGED <<session, mainPc, stopping, changes, got, closed, workerVars,
                 deletionVars>>
  /\ LogsNothing

ObserverPushes ==
  /\ Observes("push", "poll")
  /\ items' = IF closed THEN items ELSE Queue!Pushed(items, seen)
  /\ seen' = NoPath
  /\ UNCHANGED <<session, mainPc, stopping, changes, got, closed, workerVars,
                 deletionVars>>
  /\ LogsNothing

ObserverEnds ==
  /\ stopping
  /\ Observes("poll", "ended")
  /\ UNCHANGED <<session, mainPc, seen, stopping, changes, queueVars, workerVars,
                 deletionVars>>
  /\ LogsNothing

-----------------------------------------------------------------------------
(* The workers *)

Works(w, from, to) ==
  workerPc[w] = from /\ workerPc' = [workerPc EXCEPT ![w] = to]

WorkerTakes(w) ==
  /\ Works(w, "loop", "work")
  /\ Queue!Take(w)
  /\ UNCHANGED <<session, mainPc, observerVars, stopWorkers, deletionVars>>
  /\ LogsNothing

(* backup_file() has copied the file, or execute() has deleted or tried    *)
(* to delete it; or there is nothing to say, for something has thrown.     *)
WorkerServes(w) ==
  /\ got[w] \in {"plain", "delete"} \X Files
  /\ \/ /\ Works(w, "work", "log")
        /\ UNCHANGED queueVars
     \/ /\ got[w][1] = "delete"
        /\ Works(w, "work", "log_failed")
        /\ UNCHANGED queueVars
     \/ /\ Works(w, "work", "loop")
        /\ Queue!Release(w)
  /\ UNCHANGED <<session, mainPc, observerVars, stopWorkers, deletionVars>>
  /\ LogsNothing

(* execute() leaves the name to the thread of a scheduled deletion, and    *)
(* adds its future to a vector that no lock protects: where two workers do *)
(* so at once, the future of either may be lost. *)
WorkerSchedules(w) ==
  LET d     == Cardinality({e \in Deletions : deletionPc[e] # "none"}) + 1
      other == {pushing[v] : v \in Workers} \ {0}
  IN /\ got[w] \in {"timed"} \X Files /\ d \in Deletions
     /\ Works(w, "work", "push")
     /\ deletionPc' = [deletionPc EXCEPT ![d] = "start"]
     /\ deletionOf' = [deletionOf EXCEPT ![d] = got[w]]
     /\ pushing' = [pushing EXCEPT ![w] = d]
     /\ \/ UNCHANGED unjoined
        \/ /\ other # {}
           /\ \E none \in SUBSET (other \cup {d}) : unjoined' = unjoined \cup none
     /\ Queue!Release(w)
     /\ UNCHANGED <<session, mainPc, observerVars, stopWorkers, pluginDown>>
     /\ LogsNothing

WorkerPushes(w) ==
  /\ Works(w, "push", "loop")
  /\ pushing' = [pushing EXCEPT ![w] = 0]
  /\ UNCHANGED <<session, mainPc, observerVars, queueVars, stopWorkers,
                 deletionPc, deletionOf, pluginDown, unjoined>>
  /\ LogsNothing

Answer(n) == IF n[1] = "plain" THEN "backedup" ELSE "deleted"

WorkerLogs(w) ==
  /\ \/ Works(w, "log", "loop") /\ Logs(Answer(got[w]), got[w])
     \/ Works(w, "log_failed", "loop") /\ Logs("failed", got[w])
  /\ Queue!Release(w)
  /\ UNCHANGED <<session, mainPc, observerVars, stopWorkers, deletionVars>>

WorkerEnds(w) ==
  /\ stopWorkers
  /\ Works(w, "loop", "ended")
  /\ UNCHANGED <<session, mainPc, observerVars, queueVars, stopWorkers,
                 deletionVars>>
  /\ LogsNothing

-----------------------------------------------------------------------------
(* The threads of scheduled deletions *)

DeletionLogs(d) ==
  /\ \/ Deletes(d, "start", "wait") /\ Logs("scheduled", deletionOf[d])
     \/ Deletes(d, "log", "ended") /\ Logs("expired", deletionOf[d])
  /\ UNCHANGED <<session, mainPc, observerVars, queueVars, workerVars,
                 deletionOf, pluginDown, pushing, unjoined>>

(* The time has come; remove() may throw. *)
DeletionExpires(d) ==
  /\ ~pluginDown
  /\ Deletes(d, "wait", "log") \/ Deletes(d, "wait", "ended")
  /\ UNCHANGED <<session, mainPc, observerVars, queueVars, workerVars,
                 deletionOf, pluginDown, pushing, unjoined>>
  /\ LogsNothing

(* It was notified, or finds the flag set when it gets to the wait. *)
DeletionGivesUp(d) ==
  /\ pluginDown
  /\ Deletes(d, "wait", "ended")
  /\ UNCHANGED <<session, mainPc, observerVars, queueVars, workerVars,
                 deletionOf, pluginDown, pushing, unjoined>>
  /\ LogsNothing

(* The one that missed the notification finds the flag when its time comes. *)
DeletionOversleeps(d) ==
  /\ Deletes(d, "asleep", "ended")
  /\ UNCHANGED <<session, mainPc, observerVars, queueVars, workerVars,
                 deletionOf, pluginDown, pushing, unjoined>>
  /\ LogsNothing

-----------------------------------------------------------------------------
Observer == (\E n \in Names : ObserverLogs(n)) \/ ObserverPushes

Worker(w) ==
  \/ WorkerTakes(w) \/ WorkerServes(w) \/ WorkerSchedules(w) \/ WorkerPushes(w)
  \/ WorkerLogs(w)

Deletion(d) ==
  \/ DeletionLogs(d) \/ DeletionExpires(d)
  \/ DeletionGivesUp(d) \/ DeletionOversleeps(d)

MainRuns ==
  \/ InitLogger \/ InitRest \/ InitManager \/ StartWorkers \/ StartObserver
  \/ StopObserver \/ JoinObserver \/ CloseQueue \/ StopWorkers \/ JoinWorkers
  \/ Flush \/ FlushLoop \/ FlushDone \/ Destroy \/ JoinDeletions
  \/ DestroyObserver

Next ==
  \/ Launch \/ InitThrows \/ Crash \/ Console \/ MainRuns
  \/ Observer \/ ObserverEnds
  \/ \E w \in Workers : Worker(w) \/ WorkerEnds(w)
  \/ \E d \in Deletions : Deletion(d)

SafeSpec == Init /\ [][Next]_vars

(* Threads keep running.  Nobody need start the program or type exit.  No  *)
(* timestamp need come before the end, but those that a deletion sleeps    *)
(* for are finite, and time passes. *)
Fairness ==
  /\ WF_vars(MainRuns)
  /\ WF_vars(ObserverPushes) /\ WF_vars(ObserverEnds)
  /\ \A w \in Workers : WF_vars(Worker(w)) /\ WF_vars(WorkerEnds(w))
  /\ \A d \in Deletions :
       /\ WF_vars(DeletionLogs(d)) /\ WF_vars(DeletionGivesUp(d))
       /\ WF_vars(DeletionOversleeps(d))

Spec == SafeSpec /\ Fairness

-----------------------------------------------------------------------------
Entries ==
  {"changed", "backedup", "deleted", "failed", "scheduled", "expired"} \X Names

(* Every variable has the values its counterpart can hold; a flush does    *)
(* not run beyond the end of the log. *)
TypeOK ==
  /\ session \in 0 .. MaxSessions
  /\ mainPc \in {"off", "init_logger", "init_rest", "init_manager",
                 "start_workers", "start_observer", "console", "spinning",
                 "stop_observer",
                 "join_observer", "close_queue", "stop_workers",
                 "join_workers", "flush", "flushing", "destroy",
                 "join_deletions", "destroy_observer", "ended"}
  /\ observerPc \in {"none", "poll", "push", "ended"}
  /\ seen \in Names \cup {NoPath}
  /\ stopping \in BOOLEAN
  /\ changes \in 0 .. MaxChanges
  /\ items \in Seq(Names)
  /\ got \in [Workers -> Names \cup {NoPath}]
  /\ closed \in BOOLEAN
  /\ workerPc \in
       [Workers -> {"none", "loop", "work", "push", "log", "log_failed", "ended"}]
  /\ stopWorkers \in BOOLEAN
  /\ deletionPc \in
       [Deletions -> {"none", "start", "wait", "asleep", "log", "ended"}]
  /\ deletionOf \in [Deletions -> Names \cup {NoPath}]
  /\ pluginDown \in BOOLEAN
  /\ pushing \in [Workers -> Deletions \cup {0}]
  /\ unjoined \subseteq Deletions
  /\ m_logs \in Seq(Entries \cup {Garbage})
  /\ audit \in Seq(Entries \cup {Garbage})
  /\ flushEnd \in 0 .. Len(m_logs)
  /\ cursor \in 0 .. flushEnd + 1
  /\ moved \in BOOLEAN
  /\ logged \in Seq(Entries)
  /\ history \in Seq(Entries)
  /\ flushed \in BOOLEAN
  /\ lost \in BOOLEAN

(* Over all sessions, those that fail to start or are killed included, the *)
(* file holds everything that was logged before the flushes, once and in   *)
(* order: each session writes it anew without losing what others wrote.    *)
HistoryKept == ~lost /\ ~Flushing => audit = history

(* How many of the first i entries of this session are of these kinds. *)
Said(kinds, n, i) == Cardinality({j \in 1 .. i : logged[j] \in kinds \X {n}})

(* The log never says that a file was dealt with before it says what was   *)
(* to be done: every answer of a worker has a report of the observer       *)
(* before it, and every deletion at its time the entry that announced it.  *)
LogIsCausal ==
  \A i \in DOMAIN logged, n \in Names :
    /\ Said({"backedup", "deleted", "failed", "scheduled"}, n, i)
         <= Said({"changed"}, n, i)
    /\ Said({"expired"}, n, i) <= Said({"scheduled"}, n, i)

OfDeletion(entry) == entry \in {"scheduled", "expired"} \X Names

(* After shutdown() has flushed the log, no observer or worker is left     *)
(* that might do something more, and the file has all they have done.      *)
WorkIsAudited ==
  flushed /\ ~Flushing /\ ~lost /\ mainPc # "off" =>
    /\ observerPc = "none" /\ \A w \in Workers : workerPc[w] = "none"
    /\ \A i \in DOMAIN m_logs :
         ~OfDeletion(m_logs[i]) => i <= Len(audit) /\ audit[i] = m_logs[i]

(* The end comes in an order that lets every join return and leaves no     *)
(* thread behind but a deletion whose future was lost: who is waited for   *)
(* is there and was told to stop, nobody is left who would start another   *)
(* of its kind, and no other thread uses what the destructors destroy.     *)
JoinsInOrder ==
  /\ mainPc = "join_observer" => observerPc # "none" /\ stopping
  /\ mainPc = "join_workers" =>
       observerPc = "none" /\ stopWorkers /\ \A w \in Workers : workerPc[w] # "none"
  /\ mainPc = "join_deletions" =>
       pluginDown /\ \A w \in Workers : workerPc[w] = "none"
  /\ mainPc \in {"destroy_observer", "ended"} =>
       /\ observerPc = "none"
       /\ \A w \in Workers : workerPc[w] = "none"
       /\ \A d \in Deletions \ unjoined : deletionPc[d] \in {"none", "ended"}

(* Whoever types exit sees the program end, whatever the threads are at;   *)
(* if a deletion misses the notification, not before its timestamp.        *)
ExitTerminates == mainPc = "stop_observer" ~> mainPc \in {"ended", "off"}

(* The file has audit entries for all operations of a session that has     *)
(* ended as it should. *)
AllOperationsAudited ==
  mainPc = "ended" /\ flushed /\ ~lost => audit = m_logs

=============================================================================
