---------------------------- MODULE BackupManager ---------------------------
(***************************************************************************)
(* BackupManagement::BackupManager (backup_manager.h, backup_manager.cpp): *)
(* the list of plugins, the pool of worker threads, the loop they run, and *)
(* how the pool is started, stopped and started again.                     *)
(*                                                                         *)
(* The queue is the abstract one of DedupQueue.tla.  What a plugin and     *)
(* backup_file() do to the files is left open here (each may succeed or    *)
(* throw); BackupPipeline.tla adds it.  One thread, the application's      *)
(* main thread, calls add_plugin, start_workers and stop_workers.          *)
(***************************************************************************)
EXTENDS Integers, Sequences, FiniteSets, Functions

CONSTANTS
  Workers,    (* identities of the worker threads                          *)
  Plugins,    (* the plugins that may be added                             *)
  MaxPlugins, (* bound on the plugins added                                *)
  Paths,      (* the paths that are queued, the empty one possibly too     *)
  NoPath      (* the empty path                                            *)

ASSUME ManagerAssumption == MaxPlugins \in Nat

VARIABLES
  m_workers,  (* the threads in the vector of the same name                *)
  m_plugins,  (* the plugins, in the order they were added                 *)
  m_shutdown, (* set by stop_workers() while it joins the workers          *)
  mainPc,     (* "idle", or the step stop_workers() takes next             *)
  workerPc,   (* per worker: the step of its loop                          *)
  plugin,     (* per worker: the plugin it calls next                      *)
  items,      (* the queue, see DedupQueue                                 *)
  got,        (* per worker: its local queueItem                           *)
  closed      (* whether the queue is shut down                            *)

mainVars    == <<m_workers, m_plugins, m_shutdown, mainPc>>
workerVars  == <<workerPc, plugin>>
queueVars   == <<items, got, closed>>
managerVars == <<mainVars, workerVars, queueVars>>

Queue == INSTANCE DedupQueue WITH Consumers <- Workers

WorkerSteps == {"none", "test", "get", "plugins", "backup", "exited"}

-----------------------------------------------------------------------------
Init ==
  /\ m_workers = {}
  /\ m_plugins = <<>>
  /\ m_shutdown = FALSE
  /\ mainPc = "idle"
  /\ workerPc = [w \in Workers |-> "none"]
  /\ plugin = [w \in Workers |-> 1]
  /\ Queue!Init

-----------------------------------------------------------------------------
(* The main thread *)

AddPluginUnguarded(p) ==
  /\ mainPc = "idle"
  /\ Len(m_plugins) < MaxPlugins
  /\ m_plugins' = Append(m_plugins, p)
  /\ UNCHANGED <<m_workers, m_shutdown, mainPc, workerVars, queueVars>>

(* add_plugin() throws, changing nothing, unless the pool is empty. *)
AddPlugin(p) ==
  /\ mainPc = "idle"
  /\ ~m_shutdown /\ m_workers = {}
  /\ Len(m_plugins) < MaxPlugins
  /\ m_plugins' = Append(m_plugins, p)
  /\ UNCHANGED <<m_workers, m_shutdown, mainPc, workerVars, queueVars>>

(* start_workers(n) for n > 0: new threads W join those already running. *)
StartWorkers(W) ==
  /\ mainPc = "idle"
  /\ W # {} /\ W \cap m_workers = {}
  /\ m_workers' = m_workers \cup W
  /\ workerPc' = [w \in Workers |-> IF w \in W THEN "test" ELSE workerPc[w]]
  /\ UNCHANGED <<m_plugins, m_shutdown, mainPc, plugin, queueVars>>

StopWorkers ==
  /\ mainPc = "idle"
  /\ mainPc' = "join"
  /\ m_shutdown' = TRUE
  /\ UNCHANGED <<m_workers, m_plugins, workerVars, queueVars>>

StopJoinedSome ==
  /\ mainPc = "join"
  /\ \E w \in m_workers : workerPc[w] = "exited"
  /\ workerPc' = [w \in Workers |->
                    IF workerPc[w] = "exited" THEN "none" ELSE workerPc[w]]
  /\ m_workers' = {}
  /\ m_shutdown' = FALSE
  /\ mainPc' = "idle"
  /\ UNCHANGED <<m_plugins, plugin, queueVars>>

StopJoinedUnreset ==
  /\ mainPc = "join"
  /\ \A w \in m_workers : workerPc[w] = "exited"
  /\ workerPc' = [w \in Workers |-> "none"]
  /\ m_workers' = {}
  /\ mainPc' = "idle"
  /\ UNCHANGED <<m_plugins, m_shutdown, plugin, queueVars>>

(* The join() of every worker has returned. *)
StopJoined ==
  /\ mainPc = "join"
  /\ \A w \in m_workers : workerPc[w] = "exited"
  /\ workerPc' = [w \in Workers |-> "none"]
  /\ m_workers' = {}
  /\ m_shutdown' = FALSE
  /\ mainPc' = "idle"
  /\ UNCHANGED <<m_plugins, plugin, queueVars>>

-----------------------------------------------------------------------------
(* The loop of a worker *)

WorkerGoes(w, from, to) ==
  workerPc[w] = from /\ workerPc' = [workerPc EXCEPT ![w] = to]

(* while (!m_shutdown) *)
WorkerTest(w) ==
  /\ WorkerGoes(w, "test", IF m_shutdown THEN "exited" ELSE "get")
  /\ UNCHANGED <<mainVars, plugin, queueVars>>

WorkerGetIndex0(w) ==
  /\ WorkerGoes(w, "get", "plugins")
  /\ plugin' = [plugin EXCEPT ![w] = 0]
  /\ Queue!Take(w)
  /\ Head(items) # NoPath
  /\ UNCHANGED mainVars

WorkerGet(w) ==
  /\ WorkerGoes(w, "get", "plugins")
  /\ plugin' = [plugin EXCEPT ![w] = 1]
  /\ Queue!Take(w)
  /\ Head(items) # NoPath
  /\ UNCHANGED mainVars

(* if (queueItem.empty()) continue: an empty path that was queued leaves   *)
(* the queue as any other does, and is dropped.                            *)
WorkerGetEmpty(w) ==
  /\ WorkerGoes(w, "get", "test")
  /\ Queue!Take(w)
  /\ Head(items) = NoPath
  /\ UNCHANGED <<mainVars, plugin>>

WorkerGetBlocked(w) ==
  /\ closed
  /\ WorkerGoes(w, "get", "test")
  /\ UNCHANGED <<mainVars, plugin, queueVars>>

(* The empty path for nothing: get_next_item(-1) does not wait.            *)
WorkerGetNothing(w) ==
  /\ closed \/ items = <<>>
  /\ WorkerGoes(w, "get", "test")
  /\ UNCHANGED <<mainVars, plugin, queueVars>>

(* A plugin lets the others have the path too. *)
PluginContinues(w) ==
  /\ workerPc[w] = "plugins" /\ plugin[w] <= Len(m_plugins)
  /\ plugin' = [plugin EXCEPT ![w] = @ + 1]
  /\ UNCHANGED <<mainVars, workerPc, queueVars>>

PluginsDone(w) ==
  /\ plugin[w] > Len(m_plugins)
  /\ WorkerGoes(w, "plugins", "backup")
  /\ UNCHANGED <<mainVars, plugin, queueVars>>

(* The item is dealt with and the loop goes round: a plugin has stopped    *)
(* the processing or thrown.                                               *)
PluginEnds(w) ==
  /\ plugin[w] <= Len(m_plugins)
  /\ WorkerGoes(w, "plugins", "test")
  /\ Queue!Release(w)
  /\ UNCHANGED <<mainVars, plugin>>

(* backup_file() has returned or thrown. *)
BackupEnds(w) ==
  /\ WorkerGoes(w, "backup", "test")
  /\ Queue!Release(w)
  /\ UNCHANGED <<mainVars, plugin>>

-----------------------------------------------------------------------------
MainNext ==
  \/ \E p \in Plugins : AddPlugin(p)
  \/ \E W \in SUBSET Workers : StartWorkers(W)
  \/ StopWorkers \/ StopJoined

WorkerNext(w) ==
  \/ WorkerTest(w) \/ WorkerGet(w) \/ WorkerGetEmpty(w) \/ WorkerGetNothing(w)
  \/ PluginContinues(w) \/ PluginEnds(w) \/ PluginsDone(w) \/ BackupEnds(w)

(* The queue's other users: the observer and HotBackupApp::shutdown(). *)
QueueNext ==
  /\ \/ \E f \in Paths : Queue!Push(f)
     \/ Queue!Close
  /\ UNCHANGED <<mainVars, workerVars>>

Next == MainNext \/ (\E w \in Workers : WorkerNext(w)) \/ QueueNext

(* Threads keep running; two workers that find a path in the queue are     *)
(* served in any order.  The main thread need not call anything, but a     *)
(* stop_workers() that can return does.                                    *)
Fairness ==
  /\ WF_managerVars(StopJoined)
  /\ \A w \in Workers : WF_managerVars(WorkerNext(w))

Spec == Init /\ [][Next]_managerVars /\ Fairness

-----------------------------------------------------------------------------
(* Every variable has the values its C++ counterpart can hold. *)
TypeOK ==
  /\ m_workers \subseteq Workers
  /\ m_plugins \in Seq(Plugins)
  /\ m_shutdown \in BOOLEAN
  /\ mainPc \in {"idle", "join"}
  /\ workerPc \in [Workers -> WorkerSteps]
  /\ plugin \in [Workers -> Nat \ {0}]
  /\ items \in Seq(Paths)
  /\ got \in [Workers -> Paths \cup {NoPath}]
  /\ closed \in BOOLEAN

(* stop_workers() leaves no thread of the pool behind: the threads that    *)
(* run are those in m_workers, and outside of stop_workers() none of them  *)
(* has been told to stop.                                                  *)
PoolIsWhatRuns ==
  /\ \A w \in Workers : workerPc[w] # "none" <=> w \in m_workers
  /\ mainPc = "idle" => \A w \in m_workers : workerPc[w] # "exited"

(* add_plugin() never grows the vector that a worker is iterating over,    *)
(* which would leave its iterators dangling.                               *)
PluginsStableUnderIteration ==
  [][(\E w \in Workers : workerPc[w] = "plugins") => UNCHANGED m_plugins]_managerVars

(* Whoever calls stop_workers() gets out of it, whatever the queue holds   *)
(* and whether or not it is shut down.                                     *)
StopTerminates == mainPc = "join" ~> mainPc = "idle"

(* A pool that was stopped can be started again: its workers take what is  *)
(* queued, until they are stopped or the queue is shut down.               *)
RunningPoolDrains ==
  \A f \in Paths :
    (f \in Range(items) /\ m_workers # {})
      ~> (f \notin Range(items) \/ m_workers = {} \/ closed)

=============================================================================
