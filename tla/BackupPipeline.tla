--------------------------- MODULE BackupPipeline ---------------------------
(***************************************************************************)
(* The application at work, between start-up and shutdown(): the user      *)
(* changes the hot directory, inotify reports the changes, the observer    *)
(* thread queues their names, and the workers of BackupManager.tla take    *)
(* the names, run the deleter plugin and copy the files.                   *)
(*                                                                         *)
(* The control of a worker is that of BackupManager.tla.  This module adds *)
(* what a worker does to the files, one system call per step, so that the  *)
(* user and other workers may come between any two of them.                *)
(*                                                                         *)
(* The content of a file is the number of the user request that produced   *)
(* it.  Deletions scheduled for a timestamp are not part of this module.   *)
(***************************************************************************)
EXTENDS Integers, Sequences, FiniteSets, Functions

CONSTANTS
  Workers,    (* the worker threads                                        *)
  Files,      (* the files of the hot directory                            *)
  NoPath,     (* the empty path                                            *)
  MaxVersion, (* bound on the user's requests                              *)
  MaxEvents,  (* how many reports inotify's queue is sure to hold          *)
  DiskErrors  (* whether a copy or a deletion may fail                     *)

(* The directory entries of file f: f itself and delete_f. *)
Names == {"plain", "delete"} \X Files

(* What a report may name: an entry, or nothing when it is of an overflow. *)
Reports == Names \cup {NoPath}

ASSUME PipelineAssumption ==
  /\ NoPath \notin Names
  /\ MaxVersion \in Nat /\ MaxEvents \in Nat
  /\ DiskErrors \in BOOLEAN

VARIABLES
  (* the hot directory and its user *)
  hot,        (* per name: the content, or Absent                          *)
  version,    (* the number of the last request                            *)
  last,       (* per file: the user's last request                         *)
  overtaken,  (* the files whose last request is served in the place of an *)
              (* earlier one, or beside one that another worker serves     *)
  missed,     (* the files whose last request inotify has not reported     *)
  (* inotify and the queue *)
  events,     (* names reported and not yet queued, oldest first; NoPath   *)
              (* is the report of an overflow                              *)
  items,      (* the queued names, see DedupQueue.tla                      *)
  (* the workers: see BackupManager.tla *)
  m_workers, m_plugins, m_shutdown, mainPc, closed, workerPc, plugin, got,
  stage,      (* per worker: the step within execute() or backup_file()    *)
  copied,     (* per worker: what the source held when it was opened       *)
  (* the backup directory *)
  bak,        (* per file: the content of its backup, Torn, or Absent      *)
  (* history *)
  unread,     (* the names reported whose content no worker has come to    *)
  failed      (* the files whose last copy or deletion was cut short by an *)
              (* I/O error                                                 *)

userVars   == <<hot, version, last, overtaken, missed>>
workerVars == <<m_workers, m_plugins, m_shutdown, mainPc, closed, workerPc,
                plugin, got>>
dataVars   == <<stage, copied, bak, failed>>
vars       == <<userVars, events, items, workerVars, dataVars, unread>>

Absent == 0
Torn   == -1   (* a copy that is incomplete, or a mixture of contents      *)

Versions == 1 .. MaxVersion

Manager == INSTANCE BackupManager WITH
  Plugins <- {"deleter"}, MaxPlugins <- 1, Paths <- Reports

Stages == {"start", "erase", "open", "truncate", "write", "orphan"}

File(n)  == n[2]
Other(n) == <<IF n[1] = "plain" THEN "delete" ELSE "plain", n[2]>>
IsDeleteRequest(n) == n[1] = "delete"

(* The workers are as start_backup_workers() leaves them, and nothing has  *)
(* been reported. *)
Init ==
  /\ m_workers = Workers
  /\ m_plugins = <<"deleter">>
  /\ m_shutdown = FALSE
  /\ mainPc = "idle"
  /\ closed = FALSE
  /\ workerPc = [w \in Workers |-> "test"]
  /\ plugin = [w \in Workers |-> 1]
  /\ got = [w \in Workers |-> NoPath]
  /\ items = <<>>
  /\ hot = [n \in Names |-> Absent]
  /\ version = 0
  /\ last = [f \in Files |-> "none"]
  /\ overtaken = {}
  /\ missed = {}
  /\ events = <<>>
  /\ stage = [w \in Workers |-> "start"]
  /\ copied = [w \in Workers |-> Absent]
  /\ bak = [f \in Files |-> Absent]
  /\ unread = {}
  /\ failed = {}

-----------------------------------------------------------------------------
(* The user.  inotify reports what IN_MODIFY | IN_CREATE | IN_MOVED_TO     *)
(* select, and may merge a report with an unread one that is identical and *)
(* the last.  When its queue is full, it reports an overflow instead, once *)
(* until that is read.  The observer's thread may have read some of the    *)
(* events already, so the queue may take more than MaxEvents of them.      *)

Reported(n) ==
  \/ events' = Append(events, n)
  \/ events # <<>> /\ events[Len(events)] = n /\ UNCHANGED events

Overflows ==
  /\ Len(events) >= MaxEvents
  /\ events' = IF NoPath \in Range(events) THEN events
               ELSE Append(events, NoPath)

(* What is pending, in the order in which workers will come to it if the   *)
(* queue takes every name as a new one. *)
Backlog == items \o events

(* Worker w was given n and has not come to its content yet. *)
WillRead(w, n) == got[w] = n /\ stage[w] \in {"start", "open"}

(* A request for n would be served in the place of an earlier one, in      *)
(* front of what is pending for the file's other name: n is a duplicate in *)
(* the queue, or a worker is about to remove the new delete_f for the old. *)
Overtaken(n) ==
  \/ \E i, j \in 1 .. Len(Backlog) :
       i < j /\ Backlog[i] = n /\ Backlog[j] = Other(n)
  \/ /\ IsDeleteRequest(n)
     /\ \E w \in Workers : WillRead(w, n)
     /\ Other(n) \in Range(Backlog)

(* The workers that serve a request for file f. *)
Serving(f) == {w \in Workers : got[w] \in Names /\ File(got[w]) = f}

Requested(n) ==
  /\ version < MaxVersion
  /\ version' = version + 1
  /\ last' = [last EXCEPT ![File(n)] =
                IF IsDeleteRequest(n) THEN "delete" ELSE "write"]
  /\ overtaken' = (overtaken \ {File(n)})
                    \cup {f \in {File(n)} :
                            Overtaken(n) \/ Cardinality(Serving(f)) > 1}
  /\ \/ Reported(n) /\ missed' = missed \ {File(n)}
     \/ Overflows /\ missed' = missed \cup {File(n)}

(* A name that is reported has to be read. *)
ToRead(n) == {m \in {n} : File(m) \notin missed'}

(* The user creates or modifies an entry. *)
Write(n) ==
  /\ Requested(n)
  /\ hot' = [hot EXCEPT ![n] = version']
  /\ unread' = unread \cup ToRead(n)
  /\ UNCHANGED <<items, workerVars, dataVars>>

(* The user renames f to delete_f: one IN_MOVED_TO, for delete_f. *)
Rename(f) ==
  LET source == <<"plain", f>>
      target == <<"delete", f>>
  IN /\ hot[source] # Absent
     /\ Requested(target)
     /\ hot' = [hot EXCEPT ![source] = Absent, ![target] = version']
     /\ unread' = (unread \ {source}) \cup ToRead(target)
     /\ UNCHANGED <<items, workerVars, dataVars>>

(* The user removes an entry: nothing is reported.  Whoever removes        *)
(* delete_f before its turn has come withdraws the request.                *)
Remove(n) ==
  /\ hot[n] # Absent
  /\ hot' = [hot EXCEPT ![n] = Absent]
  /\ last' = [last EXCEPT ![File(n)] =
                IF IsDeleteRequest(n) /\ @ = "delete" THEN "none" ELSE @]
  /\ unread' = unread \ {n}
  /\ UNCHANGED <<version, overtaken, missed, events, items, workerVars,
                 dataVars>>

-----------------------------------------------------------------------------
(* The observer's thread: changedFilesHandler for the next event, whose    *)
(* path is empty when it reports an overflow.  push_item() takes that too. *)

ObserverDedupesHeld ==
  /\ events # <<>>
  /\ events' = Tail(events)
  /\ items' = IF Head(events) \in Range(got) THEN items
              ELSE Manager!Queue!Pushed(items, Head(events))
  /\ UNCHANGED <<userVars, workerVars, dataVars, unread>>

ObserverLifo ==
  /\ events # <<>>
  /\ events' = Tail(events)
  /\ items' = IF Head(events) \in Range(items) THEN items
              ELSE <<Head(events)>> \o items
  /\ UNCHANGED <<userVars, workerVars, dataVars, unread>>

Observer ==
  /\ events # <<>>
  /\ events' = Tail(events)
  /\ items' = Manager!Queue!Pushed(items, Head(events))
  /\ UNCHANGED <<userVars, workerVars, dataVars, unread>>

-----------------------------------------------------------------------------
(* The workers *)

Stage(w, from, to) == stage[w] = from /\ stage' = [stage EXCEPT ![w] = to]
Ends(w) == stage' = [stage EXCEPT ![w] = "start"]

(* The steps of the loop that touch no file: the test of m_shutdown, the   *)
(* call of get_next_item, the way from the plugins to backup_file().       *)
WorkerLoops(w) ==
  /\ \/ Manager!WorkerTest(w)
     \/ Manager!WorkerGetNothing(w)
     \/ Manager!PluginsDone(w)
  /\ UNCHANGED <<userVars, events, dataVars, unread>>

(* The worker drops the empty path. *)
WorkerDrops(w) ==
  /\ Manager!WorkerGetEmpty(w)
  /\ UNCHANGED <<userVars, events, dataVars, unread>>

WorkerTakesUntested(w) ==
  /\ Manager!WorkerGoes(w, "get", "plugins")
  /\ plugin' = [plugin EXCEPT ![w] = 1]
  /\ Manager!Queue!Take(w)
  /\ UNCHANGED <<userVars, events, dataVars, unread>>
  /\ UNCHANGED <<m_workers, m_plugins, m_shutdown, mainPc>>

WorkerTakes(w) ==
  /\ Manager!WorkerGet(w)
  /\ overtaken' = overtaken \cup
                    {f \in Files : w \in Serving(f)' /\ Serving(f) # {}}
  /\ UNCHANGED <<hot, version, last, missed, events, dataVars, unread>>

(* execute() returns at once for a name without the prefix. *)
PluginIgnores(w) ==
  /\ Manager!PluginContinues(w)
  /\ ~IsDeleteRequest(got[w])
  /\ UNCHANGED <<userVars, events, dataVars, unread>>

AtDelete(w) == workerPc[w] = "plugins" /\ plugin[w] = 1 /\ IsDeleteRequest(got[w])

(* delete_file(path) returns false: the backup is not touched. *)
DeleteAbsent(w) ==
  /\ AtDelete(w) /\ stage[w] = "start"
  /\ hot[got[w]] = Absent
  /\ Manager!PluginEnds(w)
  /\ UNCHANGED <<userVars, events, dataVars, unread>>

DeleteSource(w) ==
  /\ AtDelete(w)
  /\ hot[got[w]] # Absent
  /\ Stage(w, "start", "erase")
  /\ hot' = [hot EXCEPT ![got[w]] = Absent]
  /\ unread' = unread \ {got[w]}
  /\ UNCHANGED <<version, last, overtaken, missed, events, items, workerVars,
                 copied, bak, failed>>

DeleteBackupSkipped(w) ==
  /\ AtDelete(w) /\ stage[w] = "erase"
  /\ Manager!PluginEnds(w)
  /\ Ends(w)
  /\ UNCHANGED <<userVars, events, copied, bak, failed, unread>>

(* delete_file(backupFilePath): a worker that is writing this backup goes  *)
(* on writing to a file without a name.                                    *)
DeleteBackup(w) ==
  LET f == File(got[w])
  IN /\ AtDelete(w) /\ stage[w] = "erase"
     /\ Manager!PluginEnds(w)
     /\ bak' = [bak EXCEPT ![f] = Absent]
     /\ failed' = failed \ {f}
     /\ stage' = [v \in Workers |->
                    CASE v = w -> "start"
                      [] stage[v] = "write" /\ File(got[v]) = f -> "orphan"
                      [] OTHER -> stage[v]]
     /\ UNCHANGED <<userVars, events, copied, unread>>

(* remove() throws for the source, or for the backup when the source is    *)
(* gone already; the worker logs it to stderr and goes on with the next    *)
(* path.                                                                   *)
DeleteThrows(w) ==
  /\ DiskErrors
  /\ AtDelete(w)
  /\ Manager!PluginEnds(w)
  /\ Ends(w)
  /\ failed' = failed \cup {File(got[w])}
  /\ unread' = unread \ {got[w]}
  /\ UNCHANGED <<userVars, events, copied, bak>>

AtBackup(w) == workerPc[w] = "backup"

(* exists() and is_regular_file() *)
BackupChecks(w) ==
  /\ AtBackup(w)
  /\ hot[got[w]] # Absent
  /\ Stage(w, "start", "open")
  /\ UNCHANGED <<userVars, events, items, workerVars, copied, bak, failed,
                 unread>>

BackupThrowsUncaught(w) ==
  /\ AtBackup(w) /\ stage[w] \in {"start", "open"}
  /\ hot[got[w]] = Absent
  /\ workerPc' = [workerPc EXCEPT ![w] = "exited"]
  /\ got' = [got EXCEPT ![w] = NoPath]
  /\ Ends(w)
  /\ UNCHANGED <<userVars, events, items, copied, bak, failed, unread, plugin,
                 m_workers, m_plugins, m_shutdown, mainPc, closed>>

(* The source is gone: backup_file() or copy_file() throws. *)
BackupThrows(w) ==
  /\ AtBackup(w) /\ stage[w] \in {"start", "open"}
  /\ hot[got[w]] = Absent
  /\ Manager!BackupEnds(w)
  /\ Ends(w)
  /\ UNCHANGED <<userVars, events, copied, bak, failed, unread>>

CopyOpens(w) ==
  /\ AtBackup(w)
  /\ hot[got[w]] # Absent
  /\ Stage(w, "open", "truncate")
  /\ copied' = [copied EXCEPT ![w] = hot[got[w]]]
  /\ unread' = unread \ {got[w]}
  /\ UNCHANGED <<userVars, events, items, workerVars, bak, failed>>

(* overwrite_existing opens the backup with O_TRUNC. *)
CopyTruncates(w) ==
  /\ AtBackup(w)
  /\ Stage(w, "truncate", "write")
  /\ bak' = [bak EXCEPT ![File(got[w])] = Torn]
  /\ UNCHANGED <<userVars, events, items, workerVars, copied, failed, unread>>

(* What the copy may have read: what the source held when it was opened;   *)
(* if it was written to since, that, or some of each. *)
Readable(w) ==
  {copied[w]} \cup
    IF hot[got[w]] \in {Absent, copied[w]} THEN {} ELSE {hot[got[w]], Torn}

(* What the backup may hold after content is written to it: written over   *)
(* what another worker has put there, the shorter of two contents leaves   *)
(* the end of the longer one. *)
Written(f, content) ==
  {content} \cup IF bak[f] \in {Torn, content} THEN {} ELSE {Torn}

CopyWrites(w) ==
  LET f == File(got[w])
  IN /\ stage[w] = "write"
     /\ Manager!BackupEnds(w)
     /\ \E read \in Readable(w) : \E content \in Written(f, read) :
          bak' = [bak EXCEPT ![f] = content]
     /\ failed' = failed \ {f}
     /\ Ends(w)
     /\ UNCHANGED <<userVars, events, copied, unread>>

CopyWritesOrphan(w) ==
  /\ stage[w] = "orphan"
  /\ Manager!BackupEnds(w)
  /\ Ends(w)
  /\ UNCHANGED <<userVars, events, copied, bak, failed, unread>>

(* A full disk or another I/O error: exists() or copy_file() throws at any *)
(* point, the worker logs it to stderr and goes on with the next path. *)
CopyFails(w) ==
  /\ DiskErrors
  /\ stage[w] # "orphan"
  /\ Manager!BackupEnds(w)
  /\ Ends(w)
  /\ failed' = failed \cup {File(got[w])}
  /\ unread' = unread \ {got[w]}
  /\ UNCHANGED <<userVars, events, copied, bak>>

WorkerFails(w) == DeleteThrows(w) \/ CopyFails(w)

WorkerSucceeds(w) ==
  \/ WorkerLoops(w) \/ WorkerDrops(w) \/ WorkerTakes(w)
  \/ PluginIgnores(w) \/ DeleteAbsent(w) \/ DeleteSource(w) \/ DeleteBackup(w)
  \/ BackupChecks(w) \/ BackupThrows(w) \/ CopyOpens(w) \/ CopyTruncates(w)
  \/ CopyWrites(w) \/ CopyWritesOrphan(w)

-----------------------------------------------------------------------------
User ==
  \/ \E n \in Names : Write(n) \/ Remove(n)
  \/ \E f \in Files : Rename(f)

Next ==
  \/ User
  \/ Observer
  \/ \E w \in Workers : WorkerSucceeds(w) \/ WorkerFails(w)

SafeSpec == Init /\ [][Next]_vars

(* The observer's thread and the workers keep running; the user need not   *)
(* do anything and the disk need not fail. *)
Fairness ==
  /\ WF_vars(Observer)
  /\ \A w \in Workers : WF_vars(WorkerSucceeds(w))

Spec == SafeSpec /\ Fairness

-----------------------------------------------------------------------------
(* Every variable has the values its counterpart can hold.  The empty path *)
(* that reports an overflow is queued, but no plugin and no copy gets it.  *)
TypeOK ==
  /\ hot \in [Names -> {Absent} \cup Versions]
  /\ version \in {0} \cup Versions
  /\ last \in [Files -> {"none", "write", "delete"}]
  /\ overtaken \subseteq Files
  /\ missed \subseteq Files
  /\ events \in Seq(Reports)
  /\ items \in Seq(Reports)
  /\ workerPc \in [Workers -> {"test", "get", "plugins", "backup"}]
  /\ plugin \in [Workers -> {1, 2}]
  /\ got \in [Workers -> Names \cup {NoPath}]
  /\ \A w \in Workers : workerPc[w] \in {"plugins", "backup"} => got[w] # NoPath
  /\ stage \in [Workers -> Stages]
  /\ copied \in [Workers -> {Absent} \cup Versions]
  /\ bak \in [Files -> {Absent, Torn} \cup Versions]
  /\ unread \subseteq Names
  /\ failed \subseteq Files

(* Deduplication loses no change: an entry that the user has changed since *)
(* a worker last came to it is reported, queued, or in the hands of a      *)
(* worker that has yet to come to it, for any number of workers.  It is    *)
(* why get_next_item() erases a path from the dedupe set before the path   *)
(* is processed, and not afterwards. *)
NoLostChange ==
  \A n \in unread :
    \/ n \in Range(events) \cup Range(items)
    \/ \E w \in Workers : WillRead(w, n)

(* Nothing is pending and every worker waits for work. *)
Quiet ==
  /\ events = <<>> /\ items = <<>>
  /\ \A w \in Workers : got[w] = NoPath

IsCurrent(f) == hot[<<"plain", f>>] \in {Absent, bak[f]}

(* Once the pipeline has worked off what was reported, the backup of a     *)
(* file that was last written, in time for inotify's queue, holds its      *)
(* content, unless the copy failed.                                        *)
BackupIsCurrent ==
  Quiet => \A f \in Files \ (failed \cup overtaken \cup missed) :
             last[f] = "write" => IsCurrent(f)

(* Once the pipeline has worked off what was reported, a file whose        *)
(* deletion was requested last, in time for inotify's queue, has no backup *)
(* any more, unless the deletion failed.                                   *)
DeletedStaysDeleted ==
  Quiet => \A f \in Files \ (failed \cup overtaken \cup missed) :
             last[f] = "delete" => bak[f] = Absent

(* Whatever the number of workers, a backup that exists when the pipeline  *)
(* has worked off what was reported holds the content of its file.         *)
BackupMatchesFile ==
  Quiet => \A f \in Files \ (failed \cup missed) :
             last[f] = "write" /\ bak[f] # Absent => IsCurrent(f)

(* A changed entry that was reported does not stay unread: the workers     *)
(* come to it, however long the queue in front of it is and whatever       *)
(* copies and deletions fail. *)
ChangesAreRead == \A n \in Names : n \in unread ~> n \notin unread

=============================================================================
