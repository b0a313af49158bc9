# Formal model of HotBackup

HotBackup watches a *hot directory*, queues the names of the files that change and lets a
pool of workers copy them to a *backup directory*. A name with the prefix `delete_` is a
request: the file and its backup are to be deleted. This directory holds TLA+ modules that
model the program under `src/`, the TLC configurations that check them on small instances,
and theorems that TLAPS proves for all instances.

## 1. The system

```
user -> hot directory -> inotify -> observer thread -> queue -> workers -> plugin, copy -> backup directory
                                        |                         |
                                        +-------- logger ---------+
```

Threads: the main thread (`main.cpp`), one observer thread, three workers, and one thread
per deletion that is scheduled for a timestamp.

| Component | State | Operations | Who calls it |
|---|---|---|---|
| File backup queue (`file_backup_queue.cpp`) | `m_queue`, `m_uniqueFilePaths`, `m_shutdown`, mutex, condition variable | `push_item`, `get_next_item`, `shutdown` | observer thread, workers, main |
| Backup manager (`backup_manager.cpp`) | `m_workers`, `m_plugins`, `m_shutdown` | `init`, `add_plugin`, `start_workers`, `stop_workers`, `backup_file` | main; `backup_file` by the workers |
| File deleter plugin (`file_deleter_plugin.cpp`) | futures of scheduled deletions, `m_shutdown`, mutex, condition variable | `execute`, `shutdown`, the deletion threads | workers, destructor |
| Directory watch (`linux/file_observer_subject.cpp`) | inotify descriptor, two watch indexes | `add_file`, `remove_file`, `get_changed_files_list` | main, observer thread |
| File observer (`linux/file_observer.cpp`, `linux/controller.cpp`) | subjects, thread, pipe | `add_subject`, `start_observer`, `stop_observer` | main |
| Logger (`logger.cpp`) | `m_logs`, mutex | `init`, `log`, `search`, `shutdown` | everyone |
| Application (`HotBackupApp.cpp`, `main.cpp`) | the components, `m_shutdown` | `init`, `start_*`, `shutdown`, the console loop | main |

What is hard about it, and what makes each component correct:

- **Queue.** Two containers changed one after the other, a notification after the unlock,
  a shutdown that takes no lock. Correct means: the containers agree, nothing is queued
  twice, order is kept, no wake-up is lost, nobody is stuck after shutdown.
- **Backup manager.** Threads that poll a flag which `stop_workers` sets and resets, and
  iterate over a vector without a lock. Correct means: no thread survives a stop, the stop
  returns, the pool works again after a restart, plugins never change under a worker.
- **Queue, plugin and copy together.** Several workers, the user and inotify act on the
  same files. Correct means: no change is lost, and once the system is quiet the backup
  directory reflects what the user did last.
- **Scheduled deletions.** Waiting threads, a shutdown that must wake them, a list of
  futures without a lock, times computed with fixed-width integers.
- **Observer and watch.** Events that arrive in batches, a callback that can stop the
  enumeration, watches removed while events are pending, stop and restart.
- **Logger.** Entries from many threads, kept in memory until a shutdown that rewrites the
  file without a lock. Correct means: no session loses what earlier ones wrote, however it
  ends, and the log tells of causes before effects.
- **Application.** The order of start-up and shutdown, over threads that each have to be
  told to stop. Correct means: whoever types `exit` sees the program end, and the log is
  complete.

`PROJECT.json` lists the hazards of all components with the lines where they bite and the
properties that would catch them going wrong.

## 2. The modules

| Module | Models |
|---|---|
| `DedupQueue` | What the queue promises: a FIFO of distinct paths, taken by consumers until it is closed. No threads. |
| `FileBackupQueue` | The queue's code, one atomic access, lock, container operation or block per step. Implements `DedupQueue`. |
| `FileBackupQueueProofs` | TLAPS proofs about it. |
| `FileBackupQueueWakeup` | TLAPS proof that it loses no notification. |
| `BackupManager` | The pool of workers, its start, stop and restart, and the workers' loop, over the operations of `DedupQueue`. |
| `BackupPipeline` | The application at work: user, inotify, observer thread, queue, and workers with what they do to the files. Uses `BackupManager` for the workers' control. |
| `FileDeleterPlugin` | Deletions that are scheduled for a timestamp: the workers that schedule them, their threads, the plugin's shutdown. |
| `FileObserverSubject` | The watch indexes, inotify's queue, and the enumeration of events in batches. |
| `FileObserver` | The thread that polls the subject and the pipe; start, stop and restart. Uses `FileObserverSubject`. |
| `Logger` | The audit log in memory and its file: load, entries, and the flush that takes no lock. |
| `HotBackupApp` | The life of the process: start, threads that log, the shutdown's order, the destructors, a crash, and the next start. Uses `Logger` and the operations of `DedupQueue`. |
| `BackupManagerProofs`, `BackupPipelineProofs`, `FileDeleterPluginProofs`, `FileObserverSubjectProofs`, `FileObserverProofs`, `HotBackupAppProofs` | TLAPS proofs about them. |
| `MC...` | Instances for TLC. |

### FileBackupQueue

`pc[t]` names the call a thread is in and its next step; `fPath[t]` is the local variable
`fPath`. `m_mutex` holds the owner. The wait in `get_next_item` is spelled out: test of
the predicate with the mutex held (`GetPred`), release and block in one step (`GetSleep`),
wake-up by notification (`PushNotify`, `ShutdownNotifyAll`), by timeout (`GetTimeout`) or
spuriously (`GetSpurious`), and the mutex acquired again (`GetRelock`). After a
notification the predicate is tested again, after a timeout it is not needed: the test
behind the wait decides. The timeout's value is not modelled, a waiter may time out at any
moment. This covers the `-1` that the workers pass, for which the timeout has expired
before the wait begins, and every other value. `is_directory` is a nondeterministic early
return. `Paths` may contain the empty path, which `push_item` takes like any other and
the observer's callback pushes when inotify reports an overflow; to a consumer it looks
like an empty queue.

The mapping to `DedupQueue` takes a path as handed out at the last test of `get_next_item`
(`GetSomething`), because `shutdown()` takes no lock and may come between that test and
`pop()`. A producer that passed its test of `m_shutdown` may still queue a path after the
shutdown; so the abstract `Push` has no guard on `closed`.

### BackupManager

`workerPc` is a worker's place in the loop of `start_workers`, `plugin` the iterator over
`m_plugins`, `got` the local `queueItem`. `StopWorkers` sets the flag, `StopJoined` is the
point where all `join()` calls have returned, with `resize(0)` and the reset of the flag.
A worker may end an item at any plugin or at the copy, which covers both the normal way
out and every exception, since the loop catches them. It drops an empty path that was
queued (`WorkerGetEmpty`). The calls of `add_plugin`, `start_workers` and `stop_workers`
come from one thread, as in `HotBackupApp` and the tests.

### BackupPipeline

The content of a file is the number of the user's request that produced it, so two
contents are equal only if they are the same. Requests: create or modify an entry
(`Write`), rename `f` to `delete_f` (`Rename`), remove an entry (`Remove`). `events` is
inotify's queue together with the batch that `get_changed_files_list` has read; `Observer`
is the callback of `HotBackupApp` for the next event, including `push_item`, for which the
operation of `DedupQueue` stands (the refinement below justifies it). inotify may merge an
event with an identical one at the end of its queue. When `MaxEvents` are in it, it may
drop an event and report an overflow instead (`Overflows`): the callback then pushes the
empty path, and a worker drops it (`WorkerDrops`). `missed` (history) has the files whose
last request was dropped in this way: no name of it comes to the queue, and nothing in the
repository looks for it elsewhere.

The workers follow `BackupManager` with the deleter plugin installed. `execute` deletes
the source (`DeleteSource`) and then the backup (`DeleteBackup`), or only logs if the
source is gone (`DeleteAbsent`). `backup_file` tests the source (`BackupChecks`), opens it
(`CopyOpens`), truncates the backup (`CopyTruncates`) and writes it (`CopyWrites`). The
content that a copy read is the one at the opening of the source or, if the source was
written since, a later or torn one (`Readable`); writing over another worker's data may
leave a mixture (`Written`). A backup that is deleted while a worker writes it takes the
rest of the data with it (stage `orphan`). With `DiskErrors`, a copy may fail at any point
and leave a torn backup (`CopyFails`), and `remove()` may throw for the source, or for the
backup when the source is gone (`DeleteThrows`); the worker catches both. `failed` records
the file, since nothing in the repository promises a retry.

`unread` records the entries whose content no worker has come to since the user changed
them, `last` the user's last request for a file, and `overtaken` the files whose last
request is served in the place of an earlier one or together with one (section 3). These
are history: no step depends on them.

### FileDeleterPlugin

A deletion is one element of `Deletions` together with the thread that executes it.
`Schedule` is `execute` for a name with a timestamp; `std::async` is called without a
policy and either starts a thread or defers the call to the `wait()` for its future.
`push_back` on the vector of futures takes no lock and is two steps, `PushRead` and
`PushWrite`: if two workers overlap, both construct their element in one place, and the
size moves from what was read before or from what the other one stored. `raced` (history)
has the deletions to which this happened. The `wait()` for an element without a future
throws, in a destructor (`mainPc` is `thrown`).

The wait is spelled out as in `FileBackupQueue`. Time is counted in ticks: `due[d]` is
what is left until the timestamp, which is a local time; `remaining[d]` is what is left of
`wait_for`. `TimeToWait` is `get_waiting_time_before_deletion`, called before the mutex is
taken; the wait begins to run when it has been. `mktime` is told that no summer time is in
effect (`tm_isdst` is 0), so that its result may be `SummerHour` late. `duration_cast`
drops what is left beyond whole milliseconds, so that a wait may end up to a millisecond
early; a tick is a part of a `Millisecond`. The difference to the present is taken in
nanoseconds with 64 bits: from `Horizon` on (292 years) it may be anything, a negative
number that does not wait among it, and `overflowed` (history) records it. `Tick` lets
time pass for all. The deletion holds the mutex until it has ended, and releases it when
`remove()` throws; the exception stays in the future, since `shutdown()` calls `wait()`
and not `get()`. The destructor runs after the workers have been joined, as in
`HotBackupApp`, where it follows `stop_workers`.

### FileObserverSubject

`live` is the kernel's table of watches; `m_filepathToWatchIndex` and
`m_watchToFilepathIndex` are the two maps. Watch descriptors are not reused, but
`inotify_add_watch` returns the one that a directory has already (`WatchFor`): a directory
that was renamed (`RenameDir`) keeps its watch, and two names have one descriptor when it
is added again. `renamed` (history) has these descriptors. `queue` is what can be read
from the descriptor: inotify merges an event with an identical one at the end, drops what
exceeds `MaxQueue` after one overflow event, and adds `IN_IGNORED` when a watch ends. A
batch is any prefix of up to `MaxBatch` events, since the length of an event depends on
its name. `SkipSubdir` is the `continue` for directories (`IGNORE_DIRECTORIES` is defined
by the Makefile), which in a `do ... while` goes to the condition. A callback may call
`add_file` and `remove_file`, so these are steps between two deliveries too. `unseen`
(history) records the changes, by descriptor and name, that the kernel has queued and no
callback was told of since; `misled` whether the last callback was told of something that
is no such change.

### FileObserver

It extends `FileObserverSubject`; the user's changes, and `add_file` and `remove_file`
before a start, after a stop and from within the callback, interleave with the loop.
`signalled` holds the descriptors with `POLLIN`; the subject's descriptor is lower than
the pipe's, because `HotBackupApp::init` creates it first and `m_subjectsList` is ordered,
so `ScanNotifier` precedes `ScanController`. The thread reads the size of the list, and
then takes as many descriptors from it (`CountSubjects`, `CollectFds`); an `add_subject`
in between puts the controller's out of its reach, which `crossed` (history) records.
`CallbackReads` are the steps of `get_changed_files_list` in the observer's thread. `pipe`
counts the messages that `stop_observer` has written; nobody reads them. `joinable` is
`m_watcherThread.joinable()`. `requested` (history) says that the observer was started
last.

### Logger

An entry stands for its line; its time is left out. `audit` is the file.
`flush_logs_to_file` opens and empties it (`FlushOpens`), writes line by line up to the
end that the vector had (`FlushWritesLine`), and closes it (`FlushCloses`). It holds no
lock, so entries may be appended in between, and if the vector is moved for them, the loop
reads freed memory (`Readable`, where `Garbage` is any line). Opening, reading and writing
may fail, which nobody tests (`FlushOpenFails`, `LoadFails`, `FlushBreaks`).

### HotBackupApp

`mainPc` is the step of `main()`: the initialisation, whose exceptions end in its handler
(`InitThrows`), the console, `shutdown()` call by call, and the destructors: the manager's
releases the plugin, whose `shutdown()` joins the scheduled deletions, and `~FileObserver`
stops the observer again. The other threads are reduced to what they do to the queue and
the log: the observer's callback (`ObserverLogs`, `ObserverPushes`), the workers
(`WorkerServes` leaves open how `backup_file` or `execute` ends), the deletions. Workers
that add their futures to the plugin's vector at once (`WorkerSchedules`, `pushing`) may
lose any of them (`unjoined`); `JoinDeletions` waits for the others only, and the end of
`main()` (`DestroyObserver`) for none. A deletion that misses the notification of
`Destroy` is `asleep` until its timestamp. `Crash` is a kill at any step, and also
`std::terminate`: when a thread cannot be started while others run, and when `wait()`
throws in the destructor. `Launch` starts the program again with the file as it is.
`console` may find its input at the end, and then loops for ever (`spinning`). History:
`logged` has the entries of the session, `history` what the flushes of all sessions had to
write, `flushed` says that this session's flush has opened the file, `lost` that lines of
the file were lost since a flush was cut off or a read or write failed.

## 3. What is checked

| Run | Instance | Shows |
|---|---|---|
| `queue` | 1 producer, 2 consumers, 3 paths, one of them empty | `ContainersAgree`: set and queue agree up to the path being moved, no duplicates; `NoLostWakeup`: while a consumer sleeps, each queued path has a consumer awake or a notification to come; `ImplementsDedupQueue`: every step is a step of the FIFO or invisible to it; `QueuedIsTaken`, `ShutdownFreesConsumers` |
| `worker_pool` | 2 workers, up to 2 plugins, 1 path and the empty one | `PoolIsWhatRuns`, `PluginsStableUnderIteration`, `StopTerminates`, `RunningPoolDrains` |
| `pipeline` | 2 workers, 1 file, 3 requests, an inotify queue of 1, I/O errors | `NoLostChange`: a change that was reported is with the observer, queued or held by a worker that has yet to read it; `ChangesAreRead`: every change is looked at in the end; `BackupIsCurrent`, `DeletedStaysDeleted`: once quiet, the backup reflects the last request |
| `pipeline_stale_backup` | 2 workers, 1 file, 2 requests | **violated** `BackupMatchesFile`, see below |
| `scheduled` | 2 workers, 2 deletions, 2 ticks ahead, 2 ticks to the millisecond, overflow at 3 ticks | `NeverEarly`: no deletion a millisecond or more before its time; `DueIsServed`: a started deletion ends; `ShutdownTerminates`, `ShutdownJoinsDeletions`: the plugin's shutdown returns or throws, and not before the deletions whose futures are safe; `AtMostOneMisses`: its notification misses one waiting deletion at most |
| `scheduled_interrupt` | 1 worker, 1 deletion | **violated** `InterruptibleByShutdown` |
| `scheduled_summer` | 1 worker, 1 deletion, 3 ticks ahead, an hour of 4 ticks | **violated** `WaitIsTimeLeft` |
| `subject_spurious` | 1 directory, 2 files | **violated** `OnlyAlteredFiles` |
| `observer` | 2 directories, 1 file, 1 watch, 2 queued events, batches of 2, room for 2 messages in the pipe | `IndexesAgree`: the indexes are inverse and cover the kernel's watches; `NoEventLost`: batches lose no change; `EndsOnlyWhenTold`: changes never end the thread; `JoinIsSignalled`: a thread that is joined never waits for a change; `ChangesAreDelivered`: while the thread watches, a reported change reaches the callback; `StopTerminates`: `stop_observer` returns |
| `observer_restart` | 1 directory, 1 file | **violated** `StartedIsWatching` |
| `application` | 2 sessions, 2 workers, 1 file with its three names, 2 changes | `HistoryKept`: the file is the history of all sessions, also of those that failed to start or were killed; `LogIsCausal`: no answer before its report; `WorkIsAudited`: the flush comes after all that observer and workers log; `JoinsInOrder`: each join is of a thread that is there and was told to stop, and none is left when its objects are destroyed but a deletion whose future was lost; `ExitTerminates`: after `exit` the program ends |
| `application_audit` | 1 session, 1 worker, 1 change | **violated** `AllOperationsAudited` |

Every passing run also checks `TypeOK`.

Bounds. The only bounds are the sizes of the constant sets and `MaxPlugins`, `MaxVersion`
(requests of the user), `MaxEvents`, `MaxDelay`, `Millisecond`, `SummerHour`, `Horizon`
(ticks), `UserMasks`, `MaxWatches`, `MaxQueue`, `MaxBatch`, `PipeCapacity`, `MaxChanges`
and `MaxSessions`. Two consumers are the smallest number for which a notification can
reach the wrong one, and three paths let the queue hold two while a third moves; for more
producers the safety is proved. Two workers are enough for every overlap of two copies or
of a copy and a deletion; a third adds another overlap of the same kind. Two requests
violate the property that needs an overlap; the passing runs go further. An inotify queue
of one event overflows with the second request. Two deletions contend for the mutex, and
one may wait, delayed by the other, while its time comes. Two workers let two calls of
`push_back` overlap. With two ticks to the millisecond and two ticks ahead, a wait may be
cut by the conversion or not, and the horizon is the next tick, which a timestamp that has
passed long ago reaches too; the hour of summer time has a run of its own. Two directories
and one watch let a directory be renamed and added under its new name; a second watch
makes more states than can be explored, and what two descriptors could do to each other is
left to the proofs. Two queued events fill the queue and make it overflow; two events make
a batch that has a rest. The observer's run has the masks of a modification and of a
subdirectory, which the code treats differently; a creation, which it handles as it
does a modification, is in `subject_spurious`. Two sessions let one session's file be loaded,
extended and rewritten by the next, after any end of the first; two changes let a deletion
be scheduled and log while a worker serves the other name, and while the flush runs. The
theorems of section 4 have none of these bounds.

Deadlock is checked in the runs of the queue, the pool, the pipeline and the observer,
which always have a step. The plugin is destroyed in the end, the subject's watch
descriptors run out and the sessions of the application do, so the other runs do not check
it.

### What does not hold

1. **Two copies of one file** (`BackupMatchesFile`). A path can be queued again as soon as
   a worker has taken it, so two workers may copy the same file at once. The one that
   opened it earlier may write last: the backup stays stale, or is a mixture, although the
   system is quiet. The application runs three workers. With one worker it cannot happen
   (`OneWorkerBackupsMatch`, section 4). The test `IBackupManager_UnitTest.cpp:135`
   expects the content of a file that a pool of three workers has backed up.
2. **A shutdown that a deletion misses** (`InterruptibleByShutdown`). `shutdown()` stores
   the flag and notifies without the mutex. A deletion that has tested the flag and not
   yet blocked misses both and sleeps until its timestamp, and `shutdown()` with it:
   `ShutdownTerminates` holds only because time passes. It is one deletion at most
   (`AtMostOneMisses`). The comment `file_deleter_plugin.cpp:110` calls the wait
   interruptible.
3. **Calls for what is no altered file** (`OnlyAlteredFiles`). `IN_IGNORED` and
   `IN_Q_OVERFLOW` are handed to the callback too, with an empty path or the directory's
   and an event that was never initialised, which `HotBackupApp` uses as an index. The
   empty path is queued, and the workers drop it (`WorkerDrops`). `ifile_notifier.h:27`
   promises a call per altered file.
4. **A restarted observer ends at once** (`StartedIsWatching`). The message of the first
   stop stays in the pipe. Also, a thread that ended because a callback returned false
   stays joinable, and `start_observer` starts no other. In the model there is no third
   cause (`FirstStartWatches`, section 4). `file_observer.h:35` promises a thread that
   watches.
5. **Deletions that are missing in the audit log** (`AllOperationsAudited`). `shutdown()`
   flushes the log after the observer and the workers have ended, but the scheduled
   deletions go on until the destructors stop them; what they log in the meantime, an
   executed deletion perhaps, is in memory only. An entry that comes during the flush may
   even move the vector that it iterates over. `README.md:42` asks for audit logs of all
   operations.
6. **An hour too late in summer** (`WaitIsTimeLeft`). `tm_isdst` is set to 0 before
   `mktime`, which therefore reads a timestamp of summer time as standard time. The test
   `IFileDeleterPlugin_UnitTest.cpp:78` makes its timestamp with `localtime` and fails
   while summer time is in effect. A deletion is late by this. Otherwise the wait is the
   time left but for less than a millisecond, by which it may be too short
   (`NeverEarly`).

Properties that hold under a condition, which shows in the property or the instance:

- `BackupIsCurrent` and `DeletedStaysDeleted` hold for all files but those in `overtaken`,
  `failed` or `missed`. A file gets into `overtaken` in three cases. The name of its last
  request was pending in front of the file's other name (`f`, `delete_f`, `f` again is
  served as `f`, `delete_f`). A worker that had taken an earlier `delete_f` removed the new
  one for it. Or two workers served requests for the file at once: one took a name while
  another had not ended with the same or the other name, or the last request came while
  they overlapped. It is in `failed` when an I/O error cut its copy short or made
  `remove()` throw: the source of a deletion may be gone and the backup left, and since
  nothing is left to take the request from again, it stays. It is in `missed` when
  inotify's queue was full at its last request. Within the model these are the causes of a
  backup that is stale, torn or left after a deletion, in the run and, by
  `BackupsAreCurrent` and `DeletionsAreFinal`, in every instance. Outside it there are
  more: a deletion that was scheduled for a timestamp removes whatever has its name then.
- `NeverEarly` means less than a millisecond early, and leaves out the deletions in
  `overflowed`.
- `IndexesAgree` says less of a directory that was renamed: its descriptor may have two
  names.
- `JoinIsSignalled` and `StopTerminates` of the observer leave out a thread that has read
  the size of the list of subjects beside an `add_subject` (`crossed`): it may poll without
  the controller, and nothing ends it then. `HotBackupApp` adds its subject before it
  starts the thread.
- `HistoryKept` and `WorkIsAudited` leave out what comes after a loss of lines (`lost`): a
  flush that is cut off, or an error of the disk, leaves less than there was.
- `ShutdownJoinsDeletions` leaves out the deletions in `raced`, and `JoinsInOrder` of the
  application those in `unjoined`: two overlapping calls of `push_back` may lose a future,
  whose thread nobody joins, or leave one without state, for which `wait()` throws in the
  destructor. `ShutdownTerminates` counts that as an end of the shutdown.
- `ExitTerminates` lets the program wait for the timestamp of a deletion that missed the
  notification, and does not hold at the end of the input, where the console loops
  (`spinning`) and no `exit` comes.
- `StopTerminates` of the observer leaves out changes that never cease, which keep
  `get_changed_files_list` from returning, and a pipe that earlier stops have filled.
- `NoEventLost` leaves out what a callback has refused by returning false: the rest of its
  batch is dropped. The enumeration goes on with the next batch, though
  `ifile_notifier.h:32` says it ceases; the application's callback never returns false.

### Fairness

- Threads that are in a call and not blocked keep running: weak fairness for each thread's
  steps. The scheduler gives that.
- Acquiring `m_mutex` has strong fairness. Idle workers spin on the queue, so the mutex is
  never free for good; a `std::mutex` promises no order, but a thread that finds it free
  infinitely often is taken to get it at last.
- Acquiring the mutex of the scheduled deletions (`DeletionLock`, `DeletionRelock`) has
  strong fairness for the same reason. The timeout of their wait (`DeletionTimeout`) has
  weak fairness: past its deadline, every return of the wait is a timeout. Time passes
  (`Tick` is weakly fair).
- The observer's thread (`Watcher`) and a call of `stop_observer` keep running. The
  callback need not return false (`CallbackReturns(FALSE)` is not fair), and nobody need
  change anything.
- In `HotBackupApp`, `main()` and all threads keep running. Nobody need start the program
  or type `exit`, no change need come, nothing has to fail or be killed. No deletion need
  come to its timestamp before the end, but one that sleeps through the notification does
  come to it (`DeletionOversleeps` is weakly fair): timestamps are finite, and time passes.
- A wait ends by its timeout: `GetTimeout` is among the weakly fair steps. Without it
  `ShutdownFreesConsumers` fails, since `shutdown()` may notify before the consumer
  blocks.
- No producer has to push, nobody has to call `shutdown`, `start_workers` or
  `stop_workers`, the user does nothing unless he wants to, and no copy has to fail.

## 4. What is proved

For every finite or infinite set of threads, paths, workers, files, deletions and
directories:

- `FileBackupQueueProofs`
  - `TypeCorrect`, `ContainersAlwaysAgree`: `SafeSpec => []TypeOK`, `SafeSpec =>
    []ContainersAgree`, also when the empty path is pushed. Neither is inductive. `IInv`
    adds that only the owner of the mutex is in a critical section (`MutexInv`), that
    `fPath` holds a path exactly while it is needed (`PathInv`), and that what was tested
    under the mutex still holds when it is relied upon (`TestedInv`: the path is not
    queued while it is in transit; and, in `TypeOK`, the queue is not empty before
    `pop()`). Since at most one thread is between the two containers, `InTransit` has at
    most one element (`TransitOfOwner`); eighteen of the twenty-two actions do not touch
    the containers (`AgreementFrame`), and the other four use the lemmas on `Append` and
    `Tail` of sequences without duplicates.
  - `Refinement`: `SafeSpec => ImplementsDedupQueue`. `PushEnqueue` is `Push`,
    `GetSomething` is `Take`, `GotDone` is `Release`, `ShutdownStore` is `Close`, every
    other step stutters.
- `FileBackupQueueWakeup`
  - `NoWakeupIsLost`: `SafeSpec => []NoLostWakeup`, for finite sets of producers and
    consumers, which the counting needs. Relative to `IInv` one conjunct more makes it
    inductive: a consumer about to block has found the queue empty and keeps it so by
    holding the mutex (`SleepInv`). The counts move only in `PushEnqueue` (a path and a
    notification to come), `PushNotify` (the notification becomes a consumer awake) and
    `GetPop` (a path and its consumer leave); `WakeFrame` and `ConsumerFrame` cover the
    other actions.
- `BackupPipelineProofs`
  - `TypeCorrect`, `NoChangeIsLost`: `SafeSpec => []NoLostChange`. The first has it that
    the empty path may be reported and queued, but comes to no plugin and no copy. `IInv`
    adds that a worker holds a name exactly while it processes one and begins at the first
    stage (`PhaseInv`), that unread entries exist (`UnreadExists`), and that the pool
    stays as it was started (`PoolInv`). `EndPreserves` and `StagePreserves` state once
    what all ways out of, and all steps within, `execute` and `backup_file` have in
    common.
  - `BackupsAreCurrent`, `DeletionsAreFinal`: `SafeSpec => []BackupIsCurrent`, `SafeSpec
    => []DeletedStaysDeleted`, for any number of workers, files and requests, copies and
    deletions that fail, and an inotify queue that overflows; files in `failed`, `missed`
    and `overtaken` are exempt. Both speak of the moment when all is worked off; the
    invariant has to say how a last request gets there. `AllInv` follows each file that is
    not exempt: one worker at most serves it (`Sole`); the name of its last request comes
    behind its other name in the backlog, which is the queue followed by the reported
    events (`LatestIsLast`); and what was requested last is pending, or in the hands of
    its worker at a stage that will still carry it out, or done, with nothing left that
    could undo it (`DeletionComes`, `BackupComes`). `StageInv` ties the stage to the
    worker's place in its loop, and `FiniteInv` makes it meaningful to count the workers
    of a file, as `overtaken` does. The `Behind...` lemmas say what appending, taking the
    first name and moving it from the events to the queue do to the order; `InOrderFrame`
    covers the files that a step does not touch.
  - `OneWorkerBackupsMatch`: `SafeSpec => []BackupMatchesFile` if there is one worker. The
    property is the one that `pipeline_stale_backup` violates with two. `Matches` follows
    the copy instead of the order, so that overtaken files are not left out.
  - `PipelineUsesManager`: every step of the pipeline is a step of `BackupManager`, or
    leaves the manager and the queue alone. So its workers do nothing that the manager's
    specification does not allow.
- `FileDeleterPluginProofs`
  - `TypeCorrect`, `DeletionsAreNeverEarly`: `SafeSpec => []NeverEarly`, for any number of
    deletions and workers and any time to wait that can be represented. `TimingInv` adds
    that a deletion that waits has less than a millisecond more until its timestamp than
    until the end of its wait, because the wait begins no earlier than it is computed, and
    that past a timeout the timestamp is less than a millisecond ahead. `ConstructedFits`
    shows that the vector's size stays within its memory when calls of `push_back`
    overlap.
  - `ShutdownAlwaysJoins`: `SafeSpec => []ShutdownJoinsDeletions`, for any number of
    workers. What overlapping calls of `push_back` do to the vector must not reach the
    futures that are in it: `JoinInv` adds that a `push_back` that overlaps no other has
    read the vector's end, that the future of every deletion outside `raced` is in the
    vector, below whatever a `push_back` under way will write and the end it will set
    (`Kept`), or about to be (`Coming`), and that `shutdown()` has passed over ended
    deletions only.
  - `ShutdownMissesAtMostOne`: `SafeSpec => []AtMostOneMisses`, for any number of workers
    and deletions. `MissInv` adds that only the owner of the mutex is between its test and
    its wait, that the flag is set once `shutdown()` has stored it, and that after the
    notification the deletions that wait or are about to (`Unnotified`) are one at most.
- `BackupManagerProofs`
  - `TypeCorrect`, `PoolIsAlwaysWhatRuns`, `PluginsAreStable`: `Spec =>
    []PoolIsWhatRuns` and `Spec => PluginsStableUnderIteration`. `FlagInv` adds that the
    flag is set exactly while `stop_workers` joins, so that it cannot end a worker that
    was started later.
  - `ManagerUsesQueue`: `Spec => Queue!Spec`. Producers, workers and the shutdown use the
    queue as `DedupQueue` allows, so that `Refinement` lets the queue's code take its
    place.
- `FileObserverSubjectProofs`
  - `TypeCorrect`, `IndexesAlwaysAgree`, `NoEventIsLost`: `SafeSpec => []NoEventLost`, for
    every size of batch and queue. `FreshInv` adds that a descriptor that was not given
    out is in use nowhere and of no renamed directory, so that `add_file` overwrites an
    entry only with the new name of a directory that it has. `LossInv` states
    `NoEventLost` over the sets of events instead of sequences. `RangeOfSplit` and
    `RangeOfTail` say that reading a batch keeps all events and processing one leaves only
    that one behind.
- `FileObserverProofs`
  - `ObserverImplementsSubject`: the observer with its callers, thread and callback calls
    the subject only as `SubjectSpec` allows. `ObserverKeepsSubject` therefore has
    `IndexesAgree` and `NoEventLost` for the composition without a second proof, and
    `ObserverTypeCorrect` its `TypeOK`, of which `OwnTypeOK` is the part that the observer
    adds.
  - `JoinsAreSignalled`: `SafeSpec => []JoinIsSignalled`. `SignalInv` adds that a thread
    polls the controller unless `crossed` is set, and that the message is in the pipe when
    `stop_observer` joins.
  - `ThreadsEndWhenTold`: `SafeSpec => EndsOnlyWhenTold`. A descriptor that is signalled
    for the controller means that there is a message, since nobody takes one out.
  - `FirstStartWatches`: an observer that was started watches, as long as nothing was
    written to the pipe and no callback returns false. `UnstoppedInv` says that then no
    thread has ended and that a start leaves one. The two conditions are the two causes
    that section 3 gives for `StartedIsWatching`.
- `HotBackupAppProofs`
  - `TypeCorrect`, `HistoryIsKept`, `WorkIsAlwaysAudited`: `SafeSpec => []HistoryKept`,
    `SafeSpec => []WorkIsAudited`, for any number of sessions. What the file holds after a
    flush depends on what was in memory before, so `IInv` follows the lines: `LoadedInv`
    (memory is what earlier sessions wrote and what this one logged), `FlushedInv` (from
    the flush on, only deletions add to it) and `FlushingInv` (a flush that runs has
    written the first lines). `ThreadsInv` says at which steps of `main()` a thread of
    each kind may be left, from which it follows that none but a deletion logs once the
    flush has begun; a flush reads freed memory only when one does, and counts as `lost`
    if it has written a wrong line for it.
  - `LogIsAlwaysCausal`: `SafeSpec => []LogIsCausal` for a finite set of workers.
    `CausalInv` counts, for each name, the places where it is on its way from its report
    to its answer (`OnTheWay`: the observer, the queue, a worker, a deletion) and the
    deletions that are announced. Each step moves one name from a place to the next or to
    the log; `CausalFrame` and `CausalEntry` do the arithmetic.
  - `ThreadsEndInOrder`: `SafeSpec => []JoinsInOrder`. `ThreadsInv` bounds when a thread
    may be there; `EndInv` adds the steps of `main()` at which one is, that who is joined
    was told to stop, and that no deletion is left after the join of the deletions whose
    future was not lost (`unjoined`).
  - `SessionsUseQueue`: within a session every step is one of `DedupQueue`'s or leaves the
    queue alone; a new session begins with an empty one.

The assumptions of single theorems are the finite sets of threads of `NoWakeupIsLost` and
`LogIsAlwaysCausal`, which count them; one worker for `OneWorkerBackupsMatch`; and an
empty pipe and no refusing callback for `FirstStartWatches`. The last two name the cause
of a violated run: the run violates the property without the condition, the theorem proves
it with it. All theorems assume the constants' own: the kinds of threads are disjoint, the
empty path is not the name of a file, and bounds are natural numbers (`ThreadsAssumption`,
`ManagerAssumption`, `PipelineAssumption`, `DeleterAssumption`, `SubjectAssumption`,
`ObserverAssumption`, `AppAssumption`).

Only model-checked is all liveness, with its fairness, which is out of the prover's reach:
`QueuedIsTaken`, `ShutdownFreesConsumers`, `StopTerminates`, `RunningPoolDrains`,
`ChangesAreRead`, `DueIsServed`, `ShutdownTerminates`, `ChangesAreDelivered` and
`ExitTerminates`. `AtMostOneMisses`, `JoinIsSignalled` and `JoinsInOrder` are the safety
part of why the joins among them return. Every invariant and every action property that a
passing run checks is proved.

## 5. Plan

Order of the modules, the most important behaviour first: 1 `DedupQueue`, 2
`FileBackupQueue`, 3 `BackupManager`, 4 `BackupPipeline`, 5 `FileDeleterPlugin`, 6
`FileObserverSubject`, 7 `FileObserver`, 8 `Logger`, 9 `HotBackupApp`. All are done; the
time of a deletion, planned as a module of its own, is `TimeToWait` in
`FileDeleterPlugin`. The safety properties of all modules are proved.

## 6. What is not modelled

- The factory and the interface classes have no state. The unit tests are not modelled;
  they were read for what they promise.
- `Logger::search` reads only and has no caller but a test; `FileObserverSubject` has a
  `read_event` that nobody calls.
- The times and the wording of log entries. Entries are stored in the order in which their
  threads acquire the logger's mutex, which may differ from the order of their times;
  `localtime` writes to a buffer that the threads share. Names with line breaks, which
  would end an entry early, and two processes that use one log.
- `HotBackupApp` leaves out what its parts have modules for: the contents of files
  (`BackupPipeline`), the waits and the deferred start of deletions (`FileDeleterPlugin`),
  inotify (`FileObserver`), and the steps of the queue's calls (`FileBackupQueue`).
- The clock is not set back or forward, and a wait is not affected if it is.
- The removal of the hot directory itself, whose `IN_IGNORED` names the directory:
  `FileObserverSubject` has the call of the callback, but the pipeline has no such name,
  since `push_item` ignores a directory and `backup_file` refuses one that has gone.
- An inotify queue that overflows in `HotBackupApp`: the empty path is dropped, as in
  `BackupPipeline`, but here it would also be logged as a change of nothing.
- The characters of names: two files of one name cannot exist in the one watched
  directory, so a file and its backup are identified.
- Directories in the hot directory: `push_item` ignores them.
- `copy_file` and inotify are external; they are modelled by what the code relies on.
