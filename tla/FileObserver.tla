---------------------------- MODULE FileObserver ---------------------------
(***************************************************************************)
(* FileUtils::FileObserver with its Controller: a thread that polls the    *)
(* registered subjects and a pipe that tells it to exit.  The one subject  *)
(* beside the pipe is the FileObserverSubject of HotBackupApp; its         *)
(* descriptor is lower than the pipe's, so that the loop over the polled   *)
(* descriptors comes to it first, and the callback reads all its changes.  *)
(*                                                                         *)
(* One thread makes the calls of the observer.  It, and the callback, may  *)
(* also add directories to the subject and remove them.                    *)
(***************************************************************************)
EXTENDS FileObserverSubject

CONSTANT PipeCapacity  (* the messages that the pipe holds *)

ASSUME ObserverAssumption == PipeCapacity \in Nat \ {0}

VARIABLES
  m_subjectsList,  (* the registered subjects                              *)
  joinable,        (* m_watcherThread.joinable()                           *)
  watcherPc,       (* the next step of the watcher thread                  *)
  fds,             (* the subjects it polls                                *)
  signalled,       (* those with POLLIN in revents, not yet dealt with     *)
  pipe,            (* the messages in the pipe: nobody reads them          *)
  mainPc,          (* the next step of the thread that makes the calls     *)
  (* history *)
  requested,       (* start_observer() has returned, and since then        *)
                   (* neither stop_observer() was called nor has a         *)
                   (* callback returned false                              *)
  crossed          (* whether a subject was added between the two steps in *)
                   (* which the thread gathers its subjects                *)

callVars    == <<m_subjectsList, joinable, pipe, mainPc>>
watcherVars == <<watcherPc, fds, signalled>>
callHistory == <<requested, crossed>>
vars == <<subjectVars, callVars, watcherVars, callHistory>>

Notifier   == "notifier"
Controller == "controller"

(* The constructor of the observer registers the controller. *)
Init ==
  /\ SubjectInit
  /\ m_subjectsList = {Controller}
  /\ joinable = FALSE
  /\ watcherPc = "none"
  /\ fds = {}
  /\ signalled = {}
  /\ pipe = 0
  /\ mainPc = "idle"
  /\ requested = FALSE
  /\ crossed = FALSE

-----------------------------------------------------------------------------
(* The calls *)

AddSubjectReplaces ==
  /\ mainPc = "idle"
  /\ m_subjectsList' = {Notifier}
  /\ UNCHANGED <<subjectVars, joinable, pipe, mainPc, watcherVars, callHistory>>

AddSubject ==
  /\ mainPc = "idle"
  /\ m_subjectsList' = m_subjectsList \cup {Notifier}
  /\ crossed' = \/ crossed
                \/ watcherPc = "collect" /\ Notifier \notin m_subjectsList
  /\ UNCHANGED <<subjectVars, joinable, pipe, mainPc, watcherVars, requested>>

(* A thread is started unless there is one that was not joined. *)
StartObserver ==
  /\ mainPc = "idle"
  /\ requested' = TRUE
  /\ \/ joinable /\ UNCHANGED <<joinable, watcherVars, crossed>>
     \/ /\ ~joinable
        /\ joinable' = TRUE
        /\ watcherPc' = "start"
        /\ fds' = {} /\ signalled' = {} /\ crossed' = FALSE
  /\ UNCHANGED <<subjectVars, m_subjectsList, pipe, mainPc>>

StopObserver ==
  /\ mainPc = "idle"
  /\ mainPc' = "signal_event"
  /\ requested' = FALSE
  /\ UNCHANGED <<subjectVars, m_subjectsList, joinable, pipe, watcherVars, crossed>>

(* write() blocks while the pipe is full. *)
SignalEvent ==
  /\ mainPc = "signal_event" /\ pipe < PipeCapacity
  /\ mainPc' = "join"
  /\ pipe' = pipe + 1
  /\ UNCHANGED <<subjectVars, m_subjectsList, joinable, watcherVars, callHistory>>

JoinDetaches ==
  /\ mainPc = "join"
  /\ mainPc' = "idle"
  /\ joinable' = FALSE
  /\ UNCHANGED <<subjectVars, m_subjectsList, pipe, watcherVars, callHistory>>

Join ==
  /\ mainPc = "join"
  /\ joinable => watcherPc = "ended"
  /\ mainPc' = "idle"
  /\ joinable' = FALSE
  /\ watcherPc' = "none"
  /\ UNCHANGED <<subjectVars, m_subjectsList, pipe, fds, signalled, callHistory>>

-----------------------------------------------------------------------------
(* The watcher thread *)

(* It counts the subjects that are registered when it gets to them, and    *)
(* takes as many, in the order of their descriptors: if the notifier was   *)
(* added in between, that is the notifier and not the controller.          *)
CountSubjects ==
  /\ watcherPc = "start"
  /\ watcherPc' = "collect"
  /\ fds' = m_subjectsList
  /\ UNCHANGED <<subjectVars, callVars, signalled, callHistory>>

CollectFds ==
  /\ watcherPc = "collect"
  /\ watcherPc' = "poll"
  /\ fds' = IF fds = m_subjectsList THEN fds ELSE m_subjectsList \ {Controller}
  /\ UNCHANGED <<subjectVars, callVars, signalled, callHistory>>

Readable ==
  {s \in fds : \/ s = Notifier /\ queue # <<>>
               \/ s = Controller /\ pipe > 0}

PollUntested ==
  /\ watcherPc = "poll" /\ Readable # {}
  /\ watcherPc' = "scan"
  /\ signalled' = fds
  /\ UNCHANGED <<subjectVars, callVars, fds, callHistory>>

(* poll() returns when a descriptor is readable; errors and timeouts lead  *)
(* back to it. *)
Poll ==
  /\ watcherPc = "poll" /\ Readable # {}
  /\ watcherPc' = "scan"
  /\ signalled' = Readable
  /\ UNCHANGED <<subjectVars, callVars, fds, callHistory>>

ScanNotifierUnread ==
  /\ watcherPc = "scan" /\ Notifier \in signalled
  /\ signalled' = signalled \ {Notifier}
  /\ UNCHANGED <<subjectVars, callVars, watcherPc, fds, callHistory>>

ScanNotifier ==
  /\ watcherPc = "scan" /\ Notifier \in signalled
  /\ watcherPc' = "callback"
  /\ signalled' = signalled \ {Notifier}
  /\ GetCall
  /\ UNCHANGED <<callVars, fds, callHistory>>

ScanControllerReads ==
  /\ watcherPc = "scan" /\ signalled = {Controller}
  /\ watcherPc' = "poll"
  /\ signalled' = {}
  /\ UNCHANGED <<subjectVars, callVars, fds, callHistory>>

ScanController ==
  /\ watcherPc = "scan" /\ signalled = {Controller}
  /\ watcherPc' = "ended"
  /\ UNCHANGED <<subjectVars, callVars, fds, signalled, callHistory>>

ScanDone ==
  /\ watcherPc = "scan" /\ signalled = {}
  /\ watcherPc' = "poll"
  /\ UNCHANGED <<subjectVars, callVars, fds, signalled, callHistory>>

(* observerFunc: get_changed_files_list(). *)
CallbackReads ==
  /\ watcherPc = "callback"
  /\ Read \/ ReadNothing \/ SkipSubdir \/ Deliver(TRUE)
  /\ UNCHANGED <<callVars, watcherVars, callHistory>>

(* The callback of get_changed_files_list() asks it to stop. *)
CallbackRefuses ==
  /\ watcherPc = "callback"
  /\ Deliver(FALSE)
  /\ UNCHANGED <<callVars, watcherVars, callHistory>>

CallbackReturns(continue) ==
  /\ watcherPc = "callback" /\ readerPc = "idle"
  /\ watcherPc' = IF continue THEN "scan" ELSE "ended"
  /\ requested' = (requested /\ continue)
  /\ UNCHANGED <<subjectVars, callVars, fds, signalled, crossed>>

Watcher ==
  \/ CountSubjects \/ CollectFds
  \/ Poll \/ ScanNotifier \/ ScanController \/ ScanDone
  \/ CallbackReads \/ CallbackRefuses \/ CallbackReturns(TRUE)

-----------------------------------------------------------------------------
User == SubjectUser /\ UNCHANGED <<callVars, watcherVars, callHistory>>

(* add_file() and remove_file() of the subject, by the thread that owns    *)
(* the observer while no other runs, or by the callback. *)
SetWatch ==
  /\ \/ mainPc = "idle" /\ watcherPc \in {"none", "ended"}
     \/ watcherPc = "callback"
  /\ \E d \in Dirs : AddFile(d) \/ RemoveFile(d)
  /\ UNCHANGED <<callVars, watcherVars, callHistory>>

Next ==
  \/ User \/ SetWatch
  \/ AddSubject \/ StartObserver \/ StopObserver \/ SignalEvent \/ Join
  \/ Watcher \/ CallbackReturns(FALSE)

SafeSpec == Init /\ [][Next]_vars

(* The watcher thread keeps running, and a call of stop_observer() goes    *)
(* on; nobody need start, stop, or change anything. *)
Fairness ==
  /\ WF_vars(Watcher)
  /\ WF_vars(SignalEvent) /\ WF_vars(Join)

Spec == SafeSpec /\ Fairness

-----------------------------------------------------------------------------
(* Every variable of the observer has the values its counterpart can hold, *)
(* and the subject's have theirs. *)
TypeOK ==
  /\ SubjectTypeOK
  /\ m_subjectsList \subseteq {Notifier, Controller}
  /\ joinable \in BOOLEAN
  /\ watcherPc \in {"none", "start", "collect", "poll", "scan", "callback", "ended"}
  /\ joinable <=> watcherPc # "none"
  /\ fds \subseteq m_subjectsList
  /\ signalled \subseteq fds
  /\ pipe \in 0 .. PipeCapacity
  /\ mainPc \in {"idle", "signal_event", "join"}
  /\ requested \in BOOLEAN /\ crossed \in BOOLEAN

(* A call that joins the thread need not wait for a change: whatever the   *)
(* thread was at when the message was written, and whichever subjects are  *)
(* registered, its next poll() returns with the controller.  (Not if a     *)
(* subject is added beside a thread that is gathering them.)               *)
JoinIsSignalled ==
  mainPc = "join" /\ watcherPc = "poll" /\ ~crossed => Controller \in Readable

(* Changes never end the thread: it ends for a message of stop_observer(), *)
(* which is still in the pipe then, or because its callback returns false. *)
EndsOnlyWhenTold ==
  [][watcherPc # "ended" /\ watcherPc' = "ended" =>
       pipe > 0 \/ CallbackReturns(FALSE)]_vars

Watching == watcherPc \in {"poll", "scan", "callback"} /\ Notifier \in fds

(* A change that inotify has reported reaches the callback, as long as the *)
(* thread watches: poll() is level-triggered and the subject is read until *)
(* it is empty.  A callback that refuses again and again may put a change  *)
(* off for ever. *)
ChangesAreDelivered ==
  \/ \A c \in Changes : c \in unseen /\ Watching ~> c \notin unseen \/ ~Watching
  \/ []<><<CallbackRefuses>>_vars

(* stop_observer() returns, unless changes keep coming for ever, nobody    *)
(* reads the pipe that it has filled, or a subject was added beside a      *)
(* thread that was gathering them: the callback that is running and the    *)
(* scan end, and the pipe ends the thread. *)
StopTerminates ==
  \/ mainPc = "signal_event" /\ pipe < PipeCapacity /\ ~crossed ~> mainPc = "idle"
  \/ []<><<User>>_vars

(* After start_observer() there is a thread that watches, until            *)
(* stop_observer() is called or a callback returns false.                  *)
StartedIsWatching ==
  requested => watcherPc \in {"start", "collect", "poll", "scan", "callback"}

=============================================================================
