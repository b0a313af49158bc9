-------------------------- MODULE FileObserverProofs ------------------------
(***************************************************************************)
(* Proofs about FileObserver: its thread, its callers and its callback use *)
(* the subject as FileObserverSubject specifies it, so that all that is    *)
(* proved about the subject holds for the subject under the observer.      *)
(***************************************************************************)
EXTENDS FileObserver, FileObserverSubjectProofs

-----------------------------------------------------------------------------
(* The subject under the observer *)

(* A step of the observer's loop calls the subject, or leaves it alone. *)
LEMMA WatcherUsesSubject ==
  ASSUME NEW continue \in BOOLEAN, Watcher \/ CallbackReturns(continue)
  PROVE  [SubjectNext]_subjectVars
  <1>1. CASE CountSubjects \/ CollectFds \/ Poll \/ ScanController \/ ScanDone
    BY <1>1 DEF CountSubjects, CollectFds, Poll, ScanController, ScanDone
  <1>2. CASE ScanNotifier
    BY <1>2 DEF ScanNotifier, SubjectNext
  <1>3. CASE CallbackReads
    BY <1>3 DEF CallbackReads, SubjectNext, Reader
  <1>4. CASE CallbackRefuses
    BY <1>4 DEF CallbackRefuses, SubjectNext, Reader
  <1>5. ASSUME NEW c \in BOOLEAN, CallbackReturns(c)
        PROVE  UNCHANGED subjectVars
    BY <1>5 DEF CallbackReturns
  <1>6. QED
    BY <1>1, <1>2, <1>3, <1>4, <1>5 DEF Watcher

LEMMA NextUsesSubject == [Next]_vars => [SubjectNext]_subjectVars
  <1> SUFFICES ASSUME [Next]_vars PROVE [SubjectNext]_subjectVars
    OBVIOUS
  <1>1. CASE User
    BY <1>1 DEF User, SubjectNext
  <1>2. CASE SetWatch
    BY <1>2 DEF SetWatch, SubjectNext
  <1>3. CASE AddSubject \/ StartObserver \/ StopObserver \/ SignalEvent \/ Join
    BY <1>3 DEF AddSubject, StartObserver, StopObserver, SignalEvent, Join
  <1>4. CASE Watcher \/ CallbackReturns(FALSE)
    BY <1>4, WatcherUsesSubject
  <1>5. CASE UNCHANGED vars
    BY <1>5 DEF vars
  <1>6. QED
    BY <1>1, <1>2, <1>3, <1>4, <1>5 DEF Next

(* The observer with its callers, thread and callback implements the       *)
(* specification of the subject: get_changed_files_list(), add_file() and  *)
(* remove_file() are called only as that allows. *)
THEOREM ObserverImplementsSubject == SafeSpec => SubjectSpec
  <1>1. Init => SubjectInit
    BY DEF Init
  <1>2. QED
    BY <1>1, NextUsesSubject, PTL DEF SafeSpec, SubjectSpec

-----------------------------------------------------------------------------
(* The observer's own variables *)

OwnTypeOK ==
  /\ m_subjectsList \subseteq {Notifier, Controller}
  /\ joinable \in BOOLEAN
  /\ watcherPc \in {"none", "start", "collect", "poll", "scan", "callback", "ended"}
  /\ joinable <=> watcherPc # "none"
  /\ fds \subseteq m_subjectsList
  /\ signalled \subseteq fds
  /\ watcherPc \in {"start", "collect"} => signalled = {}
  /\ pipe \in 0 .. PipeCapacity
  /\ mainPc \in {"idle", "signal_event", "join"}
  /\ requested \in BOOLEAN /\ crossed \in BOOLEAN

LEMMA InitOwn == Init => OwnTypeOK
  <1> SUFFICES ASSUME Init PROVE OwnTypeOK
    OBVIOUS
  <1>1. pipe \in 0 .. PipeCapacity
    BY ObserverAssumption DEF Init
  <1>2. m_subjectsList \subseteq {Notifier, Controller}
    BY DEF Init
  <1>3. QED
    BY <1>1, <1>2, Zenon DEF Init, OwnTypeOK

LEMMA CallsPreserveOwn ==
  ASSUME OwnTypeOK,
         AddSubject \/ StartObserver \/ StopObserver \/ SignalEvent \/ Join
  PROVE  OwnTypeOK'
  <1> USE ObserverAssumption DEF OwnTypeOK
  <1>1. CASE AddSubject
    BY <1>1 DEF AddSubject, watcherVars
  <1>2. CASE StartObserver
    BY <1>2 DEF StartObserver, watcherVars
  <1>3. CASE StopObserver
    BY <1>3 DEF StopObserver, watcherVars
  <1>4. CASE SignalEvent
    BY <1>4 DEF SignalEvent, watcherVars, callHistory
  <1>5. CASE Join
    BY <1>5 DEF Join, callHistory
  <1>6. QED
    BY <1>1, <1>2, <1>3, <1>4, <1>5

LEMMA WatcherPreservesOwn ==
  ASSUME OwnTypeOK, NEW continue \in BOOLEAN,
         Watcher \/ CallbackReturns(continue)
  PROVE  OwnTypeOK'
  <1> USE DEF OwnTypeOK
  <1>0. CASE CountSubjects \/ CollectFds
    BY <1>0 DEF CountSubjects, CollectFds, callVars, callHistory
  <1>1. CASE Poll
    BY <1>1 DEF Poll, Readable, callVars, callHistory
  <1>2. CASE ScanNotifier
    BY <1>2 DEF ScanNotifier, callVars, callHistory
  <1>3. CASE ScanController
    BY <1>3 DEF ScanController, callVars, callHistory
  <1>4. CASE ScanDone
    BY <1>4 DEF ScanDone, callVars, callHistory
  <1>5. CASE CallbackReads \/ CallbackRefuses
    BY <1>5 DEF CallbackReads, CallbackRefuses, callVars, watcherVars, callHistory
  <1>6. ASSUME NEW c \in BOOLEAN, CallbackReturns(c)
        PROVE  OwnTypeOK'
    BY <1>6 DEF CallbackReturns, callVars, callHistory
  <1>7. QED
    BY <1>0, <1>1, <1>2, <1>3, <1>4, <1>5, <1>6 DEF Watcher

LEMMA NextOwn == OwnTypeOK /\ [Next]_vars => OwnTypeOK'
  <1> SUFFICES ASSUME OwnTypeOK, [Next]_vars PROVE OwnTypeOK'
    OBVIOUS
  <1>1. CASE User \/ SetWatch
    BY <1>1 DEF OwnTypeOK, User, SetWatch, callVars, watcherVars, callHistory
  <1>2. CASE AddSubject \/ StartObserver \/ StopObserver \/ SignalEvent \/ Join
    BY <1>2, CallsPreserveOwn
  <1>3. CASE Watcher \/ CallbackReturns(FALSE)
    BY <1>3, WatcherPreservesOwn
  <1>4. CASE UNCHANGED vars
    BY <1>4 DEF OwnTypeOK, vars, callVars, watcherVars, callHistory
  <1>5. QED
    BY <1>1, <1>2, <1>3, <1>4 DEF Next

(* The observer's state keeps its types: there is a thread to join exactly *)
(* while m_watcherThread is joinable, and the thread never looks at a      *)
(* descriptor that it did not poll.                                        *)
THEOREM ObserverTypeCorrect == SafeSpec => []TypeOK
  <1>1. SafeSpec => []OwnTypeOK
    BY InitOwn, NextOwn, PTL DEF SafeSpec
  <1>2. SubjectTypeOK /\ OwnTypeOK => TypeOK
    BY DEF OwnTypeOK, TypeOK
  <1>3. QED
    BY <1>1, <1>2, ObserverImplementsSubject, TypeCorrect, PTL

(* Whatever the observer's thread and the callback do, the watch indexes   *)
(* agree, but for renamed directories, and no change that the kernel has   *)
(* queued is lost on its way to the callback.                              *)
THEOREM ObserverKeepsSubject == SafeSpec => [](IndexesAgree /\ NoEventLost)
  BY ObserverImplementsSubject, IndexesAlwaysAgree, NoEventIsLost, PTL

-----------------------------------------------------------------------------
(* What ends the thread *)

(* The controller is registered from the start and polled by every thread  *)
(* beside whose gathering no subject was added; it is signalled only when  *)
(* there is a message, which nobody takes; and there is one when           *)
(* stop_observer() joins.                                                  *)
SignalInv ==
  /\ Controller \in m_subjectsList
  /\ watcherPc = "collect" /\ ~crossed => fds = m_subjectsList
  /\ watcherPc \notin {"none", "start"} /\ ~crossed => Controller \in fds
  /\ Controller \in signalled => pipe > 0
  /\ mainPc = "join" => pipe > 0

LEMMA InitSignal == Init => SignalInv
  BY DEF Init, SignalInv

LEMMA NextSignal == OwnTypeOK /\ SignalInv /\ [Next]_vars => SignalInv'
  <1> SUFFICES ASSUME OwnTypeOK, SignalInv, [Next]_vars PROVE SignalInv'
    OBVIOUS
  <1> USE DEF SignalInv
  <1>1. CASE User \/ SetWatch \/ UNCHANGED vars
    BY <1>1 DEF User, SetWatch, vars, callVars, watcherVars, callHistory
  <1>2. CASE AddSubject
    <2>1. m_subjectsList' = m_subjectsList
            \/ crossed' \/ watcherPc' # "collect"
      BY <1>2 DEF AddSubject, watcherVars
    <2>2. /\ UNCHANGED <<watcherVars, pipe, mainPc>>
          /\ crossed => crossed'
          /\ Controller \in m_subjectsList'
      BY <1>2 DEF AddSubject
    <2>3. QED
      BY <2>1, <2>2 DEF watcherVars
  <1>3. CASE StartObserver
    BY <1>3 DEF StartObserver, watcherVars
  <1>4. CASE StopObserver
    BY <1>4 DEF StopObserver, watcherVars
  <1>5. CASE SignalEvent \/ Join
    <2>1. pipe \in Nat
      BY DEF OwnTypeOK
    <2>2. QED
      BY <1>5, <2>1 DEF SignalEvent, Join, watcherVars, callHistory
  <1>6. CASE CountSubjects \/ CollectFds
    BY <1>6 DEF CountSubjects, CollectFds, callVars, callHistory
  <1>7. CASE Poll
    BY <1>7 DEF Poll, Readable, Controller, Notifier, callVars, callHistory
  <1>8. CASE ScanNotifier \/ ScanController \/ ScanDone
    BY <1>8 DEF ScanNotifier, ScanController, ScanDone, callVars, callHistory
  <1>9. CASE CallbackReads \/ CallbackRefuses
    BY <1>9 DEF CallbackReads, CallbackRefuses, callVars, watcherVars, callHistory
  <1>10. ASSUME NEW continue \in BOOLEAN, CallbackReturns(continue)
         PROVE  SignalInv'
    BY <1>10 DEF CallbackReturns, callVars
  <1>11. QED
    BY <1>1, <1>2, <1>3, <1>4, <1>5, <1>6, <1>7, <1>8, <1>9, <1>10 DEF Next, Watcher

LEMMA SignalInvariance == SafeSpec => [](OwnTypeOK /\ SignalInv)
  BY InitOwn, NextOwn, InitSignal, NextSignal, PTL DEF SafeSpec

(* Whatever subjects were registered when the thread gathered them, and    *)
(* whatever it was at when stop_observer() wrote to the pipe, its next     *)
(* poll() returns at once, with the controller signalled, unless a subject *)
(* was added beside the thread while it gathered them.                     *)
THEOREM JoinsAreSignalled == SafeSpec => []JoinIsSignalled
  <1>1. SignalInv => JoinIsSignalled
    BY DEF SignalInv, JoinIsSignalled, Readable
  <1>2. QED
    BY <1>1, SignalInvariance, PTL

(* No change, and no sequence of calls but stop_observer(), ends the       *)
(* thread, unless its own callback does.                                   *)
LEMMA EndIsTold ==
  ASSUME SignalInv, [Next]_vars, watcherPc # "ended", watcherPc' = "ended"
  PROVE  pipe > 0 \/ CallbackReturns(FALSE)
  <1>1. CASE \/ User \/ SetWatch \/ UNCHANGED vars \/ AddSubject \/ StopObserver
             \/ SignalEvent \/ CallbackReads \/ CallbackRefuses
    <2>1. UNCHANGED watcherPc
      BY <1>1 DEF User, SetWatch, vars, AddSubject, StopObserver, SignalEvent,
                  CallbackReads, CallbackRefuses, watcherVars
    <2>2. QED
      BY <2>1
  <1>2. CASE \/ StartObserver \/ Join \/ CountSubjects \/ CollectFds \/ Poll
             \/ ScanNotifier \/ ScanDone
    BY <1>2 DEF StartObserver, Join, CountSubjects, CollectFds, Poll,
                ScanNotifier, ScanDone, watcherVars
  <1>3. CASE ScanController
    BY <1>3 DEF ScanController, SignalInv
  <1>4. CASE CallbackReturns(TRUE)
    BY <1>4 DEF CallbackReturns
  <1>5. CASE CallbackReturns(FALSE)
    BY <1>5
  <1>6. QED
    BY <1>1, <1>2, <1>3, <1>4, <1>5 DEF Next, Watcher

THEOREM ThreadsEndWhenTold == SafeSpec => EndsOnlyWhenTold
  <1>1. OwnTypeOK /\ SignalInv /\ [Next]_vars =>
          [watcherPc # "ended" /\ watcherPc' = "ended" =>
             pipe > 0 \/ CallbackReturns(FALSE)]_vars
    BY EndIsTold
  <1>2. QED
    BY <1>1, SignalInvariance, PTL DEF SafeSpec, EndsOnlyWhenTold

-----------------------------------------------------------------------------
(* What keeps a started observer from watching *)

(* While nobody has stopped the observer and no callback has returned      *)
(* false, there is no thread that has ended, and a start brought one.      *)
UnstoppedInv ==
  /\ watcherPc = "ended" => pipe > 0
  /\ requested => watcherPc # "none" /\ mainPc = "idle"

LEMMA NextUnstopped ==
  OwnTypeOK /\ SignalInv /\ UnstoppedInv /\ [Next]_vars /\ ~CallbackReturns(FALSE)
    => UnstoppedInv'
  <1> SUFFICES ASSUME OwnTypeOK, SignalInv, UnstoppedInv, [Next]_vars,
                      ~CallbackReturns(FALSE)
               PROVE  UnstoppedInv'
    OBVIOUS
  <1>1. pipe' >= pipe /\ pipe \in Nat /\ pipe' \in Nat
    <2>1. pipe \in Nat
      BY DEF OwnTypeOK
    <2>2. pipe' \in {pipe, pipe + 1}
      BY DEF Next, User, SetWatch, AddSubject, StartObserver, StopObserver,
             SignalEvent, Join, Watcher, CountSubjects, CollectFds, Poll,
             ScanNotifier, ScanController, ScanDone, CallbackReads, CallbackRefuses, CallbackReturns, vars,
             callVars
    <2>3. QED
      BY <2>1, <2>2
  <1>2. watcherPc' = "ended" => pipe' > 0
    <2>1. CASE watcherPc = "ended"
      BY <1>1, <2>1 DEF UnstoppedInv
    <2>2. CASE watcherPc # "ended" /\ watcherPc' = "ended"
      <3>1. pipe > 0 \/ CallbackReturns(FALSE)
        BY <2>2, EndIsTold, Zenon
      <3>2. pipe > 0
        BY <3>1, Zenon
      <3>3. QED
        BY <1>1, <3>2
    <2>3. QED
      BY <2>1, <2>2
  <1>3. requested' => watcherPc' # "none" /\ mainPc' = "idle"
    <2>1. CASE User \/ SetWatch \/ AddSubject \/ UNCHANGED vars
      BY <2>1 DEF User, SetWatch, AddSubject, vars, callVars,
             watcherVars, callHistory, UnstoppedInv
    <2>2. CASE StartObserver
      BY <2>2 DEF StartObserver, OwnTypeOK, watcherVars
    <2>3. CASE StopObserver
      BY <2>3 DEF StopObserver
    <2>4. CASE SignalEvent \/ Join
      BY <2>4 DEF SignalEvent, Join, UnstoppedInv, callHistory
    <2>5. CASE Watcher
      BY <2>5 DEF Watcher, CountSubjects, CollectFds, Poll, ScanNotifier,
                  ScanController, ScanDone, CallbackReads, CallbackRefuses,
                  CallbackReturns, callVars, watcherVars, callHistory, UnstoppedInv
    <2>6. QED
      BY <2>1, <2>2, <2>3, <2>4, <2>5 DEF Next
  <1>4. QED
    BY <1>2, <1>3 DEF UnstoppedInv

(* A started observer watches, as long as no message of an earlier         *)
(* stop_observer() is in the pipe and no callback has ended a thread: what *)
(* the violated run shows are the only two ways in which start_observer()  *)
(* leaves nobody watching.                                                 *)
THEOREM FirstStartWatches ==
  SafeSpec /\ [][~CallbackReturns(FALSE)]_vars
    => [](pipe = 0 => StartedIsWatching)
  <1>1. Init => UnstoppedInv
    BY DEF Init, UnstoppedInv
  <1>2. OwnTypeOK /\ SignalInv /\ UnstoppedInv /\ [Next]_vars
          /\ [~CallbackReturns(FALSE)]_vars => UnstoppedInv'
    <2>1. UnstoppedInv /\ UNCHANGED vars => UnstoppedInv'
      BY DEF UnstoppedInv, vars, callVars, watcherVars, callHistory
    <2>2. QED
      BY <2>1, NextUnstopped
  <1>3. OwnTypeOK /\ UnstoppedInv => (pipe = 0 => StartedIsWatching)
    BY DEF OwnTypeOK, UnstoppedInv, StartedIsWatching
  <1>4. QED
    BY <1>1, <1>2, <1>3, SignalInvariance, PTL DEF SafeSpec

=============================================================================
