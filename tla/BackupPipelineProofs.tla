------------------------- MODULE BackupPipelineProofs -----------------------
(***************************************************************************)
(* Proofs about BackupPipeline, for every number of workers and files.     *)
(***************************************************************************)
EXTENDS BackupPipeline, SequenceTheorems, FiniteSetTheorems, TLAPS

-----------------------------------------------------------------------------
(* The names in a sequence *)

(* A name that is reported is pending, and so is what was pending. *)
LEMMA RangeOfAppend ==
  ASSUME NEW S, NEW q \in Seq(S), NEW x \in S
  PROVE  Range(Append(q, x)) = Range(q) \cup {x}
  <1>1. \A i \in 1 .. Len(q) : Append(q, x)[i] = q[i] /\ i \in 1 .. Len(q) + 1
    OBVIOUS
  <1>2. Append(q, x)[Len(q) + 1] = x /\ Len(q) + 1 \in 1 .. Len(q) + 1
    OBVIOUS
  <1>3. DOMAIN Append(q, x) = 1 .. Len(q) + 1 /\ DOMAIN q = 1 .. Len(q)
    OBVIOUS
  <1>4. Range(Append(q, x)) \subseteq Range(q) \cup {x}
    BY DEF Range
  <1>5. QED
    BY <1>1, <1>2, <1>3, <1>4 DEF Range

(* Taking the head of a sequence loses nothing but the head. *)
LEMMA RangeOfTail ==
  ASSUME NEW S, NEW q \in Seq(S), q # <<>>
  PROVE  /\ Head(q) \in S /\ Tail(q) \in Seq(S)
         /\ Range(q) \subseteq {Head(q)} \cup Range(Tail(q))
  <1>1. /\ Tail(q) \in Seq(S) /\ Head(q) \in S /\ Head(q) = q[1]
        /\ DOMAIN q = 1 .. Len(q) /\ DOMAIN Tail(q) = 1 .. Len(q) - 1
        /\ Len(q) \in Nat /\ Len(q) > 0
    OBVIOUS
  <1>2. \A i \in 1 .. Len(q) - 1 : Tail(q)[i] = q[i + 1]
    OBVIOUS
  <1>3. \A i \in 1 .. Len(q) :
          i = 1 \/ (i - 1 \in 1 .. Len(q) - 1 /\ q[i] = Tail(q)[i - 1])
    BY <1>1, <1>2
  <1>4. ASSUME NEW x \in Range(q) PROVE x \in {Head(q)} \cup Range(Tail(q))
    <2>1. PICK i \in 1 .. Len(q) : x = q[i]
      BY <1>1 DEF Range
    <2>2. CASE i = 1
      BY <1>1, <2>1, <2>2
    <2>3. CASE i # 1
      <3>1. i - 1 \in 1 .. Len(q) - 1 /\ x = Tail(q)[i - 1]
        BY <1>3, <2>1, <2>3
      <3>2. QED
        BY <1>1, <3>1 DEF Range
    <2>4. QED
      BY <2>2, <2>3
  <1>5. QED
    BY <1>1, <1>4

-----------------------------------------------------------------------------
(* The inductive invariant *)

(* The pool stays as start_backup_workers() left it. *)
PoolInv ==
  /\ m_workers = Workers /\ m_plugins = <<"deleter">>
  /\ m_shutdown = FALSE /\ mainPc = "idle" /\ closed = FALSE

(* A worker holds a name exactly while it processes one, and begins with   *)
(* every name from the start. *)
PhaseInv ==
  \A w \in Workers :
    IF workerPc[w] \in {"plugins", "backup"}
    THEN got[w] \in Names
    ELSE got[w] = NoPath /\ stage[w] = "start"

(* Only an entry that exists can be unread. *)
UnreadExists == \A n \in unread : hot[n] # Absent

IInv == TypeOK /\ PoolInv /\ PhaseInv /\ UnreadExists /\ NoLostChange

LEMMA NameParts ==
  /\ \A n \in Names : File(n) \in Files
  /\ \A f \in Files : <<"plain", f>> \in Names /\ <<"delete", f>> \in Names
  BY DEF Names, File

LEMMA InitIInv == Init => IInv
  <1> SUFFICES ASSUME Init PROVE IInv
    OBVIOUS
  <1>1. TypeOK
    BY PipelineAssumption DEF Init, TypeOK, Stages, Versions, Names
  <1>2. PoolInv /\ PhaseInv /\ UnreadExists /\ NoLostChange
    BY DEF Init, PoolInv, PhaseInv, UnreadExists, NoLostChange
  <1>3. QED
    BY <1>1, <1>2 DEF IInv

(* What every request of the user leaves behind: a fresh content, and a    *)
(* report of the name or of an overflow.                                   *)
LEMMA RequestEffect ==
  ASSUME TypeOK, NEW n \in Names, Requested(n)
  PROVE  /\ version' \in Versions /\ version' # Absent
         /\ last' \in [Files -> {"none", "write", "delete"}]
         /\ overtaken' \subseteq Files /\ missed' \subseteq Files
         /\ \A g \in Files : g # File(n) => (g \in missed' <=> g \in missed)
         /\ events' \in Seq(Reports)
         /\ Range(events) \subseteq Range(events')
         /\ Range(events') \subseteq Range(events) \cup {n, NoPath}
         /\ \/ File(n) \in missed'
            \/ File(n) \notin missed' /\ n \in Range(events') /\ Reported(n)
         /\ \E x \in {n, NoPath} : events' \in {events, Append(events, x)}
  <1>1. version' \in Versions /\ version' # Absent
    BY PipelineAssumption DEF TypeOK, Requested, Versions, Absent
  <1>2. last' \in [Files -> {"none", "write", "delete"}]
    BY NameParts DEF TypeOK, Requested
  <1>3. /\ overtaken' \subseteq Files /\ missed' \subseteq Files
        /\ \A g \in Files : g # File(n) => (g \in missed' <=> g \in missed)
    BY NameParts DEF TypeOK, Requested
  <1>4. n \in Reports /\ NoPath \in Reports
    BY DEF Reports
  <1>5. CASE Reported(n) /\ missed' = missed \ {File(n)}
    <2>1. CASE events' = Append(events, n)
      <3>1. events' \in Seq(Reports) /\ Range(events') = Range(events) \cup {n}
        BY <1>4, <2>1, RangeOfAppend DEF TypeOK
      <3>2. QED
        BY <1>1, <1>2, <1>3, <1>5, <2>1, <3>1
    <2>2. CASE events # <<>> /\ events[Len(events)] = n /\ UNCHANGED events
      <3>1. n \in Range(events)
        BY <2>2 DEF TypeOK, Range
      <3>2. QED
        BY <1>1, <1>2, <1>3, <1>5, <2>2, <3>1 DEF TypeOK
    <2>3. QED
      BY <1>5, <2>1, <2>2 DEF Reported
  <1>6. CASE Overflows /\ missed' = missed \cup {File(n)}
    <2>1. CASE events' = Append(events, NoPath)
      <3>1. /\ events' \in Seq(Reports)
            /\ Range(events') = Range(events) \cup {NoPath}
        BY <1>4, <2>1, RangeOfAppend DEF TypeOK
      <3>2. QED
        BY <1>1, <1>2, <1>3, <1>6, <2>1, <3>1
    <2>2. CASE events' = events
      BY <1>1, <1>2, <1>3, <1>6, <2>2 DEF TypeOK
    <2>3. QED
      BY <1>6, <2>1, <2>2 DEF Overflows
  <1>7. QED
    BY <1>5, <1>6 DEF Requested

(* Only a name that was reported has to be read. *)
LEMMA ToReadReported ==
  ASSUME TypeOK, NEW n \in Names, Requested(n)
  PROVE  ToRead(n) \subseteq {n} \cap Range(events')
  BY RequestEffect DEF ToRead

LEMMA WritePreserves ==
  ASSUME IInv, NEW n \in Names, Write(n)
  PROVE  IInv'
  <1> USE DEF IInv
  <1>1. /\ version' \in Versions /\ version' # Absent
        /\ last' \in [Files -> {"none", "write", "delete"}]
        /\ overtaken' \subseteq Files /\ missed' \subseteq Files
        /\ events' \in Seq(Reports)
        /\ Range(events) \subseteq Range(events')
        /\ ToRead(n) \subseteq {n} \cap Range(events')
    BY RequestEffect, ToReadReported DEF Write
  <1>2. TypeOK'
    BY <1>1 DEF TypeOK, Write, workerVars, dataVars
  <1>3. PoolInv' /\ PhaseInv'
    BY DEF PoolInv, PhaseInv, Write, workerVars, dataVars
  <1>4. UnreadExists'
    BY <1>1 DEF TypeOK, UnreadExists, Write
  <1>5. NoLostChange'
    BY <1>1 DEF NoLostChange, WillRead, Write, workerVars, dataVars
  <1>6. QED
    BY <1>2, <1>3, <1>4, <1>5

LEMMA RenamePreserves ==
  ASSUME IInv, NEW f \in Files, Rename(f)
  PROVE  IInv'
  <1> DEFINE source == <<"plain", f>>
             target == <<"delete", f>>
  <1> USE DEF IInv
  <1>1. source \in Names /\ target \in Names /\ source # target
    BY NameParts
  <1>2. /\ version' \in Versions /\ version' # Absent
        /\ last' \in [Files -> {"none", "write", "delete"}]
        /\ overtaken' \subseteq Files /\ missed' \subseteq Files
        /\ events' \in Seq(Reports)
        /\ Range(events) \subseteq Range(events')
        /\ ToRead(target) \subseteq {target} \cap Range(events')
    BY <1>1, RequestEffect, ToReadReported DEF Rename
  <1>3. /\ hot' = [hot EXCEPT ![source] = Absent, ![target] = version']
        /\ unread' = (unread \ {source}) \cup ToRead(target)
        /\ UNCHANGED <<items, workerVars, dataVars>>
    BY DEF Rename
  <1>4. TypeOK'
    BY <1>1, <1>2, <1>3 DEF TypeOK, workerVars, dataVars
  <1>5. PoolInv' /\ PhaseInv'
    BY <1>3 DEF PoolInv, PhaseInv, workerVars, dataVars
  <1>6. UnreadExists'
    BY <1>1, <1>2, <1>3 DEF TypeOK, UnreadExists
  <1>7. NoLostChange'
    BY <1>2, <1>3 DEF NoLostChange, WillRead, workerVars, dataVars
  <1>8. QED
    BY <1>4, <1>5, <1>6, <1>7

LEMMA RemovePreserves ==
  ASSUME IInv, NEW n \in Names, Remove(n)
  PROVE  IInv'
  <1> USE DEF IInv
  <1>1. last' \in [Files -> {"none", "write", "delete"}]
    BY NameParts DEF TypeOK, Remove
  <1>2. TypeOK'
    BY <1>1 DEF TypeOK, Remove, workerVars, dataVars
  <1>3. PoolInv' /\ PhaseInv'
    BY DEF PoolInv, PhaseInv, Remove, workerVars, dataVars
  <1>4. UnreadExists'
    BY DEF TypeOK, UnreadExists, Remove
  <1>5. NoLostChange'
    BY DEF NoLostChange, WillRead, Remove, workerVars, dataVars
  <1>6. QED
    BY <1>2, <1>3, <1>4, <1>5

(* The observer moves a name from the events to the queue, where a name    *)
(* that is already queued stays. *)
LEMMA ObserverPreserves ==
  ASSUME IInv, Observer
  PROVE  IInv'
  <1> USE DEF IInv
  <1>1. /\ events' \in Seq(Reports) /\ Head(events) \in Reports
        /\ Range(events) \subseteq {Head(events)} \cup Range(events')
    BY RangeOfTail DEF TypeOK, Observer
  <1>2. /\ items' \in Seq(Reports)
        /\ Range(items') = Range(items) \cup {Head(events)}
    <2>1. CASE Head(events) \in Range(items)
      BY <2>1 DEF TypeOK, Observer, Manager!Queue!Pushed,
                  Manager!Queue!Range, Range
    <2>2. CASE Head(events) \notin Range(items)
      <3>1. items' = Append(items, Head(events))
        BY <2>2 DEF Observer, Manager!Queue!Pushed, Manager!Queue!Range, Range
      <3>2. QED
        BY <1>1, <3>1, RangeOfAppend DEF TypeOK
    <2>3. QED
      BY <2>1, <2>2
  <1>3. TypeOK'
    BY <1>1, <1>2 DEF TypeOK, Observer, userVars, workerVars, dataVars
  <1>4. PoolInv' /\ PhaseInv' /\ UnreadExists'
    BY DEF PoolInv, PhaseInv, UnreadExists, Observer, userVars, workerVars,
           dataVars
  <1>5. NoLostChange'
    BY <1>1, <1>2 DEF NoLostChange, WillRead, Observer, workerVars, dataVars
  <1>6. QED
    BY <1>3, <1>4, <1>5

(* The loop: a name passes from the queue to the worker that takes it. *)
LEMMA WorkerLoopsPreserves ==
  ASSUME IInv, NEW w \in Workers,
         WorkerLoops(w) \/ WorkerDrops(w) \/ WorkerTakes(w)
  PROVE  IInv'
  <1> USE DEF IInv, Manager!WorkerGoes, Manager!mainVars, Manager!queueVars,
              userVars, dataVars
  <1>1. CASE WorkerTakes(w)
    <2>1. /\ workerPc[w] = "get" /\ workerPc' = [workerPc EXCEPT ![w] = "plugins"]
          /\ plugin' = [plugin EXCEPT ![w] = 1]
          /\ items # <<>> /\ items' = Tail(items) /\ Head(items) # NoPath
          /\ got' = [got EXCEPT ![w] = Head(items)]
          /\ UNCHANGED <<closed, m_workers, m_plugins, m_shutdown, mainPc>>
      BY <1>1 DEF WorkerTakes, Manager!WorkerGet, Manager!Queue!Take
    <2>2. /\ Head(items) \in Names /\ items' \in Seq(Reports)
          /\ Range(items) \subseteq {Head(items)} \cup Range(items')
      BY <2>1, RangeOfTail DEF TypeOK, Reports
    <2>3. /\ UNCHANGED <<hot, version, last, missed, events, stage, copied, bak,
                         failed, unread>>
          /\ overtaken' \subseteq Files
      BY <1>1 DEF WorkerTakes, TypeOK
    <2>4. TypeOK'
      BY <2>1, <2>2, <2>3 DEF TypeOK
    <2>5. PoolInv' /\ PhaseInv' /\ UnreadExists'
      BY <2>1, <2>2, <2>3 DEF TypeOK, PoolInv, PhaseInv, UnreadExists
    <2>6. stage[w] = "start" /\ got[w] = NoPath
      BY <2>1 DEF PhaseInv
    <2>7. \A n \in Names : n = Head(items) => WillRead(w, n)'
      BY <2>1, <2>3, <2>6 DEF WillRead, TypeOK
    <2>8. \A v \in Workers, n \in Names : WillRead(v, n) => WillRead(v, n)'
      BY <2>1, <2>3, <2>6, PipelineAssumption DEF WillRead, TypeOK
    <2>9. NoLostChange'
      BY <2>1, <2>2, <2>3, <2>7, <2>8 DEF NoLostChange, TypeOK
    <2>10. QED
      BY <2>4, <2>5, <2>9
  <1>2. CASE WorkerLoops(w)
    <2>1. /\ UNCHANGED <<hot, version, last, overtaken, missed, events, items,
                         got, stage, copied, bak, failed, unread, plugin, closed,
                         m_workers, m_plugins, m_shutdown, mainPc>>
          /\ \/ workerPc[w] = "test" /\ workerPc' = [workerPc EXCEPT ![w] = "get"]
             \/ workerPc[w] = "get" /\ workerPc' = [workerPc EXCEPT ![w] = "test"]
             \/ /\ workerPc[w] = "plugins"
                /\ workerPc' = [workerPc EXCEPT ![w] = "backup"]
      BY <1>2 DEF WorkerLoops, PoolInv, Manager!WorkerTest,
                  Manager!WorkerGetNothing, Manager!PluginsDone
    <2>2. TypeOK' /\ PoolInv' /\ UnreadExists'
      BY <2>1 DEF TypeOK, PoolInv, UnreadExists
    <2>3. PhaseInv'
      BY <2>1 DEF TypeOK, PhaseInv
    <2>4. NoLostChange'
      BY <2>1 DEF NoLostChange, WillRead
    <2>5. QED
      BY <2>2, <2>3, <2>4
  <1>3. CASE WorkerDrops(w)
    <2>1. /\ workerPc[w] = "get" /\ workerPc' = [workerPc EXCEPT ![w] = "test"]
          /\ items # <<>> /\ items' = Tail(items) /\ Head(items) = NoPath
          /\ got[w] = NoPath /\ got' = [got EXCEPT ![w] = NoPath]
          /\ UNCHANGED <<hot, version, last, overtaken, missed, events, stage,
                         copied, bak, failed, unread, plugin, closed,
                         m_workers, m_plugins, m_shutdown, mainPc>>
      BY <1>3 DEF WorkerDrops, Manager!WorkerGetEmpty, Manager!Queue!Take
    <2>2. /\ items' \in Seq(Reports)
          /\ Range(items) \subseteq {NoPath} \cup Range(items')
      BY <2>1, RangeOfTail DEF TypeOK
    <2>3. got' = got
      BY <2>1 DEF TypeOK
    <2>4. TypeOK' /\ PoolInv' /\ UnreadExists'
      BY <2>1, <2>2, <2>3 DEF TypeOK, PoolInv, UnreadExists
    <2>5. PhaseInv'
      BY <2>1, <2>3 DEF TypeOK, PhaseInv
    <2>6. NoLostChange'
      BY <2>1, <2>2, <2>3, PipelineAssumption DEF NoLostChange, WillRead, TypeOK
    <2>7. QED
      BY <2>4, <2>5, <2>6
  <1>4. QED
    BY <1>1, <1>2, <1>3

(* A worker that is done with its name, had nothing left to come to, or    *)
(* has failed to: the common part of every way out of execute() and        *)
(* backup_file().                                                          *)
LEMMA EndPreserves ==
  ASSUME IInv, NEW w \in Workers,
         Manager!PluginEnds(w) \/ Manager!BackupEnds(w),
         \/ UNCHANGED unread /\ stage[w] \notin {"start", "open"}
         \/ UNCHANGED unread /\ hot[got[w]] = Absent
         \/ unread' = unread \ {got[w]},
         stage' \in [Workers -> Stages], stage'[w] = "start",
         \A v \in Workers \ {w} :
           stage[v] \in {"start", "open"} => stage'[v] = stage[v],
         bak' \in [Files -> {Absent, Torn} \cup Versions],
         failed' \subseteq Files,
         UNCHANGED <<userVars, events, copied>>
  PROVE  IInv'
  <1> USE DEF IInv, userVars
  <1>1. /\ workerPc[w] \in {"plugins", "backup"}
        /\ workerPc' = [workerPc EXCEPT ![w] = "test"]
        /\ got' = [got EXCEPT ![w] = NoPath]
        /\ UNCHANGED <<items, plugin, closed, m_workers, m_plugins, m_shutdown,
                       mainPc>>
    BY DEF Manager!PluginEnds, Manager!BackupEnds, Manager!WorkerGoes,
           Manager!mainVars, Manager!Queue!Release
  <1>2. TypeOK' /\ PoolInv' /\ UnreadExists'
    BY <1>1 DEF TypeOK, PoolInv, UnreadExists
  <1>3. PhaseInv'
    BY <1>1 DEF TypeOK, PhaseInv
  <1>4. unread' \subseteq unread /\ \A n \in unread' : ~WillRead(w, n)
    BY DEF WillRead, UnreadExists
  <1>5. \A v \in Workers \ {w} : \A n : WillRead(v, n) => WillRead(v, n)'
    BY <1>1 DEF TypeOK, WillRead
  <1>6. NoLostChange'
    BY <1>1, <1>4, <1>5 DEF NoLostChange
  <1>7. QED
    BY <1>2, <1>3, <1>6

(* A step within execute() or backup_file() that keeps every name that is  *)
(* still to be read in the hands of its worker. *)
LEMMA StagePreserves ==
  ASSUME IInv, NEW w \in Workers, NEW to \in Stages,
         workerPc[w] \in {"plugins", "backup"},
         stage' = [stage EXCEPT ![w] = to],
         \/ to \in {"start", "open"} /\ UNCHANGED <<hot, unread>>
         \/ /\ unread' = unread \ {got[w]}
            /\ hot' \in [Names -> {Absent} \cup Versions]
            /\ \A n \in Names \ {got[w]} : hot'[n] = hot[n]
         \/ stage[w] \notin {"start", "open"} /\ UNCHANGED <<hot, unread>>,
         copied' \in [Workers -> {Absent} \cup Versions],
         bak' \in [Files -> {Absent, Torn} \cup Versions],
         UNCHANGED <<version, last, overtaken, missed, events, items,
                     workerVars, failed>>
  PROVE  IInv'
  <1> USE DEF IInv, workerVars
  <1>1. TypeOK' /\ PoolInv' /\ UnreadExists'
    BY DEF TypeOK, PoolInv, UnreadExists
  <1>2. PhaseInv'
    BY DEF TypeOK, PhaseInv
  <1>3. \A v \in Workers, n \in unread' : WillRead(v, n) => WillRead(v, n)'
    BY DEF TypeOK, WillRead
  <1>4. NoLostChange'
    BY <1>3 DEF NoLostChange
  <1>5. QED
    BY <1>1, <1>2, <1>4

(* Every step of a worker preserves the inductive invariant. *)
LEMMA WorkerPreserves ==
  ASSUME IInv, NEW w \in Workers, WorkerSucceeds(w) \/ WorkerFails(w)
  PROVE  IInv'
  <1> USE DEF IInv
  <1> DEFINE f == File(got[w])
  <1>1. ASSUME workerPc[w] \in {"plugins", "backup"}
        PROVE  got[w] \in Names /\ f \in Files
    BY <1>1, NameParts DEF PhaseInv
  <1>2. CASE WorkerLoops(w) \/ WorkerDrops(w) \/ WorkerTakes(w)
    BY <1>2, WorkerLoopsPreserves
  <1>3. CASE PluginIgnores(w)
    <2>1. /\ plugin[w] \in {1, 2} /\ plugin[w] <= Len(m_plugins)
          /\ plugin' = [plugin EXCEPT ![w] = plugin[w] + 1]
          /\ workerPc[w] = "plugins"
          /\ UNCHANGED <<workerPc, items, got, closed, m_workers, m_plugins,
                         m_shutdown, mainPc>>
      BY <1>3 DEF PluginIgnores, Manager!PluginContinues, Manager!mainVars,
                  Manager!queueVars, TypeOK
    <2>2. Len(m_plugins) = 1
      BY DEF PoolInv
    <2>3. plugin' = [plugin EXCEPT ![w] = 2]
      <3>1. plugin[w] = 1
        BY <2>1, <2>2
      <3>2. plugin[w] + 1 = 2
        BY <3>1
      <3>3. QED
        BY <2>1, <3>2, Zenon
    <2>4. TypeOK' /\ PoolInv' /\ PhaseInv' /\ UnreadExists' /\ NoLostChange'
      BY <1>3, <2>1, <2>3
      DEF PluginIgnores, TypeOK, PoolInv, PhaseInv, UnreadExists,
          NoLostChange, WillRead, userVars, dataVars
    <2>5. QED
      BY <2>4
  <1>4. CASE DeleteAbsent(w)
    BY <1>4, EndPreserves DEF DeleteAbsent, TypeOK, dataVars
  <1>5. CASE DeleteSource(w)
    <2>1. got[w] \in Names
      BY <1>1, <1>5 DEF DeleteSource, AtDelete
    <2>2. /\ hot' \in [Names -> {Absent} \cup Versions]
          /\ \A n \in Names \ {got[w]} : hot'[n] = hot[n]
      BY <1>5, <2>1 DEF DeleteSource, TypeOK
    <2>3. QED
      BY <1>5, <2>1, <2>2, StagePreserves
      DEF DeleteSource, AtDelete, Stage, Stages, TypeOK
  <1>6. CASE DeleteBackup(w)
    <2>1. f \in Files
      BY <1>1, <1>6 DEF DeleteBackup, AtDelete
    <2>2. bak' \in [Files -> {Absent, Torn} \cup Versions] /\ failed' \subseteq Files
      BY <1>6, <2>1 DEF DeleteBackup, TypeOK
    <2>3. /\ stage' \in [Workers -> Stages] /\ stage'[w] = "start"
          /\ \A v \in Workers \ {w} :
               stage[v] \in {"start", "open"} => stage'[v] = stage[v]
          /\ stage[w] = "erase"
      BY <1>6 DEF DeleteBackup, TypeOK, Stages
    <2>4. QED
      BY <1>6, <2>2, <2>3, EndPreserves DEF DeleteBackup
  <1>7. CASE BackupChecks(w)
    BY <1>7, StagePreserves DEF BackupChecks, AtBackup, Stage, Stages, userVars,
                                TypeOK
  <1>8. CASE BackupThrows(w)
    <2>1. /\ stage' \in [Workers -> Stages] /\ stage'[w] = "start"
          /\ \A v \in Workers \ {w} : stage'[v] = stage[v]
      BY <1>8 DEF BackupThrows, Ends, TypeOK, Stages
    <2>2. QED
      BY <1>8, <2>1, EndPreserves DEF BackupThrows, TypeOK
  <1>9. CASE CopyOpens(w)
    <2>1. got[w] \in Names
      BY <1>1, <1>9 DEF CopyOpens, AtBackup
    <2>2. copied' \in [Workers -> {Absent} \cup Versions]
      BY <1>9, <2>1 DEF CopyOpens, TypeOK
    <2>3. QED
      BY <1>9, <2>2, StagePreserves DEF CopyOpens, AtBackup, Stage, Stages,
                                        userVars, TypeOK
  <1>10. CASE CopyTruncates(w)
    <2>1. bak' \in [Files -> {Absent, Torn} \cup Versions]
      BY <1>10, <1>1 DEF CopyTruncates, AtBackup, TypeOK
    <2>2. QED
      BY <1>10, <2>1, StagePreserves DEF CopyTruncates, AtBackup, Stage, Stages,
                                         userVars, TypeOK
  <1>11. CASE CopyWrites(w)
    <2>1. got[w] \in Names /\ f \in Files
      BY <1>1, <1>11 DEF CopyWrites, Manager!BackupEnds, Manager!WorkerGoes
    <2>2. Readable(w) \subseteq {Absent, Torn} \cup Versions
      BY <2>1 DEF Readable, TypeOK
    <2>3. \A content : Written(f, content) \subseteq {content, Torn}
      BY DEF Written
    <2>4. bak' \in [Files -> {Absent, Torn} \cup Versions]
      BY <1>11, <2>1, <2>2, <2>3 DEF CopyWrites, TypeOK
    <2>5. QED
      BY <1>11, <2>4, EndPreserves DEF CopyWrites, Ends, Stages, TypeOK
  <1>12. CASE CopyWritesOrphan(w)
    BY <1>12, EndPreserves DEF CopyWritesOrphan, Ends, Stages, TypeOK
  <1>13. CASE CopyFails(w)
    <2>1. f \in Files
      BY <1>1, <1>13 DEF CopyFails, Manager!BackupEnds, Manager!WorkerGoes
    <2>2. QED
      BY <1>13, <2>1, EndPreserves DEF CopyFails, Ends, Stages, TypeOK
  <1>14. CASE DeleteThrows(w)
    <2>1. f \in Files
      BY <1>1, <1>14 DEF DeleteThrows, AtDelete
    <2>2. QED
      BY <1>14, <2>1, EndPreserves DEF DeleteThrows, Ends, Stages, TypeOK
  <1>15. QED
    BY <1>2, <1>3, <1>4, <1>5, <1>6, <1>7, <1>8, <1>9, <1>10, <1>11, <1>12,
       <1>13, <1>14 DEF WorkerSucceeds, WorkerFails

LEMMA NextIInv == IInv /\ [Next]_vars => IInv'
  <1> SUFFICES ASSUME IInv, [Next]_vars PROVE IInv'
    OBVIOUS
  <1>1. CASE UNCHANGED vars
    BY <1>1 DEF vars, userVars, workerVars, dataVars, IInv, TypeOK, PoolInv,
                PhaseInv, UnreadExists, NoLostChange, WillRead
  <1>2. CASE User
    BY <1>2, WritePreserves, RenamePreserves, RemovePreserves DEF User
  <1>3. QED
    BY <1>1, <1>2, ObserverPreserves, WorkerPreserves DEF Next

THEOREM InductiveInvariant == SafeSpec => []IInv
  BY InitIInv, NextIInv, PTL DEF SafeSpec

(* Names, contents and program counters stay in their types.               *)
THEOREM TypeCorrect == SafeSpec => []TypeOK
  BY InductiveInvariant, PTL DEF IInv

(* However many workers there are, deduplication loses no change: a name   *)
(* leaves the queue before its file is looked at. *)
THEOREM NoChangeIsLost == SafeSpec => []NoLostChange
  BY InductiveInvariant, PTL DEF IInv

(* The pipeline's threads do to the manager and its queue what these are   *)
(* specified to do: the observer pushes or finds the name queued, and what *)
(* a worker does to the files goes with a step of its loop, or with none.  *)
LEMMA NextUsesManager ==
  IInv /\ [Next]_vars => [Manager!Next]_(Manager!managerVars)
  <1> SUFFICES ASSUME IInv, [Next]_vars
               PROVE  Manager!Next \/ UNCHANGED <<items, workerVars>>
    BY DEF Manager!managerVars, Manager!mainVars, Manager!workerVars,
           Manager!queueVars, workerVars
  <1>1. CASE User \/ UNCHANGED vars
    BY <1>1 DEF User, Write, Rename, Remove, vars
  <1>2. CASE Observer
    <2>1. /\ Head(events) \in Reports /\ UNCHANGED workerVars
          /\ items' = Manager!Queue!Pushed(items, Head(events))
      BY <1>2 DEF Observer, IInv, TypeOK
    <2>2. CASE Head(events) \in Manager!Queue!Range(items)
      BY <2>1, <2>2 DEF Manager!Queue!Pushed
    <2>3. CASE Head(events) \notin Manager!Queue!Range(items)
      <3>1. Manager!Queue!Push(Head(events))
        BY <2>1, <2>3 DEF Manager!Queue!Push, workerVars
      <3>2. Manager!QueueNext
        BY <2>1, <3>1 DEF Manager!QueueNext, Manager!mainVars,
                          Manager!workerVars, workerVars
      <3>3. QED
        BY <3>2 DEF Manager!Next
    <2>4. QED
      BY <2>2, <2>3
  <1>3. ASSUME NEW w \in Workers, WorkerSucceeds(w) \/ WorkerFails(w)
        PROVE  Manager!WorkerNext(w) \/ UNCHANGED <<items, workerVars>>
    BY <1>3 DEF WorkerSucceeds, WorkerFails, CopyFails, DeleteThrows,
       WorkerLoops, WorkerDrops, WorkerTakes, PluginIgnores, DeleteAbsent, DeleteSource, DeleteBackup, BackupChecks,
       BackupThrows, CopyOpens, CopyTruncates, CopyWrites, CopyWritesOrphan,
       Manager!WorkerNext
  <1>4. QED
    BY <1>1, <1>2, <1>3 DEF Next, Manager!Next

(* The pipeline composes the manager and the queue as they are specified   *)
(* and proved on their own: every step of it is one of BackupManager, or   *)
(* leaves the manager and the queue alone.                                 *)
THEOREM PipelineUsesManager ==
  SafeSpec => [][Manager!Next]_(Manager!managerVars)
  BY InductiveInvariant, NextUsesManager, PTL DEF SafeSpec

-----------------------------------------------------------------------------
(* What the backups hold in the end: the invariant *)

Plain(f)  == <<"plain", f>>
Delete(f) == <<"delete", f>>

(* The name of the user's last request for file f. *)
Latest(f) == IF last[f] = "delete" THEN Delete(f) ELSE Plain(f)

Pending == Range(items) \cup Range(events)

(* Nothing is pending that would undo the last request for f. *)
Final(f) == Other(Latest(f)) \notin Pending

(* In sequence q, name n is behind all that is there for its other name.   *)
Behind(q, n) == \A i, j \in 1 .. Len(q) : q[i] = n /\ q[j] = Other(n) => j < i

(* Where a worker can be with a request for a deletion, and where with a   *)
(* request for a backup. *)
StageInv ==
  \A w \in Workers :
    /\ workerPc[w] = "plugins" =>
         IF IsDeleteRequest(got[w])
         THEN plugin[w] = 1 /\ stage[w] \in {"start", "erase"}
         ELSE stage[w] = "start"
    /\ workerPc[w] = "backup" =>
         ~IsDeleteRequest(got[w]) /\ stage[w] # "erase"

(* Finitely many workers serve a file, so that they can be counted: each   *)
(* of them has taken a name. *)
FiniteInv == \A f \in Files : IsFiniteSet(Serving(f))

(* A file that is neither overtaken nor missed has one worker at most, ... *)
Sole(f) == \A v, w \in Serving(f) : v = w

(* ... its last request comes last, ...                                    *)
LatestIsLast(f) == last[f] # "none" => Behind(Backlog, Latest(f))

(* ... a deletion is pending together with the file it renamed, or its     *)
(* worker has yet to erase the backup and nothing comes behind it, or it   *)
(* is done for good or has failed, ...                                     *)
Deleting(w, f) ==
  got[w] = Delete(f) /\ (stage[w] = "erase" \/ hot[Delete(f)] # Absent)

DeletionComes(f) ==
  last[f] = "delete" =>
    /\ \A w \in Workers : WillRead(w, Delete(f)) => Final(f)
    /\ \/ hot[Delete(f)] # Absent /\ Delete(f) \in Pending
       \/ Final(f) /\ \E w \in Workers : Deleting(w, f)
       \/ /\ Final(f) /\ (bak[f] = Absent \/ f \in failed)
          /\ \A w \in Workers : got[w] # Plain(f)

(* ... and a backup is pending, or its worker has yet to read the file or  *)
(* has read what it holds, or it is done for good.                         *)
Copying(w, f) ==
  /\ got[w] = Plain(f)
  /\ \/ stage[w] \in {"start", "open"}
     \/ stage[w] = "truncate" /\ copied[w] = hot[Plain(f)]
     \/ stage[w] = "write" /\ copied[w] = hot[Plain(f)] /\ bak[f] = Torn

BackupComes(f) ==
  last[f] = "write" /\ hot[Plain(f)] # Absent =>
    \/ Plain(f) \in Pending
    \/ Final(f) /\ \E w \in Workers : Copying(w, f)
    \/ /\ Final(f) /\ Serving(f) = {}
       /\ bak[f] = hot[Plain(f)] \/ f \in failed

InOrder(f) ==
  f \notin overtaken \cup missed =>
    Sole(f) /\ LatestIsLast(f) /\ DeletionComes(f) /\ BackupComes(f)

OrderInv == \A f \in Files : InOrder(f)

AllInv == IInv /\ StageInv /\ FiniteInv /\ OrderInv

-----------------------------------------------------------------------------
(* The order of the names in a sequence *)

(* The backlog holds what is queued, then what is reported. *)
LEMMA BacklogParts ==
  ASSUME NEW q \in Seq(Reports), NEW e \in Seq(Reports)
  PROVE  /\ q \o e \in Seq(Reports)
         /\ Len(q \o e) = Len(q) + Len(e) /\ Len(q) \in Nat /\ Len(e) \in Nat
         /\ \A i \in 1 .. Len(q) : (q \o e)[i] = q[i]
         /\ \A i \in 1 .. Len(e) : (q \o e)[Len(q) + i] = e[i]
         /\ \A i \in 1 .. Len(q) + Len(e) :
              i \in 1 .. Len(q)
                \/ \E k \in 1 .. Len(e) : i = Len(q) + k /\ (q \o e)[i] = e[k]
  <1>1. /\ q \o e \in Seq(Reports) /\ Len(q \o e) = Len(q) + Len(e)
        /\ Len(q) \in Nat /\ Len(e) \in Nat
    BY ConcatProperties
  <1>2. \A i \in 1 .. Len(q) + Len(e) :
          (q \o e)[i] = IF i <= Len(q) THEN q[i] ELSE e[i - Len(q)]
    BY ConcatProperties
  <1>3. \A i \in 1 .. Len(q) : (q \o e)[i] = q[i]
    BY <1>1, <1>2
  <1>4. \A i \in 1 .. Len(e) : (q \o e)[Len(q) + i] = e[i]
    <2> SUFFICES ASSUME NEW i \in 1 .. Len(e)
                 PROVE  (q \o e)[Len(q) + i] = e[i]
      OBVIOUS
    <2>1. /\ Len(q) + i \in 1 .. Len(q) + Len(e) /\ ~(Len(q) + i <= Len(q))
          /\ (Len(q) + i) - Len(q) = i
      BY <1>1
    <2>2. QED
      BY <1>2, <2>1
  <1>5. ASSUME NEW i \in 1 .. Len(q) + Len(e), i \notin 1 .. Len(q)
        PROVE  \E k \in 1 .. Len(e) : i = Len(q) + k /\ (q \o e)[i] = e[k]
    <2>1. i - Len(q) \in 1 .. Len(e) /\ i = Len(q) + (i - Len(q))
      BY <1>1, <1>5
    <2>2. (q \o e)[i] = e[i - Len(q)]
      BY <1>1, <1>2, <1>5
    <2>3. QED
      BY <2>1, <2>2
  <1>6. QED
    BY <1>1, <1>3, <1>4, <1>5

LEMMA RangeOfBacklog ==
  ASSUME NEW q \in Seq(Reports), NEW e \in Seq(Reports), NEW n
  PROVE  n \in Range(q) \cup Range(e)
           <=> \E i \in 1 .. Len(q \o e) : (q \o e)[i] = n
  <1>1. DOMAIN q = 1 .. Len(q) /\ DOMAIN e = 1 .. Len(e)
    OBVIOUS
  <1>2. \A i \in 1 .. Len(q) : i \in 1 .. Len(q) + Len(e)
    BY BacklogParts
  <1>3. \A i \in 1 .. Len(e) : Len(q) + i \in 1 .. Len(q) + Len(e)
    BY BacklogParts
  <1>4. Len(q \o e) = Len(q) + Len(e)
    BY BacklogParts
  <1>5. ASSUME n \in Range(q) PROVE \E i \in 1 .. Len(q \o e) : (q \o e)[i] = n
    <2>1. PICK i \in 1 .. Len(q) : q[i] = n
      BY <1>1, <1>5 DEF Range
    <2>2. QED
      <3>1. (q \o e)[i] = n
        BY <2>1, BacklogParts
      <3>2. QED
        BY <1>2, <1>4, <3>1
  <1>6. ASSUME n \in Range(e) PROVE \E i \in 1 .. Len(q \o e) : (q \o e)[i] = n
    <2>1. PICK i \in 1 .. Len(e) : e[i] = n
      BY <1>1, <1>6 DEF Range
    <2>2. QED
      <3>1. (q \o e)[Len(q) + i] = n
        BY <2>1, BacklogParts
      <3>2. QED
        BY <1>3, <1>4, <3>1
  <1>7. ASSUME NEW i \in 1 .. Len(q \o e), (q \o e)[i] = n
        PROVE  n \in Range(q) \cup Range(e)
    <2>1. CASE i \in 1 .. Len(q)
      <3>1. q[i] = n
        BY <1>7, <2>1, BacklogParts
      <3>2. QED
        BY <1>1, <2>1, <3>1 DEF Range
    <2>2. CASE i \notin 1 .. Len(q)
      <3>1. PICK k \in 1 .. Len(e) : (q \o e)[i] = e[k]
        <4>1. i \in 1 .. Len(q) + Len(e)
          BY <1>4
        <4>2. QED
          BY <2>2, <4>1, BacklogParts
      <3>2. QED
        BY <1>1, <1>7, <3>1 DEF Range
    <2>3. QED
      BY <2>1, <2>2
  <1>8. QED
    BY <1>5, <1>6, <1>7

LEMMA PendingBacklog ==
  ASSUME items \in Seq(Reports), events \in Seq(Reports), NEW n
  PROVE  n \in Pending <=> \E i \in 1 .. Len(Backlog) : Backlog[i] = n
  BY RangeOfBacklog DEF Pending, Backlog

(* A name that is reported comes last, if nothing for it was pending in    *)
(* front of its other name; the order of the names of other files stays.   *)
LEMMA BehindReport ==
  ASSUME NEW q \in Seq(Reports), NEW e \in Seq(Reports), NEW x \in Reports,
         NEW n \in Names, Behind(q \o e, n), x # Other(n)
  PROVE  Behind(q \o Append(e, x), n)
  <1> DEFINE b == q \o e
             c == q \o Append(e, x)
  <1>1. /\ Append(e, x) \in Seq(Reports) /\ Len(Append(e, x)) = Len(e) + 1
        /\ \A i \in 1 .. Len(e) : Append(e, x)[i] = e[i]
        /\ Append(e, x)[Len(e) + 1] = x
    OBVIOUS
  <1>2. /\ Len(b) = Len(q) + Len(e) /\ Len(c) = Len(b) + 1 /\ Len(b) \in Nat
        /\ Len(q) \in Nat /\ Len(e) \in Nat
    BY <1>1, BacklogParts
  <1>3. \A i \in 1 .. Len(b) : c[i] = b[i]
    <2> SUFFICES ASSUME NEW i \in 1 .. Len(b) PROVE c[i] = b[i]
      OBVIOUS
    <2>1. CASE i \in 1 .. Len(q)
      BY <1>1, <2>1, BacklogParts
    <2>2. CASE i \notin 1 .. Len(q)
      <3>1. PICK k \in 1 .. Len(e) : i = Len(q) + k /\ b[i] = e[k]
        BY <1>2, <2>2, BacklogParts
      <3>2. k \in 1 .. Len(Append(e, x))
        BY <1>1, <1>2
      <3>3. c[i] = Append(e, x)[k]
        BY <1>1, <3>1, <3>2, BacklogParts
      <3>4. QED
        BY <1>1, <3>1, <3>3
    <2>3. QED
      BY <2>1, <2>2
  <1>4. c[Len(b) + 1] = x
    <2>1. Len(e) + 1 \in 1 .. Len(Append(e, x))
      BY <1>1, <1>2
    <2>2. c[Len(q) + (Len(e) + 1)] = Append(e, x)[Len(e) + 1]
      BY <1>1, <2>1, BacklogParts
    <2>3. Len(q) + (Len(e) + 1) = Len(b) + 1
      BY <1>2
    <2>4. QED
      BY <1>1, <2>2, <2>3
  <1>5. ASSUME NEW i \in 1 .. Len(c), NEW j \in 1 .. Len(c),
               c[i] = n, c[j] = Other(n)
        PROVE  j < i
    <2>1. j # Len(b) + 1
      BY <1>4, <1>5
    <2>2. j \in 1 .. Len(b)
      BY <1>2, <2>1
    <2>3. CASE i = Len(b) + 1
      BY <1>2, <2>2, <2>3
    <2>4. CASE i \in 1 .. Len(b)
      BY <1>3, <1>5, <2>2, <2>4 DEF Behind
    <2>5. QED
      BY <1>2, <2>3, <2>4
  <1>6. QED
    BY <1>5 DEF Behind

(* The order stays when names are left out. *)
LEMMA BehindPart ==
  ASSUME NEW b \in Seq(Reports), NEW c \in Seq(Reports), NEW n, Behind(b, n),
         NEW at \in [1 .. Len(c) -> 1 .. Len(b)],
         \A i \in 1 .. Len(c) : c[i] = b[at[i]],
         \A i, j \in 1 .. Len(c) : i <= j => at[i] <= at[j]
  PROVE  Behind(c, n)
  <1> SUFFICES ASSUME NEW i \in 1 .. Len(c), NEW j \in 1 .. Len(c),
                      c[i] = n, c[j] = Other(n)
               PROVE  j < i
    BY DEF Behind
  <1>1. at[i] \in 1 .. Len(b) /\ at[j] \in 1 .. Len(b)
    OBVIOUS
  <1>2. b[at[i]] = n /\ b[at[j]] = Other(n)
    OBVIOUS
  <1>3. at[j] < at[i]
    BY <1>1, <1>2 DEF Behind
  <1>4. CASE i <= j
    <2>1. at[i] <= at[j]
      BY <1>4
    <2>2. QED
      BY <1>1, <1>3, <2>1
  <1>5. QED
    BY <1>4

(* Taking the first name keeps the order of the others, ...                *)
LEMMA BehindTake ==
  ASSUME NEW q \in Seq(Reports), NEW e \in Seq(Reports), q # <<>>,
         NEW n \in Names, Behind(q \o e, n)
  PROVE  Behind(Tail(q) \o e, n)
  <1> DEFINE b == q \o e
             c == Tail(q) \o e
  <1>1. /\ Tail(q) \in Seq(Reports) /\ Len(Tail(q)) = Len(q) - 1
        /\ Len(q) \in Nat /\ Len(q) > 0 /\ Len(e) \in Nat
        /\ \A i \in 1 .. Len(q) - 1 : Tail(q)[i] = q[i + 1]
    OBVIOUS
  <1>2. /\ b \in Seq(Reports) /\ c \in Seq(Reports)
        /\ Len(b) = Len(q) + Len(e) /\ Len(c) = Len(b) - 1
    BY <1>1, BacklogParts
  <1>3. ASSUME NEW i \in 1 .. Len(c) PROVE c[i] = b[i + 1]
    <2>1. CASE i \in 1 .. Len(Tail(q))
      <3>1. c[i] = Tail(q)[i] /\ i + 1 \in 1 .. Len(q)
        BY <1>1, <2>1, BacklogParts
      <3>2. QED
        BY <1>1, <2>1, <3>1, BacklogParts
    <2>2. CASE i \notin 1 .. Len(Tail(q))
      <3>1. PICK k \in 1 .. Len(e) : i = Len(Tail(q)) + k /\ c[i] = e[k]
        BY <1>1, <1>2, <1>3, <2>2, BacklogParts
      <3>2. b[Len(q) + k] = e[k]
        BY BacklogParts
      <3>3. Len(q) + k = i + 1
        BY <1>1, <3>1
      <3>4. QED
        BY <3>1, <3>2, <3>3
    <2>3. QED
      BY <2>1, <2>2
  <1> DEFINE at == [i \in 1 .. Len(c) |-> i + 1]
  <1>4. at \in [1 .. Len(c) -> 1 .. Len(b)]
    BY <1>1, <1>2
  <1>5. \A i \in 1 .. Len(c) : c[i] = b[at[i]]
    BY <1>3
  <1>6. \A i, j \in 1 .. Len(c) : i <= j => at[i] <= at[j]
    OBVIOUS
  <1> HIDE DEF at, b, c
  <1>7. QED
    BY <1>2, <1>4, <1>5, <1>6, BehindPart DEF b, c

(* ... and so does a report that queues nothing, ...                       *)
LEMMA BehindDuplicate ==
  ASSUME NEW q \in Seq(Reports), NEW e \in Seq(Reports), e # <<>>,
         NEW n \in Names, Behind(q \o e, n)
  PROVE  Behind(q \o Tail(e), n)
  <1> DEFINE b == q \o e
             c == q \o Tail(e)
  <1>1. /\ Tail(e) \in Seq(Reports) /\ Len(Tail(e)) = Len(e) - 1
        /\ Len(e) \in Nat /\ Len(e) > 0 /\ Len(q) \in Nat
        /\ \A i \in 1 .. Len(e) - 1 : Tail(e)[i] = e[i + 1]
    OBVIOUS
  <1>2. /\ b \in Seq(Reports) /\ c \in Seq(Reports)
        /\ Len(b) = Len(q) + Len(e) /\ Len(c) = Len(b) - 1
    BY <1>1, BacklogParts
  <1> DEFINE at == [i \in 1 .. Len(c) |-> IF i <= Len(q) THEN i ELSE i + 1]
  <1>3. ASSUME NEW i \in 1 .. Len(c) PROVE c[i] = b[at[i]]
    <2>1. CASE i \in 1 .. Len(q)
      <3>1. c[i] = q[i] /\ at[i] = i
        BY <1>1, <2>1, BacklogParts
      <3>2. QED
        BY <2>1, <3>1, BacklogParts
    <2>2. CASE i \notin 1 .. Len(q)
      <3>1. PICK k \in 1 .. Len(Tail(e)) : i = Len(q) + k /\ c[i] = Tail(e)[k]
        <4>1. i \in 1 .. Len(q) + Len(Tail(e))
          BY <1>1, <1>2, <1>3
        <4>2. \A m \in 1 .. Len(q) + Len(Tail(e)) :
                m \in 1 .. Len(q)
                  \/ \E k \in 1 .. Len(Tail(e)) :
                       m = Len(q) + k /\ c[m] = Tail(e)[k]
          BY <1>1, BacklogParts
        <4>3. QED
          BY <2>2, <4>1, <4>2
      <3>2. Tail(e)[k] = e[k + 1] /\ k + 1 \in 1 .. Len(e)
        BY <1>1
      <3>3. b[Len(q) + (k + 1)] = e[k + 1]
        BY <3>2, BacklogParts
      <3>4. at[i] = Len(q) + (k + 1)
        BY <1>1, <3>1
      <3>5. QED
        BY <3>1, <3>2, <3>3, <3>4
    <2>3. QED
      BY <2>1, <2>2
  <1>4. at \in [1 .. Len(c) -> 1 .. Len(b)]
    BY <1>1, <1>2
  <1>5. \A i, j \in 1 .. Len(c) : i <= j => at[i] <= at[j]
    BY <1>1
  <1> HIDE DEF at, b, c
  <1>6. QED
    BY <1>2, <1>3, <1>4, <1>5, BehindPart DEF b, c

(* ... while one that queues its name leaves the backlog as it is.         *)
LEMMA BehindQueued ==
  ASSUME NEW q \in Seq(Reports), NEW e \in Seq(Reports), e # <<>>,
         NEW n \in Names, Behind(q \o e, n)
  PROVE  Behind(Append(q, Head(e)) \o Tail(e), n)
  <1> DEFINE r == Append(q, Head(e))
             b == q \o e
             c == r \o Tail(e)
  <1>1. /\ Tail(e) \in Seq(Reports) /\ Len(Tail(e)) = Len(e) - 1
        /\ Len(e) \in Nat /\ Len(e) > 0 /\ Len(q) \in Nat
        /\ Head(e) = e[1] /\ Head(e) \in Reports
        /\ \A i \in 1 .. Len(e) - 1 : Tail(e)[i] = e[i + 1]
    OBVIOUS
  <1>2. /\ r \in Seq(Reports) /\ Len(r) = Len(q) + 1 /\ r[Len(q) + 1] = e[1]
        /\ \A i \in 1 .. Len(q) : r[i] = q[i]
    BY <1>1
  <1> HIDE DEF r
  <1>3. /\ b \in Seq(Reports) /\ c \in Seq(Reports)
        /\ Len(b) = Len(q) + Len(e) /\ Len(c) = Len(b)
    <2>1. b \in Seq(Reports) /\ Len(b) = Len(q) + Len(e)
      BY BacklogParts
    <2>2. c \in Seq(Reports) /\ Len(c) = Len(r) + Len(Tail(e))
      BY <1>1, <1>2, BacklogParts
    <2>3. QED
      BY <1>1, <1>2, <2>1, <2>2
  <1>4. ASSUME NEW i \in 1 .. Len(c) PROVE c[i] = b[i]
    <2>1. CASE i \in 1 .. Len(q)
      <3>1. i \in 1 .. Len(r)
        BY <1>1, <1>2, <2>1
      <3>2. QED
        BY <1>1, <1>2, <2>1, <3>1, BacklogParts
    <2>2. CASE i = Len(q) + 1
      <3>1. i \in 1 .. Len(r) /\ 1 \in 1 .. Len(e)
        BY <1>1, <1>2, <2>2
      <3>2. c[i] = e[1]
        BY <1>1, <1>2, <2>2, <3>1, BacklogParts
      <3>3. b[Len(q) + 1] = e[1]
        BY <3>1, BacklogParts
      <3>4. QED
        BY <2>2, <3>2, <3>3
    <2>3. CASE i \notin 1 .. Len(r)
      <3>1. PICK k \in 1 .. Len(Tail(e)) : i = Len(r) + k /\ c[i] = Tail(e)[k]
        <4>1. i \in 1 .. Len(r) + Len(Tail(e))
          BY <1>1, <1>2, <1>3, <1>4
        <4>2. \A m \in 1 .. Len(r) + Len(Tail(e)) :
                m \in 1 .. Len(r)
                  \/ \E k \in 1 .. Len(Tail(e)) :
                       m = Len(r) + k /\ c[m] = Tail(e)[k]
          BY <1>1, <1>2, BacklogParts
        <4>3. QED
          BY <2>3, <4>1, <4>2
      <3>2. Tail(e)[k] = e[k + 1] /\ k + 1 \in 1 .. Len(e)
        BY <1>1
      <3>3. b[Len(q) + (k + 1)] = e[k + 1]
        BY <3>2, BacklogParts
      <3>4. i = Len(q) + (k + 1)
        BY <1>1, <1>2, <3>1
      <3>5. QED
        BY <3>1, <3>2, <3>3, <3>4
    <2>4. QED
      BY <1>1, <1>2, <2>1, <2>2, <2>3
  <1> HIDE DEF b, c
  <1>5. Behind(c, n)
    BY <1>3, <1>4 DEF Behind, b
  <1>6. QED
    BY <1>5 DEF c, r

-----------------------------------------------------------------------------
(* What the backups hold in the end: the steps *)

LEMMA NameFacts ==
  /\ \A f \in Files :
       /\ Plain(f) \in Names /\ Delete(f) \in Names /\ Plain(f) # Delete(f)
       /\ File(Plain(f)) = f /\ File(Delete(f)) = f
       /\ Other(Plain(f)) = Delete(f) /\ Other(Delete(f)) = Plain(f)
       /\ ~IsDeleteRequest(Plain(f)) /\ IsDeleteRequest(Delete(f))
  /\ \A n \in Names :
       /\ File(n) \in Files /\ Other(n) \in Names
       /\ IF IsDeleteRequest(n) THEN n = Delete(File(n)) ELSE n = Plain(File(n))
  /\ NoPath \notin Names
  BY PipelineAssumption DEF Names, Plain, Delete, File, Other, IsDeleteRequest

LEMMA ServingNames ==
  ASSUME NEW f \in Files
  PROVE  Serving(f) = {w \in Workers : got[w] \in {Plain(f), Delete(f)}}
  BY NameFacts DEF Serving

LEMMA InitAll == Init => AllInv
  <1> SUFFICES ASSUME Init PROVE AllInv
    OBVIOUS
  <1>1. StageInv
    BY DEF Init, StageInv
  <1>2. \A f \in Files : Serving(f) = {}
    BY NameFacts DEF Init, Serving
  <1>3. FiniteInv
    BY <1>2, FS_EmptySet DEF FiniteInv
  <1>4. OrderInv
    BY <1>2 DEF Init, OrderInv, InOrder, Sole, LatestIsLast, DeletionComes,
                BackupComes
  <1>5. QED
    BY <1>1, <1>3, <1>4, InitIInv DEF AllInv

(* A step that does nothing to the file, its names, and the workers that   *)
(* serve it leaves it in order. *)
LEMMA InOrderFrame ==
  ASSUME TypeOK, NEW f \in Files, InOrder(f),
         f \in overtaken \cup missed => f \in overtaken' \cup missed',
         last'[f] = last[f], bak'[f] = bak[f],
         f \in failed <=> f \in failed',
         \A n \in {Plain(f), Delete(f)} :
           /\ hot'[n] = hot[n]
           /\ n \in Pending <=> n \in Pending'
           /\ Behind(items \o events, n) => Behind(items' \o events', n),
         \A v \in Workers :
           got[v] \in {Plain(f), Delete(f)} \/ got'[v] \in {Plain(f), Delete(f)}
             => got'[v] = got[v] /\ stage'[v] = stage[v] /\ copied'[v] = copied[v]
  PROVE  InOrder(f)'
  <1> SUFFICES ASSUME f \notin overtaken' \cup missed' PROVE InOrder(f)'
    BY DEF InOrder
  <1>1. Sole(f) /\ LatestIsLast(f) /\ DeletionComes(f) /\ BackupComes(f)
    BY DEF InOrder
  <1>2. Serving(f)' = Serving(f)
    BY ServingNames, NameFacts DEF Serving
  <1>3. /\ Latest(f)' = Latest(f)
        /\ Latest(f) \in {Plain(f), Delete(f)}
        /\ Other(Latest(f)) \in {Plain(f), Delete(f)}
    BY NameFacts DEF Latest
  <1>4. Final(f)' <=> Final(f)
    BY <1>3 DEF Final
  <1>5. Sole(f)'
    BY <1>1, <1>2 DEF Sole
  <1>6. LatestIsLast(f)'
    BY <1>1, <1>3 DEF LatestIsLast, Backlog
  <1>7. DeletionComes(f)'
    BY <1>1, <1>4 DEF DeletionComes, Deleting, WillRead
  <1>8. BackupComes(f)'
    BY <1>1, <1>2, <1>4 DEF BackupComes, Copying
  <1>9. QED
    BY <1>5, <1>6, <1>7, <1>8 DEF InOrder

(* The last request comes last, its name is pending, and at most one       *)
(* worker serves the file, unless the file is overtaken or missed.         *)
LEMMA RequestInOrder ==
  ASSUME IInv, FiniteInv, OrderInv, NEW n \in Names, Requested(n),
         hot'[n] # Absent,
         \A m \in Names : File(m) # File(n) => hot'[m] = hot[m],
         UNCHANGED <<items, got, stage, copied, bak, failed>>
  PROVE  OrderInv'
  <1> DEFINE f == File(n)
  <1> USE DEF IInv
  <1>1. /\ f \in Files /\ Other(n) \in Names /\ Other(n) # n
        /\ n \in {Plain(f), Delete(f)}
        /\ NoPath \notin Names
    BY NameFacts
  <1>2. /\ events \in Seq(Reports) /\ items \in Seq(Reports)
        /\ Pending \subseteq Pending'
        /\ Pending' \subseteq Pending \cup {n, NoPath}
        /\ f \in missed' \/ n \in Pending'
    BY RequestEffect DEF TypeOK, Pending
  <1>3. ASSUME NEW m \in Names, Other(m) # n, Behind(items \o events, m)
        PROVE  Behind(items \o events', m)
    <2>1. PICK x \in {n, NoPath} : events' \in {events, Append(events, x)}
      BY RequestEffect
    <2>2. x \in Reports /\ x # Other(m)
      BY <1>3, NameFacts DEF Reports
    <2>3. CASE events' = Append(events, x)
      BY <1>2, <1>3, <2>2, <2>3, BehindReport
    <2>4. CASE events' = events
      BY <1>3, <2>4
    <2>5. QED
      BY <2>1, <2>3, <2>4
  <1>4. ASSUME NEW g \in Files, g # f
        PROVE  InOrder(g)'
    <2>1. g \in overtaken \cup missed => g \in overtaken' \cup missed'
      BY <1>4, RequestEffect DEF Requested
    <2>2. last'[g] = last[g]
      BY <1>4 DEF Requested, TypeOK
    <2>3. \A m \in {Plain(g), Delete(g)} :
            m \in Names /\ File(m) = g /\ m # n /\ Other(m) # n /\ m # NoPath
      BY <1>4, NameFacts
    <2>4. \A m \in {Plain(g), Delete(g)} :
            /\ hot'[m] = hot[m]
            /\ m \in Pending <=> m \in Pending'
            /\ Behind(items \o events, m) => Behind(items' \o events', m)
      BY <1>2, <1>3, <1>4, <2>3
    <2>5. QED
      BY <2>1, <2>2, <2>4, InOrderFrame DEF OrderInv
  <1>5. InOrder(f)'
    <2> SUFFICES ASSUME f \notin overtaken' \cup missed' PROVE InOrder(f)'
      BY DEF InOrder
    <2>1. ~Overtaken(n) /\ ~(Cardinality(Serving(f)) > 1)
      BY <1>1 DEF Requested
    <2>2. /\ last'[f] = IF IsDeleteRequest(n) THEN "delete" ELSE "write"
          /\ Latest(f)' = n
      BY <1>1, NameFacts DEF Requested, TypeOK, Latest
    <2>3. Sole(f)'
      <3> SUFFICES ASSUME NEW v \in Serving(f), NEW w \in Serving(f), v # w
                   PROVE  FALSE
        BY DEF Sole, Serving
      <3>1. IsFiniteSet({v}) /\ Cardinality({v}) = 1
        BY FS_Singleton
      <3>2. Cardinality({v} \cup {w}) = 2
        <4>1. w \notin {v}
          OBVIOUS
        <4>2. Cardinality({v} \cup {w}) = Cardinality({v}) + 1
          BY <3>1, <4>1, FS_AddElement
        <4>3. QED
          BY <3>1, <4>2
      <3>3. /\ Cardinality({v} \cup {w}) <= Cardinality(Serving(f))
            /\ Cardinality(Serving(f)) \in Nat
        BY <1>1, FS_Subset, FS_CardinalityType DEF FiniteInv
      <3>4. QED
        BY <2>1, <3>2, <3>3
    <2>4. Behind(items \o events, n)
      <3> SUFFICES ASSUME NEW i \in 1 .. Len(Backlog), NEW j \in 1 .. Len(Backlog),
                          Backlog[i] = n, Backlog[j] = Other(n)
                   PROVE  j < i
        BY DEF Behind, Backlog
      <3>1. i # j /\ ~(i < j)
        BY <1>1, <2>1 DEF Overtaken
      <3>2. QED
        BY <1>2, <3>1, BacklogParts DEF Backlog
    <2>5. LatestIsLast(f)'
      BY <1>1, <1>3, <2>2, <2>4 DEF LatestIsLast, Backlog
    <2>6. n \in Pending'
      BY <1>2
    <2>7. DeletionComes(f)'
      <3> SUFFICES ASSUME last'[f] = "delete" PROVE DeletionComes(f)'
        BY DEF DeletionComes
      <3>1. IsDeleteRequest(n) /\ n = Delete(f)
        BY <2>2, NameFacts
      <3>2. ASSUME NEW w \in Workers, WillRead(w, Delete(f))'
            PROVE  Final(f)'
        <4>1. WillRead(w, n)
          BY <3>1, <3>2 DEF WillRead
        <4>2. Other(n) \notin Range(Backlog)
          BY <2>1, <3>1, <4>1 DEF Overtaken
        <4>3. Other(n) \notin Pending
          <5>1. Backlog \in Seq(Reports)
            BY <1>2, BacklogParts DEF Backlog
          <5>2. DOMAIN Backlog = 1 .. Len(Backlog)
            BY <5>1
          <5>3. \A i \in 1 .. Len(Backlog) : Backlog[i] # Other(n)
            BY <4>2, <5>2 DEF Range
          <5>4. QED
            BY <1>2, <5>3, PendingBacklog
        <4>4. QED
          BY <1>1, <1>2, <2>2, <4>3 DEF Final
      <3>3. QED
        BY <2>6, <3>1, <3>2 DEF DeletionComes
    <2>8. BackupComes(f)'
      <3>1. last'[f] = "write" => n = Plain(f)
        BY <2>2, NameFacts
      <3>2. QED
        BY <2>6, <3>1 DEF BackupComes
    <2>9. QED
      BY <2>3, <2>5, <2>7, <2>8 DEF InOrder
  <1>6. QED
    BY <1>4, <1>5 DEF OrderInv

LEMMA UserInOrder ==
  ASSUME IInv, FiniteInv, OrderInv, User
  PROVE  OrderInv'
  <1> USE DEF IInv, workerVars, dataVars
  <1>1. ASSUME NEW n \in Names, Write(n) PROVE OrderInv'
    <2>1. hot'[n] # Absent /\ \A m \in Names : File(m) # File(n) => hot'[m] = hot[m]
      BY <1>1, RequestEffect DEF Write, TypeOK
    <2>2. QED
      BY <1>1, <2>1, RequestInOrder DEF Write
  <1>2. ASSUME NEW f \in Files, Rename(f) PROVE OrderInv'
    <2>1. /\ Plain(f) \in Names /\ Delete(f) \in Names /\ Plain(f) # Delete(f)
          /\ File(Plain(f)) = f /\ File(Delete(f)) = f
      BY NameFacts
    <2>2. /\ Requested(Delete(f))
          /\ hot' = [hot EXCEPT ![Plain(f)] = Absent, ![Delete(f)] = version']
          /\ UNCHANGED <<items, got, stage, copied, bak, failed>>
      BY <1>2 DEF Rename, Plain, Delete
    <2>3. version' # Absent
      BY <2>1, <2>2, RequestEffect
    <2>4. /\ hot'[Delete(f)] # Absent
          /\ \A m \in Names : File(m) # File(Delete(f)) => hot'[m] = hot[m]
      BY <2>1, <2>2, <2>3 DEF TypeOK
    <2>5. QED
      BY <2>1, <2>2, <2>4, RequestInOrder
  <1>3. ASSUME NEW n \in Names, Remove(n) PROVE OrderInv'
    <2>1. /\ hot' = [hot EXCEPT ![n] = Absent]
          /\ last' = [last EXCEPT ![File(n)] =
                        IF IsDeleteRequest(n) /\ last[File(n)] = "delete"
                        THEN "none" ELSE last[File(n)]]
          /\ UNCHANGED <<overtaken, missed, events, items, got, stage, copied,
                         bak, failed>>
          /\ File(n) \in Files
      BY <1>3, NameFacts DEF Remove
    <2>2. Pending' = Pending /\ Backlog' = Backlog
      BY <2>1 DEF Pending, Backlog
    <2>3. ASSUME NEW g \in Files, g # File(n) PROVE InOrder(g)'
      <3>1. last'[g] = last[g]
        BY <2>1, <2>3 DEF TypeOK
      <3>2. \A m \in {Plain(g), Delete(g)} : hot'[m] = hot[m]
        BY <2>1, <2>3, NameFacts DEF TypeOK
      <3>3. QED
        BY <2>1, <2>2, <3>1, <3>2, InOrderFrame DEF OrderInv
    <2>4. InOrder(File(n))'
      <3> DEFINE f == File(n)
      <3> SUFFICES ASSUME f \notin overtaken \cup missed PROVE InOrder(f)'
        BY <2>1 DEF InOrder
      <3>1. Sole(f) /\ LatestIsLast(f) /\ DeletionComes(f) /\ BackupComes(f)
        BY <2>1 DEF OrderInv, InOrder
      <3>2. Serving(f)' = Serving(f)
        BY <2>1 DEF Serving
      <3>3. IF IsDeleteRequest(n) THEN n = Delete(f) ELSE n = Plain(f)
        BY NameFacts
      <3>4. CASE IsDeleteRequest(n) /\ last[f] = "delete"
        <4>1. last'[f] = "none"
          BY <2>1, <3>4 DEF TypeOK
        <4>2. QED
          BY <3>1, <3>2, <4>1
          DEF InOrder, Sole, LatestIsLast, DeletionComes, BackupComes
      <3>5. CASE ~(IsDeleteRequest(n) /\ last[f] = "delete")
        <4>1. last'[f] = last[f] /\ Latest(f)' = Latest(f)
          BY <2>1, <3>5 DEF TypeOK, Latest
        <4>2. Final(f)' = Final(f)
          BY <2>2, <4>1 DEF Final
        <4>3. Sole(f)' /\ LatestIsLast(f)'
          BY <2>2, <3>1, <3>2, <4>1 DEF Sole, LatestIsLast
        <4>4. DeletionComes(f)'
          <5>1. last[f] = "delete" => n = Plain(f) /\ hot'[Delete(f)] = hot[Delete(f)]
            BY <2>1, <3>3, <3>5, NameFacts DEF TypeOK
          <5>2. QED
            BY <2>1, <2>2, <3>1, <4>1, <4>2, <5>1
            DEF DeletionComes, Deleting, WillRead
        <4>5. BackupComes(f)'
          <5>1. hot'[Plain(f)] \in {Absent, hot[Plain(f)]}
            BY <2>1, NameFacts DEF TypeOK
          <5>2. QED
            BY <2>1, <2>2, <3>1, <3>2, <4>1, <4>2, <5>1 DEF BackupComes, Copying
        <4>6. QED
          BY <4>3, <4>4, <4>5 DEF InOrder
      <3>6. QED
        BY <3>4, <3>5
    <2>5. QED
      BY <2>3, <2>4 DEF OrderInv
  <1>4. QED
    BY <1>1, <1>2, <1>3 DEF User

(* The observer queues the oldest report, which was pending before and is  *)
(* now, or drops it because its name is in front of it already.            *)
LEMMA ObserverInOrder ==
  ASSUME IInv, OrderInv, Observer
  PROVE  OrderInv'
  <1> USE DEF IInv
  <1>1. /\ events # <<>> /\ events' = Tail(events)
        /\ items' = IF Head(events) \in Range(items) THEN items
                    ELSE Append(items, Head(events))
        /\ UNCHANGED <<hot, last, overtaken, missed, got, stage, copied, bak,
                       failed>>
    BY DEF Observer, Manager!Queue!Pushed, Manager!Queue!Range, Range, userVars,
           workerVars, dataVars
  <1>2. /\ events \in Seq(Reports) /\ items \in Seq(Reports)
        /\ Head(events) \in Reports /\ events' \in Seq(Reports)
        /\ Range(events) \subseteq {Head(events)} \cup Range(events')
    BY <1>1, RangeOfTail DEF TypeOK
  <1>3. Range(events') \cup {Head(events)} \subseteq Range(events)
    <2>1. /\ Head(events) = events[1] /\ DOMAIN events = 1 .. Len(events)
          /\ Len(events) \in Nat /\ Len(events) > 0
          /\ DOMAIN Tail(events) = 1 .. Len(events) - 1
          /\ \A i \in 1 .. Len(events) - 1 : Tail(events)[i] = events[i + 1]
      BY <1>1, <1>2
    <2>2. \A i \in 1 .. Len(events) - 1 : i + 1 \in 1 .. Len(events)
      BY <2>1
    <2>3. 1 \in 1 .. Len(events)
      BY <2>1
    <2>4. QED
      BY <1>1, <2>1, <2>2, <2>3 DEF Range
  <1>4. Pending' = Pending
    <2>1. Range(items') = Range(items) \cup {Head(events)}
      BY <1>1, <1>2, RangeOfAppend
    <2>2. QED
      BY <1>2, <1>3, <2>1 DEF Pending
  <1>5. ASSUME NEW n \in Names, Behind(items \o events, n)
        PROVE  Behind(items' \o events', n)
    <2>1. CASE Head(events) \in Range(items)
      BY <1>1, <1>2, <1>5, <2>1, BehindDuplicate
    <2>2. CASE Head(events) \notin Range(items)
      BY <1>1, <1>2, <1>5, <2>2, BehindQueued
    <2>3. QED
      BY <2>1, <2>2
  <1>6. ASSUME NEW f \in Files PROVE InOrder(f)'
    BY <1>1, <1>4, <1>5, NameFacts, InOrderFrame DEF OrderInv
  <1>7. QED
    BY <1>6 DEF OrderInv

(* A worker that takes a name of a file which another one serves overtakes *)
(* it.  If none does, the name is the file's last request, behind which    *)
(* nothing comes for the file, or that is pending still.                   *)
LEMMA TakeInOrder ==
  ASSUME IInv, FiniteInv, OrderInv, NEW w \in Workers, WorkerTakes(w)
  PROVE  FiniteInv' /\ OrderInv'
  <1>0. PICK n, f : n = Head(items) /\ f = File(n)
    OBVIOUS
  <1> USE DEF IInv
  <1>1. /\ workerPc[w] = "get" /\ items # <<>> /\ items' = Tail(items)
        /\ n # NoPath /\ got' = [got EXCEPT ![w] = n]
        /\ overtaken' = overtaken \cup
                          {g \in Files : w \in Serving(g)' /\ Serving(g) # {}}
        /\ UNCHANGED <<hot, last, missed, events, stage, copied, bak, failed>>
    BY <1>0 DEF WorkerTakes, Manager!WorkerGet, Manager!Queue!Take,
           Manager!WorkerGoes, dataVars
  <1>2. /\ n \in Names /\ f \in Files
        /\ items \in Seq(Reports) /\ events \in Seq(Reports)
        /\ items' \in Seq(Reports)
        /\ Range(items) \subseteq {n} \cup Range(items')
        /\ got[w] = NoPath /\ stage[w] = "start"
    <2>1. /\ items \in Seq(Reports) /\ events \in Seq(Reports)
          /\ got[w] = NoPath /\ stage[w] = "start"
      BY <1>1 DEF TypeOK, PhaseInv
    <2>2. /\ n \in Reports /\ items' \in Seq(Reports)
          /\ Range(items) \subseteq {n} \cup Range(items')
      BY <1>0, <1>1, <2>1, RangeOfTail
    <2>3. QED
      BY <1>0, <1>1, <2>1, <2>2, NameFacts DEF Reports
  <1>3. Range(items') \cup {n} \subseteq Range(items)
    <2>1. /\ n = items[1] /\ DOMAIN items = 1 .. Len(items)
          /\ Len(items) \in Nat /\ Len(items) > 0
          /\ DOMAIN Tail(items) = 1 .. Len(items) - 1
          /\ \A i \in 1 .. Len(items) - 1 : Tail(items)[i] = items[i + 1]
      BY <1>0, <1>1, <1>2
    <2>2. \A i \in 1 .. Len(items) - 1 : i + 1 \in 1 .. Len(items)
      BY <2>1
    <2>3. 1 \in 1 .. Len(items)
      BY <2>1
    <2>4. QED
      BY <1>1, <2>1, <2>2, <2>3 DEF Range
  <1>4. /\ \A m : m # n => (m \in Pending <=> m \in Pending')
        /\ Pending' \subseteq Pending
    BY <1>1, <1>2, <1>3 DEF Pending
  <1>5. ASSUME NEW m \in Names, Behind(items \o events, m)
        PROVE  Behind(items' \o events', m)
    BY <1>1, <1>2, <1>5, BehindTake
  <1>6. ASSUME NEW g \in Files
        PROVE  /\ Serving(g)' \subseteq Serving(g) \cup {w}
               /\ w \in Serving(g)' <=> g = f
    BY <1>0, <1>1, <1>2, NameFacts DEF Serving, TypeOK
  <1>7. FiniteInv'
    <2>1. ASSUME NEW g \in Files PROVE IsFiniteSet(Serving(g)')
      <3>1. IsFiniteSet(Serving(g) \cup {w})
        BY FS_AddElement DEF FiniteInv
      <3>2. QED
        BY <1>6, <3>1, FS_Subset
    <2>2. QED
      BY <2>1 DEF FiniteInv
  <1>8. ASSUME NEW g \in Files, g # f
        PROVE  InOrder(g)'
    <2>1. \A m \in {Plain(g), Delete(g)} : m \in Names /\ m # n
      BY <1>0, <1>8, NameFacts
    <2>2. \A v \in Workers :
            got[v] \in {Plain(g), Delete(g)} \/ got'[v] \in {Plain(g), Delete(g)}
              => got'[v] = got[v]
      BY <1>1, <1>2, <2>1, NameFacts DEF TypeOK
    <2>3. QED
      BY <1>1, <1>4, <1>5, <2>1, <2>2, InOrderFrame DEF OrderInv
  <1>9. InOrder(f)'
    <2> SUFFICES ASSUME f \notin overtaken' \cup missed' PROVE InOrder(f)'
      BY DEF InOrder
    <2>1. f \notin overtaken \cup missed /\ Serving(f) = {}
      BY <1>1, <1>2, <1>6
    <2>2. LatestIsLast(f) /\ DeletionComes(f) /\ BackupComes(f)
      BY <1>2, <2>1 DEF OrderInv, InOrder
    <2>3. Sole(f)'
      BY <1>2, <1>6, <2>1 DEF Sole
    <2>4. /\ Latest(f)' = Latest(f) /\ last' = last
          /\ Latest(f) \in Names /\ Other(Latest(f)) \in Names
          /\ Latest(f) \in {Plain(f), Delete(f)}
          /\ Other(Latest(f)) # Latest(f)
          /\ {Latest(f), Other(Latest(f))} = {Plain(f), Delete(f)}
          /\ n \in {Latest(f), Other(Latest(f))}
      BY <1>0, <1>1, <1>2, NameFacts DEF Latest
    <2>5. LatestIsLast(f)'
      BY <1>5, <2>2, <2>4 DEF LatestIsLast, Backlog
    <2>6. \A v \in Workers :
            v # w => got[v] \notin {Plain(f), Delete(f)} /\ got'[v] = got[v]
      BY <1>1, <1>2, <2>1, ServingNames DEF TypeOK
    <2>7. got'[w] = n
      BY <1>1 DEF TypeOK
    <2>8. CASE n = Other(Latest(f))
      <3>1. n \in Pending /\ ~Final(f)
        BY <1>3, <2>8 DEF Pending, Final
      <3>2. Latest(f) \in Pending => Latest(f) \in Pending'
        BY <1>4, <2>4, <2>8
      <3>3. DeletionComes(f)'
        <4>1. last[f] = "delete" => ~WillRead(w, Delete(f))'
          BY <2>4, <2>7, <2>8 DEF WillRead, Latest
        <4>2. \A v \in Workers : ~Deleting(v, f)
          BY <1>2, <2>6, NameFacts DEF Deleting
        <4>3. \A v \in Workers : last[f] = "delete" => ~WillRead(v, Delete(f))'
          BY <2>6, <4>1 DEF WillRead
        <4>4. last[f] = "delete" => Latest(f) = Delete(f)
          BY DEF Latest
        <4>5. QED
          BY <1>1, <2>2, <2>4, <3>1, <3>2, <4>3, <4>4 DEF DeletionComes
      <3>4. BackupComes(f)'
        <4>1. last[f] = "write" => Latest(f) = Plain(f)
          BY DEF Latest
        <4>2. QED
          BY <1>1, <2>2, <2>4, <3>1, <3>2, <4>1 DEF BackupComes
      <3>5. QED
        BY <2>3, <2>5, <3>3, <3>4 DEF InOrder
    <2>9. CASE n = Latest(f)
      <3>1. last[f] # "none" => Final(f)'
        <4> SUFFICES ASSUME last[f] # "none", Other(n) \in Pending' PROVE FALSE
          BY <2>4, <2>9 DEF Final
        <4>1. Other(n) \in Pending
          BY <1>4
        <4>2. PICK j \in 1 .. Len(items \o events) :
                     (items \o events)[j] = Other(n)
          BY <1>2, <4>1, PendingBacklog DEF Backlog
        <4>3. /\ Len(items \o events) = Len(items) + Len(events)
              /\ Len(items) \in Nat /\ Len(events) \in Nat /\ Len(items) > 0
              /\ n = items[1]
          <5>1. n = items[1] /\ Len(items) > 0
            BY <1>0, <1>1, <1>2
          <5>2. QED
            BY <1>2, <5>1, BacklogParts
        <4>4. 1 \in 1 .. Len(items) /\ 1 \in 1 .. Len(items \o events)
          BY <4>3
        <4>5. (items \o events)[1] = n
          BY <1>2, <4>3, <4>4, BacklogParts
        <4>6. Behind(items \o events, n)
          BY <2>2, <2>9 DEF LatestIsLast, Backlog
        <4>7. j < 1
          BY <4>2, <4>4, <4>5, <4>6 DEF Behind
        <4>8. QED
          BY <4>2, <4>3, <4>7
      <3>2. DeletionComes(f)'
        <4> SUFFICES ASSUME last[f] = "delete" PROVE DeletionComes(f)'
          BY <2>4 DEF DeletionComes
        <4>1. n = Delete(f) /\ Final(f)'
          BY <2>9, <3>1 DEF Latest
        <4>2. hot[n] # Absent => Deleting(w, f)'
          BY <1>1, <2>7, <4>1 DEF Deleting
        <4>3. \A v \in Workers : got'[v] # Plain(f)
          BY <1>2, <2>6, <2>7, <4>1, NameFacts
        <4>4. \A v \in Workers : ~Deleting(v, f)
          BY <1>2, <2>6, NameFacts DEF Deleting
        <4>5. hot[n] = Absent => bak[f] = Absent \/ f \in failed
          BY <2>2, <4>1, <4>4 DEF DeletionComes
        <4>6. QED
          BY <1>1, <4>1, <4>2, <4>3, <4>5 DEF DeletionComes
      <3>3. BackupComes(f)'
        <4> SUFFICES ASSUME last[f] = "write" PROVE BackupComes(f)'
          BY <2>4 DEF BackupComes
        <4>1. n = Plain(f) /\ Final(f)'
          BY <2>9, <3>1 DEF Latest
        <4>2. Copying(w, f)'
          BY <1>1, <1>2, <2>7, <4>1 DEF Copying
        <4>3. QED
          BY <4>1, <4>2 DEF BackupComes
      <3>4. QED
        BY <2>3, <2>5, <3>2, <3>3 DEF InOrder
    <2>10. QED
      BY <2>4, <2>8, <2>9
  <1>10. QED
    BY <1>7, <1>8, <1>9 DEF OrderInv

(* The steps of a worker within execute() and backup_file(): they concern  *)
(* only the file that it serves. *)
Deletes(w) ==
  DeleteAbsent(w) \/ DeleteSource(w) \/ DeleteBackup(w) \/ DeleteThrows(w)

Copies(w) ==
  \/ BackupChecks(w) \/ BackupThrows(w) \/ CopyOpens(w) \/ CopyTruncates(w)
  \/ CopyWrites(w) \/ CopyWritesOrphan(w) \/ CopyFails(w)

LEMMA Served ==
  ASSUME IInv, StageInv, NEW w \in Workers, Deletes(w) \/ Copies(w)
  PROVE  \E f \in Files :
           /\ got[w] = IF Deletes(w) THEN Delete(f) ELSE Plain(f)
           /\ workerPc[w] = IF Deletes(w) THEN "plugins" ELSE "backup"
  <1> USE DEF IInv
  <1>1. CASE Deletes(w)
    <2>1. workerPc[w] = "plugins" /\ IsDeleteRequest(got[w])
      BY <1>1 DEF Deletes, DeleteAbsent, DeleteSource, DeleteBackup,
                  DeleteThrows, AtDelete
    <2>2. got[w] \in Names
      BY <2>1 DEF PhaseInv
    <2>3. QED
      BY <1>1, <2>1, <2>2, NameFacts
  <1>2. CASE ~Deletes(w)
    <2>1. workerPc[w] = "backup"
      BY <1>2
      DEF Copies, BackupChecks, BackupThrows, CopyOpens, CopyTruncates,
          CopyWrites, CopyWritesOrphan, CopyFails, AtBackup,
          Manager!BackupEnds, Manager!WorkerGoes
    <2>2. got[w] \in Names /\ ~IsDeleteRequest(got[w])
      BY <2>1 DEF PhaseInv, StageInv
    <2>3. QED
      BY <1>2, <2>1, <2>2, NameFacts
  <1>3. QED
    BY <1>1, <1>2

(* What such a step leaves alone. *)
LEMMA ServedFrame ==
  ASSUME IInv, NEW w \in Workers, Deletes(w) \/ Copies(w),
         NEW f \in Files, got[w] \in {Plain(f), Delete(f)}
  PROVE  /\ UNCHANGED <<last, overtaken, missed, events, items, m_plugins,
                         plugin>>
         /\ \A n \in Names : n # got[w] => hot'[n] = hot[n]
         /\ \A g \in Files : g # f =>
              bak'[g] = bak[g] /\ (g \in failed <=> g \in failed')
         /\ got'[w] \in {got[w], NoPath}
         /\ \A v \in Workers \ {w} :
              /\ got'[v] = got[v] /\ workerPc'[v] = workerPc[v]
              /\ copied'[v] = copied[v]
              /\ \/ stage'[v] = stage[v]
                 \/ /\ stage[v] = "write" /\ stage'[v] = "orphan"
                    /\ File(got[v]) = f
  <1> USE DEF IInv, Manager!WorkerGoes, Manager!mainVars, Manager!queueVars,
              Manager!Queue!Release, userVars, workerVars, dataVars
  <1>1. File(got[w]) = f /\ got[w] \in Names
    BY NameFacts
  <1>2. CASE DeleteAbsent(w)
    BY <1>2 DEF DeleteAbsent, Manager!PluginEnds, TypeOK
  <1>3. CASE DeleteSource(w)
    BY <1>1, <1>3 DEF DeleteSource, Stage, TypeOK
  <1>4. CASE DeleteBackup(w)
    BY <1>1, <1>4 DEF DeleteBackup, Manager!PluginEnds, TypeOK
  <1>5. CASE BackupChecks(w)
    BY <1>5 DEF BackupChecks, Stage, TypeOK
  <1>6. CASE BackupThrows(w)
    BY <1>6 DEF BackupThrows, Manager!BackupEnds, Ends, TypeOK
  <1>7. CASE CopyOpens(w)
    BY <1>7 DEF CopyOpens, Stage, TypeOK
  <1>8. CASE CopyTruncates(w)
    BY <1>1, <1>8 DEF CopyTruncates, Stage, TypeOK
  <1>9. CASE CopyWrites(w)
    BY <1>1, <1>9 DEF CopyWrites, Manager!BackupEnds, Ends, TypeOK
  <1>10. CASE CopyWritesOrphan(w)
    BY <1>10 DEF CopyWritesOrphan, Manager!BackupEnds, Ends, TypeOK
  <1>11. CASE CopyFails(w)
    BY <1>1, <1>11 DEF CopyFails, Manager!BackupEnds, Ends, TypeOK
  <1>12. CASE DeleteThrows(w)
    BY <1>1, <1>12 DEF DeleteThrows, Manager!PluginEnds, Ends, TypeOK
  <1>13. QED
    BY <1>2, <1>3, <1>4, <1>5, <1>6, <1>7, <1>8, <1>9, <1>10, <1>11, <1>12
    DEF Deletes, Copies

(* The only worker that serves f deletes: if the deletion is the last      *)
(* request, it is done now or will be. *)
LEMMA DeletesInOrder ==
  ASSUME IInv, StageInv, NEW w \in Workers, NEW f \in Files, Deletes(w),
         got[w] = Delete(f), DeletionComes(f), BackupComes(f),
         \A v \in Workers \ {w} : got[v] \notin {Plain(f), Delete(f)}
  PROVE  DeletionComes(f)' /\ BackupComes(f)'
  <1> USE DEF IInv
  <1>1. /\ Plain(f) \in Names /\ Delete(f) \in Names /\ Plain(f) # Delete(f)
        /\ File(Delete(f)) = f /\ NoPath \notin Names
    BY NameFacts
  <1>2. /\ last' = last /\ Pending' = Pending /\ Latest(f)' = Latest(f)
        /\ (Final(f)' <=> Final(f))
        /\ hot'[Plain(f)] = hot[Plain(f)]
        /\ got'[w] \in {Delete(f), NoPath}
        /\ \A v \in Workers \ {w} : got'[v] = got[v]
    BY <1>1, ServedFrame DEF Pending, Latest, Final
  <1>3. BackupComes(f)'
    <2>1. w \in Serving(f) /\ \A v \in Workers : ~Copying(v, f)
      BY <1>1 DEF Serving, Copying
    <2>2. QED
      BY <1>2, <2>1 DEF BackupComes
  <1>4. DeletionComes(f)'
    <2> SUFFICES ASSUME last[f] = "delete" PROVE DeletionComes(f)'
      BY <1>2 DEF DeletionComes
    <2>1. /\ \A v \in Workers : got[v] # Plain(f) /\ got'[v] # Plain(f)
          /\ \A v \in Workers \ {w} : ~Deleting(v, f) /\ ~WillRead(v, Delete(f))'
      BY <1>1, <1>2 DEF Deleting, WillRead
    <2>2. WillRead(w, Delete(f)) => Final(f)
      BY DEF DeletionComes
    <2>3. CASE DeleteAbsent(w)
      <3>1. hot[Delete(f)] = Absent /\ stage[w] = "start"
            /\ UNCHANGED <<hot, bak, failed>> /\ got'[w] = NoPath
        BY <2>3 DEF DeleteAbsent, Manager!PluginEnds, Manager!Queue!Release,
                    userVars, dataVars, TypeOK
      <3>2. Final(f) /\ (bak[f] = Absent \/ f \in failed)
        BY <2>1, <3>1 DEF DeletionComes, Deleting
      <3>3. ~WillRead(w, Delete(f))'
        BY <1>1, <3>1 DEF WillRead
      <3>4. QED
        BY <1>2, <2>1, <3>1, <3>2, <3>3 DEF DeletionComes
    <2>4. CASE DeleteSource(w)
      <3>1. stage[w] = "start" /\ stage'[w] = "erase" /\ got'[w] = got[w]
        BY <2>4 DEF DeleteSource, Stage, workerVars, TypeOK
      <3>2. Final(f)' /\ Deleting(w, f)' /\ ~WillRead(w, Delete(f))'
        BY <1>2, <2>2, <3>1 DEF WillRead, Deleting
      <3>3. QED
        BY <2>1, <3>2 DEF DeletionComes
    <2>5. CASE DeleteBackup(w)
      <3>1. hot' = hot /\ bak'[f] = Absent /\ got'[w] = NoPath
        BY <1>1, <2>5 DEF DeleteBackup, Manager!PluginEnds,
                          Manager!Queue!Release, userVars, TypeOK
      <3>2. ~WillRead(w, Delete(f))'
        BY <1>1, <3>1 DEF WillRead
      <3>3. (hot[Delete(f)] # Absent /\ Delete(f) \in Pending) \/ Final(f)
        BY DEF DeletionComes
      <3>4. QED
        BY <1>2, <2>1, <3>1, <3>2, <3>3 DEF DeletionComes
    <2>6. CASE DeleteThrows(w)
      <3>1. hot' = hot /\ f \in failed' /\ got'[w] = NoPath
        BY <1>1, <2>6 DEF DeleteThrows, Manager!PluginEnds,
                          Manager!Queue!Release, userVars, TypeOK
      <3>2. ~WillRead(w, Delete(f))'
        BY <1>1, <3>1 DEF WillRead
      <3>3. (hot[Delete(f)] # Absent /\ Delete(f) \in Pending) \/ Final(f)
        BY DEF DeletionComes
      <3>4. QED
        BY <1>2, <2>1, <3>1, <3>2, <3>3 DEF DeletionComes
    <2>7. QED
      BY <2>3, <2>4, <2>5, <2>6 DEF Deletes
  <1>5. QED
    BY <1>3, <1>4

(* The only worker that serves f copies: if the file was written last, its *)
(* backup has what it holds now, or will have. *)
LEMMA CopiesInOrder ==
  ASSUME IInv, StageInv, NEW w \in Workers, NEW f \in Files, Copies(w),
         got[w] = Plain(f), DeletionComes(f), BackupComes(f),
         \A v \in Workers \ {w} : got[v] \notin {Plain(f), Delete(f)}
  PROVE  DeletionComes(f)' /\ BackupComes(f)'
  <1> USE DEF IInv, Manager!WorkerGoes, Manager!BackupEnds,
              Manager!Queue!Release, userVars, workerVars, dataVars
  <1>1. /\ Plain(f) \in Names /\ Delete(f) \in Names /\ Plain(f) # Delete(f)
        /\ File(Plain(f)) = f /\ NoPath \notin Names
    BY NameFacts
  <1>2. /\ last' = last /\ Pending' = Pending /\ Latest(f)' = Latest(f)
        /\ (Final(f)' <=> Final(f))
        /\ got'[w] \in {Plain(f), NoPath}
        /\ \A v \in Workers \ {w} : got'[v] = got[v]
    BY ServedFrame DEF Pending, Latest, Final
  <1>3. hot' = hot
    BY DEF Copies, BackupChecks, BackupThrows, CopyOpens, CopyTruncates,
           CopyWrites, CopyWritesOrphan, CopyFails
  <1>4. DeletionComes(f)'
    <2>1. \A v \in Workers : ~Deleting(v, f) /\ ~WillRead(v, Delete(f))'
      BY <1>1, <1>2 DEF Deleting, WillRead
    <2>2. QED
      BY <1>2, <1>3, <2>1 DEF DeletionComes
  <1>5. BackupComes(f)'
    <2> SUFFICES ASSUME last[f] = "write", hot[Plain(f)] # Absent,
                        Plain(f) \notin Pending
                 PROVE  BackupComes(f)'
      BY <1>2, <1>3 DEF BackupComes
    <2>1. Final(f)' /\ Copying(w, f)
      <3>1. w \in Serving(f) /\ \A v \in Workers \ {w} : ~Copying(v, f)
        BY <1>1 DEF Serving, Copying
      <3>2. QED
        BY <1>2, <3>1 DEF BackupComes
    <2>2. ASSUME Copying(w, f)' PROVE BackupComes(f)'
      BY <2>1, <2>2 DEF BackupComes
    <2>3. ASSUME got'[w] = NoPath, bak'[f] = hot'[Plain(f)] \/ f \in failed'
          PROVE  BackupComes(f)'
      <3>1. Serving(f)' = {}
        BY <1>1, <1>2, <2>3, NameFacts DEF Serving
      <3>2. QED
        BY <2>1, <2>3, <3>1 DEF BackupComes
    <2>4. CASE BackupChecks(w)
      BY <2>2, <2>4 DEF BackupChecks, Stage, Copying, TypeOK
    <2>5. CASE BackupThrows(w)
      BY <2>5 DEF BackupThrows
    <2>6. CASE CopyOpens(w)
      BY <1>3, <2>2, <2>6 DEF CopyOpens, Stage, Copying, TypeOK
    <2>7. CASE CopyTruncates(w)
      BY <1>1, <1>3, <2>1, <2>2, <2>7 DEF CopyTruncates, Stage, Copying, TypeOK
    <2>8. CASE CopyWrites(w)
      <3>1. copied[w] = hot[Plain(f)] /\ bak[f] = Torn
        BY <2>1, <2>8 DEF CopyWrites, Copying
      <3>2. /\ Readable(w) = {hot[Plain(f)]}
            /\ Written(f, hot[Plain(f)]) = {hot[Plain(f)]}
        BY <3>1 DEF Readable, Written
      <3>3. bak' = [bak EXCEPT ![f] = hot[Plain(f)]]
        BY <1>1, <2>8, <3>2 DEF CopyWrites
      <3>4. got'[w] = NoPath /\ bak'[f] = hot'[Plain(f)]
        BY <1>3, <2>8, <3>3 DEF CopyWrites, TypeOK
      <3>5. QED
        BY <2>3, <3>4
    <2>9. CASE CopyWritesOrphan(w)
      BY <2>1, <2>9 DEF CopyWritesOrphan, Copying
    <2>10. CASE CopyFails(w)
      <3>1. got'[w] = NoPath /\ f \in failed'
        BY <1>1, <2>10 DEF CopyFails, TypeOK
      <3>2. QED
        BY <2>3, <3>1
    <2>11. QED
      BY <2>4, <2>5, <2>6, <2>7, <2>8, <2>9, <2>10 DEF Copies
  <1>6. QED
    BY <1>4, <1>5

LEMMA ServedInOrder ==
  ASSUME AllInv, NEW w \in Workers, Deletes(w) \/ Copies(w)
  PROVE  FiniteInv' /\ OrderInv'
  <1> USE DEF AllInv, IInv
  <1>1. PICK f \in Files : got[w] = IF Deletes(w) THEN Delete(f) ELSE Plain(f)
    BY Served
  <1>2. /\ UNCHANGED <<last, overtaken, missed, events, items>>
        /\ \A n \in Names : n # got[w] => hot'[n] = hot[n]
        /\ \A g \in Files : g # f =>
             bak'[g] = bak[g] /\ (g \in failed <=> g \in failed')
        /\ got'[w] \in {got[w], NoPath}
        /\ \A v \in Workers \ {w} :
             /\ got'[v] = got[v] /\ copied'[v] = copied[v]
             /\ stage'[v] = stage[v] \/ File(got[v]) = f
    BY <1>1, ServedFrame
  <1>3. Pending' = Pending
    BY <1>2 DEF Pending
  <1>4. \A g \in Files : Serving(g)' \subseteq Serving(g)
    BY <1>2, NameFacts DEF Serving
  <1>5. FiniteInv'
    <2>1. ASSUME NEW g \in Files PROVE IsFiniteSet(Serving(g)')
      BY <1>4, FS_Subset DEF FiniteInv
    <2>2. QED
      BY <2>1 DEF FiniteInv
  <1>6. ASSUME NEW g \in Files, g # f
        PROVE  InOrder(g)'
    <2>1. \A n \in {Plain(g), Delete(g)} :
            n \in Names /\ File(n) = g /\ n # got[w] /\ n # NoPath
      BY <1>1, <1>6, NameFacts
    <2>2. ASSUME NEW v \in Workers,
                 \/ got[v] \in {Plain(g), Delete(g)}
                 \/ got'[v] \in {Plain(g), Delete(g)}
          PROVE  /\ got'[v] = got[v] /\ stage'[v] = stage[v]
                 /\ copied'[v] = copied[v]
      BY <1>2, <1>6, <2>1, <2>2
    <2>3. QED
      BY <1>2, <1>3, <1>6, <2>1, <2>2, InOrderFrame DEF OrderInv
  <1>7. InOrder(f)'
    <2> SUFFICES ASSUME f \notin overtaken \cup missed PROVE InOrder(f)'
      BY <1>2 DEF InOrder
    <2>1. Sole(f) /\ LatestIsLast(f) /\ DeletionComes(f) /\ BackupComes(f)
      BY DEF OrderInv, InOrder
    <2>2. Sole(f)'
      BY <1>4, <2>1 DEF Sole
    <2>3. LatestIsLast(f)'
      BY <1>2, <2>1 DEF LatestIsLast, Latest, Backlog
    <2>4. \A v \in Workers \ {w} : got[v] \notin {Plain(f), Delete(f)}
      BY <1>1, <2>1, ServingNames DEF Sole
    <2>5. DeletionComes(f)' /\ BackupComes(f)'
      BY <1>1, <2>1, <2>4, DeletesInOrder, CopiesInOrder
    <2>6. QED
      BY <2>2, <2>3, <2>5 DEF InOrder
  <1>8. QED
    BY <1>5, <1>6, <1>7 DEF OrderInv

(* The steps of a worker that touch no file. *)
LEMMA LoopsInOrder ==
  ASSUME AllInv, NEW w \in Workers, WorkerLoops(w) \/ PluginIgnores(w)
  PROVE  FiniteInv' /\ OrderInv'
  <1> USE DEF AllInv, IInv
  <1>1. UNCHANGED <<hot, last, overtaken, missed, events, items, got, stage,
                    copied, bak, failed>>
    BY DEF WorkerLoops, PluginIgnores, Manager!WorkerTest,
           Manager!WorkerGetNothing, Manager!PluginsDone,
           Manager!PluginContinues, Manager!queueVars, userVars, dataVars
  <1>2. FiniteInv'
    BY <1>1 DEF FiniteInv, Serving
  <1>3. ASSUME NEW f \in Files PROVE InOrder(f)'
    BY <1>1, InOrderFrame DEF OrderInv, Pending
  <1>4. QED
    BY <1>2, <1>3 DEF OrderInv

(* What it means to drop the empty path: no name is lost.                  *)
LEMMA DropEffect ==
  ASSUME IInv, NEW w \in Workers, WorkerDrops(w)
  PROVE  /\ workerPc' = [workerPc EXCEPT ![w] = "test"]
         /\ items # <<>> /\ items' = Tail(items)
         /\ \A n \in Names : n \in Pending <=> n \in Pending'
         /\ UNCHANGED <<hot, last, overtaken, missed, events, got, stage, copied,
                        bak, failed, plugin>>
  <1> USE DEF IInv
  <1>1. /\ workerPc[w] = "get" /\ workerPc' = [workerPc EXCEPT ![w] = "test"]
        /\ items # <<>> /\ items' = Tail(items) /\ Head(items) = NoPath
        /\ got' = [got EXCEPT ![w] = NoPath]
        /\ UNCHANGED <<hot, last, overtaken, missed, events, stage, copied, bak,
                       failed, plugin>>
    BY DEF WorkerDrops, Manager!WorkerGetEmpty, Manager!Queue!Take,
           Manager!WorkerGoes, Manager!mainVars, Manager!queueVars, userVars,
           dataVars
  <1>2. got' = got
    BY <1>1 DEF PhaseInv, TypeOK
  <1>3. /\ Range(items) \subseteq {NoPath} \cup Range(items')
        /\ Range(items') \subseteq Range(items)
    <2>1. Range(items) \subseteq {NoPath} \cup Range(items')
      BY <1>1, RangeOfTail DEF TypeOK
    <2>2. /\ DOMAIN items = 1 .. Len(items) /\ Len(items) \in Nat
          /\ Len(items) > 0 /\ DOMAIN Tail(items) = 1 .. Len(items) - 1
          /\ \A i \in 1 .. Len(items) - 1 : Tail(items)[i] = items[i + 1]
      BY <1>1 DEF TypeOK
    <2>3. \A i \in 1 .. Len(items) - 1 : i + 1 \in 1 .. Len(items)
      BY <2>2
    <2>4. QED
      BY <1>1, <2>1, <2>2, <2>3 DEF Range
  <1>4. \A n \in Names : n \in Pending <=> n \in Pending'
    BY <1>1, <1>3, NameFacts DEF Pending
  <1>5. QED
    BY <1>1, <1>2, <1>4

LEMMA DropsInOrder ==
  ASSUME AllInv, NEW w \in Workers, WorkerDrops(w)
  PROVE  FiniteInv' /\ OrderInv'
  <1> USE DEF AllInv, IInv
  <1>1. /\ items # <<>> /\ items' = Tail(items)
        /\ \A n \in Names : n \in Pending <=> n \in Pending'
        /\ UNCHANGED <<hot, last, overtaken, missed, events, got, stage, copied,
                       bak, failed>>
    BY DropEffect
  <1>2. FiniteInv'
    BY <1>1 DEF FiniteInv, Serving
  <1>3. ASSUME NEW n \in Names, Behind(items \o events, n)
        PROVE  Behind(items' \o events', n)
    BY <1>1, <1>3, BehindTake DEF TypeOK
  <1>4. ASSUME NEW f \in Files PROVE InOrder(f)'
    <2>1. \A n \in {Plain(f), Delete(f)} : n \in Names
      BY NameFacts
    <2>2. QED
      BY <1>1, <1>3, <2>1, InOrderFrame DEF OrderInv
  <1>5. QED
    BY <1>2, <1>4 DEF OrderInv

(* A worker in the plugins has a request for a deletion, which it leaves   *)
(* only for the next item, or has done nothing yet.                        *)
LEMMA WorkerStages ==
  ASSUME IInv, StageInv, NEW w \in Workers, WorkerSucceeds(w) \/ WorkerFails(w)
  PROVE  StageInv'
  <1> USE DEF IInv, Manager!WorkerGoes, Manager!mainVars, Manager!queueVars,
              Manager!Queue!Release, userVars, workerVars, dataVars
  <1>1. CASE WorkerTakes(w)
    <2>1. /\ workerPc[w] = "get" /\ workerPc' = [workerPc EXCEPT ![w] = "plugins"]
          /\ plugin' = [plugin EXCEPT ![w] = 1]
          /\ stage[w] = "start" /\ stage' = stage
          /\ \A v \in Workers \ {w} : got'[v] = got[v]
      BY <1>1 DEF WorkerTakes, Manager!WorkerGet, Manager!Queue!Take, PhaseInv,
                  TypeOK
    <2>2. QED
      BY <2>1 DEF StageInv, TypeOK
  <1>2. CASE WorkerLoops(w) \/ PluginIgnores(w)
    <2>1. /\ got' = got /\ stage' = stage
          /\ \A v \in Workers \ {w} :
                workerPc'[v] = workerPc[v] /\ plugin'[v] = plugin[v]
      BY <1>2 DEF WorkerLoops, PluginIgnores, Manager!WorkerTest,
                  Manager!WorkerGetNothing, Manager!PluginsDone,
                  Manager!PluginContinues, TypeOK
    <2>2. CASE Manager!WorkerTest(w) \/ Manager!WorkerGetNothing(w)
      <3>1. workerPc'[w] \in {"exited", "get", "test"}
        BY <2>2 DEF Manager!WorkerTest, Manager!WorkerGetNothing, TypeOK
      <3>2. QED
        BY <2>1, <3>1 DEF StageInv
    <2>3. CASE Manager!PluginsDone(w)
      <3>1. workerPc[w] = "plugins" /\ workerPc'[w] = "backup"
        BY <2>3 DEF Manager!PluginsDone, TypeOK
      <3>2. plugin[w] # 1
        BY <2>3 DEF Manager!PluginsDone, PoolInv
      <3>3. ~IsDeleteRequest(got[w]) /\ stage[w] = "start"
        BY <3>1, <3>2 DEF StageInv
      <3>4. QED
        BY <2>1, <3>1, <3>3 DEF StageInv
    <2>4. CASE PluginIgnores(w)
      <3>1. /\ workerPc[w] = "plugins" /\ workerPc' = workerPc
            /\ ~IsDeleteRequest(got[w])
        BY <2>4 DEF PluginIgnores, Manager!PluginContinues
      <3>2. QED
        BY <2>1, <3>1 DEF StageInv
    <2>5. QED
      BY <1>2, <2>2, <2>3, <2>4 DEF WorkerLoops
  <1>3. CASE Deletes(w) \/ Copies(w)
    <2>1. PICK f \in Files :
             /\ got[w] = IF Deletes(w) THEN Delete(f) ELSE Plain(f)
             /\ workerPc[w] = IF Deletes(w) THEN "plugins" ELSE "backup"
      BY <1>3, Served
    <2>2. /\ plugin' = plugin
          /\ \A v \in Workers \ {w} :
               /\ got'[v] = got[v] /\ workerPc'[v] = workerPc[v]
               /\ \/ stage'[v] = stage[v]
                  \/ stage[v] = "write" /\ stage'[v] = "orphan"
      BY <1>3, <2>1, ServedFrame
    <2>3. \/ workerPc'[w] = "test"
          \/ /\ workerPc' = workerPc /\ got' = got
             /\ \/ DeleteSource(w) /\ stage'[w] = "erase"
                \/ /\ BackupChecks(w) \/ CopyOpens(w) \/ CopyTruncates(w)
                   /\ stage'[w] \in {"open", "truncate", "write"}
      BY <1>3 DEF Deletes, Copies, DeleteAbsent, DeleteSource, DeleteBackup,
                  BackupChecks, BackupThrows, CopyOpens, CopyTruncates,
                  CopyWrites, CopyWritesOrphan, CopyFails, DeleteThrows, Stage,
                  Manager!PluginEnds, Manager!BackupEnds, TypeOK
    <2>4. DeleteSource(w) => /\ workerPc[w] = "plugins" /\ plugin[w] = 1
                             /\ IsDeleteRequest(got[w])
      BY DEF DeleteSource, AtDelete
    <2>5. BackupChecks(w) \/ CopyOpens(w) \/ CopyTruncates(w)
            => workerPc[w] = "backup" /\ ~IsDeleteRequest(got[w])
      BY DEF BackupChecks, CopyOpens, CopyTruncates, AtBackup, StageInv
    <2>6. QED
      BY <2>2, <2>3, <2>4, <2>5 DEF StageInv
  <1>4. CASE WorkerDrops(w)
    BY <1>4, DropEffect DEF StageInv, TypeOK
  <1>5. QED
    BY <1>1, <1>2, <1>3, <1>4 DEF WorkerSucceeds, WorkerFails, Deletes, Copies

LEMMA NextAll == AllInv /\ [Next]_vars => AllInv'
  <1> SUFFICES ASSUME AllInv, [Next]_vars PROVE AllInv'
    OBVIOUS
  <1>1. IInv'
    BY NextIInv DEF AllInv
  <1>2. CASE User \/ Observer \/ UNCHANGED vars
    <2>1. UNCHANGED <<workerPc, plugin, got, stage>>
      BY <1>2 DEF User, Write, Rename, Remove, Observer, vars, userVars,
                  workerVars, dataVars
    <2>2. StageInv' /\ FiniteInv'
      BY <2>1 DEF AllInv, StageInv, FiniteInv, Serving
    <2>3. CASE UNCHANGED vars
      <3>1. UNCHANGED <<hot, last, overtaken, missed, events, items, got,
                        stage, copied, bak, failed>>
        BY <2>3 DEF vars, userVars, workerVars, dataVars
      <3>2. ASSUME NEW f \in Files PROVE InOrder(f)'
        BY <3>1, InOrderFrame DEF AllInv, IInv, OrderInv, Pending
      <3>3. QED
        BY <1>1, <2>2, <3>2 DEF AllInv, OrderInv
    <2>4. QED
      BY <1>1, <1>2, <2>2, <2>3, UserInOrder, ObserverInOrder DEF AllInv
  <1>3. ASSUME NEW w \in Workers, WorkerSucceeds(w) \/ WorkerFails(w)
        PROVE  AllInv'
    <2>1. StageInv'
      BY <1>3, WorkerStages DEF AllInv
    <2>2. FiniteInv' /\ OrderInv'
      BY <1>3, TakeInOrder, LoopsInOrder, DropsInOrder, ServedInOrder
      DEF AllInv, WorkerSucceeds, WorkerFails, Deletes, Copies
    <2>3. QED
      BY <1>1, <2>1, <2>2 DEF AllInv
  <1>4. QED
    BY <1>2, <1>3 DEF Next

LEMMA AllInvariant == SafeSpec => []AllInv
  BY InitAll, NextAll, PTL DEF SafeSpec

(* When the pipeline is quiet, nothing is pending and no worker serves a   *)
(* file. *)
LEMMA QuietFile ==
  ASSUME AllInv, Quiet, NEW f \in Files \ (overtaken \cup missed)
  PROVE  /\ DeletionComes(f) /\ BackupComes(f)
         /\ Pending = {}
         /\ \A w \in Workers : got[w] \notin {Plain(f), Delete(f)}
  <1>1. DeletionComes(f) /\ BackupComes(f)
    BY DEF AllInv, OrderInv, InOrder
  <1>2. Pending = {}
    BY DEF Quiet, Pending, Range
  <1>3. QED
    BY <1>1, <1>2, NameFacts DEF Quiet

(* For any number of workers, files and requests, copies and deletions     *)
(* that fail, and overflows of inotify's queue: when everything is worked  *)
(* off, the backup of a file that was written last has what the file       *)
(* holds, unless an I/O error cut its last copy short, or its last request *)
(* was overtaken or not reported.                                          *)
THEOREM BackupsAreCurrent == SafeSpec => []BackupIsCurrent
  <1>1. AllInv => BackupIsCurrent
    <2> SUFFICES ASSUME AllInv, Quiet,
                        NEW f \in Files \ (failed \cup overtaken \cup missed),
                        last[f] = "write", hot[Plain(f)] # Absent
                 PROVE  hot[Plain(f)] = bak[f]
      BY DEF BackupIsCurrent, IsCurrent, Plain
    <2>1. \A w \in Workers : ~Copying(w, f)
      BY QuietFile DEF Copying
    <2>2. QED
      BY <2>1, QuietFile DEF BackupComes
  <1>2. QED
    BY <1>1, AllInvariant, PTL

(* When everything is worked off, a file whose deletion was requested last *)
(* has no backup: no copy that another worker began, or that came later    *)
(* from the queue, has brought it back, unless an I/O error cut the        *)
(* deletion short, or the request was overtaken or not reported.           *)
THEOREM DeletionsAreFinal == SafeSpec => []DeletedStaysDeleted
  <1>1. AllInv => DeletedStaysDeleted
    <2> SUFFICES ASSUME AllInv, Quiet,
                        NEW f \in Files \ (failed \cup overtaken \cup missed),
                        last[f] = "delete"
                 PROVE  bak[f] = Absent
      BY DEF DeletedStaysDeleted
    <2>1. \A w \in Workers : ~Deleting(w, f)
      BY QuietFile DEF Deleting
    <2>2. QED
      BY <2>1, QuietFile DEF DeletionComes
  <1>2. QED
    BY <1>1, AllInvariant, PTL

-----------------------------------------------------------------------------
(* One worker *)

(* A file that was written last is pending, or its worker has yet to read  *)
(* it or has read what it holds, or its backup matches it if there is one. *)
Matches(f) ==
  f \notin missed /\ last[f] = "write" /\ hot[Plain(f)] # Absent =>
    \/ Plain(f) \in Pending
    \/ \E w \in Workers : Copying(w, f)
    \/ /\ \A w \in Workers : got[w] # Plain(f)
       /\ bak[f] \in {Absent, hot[Plain(f)]} \/ f \in failed

OneInv == IInv /\ StageInv /\ \A f \in Files : Matches(f)

(* A step that neither writes the file nor loses its name, and does not    *)
(* write its backup, leaves it as it is. *)
LEMMA MatchesFrame ==
  ASSUME NEW f \in Files, Matches(f),
         last'[f] = "write" => last[f] = "write",
         f \in missed => f \in missed',
         hot'[Plain(f)] \in {Absent, hot[Plain(f)]},
         Plain(f) \in Pending => Plain(f) \in Pending',
         \A w \in Workers :
           got[w] = Plain(f) \/ got'[w] = Plain(f)
             => got'[w] = got[w] /\ stage'[w] = stage[w] /\ copied'[w] = copied[w],
         \/ bak'[f] = bak[f] /\ (f \in failed => f \in failed')
         \/ bak'[f] = Absent /\ \A w \in Workers : got[w] # Plain(f)
  PROVE  Matches(f)'
  <1> SUFFICES ASSUME f \notin missed', last'[f] = "write",
                      hot'[Plain(f)] # Absent, Plain(f) \notin Pending'
               PROVE  Matches(f)'
    BY DEF Matches
  <1>1. hot'[Plain(f)] = hot[Plain(f)]
    OBVIOUS
  <1>2. CASE \E w \in Workers : Copying(w, f)
    <2>1. PICK w \in Workers : Copying(w, f)
      BY <1>2
    <2>2. bak'[f] = bak[f]
      BY <2>1 DEF Copying
    <2>3. Copying(w, f)'
      BY <1>1, <2>1, <2>2 DEF Copying
    <2>4. QED
      BY <2>3 DEF Matches
  <1>3. CASE ~\E w \in Workers : Copying(w, f)
    <2>1. /\ \A w \in Workers : got[w] # Plain(f)
          /\ bak[f] \in {Absent, hot[Plain(f)]} \/ f \in failed
      BY <1>1, <1>3 DEF Matches
    <2>2. \A w \in Workers : got'[w] # Plain(f)
      BY <2>1
    <2>3. QED
      BY <1>1, <2>1, <2>2 DEF Matches
  <1>4. QED
    BY <1>2, <1>3

LEMMA UserMatches ==
  ASSUME IInv, User, NEW f \in Files, Matches(f)
  PROVE  Matches(f)'
  <1> USE DEF IInv, workerVars, dataVars
  <1>1. ASSUME NEW n \in Names, Requested(n),
               \A m \in Names : m # n => hot'[m] \in {Absent, hot[m]},
               UNCHANGED <<items, got, stage, copied, bak, failed>>
        PROVE  Matches(f)'
    <2>1. /\ Range(events) \subseteq Range(events')
          /\ File(n) \in missed' \/ n \in Range(events')
          /\ File(n) # f => (f \in missed' <=> f \in missed)
      BY <1>1, RequestEffect
    <2>2. Pending \subseteq Pending' /\ (File(n) \in missed' \/ n \in Pending')
      BY <1>1, <2>1 DEF Pending
    <2>3. last' = [last EXCEPT ![File(n)] =
                     IF IsDeleteRequest(n) THEN "delete" ELSE "write"]
      BY <1>1 DEF Requested
    <2>4. CASE n = Plain(f)
      BY <2>2, <2>4, NameFacts DEF Matches
    <2>5. CASE n = Delete(f)
      BY <2>3, <2>5, NameFacts DEF Matches, TypeOK
    <2>6. CASE n \notin {Plain(f), Delete(f)}
      <3>1. File(n) # f /\ hot'[Plain(f)] \in {Absent, hot[Plain(f)]}
        BY <1>1, <2>6, NameFacts
      <3>2. last'[f] = last[f]
        BY <2>3, <3>1 DEF TypeOK
      <3>3. QED
        BY <1>1, <2>1, <2>2, <3>1, <3>2, MatchesFrame
    <2>7. QED
      BY <2>4, <2>5, <2>6
  <1>2. ASSUME NEW n \in Names, Write(n) PROVE Matches(f)'
    BY <1>1, <1>2 DEF Write, TypeOK
  <1>3. ASSUME NEW g \in Files, Rename(g) PROVE Matches(f)'
    <2>1. \A m \in Names : m # Delete(g) => hot'[m] \in {Absent, hot[m]}
      BY <1>3, NameFacts DEF Rename, Plain, Delete, TypeOK
    <2>2. QED
      BY <1>1, <1>3, <2>1, NameFacts DEF Rename, Delete
  <1>4. ASSUME NEW n \in Names, Remove(n) PROVE Matches(f)'
    <2>1. /\ hot' = [hot EXCEPT ![n] = Absent]
          /\ last' = [last EXCEPT ![File(n)] =
                        IF IsDeleteRequest(n) /\ last[File(n)] = "delete"
                        THEN "none" ELSE last[File(n)]]
          /\ UNCHANGED <<missed, events, items, got, stage, copied, bak, failed>>
      BY <1>4 DEF Remove
    <2>2. last'[f] = "write" => last[f] = "write"
      BY <2>1, NameFacts DEF TypeOK
    <2>3. hot'[Plain(f)] \in {Absent, hot[Plain(f)]} /\ Pending' = Pending
      BY <2>1, NameFacts DEF TypeOK, Pending
    <2>4. QED
      BY <2>1, <2>2, <2>3, MatchesFrame
  <1>5. QED
    BY <1>2, <1>3, <1>4 DEF User

LEMMA ObserverMatches ==
  ASSUME IInv, Observer, NEW f \in Files, Matches(f)
  PROVE  Matches(f)'
  <1> USE DEF IInv
  <1>1. /\ events # <<>> /\ events' = Tail(events)
        /\ items' = IF Head(events) \in Range(items) THEN items
                    ELSE Append(items, Head(events))
        /\ UNCHANGED <<hot, last, missed, got, stage, copied, bak, failed>>
    BY DEF Observer, Manager!Queue!Pushed, Manager!Queue!Range, Range, userVars,
           workerVars, dataVars
  <1>2. /\ Head(events) \in Reports
        /\ Range(events) \subseteq {Head(events)} \cup Range(events')
    BY <1>1, RangeOfTail DEF TypeOK
  <1>3. Range(items') = Range(items) \cup {Head(events)}
    BY <1>1, <1>2, RangeOfAppend DEF TypeOK
  <1>4. Pending \subseteq Pending'
    BY <1>2, <1>3 DEF Pending
  <1>5. QED
    BY <1>1, <1>4, MatchesFrame

LEMMA TakeMatches ==
  ASSUME IInv, NEW w \in Workers, WorkerTakes(w), NEW f \in Files, Matches(f)
  PROVE  Matches(f)'
  <1> USE DEF IInv
  <1>1. /\ workerPc[w] = "get" /\ items # <<>> /\ items' = Tail(items)
        /\ got' = [got EXCEPT ![w] = Head(items)]
        /\ UNCHANGED <<hot, last, missed, events, stage, copied, bak, failed>>
    BY DEF WorkerTakes, Manager!WorkerGet, Manager!Queue!Take,
           Manager!WorkerGoes, dataVars
  <1>2. /\ got[w] = NoPath /\ stage[w] = "start"
        /\ Range(items) \subseteq {Head(items)} \cup Range(items')
    BY <1>1, RangeOfTail DEF TypeOK, PhaseInv
  <1>3. CASE Head(items) = Plain(f)
    <2>1. Copying(w, f)'
      BY <1>1, <1>2, <1>3 DEF Copying, TypeOK
    <2>2. QED
      BY <2>1 DEF Matches
  <1>4. CASE Head(items) # Plain(f)
    <2>1. Plain(f) \in Pending => Plain(f) \in Pending'
      BY <1>1, <1>2, <1>4 DEF Pending
    <2>2. \A v \in Workers :
            got[v] = Plain(f) \/ got'[v] = Plain(f) => got'[v] = got[v]
      BY <1>1, <1>2, <1>4, NameFacts DEF TypeOK
    <2>3. QED
      BY <1>1, <2>1, <2>2, MatchesFrame
  <1>5. QED
    BY <1>3, <1>4

(* The only worker there is works on a file: on another one, deletes this  *)
(* one, or copies it, with nobody between its steps but the user, who      *)
(* makes the file pending if he writes it. *)
LEMMA ServedMatches ==
  ASSUME \A v, w \in Workers : v = w,
         IInv, StageInv, NEW w \in Workers, Deletes(w) \/ Copies(w),
         NEW f \in Files, Matches(f)
  PROVE  Matches(f)'
  <1> USE DEF IInv, Manager!WorkerGoes, Manager!BackupEnds,
              Manager!Queue!Release, userVars, workerVars, dataVars
  <1>1. PICK g \in Files : got[w] = IF Deletes(w) THEN Delete(g) ELSE Plain(g)
    BY Served
  <1>2. /\ UNCHANGED <<last, missed, events, items>>
        /\ \A n \in Names : n # got[w] => hot'[n] = hot[n]
        /\ \A h \in Files : h # g =>
             bak'[h] = bak[h] /\ (h \in failed <=> h \in failed')
        /\ got'[w] \in {got[w], NoPath}
    BY <1>1, ServedFrame
  <1>3. Pending' = Pending
    BY <1>2 DEF Pending
  <1>4. /\ Plain(f) \in Names /\ File(Plain(f)) = f /\ Plain(f) # NoPath
        /\ Plain(f) # Delete(g)
    BY NameFacts
  <1>5. CASE g # f
    <2>1. got[w] # Plain(f)
      BY <1>1, <1>5, NameFacts
    <2>2. QED
      BY <1>2, <1>3, <1>4, <1>5, <2>1, MatchesFrame
  <1>6. CASE Deletes(w)
    <2>1. got[w] = Delete(g) /\ got[w] # Plain(f)
      BY <1>1, <1>4, <1>6
    <2>2. \/ bak'[g] = bak[g] /\ failed \subseteq failed'
          \/ bak'[g] = Absent
      BY <1>6, <2>1, NameFacts
      DEF Deletes, DeleteAbsent, DeleteSource, DeleteBackup, DeleteThrows, TypeOK
    <2>3. QED
      BY <1>2, <1>3, <1>4, <1>5, <2>1, <2>2, MatchesFrame
  <1>7. CASE Copies(w) /\ ~Deletes(w) /\ g = f
    <2>1. got[w] = Plain(f) /\ hot' = hot
      BY <1>1, <1>7
      DEF Copies, BackupChecks, BackupThrows, CopyOpens, CopyTruncates,
          CopyWrites, CopyWritesOrphan, CopyFails
    <2> SUFFICES ASSUME f \notin missed, last[f] = "write",
                        hot[Plain(f)] # Absent, Plain(f) \notin Pending
                 PROVE  Matches(f)'
      BY <1>2, <1>3, <2>1 DEF Matches
    <2>2. Copying(w, f)
      BY <2>1 DEF Matches
    <2>3. ASSUME Copying(w, f)' PROVE Matches(f)'
      BY <2>3 DEF Matches
    <2>4. ASSUME got'[w] = NoPath, bak'[f] = hot'[Plain(f)] \/ f \in failed'
          PROVE  Matches(f)'
      BY <1>4, <2>4 DEF Matches
    <2>5. CASE BackupChecks(w)
      BY <2>3, <2>1, <2>5 DEF BackupChecks, Stage, Copying, TypeOK
    <2>6. CASE BackupThrows(w)
      BY <2>1, <2>6 DEF BackupThrows
    <2>7. CASE CopyOpens(w)
      BY <2>1, <2>3, <2>7 DEF CopyOpens, Stage, Copying, TypeOK
    <2>8. CASE CopyTruncates(w)
      BY <1>4, <2>1, <2>2, <2>3, <2>8
      DEF CopyTruncates, Stage, Copying, TypeOK
    <2>9. CASE CopyWrites(w)
      <3>1. copied[w] = hot[Plain(f)] /\ bak[f] = Torn
        BY <2>2, <2>9 DEF CopyWrites, Copying
      <3>2. /\ Readable(w) = {hot[Plain(f)]}
            /\ Written(f, hot[Plain(f)]) = {hot[Plain(f)]}
        BY <2>1, <3>1 DEF Readable, Written
      <3>3. bak' = [bak EXCEPT ![f] = hot[Plain(f)]]
        BY <1>4, <2>1, <2>9, <3>2 DEF CopyWrites
      <3>4. got'[w] = NoPath /\ bak'[f] = hot'[Plain(f)]
        BY <2>1, <2>9, <3>3 DEF CopyWrites, TypeOK
      <3>5. QED
        BY <2>4, <3>4
    <2>10. CASE CopyWritesOrphan(w)
      BY <2>2, <2>10 DEF CopyWritesOrphan, Copying
    <2>11. CASE CopyFails(w)
      <3>1. got'[w] = NoPath /\ f \in failed'
        BY <1>4, <2>1, <2>11 DEF CopyFails, TypeOK
      <3>2. QED
        BY <2>4, <3>1
    <2>12. QED
      BY <1>7, <2>5, <2>6, <2>7, <2>8, <2>9, <2>10, <2>11 DEF Copies
  <1>8. QED
    BY <1>5, <1>6, <1>7

LEMMA NextOne ==
  ASSUME \A v, w \in Workers : v = w
  PROVE  OneInv /\ [Next]_vars => OneInv'
  <1> SUFFICES ASSUME OneInv, [Next]_vars PROVE OneInv'
    OBVIOUS
  <1>1. IInv'
    BY NextIInv DEF OneInv
  <1>2. CASE User \/ Observer
    <2>1. UNCHANGED <<workerPc, plugin, got, stage>>
      BY <1>2 DEF User, Write, Rename, Remove, Observer, workerVars, dataVars
    <2>2. StageInv'
      BY <2>1 DEF OneInv, StageInv
    <2>3. QED
      BY <1>1, <1>2, <2>2, UserMatches, ObserverMatches DEF OneInv
  <1>3. ASSUME NEW w \in Workers, WorkerSucceeds(w) \/ WorkerFails(w)
        PROVE  OneInv'
    <2>1. StageInv'
      BY <1>3, WorkerStages DEF OneInv
    <2>2. ASSUME NEW f \in Files PROVE Matches(f)'
      <3>1. CASE WorkerLoops(w) \/ PluginIgnores(w)
        <4>1. UNCHANGED <<hot, last, missed, events, items, got, stage, copied,
                          bak, failed>>
          BY <3>1 DEF WorkerLoops, PluginIgnores, Manager!WorkerTest,
                 Manager!WorkerGetNothing, Manager!PluginsDone,
                 Manager!PluginContinues, Manager!queueVars, userVars, dataVars
        <4>2. QED
          BY <4>1 DEF OneInv, Matches, Pending, Copying
      <3>2. CASE WorkerDrops(w)
        <4>1. /\ \A n \in Names : n \in Pending <=> n \in Pending'
              /\ UNCHANGED <<hot, last, missed, got, stage, copied, bak, failed>>
          BY <3>2, DropEffect DEF OneInv
        <4>2. QED
          BY <4>1, NameFacts DEF OneInv, Matches, Copying
      <3>3. QED
        BY <1>3, <3>1, <3>2, TakeMatches, ServedMatches
        DEF OneInv, WorkerSucceeds, WorkerFails, Deletes, Copies
    <2>3. QED
      BY <1>1, <2>1, <2>2 DEF OneInv
  <1>4. CASE UNCHANGED vars
    BY <1>1, <1>4
    DEF OneInv, StageInv, Matches, Pending, Copying, vars, userVars,
        workerVars, dataVars
  <1>5. QED
    BY <1>2, <1>3, <1>4 DEF Next

(* One worker, and any number of files and requests: when everything is    *)
(* worked off, a backup that is there holds what its file holds, unless an *)
(* I/O error cut its last copy or deletion short, or its last request was  *)
(* not reported.  That several workers break this is therefore due to      *)
(* their number alone.                                                     *)
THEOREM OneWorkerBackupsMatch ==
  ASSUME \A v, w \in Workers : v = w
  PROVE  SafeSpec => []BackupMatchesFile
  <1>1. Init => OneInv
    <2>1. Init => IInv /\ StageInv
      BY InitAll DEF AllInv
    <2>2. Init => \A f \in Files : Matches(f)
      BY DEF Init, Matches
    <2>3. QED
      BY <2>1, <2>2 DEF OneInv
  <1>2. OneInv /\ [Next]_vars => OneInv'
    BY NextOne
  <1>3. OneInv => BackupMatchesFile
    <2> SUFFICES ASSUME OneInv, Quiet, NEW f \in Files \ (failed \cup missed),
                        last[f] = "write", bak[f] # Absent,
                        hot[Plain(f)] # Absent
                 PROVE  hot[Plain(f)] = bak[f]
      BY DEF BackupMatchesFile, IsCurrent, Plain
    <2>1. Pending = {} /\ \A w \in Workers : got[w] # Plain(f)
      BY NameFacts DEF Quiet, Pending, Range
    <2>2. QED
      BY <2>1 DEF OneInv, Matches, Copying
  <1>4. QED
    BY <1>1, <1>2, <1>3, PTL DEF SafeSpec

=============================================================================
