---------------------- MODULE FileObserverSubjectProofs --------------------
(***************************************************************************)
(* Proofs about FileObserverSubject, for any directories and files, every  *)
(* bound of the kernel's queue and every size of a batch.                  *)
(***************************************************************************)
EXTENDS FileObserverSubject, SequenceTheorems, TLAPS

-----------------------------------------------------------------------------
(* The events in a sequence *)

(* An event that is queued is added to the events; no other changes. *)
LEMMA RangeOfAppend ==
  ASSUME NEW S, NEW q \in Seq(S), NEW x \in S
  PROVE  Range(Append(q, x)) = Range(q) \cup {x}
  <1>1. /\ DOMAIN Append(q, x) = 1 .. Len(q) + 1 /\ DOMAIN q = 1 .. Len(q)
        /\ Len(q) \in Nat
    OBVIOUS
  <1>2. /\ \A i \in 1 .. Len(q) : Append(q, x)[i] = q[i]
        /\ Append(q, x)[Len(q) + 1] = x
    OBVIOUS
  <1>3. 1 .. Len(q) + 1 = 1 .. Len(q) \cup {Len(q) + 1}
    BY <1>1
  <1>4. QED
    BY <1>1, <1>2, <1>3 DEF Range

(* Leaving an event behind leaves only that one behind. *)
LEMMA RangeOfTail ==
  ASSUME NEW S, NEW q \in Seq(S), q # <<>>
  PROVE  /\ Head(q) \in S /\ Tail(q) \in Seq(S)
         /\ Range(q) \subseteq {Head(q)} \cup Range(Tail(q))
  <1>1. /\ Tail(q) \in Seq(S) /\ Head(q) \in S /\ Head(q) = q[1]
        /\ DOMAIN q = 1 .. Len(q) /\ DOMAIN Tail(q) = 1 .. Len(q) - 1
        /\ Len(q) \in Nat /\ Len(q) > 0
    OBVIOUS
  <1>2. \A i \in 1 .. Len(q) - 1 : Tail(q)[i] = q[i + 1]
    OBVIOUS
  <1>3. \A i \in 1 .. Len(q) :
          i = 1 \/ (i - 1 \in 1 .. Len(q) - 1 /\ q[i] = Tail(q)[i - 1])
    BY <1>1, <1>2
  <1>4. ASSUME NEW x \in Range(q) PROVE x \in {Head(q)} \cup Range(Tail(q))
    <2>1. PICK i \in 1 .. Len(q) : x = q[i]
      BY <1>1 DEF Range
    <2>2. CASE i = 1
      BY <1>1, <2>1, <2>2
    <2>3. CASE i # 1
      <3>1. i - 1 \in 1 .. Len(q) - 1 /\ x = Tail(q)[i - 1]
        BY <1>3, <2>1, <2>3
      <3>2. QED
        BY <1>1, <3>1 DEF Range
    <2>4. QED
      BY <2>2, <2>3
  <1>5. QED
    BY <1>1, <1>4

(* A batch and what is left in the kernel are what was queued. *)
LEMMA RangeOfSplit ==
  ASSUME NEW S, NEW q \in Seq(S), NEW n \in 1 .. Len(q)
  PROVE  /\ SubSeq(q, 1, n) \in Seq(S) /\ SubSeq(q, 1, n) # <<>>
         /\ SubSeq(q, n + 1, Len(q)) \in Seq(S)
         /\ Len(SubSeq(q, n + 1, Len(q))) <= Len(q)
         /\ Range(q) \subseteq Range(SubSeq(q, 1, n))
                               \cup Range(SubSeq(q, n + 1, Len(q)))
  <1> DEFINE a == SubSeq(q, 1, n)
             b == SubSeq(q, n + 1, Len(q))
  <1>1. n \in Nat /\ Len(q) \in Nat /\ 1 <= n /\ n <= Len(q)
        /\ DOMAIN q = 1 .. Len(q)
    OBVIOUS
  <1>2. /\ a \in Seq(S) /\ Len(a) = n /\ DOMAIN a = 1 .. n
        /\ \A i \in 1 .. n : a[i] = q[i]
    BY <1>1
  <1>3. \A i \in n + 1 .. Len(q) : q[i] \in S
    BY <1>1
  <1>4. /\ b \in Seq(S)
        /\ Len(b) = IF n + 1 <= Len(q) THEN Len(q) - (n + 1) + 1 ELSE 0
        /\ \A i \in 1 .. Len(q) - (n + 1) + 1 : b[i] = q[n + 1 + i - 1]
    BY <1>1, <1>3, SubSeqProperties
  <1> HIDE DEF a, b
  <1>5. Len(b) = Len(q) - n /\ DOMAIN b = 1 .. Len(q) - n
    <2>1. Len(b) = Len(q) - n
      <3>1. \A x, y, z \in Nat :
              x <= y /\ z = (IF x + 1 <= y THEN y - (x + 1) + 1 ELSE 0)
                => z = y - x
        OBVIOUS
      <3>2. Len(b) \in Nat
        BY <1>4
      <3>3. QED
        BY <1>1, <1>4, <3>1, <3>2, Zenon
    <2>2. DOMAIN b = 1 .. Len(b)
      BY <1>4
    <2>3. QED
      BY <2>1, <2>2
  <1>6. ASSUME NEW i \in 1 .. Len(q), i \notin 1 .. n
        PROVE  i - n \in DOMAIN b /\ q[i] = b[i - n]
    <2>1. i - n \in 1 .. Len(q) - n /\ n + 1 + (i - n) - 1 = i
      BY <1>1, <1>6
    <2>2. i - n \in 1 .. Len(q) - (n + 1) + 1
      BY <1>1, <2>1
    <2>3. b[i - n] = q[n + 1 + (i - n) - 1]
      BY <1>4, <2>2
    <2>4. QED
      BY <1>5, <2>1, <2>3
  <1>7. ASSUME NEW i \in 1 .. Len(q)
        PROVE  q[i] \in Range(a) \cup Range(b)
    <2>1. CASE i \in 1 .. n
      BY <1>2, <2>1 DEF Range
    <2>2. CASE i \notin 1 .. n
      BY <1>6, <2>2 DEF Range
    <2>3. QED
      BY <2>1, <2>2
  <1>8. Range(q) \subseteq Range(a) \cup Range(b)
    BY <1>1, <1>7 DEF Range
  <1>9. a # <<>> /\ Len(b) <= Len(q)
    BY <1>1, <1>2, <1>5
  <1>10. QED
    BY <1>2, <1>4, <1>8, <1>9 DEF a, b

(* The events of a batch that are not processed, and those that are queued. *)
LEMMA RangeOfConcat ==
  ASSUME NEW S, NEW p \in Seq(S), NEW q \in Seq(S)
  PROVE  Range(p) \cup Range(q) \subseteq Range(p \o q)
  <1>1. /\ DOMAIN (p \o q) = 1 .. Len(p) + Len(q) /\ Len(p) \in Nat
        /\ Len(q) \in Nat /\ DOMAIN p = 1 .. Len(p) /\ DOMAIN q = 1 .. Len(q)
    OBVIOUS
  <1>2. \A i \in 1 .. Len(p) :
          (p \o q)[i] = p[i] /\ i \in 1 .. Len(p) + Len(q)
    BY <1>1
  <1>3. \A i \in 1 .. Len(q) :
          /\ (p \o q)[Len(p) + i] = q[i]
          /\ Len(p) + i \in 1 .. Len(p) + Len(q)
    BY <1>1
  <1>4. QED
    BY <1>1, <1>2, <1>3 DEF Range

-----------------------------------------------------------------------------
(* The inductive invariant *)

(* A descriptor that was not given out is in use nowhere. *)
FreshInv ==
  \A wd \in Descriptors :
    wd > lastWd => /\ live[wd] = NoDir /\ wd \notin renamed
                   /\ m_watchToFilepathIndex[wd] = NoDir

(* What an event that is not skipped tells the callback. *)
Tells(e, c) == e.mask # "subdir" /\ c = <<e.wd, e.file>>

(* NoEventLost, over the events instead of the sequences. *)
LossInv ==
  \A c \in unseen : \E e \in Range(batch) \cup Range(queue) : Tells(e, c)

IInv == SubjectTypeOK /\ IndexesAgree /\ FreshInv /\ LossInv

LEMMA InitIInv == SubjectInit => IInv
  <1> SUFFICES ASSUME SubjectInit PROVE IInv
    OBVIOUS
  <1> USE SubjectAssumption
  <1>1. /\ live \in [Descriptors -> Dirs \cup {NoDir}]
        /\ m_watchToFilepathIndex \in [Descriptors -> Dirs \cup {NoDir}]
        /\ m_filepathToWatchIndex \in [Dirs -> 0 .. MaxWatches]
    BY DEF SubjectInit
  <1>2. /\ queue = <<>> /\ batch = <<>> /\ queue \in Seq(Events)
        /\ batch \in Seq(Events) /\ Len(queue) <= MaxQueue + 1
        /\ lastWd \in 0 .. MaxWatches
    BY DEF SubjectInit
  <1>3. SubjectTypeOK
    BY <1>1, <1>2, Zenon DEF SubjectInit, SubjectTypeOK
  <1>4. IndexesAgree /\ FreshInv /\ LossInv
    BY DEF SubjectInit, IndexesAgree, FreshInv, LossInv
  <1>5. QED
    BY <1>3, <1>4 DEF IInv

-----------------------------------------------------------------------------
(* The kernel *)

(* A queued event is among the events, and those before it still are. *)
LEMMA QueuedEvents ==
  ASSUME SubjectTypeOK, NEW e \in Events
  PROVE  /\ Queued(e) \in Seq(Events) /\ Len(Queued(e)) <= MaxQueue + 1
         /\ Range(queue) \subseteq Range(Queued(e))
         /\ IsQueued(e) => e \in Range(Queued(e))
  <1> USE SubjectAssumption
  <1>1. /\ queue \in Seq(Events) /\ Len(queue) \in Nat
        /\ Len(queue) <= MaxQueue + 1 /\ Overflow \in Events
        /\ MaxQueue \in Nat
    BY DEF SubjectTypeOK, Overflow, Event, Events, Masks
  <1>2. CASE Merges(e)
    <2>1. Len(queue) \in DOMAIN queue
      BY <1>1, <1>2 DEF Merges
    <2>2. e \in Range(queue)
      BY <1>2, <2>1 DEF Merges, Last, Range
    <2>3. Queued(e) = queue
      BY <1>2 DEF Queued
    <2>4. QED
      BY <1>1, <2>2, <2>3
  <1>3. CASE ~Merges(e) /\ Len(queue) < MaxQueue
    <2>1. Queued(e) = Append(queue, e)
      BY <1>3 DEF Queued
    <2>2. Append(queue, e) \in Seq(Events)
          /\ Len(Append(queue, e)) = Len(queue) + 1
      BY <1>1
    <2>3. QED
      BY <1>1, <1>3, <2>1, <2>2, RangeOfAppend
  <1>4. CASE ~Merges(e) /\ Len(queue) = MaxQueue
    <2>1. Queued(e) = Append(queue, Overflow)
      BY <1>1, <1>4 DEF Queued
    <2>2. Append(queue, Overflow) \in Seq(Events)
          /\ Len(Append(queue, Overflow)) = Len(queue) + 1
      BY <1>1
    <2>3. ~IsQueued(e)
      BY <1>1, <1>4 DEF IsQueued
    <2>4. QED
      BY <1>1, <1>4, <2>1, <2>2, <2>3, RangeOfAppend
  <1>5. CASE ~Merges(e) /\ ~(Len(queue) < MaxQueue) /\ Len(queue) # MaxQueue
    <2>1. Queued(e) = queue
      BY <1>5 DEF Queued
    <2>2. ~IsQueued(e)
      BY <1>5 DEF IsQueued
    <2>3. QED
      BY <1>1, <2>1, <2>2
  <1>6. QED
    BY <1>2, <1>3, <1>4, <1>5

-----------------------------------------------------------------------------
(* What the steps have in common *)

(* No event is lost by a step that keeps all events, and after which the   *)
(* callback has nothing more to be told of. *)
LEMMA LossFrame ==
  ASSUME LossInv, unseen' \subseteq unseen,
         Range(batch) \cup Range(queue) \subseteq Range(batch') \cup Range(queue')
  PROVE  LossInv'
  <1>1. ASSUME NEW c \in unseen'
        PROVE  \E e \in Range(batch') \cup Range(queue') : Tells(e, c)
    BY DEF LossInv
  <1>2. QED
    BY <1>1 DEF LossInv, Tells

(* The indexes agree still where only a watch goes, if any does. *)
LEMMA IndexFrame ==
  ASSUME IndexesAgree, FreshInv, UNCHANGED <<lastWd, indexVars, renamed>>,
         \A wd \in Descriptors : live'[wd] \in {live[wd], NoDir}
  PROVE  IndexesAgree' /\ FreshInv'
  BY DEF IndexesAgree, FreshInv, indexVars

-----------------------------------------------------------------------------
(* The user *)

LEMMA ChangePreserves ==
  ASSUME IInv, NEW d \in Dirs, NEW f \in Files,
         NEW mask \in UserMasks, Change(d, f, mask)
  PROVE  IInv'
  <1> USE SubjectAssumption DEF IInv
  <1>1. PICK wd \in Descriptors :
          /\ live[wd] = d
          /\ queue' = Queued(Event(wd, f, mask))
          /\ unseen' = IF mask # "subdir" /\ IsQueued(Event(wd, f, mask))
                         THEN unseen \cup {<<wd, f>>} ELSE unseen
    BY DEF Change
  <1> DEFINE e == Event(wd, f, mask)
  <1>2. UNCHANGED <<kernelVars, indexVars, readerVars, misled, renamed>>
    BY DEF Change
  <1>3. e \in Events /\ e.wd = wd /\ e.file = f /\ e.mask = mask
    BY DEF Event, Events, Descriptors, Masks
  <1>4. /\ queue' \in Seq(Events) /\ Len(queue') <= MaxQueue + 1
        /\ Range(queue) \subseteq Range(queue')
        /\ IsQueued(e) => e \in Range(queue')
    BY <1>1, <1>3, QueuedEvents
  <1>5. SubjectTypeOK'
    <2>1. unseen' \subseteq Changes
      BY <1>1 DEF SubjectTypeOK, Changes
    <2>2. QED
      BY <1>2, <1>4, <2>1
      DEF SubjectTypeOK, kernelVars, indexVars, readerVars, Changes, Descriptors
  <1>6. IndexesAgree' /\ FreshInv'
    BY <1>2, IndexFrame DEF kernelVars
  <1>7. LossInv'
    <2>1. ASSUME NEW c \in unseen
          PROVE  \E x \in Range(batch') \cup Range(queue') : Tells(x, c)
      <3>1. PICK x \in Range(batch) \cup Range(queue) : Tells(x, c)
        BY DEF LossInv
      <3>2. x \in Range(batch') \cup Range(queue')
        BY <1>2, <1>4 DEF readerVars
      <3>3. QED
        BY <3>1, <3>2
    <2>2. ASSUME NEW c \in unseen'
          PROVE  \E x \in Range(batch') \cup Range(queue') : Tells(x, c)
      <3>1. CASE c \in unseen
        BY <2>1, <3>1
      <3>2. CASE c \notin unseen
        <4>1. mask # "subdir" /\ IsQueued(e) /\ c = <<wd, f>>
          BY <1>1, <2>2, <3>2
        <4>2. e \in Range(queue') /\ Tells(e, c)
          BY <1>3, <1>4, <4>1 DEF Tells
        <4>3. QED
          BY <4>2
      <3>3. QED
        BY <3>1, <3>2
    <2>3. QED
      BY <2>2 DEF LossInv, Tells
  <1>8. QED
    BY <1>5, <1>6, <1>7

LEMMA DirPreserves ==
  ASSUME IInv, NEW d \in Dirs, RemoveDir(d) \/ CreateDir(d)
  PROVE  IInv'
  <1> USE SubjectAssumption DEF IInv
  <1>1. UNCHANGED <<lastWd, indexVars, readerVars, historyVars>>
        /\ present' \subseteq Dirs
    BY DEF RemoveDir, CreateDir, SubjectTypeOK
  <1> DEFINE KernelKeeps ==
               /\ live' \in [Descriptors -> Dirs \cup {NoDir}]
               /\ \A wd \in Descriptors : live'[wd] \in {live[wd], NoDir}
               /\ queue' \in Seq(Events) /\ Len(queue') <= MaxQueue + 1
               /\ Range(queue) \subseteq Range(queue')
  <1>2. KernelKeeps
    <2>1. CASE UNCHANGED <<live, queue>>
      BY <2>1 DEF SubjectTypeOK
    <2>2. ASSUME NEW wd \in Descriptors, live' = [live EXCEPT ![wd] = NoDir],
                 queue' = Queued(Ignored(wd))
          PROVE  KernelKeeps
      <3>1. Ignored(wd) \in Events
        BY DEF Ignored, Event, Events, Descriptors, Masks
      <3>2. live' \in [Descriptors -> Dirs \cup {NoDir}]
            /\ \A x \in Descriptors : live'[x] \in {live[x], NoDir}
        BY <2>2 DEF SubjectTypeOK
      <3>3. QED
        BY <2>2, <3>1, <3>2, QueuedEvents
    <2>3. QED
      BY <2>1, <2>2 DEF RemoveDir, CreateDir
  <1>3. SubjectTypeOK'
    BY <1>1, <1>2
    DEF SubjectTypeOK, indexVars, readerVars, historyVars, Changes, Descriptors
  <1>4. IndexesAgree' /\ FreshInv'
    BY <1>1, <1>2, IndexFrame DEF historyVars
  <1>5. LossInv'
    BY <1>1, <1>2, LossFrame DEF readerVars, historyVars
  <1>6. QED
    BY <1>3, <1>4, <1>5

LEMMA RenameDirPreserves ==
  ASSUME IInv, NEW d \in Dirs, NEW e \in Dirs, RenameDir(d, e)
  PROVE  IInv'
  <1> USE SubjectAssumption DEF IInv
  <1>1. /\ present' = (present \ {d}) \cup {e}
        /\ live' = [wd \in Descriptors |-> IF live[wd] = d THEN e ELSE live[wd]]
        /\ renamed' = renamed \cup {wd \in Descriptors : live[wd] = d}
        /\ UNCHANGED <<lastWd, queue, indexVars, readerVars, unseen, misled>>
    BY DEF RenameDir
  <1>2. SubjectTypeOK'
    <2>1. present' \subseteq Dirs /\ renamed' \subseteq Descriptors
      BY <1>1 DEF SubjectTypeOK
    <2>2. live' \in [Descriptors -> Dirs \cup {NoDir}]
      BY <1>1 DEF SubjectTypeOK
    <2>3. QED
      BY <1>1, <2>1, <2>2
      DEF SubjectTypeOK, indexVars, readerVars, Changes, Descriptors
  <1>3. \A wd \in Descriptors \ renamed' : live'[wd] = live[wd]
    BY <1>1
  <1>4. IndexesAgree'
    BY <1>1, <1>3 DEF IndexesAgree, indexVars
  <1>5. FreshInv'
    BY <1>1, <1>3 DEF FreshInv, indexVars
  <1>6. LossInv'
    BY <1>1, LossFrame DEF readerVars
  <1>7. QED
    BY <1>2, <1>4, <1>5, <1>6

-----------------------------------------------------------------------------
(* add_file() and remove_file() *)

(* A descriptor that add_file() gets again belongs to a renamed directory. *)
LEMMA WatchIsNewOrRenamed ==
  ASSUME IInv, NEW d \in Dirs, NEW wd \in Descriptors, WatchFor(d, wd),
         m_filepathToWatchIndex[d] = 0
  PROVE  \/ wd \in renamed
         \/ \A x \in Dirs : m_filepathToWatchIndex[x] # wd
  <1> USE SubjectAssumption DEF IInv
  <1>0. wd \in Nat \ {0} /\ lastWd \in Nat
    BY DEF SubjectTypeOK, Descriptors
  <1>1. CASE live[wd] = d
    <2>1. wd \notin renamed => m_watchToFilepathIndex[wd] = d
      BY <1>1 DEF IndexesAgree
    <2>2. m_watchToFilepathIndex[wd] = d => m_filepathToWatchIndex[d] = wd
      BY DEF IndexesAgree
    <2>3. QED
      BY <1>0, <2>1, <2>2
  <1>2. CASE wd = lastWd + 1
    <2>1. wd \notin renamed /\ m_watchToFilepathIndex[wd] = NoDir
      BY <1>0, <1>2 DEF FreshInv
    <2>2. ASSUME NEW x \in Dirs, m_filepathToWatchIndex[x] = wd
          PROVE  FALSE
      <3>1. m_watchToFilepathIndex[wd] = x
        BY <1>0, <2>1, <2>2 DEF IndexesAgree
      <3>2. QED
        BY <2>1, <3>1
    <2>3. QED
      BY <2>2
  <1>3. QED
    BY <1>1, <1>2 DEF WatchFor

LEMMA AddFilePreserves ==
  ASSUME IInv, NEW d \in Dirs, AddFile(d)
  PROVE  IInv'
  <1> USE SubjectAssumption DEF IInv
  <1>1. PICK wd \in Descriptors :
          /\ WatchFor(d, wd)
          /\ live' = [live EXCEPT ![wd] = d]
          /\ lastWd' = IF Watched(d) THEN lastWd ELSE wd
          /\ m_filepathToWatchIndex' = [m_filepathToWatchIndex EXCEPT ![d] = wd]
          /\ m_watchToFilepathIndex' = [m_watchToFilepathIndex EXCEPT ![wd] = d]
    BY DEF AddFile
  <1>2. /\ m_filepathToWatchIndex[d] = 0
        /\ UNCHANGED <<present, queue, readerVars, historyVars>>
    BY DEF AddFile
  <1>3. /\ wd \in Nat \ {0} /\ wd <= MaxWatches /\ lastWd \in Nat
        /\ \A y \in Descriptors : y \in Nat \ {0}
    BY DEF SubjectTypeOK, Descriptors
  <1>4. lastWd' \in 0 .. MaxWatches /\ lastWd <= lastWd' /\ wd <= lastWd'
    <2>1. CASE Watched(d)
      <3>1. live[wd] = d
        BY <1>1, <2>1 DEF WatchFor
      <3>2. wd <= lastWd
        BY <1>3, <3>1 DEF FreshInv
      <3>3. QED
        BY <1>1, <1>3, <2>1, <3>2 DEF SubjectTypeOK
    <2>2. CASE ~Watched(d)
      <3>1. wd = lastWd + 1
        BY <1>1, <2>2 DEF WatchFor, Watched
      <3>2. QED
        BY <1>1, <1>3, <2>2, <3>1
    <2>3. QED
      BY <2>1, <2>2
  <1>5. /\ live' \in [Descriptors -> Dirs \cup {NoDir}]
        /\ m_watchToFilepathIndex' \in [Descriptors -> Dirs \cup {NoDir}]
        /\ m_filepathToWatchIndex' \in [Dirs -> 0 .. MaxWatches]
    BY <1>1, <1>3 DEF SubjectTypeOK
  <1>6. SubjectTypeOK'
    BY <1>2, <1>4, <1>5
    DEF SubjectTypeOK, readerVars, historyVars, Changes, Descriptors
  <1>7. FreshInv'
    <2>1. ASSUME NEW y \in Descriptors, y > lastWd'
          PROVE  y # wd /\ y > lastWd
      BY <1>3, <1>4, <2>1
    <2>2. QED
      BY <1>1, <1>2, <2>1 DEF FreshInv, SubjectTypeOK, historyVars
  <1>8. IndexesAgree'
    <2>1. ASSUME NEW x \in Dirs, m_filepathToWatchIndex'[x] \notin renamed \cup {0}
          PROVE  m_watchToFilepathIndex'[m_filepathToWatchIndex'[x]] = x
      <3>1. CASE x = d
        BY <1>1, <3>1 DEF SubjectTypeOK
      <3>2. CASE x # d
        <4>1. m_filepathToWatchIndex'[x] = m_filepathToWatchIndex[x]
              /\ m_filepathToWatchIndex[x] \in Descriptors
          BY <1>1, <2>1, <3>2 DEF SubjectTypeOK, Descriptors
        <4>2. m_watchToFilepathIndex[m_filepathToWatchIndex[x]] = x
          BY <2>1, <4>1 DEF IndexesAgree
        <4>3. m_filepathToWatchIndex[x] # wd
          BY <1>1, <1>2, <2>1, <4>1, WatchIsNewOrRenamed
        <4>4. QED
          BY <1>1, <4>1, <4>2, <4>3 DEF SubjectTypeOK
      <3>3. QED
        BY <3>1, <3>2
    <2>2. ASSUME NEW y \in Descriptors, m_watchToFilepathIndex'[y] # NoDir
          PROVE  m_filepathToWatchIndex'[m_watchToFilepathIndex'[y]] = y
      <3>1. CASE y = wd
        BY <1>1, <3>1 DEF SubjectTypeOK
      <3>2. CASE y # wd
        <4>1. m_watchToFilepathIndex'[y] = m_watchToFilepathIndex[y]
          BY <1>1, <3>2 DEF SubjectTypeOK
        <4>2. m_filepathToWatchIndex[m_watchToFilepathIndex[y]] = y
          BY <2>2, <4>1 DEF IndexesAgree
        <4>3. m_watchToFilepathIndex[y] # d /\ m_watchToFilepathIndex[y] \in Dirs
          BY <1>2, <1>3, <2>2, <4>1, <4>2 DEF SubjectTypeOK
        <4>4. QED
          BY <1>1, <4>1, <4>2, <4>3 DEF SubjectTypeOK
      <3>3. QED
        BY <3>1, <3>2
    <2>3. ASSUME NEW y \in Descriptors \ renamed, live'[y] # NoDir
          PROVE  m_watchToFilepathIndex'[y] = live'[y]
      BY <1>1, <2>3 DEF IndexesAgree, SubjectTypeOK
    <2>4. renamed' = renamed
      BY <1>2 DEF historyVars
    <2>5. QED
      BY <2>1, <2>2, <2>3, <2>4 DEF IndexesAgree
  <1>9. LossInv'
    BY <1>2, LossFrame DEF readerVars, historyVars
  <1>10. QED
    BY <1>6, <1>7, <1>8, <1>9

LEMMA RemoveFilePreserves ==
  ASSUME IInv, NEW d \in Dirs, RemoveFile(d)
  PROVE  IInv'
  <1> USE SubjectAssumption DEF IInv
  <1> DEFINE wd == m_filepathToWatchIndex[d]
  <1>1. wd \in Descriptors /\ wd # 0
    BY DEF RemoveFile, SubjectTypeOK, Descriptors
  <1>2. /\ live' = [live EXCEPT ![wd] = NoDir]
        /\ queue' = Queued(Ignored(wd))
        /\ m_filepathToWatchIndex' = [m_filepathToWatchIndex EXCEPT ![d] = 0]
        /\ m_watchToFilepathIndex' = [m_watchToFilepathIndex EXCEPT ![wd] = NoDir]
        /\ unseen' = unseen \ ({wd} \X Files)
        /\ UNCHANGED <<present, lastWd, readerVars, misled, renamed>>
    BY DEF RemoveFile
  <1>3. \A y \in Descriptors : m_watchToFilepathIndex[y] = d => y = wd
    BY DEF IndexesAgree
  <1>4. wd \notin renamed => m_watchToFilepathIndex[wd] = d
    BY <1>1 DEF IndexesAgree
  <1> HIDE DEF wd
  <1>5. /\ queue' \in Seq(Events) /\ Len(queue') <= MaxQueue + 1
        /\ Range(queue) \subseteq Range(queue')
    <2>1. Ignored(wd) \in Events
      BY <1>1 DEF Ignored, Event, Events, Descriptors, Masks
    <2>2. QED
      BY <1>2, <2>1, QueuedEvents
  <1>6. /\ live' \in [Descriptors -> Dirs \cup {NoDir}]
        /\ m_watchToFilepathIndex' \in [Descriptors -> Dirs \cup {NoDir}]
        /\ m_filepathToWatchIndex' \in [Dirs -> 0 .. MaxWatches]
    BY <1>1, <1>2 DEF SubjectTypeOK
  <1>7. SubjectTypeOK'
    BY <1>2, <1>5, <1>6 DEF SubjectTypeOK, readerVars, Changes, Descriptors
  <1>8. FreshInv'
    BY <1>2 DEF FreshInv, SubjectTypeOK
  <1>9. IndexesAgree'
    <2>1. ASSUME NEW x \in Dirs, m_filepathToWatchIndex'[x] \notin renamed \cup {0}
          PROVE  m_watchToFilepathIndex'[m_filepathToWatchIndex'[x]] = x
      <3>1. x # d /\ m_filepathToWatchIndex'[x] = m_filepathToWatchIndex[x]
            /\ m_filepathToWatchIndex[x] \in Descriptors
        BY <1>2, <2>1 DEF SubjectTypeOK, Descriptors
      <3>2. m_watchToFilepathIndex[m_filepathToWatchIndex[x]] = x
        BY <2>1, <3>1 DEF IndexesAgree
      <3>3. m_filepathToWatchIndex[x] # wd
        BY <1>4, <2>1, <3>1, <3>2
      <3>4. QED
        BY <1>2, <3>1, <3>2, <3>3 DEF SubjectTypeOK
    <2>2. ASSUME NEW x \in Descriptors, m_watchToFilepathIndex'[x] # NoDir
          PROVE  m_filepathToWatchIndex'[m_watchToFilepathIndex'[x]] = x
      <3>1. x # wd /\ m_watchToFilepathIndex'[x] = m_watchToFilepathIndex[x]
        BY <1>1, <1>2, <2>2 DEF SubjectTypeOK
      <3>2. m_filepathToWatchIndex[m_watchToFilepathIndex[x]] = x
            /\ m_watchToFilepathIndex[x] \in Dirs
        BY <2>2, <3>1 DEF IndexesAgree, SubjectTypeOK
      <3>3. m_watchToFilepathIndex[x] # d
        BY <1>3, <3>1
      <3>4. QED
        BY <1>2, <3>1, <3>2, <3>3 DEF SubjectTypeOK
    <2>3. ASSUME NEW x \in Descriptors \ renamed, live'[x] # NoDir
          PROVE  m_watchToFilepathIndex'[x] = live'[x]
      BY <1>1, <1>2, <2>3 DEF IndexesAgree, SubjectTypeOK
    <2>4. QED
      BY <1>2, <2>1, <2>2, <2>3 DEF IndexesAgree
  <1>10. LossInv'
    <2>1. unseen' \subseteq unseen /\ batch' = batch
      BY <1>2 DEF readerVars
    <2>2. QED
      BY <1>5, <2>1, LossFrame
  <1>11. QED
    BY <1>7, <1>8, <1>9, <1>10

-----------------------------------------------------------------------------
(* get_changed_files_list() *)

(* Reading touches neither the indexes nor the watches. *)
LEMMA ReaderFrame ==
  ASSUME IInv, UNCHANGED <<kernelVars, indexVars, renamed>>
  PROVE  IndexesAgree' /\ FreshInv'
  <1>1. \A wd \in Descriptors : live'[wd] \in {live[wd], NoDir}
    BY DEF kernelVars
  <1>2. QED
    BY <1>1, IndexFrame DEF IInv, kernelVars

(* The reader's part of the type, as far as it reads on with the rest of   *)
(* the batch or, when there is none or the callback refused, without. *)
LEMMA NextEventTypes ==
  ASSUME SubjectTypeOK, readerPc = "deliver", NEW continue \in BOOLEAN,
         NextEvent(continue)
  PROVE  /\ batch \in Seq(Events) /\ batch # <<>>
         /\ batch' \in Seq(Events)
         /\ readerPc' \in {"idle", "read", "deliver"}
         /\ readerPc' = "deliver" <=> batch' # <<>>
  <1>1. batch \in Seq(Events) /\ batch # <<>>
    BY DEF SubjectTypeOK
  <1>2. Tail(batch) \in Seq(Events) /\ <<>> \in Seq(Events)
    BY <1>1, RangeOfTail
  <1>3. QED
    BY <1>1, <1>2 DEF NextEvent

LEMMA ReadPreserves ==
  ASSUME IInv, GetCall \/ ReadNothing \/ Read
  PROVE  IInv'
  <1> USE SubjectAssumption DEF IInv
  <1>1. UNCHANGED <<kernelVars, indexVars, historyVars>>
    BY DEF GetCall, ReadNothing, Read
  <1>2. /\ queue' \in Seq(Events) /\ Len(queue') <= MaxQueue + 1
        /\ batch' \in Seq(Events)
        /\ readerPc' \in {"idle", "read", "deliver"}
        /\ readerPc' = "deliver" <=> batch' # <<>>
        /\ Range(batch) \cup Range(queue) \subseteq Range(batch') \cup Range(queue')
    <2>1. CASE GetCall \/ ReadNothing
      BY <2>1 DEF GetCall, ReadNothing, SubjectTypeOK
    <2>2. CASE Read
      <3>1. PICK n \in 1 .. MaxBatch :
              /\ n <= Len(queue)
              /\ batch' = SubSeq(queue, 1, n)
              /\ queue' = SubSeq(queue, n + 1, Len(queue))
        BY <2>2 DEF Read
      <3>2. queue \in Seq(Events) /\ n \in 1 .. Len(queue)
            /\ Len(queue) <= MaxQueue + 1
        BY <3>1 DEF SubjectTypeOK
      <3>3. /\ batch' \in Seq(Events) /\ batch' # <<>> /\ queue' \in Seq(Events)
            /\ Len(queue') <= Len(queue)
            /\ Range(queue) \subseteq Range(batch') \cup Range(queue')
        BY <3>1, <3>2, RangeOfSplit
      <3>4. Len(queue') <= MaxQueue + 1
        BY <3>2, <3>3
      <3>5. batch = <<>> /\ readerPc' = "deliver"
        BY <2>2 DEF Read, SubjectTypeOK
      <3>6. Range(batch) = {}
        BY <3>5 DEF Range
      <3>7. QED
        BY <3>3, <3>4, <3>5, <3>6
    <2>3. QED
      BY <2>1, <2>2
  <1>3. SubjectTypeOK'
    BY <1>1, <1>2
    DEF SubjectTypeOK, kernelVars, indexVars, historyVars, Changes, Descriptors
  <1>4. LossInv'
    BY <1>1, <1>2, LossFrame DEF historyVars
  <1>5. QED
    BY <1>1, <1>3, <1>4, ReaderFrame DEF historyVars

LEMMA SkipSubdirPreserves == IInv /\ SkipSubdir => IInv'
  <1> SUFFICES ASSUME IInv, SkipSubdir PROVE IInv'
    OBVIOUS
  <1> USE DEF IInv
  <1>1. /\ UNCHANGED <<kernelVars, queue, indexVars, historyVars>>
        /\ readerPc = "deliver" /\ Head(batch).mask = "subdir"
        /\ NextEvent(TRUE)
    BY DEF SkipSubdir
  <1>2. /\ batch \in Seq(Events) /\ batch # <<>> /\ batch' \in Seq(Events)
        /\ readerPc' \in {"idle", "read", "deliver"}
        /\ readerPc' = "deliver" <=> batch' # <<>>
    BY <1>1, NextEventTypes
  <1>3. SubjectTypeOK'
    BY <1>1, <1>2
    DEF SubjectTypeOK, kernelVars, indexVars, historyVars, Changes, Descriptors
  <1>4. Range(batch) \subseteq {Head(batch)} \cup Range(batch')
    BY <1>1, <1>2, RangeOfTail DEF NextEvent
  <1>5. LossInv'
    <2>1. ASSUME NEW c \in unseen, NEW e \in Range(batch) \cup Range(queue),
                 Tells(e, c)
          PROVE  e \in Range(batch') \cup Range(queue') /\ Tells(e, c)'
      BY <1>1, <1>4, <2>1 DEF Tells
    <2>2. QED
      BY <1>1, <2>1 DEF LossInv, historyVars
  <1>6. QED
    BY <1>1, <1>3, <1>5, ReaderFrame DEF historyVars

LEMMA DeliverPreserves ==
  ASSUME IInv, NEW continue \in BOOLEAN, Deliver(continue)
  PROVE  IInv'
  <1> USE DEF IInv
  <1> DEFINE head == Head(batch)
             change == <<head.wd, head.file>>
  <1>1. /\ UNCHANGED <<kernelVars, queue, indexVars, renamed>>
        /\ readerPc = "deliver" /\ NextEvent(continue)
        /\ misled' \in BOOLEAN
        /\ unseen' = IF continue THEN unseen \ {change}
                     ELSE (unseen \ {change}) \cap Pending(queue)
    BY DEF Deliver
  <1>2. /\ batch \in Seq(Events) /\ batch # <<>> /\ batch' \in Seq(Events)
        /\ readerPc' \in {"idle", "read", "deliver"}
        /\ readerPc' = "deliver" <=> batch' # <<>>
    BY <1>1, NextEventTypes
  <1>3. unseen' \subseteq unseen \ {change}
    BY <1>1
  <1>4. SubjectTypeOK'
    BY <1>1, <1>2, <1>3
    DEF SubjectTypeOK, kernelVars, indexVars, Changes, Descriptors
  <1>5. LossInv'
    <2>1. ASSUME NEW e, NEW c, Tells(e, c)
          PROVE  Tells(e, c)'
      BY <1>1, <2>1 DEF Tells
    <2>2. CASE continue
      <3>1. Range(batch) \subseteq {head} \cup Range(batch')
        BY <1>1, <1>2, <2>2, RangeOfTail DEF NextEvent
      <3>2. ASSUME NEW c \in unseen', NEW e \in Range(batch) \cup Range(queue),
                   Tells(e, c)
            PROVE  e \in Range(batch') \cup Range(queue')
        <4>1. c # change
          BY <1>3
        <4>2. e # head
          BY <3>2, <4>1 DEF Tells
        <4>3. QED
          BY <1>1, <3>1, <4>2
      <3>3. QED
        BY <1>3, <2>1, <3>2 DEF LossInv
    <2>3. CASE ~continue
      <3>1. ASSUME NEW c \in unseen'
            PROVE  \E e \in Range(queue) : Tells(e, c)
        <4>1. c \in Pending(queue)
          BY <1>1, <2>3
        <4>2. QED
          BY <4>1 DEF Pending, Tells
      <3>2. QED
        BY <1>1, <2>1, <3>1 DEF LossInv
    <2>4. QED
      BY <2>2, <2>3
  <1>6. QED
    BY <1>1, <1>4, <1>5, ReaderFrame DEF historyVars

-----------------------------------------------------------------------------
LEMMA NextIInv == IInv /\ [SubjectNext]_subjectVars => IInv'
  <1> SUFFICES ASSUME IInv, [SubjectNext]_subjectVars PROVE IInv'
    OBVIOUS
  <1>1. CASE UNCHANGED subjectVars
    <2>1. UNCHANGED <<kernelVars, queue, indexVars, readerVars, historyVars>>
      BY <1>1 DEF subjectVars
    <2>2. SubjectTypeOK'
      BY <2>1 DEF IInv, SubjectTypeOK, kernelVars, indexVars, readerVars,
                  historyVars, Changes, Descriptors
    <2>3. LossInv'
      BY <2>1, LossFrame DEF IInv, readerVars, historyVars
    <2>4. QED
      BY <2>1, <2>2, <2>3, ReaderFrame DEF IInv, historyVars
  <1>2. CASE SubjectUser
    BY <1>2, ChangePreserves, DirPreserves, RenameDirPreserves DEF SubjectUser
  <1>3. ASSUME NEW d \in Dirs, AddFile(d) \/ RemoveFile(d)
        PROVE  IInv'
    BY <1>3, AddFilePreserves, RemoveFilePreserves
  <1>4. CASE GetCall \/ ReadNothing \/ Read
    BY <1>4, ReadPreserves
  <1>5. CASE SkipSubdir
    BY <1>5, SkipSubdirPreserves
  <1>6. ASSUME NEW c \in BOOLEAN, Deliver(c)
        PROVE  IInv'
    BY <1>6, DeliverPreserves
  <1>7. QED
    BY <1>1, <1>2, <1>3, <1>4, <1>5, <1>6 DEF SubjectNext, Reader

THEOREM InductiveInvariant == SubjectSpec => []IInv
  <1>1. QED
    BY InitIInv, NextIInv, PTL DEF SubjectSpec

(* Type correctness: whatever the user, the callbacks and the kernel do,   *)
(* the variables keep their types; in particular the reader processes an   *)
(* event only when there is one in the batch. *)
THEOREM TypeCorrect == SubjectSpec => []SubjectTypeOK
  <1>1. IInv => SubjectTypeOK
    BY DEF IInv
  <1>2. QED
    BY <1>1, InductiveInvariant, PTL

(* The two indexes of add_file() and remove_file() stay inverse to each    *)
(* other, and every watch of the kernel can be looked up. *)
THEOREM IndexesAlwaysAgree == SubjectSpec => []IndexesAgree
  <1>1. IInv => IndexesAgree
    BY DEF IInv
  <1>2. QED
    BY <1>1, InductiveInvariant, PTL

(* get_changed_files_list() loses no change that the kernel has queued,    *)
(* for every size of the batches and wherever events are skipped.          *)
THEOREM NoEventIsLost == SubjectSpec => []NoEventLost
  <1>1. IInv => NoEventLost
    <2> SUFFICES ASSUME IInv PROVE NoEventLost
      OBVIOUS
    <2>1. Range(batch) \cup Range(queue) \subseteq Range(batch \o queue)
      BY RangeOfConcat DEF IInv, SubjectTypeOK
    <2>2. ASSUME NEW c \in unseen
          PROVE  c \in Pending(batch \o queue)
      <3>1. PICK e \in Range(batch) \cup Range(queue) : Tells(e, c)
        BY DEF IInv, LossInv
      <3>2. QED
        BY <2>1, <3>1 DEF Pending, Tells
    <2>3. QED
      BY <2>2 DEF NoEventLost
  <1>2. QED
    BY <1>1, InductiveInvariant, PTL

=============================================================================
