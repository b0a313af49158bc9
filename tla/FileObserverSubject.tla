------------------------- MODULE FileObserverSubject -----------------------
(***************************************************************************)
(* FileUtils::FileObserverSubject: an inotify descriptor, the two indexes  *)
(* between watched directories and watch descriptors, and the loop of      *)
(* get_changed_files_list(), which reads events in batches and hands them  *)
(* to a callback.  The kernel's side, watches and the queue of events, is  *)
(* modelled by what inotify(7) documents.                                  *)
(*                                                                         *)
(* The calls come from one thread at a time, as in HotBackupApp; add_file  *)
(* and remove_file may be called from within the callback.                 *)
(***************************************************************************)
EXTENDS Integers, Sequences, FiniteSets, Functions

CONSTANTS
  Dirs,        (* the directories that are watched                         *)
  Files,       (* the names of their entries                               *)
  NoDir,       (* the empty path                                           *)
  NoFile,      (* the entry of an event that has no name                   *)
  UserMasks,   (* the masks of the events that the user causes             *)
  MaxWatches,  (* the bound on the watch descriptors that are given out    *)
  MaxQueue,    (* the bound of the kernel on the events it queues          *)
  MaxBatch     (* the events that fit into BUFF_SIZE bytes                 *)

ASSUME SubjectAssumption ==
  /\ NoDir \notin Dirs /\ NoFile \notin Files
  /\ UserMasks \subseteq {"create", "modify", "subdir"}
  /\ MaxWatches \in Nat /\ MaxQueue \in Nat \ {0} /\ MaxBatch \in Nat \ {0}

VARIABLES
  (* the file system and the kernel *)
  present,  (* the directories that exist                                  *)
  live,     (* per watch descriptor: the directory it watches, or NoDir    *)
  lastWd,   (* the last watch descriptor that was given out                *)
  queue,    (* the events that can be read from m_notifyFd                 *)
  (* the object *)
  m_filepathToWatchIndex,  (* per directory: its descriptor, 0 for none    *)
  m_watchToFilepathIndex,  (* per descriptor: the path, NoDir if it is not *)
                           (* in the map: operator[] makes an empty one    *)
  readerPc, (* the next step of get_changed_files_list                     *)
  batch,    (* the events that were read and not yet processed             *)
  (* history *)
  unseen,   (* the changes, as descriptor and name, that were queued for   *)
            (* watched directories and that no callback was told of since  *)
  misled,   (* whether the last callback was told of something else        *)
  renamed   (* the descriptors whose directory was renamed                 *)

kernelVars == <<present, live, lastWd>>
indexVars  == <<m_filepathToWatchIndex, m_watchToFilepathIndex>>
readerVars == <<readerPc, batch>>
historyVars == <<unseen, misled, renamed>>
subjectVars == <<kernelVars, queue, indexVars, readerVars, historyVars>>

Descriptors == 1 .. MaxWatches
Changes == Descriptors \X Files

(* inotify's masks, as far as the code tells them apart: "create" and      *)
(* "modify" (IN_MODIFY or IN_MOVED_TO) become events of the callback,      *)
(* "subdir" has IN_ISDIR, and "other" was not asked for (IN_IGNORED,       *)
(* IN_Q_OVERFLOW). *)
Masks == {"create", "modify", "subdir", "other"}

Event(wd, f, mask) == [wd |-> wd, file |-> f, mask |-> mask]
Ignored(wd) == Event(wd, NoFile, "other")
Overflow    == Event(0, NoFile, "other")
Events == [wd : 0 .. MaxWatches, file : Files \cup {NoFile}, mask : Masks]

(* What the map makes of a descriptor. *)
PathOf(wd) == IF wd = 0 THEN NoDir ELSE m_watchToFilepathIndex[wd]

Watched(d) == \E wd \in Descriptors : live[wd] = d

SubjectInit ==
  /\ present = Dirs
  /\ live = [wd \in Descriptors |-> NoDir]
  /\ lastWd = 0
  /\ queue = <<>>
  /\ m_filepathToWatchIndex = [d \in Dirs |-> 0]
  /\ m_watchToFilepathIndex = [wd \in Descriptors |-> NoDir]
  /\ readerPc = "idle"
  /\ batch = <<>>
  /\ unseen = {}
  /\ misled = FALSE
  /\ renamed = {}

-----------------------------------------------------------------------------
(* The kernel.  It merges an event with an identical one at the end of the *)
(* queue, and drops what exceeds the bound, with one event to say so.      *)

Last(q) == q[Len(q)]

Merges(e) == queue # <<>> /\ Last(queue) = e

Queued(e) ==
  CASE Merges(e)                               -> queue
    [] ~Merges(e) /\ Len(queue) < MaxQueue     -> Append(queue, e)
    [] ~Merges(e) /\ Len(queue) = MaxQueue     -> Append(queue, Overflow)
    [] OTHER                                   -> queue

IsQueued(e) == Merges(e) \/ Len(queue) < MaxQueue

(* The user creates, modifies or moves a file, or creates a directory, in  *)
(* a watched directory. *)
Change(d, f, mask) ==
  /\ \E wd \in Descriptors :
       /\ live[wd] = d
       /\ queue' = Queued(Event(wd, f, mask))
       /\ unseen' = IF mask # "subdir" /\ IsQueued(Event(wd, f, mask))
                      THEN unseen \cup {<<wd, f>>} ELSE unseen
  /\ UNCHANGED <<kernelVars, indexVars, readerVars, misled, renamed>>

(* The user removes a directory.  Its watch goes with it. *)
RemoveDir(d) ==
  /\ d \in present
  /\ present' = present \ {d}
  /\ \/ /\ ~Watched(d)
        /\ UNCHANGED <<live, queue>>
     \/ \E wd \in Descriptors :
          /\ live[wd] = d
          /\ live' = [live EXCEPT ![wd] = NoDir]
          /\ queue' = Queued(Ignored(wd))
  /\ UNCHANGED <<lastWd, indexVars, readerVars, historyVars>>

CreateDir(d) ==
  /\ d \notin present
  /\ present' = present \cup {d}
  /\ UNCHANGED <<live, lastWd, queue, indexVars, readerVars, historyVars>>

(* The user renames a directory.  A watch is one of the directory and not  *)
(* of its name, so it stays; no event that was asked for tells of it.      *)
RenameDir(d, e) ==
  /\ d \in present /\ e \notin present
  /\ present' = (present \ {d}) \cup {e}
  /\ live' = [wd \in Descriptors |-> IF live[wd] = d THEN e ELSE live[wd]]
  /\ renamed' = renamed \cup {wd \in Descriptors : live[wd] = d}
  /\ UNCHANGED <<lastWd, queue, indexVars, readerVars, unseen, misled>>

-----------------------------------------------------------------------------
(* add_file() and remove_file(), from outside or from a callback.  For a   *)
(* directory that does not exist, canonical() throws and nothing changes.  *)

MayCall == readerPc \in {"idle", "deliver"}

(* What inotify_add_watch() returns: the descriptor that the directory has *)
(* under whatever name it was added, or else the next one. *)
WatchFor(d, wd) ==
  \/ live[wd] = d
  \/ ~Watched(d) /\ wd = lastWd + 1

AddFile(d) ==
  /\ MayCall /\ d \in present
  /\ m_filepathToWatchIndex[d] = 0
  /\ \E wd \in Descriptors :
       /\ WatchFor(d, wd)
       /\ live' = [live EXCEPT ![wd] = d]
       /\ lastWd' = IF Watched(d) THEN lastWd ELSE wd
       /\ m_filepathToWatchIndex' = [m_filepathToWatchIndex EXCEPT ![d] = wd]
       /\ m_watchToFilepathIndex' = [m_watchToFilepathIndex EXCEPT ![wd] = d]
  /\ UNCHANGED <<present, queue, readerVars, historyVars>>

RemoveFileKeepsWatch(d) ==
  LET wd == m_filepathToWatchIndex[d]
  IN /\ MayCall /\ d \in present
     /\ wd # 0 /\ live[wd] # NoDir
     /\ m_filepathToWatchIndex' = [m_filepathToWatchIndex EXCEPT ![d] = 0]
     /\ m_watchToFilepathIndex' = [m_watchToFilepathIndex EXCEPT ![wd] = NoDir]
     /\ unseen' = unseen \ ({wd} \X Files)
     /\ UNCHANGED <<kernelVars, queue, readerVars, misled, renamed>>

(* inotify_rm_watch() fails, and the call throws, when the watch has gone  *)
(* with an earlier directory of that name.  Otherwise the watch ends, even *)
(* that of a directory which has another name by now, and events of it     *)
(* that are still queued can no longer be looked up.                       *)
RemoveFile(d) ==
  LET wd == m_filepathToWatchIndex[d]
  IN /\ MayCall /\ d \in present
     /\ wd # 0 /\ live[wd] # NoDir
     /\ live' = [live EXCEPT ![wd] = NoDir]
     /\ queue' = Queued(Ignored(wd))
     /\ m_filepathToWatchIndex' = [m_filepathToWatchIndex EXCEPT ![d] = 0]
     /\ m_watchToFilepathIndex' = [m_watchToFilepathIndex EXCEPT ![wd] = NoDir]
     /\ unseen' = unseen \ ({wd} \X Files)
     /\ UNCHANGED <<present, lastWd, readerVars, misled, renamed>>

-----------------------------------------------------------------------------
(* get_changed_files_list() *)

GetCall ==
  /\ readerPc = "idle"
  /\ readerPc' = "read"
  /\ UNCHANGED <<kernelVars, queue, indexVars, batch, historyVars>>

(* read() returns as many events as fit; the longer their names, the fewer. *)
Read ==
  /\ readerPc = "read" /\ queue # <<>>
  /\ readerPc' = "deliver"
  /\ \E n \in 1 .. MaxBatch :
       /\ n <= Len(queue)
       /\ batch' = SubSeq(queue, 1, n)
       /\ queue' = SubSeq(queue, n + 1, Len(queue))
  /\ UNCHANGED <<kernelVars, indexVars, historyVars>>

(* EAGAIN *)
ReadNothing ==
  /\ readerPc = "read" /\ queue = <<>>
  /\ readerPc' = "idle"
  /\ UNCHANGED <<kernelVars, queue, indexVars, batch, historyVars>>

(* The inner loop goes on while the callback agrees and there are events;  *)
(* the outer loop reads the next batch in either case. *)
NextEvent(continue) ==
  /\ batch' = IF continue THEN Tail(batch) ELSE <<>>
  /\ readerPc' = IF batch' = <<>> THEN "read" ELSE "deliver"

SkipSubdirEndsBatch ==
  /\ readerPc = "deliver"
  /\ Head(batch).mask = "subdir"
  /\ NextEvent(FALSE)
  /\ UNCHANGED <<kernelVars, queue, indexVars, historyVars>>

SkipSubdir ==
  /\ readerPc = "deliver"
  /\ Head(batch).mask = "subdir"
  /\ NextEvent(TRUE)
  /\ UNCHANGED <<kernelVars, queue, indexVars, historyVars>>

(* The changes for which an event is still to be processed. *)
Pending(events) ==
  {<<e.wd, e.file>> : e \in {x \in Range(events) : x.mask # "subdir"}}

(* The callback is told of the first event of the batch. *)
Deliver(continue) ==
  LET e == Head(batch)
      change == <<e.wd, e.file>>
  IN /\ readerPc = "deliver" /\ e.mask # "subdir"
     /\ NextEvent(continue)
     /\ misled' = (PathOf(e.wd) = NoDir \/ e.file = NoFile)
     /\ unseen' = IF continue THEN unseen \ {change}
                  ELSE (unseen \ {change}) \cap Pending(queue)
     /\ UNCHANGED <<kernelVars, queue, indexVars, renamed>>

-----------------------------------------------------------------------------
SubjectUser ==
  \/ \E d \in Dirs, f \in Files, mask \in UserMasks : Change(d, f, mask)
  \/ \E d \in Dirs : RemoveDir(d) \/ CreateDir(d)
  \/ \E d, e \in Dirs : RenameDir(d, e)

Reader == ReadNothing \/ Read \/ SkipSubdir \/ \E c \in BOOLEAN : Deliver(c)

SubjectNext ==
  \/ SubjectUser
  \/ \E d \in Dirs : AddFile(d) \/ RemoveFile(d)
  \/ GetCall \/ Reader

SubjectSpec == SubjectInit /\ [][SubjectNext]_subjectVars

-----------------------------------------------------------------------------
(* Every variable has the values its C++ or kernel counterpart can hold.   *)
SubjectTypeOK ==
  /\ present \subseteq Dirs
  /\ live \in [Descriptors -> Dirs \cup {NoDir}]
  /\ lastWd \in 0 .. MaxWatches
  /\ queue \in Seq(Events) /\ Len(queue) <= MaxQueue + 1
  /\ m_filepathToWatchIndex \in [Dirs -> 0 .. MaxWatches]
  /\ m_watchToFilepathIndex \in [Descriptors -> Dirs \cup {NoDir}]
  /\ readerPc \in {"idle", "read", "deliver"}
  /\ batch \in Seq(Events)
  /\ readerPc = "deliver" <=> batch # <<>>
  /\ unseen \subseteq Changes
  /\ misled \in BOOLEAN
  /\ renamed \subseteq Descriptors

(* The indexes are inverse to each other, and every watch that the kernel  *)
(* still has is looked up under the name of its directory.  (The converse  *)
(* fails: an index entry may outlive its directory.)  A directory that is  *)
(* renamed keeps its descriptor, under its old name, or under the new one  *)
(* if it is added again; then two names have one descriptor, and removing  *)
(* either ends the watch of both.  An entry of the descriptors is one of   *)
(* the paths even so.                                                      *)
IndexesAgree ==
  /\ \A d \in Dirs : m_filepathToWatchIndex[d] \notin renamed \cup {0} =>
       m_watchToFilepathIndex[m_filepathToWatchIndex[d]] = d
  /\ \A wd \in Descriptors : m_watchToFilepathIndex[wd] # NoDir =>
       m_filepathToWatchIndex[m_watchToFilepathIndex[wd]] = wd
  /\ \A wd \in Descriptors \ renamed : live[wd] # NoDir =>
       m_watchToFilepathIndex[wd] = live[wd]

(* Reading in batches loses nothing: a change in a watched directory that  *)
(* the kernel has queued and no callback was told of is queued or in the   *)
(* batch, unless a callback returned false or the file was removed from    *)
(* the subject. *)
NoEventLost == unseen \subseteq Pending(batch \o queue)

(* The callback is called once per altered file found, and not for what    *)
(* the kernel has to say beyond that. *)
OnlyAlteredFiles == ~misled

=============================================================================
