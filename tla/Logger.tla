------------------------------- MODULE Logger ------------------------------
(***************************************************************************)
(* HotBackup::Logger: the audit log, a vector of lines in memory that is   *)
(* read from its file by init() and written back by shutdown().            *)
(*                                                                         *)
(* An entry stands for its line, whose time is left out.  log() appends    *)
(* under m_mutex; flush_logs_to_file() takes no lock, so that entries may  *)
(* be appended while it iterates.                                          *)
(***************************************************************************)
EXTENDS Integers, Sequences

CONSTANT Garbage  (* a line read from memory that was freed                *)

VARIABLES
  m_logs,    (* the lines in memory                                        *)
  audit,     (* the lines of the file m_logfilePath                        *)
  cursor,    (* the line that flush_logs_to_file() writes next, or 0       *)
  flushEnd,  (* the last line it will write: the end of m_logs as it began *)
  moved      (* whether m_logs has been reallocated since                  *)

flushVars  == <<cursor, flushEnd, moved>>
loggerVars == <<m_logs, audit, flushVars>>

Flushing == cursor # 0

LoggerInit ==
  /\ m_logs = <<>>
  /\ cursor = 0
  /\ flushEnd = 0
  /\ moved = FALSE

-----------------------------------------------------------------------------
(* load_previous_logs() *)
LoadPreviousLogs ==
  /\ m_logs' = m_logs \o audit
  /\ UNCHANGED <<audit, flushVars>>

(* A file that cannot be opened for reading is taken for an empty one.     *)
LoadFails == UNCHANGED loggerVars

(* push_back() may have to move the vector, under a flush that iterates    *)
(* over it.  (How often depends on its capacity, which is left open.)      *)
Log(entry) ==
  /\ m_logs' = Append(m_logs, entry)
  /\ \/ UNCHANGED moved
     \/ Flushing /\ moved' = TRUE
  /\ UNCHANGED <<audit, cursor, flushEnd>>

-----------------------------------------------------------------------------
(* flush_logs_to_file() *)

FlushAppends ==
  /\ ~Flushing
  /\ cursor' = 1
  /\ flushEnd' = Len(m_logs)
  /\ UNCHANGED <<m_logs, audit, moved>>

(* std::ofstream empties the file, and the loop fixes its end. *)
FlushOpens ==
  /\ ~Flushing
  /\ audit' = <<>>
  /\ cursor' = 1
  /\ flushEnd' = Len(m_logs)
  /\ UNCHANGED <<m_logs, moved>>

(* It cannot open the file: the loop writes to a stream that has failed.   *)
FlushOpenFails ==
  /\ ~Flushing
  /\ UNCHANGED loggerVars

(* What the loop reads in the place of line i. *)
Readable(i) == {m_logs[i]} \cup IF moved THEN {Garbage} ELSE {}

FlushWritesLine(line) ==
  /\ audit' = Append(audit, line)
  /\ cursor' = cursor + 1
  /\ UNCHANGED <<m_logs, flushEnd, moved>>

(* A write fails, as when the disk is full, and with it all that follow.   *)
FlushBreaks ==
  /\ Flushing /\ cursor <= flushEnd
  /\ cursor' = flushEnd + 1
  /\ UNCHANGED <<m_logs, audit, flushEnd, moved>>

FlushCloses ==
  /\ cursor = flushEnd + 1
  /\ cursor' = 0
  /\ flushEnd' = 0
  /\ moved' = FALSE
  /\ UNCHANGED <<m_logs, audit>>

=============================================================================
