CONSTANTS
  Workers = {w1, w2}
  Files = {f1}
  NoPath = none
  Garbage = garbage
  MaxChanges = 2
  MaxSessions = 2
SPECIFICATION Spec
INVARIANTS
  TypeOK
  HistoryKept
  LogIsCausal
  WorkIsAudited
  JoinsInOrder
PROPERTIES
  ExitTerminates
CHECK_DEADLOCK FALSE
