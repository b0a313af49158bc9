CONSTANTS
  Workers = {w1}
  Files = {f1}
  NoPath = none
  Garbage = garbage
  MaxChanges = 1
  MaxSessions = 1
SPECIFICATION SafeSpec
INVARIANTS
  AllOperationsAudited
CHECK_DEADLOCK FALSE
