CONSTANTS
  Workers = {w1}
  Deletions = {d1}
  NoDeletion = none
  NoThread = nobody
  MaxDelay = 1
  Millisecond = 1
  SummerHour = 1
  Horizon = 3
SPECIFICATION SafeSpec
INVARIANTS
  InterruptibleByShutdown
CHECK_DEADLOCK FALSE
