CONSTANTS
  Workers = {w1}
  Deletions = {d1}
  NoDeletion = none
  NoThread = nobody
  MaxDelay = 3
  Millisecond = 2
  SummerHour = 4
  Horizon = 8
SPECIFICATION SafeSpec
PROPERTIES
  WaitIsTimeLeft
CHECK_DEADLOCK FALSE
