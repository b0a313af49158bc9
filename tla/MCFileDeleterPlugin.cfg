CONSTANTS
  Workers = {w1, w2}
  Deletions = {d1, d2}
  NoDeletion = none
  NoThread = nobody
  MaxDelay = 2
  Millisecond = 2
  SummerHour = 0
  Horizon = 3
SPECIFICATION Spec
INVARIANTS
  TypeOK
  NeverEarly
  ShutdownJoinsDeletions
  AtMostOneMisses
PROPERTIES
  DueIsServed
  ShutdownTerminates
CHECK_DEADLOCK FALSE
