CONSTANTS
  Dirs = {d1, d2}
  Files = {f1}
  NoDir = nodir
  NoFile = nofile
  UserMasks = {"modify", "subdir"}
  MaxWatches = 1
  MaxQueue = 2
  MaxBatch = 2
  PipeCapacity = 2
SPECIFICATION Spec
INVARIANTS
  TypeOK
  IndexesAgree
  NoEventLost
  JoinIsSignalled
PROPERTIES
  EndsOnlyWhenTold
  ChangesAreDelivered
  StopTerminates
