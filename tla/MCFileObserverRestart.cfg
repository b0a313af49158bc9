CONSTANTS
  Dirs = {d1}
  Files = {f1}
  NoDir = nodir
  NoFile = nofile
  UserMasks = {"modify", "subdir"}
  MaxWatches = 1
  MaxQueue = 1
  MaxBatch = 1
  PipeCapacity = 2
SPECIFICATION SafeSpec
INVARIANTS
  StartedIsWatching
