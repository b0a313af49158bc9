CONSTANTS
  Dirs = {d1}
  Files = {f1, f2}
  NoDir = nodir
  NoFile = nofile
  UserMasks = {"create", "modify", "subdir"}
  MaxWatches = 1
  MaxQueue = 2
  MaxBatch = 2
SPECIFICATION SubjectSpec
INVARIANTS
  OnlyAlteredFiles
CHECK_DEADLOCK FALSE
