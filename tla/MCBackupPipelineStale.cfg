CONSTANTS
  Workers = {w1, w2}
  Files = {f1}
  NoPath = none
  MaxVersion = 2
  MaxEvents = 2
  DiskErrors = FALSE
SPECIFICATION SafeSpec
SYMMETRY Symmetry
INVARIANTS
  BackupMatchesFile
