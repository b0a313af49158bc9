CONSTANTS
  Workers = {w1, w2}
  Files = {f1}
  NoPath = none
  MaxVersion = 3
  MaxEvents = 1
  DiskErrors = TRUE
SPECIFICATION Spec
INVARIANTS
  TypeOK
  NoLostChange
  BackupIsCurrent
  DeletedStaysDeleted
PROPERTIES
  ChangesAreRead
