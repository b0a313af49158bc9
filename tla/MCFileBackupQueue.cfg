CONSTANTS
  Producers = {p1}
  Consumers = {c1, c2}
  Main = main
  Paths = {f1, f2, none}
  NoPath = none
  NoThread = nobody
SPECIFICATION Spec
INVARIANTS
  TypeOK
  ContainersAgree
  NoLostWakeup
PROPERTIES
  ImplementsDedupQueue
  QueuedIsTaken
  ShutdownFreesConsumers
