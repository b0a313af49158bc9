CONSTANTS
  Workers = {w1, w2}
  Plugins = {deleter}
  MaxPlugins = 2
  Paths = {f1, none}
  NoPath = none
SPECIFICATION Spec
INVARIANTS
  TypeOK
  PoolIsWhatRuns
PROPERTIES
  PluginsStableUnderIteration
  StopTerminates
  RunningPoolDrains
