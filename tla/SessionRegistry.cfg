\* One session: its silence, its pauses, the sweeps, Shutdown and restarts.
SPECIFICATION FairSpec
CONSTANTS
  Sessions = {s1}
  ActiveTimeout = 1
  PausedTimeout = 2
  SweepDelay = 1
INVARIANTS DirectoryOwned ShutdownIsFinal CloseIsComplete
PROPERTIES LifecycleSpec SilentIsClosed DeletingDrains
