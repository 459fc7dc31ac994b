CONSTANTS
  N = 3
  Simple <- MCSimple
  Fatal <- MCFatal
  MaxEmit = 2
  Concurrency = 2
SPECIFICATION FairSpec
INVARIANTS
  TypeOK
  BoundedConcurrency
  NoSendOnClosedChannel
  NoOrphanedTask
  CompleteUnlessCancelled
  FatalErrorsSurface
PROPERTIES
  ImplementsLevel
  AbortTerminates
