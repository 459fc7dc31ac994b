CONSTANTS
  N = 3
  Simple <- MCSimple
  Fatal <- MCFatal
  MaxEmit = 2
  Concurrency = 2
SPECIFICATION FairSpec
INVARIANTS
  TypeOK
  BoundedConcurrency
  Barrier
  OutputInOrder
  FatalErrorsSurface
PROPERTIES
  ImplementsLevel
  AbortTerminates
