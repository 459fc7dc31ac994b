CONSTANTS
  MaxLevels = 2
  MaxEmit = 2
  Branches = 2
SPECIFICATION Spec
INVARIANTS
  NonFatalAsIfNeverRun
