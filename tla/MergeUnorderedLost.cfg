CONSTANTS
  N = 2
  Simple <- MCSimple
  Fatal <- MCFatal
  MaxEmit = 2
  Concurrency = 0
SPECIFICATION Spec
INVARIANTS
  NothingLostSilently
