CONSTANTS
  MaxLevels = 3
  MaxEmit = 2
  Branches = 2
SPECIFICATION Spec
INVARIANTS
  TypeOK
  NoYieldAfterStop
  NothingLost
  ExecuteMeansOne
  EmptyLevelFailsChain
  NoBranchLeft
PROPERTIES
  ErrorIsLast
