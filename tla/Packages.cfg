CONSTANTS
  Handles = {s1, s2}
  Names = {k}
  Values = {v1, v2}
  TerminatedKey = flag
  Refs = {1, 2, 3}
  Nil = Nil
  Missing = Missing
  None = None
  Templates = {"t1", "t2"}
  Requests <- MCRequests
  Documents <- MCDocuments
  Merges <- MCMerges
  Fields = {"x", "y", "404"}
  Strings = {"x", "y"}
  Scalars = {"u", "v"}
  MaxDepth = 1
  MaxWrites = 1
  Wrappings <- MCWrappings
  MaxLayers = 3
  Attempts = 2
  Procs = {p1, p2, p3}
  Keys = {a, b}
  Slots = {l1, l2}
SPECIFICATION PartsSpec
INVARIANTS
  MergeKeepsSettings
  FetchedConfigIsReal
  NothingHeld
  GivesUpOnlyWhenTold
  RetryStops
PROPERTIES
  ImplementsValues
  TimeoutBounds
  StripedImplementsKeyLock
  StripedNoStarvation
