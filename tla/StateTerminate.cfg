CONSTANTS
  Handles = {s1, s2}
  Names = {k}
  Values = {v1, v2}
  TerminatedKey = flag
  Refs = {1, 2, 3}
  Nil = Nil
  Missing = Missing
SPECIFICATION Spec
INVARIANT TerminateReturns
