CONSTANTS
  a = a
  b = b
  Procs = {p1, p2}
  Names = {a, b}
  Calls <- MCCalls
  Spares <- MCSpares
  MaxLen = 3
  None = None
SPECIFICATION FairSpec
INVARIANTS
  TypeOK
PROPERTIES
  
  EveryCallReturns
