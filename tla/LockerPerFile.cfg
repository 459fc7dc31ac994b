CONSTANTS
  Procs = {p1, p2, p3}
  Keys = {a, b}
  Entries = {e1, e2}
  None = None
SPECIFICATION FairSpec
INVARIANTS
  TypeOK
  EntryStays
  NoLeakedEntry
PROPERTIES
  ImplementsKeyLock
  NoStarvation
