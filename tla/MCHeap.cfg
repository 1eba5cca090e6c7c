CONSTANTS
  HeapCount = 4
  Base = 1
  Size = 5
  Tasks = {k, a}
  KThread = k
  NoThread = none
SPECIFICATION Spec
CONSTRAINT Intact
INVARIANTS
  TypeOK Disjoint NothingLost LiveTracked OrphansFreed
PROPERTIES
  ImplementsAllocator
\* debug_exception stops the system for good.
CHECK_DEADLOCK FALSE
