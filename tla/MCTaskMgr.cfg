CONSTANTS
  Threads = {k, a, b}
  KThread = k
  Interval = 3
SPECIFICATION FairSpec
INVARIANTS
  TypeOK KernelSound ContextsIntact ParkedHoldNothing
PROPERTIES
  OnlyRunningDispatched
  NearerTurn
  ImplementsDispatch
  RoundRobin
  DeadReclaimed
\* A torn dispatch ends the model.
CHECK_DEADLOCK FALSE
