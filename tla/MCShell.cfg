CONSTANTS
  Keys <- MCKeys
  Consumers <- MCConsumers
  Buffered = {"shell"}
  NULL = NULL
  QueueMax = 2
  MaxEvents = 6
  Editors = {"e1", "e2"}
  SHELL = "shell"
  GC = "gc"
SPECIFICATION FairSpec
INVARIANTS
  TypeOK
  KeyboardFollows
  LinesRunOnce
  HeapAlone
PROPERTIES
  EditorKeeps
  ShellPolls
CHECK_DEADLOCK FALSE
