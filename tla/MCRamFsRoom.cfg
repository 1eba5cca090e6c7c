SPECIFICATION Spec
CONSTANTS
  a = a
  b = b
  x = x
  y = y
  sh = sh
  ed = ed
  null = null
  Names <- MCNames
  Bytes <- MCBytes
  Contents <- MCContents
  Editors <- MCEditors
  Shell = sh
  Nothing = null
  CountMax = 3
  DataSize = 5
  HdrSize = 1
PROPERTY RoomAsAnnounced
CHECK_DEADLOCK FALSE
