CONSTANTS
  Client = {c1, c2}
  Gid = {pipeline}
  Shared = {pipeline}
  None = none
  MaxQueue = 1
SPECIFICATION Spec
PROPERTY UsedObjectsStay
CHECK_DEADLOCK FALSE
