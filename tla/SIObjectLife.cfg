\* An id that one client creates and the other discovers, and undo may create
\* again; and a reserved id, which both may push and register from the start.
CONSTANTS
  Client = {c1, c2}
  Gid = {pipeline, proxy}
  Shared = {pipeline}
  None = none
  MaxQueue = 3
SYMMETRY ClientSymmetry
SPECIFICATION Spec
INVARIANTS TypeOK RefsAreRegistrations NoOrphans OwnReferencesOnly
PROPERTY UsedObjectsStayWithoutSurplus
\* The server stops when its last client leaves.
CHECK_DEADLOCK FALSE
