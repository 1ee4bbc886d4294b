\* Two clients from the start and three operations, or a third client that
\* joins two and two operations.
CONSTANTS
  NClients = 3
  MaxOps = 3
  Starts <- MCStarts
SPECIFICATION Spec
INVARIANTS TypeOK SessionHasMaster CopiesAgreeUnlessStaleRelay ShowsFollowedCamera NewMasterIsFollowed
CHECK_DEADLOCK FALSE
