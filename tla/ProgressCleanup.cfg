CONSTANTS
  Client = {c1, c2, c3}
  First = c1
  MaxDepth = 2
  MaxOps = 4
SPECIFICATION FairSpec
INVARIANTS TypeOK WaitsInVainOnlyAfterTwoMasters NoStrayAnswer ProgressEnds
PROPERTIES CleanupEnds
CHECK_DEADLOCK FALSE
