CONSTANTS
  NClients = 3
  Sizes = {1, 4}
  ChunkSize = 3
  Reserved = 2
  Unrelated = {3}
  MaxRequests = 3
  MaxBacklog = 1
SPECIFICATION FairSpec
INVARIANTS TypeOK SharingNeedsDisturbance NextIdIsFresh
PROPERTIES ImplementsAllocator AnsweredUnlessCrowdedOut
CHECK_DEADLOCK FALSE
