CONSTANTS
  NClients = 2
  Sizes = {1}
  ChunkSize = 3
  Reserved = 2
  Unrelated = {0}
  MaxRequests = 2
  MaxBacklog = 0
SPECIFICATION Spec
INVARIANT IdsUnique
CHECK_DEADLOCK FALSE
