CONSTANTS
  Proxies = {p, q}
  Values = {v0, v1}
  Pipeline = Pipeline
  NoState = NoState
  StackDepth = 2
  ClearDepth = 1
  MaxChanges = 4
  MaxSections = 2
SPECIFICATION Spec
INVARIANTS TypeOK HistoryIsCurrent HistoryIsBounded
PROPERTIES ExcludedNotRecorded SectionIsOneStep
SYMMETRY Symmetry
CHECK_DEADLOCK FALSE
