CONSTANTS
  Proxies = {p, q}
  Values = {v0}
  Pipeline = Pipeline
  NoState = NoState
  StackDepth = 2
  ClearDepth = 1
  MaxChanges = 4
  MaxSections = 3
SPECIFICATION Spec
PROPERTIES FailureChangesNothing
CHECK_DEADLOCK FALSE
