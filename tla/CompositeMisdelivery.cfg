CONSTANTS
  MaxClients = 3
  MaxCrashes = 1
SPECIFICATION Spec
INVARIANT NotificationReachesOthers
CHECK_DEADLOCK FALSE
