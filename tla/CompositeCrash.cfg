\* Up to three of four clients vanish without closing their session.
CONSTANTS
  MaxClients = 4
  MaxCrashes = 3
SPECIFICATION Spec
INVARIANTS TypeOK MisdeliveryNeedsEarlierCrash DownNeedsTwoCrashes StopsWithLastClient
PROPERTY MasterNeverLost
\* The server stops when its last client leaves.
CHECK_DEADLOCK FALSE
