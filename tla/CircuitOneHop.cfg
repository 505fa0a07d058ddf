SPECIFICATION FairSpec
CONSTANTS
  N = 1
  Hidden = FALSE
  MaxSent = 2
  MaxReplied = 2
  Rooms = {1}
  Expiry = FALSE
  Resets = FALSE
PROPERTIES
  SentDelivered
  
  TargetEndReachesClient
CHECK_DEADLOCK FALSE
