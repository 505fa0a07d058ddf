SPECIFICATION FairSpec
CONSTANTS
  N = 2
  Hidden = FALSE
  MaxSent = 1
  MaxReplied = 1
  Rooms = {3}
  Expiry = FALSE
  Resets = FALSE
PROPERTIES
  SentDelivered
CHECK_DEADLOCK FALSE
