SPECIFICATION FairSpec
CONSTANTS
  N = 3
  Hidden = FALSE
  MaxSent = 1
  MaxReplied = 1
  Rooms = {4}
  Expiry = FALSE
  Resets = FALSE
PROPERTIES
  RequestDelivered
  CloseReleasesAll
CHECK_DEADLOCK FALSE
