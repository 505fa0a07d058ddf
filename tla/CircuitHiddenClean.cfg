SPECIFICATION Spec
CONSTANTS
  N = 2
  Hidden = TRUE
  MaxSent = 1
  MaxReplied = 1
  Rooms = {3}
  Expiry = FALSE
  Resets = FALSE
INVARIANTS
  ServiceStreamClean
CHECK_DEADLOCK FALSE
