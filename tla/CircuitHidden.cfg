SPECIFICATION Spec
CONSTANTS
  N = 2
  Hidden = TRUE
  MaxSent = 1
  MaxReplied = 2
  Rooms = {3}
  Expiry = TRUE
  Resets = TRUE
INVARIANTS
  DownInv
  ReplyInv
  UpOrderedInStep
CHECK_DEADLOCK FALSE
