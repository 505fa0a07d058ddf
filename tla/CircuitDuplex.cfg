SPECIFICATION Spec
CONSTANTS
  N = 2
  Hidden = FALSE
  MaxSent = 2
  MaxReplied = 2
  Rooms = {1, 3}
  Expiry = FALSE
  Resets = TRUE
INVARIANTS
  TypeOK
  UpInv
  DownInv
  TearInv
  DownOrdered
  UpOrdered
  NoSpuriousTeardown
PROPERTIES
  ImplementsStream
CHECK_DEADLOCK FALSE
