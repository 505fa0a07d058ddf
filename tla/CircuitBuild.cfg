CONSTANTS
  N = 4
  Expiry = TRUE
  LateDials = TRUE
SPECIFICATION FairSpec
INVARIANTS
  TypeOK
  BuildInv
  ReadyInv
  FlowInv
  KeysAgree
  EstablishedIsInit
  NoMutualWait
PROPERTIES
  FailureCollected
CHECK_DEADLOCK FALSE
