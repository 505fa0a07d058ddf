CONSTANTS
  Conns = {c1, c2}
  NoConn = NoConn
  Limit = 2
  MaxStreams = 3
  HopCount = 2
  Directory <- DirectoryMC
  Services <- ServicesMC
  Hosts <- HostsMC
SPECIFICATION FairSpec
INVARIANTS
  TypeOK
  Agreement
  OwnData
  OwnClose
  Farewell
  RoundUnique
  SelectionExact
PROPERTIES
  LossEndsHandler
CHECK_DEADLOCK FALSE
