CONSTANTS
  N = 3
  Expiry = FALSE
  LateDials = FALSE
SPECIFICATION FairSpec
CHECK_DEADLOCK FALSE
PROPERTY FailureReleases
