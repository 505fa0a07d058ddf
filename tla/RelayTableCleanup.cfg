CONSTANTS
  Circuits = {c1}
  Streams = {s1}
  HalfTTL = 1
  Second = 2
SPECIFICATION FairSpec
PROPERTIES
  CleanupReleases
