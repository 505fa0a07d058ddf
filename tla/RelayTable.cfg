CONSTANTS
  Circuits = {c1}
  Streams = {s1, s2}
  HalfTTL = 2
  Second = 1
SPECIFICATION FairSpec
INVARIANTS
  TypeOK
  TableExact
  
  Disconnected
  Swept
PROPERTIES
  EndReleases
