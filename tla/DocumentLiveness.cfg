SPECIFICATION FairSpec
CONSTANTS
  Client = {c1}
  Cleaner = {k1, k2}
  MaxVersion = 2
  MaxFaults = 1
PROPERTIES
  EveryUploadEnds
  DeletedIsCollected
