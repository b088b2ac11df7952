SPECIFICATION Spec
CONSTANTS
  Client = {c1, c2}
  Cleaner = {k1, k2}
  MaxVersion = 2
  MaxFaults = 1
SYMMETRY Symmetry
INVARIANTS
  CurrentHasObject
  OneUploader
  NoOrphans
