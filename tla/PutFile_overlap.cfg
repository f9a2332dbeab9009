CONSTANTS
  a = a
  b = b
  Cell = {a, b}
  Versions <- ThreeVersions
  BlockSize = 2
  MinSize = 2
  Overwrites = {TRUE}
  DeleteSrc = FALSE
  MaxTry = 3
  Overlap = TRUE
  MaxFaults = 3
  NoFile = NoFile
  Torn = Torn
SPECIFICATION Spec
INVARIANTS DestVerified
