CONSTANTS
  a = a
  b = b
  Cell = {a, b}
  Versions <- TwoVersions
  BlockSize = 2
  MinSize = 2
  Overwrites = {FALSE}
  DeleteSrc = TRUE
  MaxTry = 2
  Overlap = FALSE
  MaxFaults = 2
  NoFile = NoFile
  Torn = Torn
SPECIFICATION FairSpec
PROPERTIES KeepsExisting
