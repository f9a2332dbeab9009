CONSTANTS
  a = a
  b = b
  Cell = {a, b}
  Versions <- FourVersions
  BlockSize = 2
  MinSize = 2
  Overwrite = TRUE
  DeleteSrc = TRUE
  MaxTry = 2
  MaxFaults = 2
  NoFile = NoFile
  Torn = Torn
SPECIFICATION FairSpec
INVARIANTS TypeOK Delivers
PROPERTIES JobEnds SessionsEnd SourceKept TempKept ReplacesVerified
