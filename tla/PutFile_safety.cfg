CONSTANTS
  a = a
  b = b
  Cell = {a, b}
  Versions <- WithEmpty
  BlockSize = 2
  MinSize = 2
  Overwrites = {TRUE, FALSE}
  DeleteSrc = TRUE
  MaxTry = 3
  Overlap = FALSE
  MaxFaults = 2
  NoFile = NoFile
  Torn = Torn
SPECIFICATION FairSpec
INVARIANTS TypeOK SuccessMeansHeld Delivers
PROPERTIES TempKeptUntilCopied ReplacesVerified JobEnds SessionsEnd
