CONSTANTS
  a = a
  b = b
  N = 2
  Contents = {a, b}
  Jobs <- PlainJobs
  MaxTry = 2
  Overlap = FALSE
  MaxFaults = 2
  NoFile = NoFile
  Mixed = Mixed
SPECIFICATION Spec
PROPERTIES DeletedIsHeld
