CONSTANTS
  a = a
  b = b
  N = 2
  Contents = {a, b}
  Jobs <- SafetyJobs
  MaxTry = 3
  Overlap = FALSE
  MaxFaults = 2
  NoFile = NoFile
  Mixed = Mixed
SPECIFICATION Spec
INVARIANTS TypeOK AllDelivered
PROPERTIES SourceKept InstallsStaged SyncDeletesExtra
