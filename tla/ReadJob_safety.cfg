CONSTANTS
  a = a
  b = b
  N = 2
  Contents = {a, b}
  Jobs <- ReadJobs
  MaxTry = 3
  MaxFaults = 2
  NoFile = NoFile
  Mixed = Mixed
SPECIFICATION Spec
INVARIANTS TypeOK AllFetched Mirrors
PROPERTIES HeldSomewhere InstallsStaged
