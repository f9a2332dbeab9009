CONSTANTS
  j1 = j1
  j2 = j2
  Client = Client
  None = None
  Jobs <- TwoJobs
  MaxSlots = 2
  MaxThreads = 3
  MaxReloads = 1
  MaxFaults = 1
SPECIFICATION Spec
INVARIANTS ReloadsAlone
