CONSTANTS
  j1 = j1
  j2 = j2
  Client = Client
  None = None
  Jobs <- OneJob
  MaxSlots = 1
  MaxThreads = 2
  MaxReloads = 1
  MaxFaults = 1
SPECIFICATION FairSpec
INVARIANTS TypeOK OneTaskPerJob ListsExact SleeperSwept StopsClean
PROPERTIES Collected Stops
