CONSTANTS
  DayLength = 6
  Configs <- AllConfigs
  LastDay = 2
  Calendar <- March
  MaxReloads = 1
  Skips = FALSE
SPECIFICATION Spec
INVARIANTS TypeOK OnceADay
PROPERTIES Spaced NoDayMissed
