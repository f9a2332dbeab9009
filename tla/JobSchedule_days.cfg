CONSTANTS
  DayLength = 2
  Configs <- DayConfigs
  LastDay = 2
  Calendar <- Last
  MaxReloads = 0
  Skips = FALSE
SPECIFICATION Spec
INVARIANTS TestsCurrentDay
