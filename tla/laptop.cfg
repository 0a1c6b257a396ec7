SPECIFICATION Spec
CONSTANTS
  actions = actions laptop = laptop
  Host <- MCBoth
  Starts <- MCBoth
  Kept <- MCLaptop
  Work = 2
  DayLength = 3
  ReconcileDays <- MCWeekdays
  ForcedAt <- MCForced
  None = None
  LastDispatch = 1 LastEpoch = 4
  MaxFaults = 1
PROPERTIES NothingForgotten
CHECK_DEADLOCK FALSE
