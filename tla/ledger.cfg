SPECIFICATION FairSpec
CONSTANTS
  actions = actions laptop = laptop
  Host <- MCBoth
  Starts <- MCActions
  Kept <- MCLaptop
  Work = 2
  DayLength = 3
  ReconcileDays <- MCWeekdays
  ForcedAt <- MCForced
  None = None
  LastDispatch = 1 LastEpoch = 4
  MaxFaults = 2
INVARIANTS TypeOK OneCurrentRun OneBeginning CanonHasCopy MarkerMeansProgress ReconcileOncePerDay
PROPERTIES NothingForgotten DatedNeverRewritten ChainDrains
CHECK_DEADLOCK FALSE
