SPECIFICATION Spec
CONSTANTS
  src = src
  fix = fix
  back = back
  Runs = {src, fix, back}
  Source = src
  Finished <- MCFinished
  Version <- MCVersion
  Freshness = 1
  Retention = 2
  PlanLife = 1
  Disturbed = {back}
  Withdrawable = {}
  MaxTime = 2
  MaxGeneration = 0
  MaxHolds = 0
  MaxPlans = 1
INVARIANT HistoryReadable
CHECK_DEADLOCK FALSE
