SPECIFICATION MigrationSpec
CONSTANTS
  Processes = {c1}
  Previews = {w1}
  Applies = {a1}
  PlanTtl = 1
  MaxSeconds = 1
  MaxWrites = 1
  MaxCrashes = 1
  Nothing = Nothing
CHECK_DEADLOCK FALSE
INVARIANT RejectedLeftTheStore
