SPECIFICATION SceneLiveSpec
CONSTANTS
  r1 = r1  d1 = d1  o1 = o1  p1 = p1  p2 = p2  n1 = n1  n2 = n2
  v1 = v1  v2 = v2  pr = pr
  Runs = {r1, d1}
  Owners = {o1}
  Operations = {p1, p2}
  Events = {v1, v2}
  Entries = {n1, n2}
  Regression = {r1}
  Run = r1
  Tag = o1
  Profile = pr
  Deadline = 2
  Plan <- MCPlan
  EntryOf <- MCEntryOf
  StopEvent <- MCStopEvent
  Reservations <- MCReservations
  Fixture <- MCFixture
  Usages <- MCUsages
  ZeroUsage <- MCZero
  NoUsage = NoUsage
  Profiles = {pr}
  Limits <- MCLimits
  PerCall <- MCPerCall
  Scale = 1
  LeaseSeconds = 1
  Window = 2
  MaxInteger = 8
  MaxClock = 3
  MaxFailures = 2
  DRun = d1
  DOp = p1
  DEntry = n1
  RecoveryEvent = v2
INVARIANTS EndsAreReal ActorsHold
PROPERTIES NoBeginAfterCancel EveryCancelEnds EveryDiagnosisSettles
