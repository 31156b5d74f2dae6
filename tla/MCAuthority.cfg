SPECIFICATION CombinedSpec
CONSTANTS
  r1 = r1  r2 = r2  o1 = o1  o2 = o2  p1 = p1  p2 = p2  n1 = n1  n2 = n2
  v1 = v1  v2 = v2  pr = pr  full = full
  Runs = {r1, r2}
  Owners = {o1, o2}
  Operations = {p1, p2}
  Events = {v1, v2}
  Entries = {n1, n2}
  Regression = {r1, r2}
  Children = {r1, r2}
  FullProfile = full
  Reservations <- MCReservations
  Fixture <- MCFixture
  Usages <- MCUsages
  ZeroUsage <- MCZero
  NoUsage = NoUsage
  Profiles = {pr, full}
  Limits <- MCLimits
  PerCall <- MCPerCall
  Scale = 1
  LeaseSeconds = 1
  Window = 2
  MaxInteger = 8
  MaxClock = 2
SYMMETRY MCSymmetry
CONSTRAINTS OneRunOrCombined BeginAtOnce
CHECK_DEADLOCK FALSE
INVARIANTS EntriesHold ReceiptsSound BookInOrder CombinedHolds
PROPERTY NothingStartsAgain
