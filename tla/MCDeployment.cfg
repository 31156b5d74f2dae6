SPECIFICATION DeploymentSpec
CONSTANTS
  r1 = r1  r2 = r2  o1 = o1  p1 = p1  p2 = p2  v1 = v1  v2 = v2  pr = pr  full = full
  Runs = {r1, r2}
  Owners = {o1}
  Operations = {p1, p2}
  Events = {v1, v2}
  Reservations <- MCBilled
  Usages <- MCCosts
  NoUsage = NoUsage
  Profiles = {pr, full}
  Limits <- MCBudgetLimits
  PerCall <- MCPerCall
  Scale = 2
  LeaseSeconds = 2
  Window = 2
  MaxInteger = 8
  MaxClock = 2
  user = user  cleaner = cleaner  b1 = b1  b2 = b2  i1 = i1
  Programs = {user, cleaner}
  ClientNames = {b1, b2}
  Broker = Broker
  ClientCalls = {i1}
  NoName = NoName
SYMMETRY MCSymmetry
CONSTRAINTS TwoFull OneUser
CHECK_DEADLOCK FALSE
INVARIANTS AccountsHold RuntimeHolds
