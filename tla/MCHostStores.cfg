SPECIFICATION HostSpec
CONSTANTS
  h1 = h1  h2 = h2  f1 = f1
  Holders = {h1, h2}
  FileNames = {f1}
  Sizes = {0, 1, 2, 3}
  BudgetQuota = 6
  RollbackReserve = 1
  TempOverhead = 1
  MaxTroubles = 2
  NoBytes = NoBytes
  Reasons = {"CAPACITY_IO_ERROR", "CAPACITY_EXCEEDED"}
  MaxFaults = 3
  c1 = c1  c2 = c2  w1 = w1  w2 = w2  a1 = a1  a2 = a2
  Processes = {c1, c2}
  Previews = {w1, w2}
  Applies = {a1, a2}
  PlanTtl = 1
  MaxSeconds = 1
  MaxWrites = 1
  MaxCrashes = 1
  Nothing = Nothing
  d1 = d1  d2 = d2  t1 = t1  t2 = t2
  Writers = {d1, d2}
  Targets = {t1, t2}
  Mutable = {t2}
  Contents = {1, 2}
  Length <- MCLength
  Overhead = 1
  QuotaBytes = 6
  MaxEntries = 3
  MaxFailures = 2
  Free = Free
  n1 = n1  n2 = n2  n3 = n3
  Openers = {n1, n2, n3}
  MaxRows = 2
  k1 = k1  e1 = e1  e2 = e2  x1 = x1  x2 = x2  q1 = q1  q2 = q2
  Keys = {k1}
  Requests = {q1, q2}
  Tokens = {e1, e2}
  Containers = {x1, x2}
  None = None
  co1 = co1  co2 = co2  pl1 = pl1  pl2 = pl2  s1 = s1  s2 = s2
  u1 = u1  u2 = u2  m1 = m1  m2 = m2
  Corpora = {co1, co2}
  CorpusParts = {s1, s2}
  Plans = {pl1, pl2}
  PlanParts = {s1, s2}
  Uploads = {u1, u2}
  Managers = {m1, m2}
  UploadTtl = 1
  MaxTotal = 8
  MaxCommits = 3
  NoUpload = NoUpload
  LastSecond = 2
  LastGeneration = 2
  LastPermission = 1
CONSTRAINTS OneChange OnePlanOrCalm
SYMMETRY MCSymmetry
CHECK_DEADLOCK FALSE
INVARIANTS CapacityHolds OpenIsComplete StoredAnswersAreTrue UploadsHold
PROPERTY StoresOnlyGrow
