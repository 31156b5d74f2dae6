SPECIFICATION PartitionSpec
CONSTANTS
  co1 = co1  co2 = co2  pl1 = pl1  pl2 = pl2  s1 = s1  s2 = s2
  u1 = u1  u2 = u2  m1 = m1  m2 = m2
  Corpora = {co1, co2}
  CorpusParts = {s1, s2}
  Plans = {pl1, pl2}
  PlanParts = {s1, s2}
  Uploads = {u1, u2}
  Managers = {m1, m2}
  UploadTtl = 1
  MaxTotal = 8
  MaxCommits = 3
  NoUpload = NoUpload
  LastSecond = 2
  LastGeneration = 2
  LastPermission = 1
CONSTRAINT OneStore
SYMMETRY PartitionSymmetry
CHECK_DEADLOCK FALSE
INVARIANT UploadIdsBindOnce
