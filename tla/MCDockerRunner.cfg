SPECIFICATION HostSpec
CONSTANTS
  k1 = k1  t1 = t1  c1 = c1  q1 = q1  p1 = p1  p2 = p2
  Keys = {k1}
  Requests = {q1}
  Tokens = {t1}
  Containers = {c1}
  None = None
  Procs = {p1, p2}
  Nobody = Nobody
  ret = ret  b1 = b1  b2 = b2  pilot = pilot  import = import
  m1 = m1  m2 = m2
  Callers = {p1, p2}
  Jobs = {ret, b1, b2, pilot, import, m1, m2}
  Program <- MCProgram
  Output <- MCOutput
  MaxTroubles = 2
  MaxWithdrawals = 1
  NoOne = NoOne
CHECK_DEADLOCK FALSE
INVARIANTS JournalTrue CommandsHold
PROPERTIES RunsAtMostOnce EveryIntentFinishes
