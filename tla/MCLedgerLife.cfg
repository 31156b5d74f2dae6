SPECIFICATION Spec
CONSTANTS
  q1 = q1  c1 = c1  c2 = c2  r1 = r1  r2 = r2  o1 = o1  o2 = o2  p1 = p1  p2 = p2
  Runs = {r1, r2}
  Owners = {o1, o2}
  NoOwner = NoOwner
  Operations = {p1, p2}
  Requests = {q1}
  Reports = {c1, c2}
  Amounts = {1, 3}
  Scale = 2
  RunLimits <- MCRunLimits
  GlobalLimit = 3
  Durations <- MCDurations
  LeaseSeconds = 1
  Window = 1
  MaxInt = 4
  MaxTime = 8
  MaxClock = 2
SYMMETRY MCSymmetry
CONSTRAINT OneScene
CHECK_DEADLOCK FALSE
INVARIANTS RowsSound HoldIffDisputed EpochFencing TerminalFaithful WithinLimits
PROPERTIES ExecutionStaysClosed RecordsImmutable
