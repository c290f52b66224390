SPECIFICATION Spec
CONSTANTS
  W = 4
  P = 16
  IntBound = 8
  LongBound = 16
  Tick <- MCTick
  MaxRecv = 3
  MaxNet = 2
  MaxRun = 2
  MaxDup = 1
  ServerLine <- MCServerLine
  ClientLine <- MCClientLine
INVARIANTS TypeOK SentExact ReportExact FailsBounded
PROPERTIES ClientEnds Reported
CHECK_DEADLOCK FALSE
