CONSTANTS
  Tasks = {t1, t2}
  FirstProcess = t1
  FirstThreads = {}
  Comms = {c1, c2}
  OpOrder <- AllChecks
  NULL = NULL
  MaxPids = 2
  MaxEntered = 1
  Capacities = {1, 2}
  MaxCalls = 2
SPECIFICATION Spec
INVARIANTS
  CountsNeverExceed
  CountersExact
  ReportedTimesCoverCounts
  TotalsInBetween
