CONSTANTS
  Kernels <- NamedKernels
  Processes = {p1, p2, p3}
  GivenPids = {p1}
  Running = {p1, p2}
  MaxPids = 2
  Times = 0
  Faults = {"load", "bss", "attach", "meminfo", "output"}
  NULL = NULL
  MaxEvents = 1
SPECIFICATION Spec
INVARIANTS
  CountedOnce
  ReportedWithinEvents
  DirtiesConserved
  JsonIsSumOfRows
PROPERTY
  InterruptEnds
