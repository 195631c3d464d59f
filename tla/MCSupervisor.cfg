SPECIFICATION Spec
CONSTANTS
  Absent = absent
  Processes = {p1, p2, p3}
  MaxCalls = 2
  MaxCrashes = 2
SYMMETRY Symmetry
INVARIANTS
  HostCalledOnce
  WorkUnderLock
  NoFalseReady
CHECK_DEADLOCK FALSE
