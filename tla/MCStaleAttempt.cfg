SPECIFICATION Spec
CONSTANTS
  Supervisors = {s1}
  Mcp = mcp
  MaxFaults = 0
INVARIANT NoErrorAfterSuspension
CHECK_DEADLOCK FALSE
