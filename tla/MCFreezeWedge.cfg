SPECIFICATION FairSpec
CONSTANTS
  Supervisors = {s1}
  Mcp = mcp
  MaxFaults = 1
PROPERTY CancelledCallResolves
CHECK_DEADLOCK FALSE
