SPECIFICATION Spec
CONSTANTS
  Supervisors = {s1, s2}
  Mcp = mcp
  MaxFaults = 1
SYMMETRY Interchangeable
INVARIANTS
  OneTransition
  AppliedMatchesService
PROPERTIES
  TerminalIsFinal
  KeepsContract
CHECK_DEADLOCK FALSE
