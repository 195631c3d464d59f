SPECIFICATION Spec
CONSTANTS
  HeldRecovery = TRUE
  MaxClaims = 1
  MaxFaults = 0
INVARIANT
  LiveDispatchStands
CHECK_DEADLOCK FALSE
