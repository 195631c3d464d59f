SPECIFICATION LiveSpec
CONSTANTS
  HeldRecovery = FALSE
  MaxClaims = 1
  MaxFaults = 0
PROPERTY
  OtherTurnRefuses
CHECK_DEADLOCK FALSE
