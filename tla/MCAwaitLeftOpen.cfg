SPECIFICATION LiveSpec
CONSTANTS
  HeldRecovery = FALSE
  MaxClaims = 1
  MaxFaults = 1
PROPERTY
  EndedWakeReleasesThread
CHECK_DEADLOCK FALSE
