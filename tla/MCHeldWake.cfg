SPECIFICATION LiveSpec
CONSTANTS
  HeldRecovery = TRUE
  MaxClaims = 2
  MaxFaults = 2
INVARIANTS
  OneHostCall
  OneDispatcher
PROPERTY
  WakeMovesOn
CHECK_DEADLOCK FALSE
