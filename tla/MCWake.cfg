SPECIFICATION LiveSpec
CONSTANTS
  HeldRecovery = FALSE
  MaxClaims = 3
  MaxFaults = 3
INVARIANTS
  TypeOK
  OneHostCall
  CallIsAdmitted
  WokenIsReal
PROPERTIES
  ContractKept
  WakeMovesOn
  AdmittedTurnSettles
CHECK_DEADLOCK FALSE
