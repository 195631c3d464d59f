SPECIFICATION LiveSpec
CONSTANT MaxFaults = 2
INVARIANTS
  ScansAgree
  ContinuedOnce
  ReportsAreTrue
  WakeTurnIsAdjacent
  ClaimOutlivesReport
PROPERTIES
  SupervisorStopsFor
  CompletedCallIsArchived
CHECK_DEADLOCK FALSE
