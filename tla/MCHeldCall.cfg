SPECIFICATION FairSpec
CONSTANTS
  Supervisors = {s1}
  Mcp = mcp
  MaxFaults = 2
INVARIANTS
  TypeOK
  OneTransition
  SuspensionIsCommitted
  TerminalMatchesService
  ErrorReleaseIsSafe
  IntentFollowsAuthority
  AppliedMatchesService
  ArchivedIsApplied
PROPERTIES
  TerminalIsFinal
  DecisionsStand
  FailedCallResolves
  AbortedCallResolves
  KeepsContract
CHECK_DEADLOCK FALSE
