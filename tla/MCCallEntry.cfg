SPECIFICATION Spec
CONSTANTS
  Absent = absent
  Hook = hook
  Calls = {c1, c2}
  Reconcilers = {k1, k2}
  Readers = {r1}
  MaxCrashes = 2
INVARIANTS
  AdmittedOnce
  VerdictSurvives
  RequestStaysKnown
CHECK_DEADLOCK FALSE
