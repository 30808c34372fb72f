\* Three callers, the client's thresholds (3 failures, 2 successes).
SPECIFICATION FairBreakerSpec
CONSTANTS
  c1 = c1
  c2 = c2
  c3 = c3
  Callers = {c1, c2, c3}
  FailureThreshold = 3
  SuccessThreshold = 2
  OpenTimeout = 2
INVARIANTS
  CountersMatchState
PROPERTY Recovers
