\* Two replicas of the server, two orders, each run by the matcher up to twice.
SPECIFICATION FairSpec
CONSTANTS
  s1 = s1
  s2 = s2
  c1 = c1
  c2 = c2
  Instances = {s1, s2}
  Calls = {c1, c2}
  MaxDeliveries = 2
INVARIANTS
  PendingAreWaiting
  AnswersComeFromRuns
PROPERTIES
  EveryCallEnds
  RepliesAreConsumed
  ImplementsAnsweredOnce
CHECK_DEADLOCK FALSE
