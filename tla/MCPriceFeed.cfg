\* The code's thresholds (15, 30, 45 and 60 s), cooldown (10 s) and watchdog
\* (45 s), two dropped sockets at a time and two overlapping reconnects.
SPECIFICATION FairSpec
CONSTANTS
  Thresholds <- MCThresholds
  Cooldown = 2
  StaleAfter = 9
  MaxOrphans = 2
  MaxRestarts = 2
INVARIANTS
  StageFollowsAge
  EveryStageActs
  PrimaryNeverAbandoned
PROPERTY PricesResume
