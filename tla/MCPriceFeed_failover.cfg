\* The secondary after a failover.
SPECIFICATION FairSpec
CONSTANTS
  Thresholds <- MCThresholds
  Cooldown = 2
  StaleAfter = 9
  MaxOrphans = 1
  MaxRestarts = 2
PROPERTY SecondaryComesBack
