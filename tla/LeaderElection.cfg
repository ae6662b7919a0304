SPECIFICATION LEFairSpec
CONSTANTS
  r1 = r1
  r2 = r2
  Replicas = {r1, r2}
  None = None
  Duration = 1
  ElectionRetries = 1
  MaxFailures = 2
  Versions <- MCVersions
  NoVersion = 0
  Slots = {1}
  MaxEvents = 1
  MaxFaults = 1
INVARIANTS
  FreshLeaderHolds
PROPERTIES
  StaleLeaderStepsDown
CHECK_DEADLOCK FALSE
