SPECIFICATION SchedulerFairSpec

CONSTANTS
  Caller = {c1, c2}
  Thresholds = {1, 2}
  Cooldown = 2
  MaxCards = 1
  MaxByHand = 1
  MaxFaults = 1

INVARIANTS CountsBounded
PROPERTIES CooldownKept NotStarved
CHECK_DEADLOCK FALSE
