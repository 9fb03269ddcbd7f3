SPECIFICATION FairSpec
CONSTANTS
  PERIOD = 4
  SHORT = 2
  LONG = 4
  SCO = 3
  RATE = 700
  MIN_SLEEP = 2000
  Drains = {1, 4}
  Garbage <- StackSlots
INVARIANTS
  TypeOK
  SleepBounded
PROPERTIES
  ThresholdMatchesLatency
  ThresholdInRange
  WaitEnds
