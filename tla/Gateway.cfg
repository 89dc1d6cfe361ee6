CONSTANTS
  head = head
  fill = fill
  backfill = backfill
  Caller = {head, fill, backfill}
  Rank <- MCRank
  Limited = {fill}
  Burst = 2
  DailyLimit = 3
  MaxInFlight = 1
  Attempts = 2
  Failing = {fill}
SPECIFICATION FairSpec
INVARIANTS TypeOK NoLostWakeup OneRefillTask
PROPERTIES RateLimit EveryCallEnds
CHECK_DEADLOCK FALSE
