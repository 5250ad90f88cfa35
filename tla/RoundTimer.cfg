\* Four replicas, two rounds that certificates may end, a queue of one.
CONSTANTS
  Replicas = {1, 2, 3, 4}
  Byzantine = {}
  BaseTimeout = 1
  MaxTimeout = 3
  backoffFactor = 2
  QueueSize = 1
  MaxRound = 3
  MaxTries = 2
SPECIFICATION FairSpec
INVARIANTS
  OneLiveExpiry
  TimerFollowsBackoff
PROPERTIES
  ExpiriesActOnce
  TimeoutsRetried
