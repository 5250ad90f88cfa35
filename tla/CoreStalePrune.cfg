CONSTANTS
  Replicas = {1, 2, 3}
  Byzantine = {}
  NoTC = NoTC
  NoQC = NoQC
  History = 2
  windowSize = 1
  excludeSize = 1
  pick <- MCpick
  MaxRound = 4
  TimerReplicas = {1, 2, 3}
  TimerRounds = {}
  Redelivery = FALSE
CHECK_DEADLOCK FALSE
SPECIFICATION Spec
INVARIANTS
  PruneKeepsLiveBranch
