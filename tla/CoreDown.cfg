CONSTANTS
  Replicas = {1, 2, 3, 4}
  Byzantine = {3}
  NoTC = NoTC
  NoQC = NoQC
  History = 2
  windowSize = 1
  excludeSize = 1
  pick <- MCpick
  MaxRound = 3
  TimerReplicas = {1, 2, 3, 4}
  TimerRounds = {2}
  Redelivery = TRUE
SPECIFICATION FairSpec
INVARIANTS
  TimeoutsAreCurrent

  
