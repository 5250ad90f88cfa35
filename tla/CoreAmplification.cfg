CONSTANTS
  Replicas = {1, 2, 3}
  Byzantine = {}
  NoTC = NoTC
  NoQC = NoQC
  History = 2
  windowSize = 1
  excludeSize = 1
  pick <- MCpick
  MaxRound = 3
  TimerReplicas = {2}
  TimerRounds = {1}
  Redelivery = TRUE
SPECIFICATION Spec
INVARIANTS
  Amplified
