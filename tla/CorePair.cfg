CONSTANTS
  Replicas = {1, 2}
  Byzantine = {}
  NoTC = NoTC
  NoQC = NoQC
  History = 2
  windowSize = 1
  excludeSize = 1
  pick <- MCpick
  MaxRound = 5
  TimerReplicas = {1, 2}
  TimerRounds = {1, 2}
  Redelivery = TRUE
SPECIFICATION Spec
INVARIANTS
  TypeOK
  HonestMessagesVerify
  OneProposalPerRound
  CanTimeOut
  Agreement
PROPERTY
  NeverGoesBack
