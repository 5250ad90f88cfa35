CONSTANTS
  TicksPerSecond = 3
  batch = 2
  rate = 4
  Horizon = 9
  Genesis = "g"
  Blocks <- MCBlocks
  Round <- MCRound
  Parent <- MCParent
  History = 3
  Replicas = {1, 2, 3}
  Byzantine = {}
  NoTC = NoTC
  NoQC = NoQC
  Choices <- MCChoices
  CommitQCs <- MCCommitQCs
  maxRoundLead = 1
  MaxRound = 4
  Txns = {x, y, z, u, v}
  Capacity = 3
SPECIFICATION PartsSpec
CHECK_DEADLOCK FALSE
INVARIANTS
  LogIsChain
  ArrivalOrderIrrelevant
  HeldBlocksWait
  RetainsHistory
  OneCertificateCollected
  CertificatesStand
  VotesBounded
  BurstBounded
  NothingForfeited
PROPERTIES
  BatchesAreAtomic
  FloodDoesNotStall
