CONSTANTS
  Remotes <- MCRemotes
  Procs = {"a", "b"}
  Sizes = {3}
  MaxId = 3
  MaxGen = 2
  n = 2
  MaxRound = 3
  curveOrder = 13
  signers = {1, 5, 9}
  Digests = {0, 1, 2, 3}
  Nonces = {1, 2, 3, 4, 5, 6, 7, 8, 9, 10, 11, 12}
  Raw <- MCRaw
SPECIFICATION CommandSpec
CHECK_DEADLOCK FALSE
INVARIANTS
  SameReplicaSet
  OwnIdentity
  
  ReportIsRight
  MeasuredOnce
