\* Three rounds with a fork in each of the last two; parents may be pruned.
CONSTANTS
  h1 = h1
  h2 = h2
  h3 = h3
  z = z
  Replicas = {h1, h2, h3, z}
  Byzantine = {z}
  NoTC = NoTC
  MaxRound = 3
  SignMayFail = FALSE
  ParentMayBeGone = TRUE
  Blocks <- Shapes
  Genesis = "g"
  Round <- MCRound
  Parent <- MCParent
  Rounds <- MCRounds
  TimeoutCerts <- MCTimeoutCerts
SYMMETRY Symmetry
SPECIFICATION Spec
CHECK_DEADLOCK FALSE
INVARIANTS
  OneCertificatePerRound
  CertifiedExtendsCommitted
  TimeoutCertsSeeCommits
