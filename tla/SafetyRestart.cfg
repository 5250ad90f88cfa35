\* Two rounds with two leaders; one replica of four restarts, and signing may fail.
CONSTANTS
  h1 = h1
  h2 = h2
  h3 = h3
  z = z
  Replicas = {h1, h2, h3, z}
  Byzantine = {}
  Restarting = {z}
  NoTC = NoTC
  SignMayFail = TRUE
  ParentMayBeGone = FALSE
  Blocks <- MCBlocks
  Genesis = "g"
  Round <- MCRound
  Parent <- MCParent
  Rounds = {1}
  TimeoutCerts <- MCTimeoutCerts
SYMMETRY Symmetry
SPECIFICATION RestartSpec
CHECK_DEADLOCK FALSE
PROPERTY RefinesAgreedChain
INVARIANT CertifiedExtendsCommitted
