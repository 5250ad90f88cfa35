\* Room for the producers still to come, or just not.
CONSTANTS
  Self = own
  Peers = {a}
  QueueSize = 3
  OutQueue = 1
  StreamSize = 1
  MaxSent = 2
  Kinds = {"req"}
  MaxCalls = 1
  Calls <- Fetches
  MaxFires = 1
SPECIFICATION FairSpec
CHECK_DEADLOCK FALSE
INVARIANT NobodyStranded
PROPERTY HandlersEnd
