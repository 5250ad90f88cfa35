\* Both channels at their bounds, and a peer that may take nothing.
CONSTANTS
  Self = own
  Peers = {a}
  QueueSize = 1
  OutQueue = 1
  StreamSize = 1
  MaxSent = 2
  Kinds = {"msg", "bad"}
  MaxCalls = 3
  Calls <- Sends
  MaxFires = 0
SPECIFICATION FairSpec
CHECK_DEADLOCK FALSE
 
PROPERTIES
  ServesInbox
  ShutdownCompletes
