SPECIFICATION FairSpec
CONSTANTS
  h1 = h1
  h2 = h2
  Hop <- Hops
  Settings <- Setting
  OutboundCap = 1
  ExitCap = 1
  QueueCap = 2
  MaxWeight = 1
  MaxPackets = 3
INVARIANTS Accounted PeerOrder
PROPERTIES EndsAfterRelay
