SPECIFICATION FairSpec
CONSTANTS
  Conn = {c1, c2}
  MaxConnections = 1
  QueueCap = 2
  SharedCap = 1
  MaxWeight = 2
  Health <- SomeHealth
  RelayMayStop = TRUE
  MaxPackets = 3
PROPERTIES
  EveryPacketDrained
  SlotsReclaimed
CHECK_DEADLOCK FALSE
