SPECIFICATION BridgeSpec
CONSTANTS
  c1 = c1
  c2 = c2
  h = h
  p = p
  q = q
  k1 = k1
  k2 = k2
  k3 = k3
  s1 = s1
  s2 = s2
  s3 = s3
  kem1 = kem1
  None = None
  Conn = {c1, c2}
  Peer = {p, q}
  Scenes <- MCAllScenes
  Fragments = 2
  Control = {"drop", "advert"}
  MaxNow = 1
  PeerTables <- MCPeerTables
  Addressed = {p, q}
  BurstLen = 2
  MaxItems = 2
  PadSettings <- MCPadSettings
  Rolls = {54, 55}
  SinkCap = 2
  MaxPeels = 4
  MaxTicks = 3
INVARIANTS WholePackets RateBound BoundToPeer BurstsWhole EpochsMatched
PROPERTIES SlotReleased GeneratorComesBack
CHECK_DEADLOCK FALSE
