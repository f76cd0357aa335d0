SPECIFICATION RelayPartsSpec
CONSTANTS
  Real = {p1, p2}
  CoverOnion = {o1}
  Forged = {}
  Malformed = {}
  BadPeel = {b1}
  InboundCap = 2
  OutboundCap = 1
  CoverCap = 1
  CoverPlans = {"baseline", "matched", "cover_onions", "scaffold"}
  FixedFlows = 1
  IsL2 = TRUE
  Target = 2
  HasCoverTx = TRUE
  Closable = {"inbound", "outbound", "cover", "handle"}
  MaxOffers = 3
  MaxRounds = 2
  Tag = {p1, p2, o1, b1}
  Capacities = {2}
  ReplayCapacity = 2
  PressureCapacity = 2
  FillNum = 85
  FillDen = 100
  MaxGenerations = 2
  GenModulus = 8
  Conn = {c1, c2, c3}
  MaxConnections = 2
  QueueCap = 2
  SharedCap = 1
  MaxWeight = 2
  Health <- SomeHealth
  RelayMayStop = FALSE
  MaxPackets = 4
SYMMETRY RelaySymmetry
INVARIANTS AckMeansApplied RoundPadded ForwardedOnceWhileRemembered PeerFifo BoundedBypass
CHECK_DEADLOCK FALSE
