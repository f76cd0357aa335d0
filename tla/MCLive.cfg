SPECIFICATION LiveSpec
CONSTANTS
  Real = {p1}
  CoverOnion = {}
  Forged = {f1}
  Malformed = {m1}
  BadPeel = {}
  InboundCap = 2
  OutboundCap = 1
  CoverCap = 1
  CoverPlans = {"baseline"}
  FixedFlows = 1
  IsL2 = TRUE
  Target = 2
  HasCoverTx = TRUE
  Closable = {"outbound", "cover"}
  MaxOffers = 3
  MaxRounds = 2
  Tag = {p1, f1, m1}
  Capacities = {3}
  ReplayCapacity = 3
  PressureCapacity = 99
  FillNum = 85
  FillDen = 100
  MaxGenerations = 2
  GenModulus = 8
  Fragments = 2
  MaxBacklog = 2
  CoverZero <- Both
  LinkMayFail = TRUE
  MaxSends = 3
INVARIANTS CellsAccounted
PROPERTIES CallsReturn EveryPacketProcessed WaitsEnd AcceptedIsWritten
CHECK_DEADLOCK FALSE
