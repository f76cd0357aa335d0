SPECIFICATION PartsSpec
CONSTANTS
  Tag = {t1, t2, t3, t4}
  Capacities = {2, 3}
  PressureCapacity = 3
  FillNum = 85
  FillDen = 100
  MaxGenerations = 2
  GenModulus = 3
  MaxAccepts = 6
  NoVerdict = NoVerdict
  k1 = k1
  k2 = k2
  k3 = k3
  k4 = k4
  k5 = k5
  k9 = k9
  us = us
  de = de
  Relay = {1, 2, 3, 4, 5}
  One = 100
  Decay = 90
  Alpha = 20
  ZThreshold = 3
  MaxStrikes = 32
  Draw <- MCDraw
  Roll <- MCRoll
  Mix = 7
  Word = 64
  LayerCount = 2
  GuardCount = 2
  Configs <- MCConfigs
  Geneses <- MCGeneses
  Offered <- MCOffered
  NoCommitment = NoCommitment
  None = None
  MaxEpoch = 1
  MaxRosterChanges = 1
  MaxDemotions = 1
  BaseConfs <- MCBaseConfs
  Edits <- MCEdits
  Key = {k1, k2, k3, k4, k5, k6}
  Torn = Torn
  Absent = Absent
  Unset = Unset
  Pointer = Pointer
  MaxEdits = 2
  MaxFaults = 2
  Holder = {h1}
  Verifier = {v1, v2}
  Epoch = {0, 1}
  Blinding = {b1, b2}
  Band = {1, 2}
  Issuer = Issuer
  Other = Other
  RegTorn = RegTorn
  RegAbsent = RegAbsent
  NoSig = NoSig
  MaxScore = 2
  MaxIssued = 1
  MaxMixed = 1
  MaxSpends = 2
  MaxOps = 3
  W = 3
  Irred = {0, 1}
  Params <- MCParams
  Seeds <- MCSeeds
  NoFile = NoFile
  HalfFile = HalfFile
  MaxAuthorities = 2
  MaxShares = 3
  MaxRuns = 2
  Member = {0, 1, 2}
  Threshold = 2
  Dealings <- MCDealings
  Collector = {v1, v2}
  Rounds = 2
  Pool <- MCPool
  Seats = 2
  Draws <- MCDraws
  NoShare = NoShare
  Nothing = Nothing
  Garbage = Garbage
  MaxArrivals = 2
INVARIANT SeedsKept
CHECK_DEADLOCK FALSE
