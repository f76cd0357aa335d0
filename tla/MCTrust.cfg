SPECIFICATION TrustSpec
CONSTANTS
  r1 = r1
  r2 = r2
  r3 = r3
  x1 = x
  x2 = x
  x3 = x
  orgA = orgA
  orgB = orgB
  op = op
  noKey = noKey
  gone = gone
  OpKey = {op}
  NoKey = noKey
  Unreadable = gone
  Settings <- MCSettings
  Relay = {r1, r2, r3, x}
  Misread <- MCMisread
  Org = {orgA, orgB}
  OrgOf <- MCOrgOf
  Authority = {r1, r2, r3}
  One = 100
  Decay = 90
  Alpha = 20
  ZThreshold = 3
  MaxStrikes = 32
  MajorityK = 2
  MinOrgs = 2
  EclipseDetect = TRUE
  LocalMinSamples = 2
  MinSamples = 2
  MaxCount = 20
  Epoch = {0}
  NoMedian = NoMedian
  Advert <- MCAdvert
  EpochSecs = 2
  MaxAge = 0
  MaxSkew = 1
  Subject = {r3}
  MaxNow = 1
  MaxLocal = 2
  MaxFaults = 1
  Absent = Absent
  Cut = Cut
  ra = r1
  rb = r2
  a1 = a1
  a2 = a2
  a3 = a3
  us = us
  de = de
  Authorities = {a1, a2, a3}
  Jurisdiction = {us, de}
  Consortia <- MCConsortia
  Rules <- MCRules
  DefaultRules <- MCDefault
  Offers <- MCOffers
  Files <- MCFiles
  MaxClock = 2
  MaxNew = 3
  MaxUpdates = 1
  MaxRosterFaults = 1
  NoEntry = NoEntry
  NoAdmission = NoAdmission
  NoRosterFile = NoRosterFile
  CutRoster = CutRoster
INVARIANTS MergedOnce QuorumBehindMerge LogReplays FedOnce  ThresholdBehindEntry RateLimited
PROPERTIES ScoreEarned
CHECK_DEADLOCK FALSE
