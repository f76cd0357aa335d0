SPECIFICATION Spec
CONSTANTS
  r1 = r1
  r2 = r2
  r3 = r3
  x1 = x1
  x2 = x2
  x3 = x3
  orgA = orgA
  orgB = orgB
  op = op
  noKey = noKey
  gone = gone
  OpKey = {op}
  NoKey = noKey
  Unreadable = gone
  Settings <- OnDisk
  Relay = {r1, r2, r3, x1, x2, x3}
  Misread <- EightBytesOff
  Org = {orgA, orgB}
  OrgOf <- MCOrgOf
  Authority = {r1, r2, r3}
  One = 100
  Decay = 90
  Alpha = 20
  ZThreshold = 3
  MaxStrikes = 32
  MajorityK = 2
  MinOrgs = 2
  EclipseDetect = TRUE
  LocalMinSamples = 2
  MinSamples = 2
  MaxCount = 20
  Epoch = {0, 1}
  NoMedian = NoMedian
  Advert <- TwoEpochs
  EpochSecs = 1
  MaxAge = 0
  MaxSkew = 1
  Subject = {r3}
  MaxNow = 0
  MaxLocal = 2
  MaxFaults = 1
  Absent = Absent
  Cut = Cut
INVARIANTS FailsOnEquivocationOnly
CHECK_DEADLOCK FALSE
