SPECIFICATION FairSpec
CONSTANTS
  Fragments = 2
  MaxBacklog = 2
  CoverZero <- Both
  LinkMayFail = FALSE
  MaxSends = 1
PROPERTIES WaitMeansWritten
CHECK_DEADLOCK FALSE
