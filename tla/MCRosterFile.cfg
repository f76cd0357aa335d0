SPECIFICATION RosterSpec
CONSTANTS
  ra = r1
  rb = r2
  a1 = a1
  a2 = a2
  a3 = a3
  us = us
  de = de
  Relay = {r1, r2}
  Authorities = {a1, a2, a3}
  Jurisdiction = {us, de}
  One = 100
  Decay = 90
  Alpha = 20
  ZThreshold = 3
  MaxStrikes = 32
  Consortia <- MCConsortia
  Rules <- MCRules
  DefaultRules <- MCDefault
  Offers <- MCOffers
  Files <- MCFiles
  MaxClock = 2
  MaxNew = 3
  MaxUpdates = 1
  MaxRosterFaults = 1
  NoEntry = NoEntry
  NoAdmission = NoAdmission
  NoRosterFile = NoRosterFile
  CutRoster = CutRoster
INVARIANTS RecordSigned
CHECK_DEADLOCK FALSE
