SPECIFICATION MCSpec
CONSTANTS
  Script <- MCScript
  Kills = {k1}
  KillSecond <- MCKillSecond
  PositionLimit = 1
  Rate = 1
  Minute = 1
  Reentries <- MCReentries
  MaxClock = 1
  MaxSends = 4
INVARIANTS OneOrderPerSignal WithinLimit RateHolds
PROPERTIES ClosesOnlyShrink CleanKillIsFlat
CHECK_DEADLOCK FALSE
