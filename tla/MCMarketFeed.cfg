CONSTANTS
  s1 = s1
  s2 = s2
  s3 = s3
  Series = {s1, s2, s3}
  Main = s1
  MaxBar = 5
  PageLimit = 2
  GapBars = 4
  Wanted = 3
  MaxChannels = 4
  Budgets <- MCBudgets
SPECIFICATION Spec
INVARIANTS
  WarmIsWhole
PROPERTIES
  SettledStays
  WatchedIsServed
CHECK_DEADLOCK FALSE
