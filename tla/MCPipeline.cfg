CONSTANTS
  j1 = j1
  j2 = j2
  j3 = j3
  p1 = p1
  p2 = p2
  n1 = n1
  s1 = s1
  JobIds = {j1, j2, j3}
  MaxFinished = 1
  Requests = {p1, p2}
  Rules = {1, 2}
  Names = {n1}
  Sessions = {s1}
  Capital = 10
  Pnls <- MCPnls
  Slips <- MCSlips
  MinTrades = 2
  MaxDrift = 1
  LowPercent <- MCLow
  HighPercent = 40
  LimitPercent <- MCLimit
  Budgets <- MCBudgets
SPECIFICATION Spec
INVARIANTS
  LockedVersion
  UnlockedHasPassed
  EquityIsTheSum
PROPERTIES
  RowSettles
CHECK_DEADLOCK FALSE
