SPECIFICATION Spec
CONSTANTS
  Day = 2
  Minute = 1
  Arms = {a1, a2}
  MaxClock = 3
  MaxEquity = 4
  DailyLoss = 2
  Drawdown = 60
SYMMETRY Symmetry
INVARIANTS LossSinceFirstArmHalts
