CONSTANTS
  NaN = NaN
  Inf = 1000000
  InitialCapital = 1000
  MarginPercent = 50
  Leverage = 6
  Fee = 2
  Slip = 1
  Tiers <- MCTiers
  FundingEvery = 4
  Rates <- MCRates
  BarTime = 2
  InSample = 6
  OutOfSample = 4
  MaxWindows = 2
  MinTrades = 1
  Levels <- MCLevels
  Oscillators = {"bounded_100", "centered_0", "centered_100"}
  Lookbacks <- MCLookbacks
  Horizons = {1, 2}
  MinSignals = 2
  MaxFilters = 1
  SharePercent = 60
  Alpha = 50
  Cost = 1
  PSteps <- MCPSteps
  HeldBars = 5
  TurningBars = 5
  WalkBars = 7
  SearchCycles = 4
SPECIFICATION Spec
INVARIANTS
  NoLookahead
  SignalsAreFounded
  CoarseIsWorst
PROPERTIES
  StopNeverLoosens
CHECK_DEADLOCK FALSE
