SPECIFICATION Spec
CONSTANTS
  b1 = b1
  b2 = b2
  Bots = {b1, b2}
  Requests = {r1, r2}
  Leverages = {1, 2}
  Market <- MCMarket
  Strategy <- MCStrategy
  Hedged = {}
  MaxStarted = 4
SYMMETRY Symmetry
INVARIANTS TypeOK OneWayExclusive ArmedWithinLimit HaltCarriesItsReason
PROPERTIES KeepsLifecycle LooseningNeedsCode KillHalts
CHECK_DEADLOCK FALSE
