CONSTANTS
  d1 = d1
  d2 = d2
  r1 = r1
  r2 = r2
  Devices <- TheDevices
  Requests <- TheRequests
  MaxUnnamed = 1
  MaxSent = 5
  MaxEdits = 2
  MaxFaults = 1
SPECIFICATION Spec
CONSTRAINT Budget
SYMMETRY Symmetry
INVARIANTS HistoryIsTrue NoBlindOverwrite KeptUntilAccepted DirtyIsPursued
PROPERTIES Register
CHECK_DEADLOCK FALSE
