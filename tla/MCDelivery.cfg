CONSTANTS
  t1 = t1
  t2 = t2
  d1 = d1
  d2 = d2
  d3 = d3
  a1 = a1
  a2 = a2
  TunnelIds = {t1, t2}
  Dests = {d1, d2, d3}
  Unwired = {d3}
  Callers = {"runner", "page"}
  MaxRouteTunnels = 2
  Budgets <- MCBudgets
  AlertIds = {a1, a2}
  Modes = {"every", "once", "once_per_bar"}
  MaxBar = 2
SYMMETRY Alike
SPECIFICATION MCSpec
INVARIANTS
  OffMeansStopped
  ServerTriedLast
  SentOncePerBar
  FeedTellsTruth
CHECK_DEADLOCK FALSE
