CONSTANTS
  t1 = t1
  t2 = t2
  r1 = r1
  r2 = r2
  Tabs = {t1, t2}
  Browsers = {1, 2}
  Slots = {r1, r2}
  Budgets <- MCBudgets
  CodesPerSecret = 2
  Limit = 2
  Window = 2
  Grace = 1
  StepTicks = 2
  MaxNow = 2
SYMMETRY Alike
SPECIFICATION Spec
INVARIANTS
  KeptSignedIn
  SignOutEnds
  RecoveryCodesHold
  OneCodePerStep
  LockoutEnds
CHECK_DEADLOCK FALSE
