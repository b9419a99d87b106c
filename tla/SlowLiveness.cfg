SPECIFICATION FairSpec
CONSTANTS
  p1 = p1
  p2 = p2
  p3 = p3
  Callers = {p1, p3}
  Coordinators = {c1}
  NoCaller = NoCaller
  NoCoordinator = NoCoordinator
  Priority <- MCMixed
  Sizes = {1}
  Limits <- MCQueue
  SafetyPercent = 100
  ReservePercent = 0
  AgingInterval = 1
  BaseBackoff = 1
  MaxBackoff = 1
  RetryHints = {0}
  Feedbacks = {"short", "ambiguous", "daily"}
  Window = 2
  DayLength = 2
  LedgerFaults = TRUE
  Outlive = FALSE
PROPERTIES
  NobodyStarves
