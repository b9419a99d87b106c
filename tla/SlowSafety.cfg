SPECIFICATION CastSpec
CONSTANTS
  p1 = p1
  p2 = p2
  p3 = p3
  Callers = {p1, p3}
  Coordinators = {c1}
  NoCaller = NoCaller
  NoCoordinator = NoCoordinator
  Priority <- MCMixed
  Sizes = {1}
  Limits <- MCDay
  SafetyPercent = 100
  ReservePercent = 25
  AgingInterval = 1
  BaseBackoff = 1
  MaxBackoff = 2
  RetryHints = {0}
  Feedbacks = {"daily"}
  Window = 1
  DayLength = 4
  LedgerFaults = TRUE
  Outlive = FALSE
  MinuteSizes = {1, 2}
  MinuteFeedbacks = {"ambiguous"}
INVARIANTS
  SlotsAreCalls
  
  
  NobodyOversleeps

  
