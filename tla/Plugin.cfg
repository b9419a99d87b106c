SPECIFICATION FairSpec
CONSTANTS
  Supervisors = {s1}
  NoSupervisor = NoSupervisor
  Clients = {c1, c2}
  NoClient = NoClient
  Contexts = {k1, k2, k3}
  NoContext = NoContext
  Callers = {t1}
  MaxAttempts = 2
  CrashLimit = 1
  MaxCalls = 3
INVARIANTS
  StateAgreesWithClient
  WatchedUntilRecorded
PROPERTIES
  CrashIsReal
  CrashesAreAnswered
CHECK_DEADLOCK FALSE
