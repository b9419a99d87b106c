SPECIFICATION CastSpec
CONSTANTS
  r1 = r1
  r2 = r2
  Schedules = {s1}
  RunIds = {r1, r2}
  Tokens = {t1, t2}
  Cycles = {poll, soon}
  Poller = poll
  NoSchedule = NoSchedule
  NoToken = NoToken
  NoRun = NoRun
  Kinds = {"interval"}
  Policies = {"run_once"}
  RunAtTimes = {1}
  EnabledInputs = {"unset"}
  AllowOverlap <- MCNoOverlap
  MaxAttempts = 2
  HistoryLimit = 1
  RetryDelay <- MCRetryDelay
  Interval = 1
  CronPeriod = 2
  LeaseDuration = 1
  MaxClaims = 2
  MaxConcurrent = 1
  StorageFaults = FALSE
  MaxTime = 3
  MaxVersion = 1
  MaxHalts = 1
  EditRuns = {r1, r2, r3}
  EditKinds = {"once", "interval", "cron"}
  EditPolicies = {"run_once", "skip"}
  MCTime = 3
  MCVersion = 4
SYMMETRY Symmetry
INVARIANTS
  NoOverlap
  RunsAreAccounted
PROPERTIES
  LeaseRespected
  OutcomeIsFinal
  ImplementsJobRuns
  EditsAreKept
