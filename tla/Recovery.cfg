SPECIFICATION FairSpec
CONSTANTS
  Schedules = {s1}
  RunIds = {r1}
  Tokens = {t1, t2}
  Cycles = {poll, soon}
  Poller = poll
  NoSchedule = NoSchedule
  NoToken = NoToken
  NoRun = NoRun
  Kinds = {"interval"}
  Policies = {"run_once"}
  RunAtTimes = {2}
  EnabledInputs = {"unset"}
  AllowOverlap <- MCNoOverlap
  MaxAttempts = 1
  HistoryLimit = 1
  RetryDelay <- MCNoDelay
  Interval = 1
  CronPeriod = 2
  LeaseDuration = 1
  MaxClaims = 2
  MaxConcurrent = 1
  StorageFaults = FALSE
  MaxTime = 2
  MaxVersion = 2
  MaxHalts = 1
PROPERTIES
  RunningEnds
