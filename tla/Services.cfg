SPECIFICATION ServicesSpec
CONSTANTS
  HourLen = 2
  DayHours = 4
  WeekLen = 3
  MonthDays <- TwoMonths
  LeapMonth = 2
  LeapEvery = 3
  FirstLeap = 2
  Years = 8
  SearchWindow = 260
  Zones <- MCZones
  Expressions <- MCExpressions
  Starts = {20, 35, 70}
  Agents = {1, 2}
  Convs = {c1}
  Providers = {openai, google, codex}
  Keyed = {openai, google}
  Forgetful = {google}
  Codex = codex
  Dirs = {d1}
  Slots = {s1, s2}
  None = None
  MaxCalls = 3
  MaxQuits = 1
  Notices = {n1, n2}
  Types = {"task"}
  TypeOf <- OneType
  Offers <- TwoOffers
  Day = 2
  Tries = 2
  Horizon = 3
  MaxMishaps = 2
  Calls = {1, 2}
  Pieces = 2
  Dialects = {"chat", "noids", "whole", "responses", "json"}
  MaxAttempts = 2
  FirstByte = 2
  IdleBudget = 1
  InitialBackoff = 1
  MaxBackoff = 2
  MaxRetryAfter = 1
  RetryHints = {0, 2}
  MaxEvents = 10
  MaxWire = 1
  Ticks = 2
  Dests = {"archive"}
  Targets = {"directory"}
  Blobs = {"blob"}
  Passes = {"passphrase"}
  Fields = {"theme", "token"}
  Sensitive = {"token"}
  MaxWrites = 1
  MaxFaults = 2
  s1 = s1
  s2 = s2
  n1 = n1
  n2 = n2
SYMMETRY Symmetry
INVARIANTS FirstMatch AcceptedMeansReachable BackupsAreTrue StreamsAreWhole
PROPERTIES WorkspaceHolds 
CHECK_DEADLOCK FALSE
