SPECIFICATION PluginsSpec
CONSTANTS
  h = h
  hl = hl
  t1 = t1
  t2 = t2
  s = s
  Handshake = h
  Healths = {hl}
  Tools = {t1, t2}
  Shutdowns = {s}
  QueueDepth = 1
  EventDepth = 0
  PipeDepth = 1
  MaxConcurrent = 1
  MaxEvents = 1
  p1 = p1
  p2 = p2
  p3 = p3
  key = key
  net = net
  tool = tool
  Packages = {p1, p2, p3}
  Broken = {}
  PluginOf <- OfThePlugin
  Version <- Versioned
  Signer <- SignedBy
  Declares <- Declared
  Broad = {tool}
  Keys = {key}
  Slots = {1, 2}
  None = None
  MaxCalls = 4
  MaxFaults = 1
CHECK_DEADLOCK FALSE
INVARIANTS SessionHolds
PROPERTIES EndReleasesEveryone PackagesHold
