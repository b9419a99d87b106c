SPECIFICATION CastSpec
CONSTANTS
  r1 = r1
  r2 = r2
  write = write
  ask = ask
  Runs = {r1, r2}
  Calls = {write, ask}
  CallsOf <- AllCalls
  Writes = {write}
  Delegates = {ask}
  Streams = {"plain", "interactive"}
  RunKinds = {"interactive", "background"}
  Fallback = TRUE
  Required = {}
  MaxSteps = 2
  MaxToolCalls = 2
  MaxDelegations = 1
  Nobody = Nobody
  Reviewer = Reviewer
  MaxCrashes = 0
  MaxPanics = 1
CHECK_DEADLOCK FALSE
INVARIANTS EndsAreTold ApprovalsHold SubagentsEndFirst
PROPERTIES FallbackIsSilent RowsFollowRunLife OneRunEnds
