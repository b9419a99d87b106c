SPECIFICATION PeersSpec
CONSTANTS
  ada = ada
  bob = bob
  cyd = cyd
  d1 = d1
  d2 = d2
  d3 = d3
  t1 = t1
  t2 = t2
  Agents = {ada, bob, cyd}
  Dialogues = {d1}
  Turns = {t1}
  Initiator <- OneInitiator
  Partner <- OnePartner
  Trigger <- OneTrigger
  Kind <- OneKind
  Cooldown <- Cooldowns
  AutoCooldown = 1
  Lasts = 2
  MinTurns = 2
  MaxTurns = 3
  MaxTokens = 3
  MaxAttempts = 2
  Usage = {0, 1, 2}
  DailyLimit = 1
  PolicyCooldown = 1
  DayLength = 2
  MaxTime = 3
  MaxCrashes = 2
  MaxPanics = 1
CHECK_DEADLOCK FALSE
INVARIANTS DialoguesHold
PROPERTIES DialoguesFollowPeerLife DialogueEnds PairsAreRationed
