SPECIFICATION MindsSpec
CONSTANTS
  ada = ada
  bob = bob
  t1 = t1
  t2 = t2
  worker = worker
  retry = retry
  talk = talk
  e1 = e1
  e2 = e2
  m1 = m1
  d1 = d1
  d2 = d2
  k = k
  Agents = {ada, bob}
  TurnReviews = {t1, t2}
  TurnAgent <- TurnAgents
  SocialReviews = {worker, retry}
  Retried = {retry}
  DialogueOf <- Dialogue
  Dialogues = {talk}
  Observers <- Pairs
  Profile = ada
  Cooldown = 1
  MaxTrait = 3
  SeedTrait = 1
  StoreStep = 2
  MaxTime = 1
  MaxEdits = 1
  MaxSwitches = 1
  Locks = {"persona"}
  Turns = {t1, t2}
  Owner = owner
  Deriver = deriver
  Episodes = {e1, e2}
  Legacy = e2
  Facts = {m1}
  PeerMemories = {d1, d2}
  Keys = {k}
  Texts = {ada, bob}
  None = None
  MaxVersion = 3
  MaxSeed = 2
  MaxQuits = 1
CHECK_DEADLOCK FALSE
PROPERTIES ReviewsHold MemoriesHold
