\* Two accounts, a project, two requests; two memories of three texts, three to choose from,
\* two shards; two devices; a database from before with two sessions and a text to scrub;
\* two users and two deploys; three tokens.
CONSTANTS
  MaxUsers = 2
  Projects = {p}
  Clients = {c1, c2}
  MaxTexts = 3
  MaxModels = 1
  CaptureLimit = 1
  Callers = {m1, m2}
  MemoryCap = 1
  MaxMade = 2
  MaxRows = 3
  TopK = 2
  Budget = 2
  Shards = {"shard1", "shard2"}
  MaxCalls = 2
  PushAccounts = {u1, u2}
  Browsers = {b1}
  Pushes = {r1, r2}
  MaxKeys = 2
  MaxEndpoints = 2
  MaxNumber = 3
  Dirty = {d1}
  Owners = {o1, o2}
  MaxDeploys = 2
  MaxStates = 1
  MaxTokens = 3
  MaxFlows = 1
SPECIFICATION PartsSpec
CONSTRAINT Explored
INVARIANTS
  AccountsHold
  RecallHolds
  DeploysHold
  TokensHold
CHECK_DEADLOCK FALSE
