SPECIFICATION RequestsSpec
CONSTANTS
  Lookups = {"l1", "l2"}
  At <- MCAt
  Ttl = 1
  MaxLookup = 0
  MaxChanges = 1
  MaxFaults = 1
  RankReplicas = {"p", "q"}
  RankNodes = {"x", "o"}
  Graphs <- MCGraphs
  TrustRoots = {"o"}
  MaxRankClock = 3
  MaxRankFaults = 1
  Remotes <- MCRemotes
  Workers = {"x", "y"}
  QueueSize = 1
  Lookback = 0
  FetchLimit = 1
  MaxClock = 1
  MaxEvents = 2
  MaxRuns = 2
  MaxMishaps = 1
  BoxUsers = {"o", "w"}
  Nobody = "nobody"
  SingleOwner = "o"
  Events <- MCBoxEvents
  Filters <- MCBoxFilters
  MaxRuleChanges = 2
  MaxLookupFaults = 1
  GroupIds = {"g"}
  Pubkeys = {"a", "b"}
  NoKey = "nokey"
  Codes = {"k"}
  GroupAdmins = {"a"}
  MaxGroupsPerUser = 1
  MaxUses = 1
  GroupCallers = {1, 2}
  MaxGroupCalls = 4
  MaxGroupFaults = 1
  Writers = {"relay", "p", "q"}
  RelayKey = "relay"
  PrefixOwner = "p"
  NoOwner = "nokey"
  MaxCreatedAt = 2
  MaxTransferDepth = 20
  MaxPublications = 3
  GateRequests = {1, 2}
  Sends <- MCSends
  GateAuthors = {"a", "b"}
  NoAuthor = "noauthor"
  NoId = "noid"
  GateEvents <- MCGateEvents
  AuthExempt = {"connect"}
  IpExempt = {"connect"}
  CollabKinds = {"collab"}
  CollabRate = 1
  Rate <- MCRate
  Followed = {}
  Allowed = {}
  MinPoW = TRUE
  FirstKeys = {"noauthor", "a"}
  BanTargets = {"a"}
  PaidTtl = 1
  MaxWait = 0
  MaxAuths = 1
  MaxEdits = 1
  MaxTicks_ = 2
  MaxGateFaults = 1
  Readers = {"x", "y"}
  NoReader = "noreader"
  PrivateGroups = {"g"}
  NoGroup = "none"
  Stored <- MCStored
  ReadFilters <- MCReadFilters
  GiftGrace = 1
  ProfileTtl = 1
  SweepBatchSize = 1
  MaxClock_ = 3
  MaxReadChanges = 1
  AdminPods = {"p", "q"}
  Tokens = {"s"}
  Admins = {"a"}
  NoAdmin = "noadmin"
  SessionTTL = 1
  MaxAdminClock = 3
  MaxRedisFaults = 2
  MaxDeploys = 1
INVARIANTS
  TypeOK
  StandingIsRecent
  LostImportsAreExplained
  
  
  
  
  SessionsHold
CHECK_DEADLOCK FALSE
