SPECIFICATION ServicesSpec
CONSTANTS
  AccessReplicas = {r1}
  AccessAdmins = {a1}
  Requests <- MCRequests
  Pubkey = pk
  EventId = ev
  Kind = kd
  Ip = ip
  MaxWrites = 2
  MaxLoadFaults = 1
  Requesters = {q1, q2, q3}
  Counters = {k1, k2, k3}
  NoCounter = nc
  MaxTokens = 2
  PerInterval = 1
  WindowSize = 1
  Nanos = {0, 1}
  MaxTicks = 1
  MaxRefills = 2
  Checks = {e1, e2}
  Slots = 1
  LiveRelays = {"r1", "r2"}
  Posts = {"e"}
  MaxBackoff = 3
  MaxLinkFaults = 2
  MaxStoreFaults = 1
  Pods = {"p", "q"}
  Notes = {"e", "f"}
  PublishBufferSize = 1
  MaxPubSubFaults = 1
  Instances = {"i", "j"}
  Nobody_ = "nobody"
  SearchRows = {1, 2}
  MaxSetupFaults = 2
INVARIANTS
  TypeOK
  BanHoldsOnReturn
  
  SlotsAndDeletionsHold
  ActiveSearchIsComplete
PROPERTIES
  WritesReachReplicas
  CheckIsAnswered
  HeldPostsAreStored
  NotesReachEveryPod
  EveryReplicaServesSearch
CHECK_DEADLOCK FALSE
