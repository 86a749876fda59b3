SPECIFICATION Spec
CONSTANTS
  e1 = e1
  e2 = e2
  r1 = r1
  p1 = p1
  p2 = p2
  refused = refused
  timeout = timeout
  Events <- MCEvents
  Relays <- MCRelays
  Pods <- MCPods
  Errors <- MCErrors
  FirstError = refused
  None = None
  QueueSize = 1
  BatchSize = 1
  MaxRetries = 3
  StartFirst = FALSE
  MaxFaults = 1
INVARIANTS
  TypeOK
  NothingForgotten
  GivenUpIsTried
PROPERTY
  BroadcastIsDecided
CHECK_DEADLOCK FALSE
