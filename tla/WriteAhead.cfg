SPECIFICATION Spec
CONSTANTS
  e1 = e1
  e2 = e2
  p1 = p1
  p2 = p2
  Events <- MCEvents
  Pods <- MCPods
  MaxRetries = 3
  MaxWrites = 4
  MaxFaults = 3
INVARIANTS
  TypeOK
  LossIsExplained
PROPERTY
  ListDrains
CHECK_DEADLOCK FALSE
