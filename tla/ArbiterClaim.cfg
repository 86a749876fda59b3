SPECIFICATION Spec
CONSTANTS
  None = None
  Claims <- MCClaims
  SettleWindow = 2
  MaxDelay = 1
  MaxTime = 8
  MaxSubmits = 4
INVARIANTS
  TypeOK
  AtMostOneActs
  ToldHolds
PROPERTY
  ImplementsTaskLease
CHECK_DEADLOCK FALSE
