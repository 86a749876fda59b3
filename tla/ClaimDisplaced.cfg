SPECIFICATION Spec
CONSTANTS
  None = None
  Claims = {1, 2}
  SettleWindow = 2
  MaxDelay = 2
  MaxTime = 6
  MaxSubmits = 2
PROPERTY
  FinalAfterWindow
CHECK_DEADLOCK FALSE
