SPECIFICATION Spec
CONSTANTS
  Links <- WebSocketOnly
  Emulations = {FALSE}
  MaxStarts = 1
  MaxRetries = 1
  MaxPowers = 1
PROPERTIES RetryPossible
CHECK_DEADLOCK FALSE
