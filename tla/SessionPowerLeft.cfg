SPECIFICATION Spec
CONSTANTS
  Links <- WebSocketOnly
  Emulations = {FALSE}
  MaxStarts = 1
  MaxRetries = 1
  MaxPowers = 1
INVARIANTS TrackOffWhenStopped
CHECK_DEADLOCK FALSE
