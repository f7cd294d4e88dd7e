SPECIFICATION LiveSpec
CONSTANTS
  Links <- BothLinks
  Emulations = {TRUE, FALSE}
  MaxStarts = 2
  MaxRetries = 1
  MaxPowers = 1
INVARIANTS TypeOK OneLoopThread StartedMeansUsable
PROPERTIES StartEnds
CHECK_DEADLOCK FALSE
