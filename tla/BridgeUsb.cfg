SPECIFICATION FairSpec
CONSTANTS
  Modes = {"usb"}
  Ops <- RunningOps
  Locos = {3, 4}
  Speeds <- ReverseSpeeds
  Directions = {1}
  Accessories = {5}
  FunctionWords = {}
  Acknowledged = {}
  CmdTimer = 1
  WifiBurst = 1
  MaxRequests = 3
  MaxEvents = 1
INVARIANTS TypeOK GateFollowsPower StoppedWhileHeld StopsSoFar RegisterIntegrity PowerAgreement
PROPERTIES QueueDrains HoldReleased
