SPECIFICATION FairSpec
CONSTANTS
  Modes = {"wifi"}
  Ops <- AccessoryOps
  Locos = {3}
  Speeds = {20}
  Directions = {1}
  Accessories = {5}
  FunctionWords = {}
  Acknowledged = {}
  CmdTimer = 0
  WifiBurst = 3
  MaxRequests = 2
  MaxEvents = 3
PROPERTY HoldReleased
