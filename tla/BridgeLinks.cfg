SPECIFICATION Spec
CONSTANTS
  Modes = {"usb", "wifi", "emulation"}
  Ops <- AllOps
  Locos = {3, 12}
  Speeds = {20}
  Directions = {1}
  Accessories = {5}
  FunctionWords = {3}
  Acknowledged = {"t", "f", "T"}
  CmdTimer = 0
  WifiBurst = 2
  MaxRequests = 3
  MaxEvents = 0
PROPERTIES GateSpec RepliesRecognised
