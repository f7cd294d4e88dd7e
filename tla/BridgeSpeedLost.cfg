SPECIFICATION Spec
CONSTANTS
  Modes = {"usb"}
  Ops <- DrivingOps
  Locos = {3}
  Speeds = {10, 20}
  Directions = {1}
  Accessories = {}
  FunctionWords = {}
  Acknowledged = {}
  CmdTimer = 0
  WifiBurst = 1
  MaxRequests = 4
  MaxEvents = 0
INVARIANT SpeedAgreement
