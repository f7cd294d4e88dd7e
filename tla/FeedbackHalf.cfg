SPECIFICATION Spec
CONSTANTS
  Modes = {"usb"}
  Formats = {"old"}
  Contents = {1}
  Pauses = {0}
  BufferSize = 7
  Leftovers = {0}
  Behind = {}
  Framings = {}
  LineSize = 6
  Responses <- SmallResponses
  MaxSends = 0
  MaxSent = 2
  CanStop = FALSE
INVARIANT EventsComplete
