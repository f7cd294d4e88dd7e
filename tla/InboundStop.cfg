SPECIFICATION Spec
CONSTANTS
  Modes = {"usb", "wifi"}
  Formats = {"old"}
  Contents = {1}
  Pauses = {0}
  BufferSize = 7
  Leftovers = {0}
  Behind <- BehindTheBuffer
  Framings <- StoppingFramings
  LineSize = 6
  Responses <- SmallResponses
  MaxSends = 1
  MaxSent = 2
  CanStop = TRUE
PROPERTIES ReadyStateAdvances
