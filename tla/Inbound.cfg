SPECIFICATION FairSpec
CONSTANTS
  Modes = {"usb", "wifi"}
  Formats = {"old", "new"}
  Contents = {1}
  Pauses = {0, 1, 2, 4}
  BufferSize = 7
  Leftovers = {0, 10}
  Behind <- BehindTheBuffer
  Framings <- AllFramings
  LineSize = 6
  Responses <- SmallResponses
  MaxSends = 1
  MaxSent = 2
  CanStop = FALSE
INVARIANTS TypeOK TextsArriveWhole HandshakeExact
PROPERTIES StreamSpec NothingTakenBack SafeMessagesArrive HandshakeEnds
