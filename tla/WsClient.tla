------------------------------ MODULE WsClient ------------------------------
(* The websocket client (websockets/wsclient.cpp): poll moves bytes between  *)
(* the socket and the two buffers, dispatch cuts rxbuf into frames, puts     *)
(* fragments together and hands over messages; close and send fill txbuf.    *)
(* What comes in is followed byte by byte; of what goes out, whole frames.   *)
EXTENDS Turn

CONSTANTS
  Framings,    \* how the station may frame a message, or what else it may send
  MaxSends     \* bound: commands sent by either thread

CONTINUATION == 0
TEXT_FRAME == 1
BINARY_FRAME == 2
CLOSE == 8
PING == 9
PONG == 10

ASSUME WsAssumption ==
  /\ Framings \subseteq {"whole", "huge", "masked", "fragments",
                         "ping", "pong", "close", "unknown", "bad"}
  /\ MaxSends \in Nat

VARIABLES
  wire,          \* bytes the station has sent and recv has not returned
  rxbuf, receivedData, isRxBad,
  txbuf,         \* the frames not yet passed to the socket
  readyState,
  sends

ws == <<wire, rxbuf, receivedData, isRxBad, txbuf, readyState, sends>>

WsTypeOK ==
  /\ wire \in Text /\ rxbuf \in Text /\ receivedData \in Text
  /\ isRxBad \in BOOLEAN
  /\ txbuf \in Seq({"command", "pong", "close"})
  /\ readyState \in {"OPEN", "CLOSING", "CLOSED"}
  /\ sends \in 0..MaxSends

WsInit ==
  /\ wire = <<>> /\ rxbuf = <<>> /\ receivedData = <<>> /\ isRxBad = FALSE
  /\ txbuf = <<>> /\ readyState = "OPEN" /\ sends = 0
-----------------------------------------------------------------------------
(* A frame as the protocol writes it: the two bytes, the extended length,    *)
(* the masking key, the payload.                                             *)
Key == <<18, 52, 86, 120>>
Xor(a, b) ==
  LET bit(n) == ((a \div n + b \div n) % 2) * n
  IN  bit(1) + bit(2) + bit(4) + bit(8) + bit(16) + bit(32) + bit(64) + bit(128)
Masked(data, key) == [k \in DOMAIN data |-> Xor(data[k], key[((k - 1) % 4) + 1])]

Frame(fin, opcode, N0, length, data) == <<fin * 128 + opcode, N0>> \o length \o data
Long(n) == <<0, n>>
Huge(n) == <<0, 0, 0, 0, 0, 0, 0, n>>

(* What the station may send for a message: the same text in every form the  *)
(* protocol has.  The last five carry none.                                  *)
Sent(framing, text) ==
  LET n == Len(text) IN
  CASE framing = "whole"     -> Frame(1, TEXT_FRAME, n, <<>>, text)
    [] framing = "huge"      -> Frame(1, TEXT_FRAME, 127, Huge(n), text)
    [] framing = "masked"    -> Frame(1, BINARY_FRAME, 128 + 126, Long(n) \o Key, Masked(text, Key))
    [] framing = "fragments" -> Frame(0, TEXT_FRAME, 1, <<>>, SubSeq(text, 1, 1))
                                  \o Frame(1, PING, 0, <<>>, <<>>)
                                  \o Frame(1, CONTINUATION, n - 1, <<>>, SubSeq(text, 2, n))
    [] framing = "ping"      -> Frame(1, PING, 1, <<>>, <<LT>>)
    [] framing = "pong"      -> Frame(1, PONG, 0, <<>>, <<>>)
    [] framing = "close"     -> Frame(1, CLOSE, 0, <<>>, <<>>)
    [] framing = "unknown"   -> Frame(1, 3, 1, <<>>, <<GT>>)
    [] framing = "bad"       -> Frame(1, TEXT_FRAME, 127, <<128, 0, 0, 0, 0, 0, 0, 0>>, <<>>)

HasMessage(framing) == framing \in {"whole", "huge", "masked", "fragments"}
-----------------------------------------------------------------------------
(* sendData and close.  The host thread closes only after it has killed the  *)
(* loop thread: readyState has one writer at a time, so that testing it and  *)
(* setting it is one step.                                                   *)
sendData(frame) == txbuf' = IF readyState = "OPEN" THEN Append(txbuf, frame) ELSE txbuf

closeAnew ==
  /\ readyState' = "CLOSING" /\ txbuf' = Append(txbuf, "close")
close ==
  IF readyState = "OPEN"
  THEN readyState' = "CLOSING" /\ txbuf' = Append(txbuf, "close")
  ELSE UNCHANGED <<readyState, txbuf>>

(* A command of either thread.                                               *)
sendCommand ==
  /\ mode = "wifi" /\ sends < MaxSends /\ sends' = sends + 1 /\ sendData("command")
  /\ UNCHANGED <<wire, rxbuf, receivedData, isRxBad, readyState>>
-----------------------------------------------------------------------------
(* poll.  recv until there is nothing more or the connection is gone; send   *)
(* in either case; and close the socket once the close frame has left.       *)
noPoll ==
  /\ mode = "wifi" /\ loopPc = "receive" /\ readyState = "CLOSED" /\ loopPc' = "command"
  /\ UNCHANGED <<mode, cmdToParse, sent, finished, ws>>

recvBytes ==
  /\ mode = "wifi" /\ loopPc = "receive" /\ readyState # "CLOSED"
  /\ \E n \in 1..Len(wire) :
       rxbuf' = rxbuf \o SubSeq(wire, 1, n) /\ wire' = SubSeq(wire, n + 1, Len(wire))
  /\ UNCHANGED <<turn, receivedData, isRxBad, txbuf, readyState, sends>>

recvBlocks ==
  /\ mode = "wifi" /\ loopPc = "receive" /\ readyState # "CLOSED" /\ loopPc' = "send"
  /\ UNCHANGED <<mode, cmdToParse, sent, finished, ws>>

recvFails ==
  /\ mode = "wifi" /\ loopPc = "receive" /\ readyState # "CLOSED" /\ loopPc' = "send"
  /\ readyState' = "CLOSED"
  /\ UNCHANGED <<mode, cmdToParse, sent, finished, wire, rxbuf, receivedData, isRxBad, txbuf, sends>>

sendBytes ==
  /\ loopPc = "send" /\ readyState # "CLOSED"
  /\ \E n \in 1..Len(txbuf) : txbuf' = SubSeq(txbuf, n + 1, Len(txbuf))
  /\ UNCHANGED <<turn, wire, rxbuf, receivedData, isRxBad, readyState, sends>>

sendFails ==
  /\ loopPc = "send" /\ txbuf # <<>> /\ readyState' = "CLOSED" /\ loopPc' = "dispatch"
  /\ UNCHANGED <<mode, cmdToParse, sent, finished, wire, rxbuf, receivedData, isRxBad, txbuf, sends>>

sendReturns ==
  /\ loopPc = "send" /\ (txbuf = <<>> \/ readyState # "CLOSED")
  /\ readyState' = IF txbuf = <<>> /\ readyState = "CLOSING" THEN "CLOSED" ELSE readyState
  /\ loopPc' = "dispatch"
  /\ UNCHANGED <<mode, cmdToParse, sent, finished, wire, rxbuf, receivedData, isRxBad, txbuf, sends>>

poll == noPoll \/ recvBytes \/ recvBlocks \/ recvFails \/ sendBytes \/ sendFails \/ sendReturns
-----------------------------------------------------------------------------
(* dispatch.  The header, as far as rxbuf goes.                              *)
fin == rxbuf[1] \div 128 = 1
opcode == rxbuf[1] % 16
mask == rxbuf[2] \div 128 = 1
N0 == rxbuf[2] % 128
extended == IF N0 = 126 THEN 2 ELSE IF N0 = 127 THEN 8 ELSE 0
header_size == 2 + extended + (IF mask THEN 4 ELSE 0)
N ==
  LET byte(n, k) == 256 * n + rxbuf[k]
  IN  CASE extended = 0 -> N0
        [] extended = 2 -> byte(rxbuf[3], 4)
        [] extended = 8 -> byte(byte(byte(byte(byte(byte(byte(rxbuf[3], 4), 5), 6), 7), 8), 9), 10)
payload ==
  LET data == SubSeq(rxbuf, header_size + 1, header_size + N)
  IN  IF mask THEN Masked(data, SubSeq(rxbuf, header_size - 3, header_size)) ELSE data

HasHeader == Len(rxbuf) >= 2 /\ Len(rxbuf) >= header_size
InvalidLength == HasHeader /\ N0 = 127 /\ rxbuf[3] >= 128
HasMoreThanFrame == HasHeader /\ ~InvalidLength /\ Len(rxbuf) > header_size + N
HasFrame == HasHeader /\ ~InvalidLength /\ Len(rxbuf) >= header_size + N
eraseFrame == rxbuf' = SubSeq(rxbuf, header_size + N + 1, Len(rxbuf))

Dispatching == loopPc = "dispatch" /\ ~isRxBad

(* waitWsCommands, the callback: what it does not take for a message is      *)
(* dropped.                                                                  *)
Accepts(text) ==
  /\ text # <<>> /\ Seqs!Last(text) = GT
  /\ \/ text[1] = LT
     \/ Len(text) > 1 /\ text[1] = DASH /\ text[2] = GT
waitWsCommands(text) == IF Accepts(text) THEN Receive(text) ELSE UNCHANGED cmdToParse

FragmentOnly == payload
Assembled == receivedData \o payload
keepData == receivedData' = Assembled
freeData == receivedData' = <<>>
dispatchData ==
  /\ Dispatching /\ HasFrame /\ opcode \in {TEXT_FRAME, BINARY_FRAME, CONTINUATION}
  /\ IF fin
     THEN waitWsCommands(Assembled) /\ freeData /\ finished' = finished + 1
     ELSE keepData /\ UNCHANGED <<cmdToParse, finished>>
  /\ eraseFrame
  /\ UNCHANGED <<mode, loopPc, sent, wire, isRxBad, txbuf, readyState, sends>>

dispatchPing ==
  /\ Dispatching /\ HasFrame /\ opcode = PING /\ sendData("pong") /\ eraseFrame
  /\ UNCHANGED <<turn, wire, receivedData, isRxBad, readyState, sends>>

dispatchPong ==
  /\ Dispatching /\ HasFrame /\ opcode = PONG /\ eraseFrame
  /\ UNCHANGED <<turn, wire, receivedData, isRxBad, txbuf, readyState, sends>>

(* A close frame, or one with an opcode the client does not know.            *)
dispatchClose ==
  /\ Dispatching /\ HasFrame
  /\ opcode \notin {TEXT_FRAME, BINARY_FRAME, CONTINUATION, PING, PONG}
  /\ close /\ eraseFrame
  /\ UNCHANGED <<turn, wire, receivedData, isRxBad, sends>>

dispatchInvalidLength ==
  /\ Dispatching /\ InvalidLength /\ isRxBad' = TRUE /\ close /\ loopPc' = "command"
  /\ UNCHANGED <<mode, cmdToParse, sent, finished, wire, rxbuf, receivedData, sends>>

dispatchReturns ==
  /\ loopPc = "dispatch"
  /\ isRxBad \/ (~InvalidLength /\ ~HasFrame)
  /\ loopPc' = "command"
  /\ UNCHANGED <<mode, cmdToParse, sent, finished, ws>>

dispatch ==
  \/ dispatchData \/ dispatchPing \/ dispatchPong \/ dispatchClose
  \/ dispatchInvalidLength \/ dispatchReturns

(* The station sends.                                                        *)
transmit(framing, text) ==
  /\ wire' = wire \o Sent(framing, text)
  /\ UNCHANGED <<rxbuf, receivedData, isRxBad, txbuf, readyState, sends>>
-----------------------------------------------------------------------------
(* Properties.                                                               *)

(* A connection only ever goes from open to closing to closed: a close frame *)
(* found after the connection was lost does not open it again, and neither   *)
(* does the close of the host thread, wherever in its turn it has killed the *)
(* loop thread (close, poll, closeAnyConnection).                            *)
Rank == [state \in {"OPEN", "CLOSING", "CLOSED"} |->
           CASE state = "OPEN" -> 0 [] state = "CLOSING" -> 1 [] state = "CLOSED" -> 2]
ReadyStateAdvances == [][Rank[readyState] <= Rank[readyState']]_<<turn, ws>>
=============================================================================
