---------------------------- MODULE InboundProofs ----------------------------
(* Theorems about Inbound, for every value of its constants.                 *)
EXTENDS Inbound, NodeListTheorems, SequenceTheorems

(* Two bytes combined bit by bit are a byte.                                 *)
LEMMA XorType ==
  ASSUME NEW a \in Bytes, NEW b \in Bytes
  PROVE  Xor(a, b) \in Bytes
<1> DEFINE bit(n) == ((a \div n + b \div n) % 2) * n
<1>1. a \in Nat /\ b \in Nat
  BY DEF Bytes
<1>2. \A m \in Int : m % 2 \in {0, 1}
  OBVIOUS
<1>3. /\ bit(1) \in {0, 1} /\ bit(2) \in {0, 2} /\ bit(4) \in {0, 4} /\ bit(8) \in {0, 8}
      /\ bit(16) \in {0, 16} /\ bit(32) \in {0, 32} /\ bit(64) \in {0, 64}
      /\ bit(128) \in {0, 128}
  <2>1. \A n \in Nat \ {0} : a \div n \in Int /\ b \div n \in Int
    BY <1>1
  <2>2. \A n \in Nat \ {0} : (a \div n + b \div n) % 2 \in {0, 1}
    BY <1>2, <2>1
  <2> QED BY <2>2
<1>4. Xor(a, b) = bit(1) + bit(2) + bit(4) + bit(8) + bit(16) + bit(32) + bit(64) + bit(128)
  BY DEF Xor
<1> HIDE DEF bit
<1> QED BY <1>3, <1>4 DEF Bytes

(* A function from the first n positions to bytes is a text of length n.     *)
LEMMA IsText ==
  ASSUME NEW n \in Nat, NEW f \in [1..n -> Bytes]
  PROVE  f \in Text /\ Len(f) = n
BY SMT DEF Text

LEMMA MaskedType ==
  ASSUME NEW data \in Text, NEW key \in Text, Len(key) = 4
  PROVE  Masked(data, key) \in Text /\ Len(Masked(data, key)) = Len(data)
<1>1. /\ Len(data) \in Nat /\ DOMAIN data = 1..Len(data)
      /\ \A k \in 1..Len(data) : data[k] \in Bytes
  BY DEF Text
<1>2. \A k \in 1..Len(data) : key[((k - 1) % 4) + 1] \in Bytes
  <2>1. \A k \in 1..Len(data) : ((k - 1) % 4) + 1 \in 1..4
    OBVIOUS
  <2>2. \A j \in 1..4 : key[j] \in Bytes
    BY ElementOfSeq DEF Text
  <2> QED BY <2>1, <2>2
<1>3. \A k \in 1..Len(data) : Xor(data[k], key[((k - 1) % 4) + 1]) \in Bytes
  BY <1>1, <1>2, XorType
<1>4. Masked(data, key) \in [1..Len(data) -> Bytes]
  <2> HIDE DEF Bytes
  <2> QED BY <1>1, <1>3 DEF Masked
<1> QED BY <1>1, <1>4, IsText

LEMMA ConcatText ==
  ASSUME NEW s \in Text, NEW t \in Text
  PROVE  s \o t \in Text
BY ConcatProperties DEF Text

LEMMA FrameType ==
  ASSUME NEW fin_ \in {0, 1}, NEW opcode_ \in 0..15, NEW N0_ \in Bytes,
         NEW length \in Text, NEW data \in Text
  PROVE  Frame(fin_, opcode_, N0_, length, data) \in Text
<1>1. fin_ * 128 + opcode_ \in Bytes
  BY DEF Bytes
<1>2. <<fin_ * 128 + opcode_, N0_>> \in Text
  BY <1>1, SMT DEF Text
<1> QED BY <1>2, ConcatText DEF Frame

(* What the station says is short, and every frame it makes of it is bytes.  *)
LEMMA TextOfType ==
  ASSUME NEW format \in Formats, NEW number \in Contents
  PROVE  TextOf(format, number) \in Text /\ Len(TextOf(format, number)) \in 1..4
<1>1. 48 + number \in Bytes
  BY InboundAssumption DEF Bytes
<1>2. LT \in Bytes /\ GT \in Bytes /\ DASH \in Bytes /\ SPACE \in Bytes
  BY DEF LT, GT, DASH, SPACE, Bytes
<1>3. format \in {"old", "new", "boot"}
  BY InboundAssumption
<1> HIDE DEF Bytes
<1>4. CASE format = "old"
  BY <1>1, <1>2, <1>4, SMT DEF TextOf, Text
<1>5. CASE format = "new"
  BY <1>1, <1>2, <1>5, SMT DEF TextOf, Text
<1>6. CASE format = "boot"
  BY <1>1, <1>2, <1>6, SMT DEF TextOf, Text
<1> QED BY <1>3, <1>4, <1>5, <1>6

LEMMA SubText ==
  ASSUME NEW s \in Text, NEW m \in 1..(Len(s) + 1), NEW n \in (m - 1)..Len(s)
  PROVE  SubSeq(s, m, n) \in Text /\ Len(SubSeq(s, m, n)) = n - m + 1
<1>1. \A k \in m..n : s[k] \in Bytes
  BY DEF Text
<1>2. m \in Int /\ n \in Int /\ Len(s) \in Nat
  BY DEF Text
<1> QED BY <1>1, <1>2, SubSeqProperties DEF Text

LEMMA SentType ==
  ASSUME NEW framing \in Framings, NEW text \in Text, Len(text) \in 1..4
  PROVE  Sent(framing, text) \in Text
<1> DEFINE n == Len(text)
<1>1. n \in Bytes /\ n - 1 \in Bytes /\ n \in Nat /\ n >= 1
  BY DEF Bytes
<1>2. 0 \in Bytes /\ 1 \in Bytes /\ 127 \in Bytes /\ 254 \in Bytes /\ 128 \in Bytes
      /\ LT \in Bytes /\ GT \in Bytes
  BY DEF Bytes, LT, GT
<1>3. <<>> \in Text /\ Huge(n) \in Text /\ Long(n) \in Text
      /\ <<128, 0, 0, 0, 0, 0, 0, 0>> \in Text
  <2> HIDE DEF n, Bytes
  <2> QED BY <1>1, <1>2, SMT DEF Huge, Long, Text
<1>4. Key \in Text /\ Len(Key) = 4 /\ <<LT>> \in Text /\ <<GT>> \in Text
  BY SMT DEF Key, Text, Bytes, LT, GT
<1>5. SubSeq(text, 1, 1) \in Text /\ SubSeq(text, 2, n) \in Text
  BY <1>1, SubText
<1>6. framing \in {"whole", "huge", "masked", "fragments",
                   "ping", "pong", "close", "unknown", "bad"}
  BY WsAssumption
<1>7. /\ TEXT_FRAME \in 0..15 /\ BINARY_FRAME \in 0..15 /\ PING \in 0..15 /\ PONG \in 0..15
      /\ CLOSE \in 0..15 /\ CONTINUATION \in 0..15 /\ 3 \in 0..15
  BY DEF TEXT_FRAME, BINARY_FRAME, PING, PONG, CLOSE, CONTINUATION
<1>8. Masked(text, Key) \in Text /\ Long(n) \o Key \in Text
  BY <1>3, <1>4, MaskedType, ConcatText
<1> HIDE DEF n
<1>a. CASE framing = "whole"
  BY <1>a, <1>1, <1>3, <1>7, FrameType DEF Sent, n
<1>b. CASE framing = "huge"
  BY <1>b, <1>2, <1>3, <1>7, FrameType DEF Sent, n
<1>c. CASE framing = "masked"
  <2>1. 128 + 126 = 254
    OBVIOUS
  <2> QED BY <1>c, <2>1, <1>2, <1>8, <1>7, FrameType DEF Sent, n
<1>d. CASE framing = "fragments"
  <2>1. Frame(0, TEXT_FRAME, 1, <<>>, SubSeq(text, 1, 1)) \in Text
    BY <1>2, <1>3, <1>5, <1>7, FrameType
  <2>2. Frame(1, PING, 0, <<>>, <<>>) \in Text
    BY <1>2, <1>3, <1>7, FrameType
  <2>3. Frame(1, CONTINUATION, n - 1, <<>>, SubSeq(text, 2, n)) \in Text
    BY <1>1, <1>3, <1>5, <1>7, FrameType
  <2> QED BY <1>d, <2>1, <2>2, <2>3, ConcatText DEF Sent, n
<1>e. CASE framing \in {"ping", "pong", "close", "unknown", "bad"}
  BY <1>e, <1>2, <1>3, <1>4, <1>7, FrameType DEF Sent
<1> QED BY <1>6, <1>a, <1>b, <1>c, <1>d, <1>e
-----------------------------------------------------------------------------
(* The header of a frame, and what follows it, once they are there.          *)
LEMMA HeaderType ==
  ASSUME WsTypeOK, HasHeader
  PROVE  /\ N \in Nat /\ header_size \in Nat /\ header_size >= 2
         /\ header_size <= Len(rxbuf) /\ (mask => header_size >= 6)
<1>1. Len(rxbuf) \in Nat /\ Len(rxbuf) >= 2 /\ header_size <= Len(rxbuf)
  BY DEF WsTypeOK, HasHeader, Text
<1>2. \A k \in 1..Len(rxbuf) : rxbuf[k] \in Nat
  <2>1. \A k \in 1..Len(rxbuf) : rxbuf[k] \in Bytes
    BY ElementOfSeq DEF WsTypeOK, Text
  <2>2. Bytes \subseteq Nat
    BY DEF Bytes
  <2> HIDE DEF Bytes
  <2> QED BY <2>1, <2>2
<1>3. N0 \in Nat
  BY <1>1, <1>2 DEF N0
<1>4. extended \in {0, 2, 8}
  BY DEF extended
<1>5. /\ header_size \in Nat /\ header_size >= 2 + extended
      /\ mask => header_size >= 6
  BY <1>4 DEF header_size
<1>6. N \in Nat
  <2>1. CASE extended = 0
    BY <2>1, <1>3 DEF N
  <2>2. CASE extended = 2
    <3>1. rxbuf[3] \in Nat /\ rxbuf[4] \in Nat
      BY <2>2, <1>1, <1>2, <1>5
    <3>2. N = 256 * rxbuf[3] + rxbuf[4]
      BY <2>2 DEF N
    <3> QED BY <3>1, <3>2
  <2>3. CASE extended = 8
    <3> DEFINE byte(n, k) == 256 * n + rxbuf[k]
    <3>1. \A k \in 3..10 : rxbuf[k] \in Nat
      BY <2>3, <1>1, <1>2, <1>5
    <3>2. \A n \in Nat, k \in 3..10 : byte(n, k) \in Nat
      BY <3>1
    <3>3. N = byte(byte(byte(byte(byte(byte(byte(rxbuf[3], 4), 5), 6), 7), 8), 9), 10)
      BY <2>3 DEF N
    <3> HIDE DEF byte
    <3>4. {3, 4, 5, 6, 7, 8, 9, 10} \subseteq 3..10
      OBVIOUS
    <3>5. byte(byte(rxbuf[3], 4), 5) \in Nat
      BY <3>1, <3>2, <3>4
    <3>6. byte(byte(byte(byte(rxbuf[3], 4), 5), 6), 7) \in Nat
      BY <3>2, <3>4, <3>5
    <3>7. byte(byte(byte(byte(byte(byte(rxbuf[3], 4), 5), 6), 7), 8), 9) \in Nat
      BY <3>2, <3>4, <3>6
    <3> QED BY <3>2, <3>3, <3>4, <3>7
  <2> QED BY <1>4, <2>1, <2>2, <2>3
<1> QED BY <1>1, <1>4, <1>5, <1>6

LEMMA FrameParts ==
  ASSUME WsTypeOK, HasFrame
  PROVE  /\ payload \in Text
         /\ SubSeq(rxbuf, header_size + N + 1, Len(rxbuf)) \in Text
<1>1. HasHeader /\ Len(rxbuf) >= header_size + N
  BY DEF HasFrame
<1>2. /\ N \in Nat /\ header_size \in Nat /\ header_size >= 2
      /\ header_size <= Len(rxbuf) /\ (mask => header_size >= 6)
  BY <1>1, HeaderType
<1>3. rxbuf \in Text /\ Len(rxbuf) \in Nat
  BY DEF WsTypeOK, Text
<1> DEFINE data == SubSeq(rxbuf, header_size + 1, header_size + N)
           key == SubSeq(rxbuf, header_size - 3, header_size)
<1>4. data \in Text
  BY <1>1, <1>2, <1>3, SubText
<1>5. mask => key \in Text /\ Len(key) = 4
  BY <1>2, <1>3, SubText
<1>6. payload \in Text
  <2> HIDE DEF data, key
  <2>1. mask => Masked(data, key) \in Text
    BY <1>4, <1>5, MaskedType
  <2>2. payload = IF mask THEN Masked(data, key) ELSE data
    BY DEF payload, data, key
  <2> QED BY <1>4, <2>1, <2>2
<1>7. SubSeq(rxbuf, header_size + N + 1, Len(rxbuf)) \in Text
  BY <1>1, <1>2, <1>3, SubText
<1> QED BY <1>6, <1>7

(* A message received is added to those that wait.                           *)
LEMMA ReceiveType ==
  ASSUME IsNodeList(cmdToParse, Message), finished \in Nat, NEW text \in Text, Receive(text)
  PROVE  IsNodeList(cmdToParse', Message)
<1>1. [text |-> text, of |-> Current] \in Message
  BY DEF Message, Current
<1> QED BY <1>1, PushBackValues DEF Receive

(* The strings found in the buffer, and perhaps behind it, are texts.        *)
LEMMA CStringsType ==
  ASSUME NEW b \in [Positions -> Bytes], NEW text \in CStrings(b)
  PROVE  text \in Text
<1> DEFINE ends == {p \in Positions : b[p] = NUL}
           UpTo(length) == [p \in 1..length |-> b[p - 1]]
<1>1. BufferSize \in Nat \ {0} /\ Behind \subseteq Text
  BY SerialAssumption
<1>2. \A length \in 0..BufferSize : UpTo(length) \in Text
  <2> SUFFICES ASSUME NEW length \in 0..BufferSize PROVE UpTo(length) \in Text
    OBVIOUS
  <2>1. \A p \in 1..length : p - 1 \in Positions
    BY <1>1 DEF Positions
  <2>2. UpTo(length) \in [1..length -> Bytes]
    BY <2>1
  <2> HIDE DEF UpTo
  <2>3. length \in Nat
    BY <1>1
  <2> QED BY <2>2, <2>3, IsText
<1>3. CASE ends = {}
  <2>1. PICK behind \in Behind : text = UpTo(BufferSize) \o behind
    BY <1>3 DEF CStrings
  <2>2. BufferSize \in 0..BufferSize
    BY <1>1
  <2> HIDE DEF UpTo
  <2> QED BY <1>1, <1>2, <2>1, <2>2, ConcatText
<1>4. CASE ends # {}
  <2>1. PICK p \in Positions : text = UpTo(p)
    BY <1>4 DEF CStrings
  <2>2. p \in 0..BufferSize
    BY <1>1 DEF Positions
  <2> HIDE DEF UpTo
  <2> QED BY <1>2, <2>1, <2>2
<1> QED BY <1>3, <1>4
-----------------------------------------------------------------------------
(* The serial line.                                                          *)
LEMMA SerialStepType ==
  ASSUME TypeOK, waitSerialCommand
  PROVE  SerialTypeOK' /\ IsNodeList(cmdToParse', Message) /\ finished' \in Nat /\ loopPc' \in Places
<1> USE DEF TypeOK, SerialTypeOK
<1>1. BufferSize \in Nat \ {0} /\ Leftovers \subseteq Bytes
  BY SerialAssumption, TurnAssumption
<1>2. NUL \in Bytes
  BY DEF NUL, Bytes
<1> HIDE DEF Bytes
<1>3. port # <<>> => Head(port) \in Bytes \cup {PAUSE} /\ Tail(port) \in Seq(Bytes \cup {PAUSE})
  BY HeadTailProperties
<1>4. \A byte : EndsLine(byte) \in {0, 1}
  BY DEF EndsLine
<1>5. CASE noFirstByte
  BY <1>5, <1>3 DEF noFirstByte, Places
<1>6. CASE firstByte
  <2>1. Head(port) \in Bytes
    BY <1>6, <1>3 DEF firstByte
  <2>2. 0 \in Positions
    BY <1>1 DEF Positions
  <2> QED BY <1>6, <1>3, <1>4, <2>1, <2>2 DEF firstByte, Places
<1>7. CASE nextByte
  <2> DEFINE byte == IF port = <<>> THEN PAUSE ELSE Head(port)
  <2>1. i + 1 \in Positions /\ 0 \in Positions
    BY <1>7, <1>1 DEF nextByte, Positions
  <2>2. byte \in Bytes \cup {PAUSE} /\ port' \in Seq(Bytes \cup {PAUSE})
    BY <1>7, <1>3 DEF nextByte
  <2>3. finished' \in Nat
    BY <1>7, <1>4 DEF nextByte
  <2>4. \A content \in Holds(byte, i + 1) : content \in [Positions -> Bytes]
    <3>1. buffer[i + 1] \in Bytes
      BY <2>1
    <3> QED BY <1>1, <2>2, <3>1 DEF Holds
  <2>5. PICK content \in Holds(byte, i + 1) :
          IF content[i + 1] = LF
          THEN /\ IF IsMessage(content)
                  THEN \E text \in CStrings(content) : Receive(text)
                  ELSE UNCHANGED cmdToParse
               /\ buffer' = [content EXCEPT ![0] = NUL]
               /\ loopPc' = "command"
          ELSE buffer' = content /\ UNCHANGED <<cmdToParse, loopPc>>
    BY <1>7 DEF nextByte
  <2>6. content \in [Positions -> Bytes]
    BY <2>4
  <2>7. \A text \in CStrings(content) : text \in Text
    BY <2>6, CStringsType
  <2>8. buffer' \in [Positions -> Bytes] /\ loopPc' \in Places
    BY <2>5, <2>6, <1>2 DEF Places
  <2>9. IsNodeList(cmdToParse', Message)
    BY <2>5, <2>7, ReceiveType
  <2> QED BY <1>7, <2>1, <2>2, <2>3, <2>8, <2>9 DEF nextByte
<1>8. CASE overrun
  BY <1>8 DEF overrun, serial, Places
<1> QED BY <1>5, <1>6, <1>7, <1>8 DEF waitSerialCommand
-----------------------------------------------------------------------------
(* The websocket.                                                            *)
LEMMA sendDataType ==
  ASSUME WsTypeOK, NEW frame \in {"command", "pong", "close"}, sendData(frame)
  PROVE  txbuf' \in Seq({"command", "pong", "close"})
<1>1. Append(txbuf, frame) \in Seq({"command", "pong", "close"})
  BY AppendProperties DEF WsTypeOK
<1> QED BY <1>1 DEF sendData, WsTypeOK

LEMMA sendCommandType ==
  ASSUME WsTypeOK, sendCommand
  PROVE  WsTypeOK'
<1>1. txbuf' \in Seq({"command", "pong", "close"})
  BY sendDataType DEF sendCommand
<1>2. sends' \in 0..MaxSends
  BY WsAssumption DEF sendCommand, WsTypeOK
<1> QED BY <1>1, <1>2 DEF sendCommand, WsTypeOK

LEMMA PollType ==
  ASSUME TypeOK, poll
  PROVE  WsTypeOK' /\ UNCHANGED <<mode, cmdToParse, sent, finished>> /\ loopPc' \in Places
<1> USE DEF TypeOK, Places
<1>1. CASE noPoll
  BY <1>1 DEF noPoll, WsTypeOK, ws
<1>2. CASE recvBytes
  <2>1. PICK n \in 1..Len(wire) :
          rxbuf' = rxbuf \o SubSeq(wire, 1, n) /\ wire' = SubSeq(wire, n + 1, Len(wire))
    BY <1>2 DEF recvBytes
  <2>2. wire \in Text /\ rxbuf \in Text /\ Len(wire) \in Nat
    BY DEF WsTypeOK, Text
  <2>3. SubSeq(wire, 1, n) \in Text /\ SubSeq(wire, n + 1, Len(wire)) \in Text
    BY <2>2, SubText
  <2>4. rxbuf' \in Text /\ wire' \in Text
    BY <2>1, <2>2, <2>3, ConcatText
  <2> QED BY <1>2, <2>4 DEF recvBytes, WsTypeOK, turn
<1>3. CASE recvBlocks
  BY <1>3 DEF recvBlocks, WsTypeOK, ws
<1>4. CASE recvFails
  BY <1>4 DEF recvFails, WsTypeOK
<1>5. CASE sendBytes
  <2>1. PICK n \in 1..Len(txbuf) : txbuf' = SubSeq(txbuf, n + 1, Len(txbuf))
    BY <1>5 DEF sendBytes
  <2>2. txbuf' \in Seq({"command", "pong", "close"})
    <3>1. txbuf \in Seq({"command", "pong", "close"}) /\ Len(txbuf) \in Nat
      BY DEF WsTypeOK
    <3>2. \A k \in (n + 1)..Len(txbuf) : txbuf[k] \in {"command", "pong", "close"}
      BY <3>1, ElementOfSeq
    <3> QED BY <2>1, <3>1, <3>2, SubSeqProperties
  <2> QED BY <1>5, <2>2 DEF sendBytes, WsTypeOK, turn
<1>6. CASE sendFails
  BY <1>6 DEF sendFails, WsTypeOK
<1>7. CASE sendReturns
  BY <1>7 DEF sendReturns, WsTypeOK
<1> QED BY <1>1, <1>2, <1>3, <1>4, <1>5, <1>6, <1>7 DEF poll

LEMMA CloseType ==
  ASSUME WsTypeOK, close
  PROVE  /\ readyState' \in {"OPEN", "CLOSING", "CLOSED"}
         /\ txbuf' \in Seq({"command", "pong", "close"})
<1>1. Append(txbuf, "close") \in Seq({"command", "pong", "close"})
  BY AppendProperties DEF WsTypeOK
<1> QED BY <1>1 DEF close, WsTypeOK

LEMMA DispatchType ==
  ASSUME TypeOK, dispatch
  PROVE  /\ WsTypeOK' /\ UNCHANGED <<mode, sent>> /\ IsNodeList(cmdToParse', Message)
         /\ finished' \in Nat /\ loopPc' \in Places
<1> USE DEF TypeOK, Places
<1>1. HasFrame => payload \in Text /\ SubSeq(rxbuf, header_size + N + 1, Len(rxbuf)) \in Text
  BY FrameParts
<1>2. CASE dispatchData
  <2>1. /\ HasFrame /\ eraseFrame
        /\ UNCHANGED <<mode, loopPc, sent, wire, isRxBad, txbuf, readyState, sends>>
        /\ IF fin
           THEN waitWsCommands(Assembled) /\ freeData /\ finished' = finished + 1
           ELSE keepData /\ UNCHANGED <<cmdToParse, finished>>
    BY <1>2 DEF dispatchData
  <2>2. Assembled \in Text
    BY <1>1, <2>1, ConcatText DEF Assembled, WsTypeOK
  <2>3. rxbuf' \in Text
    BY <1>1, <2>1 DEF eraseFrame
  <2>4. receivedData' \in Text
    <3>1. <<>> \in Text
      BY DEF Text
    <3> QED BY <2>1, <2>2, <3>1 DEF freeData, keepData
  <2>5. IsNodeList(cmdToParse', Message)
    BY <2>1, <2>2, ReceiveType DEF waitWsCommands
  <2>6. finished' \in Nat
    BY <2>1
  <2> QED BY <2>1, <2>3, <2>4, <2>5, <2>6 DEF WsTypeOK
<1>3. CASE dispatchPing
  <2>1. txbuf' \in Seq({"command", "pong", "close"})
    BY <1>3, sendDataType DEF dispatchPing
  <2> QED BY <1>3, <1>1, <2>1 DEF dispatchPing, WsTypeOK, turn, eraseFrame
<1>4. CASE dispatchPong
  BY <1>4, <1>1 DEF dispatchPong, WsTypeOK, turn, eraseFrame
<1>5. CASE dispatchClose
  <2>1. readyState' \in {"OPEN", "CLOSING", "CLOSED"} /\ txbuf' \in Seq({"command", "pong", "close"})
    BY <1>5, CloseType DEF dispatchClose
  <2> QED BY <1>5, <1>1, <2>1 DEF dispatchClose, WsTypeOK, turn, eraseFrame
<1>6. CASE dispatchInvalidLength
  <2>1. readyState' \in {"OPEN", "CLOSING", "CLOSED"} /\ txbuf' \in Seq({"command", "pong", "close"})
    BY <1>6, CloseType DEF dispatchInvalidLength
  <2> QED BY <1>6, <2>1 DEF dispatchInvalidLength, WsTypeOK
<1>7. CASE dispatchReturns
  BY <1>7 DEF dispatchReturns, WsTypeOK, ws
<1> QED BY <1>2, <1>3, <1>4, <1>5, <1>6, <1>7 DEF dispatch
-----------------------------------------------------------------------------
(* The handshake: no byte of a line is written outside the line.             *)
LEMMA HandshakeStepType ==
  ASSUME TypeOK, connect \/ connectionLost
  PROVE  HandshakeTypeOK' /\ wire' \in Text
<1> USE DEF TypeOK, HandshakeTypeOK, WsTypeOK
<1>1. LineSize \in Nat \ (0..2) /\ Responses \subseteq Text
  BY HandshakeAssumption
<1>2. 0 \in LinePositions /\ 1 \in LinePositions
  BY <1>1 DEF LinePositions
<1>3. CR \in Bytes /\ LF \in Bytes /\ NUL \in Bytes
  BY DEF CR, LF, NUL, Bytes
<1> HIDE DEF Bytes
<1>4. Reading => lineAt + 1 \in LinePositions
  BY <1>1 DEF Reading, LineGoesOn, LinePositions
<1>5. CASE hostname_connect
  <2>1. line' \in [LinePositions -> Bytes]
    <3> SUFFICES ASSUME sendRequest PROVE line' \in [LinePositions -> Bytes]
      BY <1>5 DEF hostname_connect
    <3>1. PICK rest \in Leftovers :
            line' = [p \in LinePositions |-> CASE p = 0 -> CR [] p = 1 -> LF [] p = 2 -> NUL
                                               [] p > 2 -> rest]
      BY DEF sendRequest
    <3>2. rest \in Bytes
      BY TurnAssumption
    <3>3. \A p \in LinePositions : p = 0 \/ p = 1 \/ p = 2 \/ p > 2
      BY <1>1 DEF LinePositions
    <3>4. \A p \in LinePositions : (CASE p = 0 -> CR [] p = 1 -> LF [] p = 2 -> NUL
                                               [] p > 2 -> rest) \in Bytes
      BY <1>3, <3>2, <3>3
    <3> QED BY <3>1, <3>4
  <2>2. wire' \in Text /\ unread' \in Int
    <3>1. \A response \in Responses : response \in Text /\ Len(response) \in Nat
      BY <1>1 DEF Text
    <3> QED BY <1>5, <3>1 DEF hostname_connect
  <2> QED BY <1>5, <2>1, <2>2 DEF hostname_connect
<1>6. CASE recvOne
  <2>1. Head(wire) \in Bytes /\ Tail(wire) \in Text
    BY <1>6, HeadTailProperties DEF recvOne, Text
  <2> QED BY <1>6, <1>4, <2>1 DEF recvOne
<1>7. CASE recvFailsUnseen
  BY <1>7, <1>4 DEF recvFailsUnseen
<1>8. CASE statusLine
  BY <1>8, <1>2, <1>3 DEF statusLine
<1>9. CASE headerLine
  BY <1>9, <1>2, <1>3 DEF headerLine, NoLine
<1>10. CASE lost
  <2>1. <<>> \in Text
    BY DEF Text
  <2> QED BY <1>10, <2>1 DEF lost, recvEnds, connectionBreaks, stationFallsSilent
<1> QED BY <1>5, <1>6, <1>7, <1>8, <1>9, <1>10 DEF connect, from_url, connectionLost
-----------------------------------------------------------------------------
(* The station.                                                              *)
LEMMA SaidType ==
  ASSUME TypeOK, Len(sent) < MaxSent, NEW text \in Text, NEW safe \in BOOLEAN, NEW paused \in BOOLEAN,
         sent' = Append(sent, [text |-> text, safe |-> safe, paused |-> paused])
  PROVE  sent' \in Seq(SentMessage) /\ Len(sent') <= MaxSent
<1>1. [text |-> text, safe |-> safe, paused |-> paused] \in SentMessage
  BY DEF SentMessage
<1>2. sent \in Seq(SentMessage) /\ Len(sent) \in Nat /\ MaxSent \in Nat
  BY InboundAssumption DEF TypeOK
<1> QED BY <1>1, <1>2, AppendProperties

LEMMA StationPrintsType ==
  ASSUME TypeOK, stationPrints
  PROVE  port' \in Seq(Bytes \cup {PAUSE}) /\ sent' \in Seq(SentMessage) /\ Len(sent') <= MaxSent
<1>1. PICK format \in Formats, number \in Contents, at \in Pauses :
        LET printed == Append(TextOf(format, number), LF)
        IN  /\ mode = "usb" /\ Len(sent) < MaxSent /\ at <= Len(printed)
            /\ print(printed, at)
            /\ sent' = Append(sent, [text |-> printed, safe |-> SafeLine(format, at), paused |-> at > 1])
  BY DEF stationPrints
<1> DEFINE printed == Append(TextOf(format, number), LF)
<1>2. at \in Nat /\ MaxSent \in Nat /\ Len(sent) \in Nat
  BY InboundAssumption DEF TypeOK
<1>3. TextOf(format, number) \in Text /\ LF \in Bytes
  BY <1>1, <1>2, TextOfType DEF LF, Bytes
<1>4. printed \in Text /\ Len(printed) \in Nat
  BY <1>3, AppendProperties, LenProperties DEF Text
<1> HIDE DEF printed
<1>5. Paused(printed, at) \in Seq(Bytes \cup {PAUSE})
  <2>1. CASE at = 0
    BY <2>1, <1>4, SeqMonotonic DEF Paused, Text
  <2>2. CASE at # 0
    <3>1. SubSeq(printed, 1, at - 1) \in Text /\ SubSeq(printed, at, Len(printed)) \in Text
      <4>1. at \in 1..Len(printed)
        BY <2>2, <1>1, <1>2, <1>4 DEF printed
      <4> QED BY <4>1, <1>4, SubText
    <3>2. /\ SubSeq(printed, 1, at - 1) \in Seq(Bytes \cup {PAUSE})
          /\ SubSeq(printed, at, Len(printed)) \in Seq(Bytes \cup {PAUSE})
      BY <3>1, SeqMonotonic DEF Text
    <3>3. <<PAUSE>> \in Seq(Bytes \cup {PAUSE})
      OBVIOUS
    <3> HIDE DEF Bytes, PAUSE
    <3>4. SubSeq(printed, 1, at - 1) \o <<PAUSE>> \in Seq(Bytes \cup {PAUSE})
      BY <3>2, <3>3, ConcatProperties
    <3> QED BY <2>2, <3>2, <3>4, ConcatProperties DEF Paused
  <2> QED BY <2>1, <2>2
<1>6. port' \in Seq(Bytes \cup {PAUSE})
  BY <1>1, <1>5, ConcatProperties DEF print, printed, TypeOK, SerialTypeOK
<1>7. SafeLine(format, at) \in BOOLEAN /\ (at > 1) \in BOOLEAN
  BY DEF SafeLine
<1>8. sent' = Append(sent, [text |-> printed, safe |-> SafeLine(format, at), paused |-> at > 1])
  BY <1>1 DEF printed
<1>9. sent' \in Seq(SentMessage) /\ Len(sent') <= MaxSent
  BY <1>1, <1>4, <1>7, <1>8, SaidType
<1> QED BY <1>6, <1>9

LEMMA StationSendsType ==
  ASSUME TypeOK, stationSends
  PROVE  WsTypeOK' /\ sent' \in Seq(SentMessage) /\ Len(sent') <= MaxSent /\ extras' \in 0..MaxSent
<1>1. PICK framing \in Framings, format \in Formats, number \in Contents :
        LET text == TextOf(format, number)
        IN  /\ Len(sent) + extras < MaxSent
            /\ transmit(framing, text)
            /\ IF HasMessage(framing)
               THEN /\ UNCHANGED extras
                    /\ sent' = Append(sent, [text |-> text, safe |-> Accepts(text), paused |-> FALSE])
               ELSE extras' = extras + 1 /\ UNCHANGED sent
  BY DEF stationSends
<1> DEFINE text == TextOf(format, number)
<1>2. MaxSent \in Nat /\ Len(sent) \in Nat /\ extras \in 0..MaxSent
  BY InboundAssumption DEF TypeOK
<1>3. text \in Text /\ Len(text) \in 1..4
  BY <1>1, <1>2, TextOfType
<1> HIDE DEF text
<1>4. Sent(framing, text) \in Text
  BY <1>3, SentType
<1>5. WsTypeOK'
  BY <1>1, <1>4, ConcatText DEF transmit, text, WsTypeOK, TypeOK
<1>6. Accepts(text) \in BOOLEAN /\ Len(sent) < MaxSent
  BY <1>1, <1>2 DEF Accepts
<1>7. CASE HasMessage(framing)
  <2>1. extras' = extras /\ sent' = Append(sent, [text |-> text, safe |-> Accepts(text), paused |-> FALSE])
    BY <1>1, <1>7 DEF text
  <2> QED BY <1>2, <1>3, <1>5, <1>6, <2>1, SaidType
<1>8. CASE ~HasMessage(framing)
  BY <1>1, <1>2, <1>5, <1>8 DEF TypeOK
<1> QED BY <1>7, <1>8
-----------------------------------------------------------------------------
(* The events.  The event the host thread has copied is still in the list,   *)
(* so the one it erases is that one.                                         *)
CopiedWaits == hostPc = "copied" => listOfUnexpectedFbMsg # <<>>
IInv == TypeOK /\ CopiedWaits

(* What a step of either thread does to the events, all but their fields: it *)
(* adds one at the end, hands the first over, forgets the one handed over,   *)
(* or leaves them alone.                                                     *)
Added(of) ==
  /\ listOfUnexpectedFbMsg' = Append(listOfUnexpectedFbMsg, [of |-> of, filled |-> {}])
  /\ taken' = taken /\ hostPc' = hostPc
SameEvents ==
  /\ Len(listOfUnexpectedFbMsg') = Len(listOfUnexpectedFbMsg)
  /\ \A k \in 1..Len(listOfUnexpectedFbMsg) :
       listOfUnexpectedFbMsg'[k].of = listOfUnexpectedFbMsg[k].of
  /\ taken' = taken /\ (hostPc' = "copied" <=> hostPc = "copied")
EventsStep ==
  \/ \E of \in Nat : Added(of)
  \/ copyFbMsgToGenericData \/ removeFeedbackMsg
  \/ SameEvents

LEMMA WriteType ==
  ASSUME FeedbackTypeOK, NEW field \in Fields, Write(field)
  PROVE  FeedbackTypeOK' /\ SameEvents
<1> DEFINE list == listOfUnexpectedFbMsg
<1>1. list \in Seq(Event) /\ Len(list) \in Nat /\ DOMAIN list = 1..Len(list) /\ FbIndex \in Nat
  BY DEF FeedbackTypeOK
<1>2. \A k \in 1..Len(list) : list[k] \in Event
  BY <1>1, ElementOfSeq
<1>3. CASE FbIndex \in 1..Len(list)
  <2> DEFINE event == [list[FbIndex] EXCEPT !.filled = @ \cup {field}]
  <2>1. event \in Event /\ event.of = list[FbIndex].of
    BY <1>2, <1>3 DEF Event
  <2>2. list' = [list EXCEPT ![FbIndex] = event]
    BY <1>3 DEF Write
  <2> HIDE DEF event
  <2>3. /\ list' \in Seq(Event) /\ Len(list') = Len(list)
        /\ \A k \in 1..Len(list) : list'[k] = IF k = FbIndex THEN event ELSE list[k]
    BY <1>1, <1>3, <2>1, <2>2, ExceptSeq
  <2> QED BY <2>1, <2>3 DEF Write, FeedbackTypeOK, SameEvents
<1>4. CASE FbIndex \notin 1..Len(list)
  <2>1. list' = list
    <3>1. CASE FbIndex > Len(list)
      BY <3>1, <1>1 DEF Write
    <3>2. CASE ~(FbIndex > Len(list))
      <4>1. FbIndex <= Len(list) /\ FbIndex \notin DOMAIN list
        BY <3>2, <1>1, <1>4
      <4>2. list' = [list EXCEPT ![FbIndex].filled = @ \cup {field}]
        BY <4>1 DEF Write
      <4>3. list = [k \in DOMAIN list |-> list[k]]
        BY <1>1
      <4> QED BY <4>1, <4>2, <4>3
    <3> QED BY <3>1, <3>2
  <2> QED BY <1>1, <2>1 DEF Write, FeedbackTypeOK, SameEvents
<1> QED BY <1>3, <1>4
LEMMA FeedbackStepType ==
  ASSUME FeedbackTypeOK, CopiedWaits, fill \/ GetNextUnExpectedMessage \/ \E of \in Nat : saveFeedbackMsg(of)
  PROVE  FeedbackTypeOK' /\ CopiedWaits' /\ EventsStep
<1> USE DEF FeedbackTypeOK
<1>1. CASE fill
  <2>1. PICK field \in Fields : Write(field)
    BY <1>1 DEF fill, handleCommandStationFb, fillItems, setNbDataItems, Fields
  <2>2. FeedbackTypeOK' /\ SameEvents
    BY <2>1, WriteType
  <2>3. listOfUnexpectedFbMsg # <<>> => listOfUnexpectedFbMsg' # <<>>
    BY <2>2, EmptySeq DEF SameEvents
  <2> QED BY <2>2, <2>3 DEF SameEvents, CopiedWaits, EventsStep
<1>2. CASE copyFbMsgToGenericData
  <2>1. taken' \in Seq(Event)
    BY <1>2, HeadTailProperties, AppendProperties DEF copyFbMsgToGenericData
  <2> QED BY <1>2, <2>1 DEF copyFbMsgToGenericData, CopiedWaits, EventsStep
<1>3. CASE removeFeedbackMsg
  <2>1. listOfUnexpectedFbMsg' \in Seq(Event)
    BY <1>3, HeadTailProperties DEF removeFeedbackMsg, CopiedWaits, EraseFirst
  <2> QED BY <1>3, <2>1 DEF removeFeedbackMsg, CopiedWaits, EventsStep
<1>4. ASSUME NEW of \in Nat, saveFeedbackMsg(of) PROVE FeedbackTypeOK' /\ CopiedWaits' /\ EventsStep
  <2>1. [of |-> of, filled |-> {}] \in Event
    BY DEF Event
  <2>2. listOfUnexpectedFbMsg' \in Seq(Event) /\ listOfUnexpectedFbMsg' # <<>>
    BY <1>4, <2>1, AppendProperties DEF saveFeedbackMsg
  <2>3. FbIndex' \in Nat
    BY <1>4 DEF saveFeedbackMsg
  <2> QED BY <1>4, <2>2, <2>3 DEF saveFeedbackMsg, CopiedWaits, EventsStep, Added
<1> QED BY <1>1, <1>2, <1>3, <1>4 DEF GetNextUnExpectedMessage

LEMMA ParseMessageType ==
  ASSUME IInv, parseMessage
  PROVE  /\ IsNodeList(cmdToParse', Message) /\ loopPc' \in Places
         /\ FeedbackTypeOK' /\ CopiedWaits' /\ (EventsStep \/ UNCHANGED events)
<1> DEFINE command == Front(cmdToParse)
           others == {k \in DOMAIN cmdToParse : cmdToParse[k].text # command.text}
<1>1. IsNodeList(cmdToParse, Message) /\ FeedbackTypeOK /\ CopiedWaits
  BY DEF IInv, TypeOK
<1>2. command.of \in Nat
  <2>1. command \in Message
    BY <1>1, FrontIsValue DEF parseMessage
  <2> QED BY <2>1 DEF Message
<1>3. IsNodeList(cmdToParse', Message)
  <2>1. cmdToParse' = [k \in others |-> cmdToParse[k]]
    BY DEF parseMessage
  <2>2. IsFiniteSet(others)
    BY <1>1, FS_Subset DEF IsNodeList
  <2> QED BY <1>1, <2>1, <2>2 DEF IsNodeList
<1>4. CASE Recognised(command.text)
  <2>1. saveFeedbackMsg(command.of) /\ loopPc' \in Places
    BY <1>4 DEF parseMessage, Places
  <2> QED BY <1>1, <1>2, <1>3, <2>1, FeedbackStepType
<1>5. CASE ~Recognised(command.text)
  <2>1. UNCHANGED events /\ loopPc' \in Places
    BY <1>5 DEF parseMessage, Places
  <2> QED BY <1>1, <1>3, <2>1 DEF events, FeedbackTypeOK, CopiedWaits
<1> QED BY <1>4, <1>5

(* Every step keeps the invariant, and does one of those things to the       *)
(* events.                                                                   *)
LEMMA StepType ==
  ASSUME IInv, [Next]_vars
  PROVE  IInv' /\ (EventsStep \/ UNCHANGED events)
<1>0. TypeOK /\ CopiedWaits /\ FeedbackTypeOK
  BY DEF IInv, TypeOK
<1> DEFINE Goal == IInv' /\ (EventsStep \/ UNCHANGED events)
<1>1. ASSUME UNCHANGED events PROVE CopiedWaits' /\ FeedbackTypeOK'
  BY <1>0, <1>1 DEF events, CopiedWaits, FeedbackTypeOK
<1>2. CASE UNCHANGED vars
  <2>1. TypeOK'
    BY <1>0, <1>2 DEF vars, turn, serial, ws, handshakeVars, events, TypeOK, SerialTypeOK,
                      WsTypeOK, HandshakeTypeOK, FeedbackTypeOK
  <2> QED BY <1>1, <1>2, <2>1 DEF IInv, vars
<1>3. CASE stationPrints
  <2>1. /\ UNCHANGED <<mode, loopPc, cmdToParse, finished, ws, handshakeVars, events, extras, buffer, i>>
        /\ port' \in Seq(Bytes \cup {PAUSE}) /\ sent' \in Seq(SentMessage) /\ Len(sent') <= MaxSent
    BY <1>0, <1>3, StationPrintsType DEF stationPrints, print
  <2>2. TypeOK'
    BY <1>0, <2>1, <1>1 DEF TypeOK, SerialTypeOK, ws, WsTypeOK, handshakeVars, HandshakeTypeOK
  <2> QED BY <1>1, <2>1, <2>2 DEF IInv
<1>4. CASE stationSends
  <2>1. /\ UNCHANGED <<mode, loopPc, cmdToParse, finished, serial, handshakeVars, events>>
        /\ WsTypeOK' /\ sent' \in Seq(SentMessage) /\ Len(sent') <= MaxSent /\ extras' \in 0..MaxSent
    BY <1>0, <1>4, StationSendsType DEF stationSends
  <2>2. TypeOK'
    BY <1>0, <2>1, <1>1 DEF TypeOK, serial, SerialTypeOK, handshakeVars, HandshakeTypeOK
  <2> QED BY <1>1, <2>1, <2>2 DEF IInv
<1>5. CASE connect \/ connectionLost
  <2>1. /\ UNCHANGED <<turn, serial, events, extras, rxbuf, receivedData, isRxBad, txbuf, readyState, sends>>
        /\ HandshakeTypeOK' /\ wire' \in Text
    BY <1>0, <1>5, HandshakeStepType DEF connect, from_url, connectionLost, lost
  <2>2. TypeOK'
    BY <1>0, <2>1, <1>1 DEF TypeOK, turn, serial, SerialTypeOK, WsTypeOK
  <2> QED BY <1>1, <2>1, <2>2 DEF IInv
<1>6. CASE receive
  <2>1. /\ UNCHANGED <<mode, sent, ws, handshakeVars, events, extras>> /\ SerialTypeOK'
        /\ IsNodeList(cmdToParse', Message) /\ finished' \in Nat /\ loopPc' \in Places
    BY <1>0, <1>6, SerialStepType DEF receive, waitSerialCommand, noFirstByte, firstByte, nextByte, overrun
  <2>2. TypeOK'
    BY <1>0, <2>1, <1>1 DEF TypeOK, ws, WsTypeOK, handshakeVars, HandshakeTypeOK
  <2> QED BY <1>1, <2>1, <2>2 DEF IInv
<1>7. CASE pollAndDispatch
  <2>1. /\ UNCHANGED <<mode, sent, serial, handshakeVars, events, extras>> /\ WsTypeOK'
        /\ IsNodeList(cmdToParse', Message) /\ finished' \in Nat /\ loopPc' \in Places
    BY <1>0, <1>7, PollType, DispatchType DEF pollAndDispatch, TypeOK
  <2>2. TypeOK'
    BY <1>0, <2>1, <1>1 DEF TypeOK, serial, SerialTypeOK, handshakeVars, HandshakeTypeOK
  <2> QED BY <1>1, <2>1, <2>2 DEF IInv
<1>8. CASE loopSends \/ hostSends
  <2>1. UNCHANGED <<turn, serial, handshakeVars, events, extras>> /\ WsTypeOK'
    BY <1>0, <1>8, sendCommandType DEF loopSends, hostSends, TypeOK
  <2>2. TypeOK'
    BY <1>0, <2>1, <1>1 DEF TypeOK, turn, serial, SerialTypeOK, handshakeVars, HandshakeTypeOK
  <2> QED BY <1>1, <2>1, <2>2 DEF IInv
<1>9. CASE checkCmdToSend \/ parseNothing
  <2>1. /\ UNCHANGED <<mode, cmdToParse, sent, finished, serial, ws, handshakeVars, events, extras>>
        /\ loopPc' \in Places
    BY <1>9 DEF checkCmdToSend, parseNothing, Places
  <2>2. TypeOK'
    BY <1>0, <2>1, <1>1 DEF TypeOK, serial, SerialTypeOK, ws, WsTypeOK, handshakeVars, HandshakeTypeOK
  <2> QED BY <1>1, <2>1, <2>2 DEF IInv
<1>10. CASE parseMessage
  <2>1. UNCHANGED <<mode, sent, finished, serial, ws, handshakeVars, extras>>
    BY <1>10 DEF parseMessage
  <2>2. TypeOK'
    BY <1>0, <1>10, <2>1, ParseMessageType DEF TypeOK, serial, SerialTypeOK, ws, WsTypeOK,
                                                handshakeVars, HandshakeTypeOK
  <2> QED BY <1>10, <2>2, ParseMessageType DEF IInv
<1>11. CASE report \/ hostTakes
  <2>1. UNCHANGED <<mode, cmdToParse, sent, finished, serial, ws, handshakeVars, extras>> /\ loopPc' \in Places
    BY <1>0, <1>11 DEF report, hostTakes, fill, handleCommandStationFb, fillItems, setNbDataItems,
                       GetNextUnExpectedMessage, copyFbMsgToGenericData, removeFeedbackMsg, turn,
                       Places, TypeOK
  <2>2. FeedbackTypeOK' /\ CopiedWaits' /\ EventsStep
    BY <1>0, <1>11, FeedbackStepType DEF report, hostTakes
  <2>3. TypeOK'
    BY <1>0, <2>1, <2>2 DEF TypeOK, serial, SerialTypeOK, ws, WsTypeOK, handshakeVars, HandshakeTypeOK
  <2> QED BY <2>2, <2>3 DEF IInv
<1>12. CASE stop \/ disconnect \/ closeAnyConnection
  <2>1. /\ UNCHANGED <<turn, serial, handshakeVars, listOfUnexpectedFbMsg, FbIndex, taken, extras>>
        /\ hostPc # "copied" /\ hostPc' \in Stopping
    BY <1>12 DEF stop, disconnect, closeAnyConnection, Idle, HostStep, Stopping
  <2>2. WsTypeOK'
    <3>1. CASE stop
      BY <1>0, <3>1 DEF stop, ws, WsTypeOK, TypeOK
    <3>2. CASE disconnect
      BY <1>0, <3>2, sendDataType DEF disconnect, WsTypeOK, TypeOK
    <3>3. CASE closeAnyConnection
      BY <1>0, <3>3, CloseType DEF closeAnyConnection, WsTypeOK, TypeOK
    <3> QED BY <1>12, <3>1, <3>2, <3>3
  <2>3. FeedbackTypeOK' /\ CopiedWaits' /\ EventsStep
    <3>1. hostPc' # "copied"
      BY <2>1 DEF Stopping
    <3>2. SameEvents
      BY <2>1, <3>1 DEF SameEvents
    <3> QED BY <1>0, <2>1, <3>1, <3>2 DEF FeedbackTypeOK, CopiedWaits, EventsStep
  <2>4. TypeOK'
    BY <1>0, <2>1, <2>2, <2>3 DEF TypeOK, turn, serial, SerialTypeOK, handshakeVars, HandshakeTypeOK
  <2> QED BY <2>3, <2>4 DEF IInv
<1> QED BY <1>2, <1>3, <1>4, <1>5, <1>6, <1>7, <1>8, <1>9, <1>10, <1>11, <1>12 DEF Next, Loop, Host

LEMMA InitIInv == Init => IInv
<1> SUFFICES ASSUME Init PROVE IInv
  OBVIOUS
<1>1. SerialTypeOK
  <2>1. NUL \in Bytes /\ 0 \in Positions /\ Leftovers \subseteq Bytes
    BY SerialAssumption, TurnAssumption DEF NUL, Bytes, Positions
  <2>2. PICK rest \in Bytes : buffer = [p \in Positions |-> rest]
    BY <2>1 DEF Init, SerialInit
  <2> QED BY <2>1, <2>2 DEF Init, SerialInit, SerialTypeOK
<1>2. WsTypeOK
  <2>1. <<>> \in Text /\ <<>> \in Seq({"command", "pong", "close"}) /\ 0 \in 0..MaxSends
    BY WsAssumption, EmptySeq DEF Text
  <2> QED BY <2>1 DEF Init, WsInit, WsTypeOK
<1>3. HandshakeTypeOK
  <2>1. NUL \in Bytes /\ 0 \in LinePositions
    BY HandshakeAssumption DEF NUL, Bytes, LinePositions
  <2> QED BY <2>1 DEF Init, HandshakeInit, NoLine, HandshakeTypeOK
<1>4. FeedbackTypeOK /\ CopiedWaits
  BY DEF Init, FeedbackInit, FeedbackTypeOK, CopiedWaits
<1>5. IsNodeList(cmdToParse, Message)
  BY EmptyIsNodeList DEF Init
<1>6. sent \in Seq(SentMessage) /\ Len(sent) <= MaxSent /\ extras \in 0..MaxSent
  BY InboundAssumption DEF Init
<1> QED BY <1>1, <1>2, <1>3, <1>4, <1>5, <1>6 DEF IInv, TypeOK, Init, Places

(* What Inbound keeps has its type.  In particular the index into the serial *)
(* buffer and that into the line of the handshake stay inside them, however  *)
(* long the lines of the station are: no byte is written outside either, and *)
(* the loop of waitSerialCommand looks at none (up to its overrun; from_url).*)
(* The functions that take the buffer for a C string, strstr and             *)
(* std::string, may read behind it: the model follows them there (CStrings). *)
(* And every event the host thread erases is there.                          *)
THEOREM TypeCorrect == Spec => []TypeOK
<1>1. IInv /\ [Next]_vars => IInv'
  BY StepType
<1>2. IInv => TypeOK
  BY DEF IInv
<1> QED BY InitIInv, <1>1, <1>2, PTL DEF Spec
-----------------------------------------------------------------------------
(* The events told only grow at the end.                                     *)
LEMMA PrefixByElement ==
  ASSUME NEW S, NEW s \in Seq(S), NEW t \in Seq(S), Len(s) <= Len(t),
         \A k \in 1..Len(s) : s[k] = t[k]
  PROVE  Seqs!IsPrefix(s, t)
<1>1. Len(s) \in Nat /\ Len(t) \in Nat /\ 1 \in Int
  OBVIOUS
<1>2. \A k \in 1..Len(s) : s[k] \in S /\ t[k] \in S
  BY <1>1, ElementOfSeq
<1> DEFINE a == SubSeq(s, 1, Len(s))
           b == SubSeq(t, 1, Len(s))
<1>3. /\ a \in Seq(S) /\ Len(a) = Len(s)
      /\ \A k \in 1..Len(s) : a[k] = s[k]
  BY <1>1, <1>2, SubSeqProperties
<1>4. /\ b \in Seq(S) /\ Len(b) = Len(s)
      /\ \A k \in 1..Len(s) : b[k] = t[k]
  BY <1>1, <1>2, SubSeqProperties
<1> HIDE DEF a, b
<1>5. a = b
  BY <1>3, <1>4, SeqEqual
<1> QED BY <1>5 DEF a, b, Seqs!IsPrefix

(* The events handed over, then those that wait, each by its message.        *)
ToldOf(handed, waiting) == [k \in 1..(Len(handed) + Len(waiting)) |-> (handed \o waiting)[k].of]

LEMMA ToldOfIs ==
  ASSUME NEW handed \in Seq(Event), NEW waiting \in Seq(Event)
  PROVE  /\ ToldOf(handed, waiting) \in Seq(Nat)
         /\ Len(ToldOf(handed, waiting)) = Len(handed) + Len(waiting)
         /\ \A k \in 1..(Len(handed) + Len(waiting)) :
              ToldOf(handed, waiting)[k] = IF k <= Len(handed) THEN handed[k].of
                                           ELSE waiting[k - Len(handed)].of
<1> DEFINE all == handed \o waiting
           n == Len(handed) + Len(waiting)
<1>1. /\ all \in Seq(Event) /\ Len(all) = n
      /\ \A k \in 1..n : all[k] = IF k <= Len(handed) THEN handed[k] ELSE waiting[k - Len(handed)]
  BY ConcatProperties
<1>2. ToldOf(handed, waiting) = [k \in 1..n |-> all[k].of]
  BY DEF ToldOf
<1>3. n \in Nat
  OBVIOUS
<1> HIDE DEF all, n
<1>4. \A k \in 1..n : all[k].of \in Nat
  <2>1. \A k \in 1..n : all[k] \in Event
    BY <1>1, ElementOfSeq
  <2> QED BY <2>1 DEF Event
<1>5. ToldOf(handed, waiting) \in [1..n -> Nat] /\ \A k \in 1..n : ToldOf(handed, waiting)[k] = all[k].of
  BY <1>2, <1>4
<1>6. ToldOf(handed, waiting) \in Seq(Nat) /\ Len(ToldOf(handed, waiting)) = n
  BY <1>3, <1>5
<1> QED BY <1>1, <1>5, <1>6 DEF n

(* More events wait, or the same ones with other fields.                     *)
LEMMA MoreWait ==
  ASSUME NEW handed \in Seq(Event), NEW w1 \in Seq(Event), NEW w2 \in Seq(Event),
         Len(w1) <= Len(w2), \A k \in 1..Len(w1) : w2[k].of = w1[k].of
  PROVE  Seqs!IsPrefix(ToldOf(handed, w1), ToldOf(handed, w2))
<1> DEFINE s == ToldOf(handed, w1)
           t == ToldOf(handed, w2)
<1>1. Len(handed) \in Nat /\ Len(w1) \in Nat /\ Len(w2) \in Nat
  OBVIOUS
<1>2. /\ s \in Seq(Nat) /\ Len(s) = Len(handed) + Len(w1)
      /\ \A k \in 1..(Len(handed) + Len(w1)) :
           s[k] = IF k <= Len(handed) THEN handed[k].of ELSE w1[k - Len(handed)].of
  BY ToldOfIs
<1>3. /\ t \in Seq(Nat) /\ Len(t) = Len(handed) + Len(w2)
      /\ \A k \in 1..(Len(handed) + Len(w2)) :
           t[k] = IF k <= Len(handed) THEN handed[k].of ELSE w2[k - Len(handed)].of
  BY ToldOfIs
<1> HIDE DEF s, t
<1>4. ASSUME NEW k \in 1..Len(s) PROVE s[k] = t[k]
  <2>1. k \in 1..(Len(handed) + Len(w1)) /\ k \in 1..(Len(handed) + Len(w2))
    BY <1>1, <1>2
  <2>2. CASE k <= Len(handed)
    <3>1. s[k] = handed[k].of
      BY <1>2, <2>1, <2>2
    <3>2. t[k] = handed[k].of
      BY <1>3, <2>1, <2>2
    <3> QED BY <3>1, <3>2
  <2>3. CASE k > Len(handed)
    <3>1. k - Len(handed) \in 1..Len(w1) /\ ~(k <= Len(handed))
      BY <1>1, <2>1, <2>3
    <3>2. s[k] = w1[k - Len(handed)].of
      BY <1>2, <2>1, <3>1
    <3>3. t[k] = w2[k - Len(handed)].of
      BY <1>3, <2>1, <3>1
    <3> QED BY <3>1, <3>2, <3>3
  <2> QED BY <1>1, <2>1, <2>2, <2>3
<1>5. Len(s) <= Len(t)
  BY <1>1, <1>2, <1>3
<1>6. Seqs!IsPrefix(s, t)
  BY <1>2, <1>3, <1>4, <1>5, PrefixByElement
<1> QED BY <1>6 DEF s, t

(* The first that waits is handed over.                                      *)
LEMMA FirstHandedOver ==
  ASSUME NEW handed \in Seq(Event), NEW waiting \in Seq(Event), waiting # <<>>
  PROVE  Seqs!IsPrefix(ToldOf(handed, waiting), ToldOf(Append(handed, Head(waiting)), Tail(waiting)))
<1> DEFINE first == Head(waiting)
           rest == Tail(waiting)
           more == Append(handed, first)
           s == ToldOf(handed, waiting)
           t == ToldOf(more, rest)
<1>1. Len(handed) \in Nat /\ Len(waiting) \in Nat \ {0}
  BY EmptySeq
<1>2. /\ first \in Event /\ first = waiting[1] /\ rest \in Seq(Event) /\ Len(rest) = Len(waiting) - 1
      /\ \A k \in 1..Len(rest) : rest[k] = waiting[k + 1]
  BY HeadTailProperties
<1> HIDE DEF first, rest
<1>3. /\ more \in Seq(Event) /\ Len(more) = Len(handed) + 1
      /\ \A k \in 1..Len(handed) : more[k] = handed[k]
      /\ more[Len(handed) + 1] = first
  BY <1>2, AppendProperties
<1>4. /\ s \in Seq(Nat) /\ Len(s) = Len(handed) + Len(waiting)
      /\ \A k \in 1..(Len(handed) + Len(waiting)) :
           s[k] = IF k <= Len(handed) THEN handed[k].of ELSE waiting[k - Len(handed)].of
  BY ToldOfIs
<1> HIDE DEF more
<1>5. /\ t \in Seq(Nat) /\ Len(t) = Len(more) + Len(rest)
      /\ \A k \in 1..(Len(more) + Len(rest)) :
           t[k] = IF k <= Len(more) THEN more[k].of ELSE rest[k - Len(more)].of
  BY <1>2, <1>3, ToldOfIs
<1> HIDE DEF s, t
<1>6. Len(s) = Len(t)
  BY <1>1, <1>2, <1>3, <1>4, <1>5
<1>7. ASSUME NEW k \in 1..Len(s) PROVE s[k] = t[k]
  <2>0. k \in 1..(Len(handed) + Len(waiting)) /\ k \in 1..(Len(more) + Len(rest))
    BY <1>4, <1>5, <1>6
  <2>1. CASE k <= Len(handed)
    <3>1. s[k] = handed[k].of
      BY <2>0, <2>1, <1>4
    <3>2. k \in 1..Len(handed) /\ k <= Len(more)
      BY <2>0, <2>1, <1>1, <1>3
    <3>3. t[k] = more[k].of
      BY <2>0, <3>2, <1>5
    <3> QED BY <3>1, <3>2, <3>3, <1>3
  <2>2. CASE k = Len(handed) + 1
    <3>1. s[k] = waiting[1].of
      BY <2>0, <2>2, <1>1, <1>4
    <3>2. t[k] = first.of
      BY <2>0, <2>2, <1>1, <1>3, <1>5
    <3> QED BY <3>1, <3>2, <1>2
  <2>3. CASE k > Len(handed) + 1
    <3>1. k - Len(more) \in 1..Len(rest) /\ k - Len(more) + 1 = k - Len(handed)
      BY <2>0, <2>3, <1>1, <1>2, <1>3
    <3>2. rest[k - Len(more)] = waiting[k - Len(handed)]
      BY <3>1, <1>2
    <3>3. ~(k <= Len(handed)) /\ ~(k <= Len(more))
      BY <2>0, <2>3, <1>1, <1>3
    <3>4. s[k] = waiting[k - Len(handed)].of
      BY <2>0, <3>3, <1>4
    <3>5. t[k] = rest[k - Len(more)].of
      BY <2>0, <3>3, <1>5
    <3> QED BY <3>2, <3>4, <3>5
  <2> QED BY <2>0, <2>1, <2>2, <2>3, <1>1
<1>8. Seqs!IsPrefix(s, t)
  <2>1. s \in Seq(Nat) /\ t \in Seq(Nat) /\ Len(s) <= Len(t)
    BY <1>4, <1>5, <1>6
  <2> QED BY <2>1, <1>7, PrefixByElement
<1> QED BY <1>8 DEF s, t, more, first, rest

LEMMA ToldGrows ==
  ASSUME FeedbackTypeOK, CopiedWaits, FeedbackTypeOK', CopiedWaits', EventsStep
  PROVE  Seqs!IsPrefix(Told, Told')
<1> DEFINE list == listOfUnexpectedFbMsg
           w1 == IF hostPc = "copied" THEN Tail(list) ELSE list
           w2 == IF hostPc' = "copied" THEN Tail(list') ELSE list'
<1>1. Told = ToldOf(taken, w1) /\ Told' = ToldOf(taken', w2)
  BY DEF Told, Waiting, ToldOf
<1>2. /\ taken \in Seq(Event) /\ taken' \in Seq(Event) /\ list \in Seq(Event) /\ list' \in Seq(Event)
      /\ w1 \in Seq(Event) /\ w2 \in Seq(Event) /\ Len(list) \in Nat
  BY HeadTailProperties DEF FeedbackTypeOK, CopiedWaits
<1>3. /\ hostPc = "copied" => /\ list # <<>> /\ Len(w1) = Len(list) - 1
                              /\ \A k \in 1..Len(w1) : w1[k] = list[k + 1]
      /\ hostPc # "copied" => w1 = list
  BY <1>2, HeadTailProperties DEF CopiedWaits
<1>4. /\ hostPc' = "copied" => /\ list' # <<>> /\ Len(w2) = Len(list') - 1
                               /\ \A k \in 1..Len(w2) : w2[k] = list'[k + 1]
      /\ hostPc' # "copied" => w2 = list'
  BY <1>2, HeadTailProperties DEF CopiedWaits
<1>5. CASE \E of \in Nat : Added(of)
  <2>1. PICK of \in Nat : Added(of)
    BY <1>5
  <2>2. [of |-> of, filled |-> {}] \in Event
    BY DEF Event
  <2>3. /\ Len(list') = Len(list) + 1 /\ \A k \in 1..Len(list) : list'[k] = list[k]
        /\ taken' = taken /\ hostPc' = hostPc
    BY <2>1, <2>2, <1>2, AppendProperties DEF Added
  <2> HIDE DEF w1, w2, list
  <2>4. Len(w1) <= Len(w2) /\ \A k \in 1..Len(w1) : w2[k].of = w1[k].of
    <3>1. CASE hostPc = "copied"
      <4>1. /\ Len(w1) = Len(list) - 1 /\ \A k \in 1..Len(w1) : w1[k] = list[k + 1]
            /\ Len(w2) = Len(list') - 1 /\ \A k \in 1..Len(w2) : w2[k] = list'[k + 1]
        BY <3>1, <2>3, <1>3, <1>4
      <4>2. Len(w2) = Len(w1) + 1
        BY <4>1, <2>3, <1>2
      <4>3. \A k \in 1..Len(w1) : k + 1 \in 1..Len(list) /\ k \in 1..Len(w2)
        BY <4>1, <4>2, <1>2
      <4>4. \A k \in 1..Len(w1) : w2[k] = w1[k]
        BY <4>1, <4>3, <2>3
      <4> QED BY <4>1, <4>2, <4>4, <1>2
    <3>2. CASE hostPc # "copied"
      BY <3>2, <2>3, <1>2, <1>3, <1>4
    <3> QED BY <3>1, <3>2
  <2> QED BY <1>1, <1>2, <2>3, <2>4, MoreWait
<1>6. CASE SameEvents
  <2>1. /\ Len(list') = Len(list) /\ \A k \in 1..Len(list) : list'[k].of = list[k].of
        /\ taken' = taken /\ (hostPc' = "copied" <=> hostPc = "copied")
    BY <1>6 DEF SameEvents
  <2> HIDE DEF w1, w2, list
  <2>2. Len(w1) <= Len(w2) /\ \A k \in 1..Len(w1) : w2[k].of = w1[k].of
    <3>1. CASE hostPc = "copied"
      <4>1. /\ Len(w1) = Len(list) - 1 /\ \A k \in 1..Len(w1) : w1[k] = list[k + 1]
            /\ Len(w2) = Len(list') - 1 /\ \A k \in 1..Len(w2) : w2[k] = list'[k + 1]
        BY <3>1, <2>1, <1>3, <1>4
      <4>2. Len(w2) = Len(w1)
        BY <4>1, <2>1, <1>2
      <4>3. \A k \in 1..Len(w1) : k + 1 \in 1..Len(list) /\ k \in 1..Len(w2)
        BY <4>1, <4>2, <1>2
      <4>4. \A k \in 1..Len(w1) : w2[k].of = w1[k].of
        BY <4>1, <4>3, <2>1
      <4> QED BY <4>1, <4>2, <4>4, <1>2
    <3>2. CASE hostPc # "copied"
      BY <3>2, <2>1, <1>2, <1>3, <1>4
    <3> QED BY <3>1, <3>2
  <2> QED BY <1>1, <1>2, <2>1, <2>2, MoreWait
<1>7. CASE copyFbMsgToGenericData
  <2>1. taken' = Append(taken, Head(w1)) /\ w2 = Tail(w1) /\ w1 # <<>>
    BY <1>7 DEF copyFbMsgToGenericData
  <2> QED BY <1>1, <1>2, <2>1, FirstHandedOver
<1>8. CASE removeFeedbackMsg
  <2>1. w2 = w1 /\ taken' = taken
    BY <1>8 DEF removeFeedbackMsg, EraseFirst
  <2> HIDE DEF w1, w2
  <2>2. Len(w1) <= Len(w2) /\ \A k \in 1..Len(w1) : w2[k].of = w1[k].of
    <3>1. Len(w1) \in Nat
      BY <1>2
    <3> QED BY <2>1, <3>1
  <2> QED BY <1>1, <1>2, <2>1, <2>2, MoreWait
<1> QED BY <1>5, <1>6, <1>7, <1>8 DEF EventsStep

(* However the loop thread and the host thread interleave on the list of     *)
(* events, no event is lost, handed over twice or overtaken                  *)
(* (saveFeedbackMsg, removeFeedbackMsg).                                     *)
THEOREM EventsOnlyGrow == Spec => NothingTakenBack
<1>1. IInv /\ [Next]_vars => IInv'
  BY StepType
<1>2. IInv /\ [Next]_vars => [Seqs!IsPrefix(Told, Told')]_<<turn, events>>
  <2> SUFFICES ASSUME IInv, [Next]_vars PROVE Seqs!IsPrefix(Told, Told')
    OBVIOUS
  <2>1. IInv' /\ (EventsStep \/ UNCHANGED events)
    BY StepType
  <2>2. FeedbackTypeOK /\ CopiedWaits /\ FeedbackTypeOK' /\ CopiedWaits'
    BY <2>1 DEF IInv, TypeOK
  <2>3. CASE EventsStep
    BY <2>2, <2>3, ToldGrows
  <2>4. CASE UNCHANGED events
    <3>1. SameEvents
      BY <2>4 DEF events, SameEvents
    <3> QED BY <2>2, <3>1, ToldGrows DEF EventsStep
  <2> QED BY <2>1, <2>3, <2>4
<1> QED BY InitIInv, <1>1, <1>2, PTL DEF Spec, NothingTakenBack
-----------------------------------------------------------------------------
(* A websocket connection never goes back from closing or closed, whatever   *)
(* the station's frames say, when the connection is lost, and wherever the   *)
(* loop thread is when the host thread kills it and closes in its place      *)
(* (close, sendData, poll, stop, closeAnyConnection).                        *)
THEOREM ReadyStateOnlyAdvances == Spec => ReadyStateAdvances
<1>1. IInv /\ [Next]_vars => IInv'
  BY StepType
<1>2. IInv /\ [Next]_vars => [Rank[readyState] <= Rank[readyState']]_<<turn, ws>>
  <2> SUFFICES ASSUME IInv, [Next]_vars PROVE Rank[readyState] <= Rank[readyState']
    OBVIOUS
  <2>1. readyState' = readyState \/ (readyState = "OPEN" /\ readyState' = "CLOSING")
          \/ readyState' = "CLOSED"
    <3>1. CASE UNCHANGED readyState
      BY <3>1
    <3>2. CASE poll \/ dispatch
      BY <3>2 DEF poll, noPoll, recvBytes, recvBlocks, recvFails, sendBytes, sendFails, sendReturns,
                  dispatch, dispatchData, dispatchPing, dispatchPong, dispatchClose,
                  dispatchInvalidLength, dispatchReturns, close, ws
    <3>5. CASE closeAnyConnection
      BY <3>5 DEF closeAnyConnection, close
    <3>3. CASE Next /\ ~poll /\ ~dispatch /\ ~closeAnyConnection
      <4>1. UNCHANGED readyState
        BY <3>3 DEF Next, stationPrints, stationSends, connectionLost, lost, connect, from_url, Loop,
                    receive, pollAndDispatch, loopSends, hostSends, sendCommand, checkCmdToSend,
                    parseNothing, parseMessage, report, hostTakes, transmit, Host, stop,
                    disconnect, ws, vars
      <4> QED BY <4>1
    <3>4. CASE UNCHANGED vars
      BY <3>4 DEF vars, ws
    <3> QED BY <3>1, <3>2, <3>3, <3>4, <3>5
  <2>2. readyState \in {"OPEN", "CLOSING", "CLOSED"} /\ readyState' \in {"OPEN", "CLOSING", "CLOSED"}
    BY <1>1 DEF IInv, TypeOK, WsTypeOK
  <2> QED BY <2>1, <2>2 DEF Rank
<1> QED BY InitIInv, <1>1, <1>2, PTL DEF Spec, ReadyStateAdvances
=============================================================================
