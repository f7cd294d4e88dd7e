---------------------------- MODULE SerialReader ----------------------------
(* DCCpp_commands::waitSerialCommand: reads a line, a byte at a time, into a *)
(* local buffer that nothing initialises.  A read that times out succeeds    *)
(* with no byte, and yet the index moves on: what the buffer holds there     *)
(* stays, and is looked at as if it had been read.                           *)
EXTENDS Turn

CONSTANTS
  BufferSize,   \* 128 in the code
  Behind        \* what may lie behind the buffer, up to the first NUL there

ASSUME SerialAssumption == BufferSize \in Nat \ {0} /\ Behind \subseteq Text

VARIABLES
  port,         \* what the station has printed and the driver has not read
  buffer, i     \* the locals

serial == <<port, buffer, i>>
Positions == 0..(BufferSize - 1)

SerialTypeOK ==
  /\ port \in Seq(Bytes \cup {PAUSE})
  /\ buffer \in [Positions -> Bytes] /\ i \in Positions

SerialInit ==
  /\ port = <<>> /\ i = 0
  /\ \E rest \in IF mode = "usb" THEN Leftovers ELSE {NUL} : buffer = [p \in Positions |-> rest]

(* The C strings that may begin at the start of the buffer, as strstr and    *)
(* std::string read it.  Where no NUL ends it, the string runs on into the   *)
(* memory behind the buffer.                                                 *)
CStrings(b) ==
  LET ends == {p \in Positions : b[p] = NUL}
      UpTo(length) == [p \in 1..length |-> b[p - 1]]
  IN  IF ends = {}
      THEN {UpTo(BufferSize) \o behind : behind \in Behind}
      ELSE {UpTo(p) : p \in {q \in ends : \A r \in ends : q <= r}}

IsMessage(b) == b[0] = LT \/ (b[0] = DASH /\ b[1] = GT)

EndsLine(byte) == IF byte = LF THEN 1 ELSE 0

(* The first read of a call: with no byte the call is over.                  *)
noFirstByte ==
  /\ mode = "usb" /\ loopPc = "receive"
  /\ \/ port = <<>> /\ UNCHANGED port
     \/ port # <<>> /\ Head(port) = PAUSE /\ port' = Tail(port)
  /\ loopPc' = "command"
  /\ UNCHANGED <<mode, cmdToParse, sent, finished, buffer, i>>

firstByte ==
  /\ mode = "usb" /\ loopPc = "receive" /\ port # <<>> /\ Head(port) # PAUSE
  /\ buffer' = [buffer EXCEPT ![0] = Head(port)]
  /\ i' = 0 /\ port' = Tail(port) /\ finished' = finished + EndsLine(Head(port))
  /\ loopPc' = "read"
  /\ UNCHANGED <<mode, cmdToParse, sent>>

(* Every further read.  The line ends with what the buffer holds at the      *)
(* index, read now or not; the call returns, and only the first character is *)
(* wiped.  With no byte read, that is what an earlier call left on the stack *)
(* there, or something else did.                                             *)
HoldsResult(byte, at) == {[buffer EXCEPT ![at] = byte]}
Holds(byte, at) ==
  LET found == IF byte = PAUSE THEN {buffer[at]} \cup Leftovers ELSE {byte}
  IN  {[buffer EXCEPT ![at] = b] : b \in found}
nextByte ==
  /\ mode = "usb" /\ loopPc = "read" /\ i + 1 < BufferSize
  /\ LET byte == IF port = <<>> THEN PAUSE ELSE Head(port)
     IN  /\ i' = i + 1
         /\ port' = IF port = <<>> THEN port ELSE Tail(port)
         /\ finished' = finished + EndsLine(byte)
         /\ \E content \in Holds(byte, i + 1) :
              IF content[i + 1] = LF
              THEN /\ IF IsMessage(content)
                      THEN \E text \in CStrings(content) : Receive(text)
                      ELSE UNCHANGED cmdToParse
                   /\ buffer' = [content EXCEPT ![0] = NUL]
                   /\ loopPc' = "command"
              ELSE buffer' = content /\ UNCHANGED <<cmdToParse, loopPc>>
  /\ UNCHANGED <<mode, sent>>

(* The next byte would be read behind the buffer: the end of what is defined. *)
overrun ==
  /\ mode = "usb" /\ loopPc = "read" /\ i + 1 = BufferSize /\ loopPc' = "overrun"
  /\ UNCHANGED <<mode, cmdToParse, sent, finished, serial>>

waitSerialCommand == noFirstByte \/ firstByte \/ nextByte \/ overrun

(* The station prints a line, and pauses before one of its bytes or not at   *)
(* all (position 0).                                                         *)
Paused(printed, at) ==
  IF at = 0 THEN printed
  ELSE SubSeq(printed, 1, at - 1) \o <<PAUSE>> \o SubSeq(printed, at, Len(printed))
print(printed, at) == port' = port \o Paused(printed, at) /\ UNCHANGED <<buffer, i>>
=============================================================================
