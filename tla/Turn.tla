-------------------------------- MODULE Turn --------------------------------
(* What the parts of the inbound path share.  A turn of the loop thread:     *)
(* receive (SerialReader or WsClient), send, parse one message and report it *)
(* (Feedback).  Beside the program's own variables, two histories: what the  *)
(* station has said, and how much of it the driver has read to its end.      *)
EXTENDS Integers, Sequences, NodeList

VARIABLES
  mode,        \* usbMode: "usb" or "wifi", which a session does not change
  loopPc,      \* where the loop thread is in its turn
  cmdToParse,  \* the messages received, each with the one it ends in (of)
  sent,        \* history: what the station has said
  finished     \* history: of these, how many have been read to their end

LF == 10
SPACE == 32
DASH == 45
LT == 60
GT == 62
NUL == 0
PAUSE == -1   \* in the place of a byte: none comes before the read times out
Bytes == 0..255
Text == Seq(Bytes)
Message == [text : Text, of : Nat]

CONSTANT Leftovers   \* bytes the stack may hold where a local buffer comes to lie

ASSUME TurnAssumption == Leftovers \subseteq Bytes

Seqs == INSTANCE SequencesExt

turn == <<mode, loopPc, cmdToParse, sent, finished>>

Places == {"receive", "read", "overrun", "send", "dispatch", "command", "parse",
           "describe", "fill", "count"}

(* The message the station is in the middle of, or the next it will finish.  *)
Current == finished + 1
Receive(text) == cmdToParse' = PushBack(cmdToParse, [text |-> text, of |-> Current])
=============================================================================
