------------------------------ MODULE Inbound -------------------------------
(* The way in: from the bytes the station sends to the events CDM-Rail takes, *)
(* over a serial line or a websocket.  Every message tells of a change that  *)
(* CDM-Rail is to hear of, as the <y ...> messages of the detectors do.      *)
EXTENDS SerialReader, WsHandshake, Feedback

CONSTANTS
  Modes,        \* "usb", "wifi"
  Formats,      \* of the messages: "old", "new", or "boot", which is none
  Contents,     \* the figures a message may have in it
  Pauses,       \* positions in a line where the station may pause, 0 for none
  MaxSent,      \* bound: what the station sends, messages and other frames
  CanStop       \* bound: may CDM-Rail stop the driver

ASSUME InboundAssumption ==
  /\ Modes \subseteq {"usb", "wifi"} /\ Formats \subseteq {"old", "new", "boot"}
  /\ Contents \subseteq 0..9 /\ Pauses \subseteq Nat /\ MaxSent \in Nat /\ CanStop \in BOOLEAN

VARIABLE extras   \* the frames without a message so far

vars == <<turn, serial, ws, handshakeVars, events, extras>>

SentMessage == [text : Text, safe : BOOLEAN, paused : BOOLEAN]

TypeOK ==
  /\ mode \in Modes /\ loopPc \in Places
  /\ IsNodeList(cmdToParse, Message)
  /\ sent \in Seq(SentMessage) /\ Len(sent) <= MaxSent
  /\ finished \in Nat /\ extras \in 0..MaxSent
  /\ SerialTypeOK /\ WsTypeOK /\ HandshakeTypeOK /\ FeedbackTypeOK

Init ==
  /\ mode \in Modes /\ loopPc = "receive" /\ cmdToParse = Empty
  /\ sent = <<>> /\ finished = 0 /\ extras = 0
  /\ SerialInit /\ WsInit /\ HandshakeInit /\ FeedbackInit
-----------------------------------------------------------------------------
(* The station.  A message has a figure in it, and may be said again.        *)
TextOf(format, number) ==
  CASE format = "old"  -> <<LT, 48 + number, GT>>
    [] format = "new"  -> <<DASH, GT, SPACE, 48 + number>>
    [] format = "boot" -> <<48 + number>>

(* A pause in a line may cost the driver that line and the next: the rest of *)
(* a line cut short may swallow it.                                          *)
SafeLine(format, at) ==
  /\ format # "boot" /\ at < 2
  /\ sent # <<>> => ~Seqs!Last(sent).paused

stationPrints == \E format \in Formats, number \in Contents, at \in Pauses :
  LET printed == Append(TextOf(format, number), LF)
  IN  /\ mode = "usb" /\ Len(sent) < MaxSent /\ at <= Len(printed)
      /\ print(printed, at)
      /\ sent' = Append(sent, [text |-> printed, safe |-> SafeLine(format, at), paused |-> at > 1])
      /\ UNCHANGED <<mode, loopPc, cmdToParse, finished, ws, handshakeVars, events, extras>>

stationSends == \E framing \in Framings, format \in Formats, number \in Contents :
  LET text == TextOf(format, number)
  IN  /\ mode = "wifi" /\ handshake \in {"headers", "done"} /\ ~broken /\ ~silent
      /\ readyState # "CLOSED" /\ Len(sent) + extras < MaxSent
      /\ transmit(framing, text)
      /\ IF HasMessage(framing)
         THEN /\ UNCHANGED extras
              /\ sent' = Append(sent, [text |-> text, safe |-> Accepts(text), paused |-> FALSE])
         ELSE extras' = extras + 1 /\ UNCHANGED sent
      /\ UNCHANGED <<mode, loopPc, cmdToParse, finished, serial, handshakeVars, events>>
-----------------------------------------------------------------------------
(* The loop thread.                                                          *)
receive == waitSerialCommand /\ UNCHANGED <<ws, handshakeVars, events, extras>>
pollAndDispatch == (poll \/ dispatch) /\ UNCHANGED <<serial, handshakeVars, events, extras>>
loopSends == loopPc = "command" /\ sendCommand /\ UNCHANGED <<turn, serial, handshakeVars, events, extras>>
checkCmdToSend ==
  /\ loopPc = "command" /\ loopPc' = "parse"
  /\ UNCHANGED <<mode, cmdToParse, sent, finished, serial, ws, handshakeVars, events, extras>>

(* What parse takes for a message: <...> anywhere, or what follows "-> ".    *)
Recognised(text) ==
  \/ \E a, b \in DOMAIN text :
       a < b /\ text[a] = LT /\ text[b] = GT /\ \A k \in a..b : text[k] # LF
  \/ \E a \in DOMAIN text :
       /\ a + 3 <= Len(text) /\ text[a + 3] # LF
       /\ text[a] = DASH /\ text[a + 1] = GT /\ text[a + 2] = SPACE

parseNothing ==
  /\ loopPc = "parse" /\ IsEmpty(cmdToParse) /\ loopPc' = "receive"
  /\ UNCHANGED <<mode, cmdToParse, sent, finished, serial, ws, handshakeVars, events, extras>>

(* The first message is taken, and with it all that are equal to it.         *)
parseMessage ==
  /\ loopPc = "parse" /\ ~IsEmpty(cmdToParse)
  /\ LET command == Front(cmdToParse)
         others == {k \in DOMAIN cmdToParse : cmdToParse[k].text # command.text}
     IN  /\ cmdToParse' = [k \in others |-> cmdToParse[k]]
         /\ IF Recognised(command.text)
            THEN saveFeedbackMsg(command.of) /\ loopPc' = "describe"
            ELSE loopPc' = "receive" /\ UNCHANGED events
  /\ UNCHANGED <<mode, sent, finished, serial, ws, handshakeVars, extras>>

report == fill /\ UNCHANGED <<serial, ws, handshakeVars, extras>>

connect == from_url /\ UNCHANGED <<serial, events, extras>>
connectionLost == lost /\ UNCHANGED <<serial, events, extras>>

LoopLives == handshake = "done" /\ hostPc \notin Stopping

Loop ==
  /\ LoopLives
  /\ \/ receive \/ pollAndDispatch \/ loopSends \/ checkCmdToSend
     \/ parseNothing \/ parseMessage \/ report

(* The host thread.                                                          *)
Idle == handshake = "done" /\ hostPc = "idle"
hostSends == Idle /\ sendCommand /\ UNCHANGED <<turn, serial, handshakeVars, events, extras>>
hostTakes == GetNextUnExpectedMessage /\ UNCHANGED <<serial, ws, handshakeVars, extras>>

(* stop kills the loop thread wherever it is; then disconnect sends <0>, and *)
(* closeAnyConnection closes the websocket and drops it.                     *)
HostStep(from, to) ==
  /\ hostPc = from /\ hostPc' = to
  /\ UNCHANGED <<turn, serial, handshakeVars, listOfUnexpectedFbMsg, FbIndex, taken, extras>>
stop == CanStop /\ Idle /\ HostStep("idle", IF mode = "wifi" THEN "killed" ELSE "stopped") /\ UNCHANGED ws
disconnect ==
  /\ HostStep("killed", "closing") /\ sendData("command")
  /\ UNCHANGED <<wire, rxbuf, receivedData, isRxBad, readyState, sends>>
closeAnyConnection ==
  /\ HostStep("closing", "stopped") /\ close
  /\ UNCHANGED <<wire, rxbuf, receivedData, isRxBad, sends>>

Host == hostSends \/ hostTakes \/ stop \/ disconnect \/ closeAnyConnection

(* Behind the end of the buffer nothing is read.  Without a websocket the    *)
(* session has not begun, and with the stop it is over.                      *)
Over == loopPc = "overrun" \/ handshake = "refused" \/ hostPc = "stopped"

Next ==
  \/ /\ ~Over
     /\ \/ stationPrints \/ stationSends \/ connectionLost \/ connect \/ Loop \/ Host
  \/ Over /\ UNCHANGED vars

Spec == Init /\ [][Next]_vars

(* The host thread reads what there is of the station's answer, the loop     *)
(* thread runs while it lives, and bytes that wait are received some time.   *)
receives == LoopLives /\ recvBytes /\ UNCHANGED <<serial, handshakeVars, events, extras>>
FairSpec == Spec /\ WF_vars(connect) /\ WF_vars(Loop) /\ SF_vars(receives)
-----------------------------------------------------------------------------
(* Properties.                                                               *)

(* A safe message reaches parse with its text as the station sent it, byte   *)
(* for byte from its start, whatever reads, frames and fragments it came in  *)
(* (waitSerialCommand, dispatch).                                            *)
TextsArriveWhole ==
  \A k \in DOMAIN cmdToParse :
    LET message == cmdToParse[k]
    IN  sent[message.of].safe => Seqs!IsPrefix(sent[message.of].text, message.text)

(* Station, driver and CDM-Rail together are a message stream.  Heard: the   *)
(* events told, and those that the waiting messages will make, equal ones    *)
(* one.                                                                      *)
Heard ==
  LET TextAt(k) == cmdToParse[k].text
      first == {k \in DOMAIN cmdToParse : /\ Recognised(TextAt(k))
                                          /\ \A j \in DOMAIN cmdToParse : j < k => TextAt(j) # TextAt(k)}
      order == Seqs!SetToSortSeq(first, LAMBDA j, k : j < k)
  IN  Told \o [k \in DOMAIN order |-> cmdToParse[order[k]].of]
Printable == {TextOf(format, number) : format \in Formats, number \in Contents}
Stream == INSTANCE MessageStream WITH
  Texts <- Printable \cup {Append(text, LF) : text \in Printable},
  said <- [k \in DOMAIN sent |-> [text |-> sent[k].text, safe |-> sent[k].safe]],
  told <- Heard,
  read <- LET last == IF Heard = <<>> THEN 0 ELSE Seqs!Last(Heard)
          IN  IF last > finished THEN last ELSE finished,
  parsed <- Len(Told)
StreamSpec == Stream!Spec

(* A safe message that is still on its way is answered by an event to come,  *)
(* its own or that of an equal message before it, in which it is lost (loop, *)
(* poll, dispatch, parse); unless the connection is lost or given up before, *)
(* a line outgrew the buffer, or the driver is stopped.                      *)
OnItsWay(message) == finished < message /\ message <= Len(sent) /\ sent[message].safe
ToldAfter(count, message) ==
  /\ message <= Len(sent)
  /\ \E k \in DOMAIN Told : k > count /\ sent[Told[k]].text = sent[message].text
GivenUp == readyState = "CLOSED" \/ isRxBad \/ broken \/ silent \/ hostPc \in Stopping \/ Over
SafeMessagesArrive == \A message \in 1..MaxSent : \A count \in 0..(message - 1) :
  OnItsWay(message) /\ Len(Told) = count ~> ToldAfter(count, message) \/ GivenUp
=============================================================================
