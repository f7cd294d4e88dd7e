--------------------------- MODULE BridgeMessages ---------------------------
(* Bridge: what becomes of the messages of the station.                      *)
(*                                                                           *)
(* Over a serial line, driver and station agree on the track power.          *)
(* powerOn follows the power messages in the order the station sent them, so *)
(* it is the last message that counts: the last one on the line or, with     *)
(* none there, the one that waits to be parsed or, with none there either,   *)
(* what the driver believes.  While the loop thread handles a power message,  *)
(* it believes what the message says, though powerOn is only set at the end. *)
(* In the other modes several messages may wait in          *)
(* cmdToParse, and parsing one removes every equal one, so the last one need *)
(* not be handled last.                                                      *)
EXTENDS BridgeProofs

PowerSignals == {Signal("p0"), Signal("p1")}
SignalOf(on) == IF on THEN Signal("p1") ELSE Signal("p0")

Silent(messages) == \A k \in 1..Len(messages) : messages[k] \notin PowerSignals
EndsWith(messages, on) == \E k \in 1..Len(messages) :
  /\ messages[k] = SignalOf(on)
  /\ \A j \in (k + 1)..Len(messages) : messages[j] \notin PowerSignals

Waits == Values(cmdToParse)
LossPlaces == {"stopping", "reporting", "raising", "lowering"}
GainPlaces == {"releasing", "powering"}
Believed == loopPc \in GainPlaces \/ (powerOn /\ loopPc \notin LossPlaces)

LastCounts ==
  \/ EndsWith(line, trackPower)
  \/ Silent(line) /\ SignalOf(trackPower) \in Waits
  \/ Silent(line) /\ Waits \cap PowerSignals = {} /\ Believed = trackPower

OneAtATime ==
  /\ \A u, v \in Waits : u = v
  /\ (loopPc = "receive" /\ received = 0) \/ loopPc \in LossPlaces \cup GainPlaces => Waits = {}

PowerInv == mode = "usb" /\ loopPc # "crashed" => OneAtATime /\ LastCounts

LEMMA SignalsDiffer ==
  Signal("p0") # Signal("p1") /\ \A text \in {"g1", "i"} : Signal(text) \notin PowerSignals
BY DEF Signal, PowerSignals

LEMMA SignalOfIs ==
  ASSUME NEW a \in BOOLEAN
  PROVE  /\ SignalOf(a) \in PowerSignals /\ SignalOf(a) = Signal(IF a THEN "p1" ELSE "p0")
         /\ \A b \in BOOLEAN : SignalOf(a) = SignalOf(b) => a = b
BY SignalsDiffer DEF SignalOf, PowerSignals

LEMMA ReplyIsNoSignal == \A r \in Replies : r \notin PowerSignals
BY DEF Replies, PowerSignals, Signal

(* A power message at the end of the line is the last one.                   *)
LEMMA AppendSignal ==
  ASSUME NEW l \in Seq(Messages), NEW on \in BOOLEAN
  PROVE  EndsWith(Append(l, SignalOf(on)), on)
<1>1. SignalOf(on) \in Messages
  BY SignalOfIs DEF PowerSignals, Messages
<1>2. Len(Append(l, SignalOf(on))) = Len(l) + 1 /\ Append(l, SignalOf(on))[Len(l) + 1] = SignalOf(on)
  <2> HIDE DEF Messages
  <2> QED BY <1>1
<1>3. Len(l) \in Nat
  OBVIOUS
<1> QED BY <1>2, <1>3 DEF EndsWith

(* Any other message leaves the last power message where it is.              *)
LEMMA AppendOther ==
  ASSUME NEW l \in Seq(Messages), NEW m \in Messages, m \notin PowerSignals
  PROVE  /\ Silent(l) => Silent(Append(l, m))
         /\ \A on : EndsWith(l, on) => EndsWith(Append(l, m), on)
<1> DEFINE t == Append(l, m)
<1> HIDE DEF Messages
<1>1. /\ Len(l) \in Nat /\ Len(t) = Len(l) + 1 /\ t[Len(l) + 1] = m
      /\ \A k \in 1..Len(l) : t[k] = l[k]
  OBVIOUS
<1> HIDE DEF t
<1>2. ASSUME Silent(l) PROVE Silent(t)
  BY <1>1, <1>2 DEF Silent
<1>3. ASSUME NEW on, EndsWith(l, on) PROVE EndsWith(t, on)
  <2>1. PICK k \in 1..Len(l) : /\ l[k] = SignalOf(on)
                               /\ \A j \in (k + 1)..Len(l) : l[j] \notin PowerSignals
    BY <1>3 DEF EndsWith
  <2>2. k \in 1..Len(t) /\ t[k] = SignalOf(on)
    BY <1>1, <2>1
  <2>3. \A j \in (k + 1)..Len(t) : t[j] \notin PowerSignals
    BY <1>1, <2>1
  <2> QED BY <2>2, <2>3 DEF EndsWith
<1> QED BY <1>2, <1>3 DEF t

(* What the station does in answer to a command of the driver.               *)
LEMMA SendKeeps ==
  ASSUME TypeOK, mode = "usb", NEW c \in QueuedCommands \cup PowerCommands, sendCommand(c)
  PROVE  /\ UNCHANGED cmdToParse
         /\ \/ EndsWith(line', trackPower')
            \/ /\ UNCHANGED trackPower
               /\ Silent(line) => Silent(line')
               /\ \A on : EndsWith(line, on) => EndsWith(line', on)
<1>1. /\ line \in Seq(Messages) /\ line' = line \o Reply(c) /\ UNCHANGED cmdToParse
      /\ trackPower' = IF c.kind = "power" THEN c.on ELSE trackPower
  BY DEF TypeOK, StationOK, sendCommand, Obey
<1>2. CASE c.kind = "power"
  <2>1. c.on \in BOOLEAN
    BY <1>2 DEF QueuedCommands, AnsweredCommands, SpeedCommands, FunctionCommands, AccessoryCommands,
                S88Command, PowerCommands, PowerCommand, VersionCommand
  <2>2. Reply(c) = <<SignalOf(c.on)>>
    BY <1>2, <2>1 DEF Reply, SignalOf
  <2>3. SignalOf(c.on) \in Messages
    BY <2>1, SignalOfIs DEF PowerSignals, Messages
  <2>4. line' = Append(line, SignalOf(c.on))
    <3> HIDE DEF Messages
    <3> QED BY <1>1, <2>2, <2>3
  <2>5. trackPower' = c.on
    BY <1>1, <1>2
  <2> QED BY <1>1, <2>1, <2>4, <2>5, AppendSignal
<1>3. CASE c.kind # "power"
  <2>1. \/ Reply(c) = <<>> \/ (c.kind \in Acknowledged /\ Reply(c) = <<[kind |-> "reply", to |-> c]>>)
        \/ Reply(c) = <<Signal("i")>>
    BY <1>3 DEF Reply
  <2>4. CASE Reply(c) = <<Signal("i")>>
    <3>1. Signal("i") \in Messages /\ Signal("i") \notin PowerSignals
      BY SignalsDiffer DEF Messages
    <3>2. line' = Append(line, Signal("i"))
      <4> HIDE DEF Messages
      <4> QED BY <1>1, <2>4, <3>1
    <3> QED BY <1>1, <1>3, <3>1, <3>2, AppendOther
  <2>2. CASE Reply(c) = <<>>
    <3>1. line' = line
      <4> HIDE DEF Messages
      <4> QED BY <1>1, <2>2
    <3> QED BY <1>1, <1>3, <3>1
  <2>3. CASE c.kind \in Acknowledged /\ Reply(c) = <<[kind |-> "reply", to |-> c]>>
    <3> DEFINE r == [kind |-> "reply", to |-> c]
    <3>1. c \in AnsweredCommands
      BY <1>3, <2>3, BridgeAssumption
        DEF QueuedCommands, PowerCommands, PowerCommand, S88Command, VersionCommand
    <3>2. r \in Messages /\ r \notin PowerSignals
      BY <3>1, ReplyIsNoSignal DEF Messages, Replies
    <3>3. line' = Append(line, r)
      <4> HIDE DEF Messages, r
      <4>1. Reply(c) = <<r>>
        BY <2>3 DEF r
      <4> QED BY <1>1, <3>2, <4>1
    <3> QED BY <1>1, <1>3, <3>2, <3>3, AppendOther
  <2> QED BY <2>1, <2>2, <2>3, <2>4
<1> QED BY <1>2, <1>3
-----------------------------------------------------------------------------
(* What the steps do to all this.  The loop thread stays where it is, or     *)
(* goes on to send or parse.                                                 *)
LoopGoesOn ==
  \/ loopPc' = loopPc /\ received' = received
  \/ loopPc \in {"receive", "send"} /\ loopPc' \in {"send", "parse"}

Quiet == UNCHANGED <<cmdToParse, line, trackPower, powerOn>> /\ LoopGoesOn
Sends ==
  /\ \E c \in QueuedCommands \cup PowerCommands : sendCommand(c)
  /\ UNCHANGED powerOn /\ LoopGoesOn
Parses == \/ parseNothing \/ parsePowerOn \/ parsePowerOff \/ parsePing \/ parseVersion \/ parseReply
Handles == ReleaseSteps \/ HoldSteps

LEMMA PowerStepKinds ==
  ASSUME TypeOK, [Next]_vars
  PROVE  Quiet \/ Sends \/ Parses \/ receiveMessage \/ Handles \/ loopRunsWild \/ Station
<1> USE DEF LoopGoesOn
<1>1. CASE SetSpeed \/ StopLoco \/ CommitSpeed \/ SetF0F4 \/ SetF5F8 \/ SetF9F12
           \/ SetAccessoryState \/ CommandStationStatusRequest
  BY <1>1 DEF SetSpeed, StopLoco, setLocoSpeed, CommitSpeed, SetF0F4, SetF5F8, SetF9F12,
     setLocoFunction, SetAccessoryState, CommandStationStatusRequest, ReturnsAtOnce,
     Quiet, shared, power, queues, loopVars, stationVars
<1>2. CASE restartOneLoco \/ ResumeReturns \/ EmergencyStop
           \/ GetNextExpectedResponse \/ GetNextUnExpectedMessage
  BY <1>2 DEF restartOneLoco, ResumeReturns, EmergencyStop,
     GetNextExpectedResponse, GetNextUnExpectedMessage, Quiet,
     shared, power, queues, loopVars, stationVars
<1>3. CASE PowerOff \/ ResumeOperations \/ EmergencyStopReturns
  <2>1. \A on \in BOOLEAN : PowerCommand(on) \in PowerCommands
    BY DEF PowerCommands
  <2> QED BY <1>3, <2>1 DEF PowerOff, ResumeOperations, EmergencyStopReturns, ReturnsAtOnce,
                            Sends, power, loopVars
<1>8. CASE CommandStationVersionRequest
  BY <1>8 DEF CommandStationVersionRequest, PowerCommands, ReturnsAtOnce, Sends, power
<1>4. CASE hostStopsOneLoco
  <2>1. hostIt \in DOMAIN listOfLocoInfos
    BY <1>4 DEF hostStopsOneLoco, end, TypeOK, HostOK, ListsOK
  <2>2. \E c \in QueuedCommands : sendCommand(c)
    BY <1>4, <2>1, LocoCommandType DEF hostStopsOneLoco, stopLocoAt, QueuedCommands, AnsweredCommands
  <2> QED BY <1>4, <2>2 DEF hostStopsOneLoco, Sends, power, loopVars
<1>5. CASE loopStopsOneLoco
  <2>1. loopIt \in DOMAIN listOfLocoInfos
    BY <1>5 DEF loopStopsOneLoco, end, TypeOK, LoopOK, ListsOK
  <2>2. \E c \in QueuedCommands : sendCommand(c)
    BY <1>5, <2>1, LocoCommandType DEF loopStopsOneLoco, stopLocoAt, QueuedCommands, AnsweredCommands
  <2> QED BY <1>5, <2>2 DEF loopStopsOneLoco, Sends, power
<1>6. CASE checkCmdToSend
  <2>1. CASE MaySend
    <3>1. Front(cmdToSend) \in QueuedCommands
      BY <2>1, FrontIsValue DEF MaySend, TypeOK, QueuesOK
    <3> QED BY <1>6, <2>1, <3>1 DEF checkCmdToSend, Sends, power
  <2>2. CASE ~MaySend
    BY <1>6, <2>2 DEF checkCmdToSend, Quiet, power, queues, stationVars
  <2> QED BY <2>1, <2>2
<1>7. CASE receiveReturns \/ Tick \/ UNCHANGED vars
  BY <1>7 DEF receiveReturns, Tick, vars, Quiet, shared, power, queues, loopVars, stationVars
<1> QED BY <1>1, <1>2, <1>3, <1>4, <1>5, <1>6, <1>7, <1>8
        DEF Next, Host, Loop, Parses, Handles, ReleaseSteps, HoldSteps

LEMMA PowerInvInit == Init => PowerInv
<1> SUFFICES ASSUME Init PROVE PowerInv
  OBVIOUS
<1>1. Waits = {}
  BY EmptyIsNodeList DEF Init, Waits
<1>2. Silent(line)
  <2>1. line = <<>> /\ Len(<<>>) = 0
    BY DEF Init
  <2> QED BY <2>1 DEF Silent
<1>3. Believed = trackPower
  BY DEF Init, Believed, LossPlaces, GainPlaces
<1> QED BY <1>1, <1>2, <1>3 DEF PowerInv, OneAtATime, LastCounts

LEMMA PowerInvStep == TypeOK /\ PowerInv /\ [Next]_vars => PowerInv'
<1> SUFFICES ASSUME TypeOK, PowerInv, [Next]_vars, mode' = "usb", loopPc' # "crashed"
             PROVE  OneAtATime' /\ LastCounts'
  BY DEF PowerInv
<1>0. mode = "usb" /\ trackPower \in BOOLEAN /\ powerOn \in BOOLEAN
      /\ line \in Seq(Messages) /\ IsNodeList(cmdToParse, Messages)
  BY DEF Next, vars, TypeOK, StationOK, PowerOK, QueuesOK
<1> USE DEF LossPlaces, GainPlaces
<1>1. loopPc # "crashed" => OneAtATime /\ LastCounts
  BY <1>0 DEF PowerInv
<1>2. CASE Quiet
  <2>1. loopPc # "crashed" /\ UNCHANGED Waits
    BY <1>2 DEF Quiet, LoopGoesOn, Waits
  <2>2. OneAtATime'
    BY <1>1, <1>2, <2>1 DEF OneAtATime, Quiet, LoopGoesOn
  <2>3. Believed' = Believed
    BY <1>2 DEF Quiet, LoopGoesOn, Believed
  <2>4. line' = line /\ trackPower' = trackPower
    BY <1>2 DEF Quiet
  <2> QED BY <1>1, <2>1, <2>2, <2>3, <2>4 DEF LastCounts
<1>3. CASE Sends
  <2>1. PICK c \in QueuedCommands \cup PowerCommands : sendCommand(c)
    BY <1>3 DEF Sends
  <2>2. loopPc # "crashed"
    BY <1>3 DEF Sends, LoopGoesOn
  <2>3. /\ UNCHANGED cmdToParse
        /\ \/ EndsWith(line', trackPower')
           \/ /\ UNCHANGED trackPower
              /\ Silent(line) => Silent(line')
              /\ \A on : EndsWith(line, on) => EndsWith(line', on)
    BY <1>0, <2>1, SendKeeps
  <2>4. UNCHANGED Waits
    BY <2>3 DEF Waits
  <2>5. OneAtATime'
    BY <1>1, <1>3, <2>2, <2>4 DEF OneAtATime, Sends, LoopGoesOn
  <2>6. Believed' = Believed
    BY <1>3 DEF Sends, LoopGoesOn, Believed
  <2> QED BY <1>1, <2>2, <2>3, <2>4, <2>5, <2>6 DEF LastCounts
<1>4. CASE receiveMessage
  <2>1. /\ loopPc = "receive" /\ received = 0 /\ line # <<>> /\ received' = 1 /\ loopPc' = "receive"
        /\ line' = Tail(line) /\ cmdToParse' = PushBack(cmdToParse, Head(line))
        /\ UNCHANGED <<powerOn, trackPower>>
    BY <1>0, <1>4 DEF receiveMessage, Burst, power, TypeOK, LoopOK
  <2>2. /\ Head(line) \in Messages /\ Head(line) = line[1] /\ Len(line) \in Nat /\ Len(line) >= 1
        /\ Len(line') = Len(line) - 1 /\ \A k \in 1..Len(line') : line'[k] = line[k + 1]
    <3> HIDE DEF Messages
    <3> QED BY <1>0, <2>1
  <2>3. Waits = {} /\ Waits' = {line[1]}
    <3>1. Waits = {}
      BY <1>1, <2>1 DEF OneAtATime
    <3>2. Waits' = Waits \cup {line[1]}
      BY <1>0, <2>1, <2>2, PushBackValues DEF Waits
    <3> QED BY <3>1, <3>2
  <2>4. OneAtATime'
    BY <2>1, <2>3 DEF OneAtATime
  <2>5. Believed' = Believed
    BY <2>1 DEF Believed
  <2>6. CASE EndsWith(line, trackPower)
    <3>1. PICK k \in 1..Len(line) :
            /\ line[k] = SignalOf(trackPower)
            /\ \A j \in (k + 1)..Len(line) : line[j] \notin PowerSignals
      BY <2>6 DEF EndsWith
    <3>2. CASE k = 1
      <4>1. Silent(line')
        BY <3>1, <3>2, <2>2 DEF Silent
      <4> QED BY <4>1, <3>1, <3>2, <2>1, <2>3, <2>4 DEF LastCounts
    <3>3. CASE k # 1
      <4>1. k - 1 \in 1..Len(line') /\ line'[k - 1] = SignalOf(trackPower)
        BY <3>1, <3>3, <2>2
      <4>2. \A j \in ((k - 1) + 1)..Len(line') : line'[j] \notin PowerSignals
        BY <3>1, <2>2
      <4>3. EndsWith(line', trackPower)
        BY <4>1, <4>2 DEF EndsWith
      <4> QED BY <4>3, <2>1, <2>4 DEF LastCounts
    <3> QED BY <3>2, <3>3
  <2>7. CASE Silent(line) /\ Believed = trackPower
    <3>1. line[1] \notin PowerSignals /\ Silent(line')
      BY <2>2, <2>7 DEF Silent
    <3> QED BY <3>1, <2>1, <2>3, <2>4, <2>5, <2>7 DEF LastCounts
  <2> QED BY <1>1, <2>1, <2>3, <2>6, <2>7 DEF LastCounts
<1>5. CASE Parses
  <2>1. loopPc = "parse" /\ OneAtATime /\ LastCounts
    BY <1>1, <1>5 DEF Parses, parseNothing, parsePowerOn, parsePowerOff, parsePing, parseVersion,
                   parseReply, Take
  <2>2. UNCHANGED <<line, trackPower>>
    BY <1>5 DEF Parses, parseNothing, parsePowerOn, parsePowerOff, parsePing, parseVersion,
                   parseReply, stationVars
  <2>3. CASE parseNothing
    <3>1. Waits = {} /\ UNCHANGED Waits
      BY <2>3 DEF parseNothing, IsEmpty, Waits, Values, shared, queues
    <3>2. Believed' = Believed
      BY <2>1, <2>3 DEF parseNothing, Believed, shared, power
    <3> QED BY <2>1, <2>2, <3>1, <3>2 DEF OneAtATime, LastCounts
  <2>4. ASSUME NEW m, Take(m) PROVE Waits = {m} /\ Waits' = {} /\ OneAtATime'
    <3>1. m \in Waits
      BY <1>0, <2>4, FrontIsValue DEF Take, Waits
    <3>2. Waits = {m}
      BY <2>1, <3>1 DEF OneAtATime
    <3>3. Waits' = Waits \ {m}
      BY <1>0, <2>4, RemoveEqualValues DEF Take, Waits
    <3>4. Waits' = {}
      BY <3>2, <3>3
    <3> QED BY <3>2, <3>4 DEF OneAtATime
  <2>5. CASE parsePowerOn
    <3>1. Take(Signal("p1")) /\ Believed' = TRUE
      BY <2>5 DEF parsePowerOn, Believed
    <3>2. Waits = {Signal("p1")} /\ Waits' = {} /\ OneAtATime'
      BY <3>1, <2>4
    <3>3. EndsWith(line, trackPower) \/ (Silent(line) /\ trackPower = TRUE)
      BY <1>0, <2>1, <3>2, SignalsDiffer DEF LastCounts, SignalOf, PowerSignals
    <3> QED BY <2>2, <3>1, <3>2, <3>3 DEF LastCounts
  <2>6. CASE parsePowerOff
    <3>1. Take(Signal("p0")) /\ Believed' = FALSE
      BY <1>0, <2>6 DEF parsePowerOff, NewPowerLoss, Believed, power
    <3>2. Waits = {Signal("p0")} /\ Waits' = {} /\ OneAtATime'
      BY <3>1, <2>4
    <3>3. EndsWith(line, trackPower) \/ (Silent(line) /\ trackPower = FALSE)
      BY <1>0, <2>1, <3>2, SignalsDiffer DEF LastCounts, SignalOf, PowerSignals
    <3> QED BY <2>2, <3>1, <3>2, <3>3 DEF LastCounts
  <2>7. CASE parsePing \/ parseVersion \/ parseReply
    <3>1. PICK m : Take(m) /\ m \notin PowerSignals
      <4>1. CASE parsePing \/ parseVersion
        BY <4>1, SignalsDiffer DEF parsePing, parseVersion
      <4>2. CASE parseReply
        BY <4>2 DEF parseReply, PowerSignals, Signal
      <4> QED BY <2>7, <4>1, <4>2
    <3>2. Waits = {m} /\ Waits' = {} /\ OneAtATime'
      BY <3>1, <2>4
    <3>3. Believed' = Believed
      BY <2>1, <2>7 DEF parsePing, parseVersion, parseReply, Believed, power
    <3>4. SignalOf(trackPower) \notin Waits
      BY <1>0, <3>1, <3>2, SignalOfIs
    <3> QED BY <2>1, <2>2, <3>2, <3>3, <3>4 DEF LastCounts
  <2> QED BY <1>5, <2>3, <2>5, <2>6, <2>7 DEF Parses
<1>6. CASE Handles
  <2>1. /\ loopPc \in LossPlaces \cup GainPlaces
        /\ loopPc' \in LossPlaces \cup GainPlaces \cup {"receive"}
        /\ UNCHANGED <<line, trackPower, cmdToParse>>
    BY <1>6 DEF Handles, ReleaseSteps, HoldSteps, releaseQueue, believePowerOn, loopEnds,
                reportPowerOff, holdQueue, believePowerOff, GoesOn, queues, stationVars
  <2>2. Waits = {} /\ UNCHANGED Waits
    BY <1>1, <2>1 DEF OneAtATime, Waits
  <2>3. Believed' = Believed
    BY <1>6 DEF Believed, Handles, ReleaseSteps, HoldSteps, releaseQueue, believePowerOn, loopEnds,
                reportPowerOff, holdQueue, believePowerOff, GoesOn
  <2>4. OneAtATime' /\ LastCounts
    BY <1>1, <2>1, <2>2 DEF OneAtATime
  <2> QED BY <2>1, <2>2, <2>3, <2>4 DEF LastCounts
<1>7. CASE loopRunsWild
  BY <1>7 DEF loopRunsWild
<1>8. CASE Station
  <2>1. UNCHANGED <<cmdToParse, powerOn, loopPc, received>>
    BY <1>8 DEF Station, shared, queues, power, loopVars
  <2>2. UNCHANGED Waits /\ UNCHANGED Believed
    BY <2>1 DEF Waits, Believed
  <2>3. OneAtATime' /\ LastCounts
    BY <1>1, <2>1, <2>2 DEF OneAtATime
  <2>4. CASE \E on \in BOOLEAN : trackPower' = on /\ line' = Append(line, SignalOf(on))
    BY <1>0, <2>3, <2>4, AppendSignal DEF LastCounts
  <2>5. CASE trackPower' = trackPower /\ line' = Append(line, Signal("g1"))
    <3>1. Signal("g1") \in Messages
      BY DEF Messages
    <3>2. /\ Silent(line) => Silent(line')
          /\ \A on : EndsWith(line, on) => EndsWith(line', on)
      BY <1>0, <2>5, <3>1, SignalsDiffer, AppendOther
    <3> QED BY <2>2, <2>3, <2>5, <3>2 DEF LastCounts
  <2> QED BY <1>8, <2>4, <2>5 DEF Station, SignalOf
<1> QED BY <1>2, <1>3, <1>4, <1>5, <1>6, <1>7, <1>8, PowerStepKinds

(* Over a serial line, once every message has been handled, powerOn is what  *)
(* the track power is, whoever switched it and whatever the two threads did  *)
(* meanwhile (loop, parse, handleCommandStationStatus).                      *)
THEOREM PowerAgrees == Spec => [](mode = "usb" => PowerAgreement)
<1>1. TypeOK /\ PowerInv => (mode = "usb" => PowerAgreement)
  <2> SUFFICES ASSUME TypeOK, PowerInv, mode = "usb", Settled PROVE powerOn = trackPower
    BY DEF PowerAgreement
  <2>1. LastCounts /\ loopPc \notin LossPlaces \cup GainPlaces /\ powerOn \in BOOLEAN
    BY DEF PowerInv, Settled, TypeOK, PowerOK, LossPlaces, GainPlaces
  <2>2. Waits = {}
    BY DEF Settled, IsEmpty, Waits, Values
  <2>3. \A on : ~EndsWith(line, on)
    BY DEF Settled, EndsWith
  <2> QED BY <2>1, <2>2, <2>3 DEF LastCounts, Believed
<1> QED BY <1>1, TypeInit, TypeStep, PowerInvInit, PowerInvStep, PTL DEF Spec
-----------------------------------------------------------------------------
(* Every reply that is looked at is recognised, however equal commands and   *)
(* equal replies were merged.                                                *)
(*                                                                           *)
(* A reply is matched by less than the whole command, so commands fall into  *)
(* classes.  Of each class no more is queued or under way than is waited     *)
(* for: a command is saved when it is queued or sent past the queue, the     *)
(* merging of equal ones takes out at least the one that is sent, the        *)
(* station answers it at most once, and a reply strikes out one entry.       *)
Class(c) == {d \in AnsweredCommands : Answers(d, c)}
RepliesTo(c) == {[kind |-> "reply", to |-> d] : d \in Class(c)}

Matched == {c \in AnsweredCommands : c.kind # "f"}

Queued(c) == Count(cmdToSend, Class(c))
UnderWay(c) == Count(cmdToParse, RepliesTo(c)) + Count(line, RepliesTo(c))
Awaited(c) == Count(listOfCmdWaitingResp, Class(c))

AllAwaited == \A c \in Matched : Queued(c) + UnderWay(c) <= Awaited(c)

LEMMA CountsAreNat ==
  ASSUME TypeOK, NEW c
  PROVE  /\ Queued(c) \in Nat /\ Awaited(c) \in Nat /\ UnderWay(c) \in Nat
         /\ Count(cmdToParse, RepliesTo(c)) \in Nat /\ Count(line, RepliesTo(c)) \in Nat
<1>1. Queued(c) \in Nat /\ Awaited(c) \in Nat /\ Count(cmdToParse, RepliesTo(c)) \in Nat
  BY CountType DEF TypeOK, QueuesOK, ListsOK, Queued, Awaited
<1>2. Count(line, RepliesTo(c)) \in Nat
  BY LineCountType DEF TypeOK, StationOK
<1> QED BY <1>1, <1>2 DEF UnderWay

(* Two commands of which one answers for the other answer for the same.      *)
LEMMA SameClass ==
  ASSUME NEW c \in Matched, NEW d \in Class(c)
  PROVE  d \in Matched /\ Class(d) = Class(c)
<1>1. d \in AnsweredCommands /\ d.kind = c.kind /\ c.kind # "f" /\ Answers(d, c)
  BY DEF Matched, Class, Answers
<1>2. c.kind = "t" \/ c.kind = "T"
  BY <1>1 DEF Matched, AnsweredCommands, SpeedCommands, FunctionCommands, AccessoryCommands
<1>3. \A e \in AnsweredCommands : Answers(e, d) <=> Answers(e, c)
  <2>1. CASE c.kind = "t"
    <3>1. d.addr = c.addr /\ d.speed = c.speed
      BY <1>1, <2>1 DEF Answers
    <3> QED BY <1>1, <2>1, <3>1 DEF Answers
  <2>2. CASE c.kind = "T"
    BY <1>1, <2>2 DEF Answers
  <2> QED BY <1>2, <2>1, <2>2
<1> QED BY <1>1, <1>3 DEF Matched, Class

LEMMA OwnClass == ASSUME NEW c \in Matched PROVE c \in Class(c)
<1>1. c.kind = "t" \/ c.kind = "T"
  BY DEF Matched, AnsweredCommands, SpeedCommands, FunctionCommands, AccessoryCommands
<1> QED BY <1>1 DEF Matched, Class, Answers

LEMMA IsReplyTo ==
  ASSUME NEW c, NEW m
  PROVE  /\ m \in RepliesTo(c) => m.kind = "reply" /\ m.to \in Class(c)
         /\ m \in Replies => (m \in RepliesTo(c) <=> m.to \in Class(c))
BY DEF RepliesTo, Replies

(* A command that is sent brings at most one reply, of its own class.        *)
LEMMA SendUnderWay ==
  ASSUME TypeOK, NEW v \in QueuedCommands \cup PowerCommands, sendCommand(v), NEW c
  PROVE  UnderWay(c)' <= UnderWay(c) + One(v, Class(c))
<1>1. Reply(v) = <<>> \/ \E m \in Messages : Reply(v) = <<m>> /\ One(m, RepliesTo(c)) <= One(v, Class(c))
  <2>1. CASE v.kind \in {"power", "s"}
    <3>1. PICK text \in {"p0", "p1", "i"} : Reply(v) = <<Signal(text)>>
      BY <2>1 DEF Reply
    <3>2. Signal(text) \in Messages /\ Signal(text) \notin RepliesTo(c)
      BY DEF Messages, RepliesTo, Signal
    <3>3. One(Signal(text), RepliesTo(c)) <= One(v, Class(c))
      BY <3>2 DEF One
    <3> QED BY <3>1, <3>2, <3>3
  <2>2. CASE v.kind \notin {"power", "s"} /\ Reply(v) # <<>>
    <3> DEFINE m == [kind |-> "reply", to |-> v]
    <3>1. Reply(v) = <<m>>
      BY <2>2 DEF Reply
    <3>3. m \in RepliesTo(c) => v \in Class(c)
      BY IsReplyTo
    <3> HIDE DEF m, Messages
    <3>5. <<m>> # <<>> /\ <<m>>[1] = m
      OBVIOUS
    <3>2. m \in Messages
      BY <3>1, <3>5, ReplyType
    <3>4. One(m, RepliesTo(c)) <= One(v, Class(c))
      BY <3>3 DEF One
    <3> QED BY <3>1, <3>2, <3>4
  <2> QED BY <2>1, <2>2
<1>2. /\ Count(cmdToParse, RepliesTo(c)) \in Nat /\ Count(line, RepliesTo(c)) \in Nat
      /\ One(v, Class(c)) \in {0, 1} /\ IsNodeList(cmdToParse, Messages) /\ line \in Seq(Messages)
  BY CountsAreNat DEF One, TypeOK, QueuesOK, StationOK
<1>3. CASE Reply(v) = <<>>
  <2>1. line' = line /\ cmdToParse' = cmdToParse
    <3>1. line \o <<>> = line
      <4> HIDE DEF Messages
      <4> QED BY <1>2
    <3> QED BY <1>3, <3>1 DEF sendCommand
  <2> QED BY <1>2, <2>1 DEF UnderWay, RepliesTo
<1>4. ASSUME NEW m \in Messages, Reply(v) = <<m>>, One(m, RepliesTo(c)) <= One(v, Class(c))
      PROVE  UnderWay(c)' <= UnderWay(c) + One(v, Class(c))
  <2>0. One(m, RepliesTo(c)) \in {0, 1} /\ Reply(v) # <<>> /\ Reply(v)[1] = m
    BY <1>4 DEF One
  <2>1. CASE mode = "emulation"
    <3>1. line' = line /\ cmdToParse' = PushBack(cmdToParse, m)
      BY <2>0, <2>1 DEF sendCommand
    <3>2. Count(cmdToParse', RepliesTo(c)) = Count(cmdToParse, RepliesTo(c)) + One(m, RepliesTo(c))
      BY <1>2, <3>1, PushBackCount
    <3> QED BY <1>2, <1>4, <2>0, <3>1, <3>2 DEF UnderWay
  <2>2. CASE mode # "emulation"
    <3>1. line' = Append(line, m) /\ cmdToParse' = cmdToParse
      <4>1. line \o <<m>> = Append(line, m)
        <5> HIDE DEF Messages
        <5> QED BY <1>2
      <4> QED BY <1>4, <2>2, <4>1 DEF sendCommand
    <3>2. Count(line', RepliesTo(c)) = Count(line, RepliesTo(c)) + One(m, RepliesTo(c))
      BY <1>2, <3>1, AppendCount
    <3> QED BY <1>2, <1>4, <2>0, <3>1, <3>2 DEF UnderWay
  <2> QED BY <2>1, <2>2
<1> QED BY <1>1, <1>3, <1>4

(* What the steps do to the counts: a command is saved and queued, or saved  *)
(* and sent past the queue, or a power command is sent; the loop thread      *)
(* sends, receives and parses.                                               *)
SavesAndQueues == \E v :
  /\ saveCmdWtRsp(v) /\ cmdToSend' = PushBack(cmdToSend, v)
  /\ UNCHANGED <<cmdToParse, line>>
SavesAndSends == \E v \in QueuedCommands :
  /\ saveCmdWtRsp(v) /\ sendCommand(v)
  /\ UNCHANGED cmdToSend
SwitchesPower ==
  /\ \E v \in PowerCommands : sendCommand(v)
  /\ cmdToSend' \in {cmdToSend, PushBack(cmdToSend, S88Command)}
  /\ UNCHANGED listOfCmdWaitingResp
TakesOther == (\E m : Take(m)) /\ UNCHANGED <<cmdToSend, listOfCmdWaitingResp, line>>
Still == UNCHANGED <<cmdToSend, cmdToParse, listOfCmdWaitingResp, line>>

LEMMA ReplyStepKinds ==
  ASSUME TypeOK, [Next]_vars
  PROVE  \/ Still \/ SavesAndQueues \/ SavesAndSends \/ SwitchesPower \/ checkCmdToSend
         \/ receiveMessage \/ TakesOther \/ parseReply \/ Station
<1>1. CASE SetSpeed \/ StopLoco \/ CommandStationStatusRequest \/ ResumeReturns \/ EmergencyStop
           \/ GetNextExpectedResponse \/ GetNextUnExpectedMessage \/ receiveReturns \/ parseNothing
           \/ ReleaseSteps \/ HoldSteps \/ loopRunsWild \/ Tick \/ UNCHANGED vars
  BY <1>1 DEF SetSpeed, StopLoco, setLocoSpeed, CommandStationStatusRequest, ResumeReturns,
     EmergencyStop, GetNextExpectedResponse, GetNextUnExpectedMessage, receiveReturns, parseNothing,
     ReleaseSteps, HoldSteps, releaseQueue, believePowerOn, loopEnds, reportPowerOff, holdQueue,
     believePowerOff, GoesOn, loopRunsWild, Tick, vars, Still, shared, queues, lists, stationVars
<1>2. CASE CommitSpeed
  BY <1>2 DEF CommitSpeed, Still, SavesAndQueues, stationVars
<1>3. CASE SetF0F4 \/ SetF5F8 \/ SetF9F12
  BY <1>3 DEF SetF0F4, SetF5F8, SetF9F12, setLocoFunction, SavesAndQueues, stationVars
<1>4. CASE SetAccessoryState
  BY <1>4 DEF SetAccessoryState, SavesAndQueues, stationVars
<1>5. CASE restartOneLoco
  BY <1>5 DEF restartOneLoco, SavesAndQueues, stationVars
<1>6. CASE PowerOff \/ ResumeOperations \/ EmergencyStopReturns
  <2>1. \A on \in BOOLEAN : PowerCommand(on) \in PowerCommands
    BY DEF PowerCommands
  <2> QED BY <1>6, <2>1 DEF PowerOff, ResumeOperations, EmergencyStopReturns, SwitchesPower, lists
<1>10. CASE CommandStationVersionRequest
  BY <1>10 DEF CommandStationVersionRequest, PowerCommands, SwitchesPower, lists
<1>7. CASE hostStopsOneLoco
  <2>1. hostIt \in DOMAIN listOfLocoInfos
    BY <1>7 DEF hostStopsOneLoco, end, TypeOK, HostOK, ListsOK
  <2> QED BY <1>7, <2>1, LocoCommandType
          DEF hostStopsOneLoco, stopLocoAt, SavesAndSends, QueuedCommands, AnsweredCommands
<1>8. CASE loopStopsOneLoco
  <2>1. loopIt \in DOMAIN listOfLocoInfos
    BY <1>8 DEF loopStopsOneLoco, end, TypeOK, LoopOK, ListsOK
  <2> QED BY <1>8, <2>1, LocoCommandType
          DEF loopStopsOneLoco, stopLocoAt, SavesAndSends, QueuedCommands, AnsweredCommands
<1>9. CASE parsePowerOn \/ parsePowerOff \/ parsePing \/ parseVersion
  BY <1>9 DEF parsePowerOn, parsePowerOff, parsePing, parseVersion, TakesOther, lists, stationVars
<1> QED BY <1>1, <1>2, <1>3, <1>4, <1>5, <1>6, <1>7, <1>8, <1>9, <1>10
        DEF Next, Host, Loop, ReleaseSteps, HoldSteps

(* Taking a message leaves no more replies, and one less of its own class.   *)
LEMMA TakeUnderWay ==
  ASSUME TypeOK, NEW m, Take(m), UNCHANGED line, NEW c
  PROVE  UnderWay(c)' + One(m, RepliesTo(c)) <= UnderWay(c)
<1>1. IsNodeList(cmdToParse, Messages) /\ m \in Values(cmdToParse)
  BY FrontIsValue DEF TypeOK, QueuesOK, Take
<1>2. Count(cmdToParse', RepliesTo(c)) + One(m, RepliesTo(c)) <= Count(cmdToParse, RepliesTo(c))
  BY <1>1, RemoveEqualCount DEF Take
<1>3. /\ Count(cmdToParse', RepliesTo(c)) \in Nat /\ Count(cmdToParse, RepliesTo(c)) \in Nat
      /\ Count(line, RepliesTo(c)) \in Nat /\ One(m, RepliesTo(c)) \in {0, 1}
  <2>1. IsNodeList(cmdToParse', Messages)
    BY TakeType
  <2> QED BY <1>1, <2>1, CountType, CountsAreNat DEF One
<1>4. UnderWay(c)' = Count(cmdToParse', RepliesTo(c)) + Count(line, RepliesTo(c))
  BY DEF UnderWay, RepliesTo
<1> QED BY <1>2, <1>3, <1>4 DEF UnderWay

(* A reply that is looked at strikes out an entry of its class, any other    *)
(* reply at most one of no class.                                            *)
LEMMA ReplyStrikesOut ==
  ASSUME TypeOK, parseReply, NEW c \in Matched,
         Front(cmdToParse) \in RepliesTo(c) /\ IsParsed(Front(cmdToParse).to) => Awaited(c) > 0
  PROVE  LET m == Front(cmdToParse)
         IN  /\ m \in Replies
             /\ Awaited(c)' + One(m, RepliesTo(c)) >= Awaited(c)
             /\ m \in RepliesTo(c) /\ IsParsed(m.to) => Awaited(c)' # Awaited(c)
<1> DEFINE m == Front(cmdToParse)
           entries == IF IsParsed(m.to) THEN Candidates(m.to) ELSE {}
           list == listOfCmdWaitingResp
<1>1. m \in Replies
  <2>1. m \in Messages /\ m.kind = "reply"
    BY TakeType DEF parseReply
  <2> QED BY <2>1 DEF Messages, Signal
<1>2. /\ IsNodeList(list, AnsweredCommands) /\ Awaited(c) \in Nat /\ One(m, RepliesTo(c)) \in {0, 1}
      /\ m.to \in AnsweredCommands
  BY <1>1, CountsAreNat DEF TypeOK, ListsOK, One, Replies
<1>3. PICK found \in (IF m.to.kind = "f" THEN SUBSET entries ELSE {entries}) :
             list' = IF found = {} THEN list ELSE Erase(list, First(found))
  BY DEF parseReply
<1>4. found \subseteq Candidates(m.to) /\ (m.to.kind # "f" => found = entries)
  BY <1>3
<1>5. m \in RepliesTo(c) <=> m.to \in Class(c)
  BY <1>1, IsReplyTo
<1>6. m.to \in Class(c) => /\ m.to.kind # "f" /\ Candidates(m.to) = In(list, Class(c))
  <2> SUFFICES ASSUME m.to \in Class(c) PROVE m.to.kind # "f" /\ Candidates(m.to) = In(list, Class(c))
    OBVIOUS
  <2>1. m.to \in Matched /\ Class(m.to) = Class(c)
    BY SameClass
  <2>2. Candidates(m.to) = In(list, Class(m.to))
    BY <1>2 DEF Candidates, In, Class, IsNodeList
  <2> QED BY <2>1, <2>2 DEF Matched
<1>7. CASE found = {}
  <2>1. Awaited(c)' = Awaited(c)
    BY <1>3, <1>7 DEF Awaited, Class
  <2>2. ~(m \in RepliesTo(c) /\ IsParsed(m.to))
    <3> SUFFICES ASSUME m \in RepliesTo(c), IsParsed(m.to) PROVE FALSE
      OBVIOUS
    <3>1. In(list, Class(c)) = {}
      BY <1>4, <1>5, <1>6, <1>7
    <3>2. Awaited(c) = 0
      BY <3>1, FS_EmptySet DEF Awaited, Count
    <3> QED BY <3>2
  <2> QED BY <1>1, <1>2, <2>1, <2>2
<1>8. CASE found # {}
  <2> DEFINE k == First(found)
  <2>1. k \in found /\ k \in DOMAIN list
    BY <1>2, <1>4, <1>8, FirstIsLeast DEF Candidates, IsNodeList
  <2>2. Answers(list[k], m.to) /\ list[k] \in AnsweredCommands
    BY <1>2, <1>4, <2>1 DEF Candidates, IsNodeList
  <2>3. Awaited(c)' + One(list[k], Class(c)) = Awaited(c)
    BY <1>2, <1>3, <1>8, <2>1, EraseCount DEF Awaited, Class
  <2>4. m.to \in Class(c) <=> list[k] \in Class(c)
    <3>1. CASE m.to.kind = "f"
      BY <1>2, <2>2, <3>1 DEF Class, Matched, Answers
    <3>2. CASE m.to.kind # "f"
      <4>1. m.to \in Matched /\ list[k] \in Class(m.to)
        BY <1>2, <2>2, <3>2 DEF Matched, Class
      <4>2. m.to \in Class(c) => list[k] \in Class(c)
        BY <4>1, SameClass
      <4>3. list[k] \in Class(c) => m.to \in Class(c)
        BY <4>1, SameClass, OwnClass
      <4> QED BY <4>2, <4>3
    <3> QED BY <3>1, <3>2
  <2>5. One(list[k], Class(c)) = One(m, RepliesTo(c))
    BY <1>5, <2>4 DEF One
  <2>6. Awaited(c)' \in Nat
    <3>1. IsNodeList(Erase(list, k), AnsweredCommands)
      BY <1>2, EraseIsNodeList
    <3> QED BY <1>3, <1>8, <3>1, CountType DEF Awaited
  <2> QED BY <1>1, <1>2, <2>3, <2>5, <2>6 DEF One
<1> QED BY <1>7, <1>8

(* A reply under way is awaited.                                             *)
LEMMA ReplyIsAwaited ==
  ASSUME TypeOK, AllAwaited, ~IsEmpty(cmdToParse), NEW c \in Matched, Front(cmdToParse) \in RepliesTo(c)
  PROVE  Awaited(c) > 0
<1>1. IsNodeList(cmdToParse, Messages)
  BY DEF TypeOK, QueuesOK
<1>2. First(DOMAIN cmdToParse) \in In(cmdToParse, RepliesTo(c))
  BY <1>1, FirstIsLeast DEF IsNodeList, IsEmpty, Front, In
<1>3. Count(cmdToParse, RepliesTo(c)) # 0
  BY <1>1, <1>2, CountType, FS_EmptySet DEF Count
<1> QED BY <1>3, CountsAreNat DEF AllAwaited, UnderWay

LEMMA AllAwaitedInit == Init => AllAwaited
<1> SUFFICES ASSUME Init, NEW c \in Matched PROVE Queued(c) + UnderWay(c) <= Awaited(c)
  BY DEF AllAwaited
<1>1. In(line, RepliesTo(c)) = {}
  BY DEF Init, In
<1>2. Count(line, RepliesTo(c)) = 0
  BY <1>1, FS_EmptySet DEF Count
<1> QED BY <1>2, CountEmpty DEF Init, Queued, UnderWay, Awaited

LEMMA AllAwaitedStep == TypeOK /\ AllAwaited /\ [Next]_vars => AllAwaited'
<1> SUFFICES ASSUME TypeOK, AllAwaited, [Next]_vars, NEW c \in Matched
             PROVE  Queued(c)' + UnderWay(c)' <= Awaited(c)'
  BY DEF AllAwaited, Matched
<1>1. /\ Queued(c) \in Nat /\ UnderWay(c) \in Nat /\ Awaited(c) \in Nat
      /\ Queued(c) + UnderWay(c) <= Awaited(c)
      /\ IsNodeList(cmdToSend, QueuedCommands) /\ IsNodeList(listOfCmdWaitingResp, AnsweredCommands)
  BY CountsAreNat DEF AllAwaited, TypeOK, QueuesOK, ListsOK
<1>2. /\ Queued(c)' \in Nat /\ UnderWay(c)' \in Nat /\ Awaited(c)' \in Nat
  <2>1. TypeOK'
    BY TypeStep
  <2> QED BY <2>1, CountType, LineCountType
          DEF TypeOK, QueuesOK, ListsOK, StationOK, Queued, UnderWay, Awaited
<1>3. \A v : One(v, Class(c)) \in {0, 1} /\ One(v, RepliesTo(c)) \in {0, 1}
  BY DEF One
<1>4. UNCHANGED cmdToSend => Queued(c)' = Queued(c)
  BY DEF Queued, Class
<1>5. UNCHANGED listOfCmdWaitingResp => Awaited(c)' = Awaited(c)
  BY DEF Awaited, Class
<1>6. UNCHANGED <<cmdToParse, line>> => UnderWay(c)' = UnderWay(c)
  BY DEF UnderWay, RepliesTo
<1>7. \A v : cmdToSend' = PushBack(cmdToSend, v) => Queued(c)' = Queued(c) + One(v, Class(c))
  BY <1>1, PushBackCount DEF Queued, Class
<1>8. \A v : saveCmdWtRsp(v) => Awaited(c)' = Awaited(c) + One(v, Class(c))
  BY <1>1, PushBackCount DEF Awaited, Class, saveCmdWtRsp
<1>9. CASE Still
  BY <1>1, <1>4, <1>5, <1>6, <1>9 DEF Still
<1>10. CASE SavesAndQueues
  BY <1>1, <1>3, <1>6, <1>7, <1>8, <1>10 DEF SavesAndQueues
<1>11. CASE SavesAndSends
  <2>1. PICK v \in QueuedCommands : saveCmdWtRsp(v) /\ sendCommand(v) /\ UNCHANGED cmdToSend
    BY <1>11 DEF SavesAndSends
  <2>2. UnderWay(c)' <= UnderWay(c) + One(v, Class(c))
    BY <2>1, SendUnderWay
  <2> QED BY <1>1, <1>2, <1>3, <1>4, <1>8, <2>1, <2>2
<1>12. CASE SwitchesPower
  <2>1. PICK v \in PowerCommands : sendCommand(v)
    BY <1>12 DEF SwitchesPower
  <2>2. One(v, Class(c)) = 0 /\ One(S88Command, Class(c)) = 0
    BY DEF One, Class, AnsweredCommands, SpeedCommands, FunctionCommands, AccessoryCommands,
           PowerCommands, PowerCommand, VersionCommand, S88Command
  <2>3. UnderWay(c)' <= UnderWay(c)
    BY <1>1, <1>2, <2>1, <2>2, SendUnderWay
  <2>4. Queued(c)' = Queued(c)
    BY <1>1, <1>4, <1>7, <1>12, <2>2 DEF SwitchesPower
  <2> QED BY <1>1, <1>2, <1>5, <1>12, <2>3, <2>4 DEF SwitchesPower
<1>13. CASE checkCmdToSend
  <2>1. CASE MaySend
    <3> DEFINE v == Front(cmdToSend)
    <3>1. cmdToSend' = RemoveEqual(cmdToSend, v) /\ sendCommand(v) /\ UNCHANGED listOfCmdWaitingResp
      BY <1>13, <2>1 DEF checkCmdToSend, lists
    <3>2. v \in QueuedCommands /\ v \in Values(cmdToSend)
      BY <1>1, <2>1, FrontIsValue DEF MaySend
    <3>3. Queued(c)' + One(v, Class(c)) <= Queued(c)
      BY <1>1, <3>1, <3>2, RemoveEqualCount DEF Queued, Class
    <3>4. UnderWay(c)' <= UnderWay(c) + One(v, Class(c))
      BY <3>1, <3>2, SendUnderWay
    <3> HIDE DEF v
    <3> QED BY <1>1, <1>2, <1>3, <1>5, <3>1, <3>3, <3>4
  <2>2. CASE ~MaySend
    BY <1>1, <1>4, <1>5, <1>6, <1>13, <2>2 DEF checkCmdToSend, queues, lists, stationVars
  <2> QED BY <2>1, <2>2
<1>14. CASE receiveMessage
  <2>1. /\ line # <<>> /\ cmdToParse' = PushBack(cmdToParse, Head(line)) /\ line' = Tail(line)
        /\ UNCHANGED <<cmdToSend, listOfCmdWaitingResp>>
    BY <1>14 DEF receiveMessage, lists
  <2>2. Count(cmdToParse', RepliesTo(c)) = Count(cmdToParse, RepliesTo(c)) + One(Head(line), RepliesTo(c))
    BY <2>1, PushBackCount DEF TypeOK, QueuesOK
  <2>3. Count(line', RepliesTo(c)) + One(Head(line), RepliesTo(c)) = Count(line, RepliesTo(c))
    BY <2>1, TailCount DEF TypeOK, StationOK
  <2>4. UnderWay(c)' = Count(cmdToParse', RepliesTo(c)) + Count(line', RepliesTo(c))
    BY DEF UnderWay, RepliesTo
  <2>5. /\ Count(line', RepliesTo(c)) \in Nat /\ Count(cmdToParse, RepliesTo(c)) \in Nat
        /\ Count(line, RepliesTo(c)) \in Nat
    <3>1. line' \in Seq(Messages)
      BY TypeStep DEF TypeOK, StationOK
    <3> QED BY <3>1, LineCountType, CountsAreNat
  <2>6. UnderWay(c)' = UnderWay(c)
    BY <1>3, <2>2, <2>3, <2>4, <2>5 DEF UnderWay
  <2> QED BY <1>1, <1>4, <1>5, <2>1, <2>6
<1>15. CASE TakesOther
  <2>1. PICK m : Take(m)
    BY <1>15 DEF TakesOther
  <2>2. UnderWay(c)' + One(m, RepliesTo(c)) <= UnderWay(c)
    BY <1>15, <2>1, TakeUnderWay DEF TakesOther
  <2> QED BY <1>1, <1>2, <1>3, <1>4, <1>5, <1>15, <2>2 DEF TakesOther
<1>16. CASE parseReply
  <2> DEFINE m == Front(cmdToParse)
  <2>1. Take(m) /\ UNCHANGED <<line, cmdToSend>> /\ ~IsEmpty(cmdToParse)
    BY <1>16 DEF parseReply, Take, stationVars
  <2>2. UnderWay(c)' + One(m, RepliesTo(c)) <= UnderWay(c)
    BY <2>1, TakeUnderWay
  <2>3. m \in RepliesTo(c) => Awaited(c) > 0
    BY <2>1, ReplyIsAwaited
  <2>4. Awaited(c)' + One(m, RepliesTo(c)) >= Awaited(c)
    BY <1>16, <2>3, ReplyStrikesOut
  <2> HIDE DEF m
  <2> QED BY <1>1, <1>2, <1>3, <1>4, <2>1, <2>2, <2>4
<1>17. CASE Station
  <2>1. UNCHANGED <<cmdToSend, cmdToParse, listOfCmdWaitingResp>>
    BY <1>17 DEF Station, shared, queues, lists
  <2>2. PICK m \in Messages : m \notin RepliesTo(c) /\ line' = Append(line, m)
    <3>1. \A text \in {"p0", "p1", "g1"} : Signal(text) \in Messages /\ Signal(text) \notin RepliesTo(c)
      BY DEF Messages, Signal, RepliesTo
    <3> QED BY <1>17, <3>1 DEF Station
  <2>3. Count(line', RepliesTo(c)) = Count(line, RepliesTo(c)) + One(m, RepliesTo(c))
    BY <2>2, AppendCount DEF TypeOK, StationOK
  <2>4. Count(line', RepliesTo(c)) = Count(line, RepliesTo(c))
    BY <2>2, <2>3, CountsAreNat DEF One
  <2>5. UnderWay(c)' = UnderWay(c)
    BY <2>1, <2>4 DEF UnderWay, RepliesTo
  <2> QED BY <1>1, <1>4, <1>5, <2>1, <2>5
<1> QED BY <1>9, <1>10, <1>11, <1>12, <1>13, <1>14, <1>15, <1>16, <1>17, ReplyStepKinds

(* A reply to a speed or accessory command that is looked at always finds    *)
(* the command it answers and strikes it out: over every link, whatever the  *)
(* two threads queue, merge and send past the queue meanwhile                *)
(* (handleLocoEvent, handleAccessoryEvent, checkCmdToSend).                  *)
THEOREM RepliesAreRecognised == Spec => RepliesRecognised
<1> DEFINE m == Front(cmdToParse)
           Recognised == parseReply /\ m.to.kind # "f" /\ IsParsed(m.to)
                           => listOfCmdWaitingResp' # listOfCmdWaitingResp
<1>1. TypeOK /\ AllAwaited /\ [Next]_vars => [Recognised]_vars
  <2> SUFFICES ASSUME TypeOK, AllAwaited, parseReply, m.to.kind # "f", IsParsed(m.to)
               PROVE  listOfCmdWaitingResp' # listOfCmdWaitingResp
    OBVIOUS
  <2>1. Take(m) /\ m.kind = "reply" /\ ~IsEmpty(cmdToParse)
    BY DEF parseReply, Take
  <2>2. m \in Messages
    BY <2>1, TakeType
  <2>3. m \in Replies
    <3> HIDE DEF m
    <3> QED BY <2>1, <2>2 DEF Messages, Signal
  <2>4. m.to \in Matched /\ m \in RepliesTo(m.to)
    BY <2>3, OwnClass, IsReplyTo DEF Matched, Replies
  <2>5. ASSUME NEW c \in Matched, m \in RepliesTo(c) PROVE listOfCmdWaitingResp' # listOfCmdWaitingResp
    <3>1. Awaited(c) > 0
      BY <2>1, <2>5, ReplyIsAwaited
    <3>2. Awaited(c)' # Awaited(c)
      BY <2>5, <3>1, ReplyStrikesOut
    <3> QED BY <3>2 DEF Awaited, Class
  <2> HIDE DEF m
  <2> QED BY <2>4, <2>5
<1>2. Spec => [][Recognised]_vars
  <2> HIDE DEF Recognised
  <2> QED BY <1>1, TypeInit, TypeStep, AllAwaitedInit, AllAwaitedStep, PTL DEF Spec
<1> QED BY <1>2 DEF RepliesRecognised
=============================================================================
