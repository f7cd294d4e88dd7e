------------------------------- MODULE Bridge -------------------------------
(* The driver between CDM-Rail and a DCC++ command station: the two threads  *)
(* that share its static variables, and the station at the other end.        *)
(*                                                                           *)
(*  - the host thread: CDM-Rail calls the DDGL_* functions (DDGI_DCCpp.cpp)  *)
(*    one after the other.  hostPc says how far the current call has come:   *)
(*    the power check of setLocoSpeed and the loops over the locomotives are *)
(*    steps of their own, since the other thread runs between them;          *)
(*  - the loop thread: DCCpp::loop receives, sends one queued command and    *)
(*    parses one message, over and over (loopPc);                            *)
(*  - the station: an external program.  It is modelled from the commands    *)
(*    the driver sends and the replies it expects (DCCpp_emul.cpp, parse).   *)
(*                                                                           *)
(* One access to a container or to a scalar the other thread uses is one     *)
(* step: the code takes no lock, and what torn accesses could do is not      *)
(* modelled.  How an event is filled in after its push is in Feedback and in *)
(* Detectors.                                                                *)
EXTENDS Integers, Sequences, NodeList, LocoFunctions

CONSTANTS
  Modes,         \* how the station may be reached: "usb", "wifi", "emulation"
  Ops,           \* the DDGL calls CDM-Rail makes
  Locos,         \* locomotive addresses
  Speeds,        \* speeds CDM-Rail asks for, negative ones included
  Directions,    \* values of the direction word of a request
  Accessories,   \* accessory addresses
  FunctionWords, \* function words F0..F12 CDM-Rail asks for
  Acknowledged,  \* the kinds of command the station answers, of "t", "f", "T"
  CmdTimer,      \* DCCpp::cmdTimer, in ticks
  WifiBurst,     \* bound: websocket messages dispatched by one poll
  MaxRequests,   \* bound: DDGL calls that change something
  MaxEvents      \* bound: messages the station sends of its own accord

AllOps == {"SetSpeed", "StopLoco", "SetF0F4", "SetF5F8", "SetF9F12", "SetAccessoryState",
           "ResumeOperations", "PowerOff", "EmergencyStop", "CommandStationStatusRequest",
           "CommandStationVersionRequest",
           "GetNextExpectedResponse", "GetNextUnExpectedMessage"}

ASSUME BridgeAssumption ==
  /\ Modes \subseteq {"usb", "wifi", "emulation"}
  /\ Ops \subseteq AllOps
  /\ Locos \subseteq Nat /\ Accessories \subseteq Nat
  /\ Speeds \subseteq Int /\ FunctionWords \subseteq Nat /\ Directions \subseteq Int
  /\ Acknowledged \subseteq {"t", "f", "T"}
  /\ CmdTimer \in Nat /\ WifiBurst \in Nat
  /\ MaxRequests \in Nat /\ MaxEvents \in Nat

VARIABLES
  mode,  \* usbMode and emulation, which a session does not change
  \* shared by the two threads
  powerOn, commandStationStatus, cmdToSend, cmdToParse, listOfLocoInfos,
  listOfCmdWaitingResp, listOfFeedbackMsg, listOfUnexpectedFbMsg,
  sinceLastCmd,  \* clock() - timeElapsedSinceLastCmd, up to CmdTimer + 1
  \* where each thread is
  hostPc, hostArgs, hostIt, loopPc, loopIt, itValid, received,
  \* the station: track power, the command in each of its registers, and what
  \* it has sent that the driver has not read
  trackPower, throttle, line,
  \* the bounds
  requests, events

power == <<powerOn, commandStationStatus>>
queues == <<cmdToSend, cmdToParse>>
lists == <<listOfLocoInfos, listOfCmdWaitingResp>>
feedback == <<listOfFeedbackMsg, listOfUnexpectedFbMsg>>
shared == <<power, queues, lists, feedback, sinceLastCmd>>
hostVars == <<hostPc, hostArgs, hostIt>>
loopVars == <<loopPc, loopIt, itValid, received>>
stationVars == <<trackPower, throttle, line>>
bounds == <<requests, events>>
vars == <<mode, shared, hostVars, loopVars, stationVars, bounds>>
-----------------------------------------------------------------------------
(* Commands: the strings buildCommand makes, by what they say.               *)
SpeedCommand(reg, addr, speed, dir) ==
  [kind |-> "t", reg |-> reg, addr |-> addr, speed |-> speed, dir |-> dir]
FunctionCommand(addr, value) == [kind |-> "f", addr |-> addr, value |-> value]
AccessoryCommand(addr, state) == [kind |-> "T", addr |-> addr, state |-> state]
S88Command == [kind |-> "Y"]
PowerCommand(on) == [kind |-> "power", on |-> on]
VersionCommand == [kind |-> "s"]

SpeedCommands == [kind : {"t"}, reg : Nat, addr : Locos, speed : Int, dir : {0, 1}]
FunctionCommands == [kind : {"f"}, addr : Locos, value : Int]
AccessoryCommands == [kind : {"T"}, addr : Accessories, state : {0, 1}]
AnsweredCommands == SpeedCommands \cup FunctionCommands \cup AccessoryCommands
QueuedCommands == AnsweredCommands \cup {S88Command}

(* Messages of the station: p0, p1, g1 and iDCC++..., and the replies        *)
(* <T r a s d>, <F0 a v -1> and <H a s>, which echo a command.               *)
Signal(text) == [kind |-> text]
Replies == [kind : {"reply"}, to : AnsweredCommands]
Messages == {Signal(text) : text \in {"p0", "p1", "g1", "i"}} \cup Replies

(* How many characters a number takes in a command. *)
Digits(n) == IF n < 0 THEN 2 ELSE
             IF n < 10 THEN 1 ELSE IF n < 100 THEN 2 ELSE IF n < 1000 THEN 3 ELSE
             IF n < 10000 THEN 4 ELSE 5

(* The reply to a command, as a sequence of at most one message.  The        *)
(* emulator leaves out the functions whose command is not longer than nine   *)
(* characters, "<f addr value>".                                             *)
Reply(c) ==
  IF c.kind = "power" THEN <<Signal(IF c.on THEN "p1" ELSE "p0")>>
  ELSE IF c.kind = "s" THEN <<Signal("i")>>
  ELSE IF c.kind \notin Acknowledged THEN <<>>
  ELSE IF mode = "emulation" /\ c.kind = "f" /\ Digits(c.addr) + Digits(c.value) + 5 <= 9 THEN <<>>
  ELSE <<[kind |-> "reply", to |-> c]>>

(* The station keeps one command per register. *)
Obey(c) ==
  /\ trackPower' = IF c.kind = "power" THEN c.on ELSE trackPower
  /\ throttle' =
       IF c.kind = "t"
       THEN [r \in DOMAIN throttle \cup {c.reg} |-> IF r = c.reg THEN c ELSE throttle[r]]
       ELSE throttle

(* sendCommand.  The emulator answers in the calling thread, straight into   *)
(* cmdToParse; a station answers on the line.                                *)
sendCommand(c) ==
  /\ Obey(c)
  /\ IF mode = "emulation"
     THEN /\ cmdToParse' = IF Reply(c) = <<>> THEN cmdToParse ELSE PushBack(cmdToParse, Reply(c)[1])
          /\ UNCHANGED line
     ELSE /\ line' = line \o Reply(c)
          /\ UNCHANGED cmdToParse
-----------------------------------------------------------------------------
(* The lists.                                                                *)
LocoInfos == [address : Locos, speed : Nat, direction : {0, 1}, functions : Int,
              emergencyStopped : BOOLEAN]

getLocoInfosIndex(address) ==
  IF \E i \in DOMAIN listOfLocoInfos : listOfLocoInfos[i].address = address
  THEN CHOOSE i \in DOMAIN listOfLocoInfos :
         /\ listOfLocoInfos[i].address = address
         /\ \A j \in 1..(i - 1) : listOfLocoInfos[j].address # address
  ELSE 0

(* push_back reallocates when size equals capacity, and the capacity of a    *)
(* vector that only grows by push_back doubles from 1.                       *)
AtCapacity == \/ listOfLocoInfos = <<>>
              \/ \E k \in 0..Len(listOfLocoInfos) : Len(listOfLocoInfos) = 2 ^ k

(* saveLocoInfos.  Without the functions argument the stored functions       *)
(* become -1.  A reallocation leaves an iterator over the old block dangling.*)
saveLocoInfos(index, address, speed, direction, functions) ==
  IF index = 0
  THEN /\ listOfLocoInfos' = Append(listOfLocoInfos,
            [address |-> address, speed |-> speed, direction |-> direction,
             functions |-> functions, emergencyStopped |-> FALSE])
       /\ itValid' = (itValid /\ ~(loopPc = "stopping" /\ AtCapacity))
  ELSE /\ listOfLocoInfos' = [listOfLocoInfos EXCEPT ![index] =
            [@ EXCEPT !.address = address, !.speed = speed, !.direction = direction,
                      !.functions = functions]]
       /\ UNCHANGED itValid

(* it != end(), of a loop over the locomotives: end() is read at every turn. *)
endOneShort == Len(listOfLocoInfos)
end == Len(listOfLocoInfos) + 1

RegisterOfSize(index) == IF index = 0 THEN Len(listOfLocoInfos) ELSE index
Register(index) == IF index = 0 THEN Len(listOfLocoInfos) + 1 ELSE index

(* saveCmdWtRsp: the reply a command waits for is known by its kind.         *)
saveCmdWtRsp(c) == listOfCmdWaitingResp' = PushBack(listOfCmdWaitingResp, c)

(* findCmdWtRsp with the argument ranges of handleLocoEvent (arguments 1..2) *)
(* and handleAccessoryEvent (0..1): the entries a reply may be matched with. *)
(* The reply to a function command, <F0 addr value -1>, carries a leading 0, *)
(* so its address meets the saved value and its value an argument the code   *)
(* never wrote.                                                              *)
Answers(entry, c) ==
  /\ entry.kind = c.kind
  /\ CASE c.kind = "t" -> entry.addr = c.addr /\ entry.speed = c.speed
       [] c.kind = "f" -> entry.value = c.addr
       [] c.kind = "T" -> entry = c

Candidates(c) == {k \in DOMAIN listOfCmdWaitingResp : Answers(listOfCmdWaitingResp[k], c)}

(* Feedback to CDM-Rail: the answer to a call carries the tag of the call    *)
(* (request), the code of the answer and, for the status, one word of data.  *)
Feedback(request, code, data) == [request |-> request, nRdCommand |-> code, hData |-> data]
FeedbackCodes == {"RCV_NORMAL_OPER_RESUMED", "RCV_TRACK_POWER_OFF", "RCV_EMERGENCY_STOP",
                  "RCV_CMDSTATION_STATUS", "RCV_ACCESSORY_INFO"}
Feedbacks == [request : AllOps, nRdCommand : FeedbackCodes, hData : Nat]

(* handleStandaloneCommands on the message saveFeedbackMsg has just pushed.  *)
(* The case of CMD_POWER_OFF has no break and ends as CMD_EMERGENCY_STOP.    *)
handleStandaloneCommands(request) ==
  listOfFeedbackMsg' = Append(listOfFeedbackMsg,
    CASE request = "ResumeOperations" -> Feedback(request, "RCV_NORMAL_OPER_RESUMED", 0)
      [] request = "PowerOff"         -> Feedback(request, "RCV_EMERGENCY_STOP", 0)
      [] request = "EmergencyStop"    -> Feedback(request, "RCV_EMERGENCY_STOP", 0)
      [] request = "SetAccessoryState" -> Feedback(request, "RCV_ACCESSORY_INFO", 0)
      [] request = "CommandStationStatusRequest" ->
           Feedback(request, "RCV_CMDSTATION_STATUS", commandStationStatus))

SpeedArgs == [address : Locos, speed : Nat, direction : {0, 1}]
NoArgs == [none |-> TRUE]

PowerOK == powerOn \in BOOLEAN /\ commandStationStatus \in Nat
QueuesOK == IsNodeList(cmdToSend, QueuedCommands) /\ IsNodeList(cmdToParse, Messages)
ListsOK == /\ listOfLocoInfos \in Seq(LocoInfos)
           /\ IsNodeList(listOfCmdWaitingResp, AnsweredCommands)
FeedbackOK == /\ listOfFeedbackMsg \in Seq(Feedbacks)
              /\ listOfUnexpectedFbMsg \in Seq({"RCV_TRACK_POWER_OFF"})
HostOK == /\ hostPc \in {"idle", "speed", "emergency", "restart", "crashed"}
          /\ hostArgs \in SpeedArgs \cup {NoArgs} /\ (hostPc = "speed" => hostArgs \in SpeedArgs)
          /\ hostIt \in Nat \ {0}
LoopOK == /\ loopPc \in {"receive", "send", "parse", "stopping", "reporting", "raising", "lowering",
                         "releasing", "powering", "crashed"}
          /\ loopIt \in Nat \ {0} /\ itValid \in BOOLEAN /\ received \in Nat
StationOK == /\ trackPower \in BOOLEAN
             /\ DOMAIN throttle \subseteq Nat /\ throttle \in [DOMAIN throttle -> SpeedCommands]
             /\ line \in Seq(Messages)
BoundsOK == requests \in 0..MaxRequests /\ events \in 0..MaxEvents

TypeOK ==
  /\ mode \in Modes /\ PowerOK /\ QueuesOK /\ ListsOK /\ FeedbackOK /\ sinceLastCmd \in 0..(CmdTimer + 1)
  /\ HostOK /\ LoopOK /\ StationOK /\ BoundsOK

(* commandStationStatus is zero-initialised, powerOn is set by start(); the  *)
(* track is off when the station boots.                                      *)
Init ==
  /\ mode \in Modes
  /\ powerOn = FALSE /\ commandStationStatus = 0
  /\ cmdToSend = Empty /\ cmdToParse = Empty
  /\ listOfLocoInfos = <<>> /\ listOfCmdWaitingResp = Empty
  /\ listOfFeedbackMsg = <<>> /\ listOfUnexpectedFbMsg = <<>>
  /\ sinceLastCmd = 0
  /\ hostPc = "idle" /\ hostArgs = NoArgs /\ hostIt = 1
  /\ loopPc = "receive" /\ loopIt = 1 /\ itValid = TRUE /\ received = 0
  /\ trackPower = FALSE /\ throttle = Empty /\ line = <<>>
  /\ requests = 0 /\ events = 0
-----------------------------------------------------------------------------
(* The host thread.                                                          *)
Call(op) ==
  /\ op \in Ops /\ hostPc = "idle" /\ requests < MaxRequests
  /\ requests' = requests + 1 /\ UNCHANGED events

(* What a call leaves alone when it ends in the step it began.               *)
ReturnsAtOnce == UNCHANGED <<hostVars, loopPc, loopIt, received>>

signed(n) == n
abs(n) == IF n < 0 THEN -n ELSE n

(* setLocoSpeed, up to the test of powerOn: without power the call is over.  *)
setLocoSpeed(address, speed, direction) ==
  /\ IF powerOn
     THEN /\ hostPc' = "speed"
          /\ hostArgs' = [address |-> address, speed |-> abs(speed),
                          direction |-> IF direction # 0 THEN 1 ELSE 0]
     ELSE UNCHANGED <<hostPc, hostArgs>>
  /\ UNCHANGED <<shared, hostIt, loopVars, stationVars>>

SetSpeed == \E a \in Locos, s \in Speeds, d \in Directions :
              Call("SetSpeed") /\ setLocoSpeed(a, s, d)

StopLoco == \E a \in Locos, d \in Directions : Call("StopLoco") /\ setLocoSpeed(a, 0, d)

(* setLocoSpeed, after the test of powerOn: a known locomotive whose speed   *)
(* and direction are unchanged is left alone, any other is saved, which      *)
(* forgets its functions, and its command queued.                            *)
CommitSpeed ==
  /\ hostPc = "speed" /\ hostPc' = "idle" /\ hostArgs' = NoArgs
  /\ LET a == hostArgs.address
         s == hostArgs.speed
         d == hostArgs.direction
         i == getLocoInfosIndex(a)
         c == SpeedCommand(Register(i), a, s, d)
     IN  IF i # 0 /\ listOfLocoInfos[i].speed = s /\ listOfLocoInfos[i].direction = d
         THEN UNCHANGED <<listOfLocoInfos, itValid, listOfCmdWaitingResp,
                          cmdToSend>>
         ELSE /\ saveLocoInfos(i, a, s, d, -1)
              /\ saveCmdWtRsp(c)
              /\ cmdToSend' = PushBack(cmdToSend, c)
  /\ UNCHANGED <<power, cmdToParse, feedback, sinceLastCmd, hostIt, loopPc,
                 loopIt, received, stationVars, bounds>>

(* setLocoFunction.  There is no test of powerOn; functions that are not     *)
(* known (-1) are replaced by "all off" whatever the request says.           *)
setLocoFunction(address, word, mask) ==
  LET i == getLocoInfosIndex(address)
      known == i # 0 /\ listOfLocoInfos[i].functions # -1
      value == getLocoFuncValue(IF known THEN word ELSE 0, mask)
      c == FunctionCommand(address, value)
  IN  /\ IF i = 0
         THEN saveLocoInfos(0, address, 0, 1, value)
         ELSE saveLocoInfos(i, address, listOfLocoInfos[i].speed, listOfLocoInfos[i].direction, value)
      /\ saveCmdWtRsp(c)
      /\ cmdToSend' = PushBack(cmdToSend, c)
      /\ ReturnsAtOnce
      /\ UNCHANGED <<power, cmdToParse, feedback, sinceLastCmd, stationVars>>

SetF0F4 == \E a \in Locos, w \in FunctionWords :
             Call("SetF0F4") /\ setLocoFunction(a, w, MaskF0F4)
SetF5F8 == \E a \in Locos, w \in FunctionWords :
             Call("SetF5F8") /\ setLocoFunction(a, w, MaskF5F8)
SetF9F12 == \E a \in Locos, w \in FunctionWords :
             Call("SetF9F12") /\ setLocoFunction(a, w, MaskF9F12)

SetAccessoryState == \E a \in Accessories, s \in {0, 1} :
  LET c == AccessoryCommand(a, s)
  IN  /\ Call("SetAccessoryState")
      /\ saveCmdWtRsp(c)
      /\ cmdToSend' = PushBack(cmdToSend, c)
      /\ handleStandaloneCommands("SetAccessoryState")
      /\ ReturnsAtOnce
      /\ UNCHANGED <<power, cmdToParse, listOfLocoInfos,
                     listOfUnexpectedFbMsg, sinceLastCmd, itValid,
                     stationVars>>

CommandStationStatusRequest ==
  /\ Call("CommandStationStatusRequest")
  /\ handleStandaloneCommands("CommandStationStatusRequest")
  /\ ReturnsAtOnce
  /\ UNCHANGED <<power, queues, lists, listOfUnexpectedFbMsg, sinceLastCmd,
                 itValid, stationVars>>

(* The version is asked for past the queue, and the call has no answer.      *)
CommandStationVersionRequest ==
  /\ Call("CommandStationVersionRequest")
  /\ sendCommand(VersionCommand)
  /\ ReturnsAtOnce
  /\ UNCHANGED <<power, cmdToSend, lists, feedback, sinceLastCmd, itValid>>

PowerOff ==
  /\ Call("PowerOff")
  /\ sendCommand(PowerCommand(FALSE))
  /\ handleStandaloneCommands("PowerOff")
  /\ ReturnsAtOnce
  /\ UNCHANGED <<power, cmdToSend, lists, listOfUnexpectedFbMsg,
                 sinceLastCmd, itValid>>

(* Resume: power on at once and the S88 command queued; after a sleep of one *)
(* second, during which the loop thread runs, the speed of every locomotive  *)
(* is queued again and the call is answered.                                 *)
ResumeOperations ==
  /\ Call("ResumeOperations")
  /\ sendCommand(PowerCommand(TRUE))
  /\ cmdToSend' = PushBack(cmdToSend, S88Command)
  /\ hostPc' = "restart" /\ hostIt' = 1 /\ UNCHANGED hostArgs
  /\ UNCHANGED <<power, lists, feedback, sinceLastCmd, loopVars>>

restartOneLoco ==
  /\ hostPc = "restart" /\ hostIt < end
  /\ LET loco == listOfLocoInfos[hostIt]
         c == SpeedCommand(hostIt, loco.address, loco.speed, loco.direction)
     IN  saveCmdWtRsp(c) /\ cmdToSend' = PushBack(cmdToSend, c)
  /\ listOfLocoInfos' = [listOfLocoInfos EXCEPT ![hostIt] = [@ EXCEPT !.emergencyStopped = FALSE]]
  /\ hostIt' = hostIt + 1
  /\ UNCHANGED <<power, cmdToParse, feedback, sinceLastCmd, hostPc, hostArgs,
                 loopVars, stationVars, bounds>>

ResumeReturns ==
  /\ hostPc = "restart" /\ hostIt >= end
  /\ handleStandaloneCommands("ResumeOperations")
  /\ hostPc' = "idle" /\ hostIt' = 1 /\ UNCHANGED hostArgs
  /\ UNCHANGED <<power, queues, lists, listOfUnexpectedFbMsg, sinceLastCmd,
                 loopVars, stationVars, bounds>>

(* One turn of emergencyStopAllLocos, in either thread: the locomotive at    *)
(* index i is stopped past the queue.                                        *)
stopLocoAt(i) ==
  LET loco == listOfLocoInfos[i]
      c == SpeedCommand(i, loco.address, -1, loco.direction)
  IN  /\ saveCmdWtRsp(c)
      /\ sendCommand(c)
      /\ listOfLocoInfos' = [listOfLocoInfos EXCEPT ![i] = [@ EXCEPT !.emergencyStopped = TRUE]]

EmergencyStop ==
  /\ Call("EmergencyStop")
  /\ hostPc' = "emergency" /\ hostIt' = 1 /\ UNCHANGED hostArgs
  /\ UNCHANGED <<shared, loopVars, stationVars>>

hostStopsOneLoco ==
  /\ hostPc = "emergency" /\ hostIt < end
  /\ stopLocoAt(hostIt) /\ hostIt' = hostIt + 1
  /\ UNCHANGED <<power, cmdToSend, feedback, sinceLastCmd, hostPc, hostArgs,
                 loopVars, bounds>>

EmergencyStopReturns ==
  /\ hostPc = "emergency" /\ hostIt >= end
  /\ sendCommand(PowerCommand(FALSE))
  /\ handleStandaloneCommands("EmergencyStop")
  /\ hostPc' = "idle" /\ hostIt' = 1 /\ UNCHANGED hostArgs
  /\ UNCHANGED <<power, cmdToSend, lists, listOfUnexpectedFbMsg,
                 sinceLastCmd, loopVars, bounds>>

(* CDM-Rail polls for feedback between its calls.                            *)
GetNextExpectedResponse ==
  /\ "GetNextExpectedResponse" \in Ops /\ hostPc = "idle" /\ listOfFeedbackMsg # <<>>
  /\ listOfFeedbackMsg' = Tail(listOfFeedbackMsg)
  /\ UNCHANGED <<power, queues, lists, listOfUnexpectedFbMsg, sinceLastCmd,
                 hostVars, loopVars, stationVars, bounds>>

GetNextUnExpectedMessage ==
  /\ "GetNextUnExpectedMessage" \in Ops /\ hostPc = "idle" /\ listOfUnexpectedFbMsg # <<>>
  /\ listOfUnexpectedFbMsg' = Tail(listOfUnexpectedFbMsg)
  /\ UNCHANGED <<power, queues, lists, listOfFeedbackMsg, sinceLastCmd,
                 hostVars, loopVars, stationVars, bounds>>

Host ==
  \/ SetSpeed \/ StopLoco \/ CommitSpeed
  \/ SetF0F4 \/ SetF5F8 \/ SetF9F12 \/ SetAccessoryState
  \/ CommandStationStatusRequest \/ CommandStationVersionRequest \/ PowerOff
  \/ ResumeOperations \/ restartOneLoco \/ ResumeReturns
  \/ EmergencyStop \/ hostStopsOneLoco \/ EmergencyStopReturns
  \/ GetNextExpectedResponse \/ GetNextUnExpectedMessage
-----------------------------------------------------------------------------
(* The loop thread.                                                          *)
BurstOfAllModes == IF mode = "emulation" THEN 0 ELSE 3
Burst == CASE mode = "usb" -> 1 [] mode = "wifi" -> WifiBurst [] mode = "emulation" -> 0

(* waitSerialCommand takes at most one message, poll and dispatch all that   *)
(* have arrived, the emulator has nothing to receive.                        *)
receiveMessage ==
  /\ loopPc = "receive" /\ received < Burst /\ line # <<>>
  /\ cmdToParse' = PushBack(cmdToParse, Head(line)) /\ line' = Tail(line)
  /\ received' = received + 1
  /\ UNCHANGED <<power, cmdToSend, lists, feedback, sinceLastCmd, hostVars,
                 loopPc, loopIt, itValid, trackPower, throttle, bounds>>

receiveReturns ==
  /\ loopPc = "receive" /\ loopPc' = "send" /\ received' = 0
  /\ UNCHANGED <<shared, hostVars, loopIt, itValid, stationVars, bounds>>

(* checkCmdToSend: the head of the queue goes out when nothing holds the     *)
(* queue and the timer has run out, and with it every equal command.         *)
MaySendThoughHeld == ~IsEmpty(cmdToSend) /\ sinceLastCmd > CmdTimer
MaySendWhenPowered == ~IsEmpty(cmdToSend) /\ powerOn /\ sinceLastCmd > CmdTimer
MaySend == ~IsEmpty(cmdToSend) /\ commandStationStatus = 0 /\ sinceLastCmd > CmdTimer

checkCmdToSend ==
  /\ loopPc = "send" /\ loopPc' = "parse"
  /\ IF MaySend
     THEN LET command == Front(cmdToSend)
          IN  /\ cmdToSend' = RemoveEqual(cmdToSend, command)
              /\ sendCommand(command)
              /\ sinceLastCmd' = 0
     ELSE UNCHANGED <<queues, stationVars, sinceLastCmd>>
  /\ UNCHANGED <<power, lists, feedback, hostVars, loopIt, itValid, received,
                 bounds>>

(* parse: one message, and with it every equal one, leaves cmdToParse.       *)
Take(command) ==
  /\ loopPc = "parse" /\ ~IsEmpty(cmdToParse) /\ command = Front(cmdToParse)
  /\ cmdToParse' = RemoveEqual(cmdToParse, command)

parseNothing ==
  /\ loopPc = "parse" /\ IsEmpty(cmdToParse) /\ loopPc' = "receive"
  /\ UNCHANGED <<shared, hostVars, loopIt, itValid, received, stationVars,
                 bounds>>

(* A step of the loop thread that does nothing but go on to its next place.  *)
GoesOn(from, to) ==
  /\ loopPc = from /\ loopPc' = to
  /\ UNCHANGED <<queues, lists, listOfFeedbackMsg, sinceLastCmd, hostVars, itValid,
                 received, stationVars, bounds>>

(* handleCommandStationStatus(1): the queue is released, then the power is   *)
(* believed to be on.                                                        *)
parsePowerOn ==
  /\ Take(Signal("p1")) /\ loopPc' = "releasing"
  /\ UNCHANGED <<power, cmdToSend, lists, feedback, sinceLastCmd, hostVars,
                 loopIt, itValid, received, stationVars, bounds>>

releaseQueueStatusKept ==
  /\ GoesOn("releasing", "powering")
  /\ UNCHANGED <<power, listOfUnexpectedFbMsg, loopIt>>
releaseQueue ==
  /\ GoesOn("releasing", "powering") /\ commandStationStatus' = 0
  /\ UNCHANGED <<powerOn, listOfUnexpectedFbMsg, loopIt>>

believePowerOn ==
  /\ GoesOn("powering", "receive") /\ powerOn' = TRUE
  /\ UNCHANGED <<commandStationStatus, listOfUnexpectedFbMsg, loopIt>>

(* handleCommandStationStatus(-1): when the power was on, the loop over the  *)
(* locomotives begins.                                                       *)
EveryPowerLoss == TRUE
NewPowerLoss == powerOn
parsePowerOff ==
  /\ Take(Signal("p0"))
  /\ IF NewPowerLoss
     THEN loopPc' = "stopping" /\ loopIt' = 1 /\ itValid' = TRUE
     ELSE loopPc' = "receive" /\ UNCHANGED <<loopIt, itValid>>
  /\ UNCHANGED <<power, cmdToSend, lists, feedback, sinceLastCmd, hostVars,
                 received, stationVars, bounds>>

loopStopsOneLoco ==
  /\ loopPc = "stopping" /\ itValid /\ loopIt < end
  /\ stopLocoAt(loopIt) /\ loopIt' = loopIt + 1
  /\ UNCHANGED <<power, cmdToSend, feedback, sinceLastCmd, hostVars, loopPc,
                 itValid, received, bounds>>

(* The rest of handleCommandStationStatus(-1): the loop ends, the event is   *)
(* pushed, the queue is held, and only then is the power believed to be off. *)
loopEnds ==
  /\ itValid /\ loopIt >= end
  /\ GoesOn("stopping", "reporting") /\ loopIt' = 1
  /\ UNCHANGED <<power, listOfUnexpectedFbMsg>>

reportPowerOff ==
  /\ GoesOn("reporting", "raising")
  /\ listOfUnexpectedFbMsg' = Append(listOfUnexpectedFbMsg, "RCV_TRACK_POWER_OFF")
  /\ UNCHANGED <<power, loopIt>>

holdQueue ==
  /\ GoesOn("raising", "lowering") /\ commandStationStatus' = commandStationStatus + 1
  /\ UNCHANGED <<powerOn, listOfUnexpectedFbMsg, loopIt>>

believePowerOff ==
  /\ GoesOn("lowering", "receive") /\ powerOn' = FALSE
  /\ UNCHANGED <<commandStationStatus, listOfUnexpectedFbMsg, loopIt>>

(* The iterator dangles and never meets the new end(): the loop walks over   *)
(* whatever memory follows the old block until the process, CDM-Rail's       *)
(* thread with it, dies.                                                     *)
loopRunsWild ==
  /\ loopPc = "stopping" /\ ~itValid /\ loopPc' = "crashed" /\ hostPc' = "crashed"
  /\ UNCHANGED <<shared, hostArgs, hostIt, loopIt, itValid, received,
                 stationVars, bounds>>

(* buildCommand(PING) answers <g1>, which no state of the station shows.     *)
parsePing ==
  /\ Take(Signal("g1")) /\ loopPc' = "receive"
  /\ UNCHANGED <<power, cmdToSend, lists, feedback, sinceLastCmd, hostVars,
                 loopIt, itValid, received, stationVars, bounds>>

(* The version is kept (Session models it); nothing here depends on it.      *)
parseVersion ==
  /\ Take(Signal("i")) /\ loopPc' = "receive"
  /\ UNCHANGED <<power, cmdToSend, lists, feedback, sinceLastCmd, hostVars,
                 loopIt, itValid, received, stationVars, bounds>>

(* A <T r a s d> of twelve characters or more is not looked at.              *)
IsParsed(c) ==
  c.kind = "t" => Digits(c.reg) + Digits(c.addr) + Digits(c.speed) + Digits(c.dir) + 5 < 12

(* handleLocoEvent and handleAccessoryEvent: the entry found is erased.  For *)
(* a function reply, the unwritten argument may or may not agree.            *)
parseReply ==
  LET m == Front(cmdToParse)
  IN  /\ Take(m) /\ m.kind = "reply" /\ loopPc' = "receive"
      /\ LET entries == IF IsParsed(m.to) THEN Candidates(m.to) ELSE {}
         IN  \E found \in (IF m.to.kind = "f" THEN SUBSET entries ELSE {entries}) :
               listOfCmdWaitingResp' =
                 IF found = {} THEN listOfCmdWaitingResp
                 ELSE Erase(listOfCmdWaitingResp, First(found))
      /\ UNCHANGED <<power, cmdToSend, listOfLocoInfos, feedback,
                     sinceLastCmd, hostVars, loopIt, itValid, received,
                     stationVars, bounds>>

Loop ==
  \/ receiveMessage \/ receiveReturns \/ checkCmdToSend
  \/ parseNothing \/ parsePing \/ parseVersion \/ parseReply
  \/ parsePowerOn \/ releaseQueue \/ believePowerOn
  \/ parsePowerOff \/ loopStopsOneLoco \/ loopRunsWild
  \/ loopEnds \/ reportPowerOff \/ holdQueue \/ believePowerOff
-----------------------------------------------------------------------------
(* Time, and what the station does of its own accord: its power button, a    *)
(* short circuit, another controller, a keepalive.                           *)
Tick ==
  /\ sinceLastCmd <= CmdTimer /\ sinceLastCmd' = sinceLastCmd + 1
  /\ UNCHANGED <<power, queues, lists, feedback, hostVars, loopVars,
                 stationVars, bounds>>

Station ==
  /\ mode # "emulation" /\ events < MaxEvents /\ events' = events + 1
  /\ \/ \E on \in BOOLEAN : trackPower' = on /\ line' = Append(line, Signal(IF on THEN "p1" ELSE "p0"))
     \/ UNCHANGED trackPower /\ line' = Append(line, Signal("g1"))
  /\ UNCHANGED <<shared, hostVars, loopVars, throttle, requests>>

Crashed == loopPc = "crashed"

Next ==
  /\ Host \/ Loop \/ Tick \/ Station \/ (Crashed /\ UNCHANGED vars)
  /\ UNCHANGED mode

Spec == Init /\ [][Next]_vars

(* The loop thread never blocks for good: every read has a timeout, and a    *)
(* message on the wire is read when the loop comes by.  The clock runs.      *)
Fairness ==
  /\ WF_vars(Loop /\ UNCHANGED mode)
  /\ SF_vars(receiveMessage /\ UNCHANGED mode)
  /\ WF_vars(Tick /\ UNCHANGED mode)

(* The host finishes the calls it has begun; it need not begin any.          *)
HostFairness ==
  WF_vars(/\ CommitSpeed \/ restartOneLoco \/ ResumeReturns
             \/ hostStopsOneLoco \/ EmergencyStopReturns
          /\ UNCHANGED mode)

FairSpec == Spec /\ Fairness /\ HostFairness
-----------------------------------------------------------------------------
(* Properties.                                                               *)

(* commandStationStatus only ever counts one loss of power, and a driver     *)
(* that believes the track is on does not hold its queue, except between the *)
(* two assignments that end the handling of a loss.  The handler adds        *)
(* (1 << 0) each time it runs, so a second p0 while the first still holds    *)
(* would make it 2, a different status for CDM-Rail, if powerOn did not      *)
(* follow it (handleCommandStationStatus).                                   *)
GateFollowsPower ==
  /\ commandStationStatus \in {0, 1}
  /\ powerOn /\ loopPc # "lowering" => commandStationStatus = 0

(* While the queue is held, every register the driver ever used holds an     *)
(* emergency stop, so nothing moves when the power comes back until a        *)
(* command is sent: the two threads' emergency stops, the commands already   *)
(* queued and the locomotives registered meanwhile never leave one running   *)
(* (emergencyStopAllLocos, checkCmdToSend).                                  *)
StoppedWhileHeld ==
  commandStationStatus # 0 => \A r \in DOMAIN throttle : throttle[r].speed = -1

(* From the p0 to the hold, the loop thread still believes the power is on,  *)
(* so that the queue is released for nobody, and every register it has       *)
(* passed, in the end every one, stays at an emergency stop whatever the     *)
(* host stops, saves or queues meanwhile (handleCommandStationStatus,        *)
(* emergencyStopAllLocos).                                                   *)
StopsSoFar ==
  /\ loopPc \in {"stopping", "reporting", "raising"} => powerOn
  /\ \A r \in DOMAIN throttle :
       \/ loopPc = "stopping" /\ r < loopIt
       \/ loopPc \in {"reporting", "raising"}
       => throttle[r].speed = -1

(* A register of the station belongs to one locomotive, the one at its index *)
(* in listOfLocoInfos: in the list, in every speed command still queued and  *)
(* in every register the station drives.  Otherwise two addresses would      *)
(* share a register, or one address answer to two (setLocoSpeed,             *)
(* saveLocoInfos, emergencyStopAllLocos, restartAllLocos).                   *)
OwnsRegister(c) == c.reg \in DOMAIN listOfLocoInfos /\ listOfLocoInfos[c.reg].address = c.addr
RegisterIntegrity ==
  /\ \A i, j \in DOMAIN listOfLocoInfos :
       listOfLocoInfos[i].address = listOfLocoInfos[j].address => i = j
  /\ \A c \in Values(cmdToSend) : c.kind = "t" => OwnsRegister(c)
  /\ \A r \in DOMAIN throttle : throttle[r].reg = r /\ OwnsRegister(throttle[r])

(* Once every message has been handled, the driver and the station agree     *)
(* whether the track is powered (loop, parse, handleCommandStationStatus).   *)
Settled == line = <<>> /\ IsEmpty(cmdToParse) /\ loopPc \in {"receive", "send", "parse"}
PowerAgreement == Settled => powerOn = trackPower

(* A reply to a speed or accessory command of the driver, once looked at, is *)
(* recognised as such, and stops being waited for (handleLocoEvent,          *)
(* handleAccessoryEvent), however equal commands were merged in the queue.   *)
RepliesRecognised ==
  [][parseReply /\ Front(cmdToParse).to.kind # "f" /\ IsParsed(Front(cmdToParse).to)
       => listOfCmdWaitingResp' # listOfCmdWaitingResp]_vars

(* The driver as a gate between CDM-Rail and the track (TrackGate): the      *)
(* queue is held only when every locomotive has been stopped, and none is    *)
(* driven while it is held (checkCmdToSend, handleCommandStationStatus).     *)
Driven == {throttle[r].addr : r \in {q \in DOMAIN throttle : throttle[q].speed # -1}}
Gate == INSTANCE TrackGate WITH held <- (commandStationStatus # 0), driven <- Driven
GateSpec == Gate!Spec

(* When all is sent and settled, a locomotive runs at the speed the driver   *)
(* has on record for it, unless an emergency stopped it (setLocoSpeed,       *)
(* checkCmdToSend).                                                          *)
SpeedAgreement ==
  Settled /\ IsEmpty(cmdToSend) /\ hostPc = "idle" =>
    \A r \in DOMAIN throttle : throttle[r].speed \in {-1, listOfLocoInfos[r].speed}

(* Whatever is queued is sent, unless the queue is held meanwhile            *)
(* (checkCmdToSend).                                                         *)
QueueDrains == ~IsEmpty(cmdToSend) ~> (IsEmpty(cmdToSend) \/ commandStationStatus # 0 \/ Crashed)

(* When the track stays on, the queue does not stay held                     *)
(* (handleCommandStationStatus, checkCmdToSend).                             *)
HoldReleased == <>[]trackPower => <>[](commandStationStatus = 0 \/ Crashed)
=============================================================================
