---------------------------- MODULE BridgeProofs ----------------------------
(* Theorems about Bridge, for every value of its constants: its types, and   *)
(* the safety of the driver for every number of locomotives, every bound and *)
(* every mode, that is, the invariants of Bridge that no single step shows,  *)
(* from one inductive invariant (Inductive), and the steps of TrackGate.     *)
EXTENDS Bridge, NodeListTheorems

PowerCommands == {PowerCommand(on) : on \in BOOLEAN} \cup {VersionCommand}

(* A command is answered by at most one message of the station.              *)
LEMMA ReplyType ==
  ASSUME NEW c \in QueuedCommands \cup PowerCommands
  PROVE  Reply(c) \in Seq(Messages) /\ (Reply(c) # <<>> => Reply(c)[1] \in Messages)
<1> DEFINE Fine(r) == r \in Seq(Messages) /\ (r # <<>> => r[1] \in Messages)
<1>0. \A m \in Messages : Fine(<<m>>)
  <2> HIDE DEF Messages
  <2> QED OBVIOUS
<1>1. CASE c \in PowerCommands /\ c # VersionCommand
  <2>1. c.kind = "power" /\ c.on \in BOOLEAN
    BY <1>1 DEF PowerCommands, PowerCommand
  <2>2. Signal("p0") \in Messages /\ Signal("p1") \in Messages
    BY DEF Messages
  <2>3. Reply(c) = <<Signal("p0")>> \/ Reply(c) = <<Signal("p1")>>
    BY <2>1 DEF Reply
  <2> QED BY <2>2, <2>3, <1>0
<1>2. CASE c \in AnsweredCommands
  <2>1. c.kind # "power" /\ c.kind # "s"
    BY <1>2 DEF AnsweredCommands, SpeedCommands, FunctionCommands, AccessoryCommands
  <2>2. [kind |-> "reply", to |-> c] \in Messages
    BY <1>2 DEF AnsweredCommands, Messages, Replies
  <2>3. Reply(c) = <<>> \/ Reply(c) = <<[kind |-> "reply", to |-> c]>>
    BY <2>1 DEF Reply
  <2>4. Fine(<<>>)
    OBVIOUS
  <2> QED BY <2>2, <2>3, <2>4, <1>0
<1>3. CASE c = S88Command
  <2>1. c.kind = "Y"
    BY <1>3 DEF S88Command
  <2>2. Reply(c) = <<>>
    BY <2>1, BridgeAssumption DEF Reply
  <2> QED BY <2>2
<1>4. CASE c = VersionCommand
  <2>1. c.kind = "s"
    BY <1>4 DEF VersionCommand
  <2>2. Reply(c) = <<Signal("i")>>
    BY <2>1 DEF Reply
  <2>3. Signal("i") \in Messages
    BY DEF Messages
  <2> QED BY <2>2, <2>3, <1>0
<1> QED BY <1>1, <1>2, <1>3, <1>4 DEF QueuedCommands, AnsweredCommands

(* What the station and the line look like after a command.                  *)
LEMMA SendCommandType ==
  ASSUME TypeOK, NEW c \in QueuedCommands \cup PowerCommands, sendCommand(c)
  PROVE  /\ trackPower' \in BOOLEAN
         /\ DOMAIN throttle' \subseteq Nat /\ throttle' \in [DOMAIN throttle' -> SpeedCommands]
         /\ line' \in Seq(Messages)
         /\ IsNodeList(cmdToParse', Messages)
<1>1. trackPower' \in BOOLEAN
  <2>1. c.kind = "power" => c.on \in BOOLEAN
    BY DEF QueuedCommands, AnsweredCommands, SpeedCommands, FunctionCommands,
           AccessoryCommands, S88Command,
           PowerCommands, PowerCommand, VersionCommand
  <2> QED BY <2>1 DEF TypeOK, StationOK, sendCommand, Obey
<1>2. DOMAIN throttle' \subseteq Nat /\ throttle' \in [DOMAIN throttle' -> SpeedCommands]
  <2>1. CASE c.kind = "t"
    <3>1. c \in SpeedCommands /\ c.reg \in Nat
      BY <2>1 DEF QueuedCommands, AnsweredCommands, SpeedCommands, FunctionCommands,
                  AccessoryCommands, S88Command, PowerCommands, PowerCommand, VersionCommand
    <3>2. throttle' = [r \in DOMAIN throttle \cup {c.reg} |-> IF r = c.reg THEN c ELSE throttle[r]]
      BY <2>1 DEF sendCommand, Obey
    <3> QED BY <3>1, <3>2 DEF TypeOK, StationOK
  <2>2. CASE c.kind # "t"
    BY <2>2 DEF TypeOK, StationOK, sendCommand, Obey
  <2> QED BY <2>1, <2>2
<1>3. line' \in Seq(Messages)
  <2>1. line \in Seq(Messages) /\ Reply(c) \in Seq(Messages)
    BY ReplyType DEF TypeOK, StationOK
  <2>2. line' = line \/ line' = line \o Reply(c)
    BY DEF sendCommand
  <2>3. \A M : \A s, r \in Seq(M) : s \o r \in Seq(M)
    OBVIOUS
  <2>4. line \o Reply(c) \in Seq(Messages)
    BY <2>1, <2>3
  <2> QED BY <2>1, <2>2, <2>4
<1>4. IsNodeList(cmdToParse', Messages)
  <2>1. CASE mode = "emulation" /\ Reply(c) # <<>>
    <3>1. Reply(c)[1] \in Messages
      BY <2>1, ReplyType
    <3> QED BY <2>1, <3>1, PushBackValues DEF TypeOK, QueuesOK, sendCommand
  <2>2. CASE ~(mode = "emulation" /\ Reply(c) # <<>>)
    BY <2>2 DEF TypeOK, QueuesOK, sendCommand
  <2> QED BY <2>1, <2>2
<1> QED BY <1>1, <1>2, <1>3, <1>4

(* The index of a locomotive is one of the list, or 0.                       *)
LEMMA IndexType ==
  ASSUME NEW a, listOfLocoInfos \in Seq(LocoInfos)
  PROVE  /\ getLocoInfosIndex(a) \in Nat
         /\ getLocoInfosIndex(a) # 0 =>
              /\ getLocoInfosIndex(a) \in DOMAIN listOfLocoInfos
              /\ listOfLocoInfos[getLocoInfosIndex(a)].address = a
         /\ getLocoInfosIndex(a) = 0 =>
              \A i \in DOMAIN listOfLocoInfos : listOfLocoInfos[i].address # a
<1> DEFINE Holds(i) == i \in DOMAIN listOfLocoInfos /\ listOfLocoInfos[i].address = a
           Where == {i \in DOMAIN listOfLocoInfos : listOfLocoInfos[i].address = a}
<1>1. DOMAIN listOfLocoInfos \subseteq Nat \ {0}
  OBVIOUS
<1>2. CASE Where = {}
  BY <1>2 DEF getLocoInfosIndex
<1>3. CASE Where # {}
  <2>1. PICK k \in Where : \A j \in Where : k <= j
    <3>1. Where \in SUBSET Nat BY <1>1
    <3> QED BY <3>1, <1>3, FirstIsLeast
  <2>2. \A j \in 1..(k - 1) : listOfLocoInfos[j].address # a
    BY <2>1, <1>1
  <2>3. \E i \in DOMAIN listOfLocoInfos :
          /\ listOfLocoInfos[i].address = a
          /\ \A j \in 1..(i - 1) : listOfLocoInfos[j].address # a
    BY <2>1, <2>2
  <2> QED BY <1>1, <2>3 DEF getLocoInfosIndex
<1> QED BY <1>2, <1>3

(* saveLocoInfos keeps the list a list of locomotives.                       *)
LEMMA SaveLocoInfosType ==
  ASSUME TypeOK, NEW i \in DOMAIN listOfLocoInfos \cup {0}, NEW a \in Locos, NEW s \in Nat,
         NEW d \in {0, 1}, NEW f \in Int, saveLocoInfos(i, a, s, d, f)
  PROVE  listOfLocoInfos' \in Seq(LocoInfos) /\ itValid' \in BOOLEAN
<1>1. CASE i = 0
  <2> DEFINE loco == [address |-> a, speed |-> s, direction |-> d, functions |-> f,
                      emergencyStopped |-> FALSE]
  <2>1. loco \in LocoInfos
    BY DEF LocoInfos
  <2>2. listOfLocoInfos' = Append(listOfLocoInfos, loco)
    BY <1>1 DEF saveLocoInfos
  <2>3. listOfLocoInfos' \in Seq(LocoInfos)
    BY <2>1, <2>2 DEF TypeOK, ListsOK
  <2>4. itValid' \in BOOLEAN
    BY <1>1, Zenon DEF saveLocoInfos
  <2> QED BY <2>3, <2>4
<1>2. CASE i # 0
  <2> DEFINE loco == [listOfLocoInfos[i] EXCEPT !.address = a, !.speed = s, !.direction = d,
                                                !.functions = f]
  <2>1. listOfLocoInfos[i] \in LocoInfos
    BY <1>2 DEF TypeOK, ListsOK
  <2>2. loco \in LocoInfos
    BY <2>1 DEF LocoInfos
  <2>3. listOfLocoInfos' = [listOfLocoInfos EXCEPT ![i] = loco] /\ itValid' = itValid
    BY <1>2, Zenon DEF saveLocoInfos
  <2>4. listOfLocoInfos' \in Seq(LocoInfos)
    <3> HIDE DEF loco
    <3> QED BY <1>2, <2>2, <2>3 DEF TypeOK, ListsOK
  <2> QED BY <2>3, <2>4 DEF TypeOK, LoopOK
<1> QED BY <1>1, <1>2

(* The waiting list only ever holds commands that are answered.              *)
LEMMA SaveCmdWtRspType ==
  ASSUME TypeOK, NEW c \in AnsweredCommands, saveCmdWtRsp(c)
  PROVE  IsNodeList(listOfCmdWaitingResp', AnsweredCommands)
BY PushBackValues DEF TypeOK, ListsOK, saveCmdWtRsp

LEMMA QueueType ==
  ASSUME TypeOK, NEW c \in QueuedCommands, cmdToSend' = PushBack(cmdToSend, c)
  PROVE  IsNodeList(cmdToSend', QueuedCommands)
BY PushBackValues DEF TypeOK, QueuesOK

LEMMA FeedbackType ==
  ASSUME TypeOK,
         NEW request \in {"ResumeOperations", "PowerOff", "EmergencyStop",
                          "SetAccessoryState", "CommandStationStatusRequest"},
         handleStandaloneCommands(request)
  PROVE  listOfFeedbackMsg' \in Seq(Feedbacks)
BY DEF TypeOK, PowerOK, FeedbackOK, handleStandaloneCommands, Feedback, Feedbacks,
       FeedbackCodes, AllOps

LEMMA FunctionValueType ==
  ASSUME NEW w \in Nat, NEW mask \in FunctionMasks
  PROVE  getLocoFuncValue(w, mask) \in Nat
<1>1. \A u \in {1, 2, 32, 512}, z \in {2, 16} : Bits(w, u, z) \in Nat
  BY DEF Bits
<1> QED BY <1>1 DEF getLocoFuncValue, FunctionMasks, MaskF0F4, MaskF5F8, MaskF9F12

(* A speed command for a locomotive of the list.                             *)
LEMMA LocoCommandType ==
  ASSUME TypeOK, NEW i \in DOMAIN listOfLocoInfos
  PROVE  /\ listOfLocoInfos[i].address \in Locos /\ listOfLocoInfos[i].speed \in Nat
         /\ listOfLocoInfos[i].direction \in {0, 1}
         /\ \A s \in {-1, listOfLocoInfos[i].speed} :
              SpeedCommand(i, listOfLocoInfos[i].address, s, listOfLocoInfos[i].direction)
                 \in SpeedCommands
<1>1. listOfLocoInfos[i] \in LocoInfos /\ i \in Nat
  BY DEF TypeOK, ListsOK
<1> QED BY <1>1 DEF LocoInfos, SpeedCommand, SpeedCommands

(* Marking a locomotive as stopped or restarted.                             *)
LEMMA MarkLocoType ==
  ASSUME TypeOK, NEW i \in DOMAIN listOfLocoInfos, NEW b \in BOOLEAN,
         listOfLocoInfos' = [listOfLocoInfos EXCEPT ![i] = [@ EXCEPT !.emergencyStopped = b]]
  PROVE  listOfLocoInfos' \in Seq(LocoInfos)
<1> DEFINE loco == [listOfLocoInfos[i] EXCEPT !.emergencyStopped = b]
<1>1. listOfLocoInfos[i] \in LocoInfos
  BY DEF TypeOK, ListsOK
<1>2. loco \in LocoInfos
  BY <1>1 DEF LocoInfos
<1>3. listOfLocoInfos' = [listOfLocoInfos EXCEPT ![i] = loco]
  OBVIOUS
<1> HIDE DEF loco
<1> QED BY <1>2, <1>3 DEF TypeOK, ListsOK

LEMMA StopLocoType ==
  ASSUME TypeOK, NEW i \in DOMAIN listOfLocoInfos, stopLocoAt(i)
  PROVE  StationOK' /\ ListsOK' /\ IsNodeList(cmdToParse', Messages)
<1> DEFINE c == SpeedCommand(i, listOfLocoInfos[i].address, -1, listOfLocoInfos[i].direction)
<1>1. saveCmdWtRsp(c) /\ sendCommand(c)
  BY DEF stopLocoAt
<1>2. c \in QueuedCommands /\ c \in AnsweredCommands
  BY LocoCommandType DEF QueuedCommands, AnsweredCommands
<1>3. listOfLocoInfos' \in Seq(LocoInfos)
  BY MarkLocoType DEF stopLocoAt
<1> HIDE DEF c
<1> QED BY <1>1, <1>2, <1>3, SendCommandType, SaveCmdWtRspType DEF StationOK, ListsOK

(* One message taken off cmdToParse.                                         *)
LEMMA TakeType ==
  ASSUME TypeOK, NEW m, Take(m)
  PROVE  IsNodeList(cmdToParse', Messages) /\ m \in Messages
BY FrontIsValue, RemoveEqualValues DEF Take, TypeOK, QueuesOK

LEMMA CallType ==
  ASSUME TypeOK, NEW op, Call(op)
  PROVE  BoundsOK'
<1>1. /\ requests \in Nat /\ requests < MaxRequests /\ requests' = requests + 1
      /\ events \in 0..MaxEvents /\ events' = events
  BY DEF Call, TypeOK, BoundsOK
<1> QED BY <1>1, BridgeAssumption DEF BoundsOK

(* A group of variables that a step leaves alone keeps its type.             *)
LEMMA KeptType ==
  ASSUME TypeOK
  PROVE  /\ UNCHANGED power => PowerOK'
         /\ UNCHANGED queues => QueuesOK'
         /\ UNCHANGED lists => ListsOK'
         /\ UNCHANGED feedback => FeedbackOK'
         /\ UNCHANGED sinceLastCmd => (sinceLastCmd \in 0..(CmdTimer + 1))'
         /\ UNCHANGED hostVars => HostOK'
         /\ UNCHANGED loopVars => LoopOK'
         /\ UNCHANGED stationVars => StationOK'
         /\ UNCHANGED bounds => BoundsOK'
<1> USE DEF TypeOK
<1>1. UNCHANGED power => PowerOK'
  BY DEF power, PowerOK
<1>2. UNCHANGED queues => QueuesOK'
  BY DEF queues, QueuesOK
<1>3. UNCHANGED lists => ListsOK'
  BY DEF lists, ListsOK
<1>4. UNCHANGED feedback => FeedbackOK'
  BY DEF feedback, FeedbackOK
<1>5. UNCHANGED sinceLastCmd => (sinceLastCmd \in 0..(CmdTimer + 1))'
  OBVIOUS
<1>6. UNCHANGED hostVars => HostOK'
  BY DEF hostVars, HostOK
<1>7. UNCHANGED loopVars => LoopOK'
  BY DEF loopVars, LoopOK
<1>8. UNCHANGED stationVars => StationOK'
  BY DEF stationVars, StationOK
<1>9. UNCHANGED bounds => BoundsOK'
  BY DEF bounds, BoundsOK
<1> QED BY <1>1, <1>2, <1>3, <1>4, <1>5, <1>6, <1>7, <1>8, <1>9

LEMMA TypeInit == Init => TypeOK
<1> SUFFICES ASSUME Init PROVE TypeOK
  OBVIOUS
<1>1. QueuesOK /\ IsNodeList(listOfCmdWaitingResp, AnsweredCommands)
  BY EmptyIsNodeList DEF Init, QueuesOK
<1>2. ListsOK /\ FeedbackOK
  BY <1>1 DEF Init, ListsOK, FeedbackOK
<1>3. StationOK
  <2>1. DOMAIN throttle = {} /\ throttle \in [{} -> SpeedCommands]
    BY DEF Init, Empty
  <2>2. trackPower = FALSE /\ line \in Seq(Messages)
    BY DEF Init
  <2> QED BY <2>1, <2>2 DEF StationOK
<1>4. PowerOK /\ HostOK /\ LoopOK
  <2>1. PowerOK
    BY DEF Init, PowerOK
  <2>2. HostOK
    BY DEF Init, HostOK
  <2>3. loopPc \in {"receive", "send", "parse", "stopping", "crashed"} /\ loopIt \in Nat \ {0} /\ received \in Nat
    BY DEF Init
  <2>4. itValid \in BOOLEAN
    BY DEF Init
  <2> QED BY <2>1, <2>2, <2>3, <2>4 DEF LoopOK
<1>5. BoundsOK /\ sinceLastCmd \in 0..(CmdTimer + 1)
  BY BridgeAssumption DEF Init, BoundsOK
<1>6. mode \in Modes
  BY DEF Init
<1> QED BY <1>1, <1>2, <1>3, <1>4, <1>5, <1>6 DEF TypeOK

(* setLocoSpeed, up to the test of powerOn.                                  *)
LEMMA SetLocoSpeedType ==
  ASSUME TypeOK, UNCHANGED mode, NEW a \in Locos, NEW s \in Int, NEW d \in Int, NEW op, Call(op),
         setLocoSpeed(a, s, d)
  PROVE  TypeOK'
<1>1. abs(s) \in Nat
  BY DEF abs
<1>2. [address |-> a, speed |-> abs(s), direction |-> IF d # 0 THEN 1 ELSE 0] \in SpeedArgs
  BY <1>1 DEF SpeedArgs
<1>3. HostOK'
  <2>1. HostOK /\ hostIt' = hostIt /\ hostPc = "idle"
    BY DEF TypeOK, setLocoSpeed, Call
  <2>2. \/ hostPc' = "speed" /\ hostArgs' \in SpeedArgs
        \/ hostPc' = hostPc /\ hostArgs' = hostArgs
    BY <1>2 DEF setLocoSpeed
  <2> QED BY <2>1, <2>2 DEF HostOK
<1> QED BY <1>3, CallType, KeptType DEF TypeOK, setLocoSpeed, shared

(* setLocoFunction.                                                          *)
LEMMA SetLocoFunctionType ==
  ASSUME TypeOK, UNCHANGED mode, NEW a \in Locos, NEW w \in Nat, NEW mask \in FunctionMasks, NEW op, Call(op),
         setLocoFunction(a, w, mask)
  PROVE  TypeOK'
<1> DEFINE i == getLocoInfosIndex(a)
           known == i # 0 /\ listOfLocoInfos[i].functions # -1
           value == getLocoFuncValue(IF known THEN w ELSE 0, mask)
           c == FunctionCommand(a, value)
<1>1. i \in DOMAIN listOfLocoInfos \cup {0}
  BY IndexType DEF TypeOK, ListsOK
<1>2. value \in Int
  BY FunctionValueType
<1>3. c \in QueuedCommands /\ c \in AnsweredCommands
  BY <1>2 DEF QueuedCommands, AnsweredCommands, FunctionCommand, FunctionCommands
<1>4. /\ saveCmdWtRsp(c) /\ cmdToSend' = PushBack(cmdToSend, c)
      /\ IF i = 0 THEN saveLocoInfos(0, a, 0, 1, value)
         ELSE saveLocoInfos(i, a, listOfLocoInfos[i].speed, listOfLocoInfos[i].direction, value)
  BY DEF setLocoFunction
<1>5. i # 0 => listOfLocoInfos[i].speed \in Nat /\ listOfLocoInfos[i].direction \in {0, 1}
  BY <1>1, LocoCommandType
<1> HIDE DEF i, value, c
<1>6. listOfLocoInfos' \in Seq(LocoInfos) /\ itValid' \in BOOLEAN
  <2>1. CASE i = 0
    BY <1>2, <1>4, <2>1, SaveLocoInfosType
  <2>2. CASE i # 0
    BY <1>1, <1>2, <1>4, <1>5, <2>2, SaveLocoInfosType
  <2> QED BY <2>1, <2>2
<1>7. ListsOK' /\ IsNodeList(cmdToSend', QueuedCommands)
  BY <1>3, <1>4, <1>6, SaveCmdWtRspType, QueueType DEF ListsOK
<1>8. QueuesOK' /\ LoopOK'
  BY <1>6, <1>7 DEF TypeOK, QueuesOK, LoopOK, setLocoFunction, ReturnsAtOnce
<1> QED BY <1>7, <1>8, CallType, KeptType DEF TypeOK, setLocoFunction, ReturnsAtOnce

LEMMA CommitSpeedType == ASSUME TypeOK, UNCHANGED mode, CommitSpeed PROVE TypeOK'
<1> DEFINE a == hostArgs.address
           s == hostArgs.speed
           d == hostArgs.direction
           i == getLocoInfosIndex(a)
           c == SpeedCommand(Register(i), a, s, d)
<1>1. a \in Locos /\ s \in Nat /\ d \in {0, 1}
  BY DEF TypeOK, HostOK, CommitSpeed, SpeedArgs
<1>2. i \in DOMAIN listOfLocoInfos \cup {0} /\ Register(i) \in Nat
  BY IndexType DEF TypeOK, ListsOK, Register
<1>3. c \in SpeedCommands
  BY <1>1, <1>2 DEF SpeedCommand, SpeedCommands
<1>4. c \in QueuedCommands /\ c \in AnsweredCommands
  BY <1>3 DEF QueuedCommands, AnsweredCommands
<1> DEFINE Saves == /\ saveLocoInfos(i, a, s, d, -1)
                    /\ saveCmdWtRsp(c)
                    /\ cmdToSend' = PushBack(cmdToSend, c)
           LeavesAlone == UNCHANGED <<listOfLocoInfos, itValid, listOfCmdWaitingResp, cmdToSend>>
           Typed == ListsOK' /\ itValid' \in BOOLEAN /\ IsNodeList(cmdToSend', QueuedCommands)
<1>5. Saves \/ LeavesAlone
  BY DEF CommitSpeed
<1> HIDE DEF a, s, d, i, c
<1>6. Typed
  <2>1. LeavesAlone => Typed
    BY DEF TypeOK, ListsOK, LoopOK, QueuesOK
  <2>2. Saves => Typed
    BY <1>1, <1>2, <1>4, SaveLocoInfosType, SaveCmdWtRspType, QueueType DEF ListsOK
  <2> HIDE DEF Saves, LeavesAlone, Typed
  <2> QED BY <2>1, <2>2, <1>5
<1>7. QueuesOK' /\ LoopOK' /\ HostOK'
  BY <1>6 DEF TypeOK, QueuesOK, LoopOK, HostOK, CommitSpeed
<1> QED BY <1>6, <1>7, KeptType DEF TypeOK, CommitSpeed

LEMMA SetAccessoryStateType == ASSUME TypeOK, UNCHANGED mode, SetAccessoryState PROVE TypeOK'
<1>1. PICK a \in Accessories, s \in {0, 1} :
        /\ saveCmdWtRsp(AccessoryCommand(a, s))
        /\ cmdToSend' = PushBack(cmdToSend, AccessoryCommand(a, s))
  BY DEF SetAccessoryState
<1>2. AccessoryCommand(a, s) \in QueuedCommands /\ AccessoryCommand(a, s) \in AnsweredCommands
  BY DEF AccessoryCommand, AccessoryCommands, QueuedCommands, AnsweredCommands
<1>3. /\ IsNodeList(listOfCmdWaitingResp', AnsweredCommands)
      /\ IsNodeList(cmdToSend', QueuedCommands)
  BY <1>1, <1>2, SaveCmdWtRspType, QueueType
<1>4. listOfFeedbackMsg' \in Seq(Feedbacks)
  BY FeedbackType DEF SetAccessoryState
<1>5. QueuesOK' /\ ListsOK' /\ FeedbackOK' /\ LoopOK'
  BY <1>3, <1>4 DEF SetAccessoryState, ReturnsAtOnce, TypeOK, QueuesOK, ListsOK, FeedbackOK, LoopOK
<1> QED BY <1>5, CallType, KeptType DEF SetAccessoryState, ReturnsAtOnce, TypeOK

LEMMA StatusRequestType == ASSUME TypeOK, UNCHANGED mode, CommandStationStatusRequest PROVE TypeOK'
<1>1. listOfFeedbackMsg' \in Seq(Feedbacks)
  BY FeedbackType DEF CommandStationStatusRequest
<1>2. FeedbackOK' /\ LoopOK'
  BY <1>1 DEF CommandStationStatusRequest, ReturnsAtOnce, TypeOK, FeedbackOK, LoopOK
<1> QED BY <1>2, CallType, KeptType DEF CommandStationStatusRequest, ReturnsAtOnce, TypeOK

LEMMA SendPowerType ==
  ASSUME TypeOK, NEW on \in BOOLEAN, sendCommand(PowerCommand(on))
  PROVE  StationOK' /\ IsNodeList(cmdToParse', Messages)
<1>1. PowerCommand(on) \in PowerCommands
  BY DEF PowerCommands
<1> QED BY <1>1, SendCommandType DEF StationOK

LEMMA VersionRequestType == ASSUME TypeOK, UNCHANGED mode, CommandStationVersionRequest PROVE TypeOK'
<1>1. StationOK' /\ IsNodeList(cmdToParse', Messages)
  BY SendCommandType DEF CommandStationVersionRequest, PowerCommands, StationOK
<1>2. QueuesOK' /\ LoopOK'
  BY <1>1 DEF CommandStationVersionRequest, ReturnsAtOnce, TypeOK, QueuesOK, LoopOK
<1> QED BY <1>1, <1>2, CallType, KeptType DEF CommandStationVersionRequest, ReturnsAtOnce, TypeOK

LEMMA PowerOffType == ASSUME TypeOK, UNCHANGED mode, PowerOff PROVE TypeOK'
<1>1. StationOK' /\ IsNodeList(cmdToParse', Messages)
  BY SendPowerType DEF PowerOff
<1>2. listOfFeedbackMsg' \in Seq(Feedbacks)
  BY FeedbackType DEF PowerOff
<1>3. QueuesOK' /\ FeedbackOK' /\ LoopOK'
  BY <1>1, <1>2 DEF PowerOff, ReturnsAtOnce, TypeOK, QueuesOK, FeedbackOK, LoopOK
<1> QED BY <1>1, <1>3, CallType, KeptType DEF PowerOff, ReturnsAtOnce, TypeOK

LEMMA ResumeType == ASSUME TypeOK, UNCHANGED mode, ResumeOperations PROVE TypeOK'
<1>1. StationOK' /\ IsNodeList(cmdToParse', Messages)
  BY SendPowerType DEF ResumeOperations
<1>2. IsNodeList(cmdToSend', QueuedCommands)
  BY QueueType DEF ResumeOperations, QueuedCommands
<1>3. QueuesOK' /\ HostOK'
  BY <1>1, <1>2 DEF ResumeOperations, TypeOK, QueuesOK, HostOK
<1> QED BY <1>1, <1>3, CallType, KeptType DEF ResumeOperations, TypeOK

LEMMA RestartOneType == ASSUME TypeOK, UNCHANGED mode, restartOneLoco PROVE TypeOK'
<1> DEFINE c == SpeedCommand(hostIt, listOfLocoInfos[hostIt].address,
                             listOfLocoInfos[hostIt].speed, listOfLocoInfos[hostIt].direction)
<1>1. hostIt \in DOMAIN listOfLocoInfos /\ hostIt \in Nat
  BY DEF restartOneLoco, end, TypeOK, HostOK, ListsOK
<1>2. saveCmdWtRsp(c) /\ cmdToSend' = PushBack(cmdToSend, c)
  BY DEF restartOneLoco
<1>3. c \in QueuedCommands /\ c \in AnsweredCommands
  BY <1>1, LocoCommandType DEF QueuedCommands, AnsweredCommands
<1> HIDE DEF c
<1>4. /\ IsNodeList(listOfCmdWaitingResp', AnsweredCommands)
      /\ IsNodeList(cmdToSend', QueuedCommands)
  BY <1>2, <1>3, SaveCmdWtRspType, QueueType
<1>5. listOfLocoInfos' \in Seq(LocoInfos)
  BY <1>1, MarkLocoType DEF restartOneLoco
<1>6. QueuesOK' /\ ListsOK' /\ HostOK'
  BY <1>1, <1>4, <1>5 DEF restartOneLoco, TypeOK, QueuesOK, ListsOK, HostOK
<1> QED BY <1>6, KeptType DEF restartOneLoco, TypeOK

LEMMA ResumeReturnsType == ASSUME TypeOK, UNCHANGED mode, ResumeReturns PROVE TypeOK'
<1>1. listOfFeedbackMsg' \in Seq(Feedbacks)
  BY FeedbackType DEF ResumeReturns
<1>2. FeedbackOK' /\ HostOK'
  BY <1>1 DEF ResumeReturns, TypeOK, FeedbackOK, HostOK
<1> QED BY <1>2, KeptType DEF ResumeReturns, TypeOK

LEMMA EmergencyStopType == ASSUME TypeOK, UNCHANGED mode, EmergencyStop PROVE TypeOK'
<1>1. HostOK'
  BY DEF EmergencyStop, TypeOK, HostOK
<1> QED BY <1>1, CallType, KeptType DEF EmergencyStop, TypeOK, shared

LEMMA HostStopsType == ASSUME TypeOK, UNCHANGED mode, hostStopsOneLoco PROVE TypeOK'
<1>1. hostIt \in DOMAIN listOfLocoInfos /\ hostIt \in Nat
  BY DEF hostStopsOneLoco, end, TypeOK, HostOK, ListsOK
<1>2. StationOK' /\ ListsOK' /\ IsNodeList(cmdToParse', Messages)
  BY <1>1, StopLocoType DEF hostStopsOneLoco
<1>3. QueuesOK' /\ HostOK'
  BY <1>1, <1>2 DEF hostStopsOneLoco, TypeOK, QueuesOK, HostOK
<1> QED BY <1>2, <1>3, KeptType DEF hostStopsOneLoco, TypeOK

LEMMA EmergencyReturnsType == ASSUME TypeOK, UNCHANGED mode, EmergencyStopReturns PROVE TypeOK'
<1>1. StationOK' /\ IsNodeList(cmdToParse', Messages)
  BY SendPowerType DEF EmergencyStopReturns
<1>2. listOfFeedbackMsg' \in Seq(Feedbacks)
  BY FeedbackType DEF EmergencyStopReturns
<1>3. QueuesOK' /\ FeedbackOK' /\ HostOK'
  BY <1>1, <1>2 DEF EmergencyStopReturns, TypeOK, QueuesOK, FeedbackOK, HostOK
<1> QED BY <1>1, <1>3, KeptType DEF EmergencyStopReturns, TypeOK

LEMMA PollType ==
  ASSUME TypeOK, UNCHANGED mode, GetNextExpectedResponse \/ GetNextUnExpectedMessage
  PROVE  TypeOK'
<1>1. FeedbackOK'
  <2>1. listOfFeedbackMsg # <<>> => Tail(listOfFeedbackMsg) \in Seq(Feedbacks)
    <3>1. listOfFeedbackMsg \in Seq(Feedbacks)
      BY DEF TypeOK, FeedbackOK
    <3> HIDE DEF Feedbacks
    <3> QED BY <3>1
  <2>2. listOfUnexpectedFbMsg # <<>> => Tail(listOfUnexpectedFbMsg) \in Seq({"RCV_TRACK_POWER_OFF"})
    BY DEF TypeOK, FeedbackOK
  <2>3. FeedbackOK
    BY DEF TypeOK
  <2>4. CASE GetNextExpectedResponse
    BY <2>1, <2>3, <2>4 DEF GetNextExpectedResponse, FeedbackOK
  <2>5. CASE GetNextUnExpectedMessage
    BY <2>2, <2>3, <2>5 DEF GetNextUnExpectedMessage, FeedbackOK
  <2> QED BY <2>4, <2>5
<1>2. CASE GetNextExpectedResponse
  BY <1>1, <1>2, KeptType DEF GetNextExpectedResponse, TypeOK
<1>3. CASE GetNextUnExpectedMessage
  BY <1>1, <1>3, KeptType DEF GetNextUnExpectedMessage, TypeOK
<1> QED BY <1>2, <1>3

LEMMA ReceiveType == ASSUME TypeOK, UNCHANGED mode, receiveMessage PROVE TypeOK'
<1>1. Head(line) \in Messages /\ Tail(line) \in Seq(Messages)
  BY DEF receiveMessage, TypeOK, StationOK
<1>2. IsNodeList(cmdToParse', Messages)
  BY <1>1, PushBackValues DEF receiveMessage, TypeOK, QueuesOK
<1>3. QueuesOK' /\ StationOK' /\ LoopOK'
  BY <1>1, <1>2 DEF receiveMessage, TypeOK, QueuesOK, StationOK, LoopOK
<1> QED BY <1>3, KeptType DEF receiveMessage, TypeOK

LEMMA CheckCmdToSendType == ASSUME TypeOK, UNCHANGED mode, checkCmdToSend PROVE TypeOK'
<1>1. LoopOK'
  BY DEF checkCmdToSend, TypeOK, LoopOK
<1>2. CASE MaySend
  <2> DEFINE command == Front(cmdToSend)
  <2>1. command \in QueuedCommands
    BY <1>2, FrontIsValue DEF MaySend, TypeOK, QueuesOK
  <2>2. sendCommand(command) /\ cmdToSend' = RemoveEqual(cmdToSend, command) /\ sinceLastCmd' = 0
    BY <1>2 DEF checkCmdToSend
  <2> HIDE DEF command
  <2>3. IsNodeList(cmdToSend', QueuedCommands)
    BY <2>1, <2>2, RemoveEqualValues DEF TypeOK, QueuesOK
  <2>4. StationOK' /\ QueuesOK'
    BY <2>1, <2>2, <2>3, SendCommandType DEF StationOK, QueuesOK
  <2>5. sinceLastCmd' \in 0..(CmdTimer + 1)
    BY <2>2, BridgeAssumption
  <2> QED BY <1>1, <2>4, <2>5, KeptType DEF checkCmdToSend, TypeOK
<1>3. CASE ~MaySend
  <2> QED BY <1>1, <1>3, KeptType DEF checkCmdToSend, TypeOK
<1> QED BY <1>2, <1>3

(* The branches of parse.                                                    *)
LEMMA ParseType ==
  ASSUME TypeOK, UNCHANGED mode, parseNothing \/ parsePowerOn \/ parsePowerOff \/ parsePing
                \/ parseVersion \/ parseReply
  PROVE  TypeOK'
<1>1. CASE parseNothing
  <2>1. LoopOK'
    BY <1>1 DEF parseNothing, TypeOK, LoopOK
  <2> QED BY <1>1, <2>1, KeptType DEF parseNothing, TypeOK, shared
<1>2. CASE parsePowerOn
  <2>1. IsNodeList(cmdToParse', Messages)
    BY <1>2, TakeType DEF parsePowerOn
  <2>2. QueuesOK' /\ LoopOK'
    BY <1>2, <2>1 DEF parsePowerOn, TypeOK, QueuesOK, LoopOK
  <2> QED BY <1>2, <2>2, KeptType DEF parsePowerOn, TypeOK
<1>3. CASE parsePowerOff
  <2>1. IsNodeList(cmdToParse', Messages)
    BY <1>3, TakeType DEF parsePowerOff
  <2>2. QueuesOK'
    BY <1>3, <2>1 DEF parsePowerOff, TypeOK, QueuesOK
  <2>3. /\ loopPc' \in {"stopping", "receive"} /\ received' = received
        /\ \/ loopIt' = 1 /\ itValid' = TRUE
           \/ loopIt' = loopIt /\ itValid' = itValid
    BY <1>3, Zenon DEF parsePowerOff
  <2>4. LoopOK'
    <3>1. itValid' \in BOOLEAN
      BY <2>3, Zenon DEF TypeOK, LoopOK
    <3>2. loopIt' \in Nat \ {0} /\ received' \in Nat
      BY <2>3 DEF TypeOK, LoopOK
    <3> QED BY <2>3, <3>1, <3>2 DEF LoopOK
  <2> QED BY <1>3, <2>2, <2>4, KeptType DEF parsePowerOff, TypeOK
<1>4. CASE parsePing \/ parseVersion
  <2>1. IsNodeList(cmdToParse', Messages)
    BY <1>4, TakeType DEF parsePing, parseVersion
  <2>2. QueuesOK' /\ LoopOK'
    BY <1>4, <2>1 DEF parsePing, parseVersion, TypeOK, QueuesOK, LoopOK
  <2> QED BY <1>4, <2>2, KeptType DEF parsePing, parseVersion, TypeOK
<1>5. CASE parseReply
  <2>1. Take(Front(cmdToParse))
    BY <1>5 DEF parseReply
  <2>2. \/ listOfCmdWaitingResp' = listOfCmdWaitingResp
        \/ \E k : listOfCmdWaitingResp' = Erase(listOfCmdWaitingResp, k)
    BY <1>5 DEF parseReply
  <2>3. IsNodeList(listOfCmdWaitingResp', AnsweredCommands)
    BY <2>2, EraseIsNodeList DEF TypeOK, ListsOK
  <2>4. IsNodeList(cmdToParse', Messages)
    BY <2>1, TakeType
  <2>5. QueuesOK' /\ ListsOK' /\ LoopOK'
    BY <1>5, <2>3, <2>4 DEF parseReply, TypeOK, QueuesOK, ListsOK, LoopOK
  <2> QED BY <1>5, <2>5, KeptType DEF parseReply, TypeOK
<1> QED BY <1>1, <1>2, <1>3, <1>4, <1>5

(* The loop over the locomotives in the loop thread.                         *)
LEMMA LoopStopsType ==
  ASSUME TypeOK, UNCHANGED mode, loopStopsOneLoco \/ loopRunsWild
  PROVE  TypeOK'
<1>1. CASE loopStopsOneLoco
  <2>1. loopIt \in DOMAIN listOfLocoInfos /\ loopIt \in Nat
    BY <1>1 DEF loopStopsOneLoco, end, TypeOK, LoopOK, ListsOK
  <2>2. StationOK' /\ ListsOK' /\ IsNodeList(cmdToParse', Messages)
    BY <1>1, <2>1, StopLocoType DEF loopStopsOneLoco
  <2>3. QueuesOK' /\ LoopOK'
    BY <1>1, <2>1, <2>2 DEF loopStopsOneLoco, TypeOK, QueuesOK, LoopOK
  <2> QED BY <1>1, <2>2, <2>3, KeptType DEF loopStopsOneLoco, TypeOK
<1>2. CASE loopRunsWild
  <2>1. HostOK' /\ LoopOK'
    BY <1>2 DEF loopRunsWild, TypeOK, HostOK, LoopOK
  <2> QED BY <1>2, <2>1, KeptType DEF loopRunsWild, TypeOK, shared
<1> QED BY <1>1, <1>2

(* The assignments of handleCommandStationStatus, one at a time.             *)
ReleaseSteps == releaseQueue \/ believePowerOn
HoldSteps == loopEnds \/ reportPowerOff \/ holdQueue \/ believePowerOff

LEMMA HandlerType ==
  ASSUME TypeOK, UNCHANGED mode, ReleaseSteps \/ HoldSteps
  PROVE  TypeOK'
<1> USE DEF ReleaseSteps, HoldSteps
<1>1. PICK from, to : GoesOn(from, to) /\ to \in {"powering", "receive", "reporting", "raising", "lowering"}
  BY DEF releaseQueue, believePowerOn, loopEnds, reportPowerOff, holdQueue, believePowerOff
<1>2. LoopOK'
  <2>1. loopIt' \in Nat \ {0}
    BY DEF releaseQueue, believePowerOn, loopEnds, reportPowerOff, holdQueue, believePowerOff,
           TypeOK, LoopOK
  <2> QED BY <1>1, <2>1 DEF GoesOn, TypeOK, LoopOK
<1>3. PowerOK'
  <2>0. PowerOK
    BY DEF TypeOK
  <2>1. commandStationStatus' \in Nat
    BY <2>0 DEF releaseQueue, believePowerOn, loopEnds, reportPowerOff, holdQueue, believePowerOff,
           PowerOK, power
  <2>2. powerOn' \in BOOLEAN
    BY <2>0 DEF releaseQueue, believePowerOn, loopEnds, reportPowerOff, holdQueue, believePowerOff,
           PowerOK, power
  <2> QED BY <2>1, <2>2 DEF PowerOK
<1>4. FeedbackOK'
  BY <1>1 DEF releaseQueue, believePowerOn, loopEnds, reportPowerOff, holdQueue, believePowerOff,
         GoesOn, TypeOK, FeedbackOK
<1> QED BY <1>1, <1>2, <1>3, <1>4, KeptType DEF GoesOn, TypeOK

LEMMA StationType == ASSUME TypeOK, UNCHANGED mode, Station PROVE TypeOK'
<1>1. \A text \in {"p0", "p1", "g1"} : Signal(text) \in Messages
  BY DEF Messages
<1>2. trackPower' \in BOOLEAN /\ \E m \in Messages : line' = Append(line, m)
  BY <1>1 DEF Station, TypeOK, StationOK
<1>3. StationOK'
  BY <1>2 DEF Station, TypeOK, StationOK
<1>4. BoundsOK'
  BY BridgeAssumption DEF Station, TypeOK, BoundsOK
<1> QED BY <1>3, <1>4, KeptType DEF Station, TypeOK, shared

(* Every step keeps the types.                                               *)
LEMMA TypeStep == TypeOK /\ [Next]_vars => TypeOK'
<1> SUFFICES ASSUME TypeOK, [Next]_vars PROVE TypeOK'
  OBVIOUS
<1>0. UNCHANGED mode
  BY DEF Next, vars
<1>1. CASE SetSpeed \/ StopLoco
  BY <1>0, <1>1, SetLocoSpeedType, BridgeAssumption DEF SetSpeed, StopLoco
<1>2. CASE SetF0F4 \/ SetF5F8 \/ SetF9F12
  BY <1>0, <1>2, SetLocoFunctionType, BridgeAssumption DEF SetF0F4, SetF5F8, SetF9F12, FunctionMasks
<1>3. CASE receiveReturns
  <2>1. LoopOK'
    BY <1>3 DEF receiveReturns, TypeOK, LoopOK
  <2> QED BY <1>0, <1>3, <2>1, KeptType DEF receiveReturns, TypeOK, shared
<1>4. CASE Tick
  <2>1. sinceLastCmd' \in 0..(CmdTimer + 1)
    BY <1>4, BridgeAssumption DEF Tick, TypeOK
  <2> QED BY <1>0, <1>4, <2>1, KeptType DEF Tick, TypeOK
<1>5. CASE UNCHANGED vars
  BY <1>0, <1>5, KeptType DEF vars, shared, TypeOK
<1> QED
  BY <1>0, <1>1, <1>2, <1>3, <1>4, <1>5, CommitSpeedType, SetAccessoryStateType, StatusRequestType,
     PowerOffType, ResumeType, RestartOneType, ResumeReturnsType, EmergencyStopType, HostStopsType,
     EmergencyReturnsType, PollType, ReceiveType, CheckCmdToSendType, ParseType, LoopStopsType,
     StationType, VersionRequestType, HandlerType
  DEF Next, Host, Loop, ReleaseSteps, HoldSteps

(* Every variable keeps its type, whatever the mode, the calls and the       *)
(* bounds.                                                                   *)
THEOREM TypeCorrect == Spec => []TypeOK
<1> QED BY TypeInit, TypeStep, PTL DEF Spec
-----------------------------------------------------------------------------
(* None of the four is inductive without the others: the loop that holds the *)
(* queue has stopped every locomotive only because no register lies beyond   *)
(* the end of the list (RegisterIntegrity), and the status it adds to was 0  *)
(* only because the power was still believed on (StopsSoFar).  And the power *)
(* may be believed on again because the queue was released first.            *)
ReleasedFirst == loopPc = "powering" => commandStationStatus = 0

Inductive ==
  /\ TypeOK /\ GateFollowsPower /\ StoppedWhileHeld /\ StopsSoFar /\ RegisterIntegrity
  /\ ReleasedFirst

(* The station gets the speed command c. *)
Sent(c) ==
  throttle' = [r \in DOMAIN throttle \cup {c.reg} |-> IF r = c.reg THEN c ELSE throttle[r]]

AddressesKept ==
  /\ \A i \in DOMAIN listOfLocoInfos :
       i \in DOMAIN listOfLocoInfos' /\ listOfLocoInfos'[i].address = listOfLocoInfos[i].address
  /\ \A i, j \in DOMAIN listOfLocoInfos' :
       listOfLocoInfos'[i].address = listOfLocoInfos'[j].address => i = j

(* A locomotive saved under the index of its address is the only one there.  *)
LEMMA SaveKeepsAddresses ==
  ASSUME TypeOK, RegisterIntegrity, NEW a \in Locos, NEW s, NEW d, NEW f,
         saveLocoInfos(getLocoInfosIndex(a), a, s, d, f)
  PROVE  /\ AddressesKept
         /\ Register(getLocoInfosIndex(a)) \in DOMAIN listOfLocoInfos'
         /\ listOfLocoInfos'[Register(getLocoInfosIndex(a))].address = a
<1> DEFINE i == getLocoInfosIndex(a)
           n == Len(listOfLocoInfos)
<1>1. /\ i \in Nat
      /\ i # 0 => i \in DOMAIN listOfLocoInfos /\ listOfLocoInfos[i].address = a
      /\ i = 0 => \A j \in DOMAIN listOfLocoInfos : listOfLocoInfos[j].address # a
  BY IndexType DEF TypeOK, ListsOK
<1>2. listOfLocoInfos \in Seq(LocoInfos) /\ n \in Nat /\ DOMAIN listOfLocoInfos = 1..n
  BY DEF TypeOK, ListsOK
<1>3. \A j, k \in DOMAIN listOfLocoInfos :
        listOfLocoInfos[j].address = listOfLocoInfos[k].address => j = k
  BY DEF RegisterIntegrity
<1>s. saveLocoInfos(i, a, s, d, f)
  OBVIOUS
<1> HIDE DEF i
<1>4. CASE i = 0
  <2> DEFINE loco == [address |-> a, speed |-> s, direction |-> d, functions |-> f,
                      emergencyStopped |-> FALSE]
  <2>1. listOfLocoInfos' = Append(listOfLocoInfos, loco)
    BY <1>s, <1>4 DEF saveLocoInfos
  <2>2. loco.address = a
    OBVIOUS
  <2> HIDE DEF loco
  <2>3. /\ DOMAIN listOfLocoInfos' = 1..(n + 1)
        /\ \A j \in 1..n : listOfLocoInfos'[j] = listOfLocoInfos[j]
        /\ listOfLocoInfos'[n + 1] = loco
    BY <1>2, <2>1
  <2>4. AddressesKept
    BY <1>1, <1>2, <1>3, <1>4, <2>2, <2>3 DEF AddressesKept
  <2>5. Register(i) = n + 1
    BY <1>4 DEF Register
  <2> QED BY <1>2, <2>2, <2>3, <2>4, <2>5 DEF i
<1>5. CASE i # 0
  <2>1. listOfLocoInfos[i] \in LocoInfos
    BY <1>1, <1>2, <1>5
  <2>2. listOfLocoInfos' = [listOfLocoInfos EXCEPT ![i] =
          [@ EXCEPT !.address = a, !.speed = s, !.direction = d, !.functions = f]]
    BY <1>s, <1>5, Zenon DEF saveLocoInfos
  <2>3. /\ DOMAIN listOfLocoInfos' = 1..n
        /\ \A j \in 1..n : listOfLocoInfos'[j].address = listOfLocoInfos[j].address
    BY <1>1, <1>2, <1>5, <2>1, <2>2 DEF LocoInfos
  <2>4. AddressesKept
    BY <1>2, <1>3, <2>3 DEF AddressesKept
  <2>5. Register(i) = i
    BY <1>5 DEF Register
  <2> QED BY <1>1, <1>2, <1>5, <2>3, <2>4, <2>5 DEF i
<1> QED BY <1>4, <1>5

LEMMA UnchangedKeepsAddresses ==
  ASSUME RegisterIntegrity, UNCHANGED listOfLocoInfos
  PROVE  AddressesKept
BY DEF RegisterIntegrity, AddressesKept

(* Marking a locomotive keeps the addresses.                                 *)
LEMMA MarkKeepsAddresses ==
  ASSUME TypeOK, RegisterIntegrity, NEW i \in DOMAIN listOfLocoInfos, NEW b,
         listOfLocoInfos' = [listOfLocoInfos EXCEPT ![i] = [@ EXCEPT !.emergencyStopped = b]]
  PROVE  AddressesKept
<1>1. listOfLocoInfos \in Seq(LocoInfos) /\ listOfLocoInfos[i] \in LocoInfos
  BY DEF TypeOK, ListsOK
<1>2. /\ DOMAIN listOfLocoInfos' = DOMAIN listOfLocoInfos
      /\ \A j \in DOMAIN listOfLocoInfos :
           listOfLocoInfos'[j].address = listOfLocoInfos[j].address
  BY <1>1 DEF LocoInfos
<1> QED BY <1>2 DEF RegisterIntegrity, AddressesKept

(* What a step does to the registers: the queue gains only commands for the  *)
(* register of their locomotive, and the station gets at most one of them.   *)
WillOwnRegister(c) ==
  c.reg \in DOMAIN listOfLocoInfos' /\ listOfLocoInfos'[c.reg].address = c.addr
QueueGains ==
  \A c \in Values(cmdToSend') :
    c \in Values(cmdToSend) \/ (c.kind = "t" => WillOwnRegister(c))
StationGets ==
  \/ UNCHANGED throttle
  \/ \E c \in SpeedCommands : OwnsRegister(c) /\ Sent(c)

LEMMA RegistersKept ==
  ASSUME RegisterIntegrity, AddressesKept, QueueGains, StationGets
  PROVE  RegisterIntegrity'
<1>1. \A c : OwnsRegister(c) => WillOwnRegister(c)
  BY DEF OwnsRegister, WillOwnRegister, AddressesKept
<1>2. \A c \in Values(cmdToSend') : c.kind = "t" => WillOwnRegister(c)
  BY <1>1 DEF QueueGains, RegisterIntegrity
<1>3. \A r \in DOMAIN throttle' : throttle'[r].reg = r /\ WillOwnRegister(throttle'[r])
  <2>0. \A r \in DOMAIN throttle : throttle[r].reg = r /\ WillOwnRegister(throttle[r])
    BY <1>1 DEF RegisterIntegrity
  <2>1. CASE UNCHANGED throttle
    BY <2>0, <2>1
  <2>2. CASE \E c \in SpeedCommands : OwnsRegister(c) /\ Sent(c)
    <3>1. PICK c : OwnsRegister(c) /\ Sent(c)
      BY <2>2
    <3>2. WillOwnRegister(c)
      BY <1>1, <3>1
    <3>3. \A r \in DOMAIN throttle' :
            /\ throttle'[r] = IF r = c.reg THEN c ELSE throttle[r]
            /\ r # c.reg => r \in DOMAIN throttle
      BY <3>1 DEF Sent
    <3> QED BY <2>0, <3>2, <3>3
  <2> QED BY <2>1, <2>2 DEF StationGets
<1>4. \A c : WillOwnRegister(c) <=>
              (c.reg \in DOMAIN listOfLocoInfos' /\ listOfLocoInfos'[c.reg].address = c.addr)
  BY DEF WillOwnRegister
<1> QED BY <1>2, <1>3, <1>4 DEF RegisterIntegrity, AddressesKept, OwnsRegister

(* What the station gets in sendCommand.                                     *)
LEMMA SendKinds ==
  ASSUME TypeOK, NEW c \in QueuedCommands \cup PowerCommands, sendCommand(c)
  PROVE  /\ c.kind # "t" => UNCHANGED throttle
         /\ c.kind = "t" => c \in SpeedCommands /\ Sent(c)
<1>1. c.kind = "t" => c \in SpeedCommands
  BY DEF QueuedCommands, AnsweredCommands, SpeedCommands, FunctionCommands,
         AccessoryCommands, S88Command, PowerCommands, PowerCommand, VersionCommand
<1> QED BY <1>1 DEF sendCommand, Obey, Sent

(* One locomotive stopped past the queue.                                    *)
LEMMA StopKinds ==
  ASSUME TypeOK, RegisterIntegrity, NEW i \in DOMAIN listOfLocoInfos, stopLocoAt(i)
  PROVE  /\ AddressesKept
         /\ \E c \in SpeedCommands :
              OwnsRegister(c) /\ Sent(c) /\ c.speed = -1 /\ c.reg = i
<1> DEFINE c == SpeedCommand(i, listOfLocoInfos[i].address, -1, listOfLocoInfos[i].direction)
<1>1. c \in SpeedCommands
  BY LocoCommandType
<1>2. c.kind = "t" /\ c.reg = i /\ c.addr = listOfLocoInfos[i].address /\ c.speed = -1
  BY DEF SpeedCommand
<1>3. sendCommand(c)
  BY DEF stopLocoAt
<1>4. AddressesKept
  BY MarkKeepsAddresses DEF stopLocoAt
<1> HIDE DEF c
<1>5. Sent(c)
  BY <1>1, <1>2, <1>3, SendKinds DEF QueuedCommands, AnsweredCommands
<1> QED BY <1>1, <1>2, <1>4, <1>5 DEF OwnsRegister

(* A speed command leaves for the station from the queue, by the loop thread *)
(* and while nothing holds the queue; every other one is an emergency stop.  *)
StationGetsSafely ==
  \/ UNCHANGED throttle
  \/ \E c \in SpeedCommands :
       /\ OwnsRegister(c) /\ Sent(c)
       /\ \/ c.speed = -1
          \/ loopPc = "send" /\ loopPc' = "parse" /\ commandStationStatus = 0 /\ UNCHANGED power

LEMMA ThrottleStep == Inductive /\ [Next]_vars => StationGetsSafely
<1> SUFFICES ASSUME Inductive, [Next]_vars PROVE StationGetsSafely
  OBVIOUS
<1> USE DEF Inductive
<1>1. CASE PowerOff \/ ResumeOperations \/ EmergencyStopReturns
  <2>1. PICK on \in BOOLEAN : sendCommand(PowerCommand(on))
    BY <1>1 DEF PowerOff, ResumeOperations, EmergencyStopReturns
  <2>2. PowerCommand(on) \in PowerCommands /\ PowerCommand(on).kind # "t"
    BY DEF PowerCommands, PowerCommand
  <2> QED BY <2>1, <2>2, SendKinds DEF StationGetsSafely
<1>10. CASE CommandStationVersionRequest
  <2>1. sendCommand(VersionCommand)
    BY <1>10 DEF CommandStationVersionRequest
  <2>2. VersionCommand \in PowerCommands /\ VersionCommand.kind # "t"
    BY DEF PowerCommands, VersionCommand
  <2> QED BY <2>1, <2>2, SendKinds DEF StationGetsSafely
<1>2. CASE hostStopsOneLoco
  <2>1. hostIt \in DOMAIN listOfLocoInfos
    BY <1>2 DEF hostStopsOneLoco, end, TypeOK, HostOK, ListsOK
  <2> QED BY <1>2, <2>1, StopKinds DEF hostStopsOneLoco, StationGetsSafely
<1>3. CASE loopStopsOneLoco
  <2>1. loopIt \in DOMAIN listOfLocoInfos
    BY <1>3 DEF loopStopsOneLoco, end, TypeOK, LoopOK, ListsOK
  <2> QED BY <1>3, <2>1, StopKinds DEF loopStopsOneLoco, StationGetsSafely
<1>4. CASE checkCmdToSend
  <2>1. CASE ~MaySend
    BY <1>4, <2>1 DEF checkCmdToSend, stationVars, StationGetsSafely
  <2>2. CASE MaySend
    <3> DEFINE c == Front(cmdToSend)
    <3>1. c \in Values(cmdToSend) /\ c \in QueuedCommands
      BY <2>2, FrontIsValue DEF MaySend, TypeOK, QueuesOK
    <3>2. sendCommand(c) /\ loopPc = "send" /\ loopPc' = "parse" /\ UNCHANGED power
      BY <1>4, <2>2 DEF checkCmdToSend
    <3>3. commandStationStatus = 0
      BY <2>2 DEF MaySend
    <3> HIDE DEF c
    <3>4. c.kind = "t" => OwnsRegister(c)
      BY <3>1 DEF RegisterIntegrity
    <3> QED BY <3>1, <3>2, <3>3, <3>4, SendKinds DEF StationGetsSafely
  <2> QED BY <2>1, <2>2
<1>5. CASE UNCHANGED throttle
  BY <1>5 DEF StationGetsSafely
<1>6. CASE SetSpeed \/ StopLoco \/ CommitSpeed \/ SetF0F4 \/ SetF5F8 \/ SetF9F12
           \/ SetAccessoryState \/ CommandStationStatusRequest
  <2>1. UNCHANGED stationVars
    BY <1>6 DEF SetSpeed, StopLoco, setLocoSpeed, CommitSpeed, SetF0F4, SetF5F8, SetF9F12,
                setLocoFunction, SetAccessoryState, CommandStationStatusRequest
  <2> QED BY <2>1, <1>5 DEF stationVars
<1>7. CASE restartOneLoco \/ ResumeReturns \/ EmergencyStop
           \/ GetNextExpectedResponse \/ GetNextUnExpectedMessage
  <2>1. UNCHANGED stationVars
    BY <1>7 DEF restartOneLoco, ResumeReturns, EmergencyStop, GetNextExpectedResponse,
                GetNextUnExpectedMessage
  <2> QED BY <2>1, <1>5 DEF stationVars
<1>8. CASE receiveMessage \/ receiveReturns \/ parseNothing \/ parsePowerOn \/ parsePowerOff
           \/ parsePing \/ parseVersion \/ parseReply \/ loopRunsWild
  BY <1>8, <1>5 DEF receiveMessage, receiveReturns, parseNothing, parsePowerOn, parsePowerOff,
                    parsePing, parseVersion, parseReply, loopRunsWild, stationVars
<1>11. CASE ReleaseSteps \/ HoldSteps
  BY <1>11, <1>5 DEF ReleaseSteps, HoldSteps, releaseQueue, believePowerOn, loopEnds, reportPowerOff,
                     holdQueue, believePowerOff, GoesOn, stationVars
<1>9. CASE Tick \/ Station \/ UNCHANGED vars
  BY <1>9, <1>5 DEF Tick, Station, vars, stationVars
<1> QED BY <1>1, <1>2, <1>3, <1>4, <1>6, <1>7, <1>8, <1>9, <1>10, <1>11
        DEF Next, Host, Loop, ReleaseSteps, HoldSteps

(* A function command is no speed command, and only saves what it found.     *)
LEMMA FunctionKeepsAddresses ==
  ASSUME TypeOK, RegisterIntegrity, NEW a \in Locos, NEW w \in Nat, NEW mask \in FunctionMasks,
         setLocoFunction(a, w, mask)
  PROVE  AddressesKept /\ \E value \in Nat : cmdToSend' = PushBack(cmdToSend, FunctionCommand(a, value))
<1> DEFINE i == getLocoInfosIndex(a)
           known == i # 0 /\ listOfLocoInfos[i].functions # -1
           value == getLocoFuncValue(IF known THEN w ELSE 0, mask)
<1>1. value \in Nat
  BY FunctionValueType
<1>2. /\ cmdToSend' = PushBack(cmdToSend, FunctionCommand(a, value))
      /\ IF i = 0 THEN saveLocoInfos(0, a, 0, 1, value)
         ELSE saveLocoInfos(i, a, listOfLocoInfos[i].speed, listOfLocoInfos[i].direction, value)
  BY DEF setLocoFunction
<1>3. \E s, d : saveLocoInfos(getLocoInfosIndex(a), a, s, d, value)
  <2> HIDE DEF value
  <2>1. CASE i = 0
    BY <1>2, <2>1
  <2>2. CASE i # 0
    BY <1>2, <2>2
  <2> QED BY <2>1, <2>2
<1> QED BY <1>1, <1>2, <1>3, SaveKeepsAddresses

LEMMA PushGains ==
  ASSUME TypeOK, NEW c \in QueuedCommands, cmdToSend' = PushBack(cmdToSend, c),
         c.kind = "t" => WillOwnRegister(c)
  PROVE  QueueGains
<1>1. Values(cmdToSend') = Values(cmdToSend) \cup {c}
  BY PushBackValues DEF TypeOK, QueuesOK
<1> QED BY <1>1 DEF QueueGains

LEMMA UnchangedGains == ASSUME UNCHANGED cmdToSend PROVE QueueGains
BY DEF QueueGains

LEMMA QueueStep == Inductive /\ [Next]_vars => AddressesKept /\ QueueGains
<1> SUFFICES ASSUME Inductive, [Next]_vars PROVE AddressesKept /\ QueueGains
  OBVIOUS
<1> USE DEF Inductive
<1>1. CASE CommitSpeed
  <2>1. CASE UNCHANGED <<listOfLocoInfos, cmdToSend>>
    BY <2>1, UnchangedKeepsAddresses, UnchangedGains
  <2>2. CASE ~UNCHANGED <<listOfLocoInfos, cmdToSend>>
    <3> DEFINE a == hostArgs.address
               s == hostArgs.speed
               d == hostArgs.direction
               c == SpeedCommand(Register(getLocoInfosIndex(a)), a, s, d)
    <3>1. a \in Locos /\ s \in Nat /\ d \in {0, 1}
      BY <1>1 DEF TypeOK, HostOK, CommitSpeed, SpeedArgs
    <3>2. /\ saveLocoInfos(getLocoInfosIndex(a), a, s, d, -1)
          /\ cmdToSend' = PushBack(cmdToSend, c)
      BY <1>1, <2>2 DEF CommitSpeed
    <3> HIDE DEF a, s, d
    <3>3. /\ AddressesKept
          /\ Register(getLocoInfosIndex(a)) \in DOMAIN listOfLocoInfos'
          /\ listOfLocoInfos'[Register(getLocoInfosIndex(a))].address = a
      BY <3>1, <3>2, SaveKeepsAddresses
    <3>4. Register(getLocoInfosIndex(a)) \in Nat
      BY IndexType DEF TypeOK, ListsOK, Register
    <3>5. c \in QueuedCommands
      BY <3>1, <3>4 DEF SpeedCommand, SpeedCommands, QueuedCommands, AnsweredCommands
    <3>6. WillOwnRegister(c)
      BY <3>3 DEF SpeedCommand, WillOwnRegister
    <3> QED BY <3>2, <3>3, <3>5, <3>6, PushGains
  <2> QED BY <2>1, <2>2
<1>2. CASE SetF0F4 \/ SetF5F8 \/ SetF9F12
  <2>1. PICK a \in Locos, w \in Nat, mask \in FunctionMasks : setLocoFunction(a, w, mask)
    BY <1>2, BridgeAssumption DEF SetF0F4, SetF5F8, SetF9F12, FunctionMasks
  <2>2. PICK value \in Nat : cmdToSend' = PushBack(cmdToSend, FunctionCommand(a, value))
    BY <2>1, FunctionKeepsAddresses
  <2>3. FunctionCommand(a, value) \in QueuedCommands /\ FunctionCommand(a, value).kind # "t"
    BY DEF FunctionCommand, FunctionCommands, QueuedCommands, AnsweredCommands
  <2> QED BY <2>1, <2>2, <2>3, PushGains, FunctionKeepsAddresses
<1>3. CASE SetAccessoryState
  <2>1. PICK a \in Accessories, s \in {0, 1} : cmdToSend' = PushBack(cmdToSend, AccessoryCommand(a, s))
    BY <1>3 DEF SetAccessoryState
  <2>2. AccessoryCommand(a, s) \in QueuedCommands /\ AccessoryCommand(a, s).kind # "t"
    BY DEF AccessoryCommand, AccessoryCommands, QueuedCommands, AnsweredCommands
  <2>3. AddressesKept
    BY <1>3, UnchangedKeepsAddresses DEF SetAccessoryState
  <2> QED BY <2>1, <2>2, <2>3, PushGains
<1>4. CASE ResumeOperations
  <2>1. cmdToSend' = PushBack(cmdToSend, S88Command) /\ S88Command \in QueuedCommands
        /\ S88Command.kind # "t"
    BY <1>4 DEF ResumeOperations, QueuedCommands, S88Command
  <2>2. AddressesKept
    BY <1>4, UnchangedKeepsAddresses DEF ResumeOperations, lists
  <2> QED BY <2>1, <2>2, PushGains
<1>5. CASE restartOneLoco
  <2> DEFINE c == SpeedCommand(hostIt, listOfLocoInfos[hostIt].address,
                               listOfLocoInfos[hostIt].speed, listOfLocoInfos[hostIt].direction)
  <2>1. hostIt \in DOMAIN listOfLocoInfos
    BY <1>5 DEF restartOneLoco, end, TypeOK, HostOK, ListsOK
  <2>2. cmdToSend' = PushBack(cmdToSend, c)
    BY <1>5 DEF restartOneLoco
  <2>3. AddressesKept
    BY <1>5, <2>1, MarkKeepsAddresses DEF restartOneLoco
  <2>4. c \in QueuedCommands
    BY <2>1, LocoCommandType DEF QueuedCommands, AnsweredCommands
  <2>5. WillOwnRegister(c)
    BY <2>1, <2>3 DEF AddressesKept, WillOwnRegister, SpeedCommand
  <2> QED BY <2>2, <2>3, <2>4, <2>5, PushGains
<1>6. CASE hostStopsOneLoco
  <2>1. hostIt \in DOMAIN listOfLocoInfos
    BY <1>6 DEF hostStopsOneLoco, end, TypeOK, HostOK, ListsOK
  <2> QED BY <1>6, <2>1, StopKinds, UnchangedGains DEF hostStopsOneLoco
<1>7. CASE loopStopsOneLoco
  <2>1. loopIt \in DOMAIN listOfLocoInfos
    BY <1>7 DEF loopStopsOneLoco, end, TypeOK, LoopOK, ListsOK
  <2> QED BY <1>7, <2>1, StopKinds, UnchangedGains DEF loopStopsOneLoco
<1>8. CASE checkCmdToSend
  <2>1. AddressesKept
    BY <1>8, UnchangedKeepsAddresses DEF checkCmdToSend, lists
  <2>2. CASE MaySend
    <3>1. cmdToSend' = RemoveEqual(cmdToSend, Front(cmdToSend))
      BY <1>8, <2>2 DEF checkCmdToSend
    <3>2. Values(cmdToSend') \subseteq Values(cmdToSend)
      BY <3>1, RemoveEqualValues DEF TypeOK, QueuesOK
    <3> QED BY <2>1, <3>2 DEF QueueGains
  <2>3. CASE ~MaySend
    BY <1>8, <2>1, <2>3, UnchangedGains DEF checkCmdToSend, queues
  <2> QED BY <2>2, <2>3
<1>9. CASE UNCHANGED <<listOfLocoInfos, cmdToSend>>
  BY <1>9, UnchangedKeepsAddresses, UnchangedGains
<1>10. CASE SetSpeed \/ StopLoco \/ CommandStationStatusRequest \/ PowerOff \/ ResumeReturns
            \/ EmergencyStop \/ EmergencyStopReturns \/ GetNextExpectedResponse
            \/ GetNextUnExpectedMessage \/ CommandStationVersionRequest
  BY <1>10, <1>9 DEF CommandStationVersionRequest, SetSpeed, StopLoco, setLocoSpeed, CommandStationStatusRequest, PowerOff,
     ResumeReturns, EmergencyStop, EmergencyStopReturns, GetNextExpectedResponse,
     GetNextUnExpectedMessage, shared, queues, lists
<1>11. CASE receiveMessage \/ receiveReturns \/ parseNothing \/ parsePowerOn \/ parsePowerOff
            \/ parsePing \/ parseVersion \/ parseReply \/ loopRunsWild
  BY <1>11, <1>9 DEF receiveMessage, receiveReturns, parseNothing, parsePowerOn, parsePowerOff,
     parsePing, parseVersion, parseReply, loopRunsWild, shared, queues, lists
<1>13. CASE ReleaseSteps \/ HoldSteps
  BY <1>13, <1>9 DEF ReleaseSteps, HoldSteps, releaseQueue, believePowerOn, loopEnds, reportPowerOff,
     holdQueue, believePowerOff, GoesOn, queues, lists
<1>12. CASE Tick \/ Station \/ UNCHANGED vars
  BY <1>12, <1>9 DEF Tick, Station, vars, shared, queues, lists
<1> QED BY <1>1, <1>2, <1>3, <1>4, <1>5, <1>6, <1>7, <1>8, <1>10, <1>11, <1>12, <1>13
        DEF Next, Host, Loop, ReleaseSteps, HoldSteps

(* The loop thread alone changes the power flags and its own place.          *)
HandlerPlaces == {"stopping", "reporting", "raising", "lowering", "powering"}
LoopAtRest ==
  /\ UNCHANGED power
  /\ loopPc' \in HandlerPlaces => loopPc' = loopPc /\ loopIt' = loopIt
  /\ loopPc = "lowering" => loopPc' = loopPc

LEMMA PowerStep ==
  Inductive /\ [Next]_vars =>
    LoopAtRest \/ ReleaseSteps \/ parsePowerOff \/ HoldSteps \/ loopStopsOneLoco
<1> SUFFICES ASSUME [Next]_vars,
                    ~(ReleaseSteps \/ parsePowerOff \/ HoldSteps \/ loopStopsOneLoco)
             PROVE  LoopAtRest
  OBVIOUS
<1> USE DEF HandlerPlaces
<1>1. CASE SetSpeed \/ StopLoco \/ CommitSpeed \/ SetF0F4 \/ SetF5F8 \/ SetF9F12
           \/ SetAccessoryState \/ CommandStationStatusRequest \/ PowerOff
           \/ CommandStationVersionRequest
  BY <1>1 DEF SetSpeed, StopLoco, setLocoSpeed, CommitSpeed, SetF0F4, SetF5F8, SetF9F12,
     setLocoFunction, SetAccessoryState, CommandStationStatusRequest, PowerOff,
     CommandStationVersionRequest, ReturnsAtOnce,
     LoopAtRest, shared, power, loopVars
<1>2. CASE ResumeOperations \/ restartOneLoco \/ ResumeReturns \/ EmergencyStop
           \/ hostStopsOneLoco \/ EmergencyStopReturns \/ GetNextExpectedResponse
           \/ GetNextUnExpectedMessage
  BY <1>2 DEF ResumeOperations, restartOneLoco, ResumeReturns, EmergencyStop, hostStopsOneLoco,
     EmergencyStopReturns, GetNextExpectedResponse, GetNextUnExpectedMessage, LoopAtRest,
     shared, power, loopVars
<1>3. CASE receiveMessage \/ receiveReturns \/ checkCmdToSend \/ parseNothing \/ parsePing
           \/ parseVersion \/ parseReply \/ parsePowerOn \/ loopRunsWild
  BY <1>3 DEF receiveMessage, receiveReturns, checkCmdToSend, parseNothing, parsePing, parseVersion,
     parseReply, parsePowerOn, loopRunsWild, Take, LoopAtRest, shared, power
<1>4. CASE Tick \/ Station \/ UNCHANGED vars
  BY <1>4 DEF Tick, Station, vars, LoopAtRest, shared, power, loopVars
<1> QED BY <1>1, <1>2, <1>3, <1>4 DEF Next, Host, Loop, ReleaseSteps, HoldSteps

(* A step that stops locomotives, drives none that the loop has passed, and  *)
(* holds the queue only at the end of the list.                              *)
LEMMA StopStep ==
  Inductive /\ [Next]_vars => GateFollowsPower' /\ StoppedWhileHeld' /\ StopsSoFar'
                               /\ ReleasedFirst'
<1> SUFFICES ASSUME Inductive, [Next]_vars
             PROVE  GateFollowsPower' /\ StoppedWhileHeld' /\ StopsSoFar' /\ ReleasedFirst'
  OBVIOUS
<1> USE DEF Inductive, GateFollowsPower, StoppedWhileHeld, StopsSoFar, ReleasedFirst
<1>1. \A r \in DOMAIN throttle : r \in 1..Len(listOfLocoInfos)
  BY DEF RegisterIntegrity, OwnsRegister, TypeOK, ListsOK
<1>2. CASE releaseQueue
  <2>1. /\ loopPc' = "powering" /\ commandStationStatus' = 0
        /\ powerOn' = powerOn /\ throttle' = throttle
    BY <1>2 DEF releaseQueue, GoesOn, stationVars
  <2> QED BY <2>1
<1>7. CASE believePowerOn
  <2>1. /\ loopPc = "powering" /\ loopPc' = "receive" /\ throttle' = throttle
        /\ commandStationStatus' = commandStationStatus
    BY <1>7 DEF believePowerOn, GoesOn, stationVars
  <2> QED BY <2>1
<1>3. CASE parsePowerOff
  <2>1. UNCHANGED <<powerOn, commandStationStatus, throttle>>
    BY <1>3 DEF parsePowerOff, power, stationVars
  <2>2. /\ loopPc' = "stopping" => powerOn /\ loopIt' = 1
        /\ loopPc' \in {"stopping", "receive"} /\ loopPc = "parse"
    BY <1>3 DEF parsePowerOff, NewPowerLoss, Take
  <2> QED BY <1>1, <2>1, <2>2
<1>4. CASE loopEnds
  <2>1. /\ loopPc = "stopping" /\ loopPc' = "reporting" /\ loopIt >= Len(listOfLocoInfos) + 1
        /\ UNCHANGED <<powerOn, commandStationStatus, throttle>>
    BY <1>4 DEF loopEnds, GoesOn, power, stationVars, end
  <2>2. \A r \in DOMAIN throttle : throttle[r].speed = -1
    BY <1>1, <2>1 DEF TypeOK, LoopOK, ListsOK
  <2> QED BY <2>1, <2>2
<1>8. CASE reportPowerOff
  <2>1. /\ loopPc = "reporting" /\ loopPc' = "raising"
        /\ UNCHANGED <<powerOn, commandStationStatus, throttle>>
    BY <1>8 DEF reportPowerOff, GoesOn, power, stationVars
  <2> QED BY <2>1
<1>9. CASE holdQueue
  <2>1. /\ loopPc = "raising" /\ loopPc' = "lowering"
        /\ commandStationStatus' = commandStationStatus + 1
        /\ UNCHANGED <<powerOn, throttle>>
    BY <1>9 DEF holdQueue, GoesOn, stationVars
  <2> QED BY <2>1
<1>10. CASE believePowerOff
  <2>1. /\ loopPc = "lowering" /\ loopPc' = "receive" /\ powerOn' = FALSE
        /\ UNCHANGED <<commandStationStatus, throttle>>
    BY <1>10 DEF believePowerOff, GoesOn, stationVars
  <2> QED BY <2>1
<1>5. CASE loopStopsOneLoco
  <2>1. loopIt \in DOMAIN listOfLocoInfos
    BY <1>5 DEF loopStopsOneLoco, end, TypeOK, LoopOK, ListsOK
  <2>2. PICK c \in SpeedCommands : Sent(c) /\ c.speed = -1 /\ c.reg = loopIt
    BY <1>5, <2>1, StopKinds DEF loopStopsOneLoco
  <2>3. /\ UNCHANGED <<powerOn, commandStationStatus, loopPc>> /\ loopIt' = loopIt + 1
        /\ loopPc = "stopping"
    BY <1>5 DEF loopStopsOneLoco, power
  <2>4. \A r \in DOMAIN throttle' :
          /\ r \in 1..Len(listOfLocoInfos)
          /\ throttle'[r] = IF r = loopIt THEN c ELSE throttle[r]
          /\ r # loopIt => r \in DOMAIN throttle
    BY <1>1, <2>1, <2>2 DEF Sent, TypeOK, ListsOK
  <2>5. loopIt \in Nat
    BY DEF TypeOK, LoopOK
  <2>6. \A r \in DOMAIN throttle' : r < loopIt' => throttle'[r].speed = -1
    BY <2>2, <2>3, <2>4, <2>5
  <2>7. commandStationStatus = 0
    BY <2>3
  <2> QED BY <2>3, <2>6, <2>7
<1>6. CASE LoopAtRest
  <2>1. UNCHANGED <<powerOn, commandStationStatus>> /\ GateFollowsPower' /\ ReleasedFirst'
    BY <1>6 DEF LoopAtRest, power, HandlerPlaces
  <2>2. CASE UNCHANGED throttle
    BY <1>6, <2>1, <2>2 DEF LoopAtRest, HandlerPlaces
  <2>3. CASE \E c \in SpeedCommands : Sent(c) /\ c.speed = -1
    <3>1. \A r \in DOMAIN throttle' : throttle'[r].speed = -1 \/ (r \in DOMAIN throttle /\ throttle'[r] = throttle[r])
      BY <2>3 DEF Sent
    <3> QED BY <1>6, <2>1, <3>1 DEF LoopAtRest, HandlerPlaces
  <2>4. CASE loopPc' = "parse" /\ commandStationStatus = 0
    BY <2>1, <2>4
  <2> QED BY <2>1, <2>2, <2>3, <2>4, ThrottleStep DEF StationGetsSafely
<1> QED BY <1>2, <1>3, <1>4, <1>5, <1>6, <1>7, <1>8, <1>9, <1>10, PowerStep DEF ReleaseSteps, HoldSteps

LEMMA InductiveInit == Init => Inductive
<1> SUFFICES ASSUME Init PROVE Inductive
  OBVIOUS
<1>1. TypeOK
  BY TypeInit
<1>2. GateFollowsPower /\ StoppedWhileHeld /\ StopsSoFar /\ ReleasedFirst
  BY DEF Init, Empty, GateFollowsPower, StoppedWhileHeld, StopsSoFar, ReleasedFirst
<1>3. RegisterIntegrity
  BY EmptyIsNodeList DEF Init, RegisterIntegrity, Empty, Values
<1> QED BY <1>1, <1>2, <1>3 DEF Inductive

LEMMA InductiveStep == Inductive /\ [Next]_vars => Inductive'
<1> SUFFICES ASSUME Inductive, [Next]_vars PROVE Inductive'
  OBVIOUS
<1>1. TypeOK'
  BY TypeStep DEF Inductive
<1>2. StationGets
  BY ThrottleStep DEF StationGets, StationGetsSafely
<1>3. RegisterIntegrity'
  BY <1>2, QueueStep, RegistersKept DEF Inductive
<1> QED BY <1>1, <1>3, StopStep DEF Inductive

LEMMA InductiveInvariant == Spec => []Inductive
<1> QED BY InductiveInit, InductiveStep, PTL DEF Spec

(* The status counts one loss of power at most, and a driver that believes   *)
(* the track on holds its queue only between the assignment of the status    *)
(* and that of powerOn at the end of handleCommandStationStatus(-1).         *)
THEOREM GateCorrect == Spec => []GateFollowsPower
<1>1. Inductive => GateFollowsPower
  BY DEF Inductive
<1> QED BY <1>1, InductiveInvariant, PTL

(* While the queue is held, every register of the station is at an emergency *)
(* stop.                                                                     *)
THEOREM HeldMeansStopped == Spec => []StoppedWhileHeld
<1>1. Inductive => StoppedWhileHeld
  BY DEF Inductive
<1> QED BY <1>1, InductiveInvariant, PTL

(* What the loop thread has passed while it stops the locomotives stays      *)
(* stopped, and all of them until the queue is held.                         *)
THEOREM StopsAreKept == Spec => []StopsSoFar
<1>1. Inductive => StopsSoFar
  BY DEF Inductive
<1> QED BY <1>1, InductiveInvariant, PTL

(* A register belongs to one locomotive, in the list, in the queue and at    *)
(* the station.                                                              *)
THEOREM RegistersAreOwned == Spec => []RegisterIntegrity
<1>1. Inductive => RegisterIntegrity
  BY DEF Inductive
<1> QED BY <1>1, InductiveInvariant, PTL
-----------------------------------------------------------------------------
(* The driver implements TrackGate.                                          *)

(* A speed command drives or stops the locomotive it names and no other: the *)
(* register it takes is that locomotive's alone.                             *)
LEMMA DrivenAfter ==
  ASSUME Inductive, NEW c \in SpeedCommands, OwnsRegister(c), Sent(c)
  PROVE  Driven' = IF c.speed = -1 THEN Driven \ {c.addr} ELSE Driven \cup {c.addr}
<1> DEFINE Moves(t, r) == r \in DOMAIN t /\ t[r].speed # -1
<1>1. \A l : l \in Driven <=> \E r : Moves(throttle, r) /\ throttle[r].addr = l
  BY DEF Driven
<1>2. \A l : l \in Driven' <=> \E r : Moves(throttle', r) /\ throttle'[r].addr = l
  BY DEF Driven
<1>3. \A r \in DOMAIN throttle : r = c.reg <=> throttle[r].addr = c.addr
  <2>1. \A i, j \in DOMAIN listOfLocoInfos :
          listOfLocoInfos[i].address = listOfLocoInfos[j].address => i = j
    BY DEF Inductive, RegisterIntegrity
  <2>2. \A r \in DOMAIN throttle :
          r \in DOMAIN listOfLocoInfos /\ listOfLocoInfos[r].address = throttle[r].addr
    BY DEF Inductive, RegisterIntegrity, OwnsRegister
  <2>3. c.reg \in DOMAIN listOfLocoInfos /\ listOfLocoInfos[c.reg].address = c.addr
    BY DEF OwnsRegister
  <2> QED BY <2>1, <2>2, <2>3
<1>4. /\ DOMAIN throttle' = DOMAIN throttle \cup {c.reg}
      /\ throttle'[c.reg] = c
      /\ \A r \in DOMAIN throttle : r # c.reg => throttle'[r] = throttle[r]
  BY DEF Sent
<1>5. \A r : Moves(throttle', r) <=>
        \/ r = c.reg /\ c.speed # -1
        \/ r # c.reg /\ Moves(throttle, r)
  BY <1>4
<1> HIDE DEF Moves
<1>6. \A r : Moves(throttle, r) => r \in DOMAIN throttle
  BY DEF Moves
<1>7. \A l : l \in Driven' <=> (IF l = c.addr THEN c.speed # -1 ELSE l \in Driven)
  <2> TAKE l
  <2>1. CASE l = c.addr
    BY <1>2, <1>3, <1>4, <1>5, <1>6, <2>1
  <2>2. CASE l # c.addr
    BY <1>1, <1>2, <1>3, <1>4, <1>5, <1>6, <2>2
  <2> QED BY <2>1, <2>2
<1>8. CASE c.speed = -1
  BY <1>7, <1>8
<1>9. CASE c.speed # -1
  BY <1>7, <1>9
<1> QED BY <1>8, <1>9

LEMMA GateInit == Init => Gate!Init
BY DEF Init, Empty, Gate!Init, Driven

LEMMA GateStep == Inductive /\ [Next]_vars => [Gate!Next]_(Gate!gate)
<1> SUFFICES ASSUME Inductive, [Next]_vars PROVE [Gate!Next]_(Gate!gate)
  OBVIOUS
<1> USE DEF Gate!Next, Gate!gate, Gate!Drive, Gate!Stop, Gate!Hold, Gate!Release
<1>1. UNCHANGED throttle => UNCHANGED Driven
  BY DEF Driven
<1>2. CASE ReleaseSteps
  <2>1. /\ UNCHANGED throttle
        /\ commandStationStatus' = 0 \/ UNCHANGED commandStationStatus
    BY <1>2 DEF ReleaseSteps, releaseQueue, believePowerOn, GoesOn, stationVars
  <2> QED BY <1>1, <2>1
<1>3. CASE HoldSteps
  <2>1. UNCHANGED throttle
    BY <1>3 DEF HoldSteps, loopEnds, reportPowerOff, holdQueue, believePowerOff, GoesOn, stationVars
  <2>2. CASE UNCHANGED commandStationStatus
    BY <1>1, <2>1, <2>2
  <2>3. CASE holdQueue
    <3>1. loopPc = "raising" /\ commandStationStatus' = commandStationStatus + 1
      BY <2>3 DEF holdQueue, GoesOn
    <3>2. Driven = {}
      BY <3>1 DEF Driven, Inductive, StopsSoFar
    <3>3. commandStationStatus' # 0
      BY <3>1 DEF Inductive, TypeOK, PowerOK
    <3> QED BY <1>1, <2>1, <3>2, <3>3
  <2> QED BY <1>3, <2>2, <2>3 DEF HoldSteps, loopEnds, reportPowerOff, believePowerOff, power
<1>4. CASE parsePowerOff
  BY <1>1, <1>4 DEF parsePowerOff, power, stationVars
<1>5. CASE LoopAtRest \/ loopStopsOneLoco
  <2>1. UNCHANGED commandStationStatus
    BY <1>5 DEF LoopAtRest, loopStopsOneLoco, power
  <2>2. CASE UNCHANGED throttle
    BY <1>1, <2>1, <2>2
  <2>3. ASSUME NEW c \in SpeedCommands, OwnsRegister(c), Sent(c),
               c.speed = -1 \/ commandStationStatus = 0
        PROVE  [Gate!Next]_(Gate!gate)
    <3>1. c.addr \in Locos
      BY DEF SpeedCommands
    <3>2. CASE c.speed = -1
      BY <2>1, <2>3, <3>1, <3>2, DrivenAfter
    <3>3. CASE c.speed # -1
      BY <2>1, <2>3, <3>1, <3>3, DrivenAfter
    <3> QED BY <3>2, <3>3
  <2> QED BY <2>2, <2>3, ThrottleStep DEF StationGetsSafely
<1> QED BY <1>2, <1>3, <1>4, <1>5, PowerStep

(* The driver, with its queue, its list and its two threads, is a gate that  *)
(* closes only when nothing is driven and lets nothing through while closed. *)
THEOREM DriverImplementsGate == Spec => GateSpec
<1> QED BY InductiveInvariant, GateInit, GateStep, PTL DEF Spec, GateSpec, Gate!Spec
=============================================================================
