----------------------------- MODULE Detectors -----------------------------
(* S88 detectors.  The station tells the state of all detectors in one       *)
(* message <y ...>, four detectors (a nibble) to a character.  The loop      *)
(* thread compares it with detectorStates and reports the nibbles that       *)
(* changed to CDM-Rail, at most eight to an event: it pushes a blank event   *)
(* and fills it in place.  Meanwhile the host thread may resume operations,  *)
(* which clears detectorStates, and it copies the first event and erases it, *)
(* filled or not.                                                            *)
(*                                                                           *)
(* detectorStates is modelled as the memory of the std::string, terminator   *)
(* included: clearing writes the terminator at 0 and keeps the allocation,   *)
(* push_back moves it up, and operator[] reads and writes beyond it.         *)
EXTENDS Integers, Sequences, NodeList

CONSTANTS
  Modes,          \* how the station may be reached: "usb", "wifi", "emulation"
  ModuleCount,    \* DCCpp::detectorsModuleCount, two nibbles to a module
  DGI_MAX_DATA_ITEMS,  \* the items of a message to CDM-Rail, 8 in the code
  Layouts,        \* by mode, the states of all detectors the station goes through
  AskedFor,       \* detector addresses CDM-Rail asks for, in emulation
  WifiBurst,      \* bound: messages dispatched by one poll
  MaxResumes,     \* bound, by mode: calls of ResumeOperations
  MaxChanges      \* bound, by mode: changes of the layout, and requests

NibbleCount == ModuleCount * 2
Nibbles == 0..(NibbleCount - 1)
States == [Nibbles -> 0..15]
NUL == -1
Anything == -2    \* what was never written and is read all the same
AllClear == [n \in Nibbles |-> 0]

ASSUME DetectorsAssumption ==
  /\ Modes \subseteq {"usb", "wifi", "emulation"}
  /\ ModuleCount \in Nat \ {0} /\ DGI_MAX_DATA_ITEMS \in Nat \ {0}
  /\ Layouts \in [Modes -> SUBSET States] /\ MaxResumes \in [Modes -> Nat]
  /\ AskedFor \subseteq 1..(4 * NibbleCount)
  /\ WifiBurst \in Nat /\ MaxChanges \in [Modes -> Nat]

VARIABLES
  mode,                     \* usbMode and emulation, which a session does not change
  detectorStates, filled,   \* the string's memory, and its length
  initQueued,               \* <Y ...> is in cmdToSend
  cmdToParse,               \* the <y ...> messages waiting
  listOfUnexpectedFbMsg,    \* the reports waiting
  hostPc, loopPc, received,
  command, at, posOfs88NibblesChanges, nbOfReports, offset,  \* of the update
  FbIndex, item,            \* of the report in hand: its place in the list, and the items filled
  reported,                 \* what CDM-Rail believes of each nibble
  detectors, line,          \* the station: its detectors, and what it has sent
  resumes, changes          \* the bounds

string == <<detectorStates, filled>>
update == <<command, at, posOfs88NibblesChanges, nbOfReports, offset, FbIndex, item>>
station == <<detectors, line>>
bounds == <<resumes, changes>>
vars == <<mode, string, initQueued, cmdToParse, listOfUnexpectedFbMsg, hostPc, loopPc, received,
          update, reported, station, bounds>>

Item == [nAddress : {4 * n : n \in Nibbles}, hData : 0..15]
Event == [described : BOOLEAN, xDataItem : Seq(Item), nNbDataItems : Int]

TypeOK ==
  /\ mode \in Modes
  /\ detectorStates \in [0..NibbleCount -> {NUL} \cup 0..15] /\ filled \in 0..NibbleCount
  /\ initQueued \in BOOLEAN
  /\ IsNodeList(cmdToParse, States)
  /\ listOfUnexpectedFbMsg \in Seq(Event)
  /\ hostPc \in {"idle", "clearing", "copied"}
  /\ loopPc \in {"receive", "send", "parse", "compare", "report", "describe", "fill"}
  /\ received \in 0..WifiBurst + 1
  /\ command \in States /\ at \in 0..NibbleCount
  /\ posOfs88NibblesChanges \in Seq(Nibbles)
  /\ nbOfReports \in Nat /\ (loopPc \in {"describe", "fill"} => nbOfReports # 0)
  /\ offset \in Nat /\ FbIndex \in Nat /\ item \in Nat
  /\ reported \in [Nibbles -> {Anything} \cup 0..15] /\ detectors \in States /\ line \in Seq(States)
  /\ resumes \in 0..MaxResumes[mode] /\ changes \in 0..MaxChanges[mode]

(* A session in which operations have been resumed once: the string has its  *)
(* full length, and nothing is occupied.                                     *)
Init ==
  /\ mode \in Modes
  /\ detectorStates = [n \in 0..NibbleCount |-> IF n = NibbleCount THEN NUL ELSE 0]
  /\ filled = NibbleCount /\ initQueued = TRUE
  /\ cmdToParse = Empty /\ listOfUnexpectedFbMsg = <<>>
  /\ hostPc = "idle" /\ loopPc = "receive" /\ received = 0
  /\ command = AllClear /\ at = 0 /\ posOfs88NibblesChanges = <<>>
  /\ nbOfReports = 0 /\ offset = 0 /\ FbIndex = 0 /\ item = 0
  /\ reported = AllClear /\ detectors = AllClear /\ line = <<>>
  /\ resumes = 0 /\ changes = 0
-----------------------------------------------------------------------------
(* The host thread.  initS88: the states are emptied, refilled with zeros    *)
(* one at a time, and then the station is asked for its own.                 *)
initS88 ==
  /\ hostPc = "idle" /\ resumes < MaxResumes[mode] /\ resumes' = resumes + 1
  /\ detectorStates' = [detectorStates EXCEPT ![0] = NUL] /\ filled' = 0
  /\ hostPc' = "clearing"
  /\ UNCHANGED <<initQueued, cmdToParse, listOfUnexpectedFbMsg, loopPc, received, update, reported,
                 station, changes>>

clearOneTooMany ==
  /\ hostPc = "clearing" /\ filled <= NibbleCount
  /\ detectorStates' = [detectorStates EXCEPT ![filled] = 0]
  /\ filled' = filled + 1
  /\ UNCHANGED <<initQueued, cmdToParse, listOfUnexpectedFbMsg, hostPc, loopPc, received, update,
                 reported, station, bounds>>
clearOneState ==
  /\ hostPc = "clearing" /\ filled < NibbleCount
  /\ detectorStates' = [detectorStates EXCEPT ![filled] = 0, ![filled + 1] = NUL]
  /\ filled' = filled + 1
  /\ UNCHANGED <<initQueued, cmdToParse, listOfUnexpectedFbMsg, hostPc, loopPc, received, update,
                 reported, station, bounds>>

returnsWithoutAsking ==
  /\ hostPc = "clearing" /\ filled = NibbleCount /\ hostPc' = "idle"
  /\ UNCHANGED <<string, initQueued, cmdToParse, listOfUnexpectedFbMsg, loopPc, received, update,
                 reported, station, bounds>>
initS88Returns ==
  /\ hostPc = "clearing" /\ filled = NibbleCount
  /\ initQueued' = TRUE /\ hostPc' = "idle"
  /\ UNCHANGED <<string, cmdToParse, listOfUnexpectedFbMsg, loopPc, received, update, reported,
                 station, bounds>>

(* DDGL_DetectorInfoRequest, which does something in emulation only: the     *)
(* detector asked for is occupied, and no other.                             *)
Bit == <<1, 2, 4, 8>>
emulNibble(address) ==
  [n \in Nibbles |-> IF n = (address - 1) \div 4 THEN Bit[((address - 1) % 4) + 1] ELSE 0]

DetectorInfoRequest == \E address \in AskedFor :
  /\ mode = "emulation" /\ hostPc = "idle" /\ changes < MaxChanges[mode] /\ changes' = changes + 1
  /\ cmdToParse' = PushBack(cmdToParse, emulNibble(address))
  /\ UNCHANGED <<string, initQueued, listOfUnexpectedFbMsg, hostPc, loopPc, received, update,
                 reported, station, resumes>>

(* CDM-Rail takes a report and believes it: copyFbMsgToGenericData, then     *)
(* removeFeedbackMsg.  The fields of an event are not initialised: what      *)
(* CDM-Rail makes of one that is not complete is anyone's guess.             *)
Complete(event) == event.described /\ event.nNbDataItems # Anything
Believed(event) ==
  LET items == event.xDataItem
         Of(n) == {k \in DOMAIN items : k <= event.nNbDataItems /\ items[k].nAddress = 4 * n}
  IN  [n \in Nibbles |-> IF ~Complete(event) THEN Anything
                         ELSE IF Of(n) = {} THEN reported[n]
                         ELSE items[Latest(Of(n))].hData]

copyFbMsgToGenericData ==
  /\ hostPc = "idle" /\ listOfUnexpectedFbMsg # <<>> /\ hostPc' = "copied"
  /\ reported' = Believed(Head(listOfUnexpectedFbMsg))
  /\ UNCHANGED <<string, initQueued, cmdToParse, listOfUnexpectedFbMsg, loopPc, received, update,
                 station, bounds>>

removeFeedbackMsg ==
  /\ hostPc = "copied" /\ hostPc' = "idle"
  /\ listOfUnexpectedFbMsg' = Tail(listOfUnexpectedFbMsg)
  /\ UNCHANGED <<string, initQueued, cmdToParse, loopPc, received, update, reported, station, bounds>>

GetNextUnExpectedMessage == copyFbMsgToGenericData \/ removeFeedbackMsg

Host == initS88 \/ clearOneState \/ initS88Returns \/ DetectorInfoRequest \/ GetNextUnExpectedMessage
-----------------------------------------------------------------------------
(* The loop thread.                                                          *)
Burst == CASE mode = "usb" -> 1 [] mode = "wifi" -> WifiBurst [] mode = "emulation" -> 0

receiveMessage ==
  /\ loopPc = "receive" /\ received < Burst /\ line # <<>>
  /\ cmdToParse' = PushBack(cmdToParse, Head(line)) /\ line' = Tail(line)
  /\ received' = received + 1
  /\ UNCHANGED <<string, initQueued, listOfUnexpectedFbMsg, hostPc, loopPc, update, reported,
                 detectors, bounds>>

receiveReturns ==
  /\ loopPc = "receive" /\ loopPc' = "send" /\ received' = 0
  /\ UNCHANGED <<string, initQueued, cmdToParse, listOfUnexpectedFbMsg, hostPc, update, reported,
                 station, bounds>>

(* checkCmdToSend, as far as INIT_S88 goes; the timer or a hold may keep it. *)
(* A station answers with its states; the emulator looks for "<y" and leaves *)
(* "<Y" unanswered.                                                          *)
sendNothing ==
  /\ loopPc = "send" /\ loopPc' = "parse"
  /\ UNCHANGED <<string, initQueued, cmdToParse, listOfUnexpectedFbMsg, hostPc, received, update,
                 reported, station, bounds>>

sendInitS88 ==
  /\ loopPc = "send" /\ loopPc' = "parse" /\ initQueued /\ initQueued' = FALSE
  /\ line' = IF mode = "emulation" THEN line ELSE Append(line, detectors)
  /\ UNCHANGED <<string, cmdToParse, listOfUnexpectedFbMsg, hostPc, received, update, reported,
                 detectors, bounds>>

parseNothing ==
  /\ loopPc = "parse" /\ IsEmpty(cmdToParse) /\ loopPc' = "receive"
  /\ UNCHANGED <<string, initQueued, cmdToParse, listOfUnexpectedFbMsg, hostPc, received, update,
                 reported, station, bounds>>

parseUpdate ==
  /\ loopPc = "parse" /\ ~IsEmpty(cmdToParse)
  /\ command' = Front(cmdToParse) /\ cmdToParse' = RemoveEqual(cmdToParse, Front(cmdToParse))
  /\ at' = 0 /\ posOfs88NibblesChanges' = <<>> /\ offset' = 0 /\ loopPc' = "compare"
  /\ UNCHANGED <<string, initQueued, listOfUnexpectedFbMsg, hostPc, received, nbOfReports, FbIndex,
                 item, reported, station, bounds>>

(* handleDetectorUpdate: the loop over the nibbles.                          *)
compareNibble ==
  /\ loopPc = "compare" /\ at < NibbleCount /\ at' = at + 1
  /\ IF detectorStates[at] # command[at]
     THEN /\ detectorStates' = [detectorStates EXCEPT ![at] = command[at]]
          /\ posOfs88NibblesChanges' = Append(posOfs88NibblesChanges, at)
     ELSE UNCHANGED <<detectorStates, posOfs88NibblesChanges>>
  /\ UNCHANGED <<filled, initQueued, cmdToParse, listOfUnexpectedFbMsg, hostPc, loopPc, received,
                 command, nbOfReports, offset, FbIndex, item, reported, station, bounds>>

(* How many reports: integer division, which rounds down.                    *)
FullReports(nbOfChanges) == nbOfChanges \div DGI_MAX_DATA_ITEMS
OneMoreReport(nbOfChanges) == nbOfChanges \div DGI_MAX_DATA_ITEMS + 1
ReportsFor(nbOfChanges) ==
  IF nbOfChanges = 0 THEN 0
  ELSE IF nbOfChanges > DGI_MAX_DATA_ITEMS THEN nbOfChanges \div DGI_MAX_DATA_ITEMS ELSE 1

countReports ==
  /\ loopPc = "compare" /\ at = NibbleCount
  /\ nbOfReports' = ReportsFor(Len(posOfs88NibblesChanges))
  /\ loopPc' = "report"
  /\ UNCHANGED <<string, initQueued, cmdToParse, listOfUnexpectedFbMsg, hostPc, received, command,
                 at, posOfs88NibblesChanges, offset, FbIndex, item, reported, station, bounds>>

DecimalDigit(char) == IF char \in 0..9 THEN char ELSE 0
ascii2Hex(char) == IF char = NUL THEN 0 ELSE char

(* One turn of the loop over the reports.  nbOfChanges is what is left, the  *)
(* changes beyond offset.  A write behind the last event goes to memory the  *)
(* vector keeps and no event uses.                                           *)
ItemCount ==
  LET nbOfChanges == Len(posOfs88NibblesChanges) - offset
  IN  IF nbOfChanges > DGI_MAX_DATA_ITEMS THEN DGI_MAX_DATA_ITEMS ELSE nbOfChanges

Blank == [described |-> FALSE, xDataItem |-> <<>>, nNbDataItems |-> Anything]
InHand == listOfUnexpectedFbMsg[FbIndex]
Write(event) ==
  listOfUnexpectedFbMsg' = IF FbIndex \in DOMAIN listOfUnexpectedFbMsg
                           THEN [listOfUnexpectedFbMsg EXCEPT ![FbIndex] = event]
                           ELSE listOfUnexpectedFbMsg

saveFeedbackMsg ==
  /\ loopPc = "report" /\ nbOfReports # 0 /\ loopPc' = "describe"
  /\ listOfUnexpectedFbMsg' = Append(listOfUnexpectedFbMsg, Blank)
  /\ FbIndex' = Len(listOfUnexpectedFbMsg) + 1
  /\ UNCHANGED <<string, initQueued, cmdToParse, hostPc, received, command, at,
                 posOfs88NibblesChanges, nbOfReports, offset, item, reported, station, bounds>>

handleCommandStationFb ==
  /\ loopPc = "describe" /\ loopPc' = "fill" /\ item' = 0
  /\ Write([InHand EXCEPT !.described = TRUE])
  /\ UNCHANGED <<string, initQueued, cmdToParse, hostPc, received, command, at,
                 posOfs88NibblesChanges, nbOfReports, offset, FbIndex, reported, station, bounds>>

fillItem ==
  /\ loopPc = "fill" /\ item < ItemCount /\ item' = item + 1
  /\ LET nibbleIndex == posOfs88NibblesChanges[item + 1 + offset]
     IN  Write([InHand EXCEPT !.xDataItem =
                  Append(@, [nAddress |-> 4 * nibbleIndex,
                             hData |-> ascii2Hex(detectorStates[nibbleIndex])])])
  /\ UNCHANGED <<string, initQueued, cmdToParse, hostPc, loopPc, received, command, at,
                 posOfs88NibblesChanges, nbOfReports, offset, FbIndex, reported, station, bounds>>

setNbDataItems ==
  /\ loopPc = "fill" /\ item >= ItemCount /\ loopPc' = "report"
  /\ Write([InHand EXCEPT !.nNbDataItems = ItemCount])
  /\ offset' = offset + DGI_MAX_DATA_ITEMS /\ nbOfReports' = nbOfReports - 1
  /\ FbIndex' = 0 /\ item' = 0    \* both are set anew before they are used
  /\ UNCHANGED <<string, initQueued, cmdToParse, hostPc, received, command, at,
                 posOfs88NibblesChanges, reported, station, bounds>>

reportChanges == saveFeedbackMsg \/ handleCommandStationFb \/ fillItem \/ setNbDataItems

updateReturns ==
  /\ loopPc = "report" /\ nbOfReports = 0 /\ loopPc' = "receive"
  /\ command' = AllClear /\ at' = 0 /\ posOfs88NibblesChanges' = <<>> /\ offset' = 0
  /\ UNCHANGED <<string, initQueued, cmdToParse, listOfUnexpectedFbMsg, hostPc, received,
                 nbOfReports, FbIndex, item, reported, station, bounds>>

Loop ==
  \/ receiveMessage \/ receiveReturns \/ sendNothing \/ sendInitS88
  \/ parseNothing \/ parseUpdate \/ compareNibble \/ countReports \/ reportChanges \/ updateReturns
-----------------------------------------------------------------------------
(* Trains move: the station tells the new state of all detectors.            *)
Station == \E layout \in Layouts[mode] :
  /\ mode # "emulation" /\ layout # detectors /\ changes < MaxChanges[mode] /\ changes' = changes + 1
  /\ detectors' = layout /\ line' = Append(line, layout)
  /\ UNCHANGED <<string, initQueued, cmdToParse, listOfUnexpectedFbMsg, hostPc, loopPc, received,
                 update, reported, resumes>>

Next == (Host \/ Loop \/ Station) /\ UNCHANGED mode

Spec == Init /\ [][Next]_vars
-----------------------------------------------------------------------------
(* Properties.                                                               *)

(* Nothing is on its way to the driver, and the update in hand is finished.  *)
Handled ==
  /\ line = <<>> /\ IsEmpty(cmdToParse) /\ ~initQueued
  /\ hostPc = "idle" /\ loopPc \in {"receive", "send", "parse"}

(* Over a serial link the driver ends up with the states of the station,     *)
(* wherever a clearing falls in the handling of an update: the station is    *)
(* asked again after it (initS88, handleDetectorUpdate).                     *)
StatesAgree ==
  Handled /\ mode = "usb" => \A n \in Nibbles : detectorStates[n] = detectors[n]

(* What the driver holds for occupied, CDM-Rail has been told, with the same *)
(* detectors of the nibble: no change is left out of the reports, none is    *)
(* overtaken by an older one, and none is lost between an event that is      *)
(* filled and the one that is erased.  Only what CDM-Rail made of an event   *)
(* it took before it was complete is open, until it is told of the nibble    *)
(* anew (handleDetectorUpdate, DDGL_GetNextUnExpectedMessage).               *)
OccupationReported ==
  Handled /\ listOfUnexpectedFbMsg = <<>> =>
    \A n \in Nibbles :
      detectorStates[n] # 0 /\ reported[n] # Anything => reported[n] = detectorStates[n]

(* A report has as many items as CDM-Rail takes and at least one, all of     *)
(* them written before they are counted, and no nibble twice, whatever the   *)
(* host clears or takes while it is made (handleDetectorUpdate).             *)
ReportsWellFormed ==
  \A k \in DOMAIN listOfUnexpectedFbMsg :
    LET event == listOfUnexpectedFbMsg[k]
        items == event.xDataItem
    IN  /\ Len(items) \in 0..DGI_MAX_DATA_ITEMS
        /\ \A i, j \in DOMAIN items : items[i].nAddress = items[j].nAddress => i = j
        /\ event.nNbDataItems # Anything =>
             event.described /\ event.nNbDataItems = Len(items) /\ Len(items) # 0
=============================================================================
