-------------------------- MODULE DetectorsProofs --------------------------
(* Theorems about Detectors, for every number of modules, layout and bound.  *)
EXTENDS Detectors, NodeListTheorems

LEMMA NibbleFacts ==
  /\ NibbleCount \in Nat \ {0}
  /\ Nibbles \subseteq Nat /\ Nibbles \subseteq 0..NibbleCount
  /\ AllClear \in States
BY DetectorsAssumption DEF NibbleCount, Nibbles, AllClear, States

(* What the emulator makes of an address is a state of all detectors.        *)
LEMMA EmulatedStates ==
  ASSUME NEW address \in AskedFor
  PROVE  emulNibble(address) \in States
<1>1. address \in Nat \ {0}
  BY DetectorsAssumption, NibbleFacts
<1>2. ((address - 1) % 4) + 1 \in 1..4
  BY <1>1
<1>3. \A k \in 1..4 : Bit[k] \in 0..15
  BY DEF Bit
<1>4. Bit[((address - 1) % 4) + 1] \in 0..15
  BY <1>2, <1>3
<1> QED BY <1>4 DEF emulNibble, States

(* A character of the string stands for a nibble, the terminator for 0.      *)
LEMMA HexType ==
  ASSUME NEW char \in {NUL} \cup 0..15
  PROVE  ascii2Hex(char) \in 0..15
BY DEF ascii2Hex, NUL

(* Initially every variable has its type.                                    *)
LEMMA InitType == Init => TypeOK
<1> SUFFICES ASSUME Init PROVE TypeOK
  OBVIOUS
<1>1. detectorStates \in [0..NibbleCount -> {NUL} \cup 0..15] /\ filled \in 0..NibbleCount
  BY NibbleFacts DEF Init
<1>2. IsNodeList(cmdToParse, States)
  BY EmptyIsNodeList DEF Init
<1>3. resumes \in 0..MaxResumes[mode] /\ changes \in 0..MaxChanges[mode] /\ received \in 0..WifiBurst + 1
  BY DetectorsAssumption DEF Init
<1>4. listOfUnexpectedFbMsg \in Seq(Event) /\ line \in Seq(States)
  <2> HIDE DEF Event, States
  <2> QED BY DEF Init
<1>5. reported \in [Nibbles -> {Anything} \cup 0..15] /\ command \in States /\ detectors \in States
  BY NibbleFacts DEF Init, States
<1>6. posOfs88NibblesChanges \in Seq(Nibbles) /\ at \in 0..NibbleCount
  BY NibbleFacts DEF Init
<1> QED BY <1>1, <1>2, <1>3, <1>4, <1>5, <1>6 DEF Init, TypeOK

(* A believed report leaves something believed of every nibble.             *)
LEMMA BelievedType ==
  ASSUME TypeOK, copyFbMsgToGenericData
  PROVE  reported' \in [Nibbles -> {Anything} \cup 0..15]
<1> DEFINE event == Head(listOfUnexpectedFbMsg)
           items == event.xDataItem
           Of(n) == {k \in DOMAIN items : k <= event.nNbDataItems /\ items[k].nAddress = 4 * n}
<1>1. listOfUnexpectedFbMsg # <<>> /\ listOfUnexpectedFbMsg \in Seq(Event)
  BY DEF copyFbMsgToGenericData, TypeOK
<1>2. event \in Event
  <2> HIDE DEF Event
  <2> QED BY <1>1
<1>3. items \in Seq(Item)
  BY <1>2 DEF Event
<1>4. \A n \in Nibbles : Of(n) # {} => items[Latest(Of(n))].hData \in 0..15
  <2> SUFFICES ASSUME NEW n \in Nibbles, Of(n) # {}
               PROVE  items[Latest(Of(n))].hData \in 0..15
    OBVIOUS
  <2> HIDE DEF items, event
  <2>1. DOMAIN items = 1..Len(items) /\ Len(items) \in Nat
    BY <1>3
  <2>2. IsFiniteSet(Of(n)) /\ Of(n) \in SUBSET Nat
    <3>1. IsFiniteSet(1..Len(items))
      BY <2>1, FS_Interval
    <3> QED BY <2>1, <3>1, FS_Subset
  <2>3. Latest(Of(n)) \in Of(n)
    BY <2>2, LatestIsGreatest
  <2>4. items[Latest(Of(n))] \in Item
    BY <1>3, <2>3
  <2> QED BY <2>4 DEF Item
<1>5. reported' = [n \in Nibbles |-> IF ~Complete(event) THEN Anything
                                     ELSE IF Of(n) = {} THEN reported[n]
                                     ELSE items[Latest(Of(n))].hData]
  BY DEF copyFbMsgToGenericData, Believed
<1> HIDE DEF items, Of, event
<1>6. \A n \in Nibbles : reported[n] \in {Anything} \cup 0..15
  BY DEF TypeOK
<1> QED BY <1>4, <1>5, <1>6

(* A write of an event to the list leaves a list of events.                  *)
LEMMA WriteType ==
  ASSUME TypeOK, NEW event, Write(event),
         FbIndex \in DOMAIN listOfUnexpectedFbMsg => event \in Event
  PROVE  listOfUnexpectedFbMsg' \in Seq(Event)
<1>1. listOfUnexpectedFbMsg \in Seq(Event)
  BY DEF TypeOK
<1> HIDE DEF Event
<1>2. CASE FbIndex \in DOMAIN listOfUnexpectedFbMsg
  BY <1>1, <1>2 DEF Write
<1>3. CASE FbIndex \notin DOMAIN listOfUnexpectedFbMsg
  BY <1>1, <1>3 DEF Write
<1> QED BY <1>2, <1>3

(* What the event in hand becomes is an event.                               *)
LEMMA InHandType ==
  ASSUME TypeOK, FbIndex \in DOMAIN listOfUnexpectedFbMsg
  PROVE  /\ InHand \in Event /\ InHand.xDataItem \in Seq(Item)
         /\ [InHand EXCEPT !.described = TRUE] \in Event
         /\ \A count \in Int : [InHand EXCEPT !.nNbDataItems = count] \in Event
         /\ \A items \in Seq(Item) : [InHand EXCEPT !.xDataItem = items] \in Event
<1>1. InHand \in Event
  <2> HIDE DEF Event
  <2> QED BY DEF TypeOK, InHand
<1> HIDE DEF InHand
<1> QED BY <1>1 DEF Event

(* The item that is filled next is one CDM-Rail knows.                       *)
NextNibble == posOfs88NibblesChanges[item + 1 + offset]
NextItem == [nAddress |-> 4 * NextNibble, hData |-> ascii2Hex(detectorStates[NextNibble])]

LEMMA NextItemType ==
  ASSUME TypeOK, item < ItemCount
  PROVE  /\ NextNibble \in Nibbles /\ item + 1 + offset \in DOMAIN posOfs88NibblesChanges
         /\ NextItem \in Item
<1>1. /\ posOfs88NibblesChanges \in Seq(Nibbles) /\ offset \in Nat /\ item \in Nat
      /\ detectorStates \in [0..NibbleCount -> {NUL} \cup 0..15]
  BY DEF TypeOK
<1>2. item + 1 + offset \in 1..Len(posOfs88NibblesChanges)
  BY <1>1, DetectorsAssumption DEF ItemCount
<1>3. NextNibble \in Nibbles
  BY <1>1, <1>2 DEF NextNibble
<1>4. detectorStates[NextNibble] \in {NUL} \cup 0..15
  BY <1>1, <1>3, NibbleFacts
<1>5. ascii2Hex(detectorStates[NextNibble]) \in 0..15
  BY <1>4, HexType
<1> QED BY <1>1, <1>2, <1>3, <1>5 DEF NextItem, Item

LEMMA ItemCountType ==
  ASSUME TypeOK
  PROVE  ItemCount \in Int
<1>1. Len(posOfs88NibblesChanges) \in Nat /\ offset \in Nat /\ DGI_MAX_DATA_ITEMS \in Nat
  BY DetectorsAssumption DEF TypeOK
<1>2. Len(posOfs88NibblesChanges) - offset \in Int
  BY <1>1
<1> QED BY <1>1, <1>2 DEF ItemCount

(* One step of the making of a report leaves a list of events.               *)
LEMMA ReportType ==
  ASSUME TypeOK, reportChanges
  PROVE  listOfUnexpectedFbMsg' \in Seq(Event)
<1>1. CASE saveFeedbackMsg
  <2>1. Blank \in Event
    BY DEF Blank, Event, Anything
  <2>2. listOfUnexpectedFbMsg \in Seq(Event)
    BY DEF TypeOK
  <2> HIDE DEF Event, Blank
  <2> QED BY <1>1, <2>1, <2>2 DEF saveFeedbackMsg
<1>2. CASE handleCommandStationFb
  BY <1>2, InHandType, WriteType DEF handleCommandStationFb
<1>3. CASE fillItem
  <2> DEFINE event == [InHand EXCEPT !.xDataItem = Append(@, NextItem)]
  <2>1. Write(event)
    BY <1>3 DEF fillItem, NextNibble, NextItem
  <2>2. NextItem \in Item
    BY <1>3, NextItemType DEF fillItem
  <2>3. FbIndex \in DOMAIN listOfUnexpectedFbMsg => event \in Event
    <3> SUFFICES ASSUME FbIndex \in DOMAIN listOfUnexpectedFbMsg PROVE event \in Event
      OBVIOUS
    <3>1. Append(InHand.xDataItem, NextItem) \in Seq(Item)
      <4>1. InHand.xDataItem \in Seq(Item)
        BY InHandType
      <4> HIDE DEF Item
      <4> QED BY <2>2, <4>1
    <3> HIDE DEF Item, Event
    <3> QED BY <3>1, InHandType
  <2> HIDE DEF event
  <2> QED BY <2>1, <2>3, WriteType
<1>4. CASE setNbDataItems
  <2>1. Write([InHand EXCEPT !.nNbDataItems = ItemCount])
    BY <1>4 DEF setNbDataItems
  <2>2. FbIndex \in DOMAIN listOfUnexpectedFbMsg => [InHand EXCEPT !.nNbDataItems = ItemCount] \in Event
    <3>1. ItemCount \in Int
      BY ItemCountType
    <3>2. FbIndex \in DOMAIN listOfUnexpectedFbMsg =>
            \A count \in Int : [InHand EXCEPT !.nNbDataItems = count] \in Event
      BY InHandType
    <3> HIDE DEF ItemCount, InHand, Event
    <3> QED BY <3>1, <3>2
  <2> QED BY <2>1, <2>2, WriteType
<1> QED BY <1>1, <1>2, <1>3, <1>4 DEF reportChanges

(* Every step keeps the types.                                               *)
LEMMA StepType == TypeOK /\ [Next]_vars => TypeOK'
<1> SUFFICES ASSUME TypeOK, [Next]_vars PROVE TypeOK'
  OBVIOUS
<1> USE DEF string, update, station, bounds
<1>0. UNCHANGED mode
  BY DEF Next, vars
<1>1. CASE initS88
  <2>1. /\ detectorStates' \in [0..NibbleCount -> {NUL} \cup 0..15]
        /\ filled' \in 0..NibbleCount
    BY <1>1, NibbleFacts DEF initS88, TypeOK
  <2>2. resumes' \in 0..MaxResumes[mode]
    BY <1>1, DetectorsAssumption DEF initS88, TypeOK
  <2> QED BY <1>0, <1>1, <2>1, <2>2 DEF initS88, TypeOK
<1>2. CASE clearOneState
  <2>1. filled' \in 0..NibbleCount
    BY <1>2, NibbleFacts DEF clearOneState, TypeOK
  <2>2. detectorStates' \in [0..NibbleCount -> {NUL} \cup 0..15]
    <3>1. 0 \in {NUL} \cup 0..15 /\ NUL \in {NUL} \cup 0..15
      OBVIOUS
    <3> QED BY <1>2, <3>1 DEF clearOneState, TypeOK
  <2> QED BY <1>0, <1>2, <2>1, <2>2 DEF clearOneState, TypeOK
<1>3. CASE initS88Returns
  BY <1>0, <1>3 DEF initS88Returns, TypeOK
<1>4. CASE DetectorInfoRequest
  <2>1. PICK address \in AskedFor :
          /\ changes < MaxChanges[mode] /\ changes' = changes + 1
          /\ cmdToParse' = PushBack(cmdToParse, emulNibble(address))
    BY <1>4 DEF DetectorInfoRequest
  <2>2. IsNodeList(cmdToParse', States)
    BY <2>1, EmulatedStates, PushBackValues DEF TypeOK
  <2>3. changes' \in 0..MaxChanges[mode]
    BY <2>1, DetectorsAssumption DEF TypeOK
  <2> QED BY <1>0, <1>4, <2>2, <2>3 DEF DetectorInfoRequest, TypeOK
<1>5. CASE GetNextUnExpectedMessage
  <2>1. CASE copyFbMsgToGenericData
    BY <1>0, <2>1, BelievedType DEF copyFbMsgToGenericData, TypeOK
  <2>2. CASE removeFeedbackMsg
    <3>1. listOfUnexpectedFbMsg' \in Seq(Event)
      <4>1. listOfUnexpectedFbMsg \in Seq(Event)
        BY DEF TypeOK
      <4> HIDE DEF Event
      <4>2. CASE listOfUnexpectedFbMsg # <<>>
        BY <2>2, <4>1, <4>2 DEF removeFeedbackMsg
      <4>3. CASE listOfUnexpectedFbMsg = <<>>
        BY <2>2, <4>1, <4>3 DEF removeFeedbackMsg
      <4> QED BY <4>2, <4>3
    <3> QED BY <1>0, <2>2, <3>1 DEF removeFeedbackMsg, TypeOK
  <2> QED BY <1>5, <2>1, <2>2 DEF GetNextUnExpectedMessage
<1>6. CASE receiveMessage
  <2>1. Head(line) \in States /\ line' \in Seq(States)
    BY <1>6 DEF receiveMessage, TypeOK
  <2>2. IsNodeList(cmdToParse', States)
    BY <1>6, <2>1, PushBackValues DEF receiveMessage, TypeOK
  <2>3. received' \in 0..WifiBurst + 1
    <3>1. Burst <= WifiBurst + 1 /\ Burst \in Nat
      BY DetectorsAssumption DEF Burst, TypeOK
    <3> QED BY <1>6, <3>1, DetectorsAssumption DEF receiveMessage, TypeOK
  <2> QED BY <1>0, <1>6, <2>1, <2>2, <2>3 DEF receiveMessage, TypeOK
<1>7. CASE receiveReturns
  BY <1>0, <1>7, DetectorsAssumption DEF receiveReturns, TypeOK
<1>8. CASE sendNothing
  BY <1>0, <1>8 DEF sendNothing, TypeOK
<1>9. CASE sendInitS88
  <2>1. line' \in Seq(States)
    BY <1>9 DEF sendInitS88, TypeOK
  <2> QED BY <1>0, <1>9, <2>1 DEF sendInitS88, TypeOK
<1>10. CASE parseNothing
  BY <1>0, <1>10 DEF parseNothing, TypeOK
<1>11. CASE parseUpdate
  <2>1. command' \in States
    BY <1>11, FrontIsValue DEF parseUpdate, TypeOK
  <2>2. IsNodeList(cmdToParse', States)
    BY <1>11, RemoveEqualValues DEF parseUpdate, TypeOK
  <2>3. at' \in 0..NibbleCount /\ posOfs88NibblesChanges' \in Seq(Nibbles) /\ offset' \in Nat
    BY <1>11, NibbleFacts DEF parseUpdate
  <2> QED BY <1>0, <1>11, <2>1, <2>2, <2>3 DEF parseUpdate, TypeOK
<1>12. CASE compareNibble
  <2>1. at' \in 0..NibbleCount /\ at \in Nibbles
    <3>1. at \in 0..NibbleCount /\ at < NibbleCount /\ at' = at + 1
      BY <1>12 DEF compareNibble, TypeOK
    <3> QED BY <3>1, NibbleFacts DEF Nibbles
  <2>2. command[at] \in {NUL} \cup 0..15
    BY <2>1 DEF TypeOK, States
  <2>3. detectorStates' \in [0..NibbleCount -> {NUL} \cup 0..15]
    BY <1>12, <2>2 DEF compareNibble, TypeOK
  <2>4. posOfs88NibblesChanges' \in Seq(Nibbles)
    <3>1. posOfs88NibblesChanges \in Seq(Nibbles)
      BY DEF TypeOK
    <3>2. Append(posOfs88NibblesChanges, at) \in Seq(Nibbles)
      BY <2>1, <3>1
    <3>3. \/ posOfs88NibblesChanges' = posOfs88NibblesChanges
          \/ posOfs88NibblesChanges' = Append(posOfs88NibblesChanges, at)
      BY <1>12 DEF compareNibble
    <3> QED BY <3>1, <3>2, <3>3
  <2> QED BY <1>0, <1>12, <2>1, <2>3, <2>4 DEF compareNibble, TypeOK
<1>13. CASE countReports
  <2>1. ReportsFor(Len(posOfs88NibblesChanges)) \in Nat
    <3>1. \A n \in Nat : \A d \in Nat \ {0} : n \div d \in Nat
      OBVIOUS
    <3> QED BY <3>1, DetectorsAssumption DEF ReportsFor, TypeOK
  <2> QED BY <1>0, <1>13, <2>1 DEF countReports, TypeOK
<1>14. CASE reportChanges
  <2>1. /\ nbOfReports' \in Nat /\ offset' \in Nat /\ FbIndex' \in Nat /\ item' \in Nat
        /\ loopPc' \in {"report", "describe", "fill"}
        /\ loopPc' \in {"describe", "fill"} => nbOfReports' # 0
    <3>1. listOfUnexpectedFbMsg \in Seq(Event) /\ nbOfReports \in Nat /\ offset \in Nat
          /\ FbIndex \in Nat /\ item \in Nat
      BY DEF TypeOK
    <3>2. Len(listOfUnexpectedFbMsg) + 1 \in Nat
      <4> HIDE DEF Event
      <4> QED BY <3>1
    <3>3. /\ nbOfReports' = nbOfReports \/ (nbOfReports # 0 /\ nbOfReports' = nbOfReports - 1)
          /\ offset' = offset \/ offset' = offset + DGI_MAX_DATA_ITEMS
          /\ FbIndex' \in {FbIndex, 0, Len(listOfUnexpectedFbMsg) + 1}
          /\ item' \in {item, 0, item + 1}
          /\ loopPc' \in {"report", "describe", "fill"}
          /\ loopPc' \in {"describe", "fill"} => nbOfReports' # 0
      <4>0. loopPc \in {"describe", "fill"} => nbOfReports # 0
        BY DEF TypeOK
      <4>1. CASE saveFeedbackMsg
        BY <4>0, <4>1 DEF saveFeedbackMsg
      <4>2. CASE handleCommandStationFb
        BY <4>0, <4>2 DEF handleCommandStationFb
      <4>3. CASE fillItem
        BY <4>0, <4>3 DEF fillItem
      <4>4. CASE setNbDataItems
        <5>1. nbOfReports # 0
          BY <4>0, <4>4 DEF setNbDataItems
        <5> QED BY <4>4, <5>1 DEF setNbDataItems
      <4> QED BY <1>14, <4>1, <4>2, <4>3, <4>4 DEF reportChanges
    <3> QED BY <3>1, <3>2, <3>3, DetectorsAssumption
  <2>2. /\ UNCHANGED <<detectorStates, filled, initQueued, cmdToParse, hostPc, received,
                       command, at, posOfs88NibblesChanges, reported, detectors, line>>
        /\ UNCHANGED <<resumes, changes>>
    BY <1>14 DEF reportChanges, saveFeedbackMsg, handleCommandStationFb, fillItem, setNbDataItems
  <2> QED BY <1>0, <1>14, <2>1, <2>2, ReportType DEF TypeOK
<1>15. CASE updateReturns
  <2>1. command' \in States /\ at' \in 0..NibbleCount /\ posOfs88NibblesChanges' \in Seq(Nibbles)
    BY <1>15, NibbleFacts DEF updateReturns
  <2> QED BY <1>0, <1>15, <2>1 DEF updateReturns, TypeOK
<1>16. CASE Station
  <2>1. detectors' \in States /\ line' \in Seq(States)
    BY <1>16, DetectorsAssumption DEF Station, TypeOK
  <2>2. changes' \in 0..MaxChanges[mode]
    BY <1>16, DetectorsAssumption DEF Station, TypeOK
  <2> QED BY <1>0, <1>16, <2>1, <2>2 DEF Station, TypeOK
<1>17. CASE UNCHANGED vars
  BY <1>0, <1>17 DEF vars, TypeOK
<1> QED BY <1>1, <1>2, <1>3, <1>4, <1>5, <1>6, <1>7, <1>8, <1>9, <1>10, <1>11, <1>12, <1>13,
           <1>14, <1>15, <1>16, <1>17 DEF Next, Host, Loop

(* Every variable keeps its type, whatever the number of modules: what the   *)
(* loop thread reads of the string while the host thread clears it is a      *)
(* character or the terminator of it, and never lies beyond its memory.      *)
THEOREM TypeCorrect == Spec => []TypeOK
BY InitType, StepType, PTL DEF Spec
-----------------------------------------------------------------------------
(* Why reports are well formed: the nibbles on record are in increasing      *)
(* order, there are enough of them for the reports still to make, and what   *)
(* has been filled of the event in hand are the next of them.                *)
Making == loopPc \in {"describe", "fill"}

NibblesAscend ==
  /\ \A i \in DOMAIN posOfs88NibblesChanges : posOfs88NibblesChanges[i] < at
  /\ \A i, j \in DOMAIN posOfs88NibblesChanges :
       i < j => posOfs88NibblesChanges[i] < posOfs88NibblesChanges[j]

EnoughChanges ==
  /\ loopPc = "compare" => offset = 0
  /\ loopPc \in {"report", "describe", "fill"} =>
       \/ nbOfReports = 0
       \/ nbOfReports = 1 /\ offset < Len(posOfs88NibblesChanges)
       \/ offset + DGI_MAX_DATA_ITEMS * nbOfReports <= Len(posOfs88NibblesChanges)

NextOnes(items) ==
  \A k \in DOMAIN items : items[k].nAddress = 4 * posOfs88NibblesChanges[k + offset]

HalfMade(event) ==
  /\ event.nNbDataItems = Anything
  /\ loopPc = "describe" => event.xDataItem = <<>>
  /\ loopPc = "fill" => event.described /\ Len(event.xDataItem) = item
  /\ NextOnes(event.xDataItem)

(* The event in hand is the last of the list, or has left it.                *)
HandInv ==
  /\ hostPc = "copied" => listOfUnexpectedFbMsg # <<>>
  /\ Making => FbIndex # 0 /\ FbIndex >= Len(listOfUnexpectedFbMsg)
  /\ loopPc = "fill" => item <= ItemCount
  /\ Making /\ FbIndex \in DOMAIN listOfUnexpectedFbMsg => HalfMade(InHand)

Distinct(items) == \A i, j \in DOMAIN items : items[i].nAddress = items[j].nAddress => i = j

WellFormed(event) ==
  /\ Len(event.xDataItem) \in 0..DGI_MAX_DATA_ITEMS /\ Distinct(event.xDataItem)
  /\ event.nNbDataItems # Anything =>
       event.described /\ event.nNbDataItems = Len(event.xDataItem) /\ Len(event.xDataItem) # 0

Inductive == TypeOK /\ NibblesAscend /\ EnoughChanges /\ HandInv /\ ReportsWellFormed

(* What making a report leaves alone.                                        *)
LEMMA MakingKeeps ==
  ASSUME reportChanges
  PROVE  /\ UNCHANGED <<detectorStates, filled, initQueued, cmdToParse, hostPc, received, command, at,
                        posOfs88NibblesChanges, reported, detectors, line, resumes, changes>>
         /\ loopPc \in {"report", "describe", "fill"} /\ loopPc' \in {"report", "describe", "fill"}
         /\ setNbDataItems \/ UNCHANGED <<nbOfReports, offset>>
BY DEF reportChanges, saveFeedbackMsg, handleCommandStationFb, fillItem, setNbDataItems,
       string, station, bounds

(* What taking a report leaves alone.                                        *)
LEMMA TakingKeeps ==
  ASSUME GetNextUnExpectedMessage
  PROVE  /\ UNCHANGED <<detectorStates, filled, initQueued, cmdToParse, loopPc, received, command, at,
                        posOfs88NibblesChanges, nbOfReports, offset, FbIndex, item>>
         /\ UNCHANGED <<detectors, line, resumes, changes>>
         /\ hostPc # "clearing" /\ hostPc' # "clearing"
BY DEF GetNextUnExpectedMessage, copyFbMsgToGenericData, removeFeedbackMsg, string, update, station,
       bounds

LEMMA AscendStep == TypeOK /\ NibblesAscend /\ [Next]_vars => NibblesAscend'
<1> SUFFICES ASSUME TypeOK, NibblesAscend, [Next]_vars PROVE NibblesAscend'
  OBVIOUS
<1>1. CASE compareNibble
  <2> DEFINE pos == posOfs88NibblesChanges
  <2>0. pos \in Seq(Nibbles) /\ at \in 0..NibbleCount /\ at' = at + 1
    BY <1>1 DEF compareNibble, TypeOK
  <2>1. /\ pos \in Seq(Nibbles) /\ at \in Nat /\ at' = at + 1
        /\ \A i \in DOMAIN pos : pos[i] \in Nat /\ pos[i] < at
    <3>1. at \in Nat
      BY <2>0, NibbleFacts
    <3>2. \A i \in DOMAIN pos : pos[i] \in Nibbles
      BY <2>0
    <3> QED BY <2>0, <3>1, <3>2, NibbleFacts DEF NibblesAscend
  <2>2. CASE pos' = pos
    <3>1. \A i \in DOMAIN pos : pos[i] < at'
      BY <2>1
    <3> QED BY <3>1, <2>2 DEF NibblesAscend
  <2>3. CASE pos' = Append(pos, at)
    <3>1. \A i \in DOMAIN pos : pos[i] \in Nat /\ pos[i] < at
      BY <2>1
    <3>2. DOMAIN pos' = 1..(Len(pos) + 1) /\ DOMAIN pos = 1..Len(pos) /\ Len(pos) \in Nat
      BY <2>1, <2>3
    <3>3. /\ \A i \in DOMAIN pos : pos'[i] = pos[i]
          /\ pos'[Len(pos) + 1] = at
      BY <2>1, <2>3
    <3>4. \A i \in DOMAIN pos' : i \in DOMAIN pos \/ i = Len(pos) + 1
      BY <3>2
    <3> HIDE DEF pos
    <3>5. \A i \in DOMAIN pos' : pos'[i] < at'
      BY <3>1, <3>3, <3>4, <2>1
    <3>6. ASSUME NEW i \in DOMAIN pos', NEW j \in DOMAIN pos', i < j
          PROVE  pos'[i] < pos'[j]
      <4>1. i \in DOMAIN pos
        BY <3>2, <3>6
      <4>2. CASE j \in DOMAIN pos
        BY <4>1, <4>2, <3>3, <3>6 DEF NibblesAscend, pos
      <4>3. CASE j = Len(pos) + 1
        BY <4>1, <4>3, <3>1, <3>3
      <4> QED BY <4>2, <4>3, <3>4, <3>6
    <3> QED BY <3>5, <3>6 DEF NibblesAscend, pos
  <2> QED BY <1>1, <2>2, <2>3 DEF compareNibble
<1>2. CASE parseUpdate
  BY <1>2 DEF parseUpdate, NibblesAscend
<1>3. CASE UNCHANGED <<at, posOfs88NibblesChanges>>
  BY <1>3 DEF NibblesAscend
<1>5. CASE updateReturns
  BY <1>5 DEF updateReturns, NibblesAscend
<1>4. \/ compareNibble \/ parseUpdate \/ updateReturns \/ UNCHANGED <<at, posOfs88NibblesChanges>>
  BY MakingKeeps, TakingKeeps
     DEF Next, Host, Loop, initS88, clearOneState, initS88Returns, DetectorInfoRequest,
         receiveMessage, receiveReturns, sendNothing, sendInitS88,
         parseNothing, countReports, Station, update, vars
<1> QED BY <1>1, <1>2, <1>3, <1>4, <1>5

LEMMA EnoughStep == TypeOK /\ EnoughChanges /\ [Next]_vars => EnoughChanges'
<1> SUFFICES ASSUME TypeOK, EnoughChanges, [Next]_vars PROVE EnoughChanges'
  OBVIOUS
<1>1. CASE countReports
  <2>1. Len(posOfs88NibblesChanges) \in Nat /\ offset = 0
    BY <1>1 DEF countReports, EnoughChanges, TypeOK
  <2>2. /\ loopPc' = "report" /\ offset' = offset
        /\ posOfs88NibblesChanges' = posOfs88NibblesChanges
        /\ nbOfReports' = ReportsFor(Len(posOfs88NibblesChanges))
    BY <1>1 DEF countReports
  <2>3. \A n \in Nat : \/ ReportsFor(n) = 0
                       \/ ReportsFor(n) = 1 /\ 0 < n
                       \/ DGI_MAX_DATA_ITEMS * ReportsFor(n) <= n
    BY DetectorsAssumption DEF ReportsFor
  <2>4. ReportsFor(Len(posOfs88NibblesChanges)) \in Nat
    BY <2>1, DetectorsAssumption DEF ReportsFor
  <2> QED BY <2>1, <2>2, <2>3, <2>4, DetectorsAssumption DEF EnoughChanges
<1>2. CASE reportChanges
  <2>1. CASE setNbDataItems
    <3>1. /\ loopPc = "fill" /\ loopPc' = "report" /\ nbOfReports # 0
          /\ nbOfReports' = nbOfReports - 1 /\ offset' = offset + DGI_MAX_DATA_ITEMS
          /\ posOfs88NibblesChanges' = posOfs88NibblesChanges
      BY <2>1 DEF setNbDataItems, TypeOK
    <3>2. Len(posOfs88NibblesChanges) \in Nat /\ offset \in Nat /\ nbOfReports \in Nat
      BY DEF TypeOK
    <3> QED BY <3>1, <3>2, DetectorsAssumption DEF EnoughChanges
  <2>2. CASE UNCHANGED <<nbOfReports, offset>>
    BY <1>2, <2>2, MakingKeeps DEF EnoughChanges
  <2> QED BY <1>2, <2>1, <2>2, MakingKeeps
<1>3. CASE parseUpdate
  BY <1>3 DEF parseUpdate, EnoughChanges
<1>4. CASE /\ UNCHANGED <<posOfs88NibblesChanges, nbOfReports, offset>>
           /\ loopPc' = loopPc \/ loopPc' \in {"receive", "send", "parse"}
  BY <1>4 DEF EnoughChanges
<1>5. CASE compareNibble
  BY <1>5 DEF compareNibble, EnoughChanges
<1>7. CASE updateReturns
  BY <1>7 DEF updateReturns, EnoughChanges
<1>6. \/ countReports \/ reportChanges \/ parseUpdate \/ compareNibble \/ updateReturns
      \/ /\ UNCHANGED <<posOfs88NibblesChanges, nbOfReports, offset>>
         /\ loopPc' = loopPc \/ loopPc' \in {"receive", "send", "parse"}
  BY TakingKeeps
     DEF Next, Host, Loop, initS88, clearOneState, initS88Returns, DetectorInfoRequest,
         receiveMessage, receiveReturns, sendNothing, sendInitS88,
         parseNothing, Station, update, vars
<1> QED BY <1>1, <1>2, <1>3, <1>4, <1>5, <1>6, <1>7

(* While a report is made, there is at least one item for it, and what it    *)
(* takes from the record is there.                                           *)
LEMMA ItemsLeft ==
  ASSUME TypeOK, EnoughChanges, Making
  PROVE  /\ ItemCount \in 1..DGI_MAX_DATA_ITEMS
         /\ \A k \in 1..ItemCount : k + offset \in DOMAIN posOfs88NibblesChanges
<1> DEFINE pos == posOfs88NibblesChanges
           nbOfChanges == Len(pos) - offset
<1>1. /\ Len(pos) \in Nat /\ DOMAIN pos = 1..Len(pos) /\ offset \in Nat /\ nbOfReports \in Nat \ {0}
      /\ DGI_MAX_DATA_ITEMS \in Nat \ {0}
  BY DetectorsAssumption DEF TypeOK, Making
<1>2. \/ nbOfReports = 1 /\ offset < Len(pos)
      \/ offset + DGI_MAX_DATA_ITEMS * nbOfReports <= Len(pos)
  BY <1>1 DEF EnoughChanges, Making
<1>3. nbOfChanges \in Nat \ {0}
  <2>1. \A n, o \in Nat : \A d, r \in Nat \ {0} :
          (r = 1 /\ o < n) \/ o + d * r <= n => n - o \in Nat \ {0}
    OBVIOUS
  <2> QED BY <1>1, <1>2, <2>1
<1>4. ItemCount \in 1..DGI_MAX_DATA_ITEMS /\ ItemCount <= nbOfChanges
  <2>1. ItemCount = IF nbOfChanges > DGI_MAX_DATA_ITEMS THEN DGI_MAX_DATA_ITEMS ELSE nbOfChanges
    BY DEF ItemCount
  <2> HIDE DEF nbOfChanges
  <2> QED BY <1>1, <1>3, <2>1
<1>5. \A n, o \in Nat : \A c \in Nat : c <= n - o => \A k \in 1..c : k + o \in 1..n
  OBVIOUS
<1>6. ItemCount \in Nat
  BY <1>1, <1>4
<1> HIDE DEF pos
<1>7. \A k \in 1..ItemCount : k + offset \in 1..Len(pos)
  BY <1>1, <1>4, <1>5, <1>6
<1> QED BY <1>1, <1>4, <1>7 DEF pos

(* The next nibbles of the record are all different, and no more than fit.   *)
LEMMA NextOnesDiffer ==
  ASSUME TypeOK, NibblesAscend, EnoughChanges, Making,
         NEW items \in Seq(Item), Len(items) <= ItemCount, NextOnes(items)
  PROVE  Len(items) \in 0..DGI_MAX_DATA_ITEMS /\ Distinct(items)
<1> DEFINE pos == posOfs88NibblesChanges
<1>1. /\ DOMAIN items = 1..Len(items) /\ Len(items) \in Nat /\ offset \in Nat
      /\ pos \in Seq(Nibbles) /\ ItemCount \in 1..DGI_MAX_DATA_ITEMS /\ DGI_MAX_DATA_ITEMS \in Nat
      /\ \A k \in 1..ItemCount : k + offset \in DOMAIN pos
  BY ItemsLeft, DetectorsAssumption DEF TypeOK
<1>2. \A k \in DOMAIN items : k \in Nat /\ k + offset \in DOMAIN pos
  <2>1. \A k \in 1..Len(items) : k \in Nat /\ k \in 1..ItemCount
    BY <1>1
  <2> QED BY <1>1, <2>1
<1>3. \A k \in DOMAIN items : pos[k + offset] \in Nat
  <2>1. \A k \in DOMAIN pos : pos[k] \in Nibbles
    BY <1>1
  <2> HIDE DEF pos
  <2> QED BY <1>2, <2>1, NibbleFacts
<1>4. ASSUME NEW i \in DOMAIN items, NEW j \in DOMAIN items, i < j
      PROVE  items[i].nAddress # items[j].nAddress
  <2>1. i + offset < j + offset
    BY <1>1, <1>2, <1>4
  <2>2. pos[i + offset] < pos[j + offset]
    BY <1>2, <2>1 DEF NibblesAscend
  <2>3. \A a, b \in Nat : a < b => 4 * a # 4 * b
    OBVIOUS
  <2> HIDE DEF pos
  <2>4. 4 * pos[i + offset] # 4 * pos[j + offset]
    BY <1>3, <2>2, <2>3
  <2> QED BY <2>4 DEF NextOnes, pos
<1>5. Distinct(items)
  <2> SUFFICES ASSUME NEW i \in DOMAIN items, NEW j \in DOMAIN items,
                      items[i].nAddress = items[j].nAddress
               PROVE  i = j
    BY DEF Distinct
  <2>1. ~(i < j) /\ ~(j < i)
    BY <1>4
  <2> QED BY <1>2, <2>1
<1> QED BY <1>1, <1>5

(* What a write leaves of the list.                                          *)
LEMMA WriteResult ==
  ASSUME TypeOK, NEW event, Write(event)
  PROVE  /\ DOMAIN listOfUnexpectedFbMsg' = DOMAIN listOfUnexpectedFbMsg
         /\ Len(listOfUnexpectedFbMsg') = Len(listOfUnexpectedFbMsg)
         /\ FbIndex \in DOMAIN listOfUnexpectedFbMsg => listOfUnexpectedFbMsg'[FbIndex] = event
         /\ \A k \in DOMAIN listOfUnexpectedFbMsg :
              k # FbIndex => listOfUnexpectedFbMsg'[k] = listOfUnexpectedFbMsg[k]
<1>1. listOfUnexpectedFbMsg \in Seq(Event)
  BY DEF TypeOK
<1> HIDE DEF Event
<1>2. CASE FbIndex \in DOMAIN listOfUnexpectedFbMsg
  BY <1>1, <1>2 DEF Write
<1>3. CASE FbIndex \notin DOMAIN listOfUnexpectedFbMsg
  BY <1>1, <1>3 DEF Write
<1> QED BY <1>2, <1>3

(* Each step of the making of a report leaves the event in hand half made,   *)
(* or complete.                                                              *)
LEMMA ItemFilled ==
  ASSUME TypeOK, HandInv, fillItem, FbIndex \in DOMAIN listOfUnexpectedFbMsg
  PROVE  /\ InHand' = [InHand EXCEPT !.xDataItem = Append(@, NextItem)]
         /\ InHand.xDataItem \in Seq(Item) /\ InHand'.xDataItem \in Seq(Item)
         /\ HalfMade(InHand)' /\ item + 1 <= ItemCount
         /\ InHand'.xDataItem = Append(InHand.xDataItem, NextItem)
<1>1. /\ loopPc = "fill" /\ loopPc' = "fill" /\ item < ItemCount /\ item' = item + 1 /\ item \in Nat
      /\ UNCHANGED <<FbIndex, posOfs88NibblesChanges, offset>>
      /\ Write([InHand EXCEPT !.xDataItem = Append(@, NextItem)])
  BY DEF fillItem, NextItem, NextNibble, TypeOK
<1>2. InHand' = [InHand EXCEPT !.xDataItem = Append(@, NextItem)]
  BY <1>1, WriteResult DEF InHand
<1>3. InHand \in Event /\ InHand.xDataItem \in Seq(Item) /\ NextItem \in Item
  BY <1>1, InHandType, NextItemType
<1>4. HalfMade(InHand)
  BY <1>1 DEF HandInv, Making
<1>5. /\ InHand'.xDataItem = Append(InHand.xDataItem, NextItem)
      /\ InHand'.described = InHand.described /\ InHand'.nNbDataItems = InHand.nNbDataItems
  <2> HIDE DEF InHand, NextItem
  <2> QED BY <1>2, <1>3 DEF Event
<1>6. /\ InHand'.xDataItem \in Seq(Item) /\ Len(InHand'.xDataItem) = item + 1
      /\ DOMAIN InHand.xDataItem = 1..item /\ DOMAIN InHand'.xDataItem = 1..(item + 1)
      /\ InHand'.xDataItem[item + 1] = NextItem
      /\ \A k \in 1..item : InHand'.xDataItem[k] = InHand.xDataItem[k]
  <2> HIDE DEF InHand, NextItem, Item
  <2>1. Len(InHand.xDataItem) = item
    BY <1>1, <1>4 DEF HalfMade
  <2> QED BY <1>3, <1>5, <2>1
<1>7. \A k \in DOMAIN InHand'.xDataItem :
        InHand'.xDataItem[k].nAddress = 4 * posOfs88NibblesChanges[k + offset]
  <2>1. NextItem.nAddress = 4 * posOfs88NibblesChanges[item + 1 + offset]
    BY DEF NextItem, NextNibble
  <2>2. \A k \in 1..item : InHand.xDataItem[k].nAddress = 4 * posOfs88NibblesChanges[k + offset]
    BY <1>4, <1>6 DEF HalfMade, NextOnes
  <2>3. \A k \in 1..(item + 1) : k \in 1..item \/ k = item + 1
    BY <1>1
  <2> HIDE DEF InHand, NextItem
  <2> QED BY <1>6, <2>1, <2>2, <2>3
<1>8. NextOnes(InHand.xDataItem)'
  <2> HIDE DEF InHand
  <2> QED BY <1>1, <1>7 DEF NextOnes
<1>9. HalfMade(InHand)'
  <2> HIDE DEF InHand
  <2> QED BY <1>1, <1>4, <1>5, <1>6, <1>8 DEF HalfMade
<1>10. item + 1 <= ItemCount
  BY <1>1, ItemCountType
<1> QED BY <1>2, <1>3, <1>5, <1>6, <1>9, <1>10

LEMMA EventDescribed ==
  ASSUME TypeOK, HandInv, handleCommandStationFb, FbIndex \in DOMAIN listOfUnexpectedFbMsg
  PROVE  HalfMade(InHand)' /\ InHand'.xDataItem = <<>> /\ InHand'.nNbDataItems = Anything
<1>1. /\ loopPc = "describe" /\ loopPc' = "fill" /\ item' = 0
      /\ UNCHANGED <<FbIndex, posOfs88NibblesChanges, offset>>
      /\ Write([InHand EXCEPT !.described = TRUE])
  BY DEF handleCommandStationFb
<1>2. InHand' = [InHand EXCEPT !.described = TRUE]
  BY <1>1, WriteResult DEF InHand
<1>3. InHand \in Event
  BY InHandType
<1>4. HalfMade(InHand)
  BY <1>1 DEF HandInv, Making
<1>5. /\ InHand'.xDataItem = InHand.xDataItem /\ InHand'.described = TRUE
      /\ InHand'.nNbDataItems = InHand.nNbDataItems
  <2> HIDE DEF InHand
  <2> QED BY <1>2, <1>3 DEF Event
<1>6. InHand'.xDataItem = <<>> /\ InHand'.nNbDataItems = Anything
  BY <1>1, <1>4, <1>5 DEF HalfMade
<1>7. DOMAIN InHand'.xDataItem = {} /\ Len(InHand'.xDataItem) = 0
  <2> HIDE DEF InHand
  <2> QED BY <1>6
<1> HIDE DEF InHand
<1> QED BY <1>1, <1>5, <1>6, <1>7 DEF HalfMade, NextOnes

LEMMA ItemsCounted ==
  ASSUME TypeOK, EnoughChanges, HandInv, setNbDataItems, FbIndex \in DOMAIN listOfUnexpectedFbMsg
  PROVE  /\ listOfUnexpectedFbMsg'[FbIndex].xDataItem = InHand.xDataItem
         /\ listOfUnexpectedFbMsg'[FbIndex].described
         /\ listOfUnexpectedFbMsg'[FbIndex].nNbDataItems = ItemCount
         /\ InHand.xDataItem \in Seq(Item) /\ Len(InHand.xDataItem) = ItemCount
         /\ NextOnes(InHand.xDataItem)
<1>1. /\ loopPc = "fill" /\ item >= ItemCount /\ item \in Nat /\ ItemCount \in Int
      /\ Write([InHand EXCEPT !.nNbDataItems = ItemCount])
  BY ItemCountType DEF setNbDataItems, TypeOK
<1>2. listOfUnexpectedFbMsg'[FbIndex] = [InHand EXCEPT !.nNbDataItems = ItemCount]
  BY <1>1, WriteResult
<1>3. InHand \in Event /\ InHand.xDataItem \in Seq(Item)
  BY InHandType
<1>4. HalfMade(InHand) /\ item <= ItemCount
  BY <1>1 DEF HandInv, Making
<1>5. item = ItemCount
  BY <1>1, <1>4
<1> HIDE DEF InHand, ItemCount
<1>6. /\ listOfUnexpectedFbMsg'[FbIndex].xDataItem = InHand.xDataItem
      /\ listOfUnexpectedFbMsg'[FbIndex].described = InHand.described
      /\ listOfUnexpectedFbMsg'[FbIndex].nNbDataItems = ItemCount
  BY <1>2, <1>3 DEF Event
<1> QED BY <1>1, <1>3, <1>4, <1>5, <1>6 DEF HalfMade

LEMMA HandStep == Inductive /\ [Next]_vars => HandInv'
<1> SUFFICES ASSUME Inductive, [Next]_vars PROVE HandInv'
  OBVIOUS
<1>0. /\ TypeOK /\ HandInv /\ listOfUnexpectedFbMsg \in Seq(Event) /\ FbIndex \in Nat
      /\ Len(listOfUnexpectedFbMsg) \in Nat
      /\ DOMAIN listOfUnexpectedFbMsg = 1..Len(listOfUnexpectedFbMsg)
  BY DEF Inductive, TypeOK
<1>1. CASE saveFeedbackMsg
  <2>1. /\ loopPc' = "describe" /\ FbIndex' = Len(listOfUnexpectedFbMsg) + 1
        /\ listOfUnexpectedFbMsg' = Append(listOfUnexpectedFbMsg, Blank)
    BY <1>1 DEF saveFeedbackMsg
  <2>2. /\ Len(listOfUnexpectedFbMsg') = Len(listOfUnexpectedFbMsg) + 1
        /\ listOfUnexpectedFbMsg'[FbIndex'] = Blank /\ listOfUnexpectedFbMsg' # <<>>
    <3> HIDE DEF Event, Blank
    <3> QED BY <1>0, <2>1
  <2>3. HalfMade(InHand)'
    <3>1. InHand' = Blank
      BY <2>2 DEF InHand
    <3>2. Blank.xDataItem = <<>> /\ Blank.nNbDataItems = Anything
      BY DEF Blank
    <3> HIDE DEF InHand, Blank
    <3> QED BY <2>1, <3>1, <3>2 DEF HalfMade, NextOnes
  <2> QED BY <1>0, <2>1, <2>2, <2>3 DEF HandInv, Making
<1>2. CASE handleCommandStationFb
  <2>1. /\ loopPc = "describe" /\ loopPc' = "fill" /\ FbIndex' = FbIndex /\ hostPc' = hostPc /\ item' = 0
        /\ Write([InHand EXCEPT !.described = TRUE]) /\ ItemCount' = ItemCount
    BY <1>2 DEF handleCommandStationFb, ItemCount
  <2>2. /\ DOMAIN listOfUnexpectedFbMsg' = DOMAIN listOfUnexpectedFbMsg
        /\ Len(listOfUnexpectedFbMsg') = Len(listOfUnexpectedFbMsg)
    BY <1>0, <2>1, WriteResult
  <2>3. listOfUnexpectedFbMsg # <<>> => listOfUnexpectedFbMsg' # <<>>
    <3> HIDE DEF Event
    <3> QED BY <1>0, <2>2
  <2>4. 0 <= ItemCount
    <3>1. ItemCount \in 1..DGI_MAX_DATA_ITEMS
      BY <1>0, <2>1, ItemsLeft DEF Inductive, Making
    <3> QED BY <3>1, DetectorsAssumption
  <2> QED BY <1>0, <1>2, <2>1, <2>2, <2>3, <2>4, EventDescribed DEF HandInv, Making
<1>3. CASE fillItem
  <2>1. /\ loopPc = "fill" /\ loopPc' = "fill" /\ FbIndex' = FbIndex /\ hostPc' = hostPc
        /\ item' = item + 1 /\ item < ItemCount /\ item \in Nat /\ ItemCount' = ItemCount
        /\ Write([InHand EXCEPT !.xDataItem = Append(@, NextItem)])
    BY <1>0, <1>3 DEF fillItem, ItemCount, NextItem, NextNibble, TypeOK
  <2>2. /\ DOMAIN listOfUnexpectedFbMsg' = DOMAIN listOfUnexpectedFbMsg
        /\ Len(listOfUnexpectedFbMsg') = Len(listOfUnexpectedFbMsg)
    BY <1>0, <2>1, WriteResult
  <2>3. listOfUnexpectedFbMsg # <<>> => listOfUnexpectedFbMsg' # <<>>
    <3> HIDE DEF Event
    <3> QED BY <1>0, <2>2
  <2>4. item + 1 <= ItemCount
    BY <1>0, <2>1, ItemCountType
  <2> QED BY <1>0, <1>3, <2>1, <2>2, <2>3, <2>4, ItemFilled DEF HandInv, Making
<1>4. CASE setNbDataItems
  <2>1. /\ loopPc' = "report" /\ hostPc' = hostPc
        /\ Write([InHand EXCEPT !.nNbDataItems = ItemCount])
    BY <1>4 DEF setNbDataItems
  <2>2. Len(listOfUnexpectedFbMsg') = Len(listOfUnexpectedFbMsg)
    BY <1>0, <2>1, WriteResult
  <2>3. listOfUnexpectedFbMsg # <<>> => listOfUnexpectedFbMsg' # <<>>
    <3> HIDE DEF Event
    <3> QED BY <1>0, <2>2
  <2> QED BY <1>0, <2>1, <2>3 DEF HandInv, Making
<1>5. CASE copyFbMsgToGenericData
  <2>1. /\ listOfUnexpectedFbMsg # <<>>
        /\ UNCHANGED <<listOfUnexpectedFbMsg, loopPc, posOfs88NibblesChanges, offset, FbIndex, item>>
    BY <1>5 DEF copyFbMsgToGenericData, update
  <2> QED BY <1>0, <2>1 DEF HandInv, Making, HalfMade, NextOnes, InHand, ItemCount
<1>6. CASE removeFeedbackMsg
  <2>1. /\ hostPc = "copied" /\ hostPc' = "idle" /\ listOfUnexpectedFbMsg # <<>>
        /\ listOfUnexpectedFbMsg' = Tail(listOfUnexpectedFbMsg)
        /\ UNCHANGED <<loopPc, posOfs88NibblesChanges, offset, FbIndex, item>>
    BY <1>0, <1>6 DEF removeFeedbackMsg, HandInv, update
  <2>2. /\ Len(listOfUnexpectedFbMsg') = Len(listOfUnexpectedFbMsg) - 1
        /\ DOMAIN listOfUnexpectedFbMsg' = 1..(Len(listOfUnexpectedFbMsg) - 1)
    <3> HIDE DEF Event
    <3> QED BY <1>0, <2>1
  <2>3. Making => FbIndex # 0 /\ FbIndex >= Len(listOfUnexpectedFbMsg)
    BY <1>0 DEF HandInv
  <2>4. Making => FbIndex >= Len(listOfUnexpectedFbMsg') /\ FbIndex \notin DOMAIN listOfUnexpectedFbMsg'
    BY <1>0, <2>2, <2>3
  <2>5. loopPc = "fill" => item <= ItemCount
    BY <1>0 DEF HandInv
  <2> QED BY <2>1, <2>3, <2>4, <2>5 DEF HandInv, Making, ItemCount
<1>7. CASE /\ UNCHANGED <<listOfUnexpectedFbMsg, loopPc, posOfs88NibblesChanges, offset, FbIndex, item>>
           /\ hostPc' = hostPc \/ hostPc' # "copied"
  BY <1>0, <1>7 DEF HandInv, Making, HalfMade, NextOnes, InHand, ItemCount
<1>8. CASE /\ UNCHANGED <<listOfUnexpectedFbMsg, hostPc>>
           /\ loopPc' \notin {"describe", "fill"}
  BY <1>0, <1>8 DEF HandInv, Making
<1>9. \/ reportChanges \/ GetNextUnExpectedMessage
      \/ /\ UNCHANGED <<listOfUnexpectedFbMsg, loopPc, posOfs88NibblesChanges, offset, FbIndex, item>>
         /\ hostPc' = hostPc \/ hostPc' # "copied"
      \/ /\ UNCHANGED <<listOfUnexpectedFbMsg, hostPc>>
         /\ loopPc' \notin {"describe", "fill"}
  BY DEF Next, Host, Loop, initS88, clearOneState, initS88Returns, DetectorInfoRequest,
         receiveMessage, receiveReturns, sendNothing, sendInitS88, parseNothing, parseUpdate,
         compareNibble, countReports, updateReturns, Station, update, vars
<1> QED BY <1>1, <1>2, <1>3, <1>4, <1>5, <1>6, <1>7, <1>8, <1>9
        DEF reportChanges, GetNextUnExpectedMessage

LEMMA WellFormedStep == Inductive /\ [Next]_vars => ReportsWellFormed'
<1> SUFFICES ASSUME Inductive, [Next]_vars PROVE ReportsWellFormed'
  OBVIOUS
<1> DEFINE list == listOfUnexpectedFbMsg
<1>0. /\ \A k \in DOMAIN list : WellFormed(list[k])
      /\ list \in Seq(Event) /\ TypeOK /\ HandInv /\ HandInv' /\ EnoughChanges /\ NibblesAscend
  BY HandStep DEF Inductive, ReportsWellFormed, WellFormed, Distinct, TypeOK
<1>1. SUFFICES \A k \in DOMAIN list' : WellFormed(list'[k])
  BY DEF ReportsWellFormed, WellFormed, Distinct
<1>2. CASE saveFeedbackMsg
  <2>1. WellFormed(Blank)
    <3>1. Blank.xDataItem = <<>> /\ Blank.nNbDataItems = Anything
      BY DEF Blank
    <3> HIDE DEF Blank
    <3> QED BY <3>1, DetectorsAssumption DEF WellFormed, Distinct
  <2>2. list' = Append(list, Blank)
    BY <1>2 DEF saveFeedbackMsg
  <2>3. \A k \in DOMAIN list' : (k \in DOMAIN list /\ list'[k] = list[k]) \/ list'[k] = Blank
    <3> HIDE DEF Event, Blank
    <3> QED BY <1>0, <2>2
  <2> HIDE DEF list, Blank
  <2> QED BY <1>0, <2>1, <2>3
<1>3. CASE handleCommandStationFb \/ fillItem \/ setNbDataItems
  <2>1. PICK event : Write(event)
    BY <1>3 DEF handleCommandStationFb, fillItem, setNbDataItems
  <2>2. /\ DOMAIN list' = DOMAIN list
        /\ \A k \in DOMAIN list : k # FbIndex => list'[k] = list[k]
    BY <1>0, <2>1, WriteResult
  <2>3. ASSUME FbIndex \in DOMAIN list PROVE WellFormed(list'[FbIndex])
    <3>1. CASE handleCommandStationFb
      <4>1. InHand'.xDataItem = <<>> /\ InHand'.nNbDataItems = Anything
        BY <1>0, <2>3, <3>1, EventDescribed
      <4>2. InHand' = list'[FbIndex]
        BY <3>1 DEF InHand, handleCommandStationFb
      <4> HIDE DEF InHand, list
      <4> QED BY <4>1, <4>2, DetectorsAssumption DEF WellFormed, Distinct
    <3>2. CASE fillItem
      <4>1. /\ InHand' = list'[FbIndex] /\ loopPc = "fill"
            /\ UNCHANGED <<loopPc, posOfs88NibblesChanges, offset, FbIndex>> /\ item' = item + 1
        BY <3>2 DEF InHand, fillItem
      <4>2. /\ HalfMade(InHand)' /\ item + 1 <= ItemCount /\ InHand'.xDataItem \in Seq(Item)
        BY <1>0, <2>3, <3>2, ItemFilled
      <4> HIDE DEF InHand, list
      <4>3. /\ InHand'.nNbDataItems = Anything /\ Len(InHand'.xDataItem) = item + 1
            /\ NextOnes(InHand'.xDataItem)
        BY <4>1, <4>2 DEF HalfMade, NextOnes
      <4>4. Len(InHand'.xDataItem) \in 0..DGI_MAX_DATA_ITEMS /\ Distinct(InHand'.xDataItem)
        BY <1>0, <4>1, <4>2, <4>3, NextOnesDiffer DEF Making
      <4> QED BY <4>1, <4>3, <4>4 DEF WellFormed
    <3>3. CASE setNbDataItems
      <4>1. loopPc = "fill"
        BY <3>3 DEF setNbDataItems
      <4>2. ItemCount \in 1..DGI_MAX_DATA_ITEMS /\ ItemCount \in Int /\ ItemCount # 0
        <5>1. ItemCount \in 1..DGI_MAX_DATA_ITEMS
          BY <1>0, <4>1, ItemsLeft DEF Making
        <5> QED BY <5>1, DetectorsAssumption
      <4>3. /\ list'[FbIndex].xDataItem = InHand.xDataItem
            /\ list'[FbIndex].described /\ list'[FbIndex].nNbDataItems = ItemCount
            /\ InHand.xDataItem \in Seq(Item) /\ Len(InHand.xDataItem) = ItemCount
            /\ NextOnes(InHand.xDataItem)
        BY <1>0, <2>3, <3>3, ItemsCounted
      <4> HIDE DEF InHand, list, ItemCount
      <4>4. Len(InHand.xDataItem) \in 0..DGI_MAX_DATA_ITEMS /\ Distinct(InHand.xDataItem)
        BY <1>0, <4>1, <4>2, <4>3, NextOnesDiffer DEF Making
      <4> QED BY <4>2, <4>3, <4>4 DEF WellFormed
    <3> QED BY <1>3, <3>1, <3>2, <3>3
  <2> HIDE DEF list
  <2> QED BY <1>0, <2>2, <2>3
<1>4. CASE removeFeedbackMsg
  <2>1. list # <<>> /\ list' = Tail(list)
    BY <1>0, <1>4 DEF removeFeedbackMsg, HandInv
  <2>2. \A k \in DOMAIN list' : k + 1 \in DOMAIN list /\ list'[k] = list[k + 1]
    <3> HIDE DEF Event
    <3> QED BY <1>0, <2>1
  <2> HIDE DEF list
  <2> QED BY <1>0, <2>2
<1>5. CASE UNCHANGED list
  BY <1>0, <1>5
<1>6. \/ reportChanges \/ removeFeedbackMsg \/ UNCHANGED list
  BY DEF Next, Host, Loop, initS88, clearOneState, initS88Returns, DetectorInfoRequest,
         GetNextUnExpectedMessage, copyFbMsgToGenericData,
         receiveMessage, receiveReturns, sendNothing, sendInitS88, parseNothing, parseUpdate,
         compareNibble, countReports, updateReturns, Station, vars
<1> QED BY <1>2, <1>3, <1>4, <1>5, <1>6 DEF reportChanges

(* Every report has one to eight items and no nibble twice, for every number *)
(* of modules and however the clearing falls in the handling of an update    *)
(* (handleDetectorUpdate).                                                   *)
THEOREM ReportsAreWellFormed == Spec => []ReportsWellFormed
<1>1. Init => Inductive
  <2>1. Init => TypeOK
    BY InitType
  <2>2. Init => NibblesAscend /\ EnoughChanges /\ HandInv /\ ReportsWellFormed
    BY DEF Init, NibblesAscend, EnoughChanges, HandInv, Making, ReportsWellFormed
  <2> QED BY <2>1, <2>2 DEF Inductive
<1>2. Inductive /\ [Next]_vars => Inductive'
  BY StepType, AscendStep, EnoughStep, HandStep, WellFormedStep DEF Inductive
<1>3. Inductive => ReportsWellFormed
  BY DEF Inductive
<1> QED BY <1>1, <1>2, <1>3, PTL DEF Spec
-----------------------------------------------------------------------------
(* Over a serial line the driver ends up with the states of the station.     *)
(*                                                                           *)
(* The last message of the station tells all its detectors.  It is on the    *)
(* line, or it is the one that waits, or it is being compared and every      *)
(* nibble passed has been copied, or the driver holds it.  A clearing by the *)
(* host thread may fall anywhere into this and undo it, but from its first   *)
(* step on the station is going to be asked again.                           *)

Waits == Values(cmdToParse)

OneAtATime ==
  /\ \A u, v \in Waits : u = v
  /\ (loopPc = "receive" /\ received = 0) \/ loopPc \in {"compare", "report", "describe", "fill"} =>
       Waits = {}

Asked == hostPc = "clearing" \/ initQueued

OnTheLine == line # <<>> /\ line[Len(line)] = detectors
Waiting == line = <<>> /\ detectors \in Waits
Compared ==
  /\ line = <<>> /\ Waits = {} /\ loopPc = "compare" /\ command = detectors
  /\ \A n \in Nibbles : n < at => detectorStates[n] = detectors[n]
Held ==
  /\ line = <<>> /\ Waits = {} /\ loopPc # "compare"
  /\ \A n \in Nibbles : detectorStates[n] = detectors[n]

LastCounts == Asked \/ OnTheLine \/ Waiting \/ Compared \/ Held
AgreementInv == mode = "usb" => OneAtATime /\ LastCounts

(* A step of the loop thread that moves no message and no state.             *)
LoopGoesOn ==
  \/ loopPc' = loopPc /\ received' = received
  \/ loopPc \in {"receive", "send"} /\ loopPc' \in {"send", "parse"}
  \/ loopPc = "parse" /\ loopPc' = "receive" /\ Waits = {}
  \/ loopPc = "report" /\ loopPc' = "receive"
  \/ loopPc \in {"report", "describe", "fill"} /\ loopPc' \in {"report", "describe", "fill"}

Quiet ==
  /\ UNCHANGED <<detectorStates, initQueued, cmdToParse, station>>
  /\ hostPc' = "clearing" <=> hostPc = "clearing"
  /\ UNCHANGED <<command, at>> \/ loopPc' # "compare"
  /\ LoopGoesOn

LEMMA QuietKinds ==
  ASSUME [Next]_vars, mode = "usb"
  PROVE  \/ Quiet \/ initS88 \/ clearOneState \/ initS88Returns \/ receiveMessage
         \/ sendInitS88 \/ parseUpdate \/ compareNibble \/ countReports \/ Station
<1> USE DEF Quiet, LoopGoesOn
<1>1. CASE GetNextUnExpectedMessage \/ DetectorInfoRequest
  <2>1. CASE GetNextUnExpectedMessage
    BY <2>1, TakingKeeps DEF GetNextUnExpectedMessage, copyFbMsgToGenericData, removeFeedbackMsg, station
  <2> QED BY <1>1, <2>1 DEF DetectorInfoRequest, string, update, station
<1>2. CASE receiveReturns \/ sendNothing \/ reportChanges \/ updateReturns
  <2>1. CASE reportChanges
    BY <2>1, MakingKeeps DEF station
  <2> QED BY <1>2, <2>1 DEF receiveReturns, sendNothing, updateReturns, string, update, station
<1>3. CASE parseNothing
  <2>1. Waits = {}
    BY <1>3 DEF parseNothing, IsEmpty, Waits, Values
  <2> QED BY <1>3, <2>1 DEF parseNothing, string, update, station
<1>4. CASE UNCHANGED vars
  BY <1>4 DEF vars, string, update, station
<1> QED BY <1>1, <1>2, <1>3, <1>4 DEF Next, Host, Loop

LEMMA AgreementInit == Init => AgreementInv
<1> SUFFICES ASSUME Init PROVE AgreementInv
  OBVIOUS
<1>1. Waits = {}
  BY EmptyIsNodeList DEF Init, Waits
<1> QED BY <1>1 DEF Init, AgreementInv, OneAtATime, LastCounts, Asked

LEMMA AgreementStep == TypeOK /\ AgreementInv /\ [Next]_vars => AgreementInv'
<1> SUFFICES ASSUME TypeOK, AgreementInv, [Next]_vars, mode' = "usb"
             PROVE  OneAtATime' /\ LastCounts'
  BY DEF AgreementInv
<1>0. /\ mode = "usb" /\ OneAtATime /\ LastCounts
      /\ line \in Seq(States) /\ Len(line) \in Nat /\ detectors \in States
      /\ IsNodeList(cmdToParse, States) /\ at \in 0..NibbleCount
      /\ detectorStates \in [0..NibbleCount -> {NUL} \cup 0..15]
  BY DEF Next, vars, AgreementInv, TypeOK
<1>1. CASE Quiet
  <2>1. /\ UNCHANGED Waits
        /\ UNCHANGED <<detectorStates, initQueued, detectors, line>>
        /\ hostPc' = "clearing" <=> hostPc = "clearing"
        /\ UNCHANGED <<command, at>> \/ loopPc' # "compare"
        /\ LoopGoesOn
    BY <1>1 DEF Quiet, station, Waits
  <2>2. OneAtATime'
    BY <1>0, <2>1 DEF OneAtATime, LoopGoesOn
  <2>3. loopPc' = "compare" <=> loopPc = "compare"
    BY <2>1 DEF LoopGoesOn
  <2> QED BY <1>0, <2>1, <2>2, <2>3 DEF LastCounts, Asked, OnTheLine, Waiting, Compared, Held
<1>2. CASE initS88 \/ clearOneState
  <2>1. hostPc' = "clearing" /\ UNCHANGED <<cmdToParse, loopPc, received>>
    BY <1>2 DEF initS88, clearOneState
  <2> QED BY <1>0, <2>1 DEF OneAtATime, Waits, LastCounts, Asked
<1>3. CASE initS88Returns
  <2>1. initQueued' = TRUE /\ UNCHANGED <<cmdToParse, loopPc, received>>
    BY <1>3 DEF initS88Returns
  <2> QED BY <1>0, <2>1 DEF OneAtATime, Waits, LastCounts, Asked
<1>4. CASE receiveMessage
  <2>1. /\ loopPc = "receive" /\ received = 0 /\ line # <<>> /\ received' = 1 /\ loopPc' = "receive"
        /\ line' = Tail(line) /\ cmdToParse' = PushBack(cmdToParse, Head(line))
        /\ UNCHANGED <<hostPc, initQueued, detectors>>
    BY <1>0, <1>4 DEF receiveMessage, Burst, TypeOK
  <2>2. /\ Head(line) \in States /\ Head(line) = line[1] /\ Len(line) >= 1
        /\ Len(line') = Len(line) - 1 /\ \A k \in 1..Len(line') : line'[k] = line[k + 1]
        /\ line' \in Seq(States)
    <3> HIDE DEF States
    <3> QED BY <1>0, <2>1
  <2>3. Waits = {} /\ Waits' = {line[1]}
    <3>1. Waits = {}
      BY <1>0, <2>1 DEF OneAtATime
    <3>2. Waits' = Waits \cup {line[1]}
      BY <1>0, <2>1, <2>2, PushBackValues DEF Waits
    <3> QED BY <3>1, <3>2
  <2>4. OneAtATime'
    BY <2>1, <2>3 DEF OneAtATime
  <2>5. CASE Asked
    BY <2>1, <2>4, <2>5 DEF LastCounts, Asked
  <2>6. CASE ~Asked
    <3>1. line[Len(line)] = detectors
      BY <1>0, <2>1, <2>6 DEF LastCounts, OnTheLine, Waiting, Compared, Held
    <3>2. CASE Len(line) = 1
      <4>1. line' = <<>>
        <5> HIDE DEF States
        <5> QED BY <2>2, <3>2
      <4> QED BY <4>1, <2>1, <2>3, <2>4, <3>1, <3>2 DEF LastCounts, Waiting
    <3>3. CASE Len(line) # 1
      <4>1. Len(line') \in 1..Len(line') /\ Len(line') + 1 = Len(line)
        BY <1>0, <2>2, <3>3
      <4>2. line' # <<>> /\ line'[Len(line')] = detectors
        BY <2>2, <3>1, <4>1
      <4> QED BY <4>2, <2>1, <2>4 DEF LastCounts, OnTheLine
    <3> QED BY <3>2, <3>3
  <2> QED BY <2>5, <2>6
<1>5. CASE sendInitS88 \/ Station
  <2>1. PICK layout \in States : line' = Append(line, layout) /\ detectors' = layout
    <3>1. Layouts[mode] \subseteq States
      BY DetectorsAssumption DEF TypeOK
    <3> QED BY <1>0, <1>5, <3>1 DEF sendInitS88, Station
  <2>2. line' # <<>> /\ line'[Len(line')] = detectors'
    <3> HIDE DEF States
    <3> QED BY <1>0, <2>1
  <2>3. UNCHANGED cmdToParse /\ ((loopPc' = loopPc /\ received' = received) \/ loopPc' = "parse")
    BY <1>5 DEF sendInitS88, Station
  <2>4. OneAtATime'
    BY <1>0, <2>3 DEF OneAtATime, Waits
  <2> QED BY <2>2, <2>4 DEF LastCounts, OnTheLine
<1>6. CASE parseUpdate
  <2>1. /\ loopPc = "parse" /\ ~IsEmpty(cmdToParse) /\ command' = Front(cmdToParse)
        /\ cmdToParse' = RemoveEqual(cmdToParse, Front(cmdToParse))
        /\ at' = 0 /\ loopPc' = "compare"
        /\ UNCHANGED <<detectorStates, initQueued, hostPc, detectors, line>>
    BY <1>6 DEF parseUpdate, string, station
  <2>2. Waits = {command'} /\ Waits' = {}
    <3>1. command' \in Waits
      BY <1>0, <2>1, FrontIsValue DEF Waits
    <3>2. Waits = {command'}
      BY <1>0, <3>1 DEF OneAtATime
    <3>3. Waits' = Waits \ {command'}
      BY <1>0, <2>1, RemoveEqualValues DEF Waits
    <3> QED BY <3>2, <3>3
  <2>3. OneAtATime'
    BY <2>2 DEF OneAtATime
  <2>4. CASE Asked \/ OnTheLine
    BY <2>1, <2>3, <2>4 DEF LastCounts, Asked, OnTheLine
  <2>5. CASE Waiting
    <3>1. \A n \in Nibbles : ~(n < 0)
      BY NibbleFacts
    <3> QED BY <2>1, <2>2, <2>3, <2>5, <3>1 DEF LastCounts, Waiting, Compared
  <2> QED BY <1>0, <2>2, <2>4, <2>5 DEF LastCounts, Compared, Held
<1>7. CASE compareNibble
  <2>1. /\ loopPc = "compare" /\ at < NibbleCount /\ at' = at + 1
        /\ UNCHANGED <<initQueued, cmdToParse, hostPc, loopPc, received, command, detectors, line>>
        /\ detectorStates' = [detectorStates EXCEPT ![at] = command[at]]
    <3>1. at \in 0..NibbleCount /\ detectorStates = [n \in 0..NibbleCount |-> detectorStates[n]]
      BY <1>0
    <3> QED BY <1>7, <3>1 DEF compareNibble, station
  <2>2. UNCHANGED Waits /\ OneAtATime'
    BY <1>0, <2>1 DEF OneAtATime, Waits
  <2>3. CASE Asked \/ OnTheLine \/ Waiting
    BY <2>1, <2>2, <2>3 DEF LastCounts, Asked, OnTheLine, Waiting
  <2>4. CASE Compared
    <3>1. \A n \in Nibbles : n < at' => detectorStates'[n] = detectors[n]
      <4>1. \A n \in Nibbles : n \in 0..NibbleCount /\ (n < at + 1 => n < at \/ n = at)
        BY <1>0, NibbleFacts
      <4> QED BY <1>0, <2>1, <2>4, <4>1 DEF Compared
    <3> QED BY <2>1, <2>2, <2>4, <3>1 DEF LastCounts, Compared
  <2> QED BY <1>0, <2>1, <2>3, <2>4 DEF LastCounts, Held
<1>8. CASE countReports
  <2>1. /\ loopPc = "compare" /\ at = NibbleCount /\ loopPc' = "report"
        /\ UNCHANGED <<detectorStates, initQueued, cmdToParse, hostPc, received, command, detectors, line>>
    BY <1>8 DEF countReports, string, station
  <2>2. UNCHANGED Waits /\ OneAtATime'
    BY <1>0, <2>1 DEF OneAtATime, Waits
  <2>3. \A n \in Nibbles : n < NibbleCount
    BY NibbleFacts DEF Nibbles
  <2> QED BY <1>0, <2>1, <2>2, <2>3 DEF LastCounts, Asked, OnTheLine, Waiting, Compared, Held
<1> QED BY <1>0, <1>1, <1>2, <1>3, <1>4, <1>5, <1>6, <1>7, <1>8, QuietKinds

(* Once everything has been handled, the driver holds the detectors as the   *)
(* station last told them, for every number of modules and wherever a        *)
(* clearing falls in the handling of an update (initS88,                     *)
(* handleDetectorUpdate).                                                    *)
THEOREM StatesDoAgree == Spec => []StatesAgree
<1>1. TypeOK /\ AgreementInv => StatesAgree
  <2> SUFFICES ASSUME AgreementInv, Handled, mode = "usb"
               PROVE  \A n \in Nibbles : detectorStates[n] = detectors[n]
    BY DEF StatesAgree
  <2>1. Waits = {}
    BY DEF Handled, IsEmpty, Waits, Values
  <2> QED BY <2>1 DEF AgreementInv, LastCounts, Handled, Asked, OnTheLine, Waiting, Compared, Held
<1> QED BY <1>1, InitType, StepType, AgreementInit, AgreementStep, PTL DEF Spec
-----------------------------------------------------------------------------
(* What CDM-Rail knows of a nibble: the last report that waits for it and    *)
(* mentions the nibble or, with none there, what it believes already.  An    *)
(* event that is not complete may say anything of any nibble, and one it has *)
(* copied or that is being filled does not count yet.                        *)
OfNibble(event, n) ==
  {k \in DOMAIN event.xDataItem : k <= event.nNbDataItems /\ event.xDataItem[k].nAddress = 4 * n}
Mentions(event, n) == Complete(event) => OfNibble(event, n) # {}
Tells(event, n, value) ==
  Complete(event) => \A k \in OfNibble(event, n) : event.xDataItem[k].hData = value

Counts(k) ==
  /\ k \in DOMAIN listOfUnexpectedFbMsg
  /\ ~(hostPc = "copied" /\ k = 1) /\ ~(Making /\ k = FbIndex)

LastWord(k, n, value) ==
  /\ Counts(k)
  /\ Mentions(listOfUnexpectedFbMsg[k], n) /\ Tells(listOfUnexpectedFbMsg[k], n, value)
  /\ \A j : Counts(j) /\ j > k => ~Mentions(listOfUnexpectedFbMsg[j], n)
NoWord(n) == \A k : Counts(k) => ~Mentions(listOfUnexpectedFbMsg[k], n)

Knows(n, value) ==
  \/ \E k \in Nat : LastWord(k, n, value)
  \/ NoWord(n) /\ reported[n] \in {value, Anything}

StillToReport(n) ==
  /\ loopPc \in {"compare", "report", "describe", "fill"}
  /\ \E k \in DOMAIN posOfs88NibblesChanges : k > offset /\ posOfs88NibblesChanges[k] = n

OccupationKnown == \A n \in Nibbles :
  \/ detectorStates[n] \in {0, NUL}
  \/ Knows(n, detectorStates[n])
  \/ StillToReport(n)

(* The terminator lies among the nibbles only while the host clears them.    *)
NoHoles == \A n \in Nibbles : hostPc # "clearing" \/ n < filled => detectorStates[n] # NUL

(* The items filled of the event in hand tell what the driver holds.  Once   *)
(* CDM-Rail has copied the event or made it move up in the list, it may      *)
(* believe anything, or will.                                                *)
GoneFromHand == FbIndex \notin DOMAIN listOfUnexpectedFbMsg \/ (hostPc = "copied" /\ FbIndex = 1)
AnythingGoes == \A n \in Nibbles : \A value \in 0..15 : Knows(n, value)
ItemsTrue(items) ==
  \A k \in DOMAIN items :
    \/ detectorStates[posOfs88NibblesChanges[k + offset]] \in {0, NUL}
    \/ items[k].hData = detectorStates[posOfs88NibblesChanges[k + offset]]

HandKnown ==
  /\ Making /\ GoneFromHand => AnythingGoes
  /\ Making /\ FbIndex \in DOMAIN listOfUnexpectedFbMsg => ItemsTrue(InHand.xDataItem)

OccupationInv == Inductive /\ NoHoles /\ OccupationKnown /\ HandKnown

(* Every change the reports counted leave out is of a free nibble.  The      *)
(* division that counts them does not see to it.                             *)
LeavesOutOnlyFree ==
  loopPc = "report" => \A k \in DOMAIN posOfs88NibblesChanges :
    k > offset + DGI_MAX_DATA_ITEMS * nbOfReports => detectorStates[posOfs88NibblesChanges[k]] \in {0, NUL}

LEMMA NoHolesStep == TypeOK /\ NoHoles /\ [Next]_vars => NoHoles'
<1> SUFFICES ASSUME TypeOK, NoHoles, [Next]_vars PROVE NoHoles'
  OBVIOUS
<1>0. /\ \A n \in Nibbles : n \in Nat /\ n \in 0..NibbleCount /\ n < NibbleCount
      /\ filled \in 0..NibbleCount /\ filled \in Nat
      /\ detectorStates \in [0..NibbleCount -> {NUL} \cup 0..15]
      /\ at \in 0..NibbleCount /\ command \in States
  <2>1. \A n \in Nibbles : n \in Nat /\ n \in 0..NibbleCount /\ n < NibbleCount
    BY NibbleFacts DEF Nibbles
  <2>2. filled \in 0..NibbleCount /\ filled \in Nat
    BY NibbleFacts DEF TypeOK
  <2> QED BY <2>1, <2>2 DEF TypeOK
<1>1. CASE initS88
  <2>1. hostPc' = "clearing" /\ filled' = 0
    BY <1>1 DEF initS88
  <2> QED BY <1>0, <2>1 DEF NoHoles
<1>2. CASE clearOneState
  <2>1. /\ hostPc = "clearing" /\ hostPc' = hostPc /\ filled < NibbleCount /\ filled' = filled + 1
        /\ detectorStates' = [detectorStates EXCEPT ![filled] = 0, ![filled + 1] = NUL]
    BY <1>2 DEF clearOneState
  <2>2. \A n \in Nibbles : n < filled' => detectorStates'[n] # NUL
    <3> SUFFICES ASSUME NEW n \in Nibbles, n < filled' PROVE detectorStates'[n] # NUL
      OBVIOUS
    <3>1. n = filled \/ (n # filled /\ n < filled)
      BY <1>0, <2>1
    <3>2. n # filled + 1 /\ n \in 0..NibbleCount /\ NUL # 0
      BY <1>0, <3>1 DEF NUL
    <3> QED BY <1>0, <2>1, <3>1, <3>2 DEF NoHoles
  <2> QED BY <2>1, <2>2 DEF NoHoles
<1>3. CASE initS88Returns
  <2>1. filled = NibbleCount /\ detectorStates' = detectorStates
    BY <1>3 DEF initS88Returns, string
  <2> QED BY <1>0, <2>1 DEF NoHoles
<1>4. CASE compareNibble
  <2>1. hostPc' = hostPc /\ filled' = filled /\ at < NibbleCount
    BY <1>4 DEF compareNibble
  <2>2. command[at] # NUL
    <3>1. at \in Nibbles
      BY <1>0, <2>1, NibbleFacts DEF Nibbles
    <3>2. command[at] \in 0..15
      BY <1>0, <3>1 DEF States
    <3> QED BY <3>2 DEF NUL
  <2>3. \A n \in Nibbles : detectorStates'[n] = detectorStates[n] \/ detectorStates'[n] # NUL
    BY <1>0, <1>4, <2>2 DEF compareNibble
  <2> QED BY <2>1, <2>3 DEF NoHoles
<1>5. CASE /\ UNCHANGED <<detectorStates, filled>>
           /\ hostPc' = hostPc \/ hostPc # "clearing"
  BY <1>5 DEF NoHoles
<1> QED BY <1>1, <1>2, <1>3, <1>4, <1>5, MakingKeeps, TakingKeeps DEF Next, Host, Loop,
         DetectorInfoRequest, receiveMessage, receiveReturns, sendNothing, sendInitS88,
         parseNothing, parseUpdate, countReports, updateReturns, Station, string, vars

(* As long as the events that count stay, what CDM-Rail knows stays.         *)
LEMMA SameEventsSameKnowledge ==
  ASSUME NEW n, NEW value,
         \A k : Counts(k)' <=> Counts(k),
         \A k : Counts(k) => listOfUnexpectedFbMsg'[k] = listOfUnexpectedFbMsg[k],
         reported' = reported, Knows(n, value)
  PROVE  Knows(n, value)'
<1>1. \A k : LastWord(k, n, value) => LastWord(k, n, value)'
  BY DEF LastWord
<1>2. NoWord(n) => NoWord(n)'
  BY DEF NoWord
<1> QED BY <1>1, <1>2 DEF Knows

LEMMA KnowledgeKept ==
  ASSUME NEW n, NEW value, UNCHANGED <<listOfUnexpectedFbMsg, FbIndex, reported>>,
         hostPc' = "copied" <=> hostPc = "copied", Making' <=> Making, Knows(n, value)
  PROVE  Knows(n, value)'
<1>1. \A k : Counts(k)' <=> Counts(k)
  BY DEF Counts
<1> QED BY <1>1, SameEventsSameKnowledge

(* What CDM-Rail believes of an event.                                       *)
LEMMA BelievedFacts ==
  ASSUME NEW event \in Event, NEW n \in Nibbles, NEW value
  PROVE  /\ ~Complete(event) => Believed(event)[n] = Anything
         /\ Mentions(event, n) /\ Tells(event, n, value) => Believed(event)[n] \in {value, Anything}
         /\ ~Mentions(event, n) => Believed(event)[n] = reported[n]
<1>1. Believed(event)[n] = IF ~Complete(event) THEN Anything
                           ELSE IF OfNibble(event, n) = {} THEN reported[n]
                           ELSE event.xDataItem[Latest(OfNibble(event, n))].hData
  BY DEF Believed, OfNibble
<1>2. ASSUME OfNibble(event, n) # {} PROVE Latest(OfNibble(event, n)) \in OfNibble(event, n)
  <2>1. event.xDataItem \in Seq(Item)
    BY DEF Event
  <2>2. DOMAIN event.xDataItem = 1..Len(event.xDataItem) /\ Len(event.xDataItem) \in Nat
    BY <2>1
  <2>3. OfNibble(event, n) \in SUBSET Nat
    BY <2>2 DEF OfNibble
  <2>4. IsFiniteSet(OfNibble(event, n))
    <3>1. IsFiniteSet(1..Len(event.xDataItem))
      BY <2>2, FS_Interval
    <3> QED BY <2>2, <3>1, FS_Subset DEF OfNibble
  <2> QED BY <1>2, <2>3, <2>4, LatestIsGreatest
<1> HIDE DEF Event
<1> QED BY <1>1, <1>2 DEF Mentions, Tells

(* An event CDM-Rail copies is believed, and knowledge stays what it was; it *)
(* becomes anything if the event is still in hand.                           *)
LEMMA CopyFacts ==
  ASSUME Inductive, copyFbMsgToGenericData
  PROVE  /\ \A k : Counts(k)' <=> Counts(k) /\ k # 1
         /\ listOfUnexpectedFbMsg' = listOfUnexpectedFbMsg
         /\ listOfUnexpectedFbMsg[1] \in Event /\ 1 \in DOMAIN listOfUnexpectedFbMsg
         /\ reported' = Believed(listOfUnexpectedFbMsg[1])
         /\ hostPc = "idle" /\ FbIndex' = FbIndex /\ loopPc' = loopPc
<1>1. /\ hostPc = "idle" /\ hostPc' = "copied" /\ listOfUnexpectedFbMsg # <<>>
      /\ listOfUnexpectedFbMsg \in Seq(Event)
      /\ UNCHANGED <<listOfUnexpectedFbMsg, FbIndex, loopPc>>
      /\ reported' = Believed(Head(listOfUnexpectedFbMsg))
  BY DEF copyFbMsgToGenericData, Inductive, TypeOK, update
<1>2. /\ Head(listOfUnexpectedFbMsg) = listOfUnexpectedFbMsg[1]
      /\ listOfUnexpectedFbMsg[1] \in Event /\ 1 \in DOMAIN listOfUnexpectedFbMsg
  <2> HIDE DEF Event
  <2> QED BY <1>1
<1>3. \A k : Counts(k)' <=> Counts(k) /\ k # 1
  BY <1>1 DEF Counts, Making
<1> QED BY <1>1, <1>2, <1>3

LEMMA InHandTaken ==
  ASSUME Inductive, copyFbMsgToGenericData, Making, FbIndex = 1, NEW n \in Nibbles, NEW value
  PROVE  Knows(n, value)'
<1>1. /\ FbIndex \in DOMAIN listOfUnexpectedFbMsg /\ InHand = listOfUnexpectedFbMsg[1]
      /\ listOfUnexpectedFbMsg[1] \in Event
  BY CopyFacts DEF InHand
<1>2. ~Complete(listOfUnexpectedFbMsg[1])
  BY <1>1 DEF Inductive, HandInv, HalfMade, Complete
<1>3. reported'[n] = Anything
  BY <1>1, <1>2, CopyFacts, BelievedFacts
<1>4. \A k : ~Counts(k)'
  <2>1. Len(listOfUnexpectedFbMsg) <= 1 /\ DOMAIN listOfUnexpectedFbMsg = 1..Len(listOfUnexpectedFbMsg)
        /\ Len(listOfUnexpectedFbMsg) \in Nat
    BY DEF Inductive, HandInv, TypeOK
  <2>2. \A k \in DOMAIN listOfUnexpectedFbMsg : k = 1
    BY <2>1
  <2> QED BY <2>2, CopyFacts DEF Counts
<1> QED BY <1>3, <1>4 DEF Knows, NoWord

LEMMA ReportCopied ==
  ASSUME Inductive, copyFbMsgToGenericData, NEW n \in Nibbles, NEW value, Knows(n, value)
  PROVE  Knows(n, value)'
<1> DEFINE list == listOfUnexpectedFbMsg
<1>1. /\ \A k : Counts(k)' <=> Counts(k) /\ k # 1
      /\ list' = list /\ list[1] \in Event /\ 1 \in DOMAIN list
      /\ reported' = Believed(list[1]) /\ hostPc = "idle"
  BY CopyFacts
<1> HIDE DEF list
<1>2. CASE Making /\ FbIndex = 1
  BY <1>2, InHandTaken
<1>3. CASE Counts(1)
  <2>1. CASE NoWord(n)
    <3>1. ~Mentions(list[1], n) /\ NoWord(n)'
      BY <1>1, <1>3, <2>1 DEF NoWord, list
    <3>2. reported'[n] = reported[n]
      BY <1>1, <3>1, BelievedFacts
    <3>3. reported[n] \in {value, Anything}
      BY <2>1 DEF Knows, LastWord, NoWord
    <3> QED BY <3>1, <3>2, <3>3 DEF Knows
  <2>2. CASE ~NoWord(n)
    <3>1. PICK k \in Nat : LastWord(k, n, value)
      BY <2>2 DEF Knows
    <3>2. CASE k # 1
      <4>1. LastWord(k, n, value)'
        BY <1>1, <3>1, <3>2 DEF LastWord, list
      <4> QED BY <4>1 DEF Knows
    <3>3. CASE k = 1
      <4>1. reported'[n] \in {value, Anything}
        BY <1>1, <3>1, <3>3, BelievedFacts DEF LastWord, list
      <4>2. NoWord(n)'
        <5>1. \A j : Counts(j) /\ j # 1 => j > 1
          <6>1. DOMAIN listOfUnexpectedFbMsg \subseteq Nat \ {0}
            BY DEF Inductive, TypeOK
          <6> QED BY <6>1 DEF Counts
        <5> QED BY <1>1, <3>1, <3>3, <5>1 DEF NoWord, LastWord, list
      <4> QED BY <4>1, <4>2 DEF Knows
    <3> QED BY <3>2, <3>3
  <2> QED BY <2>1, <2>2
<1> QED BY <1>1, <1>2, <1>3 DEF Counts, list

(* An event erased: the others move up.  One in hand gets out of reach: it   *)
(* will be taken as it is.                                                   *)
LEMMA RemovalFacts ==
  ASSUME Inductive, removeFeedbackMsg
  PROVE  /\ hostPc = "copied" /\ hostPc' = "idle" /\ FbIndex' = FbIndex /\ (Making' <=> Making)
         /\ reported' = reported
         /\ Len(listOfUnexpectedFbMsg) \in Nat \ {0}
         /\ DOMAIN listOfUnexpectedFbMsg = 1..Len(listOfUnexpectedFbMsg)
         /\ DOMAIN listOfUnexpectedFbMsg' = 1..(Len(listOfUnexpectedFbMsg) - 1)
         /\ \A k \in 1..(Len(listOfUnexpectedFbMsg) - 1) :
              listOfUnexpectedFbMsg'[k] = listOfUnexpectedFbMsg[k + 1]
         /\ FbIndex \in Nat /\ (Making => FbIndex >= Len(listOfUnexpectedFbMsg))
<1>1. /\ hostPc = "copied" /\ hostPc' = "idle" /\ listOfUnexpectedFbMsg # <<>>
      /\ listOfUnexpectedFbMsg' = Tail(listOfUnexpectedFbMsg) /\ listOfUnexpectedFbMsg \in Seq(Event)
      /\ UNCHANGED <<FbIndex, loopPc, reported>> /\ FbIndex \in Nat
      /\ Making => FbIndex >= Len(listOfUnexpectedFbMsg)
  BY DEF removeFeedbackMsg, Inductive, HandInv, TypeOK, update
<1>2. /\ Len(listOfUnexpectedFbMsg) \in Nat \ {0}
      /\ DOMAIN listOfUnexpectedFbMsg = 1..Len(listOfUnexpectedFbMsg)
      /\ DOMAIN listOfUnexpectedFbMsg' = 1..(Len(listOfUnexpectedFbMsg) - 1)
      /\ \A k \in 1..(Len(listOfUnexpectedFbMsg) - 1) :
           listOfUnexpectedFbMsg'[k] = listOfUnexpectedFbMsg[k + 1]
  <2> HIDE DEF Event
  <2> QED BY <1>1
<1> QED BY <1>1, <1>2 DEF Making

LEMMA InHandShifted ==
  ASSUME Inductive, removeFeedbackMsg, Making, ~GoneFromHand, NEW n \in Nibbles, NEW value
  PROVE  Knows(n, value)'
<1>0. PICK last : last = Len(listOfUnexpectedFbMsg) - 1
  OBVIOUS
<1>1. /\ FbIndex = Len(listOfUnexpectedFbMsg) /\ FbIndex # 1 /\ last \in Nat \ {0}
      /\ FbIndex \in DOMAIN listOfUnexpectedFbMsg
  BY <1>0, RemovalFacts DEF GoneFromHand
<1>2. listOfUnexpectedFbMsg'[last] = InHand
  BY <1>0, <1>1, RemovalFacts DEF InHand
<1>3. ~Complete(InHand)
  BY <1>1 DEF Inductive, HandInv, HalfMade, Complete
<1>4. Mentions(InHand, n) /\ Tells(InHand, n, value)
  BY <1>3 DEF Mentions, Tells
<1>5. Counts(last)' /\ \A j : ~(Counts(j)' /\ j > last)
  BY <1>0, <1>1, RemovalFacts DEF Counts
<1>6. LastWord(last, n, value)'
  BY <1>2, <1>4, <1>5 DEF LastWord
<1> QED BY <1>1, <1>6 DEF Knows

LEMMA ReportRemoved ==
  ASSUME Inductive, removeFeedbackMsg, NEW n \in Nibbles, NEW value, Knows(n, value)
  PROVE  Knows(n, value)'
<1>1. CASE Making /\ ~GoneFromHand
  BY <1>1, InHandShifted
<1>2. CASE ~(Making /\ ~GoneFromHand)
  <2> DEFINE list == listOfUnexpectedFbMsg
             size == Len(listOfUnexpectedFbMsg)
  <2>1. ~(Making /\ FbIndex \in DOMAIN list) \/ (Making /\ FbIndex = 1)
    BY <1>2, RemovalFacts DEF GoneFromHand
  <2>2. \A k \in Nat \ {0} : Counts(k)' <=> Counts(k + 1)
    <3> SUFFICES ASSUME NEW k \in Nat \ {0} PROVE Counts(k)' <=> Counts(k + 1)
      OBVIOUS
    <3>1. k \in DOMAIN list' <=> k + 1 \in DOMAIN list
      BY RemovalFacts
    <3>2. k + 1 # 1
      OBVIOUS
    <3>3. k \in DOMAIN list' => ~(Making /\ k = FbIndex)
      BY RemovalFacts
    <3>4. k + 1 \in DOMAIN list => ~(Making /\ k + 1 = FbIndex)
      BY <2>1, <3>2
    <3> QED BY <3>1, <3>2, <3>3, <3>4, RemovalFacts DEF Counts
  <2>3. \A k \in Nat \ {0} : Counts(k + 1) => list'[k] = list[k + 1]
    BY RemovalFacts DEF Counts
  <2>4. /\ \A k : Counts(k) => k \in Nat /\ k # 1 /\ k - 1 \in Nat \ {0} /\ (k - 1) + 1 = k
        /\ \A k : Counts(k)' => k \in Nat \ {0}
    BY RemovalFacts DEF Counts
  <2> HIDE DEF list
  <2>5. CASE NoWord(n)
    <3>1. NoWord(n)'
      BY <2>2, <2>3, <2>4, <2>5 DEF NoWord, list
    <3>2. reported[n] \in {value, Anything}
      BY <2>5 DEF Knows, LastWord, NoWord
    <3> QED BY <3>1, <3>2, RemovalFacts DEF Knows
  <2>6. CASE ~NoWord(n)
    <3>1. PICK k \in Nat : LastWord(k, n, value)
      BY <2>6 DEF Knows
    <3>2. PICK m \in Nat \ {0} : k = m + 1
      BY <2>4, <3>1 DEF LastWord
    <3>3. Counts(m)' /\ list'[m] = list[k]
      BY <2>2, <2>3, <3>1, <3>2 DEF LastWord
    <3>4. \A j : Counts(j)' /\ j > m => ~Mentions(list'[j], n)
      <4> SUFFICES ASSUME NEW j, Counts(j)', j > m PROVE ~Mentions(list'[j], n)
        OBVIOUS
      <4>1. j \in Nat \ {0} /\ Counts(j + 1) /\ list'[j] = list[j + 1] /\ j + 1 > k
        BY <2>2, <2>3, <2>4, <3>2
      <4> QED BY <3>1, <4>1 DEF LastWord, list
    <3>5. LastWord(m, n, value)'
      BY <3>1, <3>3, <3>4 DEF LastWord, list
    <3> QED BY <3>5 DEF Knows
  <2> QED BY <2>5, <2>6
<1> QED BY <1>1, <1>2

(* Until an event is complete, it changes nothing of what CDM-Rail knows.    *)
LEMMA MakingTellsNothing ==
  ASSUME Inductive, saveFeedbackMsg \/ handleCommandStationFb \/ fillItem,
         NEW n, NEW value, Knows(n, value)
  PROVE  Knows(n, value)'
<1>0. /\ TypeOK /\ listOfUnexpectedFbMsg \in Seq(Event) /\ Len(listOfUnexpectedFbMsg) \in Nat
      /\ DOMAIN listOfUnexpectedFbMsg = 1..Len(listOfUnexpectedFbMsg)
  BY DEF Inductive, TypeOK
<1>1. CASE saveFeedbackMsg
  <2>1. /\ loopPc = "report" /\ loopPc' = "describe" /\ reported' = reported /\ hostPc' = hostPc
        /\ FbIndex' = Len(listOfUnexpectedFbMsg) + 1
        /\ listOfUnexpectedFbMsg' = Append(listOfUnexpectedFbMsg, Blank)
    BY <1>1 DEF saveFeedbackMsg
  <2>2. /\ DOMAIN listOfUnexpectedFbMsg' = 1..(Len(listOfUnexpectedFbMsg) + 1)
        /\ \A k \in DOMAIN listOfUnexpectedFbMsg : listOfUnexpectedFbMsg'[k] = listOfUnexpectedFbMsg[k]
    <3> HIDE DEF Event, Blank
    <3> QED BY <1>0, <2>1
  <2>3. \A k : Counts(k)' <=> Counts(k)
    BY <1>0, <2>1, <2>2 DEF Counts, Making
  <2>4. \A k : Counts(k) => listOfUnexpectedFbMsg'[k] = listOfUnexpectedFbMsg[k]
    BY <2>2 DEF Counts
  <2> QED BY <2>1, <2>3, <2>4, SameEventsSameKnowledge
<1>2. CASE handleCommandStationFb \/ fillItem
  <2>1. /\ Making /\ Making' /\ reported' = reported /\ hostPc' = hostPc /\ FbIndex' = FbIndex
        /\ \E event : Write(event)
    BY <1>2 DEF handleCommandStationFb, fillItem, Making
  <2>2. PICK event : Write(event)
    BY <2>1
  <2>3. /\ DOMAIN listOfUnexpectedFbMsg' = DOMAIN listOfUnexpectedFbMsg
        /\ \A k \in DOMAIN listOfUnexpectedFbMsg :
              k # FbIndex => listOfUnexpectedFbMsg'[k] = listOfUnexpectedFbMsg[k]
    BY <1>0, <2>2, WriteResult
  <2>4. \A k : Counts(k)' <=> Counts(k)
    BY <2>1, <2>3 DEF Counts
  <2>5. \A k : Counts(k) => listOfUnexpectedFbMsg'[k] = listOfUnexpectedFbMsg[k]
    BY <2>1, <2>3 DEF Counts
  <2> QED BY <2>1, <2>4, <2>5, SameEventsSameKnowledge
<1> QED BY <1>1, <1>2

(* A complete event tells of the changes it takes from the record.           *)
LEMMA ReportTells ==
  ASSUME OccupationInv, setNbDataItems, NEW n \in Nibbles, detectorStates[n] \notin {0, NUL}
  PROVE  Knows(n, detectorStates[n])' \/ StillToReport(n)'
<1> DEFINE list == listOfUnexpectedFbMsg
           pos == posOfs88NibblesChanges
           value == detectorStates[n]
<1>0. /\ TypeOK /\ EnoughChanges /\ HandInv /\ list \in Seq(Event) /\ Len(list) \in Nat
      /\ DOMAIN list = 1..Len(list) /\ FbIndex \in Nat /\ value \in 0..15
      /\ pos \in Seq(Nibbles) /\ DOMAIN pos = 1..Len(pos) /\ Len(pos) \in Nat /\ offset \in Nat
  <2>1. n \in 0..NibbleCount /\ detectorStates \in [0..NibbleCount -> {NUL} \cup 0..15]
    BY NibbleFacts DEF OccupationInv, Inductive, TypeOK
  <2>2. value \in 0..15
    BY <2>1
  <2> QED BY <2>2 DEF OccupationInv, Inductive, TypeOK
<1>1. /\ loopPc = "fill" /\ loopPc' = "report" /\ offset' = offset + DGI_MAX_DATA_ITEMS
      /\ UNCHANGED <<detectorStates, posOfs88NibblesChanges, reported, hostPc>>
      /\ Write([InHand EXCEPT !.nNbDataItems = ItemCount])
  BY DEF setNbDataItems, string
<1>2. /\ DOMAIN list' = DOMAIN list
      /\ \A k \in DOMAIN list : k # FbIndex => list'[k] = list[k]
  BY <1>0, <1>1, WriteResult
<1>3. Making /\ ~Making'
  BY <1>1 DEF Making
<1>4. CASE GoneFromHand
  <2>1. Knows(n, value)
    BY <1>0, <1>3, <1>4 DEF OccupationInv, HandKnown, AnythingGoes
  <2>2. \A k : Counts(k)' <=> Counts(k)
    BY <1>1, <1>2, <1>3, <1>4 DEF Counts, GoneFromHand
  <2>3. \A k : Counts(k) => list'[k] = list[k]
    BY <1>2, <1>3 DEF Counts
  <2>4. Knows(n, value)'
    <3>1. \A v : Knows(n, v) => Knows(n, v)'
      BY <1>1, <2>2, <2>3, SameEventsSameKnowledge
    <3> QED BY <1>1, <2>1, <3>1 DEF Knows
  <2> QED BY <2>4
<1>5. CASE ~GoneFromHand
  <2>0. PICK index : index = FbIndex
    OBVIOUS
  <2> DEFINE event == list'[index]
             items == InHand.xDataItem
  <2>1. /\ FbIndex \in DOMAIN list /\ FbIndex = Len(list) /\ ~(hostPc = "copied" /\ FbIndex = 1)
    <3>1. FbIndex >= Len(list)
      BY <1>0, <1>3 DEF HandInv
    <3>2. FbIndex \in DOMAIN list /\ ~(hostPc = "copied" /\ FbIndex = 1)
      BY <1>5 DEF GoneFromHand
    <3>3. FbIndex \in Nat /\ Len(list) \in Nat /\ DOMAIN list = 1..Len(list)
      BY <1>0
    <3> HIDE DEF list
    <3> QED BY <3>1, <3>2, <3>3
  <2>2. /\ event.xDataItem = items /\ event.described /\ event.nNbDataItems = ItemCount
        /\ items \in Seq(Item) /\ Len(items) = ItemCount /\ NextOnes(items)
    BY <1>0, <2>0, <2>1, ItemsCounted
  <2>3. ItemCount \in 1..DGI_MAX_DATA_ITEMS /\ \A k \in 1..ItemCount : k + offset \in DOMAIN pos
    BY <1>0, <1>3, ItemsLeft
  <2>4. Complete(event)
    BY <2>2, <2>3, DetectorsAssumption DEF Complete, Anything
  <2>5. DOMAIN items = 1..ItemCount /\ ItemCount \in Nat
    BY <2>2, <2>3, DetectorsAssumption
  <2>6. \A k : k \in OfNibble(event, n) <=> k \in 1..ItemCount /\ pos[k + offset] = n
    <3>1. \A k \in 1..ItemCount : pos[k + offset] \in Nat /\ n \in Nat
      <4>1. \A k \in DOMAIN pos : pos[k] \in Nibbles
        BY <1>0
      <4> HIDE DEF pos
      <4> QED BY <2>3, <4>1, NibbleFacts
    <3>2. \A a, b \in Nat : 4 * a = 4 * b <=> a = b
      OBVIOUS
    <3>3. \A k \in 1..ItemCount : items[k].nAddress = 4 * pos[k + offset] /\ k <= ItemCount
      BY <2>2, <2>5 DEF NextOnes
    <3> HIDE DEF event, items, pos, ItemCount
    <3> QED BY <2>2, <2>5, <3>1, <3>2, <3>3 DEF OfNibble
  <2>7. Tells(event, n, value)
    <3> SUFFICES ASSUME NEW k \in OfNibble(event, n) PROVE event.xDataItem[k].hData = value
      BY DEF Tells
    <3>1. k \in DOMAIN items /\ pos[k + offset] = n
      BY <2>5, <2>6
    <3>2. ItemsTrue(items)
      BY <1>3, <2>1 DEF OccupationInv, HandKnown
    <3>3. items[k].hData = value
      BY <3>1, <3>2 DEF ItemsTrue
    <3> QED BY <2>2, <3>3
  <2>8. /\ \A k : Counts(k)' <=> Counts(k) \/ k = index
        /\ \A k : Counts(k) => list'[k] = list[k] /\ k # index /\ k \in Nat
        /\ \A k : Counts(k) => ~(k > index)
    <3>1. \A k : Counts(k)' <=> Counts(k) \/ k = index
      BY <1>1, <1>2, <1>3, <2>0, <2>1 DEF Counts
    <3>2. \A k : Counts(k) => list'[k] = list[k] /\ k # index /\ k \in Nat
      BY <1>0, <1>2, <1>3, <2>0 DEF Counts
    <3>3. \A k : Counts(k) => ~(k > index)
      BY <1>0, <2>0, <2>1 DEF Counts
    <3> QED BY <3>1, <3>2, <3>3
  <2>9. CASE Mentions(event, n)
    <3> HIDE DEF event
    <3>1. \A v : Tells(event, n, v) => LastWord(index, n, v)'
      <4> SUFFICES ASSUME NEW v, Tells(event, n, v) PROVE LastWord(index, n, v)'
        OBVIOUS
      <4>1. \A j : ~(Counts(j)' /\ j > index)
        <5>1. ~(index > index)
          BY <1>0, <2>0
        <5> QED BY <2>8, <5>1
      <4>2. list'[index] = event
        BY DEF event
      <4> QED BY <2>8, <2>9, <4>1, <4>2 DEF LastWord
    <3>2. Knows(n, value)'
      BY <1>0, <1>1, <2>0, <2>7, <3>1 DEF Knows
    <3> QED BY <3>2
  <2>10. CASE ~Mentions(event, n)
    <3>1. ~(\E k \in 1..ItemCount : pos[k + offset] = n)
      BY <2>6, <2>10, <2>4 DEF Mentions
    <3>2. CASE Knows(n, value)
      <4> HIDE DEF event
      <4>0. list'[index] = event
        BY DEF event
      <4>1. \A v : NoWord(n) => NoWord(n)'
        BY <2>8, <2>10, <4>0 DEF NoWord
      <4>2. \A v : \A k \in Nat : LastWord(k, n, v) => LastWord(k, n, v)'
        BY <2>8, <2>10, <4>0 DEF LastWord
      <4>3. \A v : Knows(n, v) => Knows(n, v)'
        BY <1>1, <4>1, <4>2 DEF Knows
      <4> QED BY <1>1, <3>2, <4>3 DEF Knows
    <3>3. CASE StillToReport(n)
      <4>1. PICK k \in DOMAIN pos : k > offset /\ pos[k] = n
        BY <3>3 DEF StillToReport
      <4>2. k \in Nat /\ k <= Len(pos)
        BY <1>0, <4>1
      <4>3. ~(k <= offset + ItemCount)
        <5> SUFFICES ASSUME k <= offset + ItemCount PROVE FALSE
          OBVIOUS
        <5> HIDE DEF ItemCount
        <5>1. k - offset \in 1..ItemCount /\ (k - offset) + offset = k
          BY <1>0, <2>5, <4>1, <4>2
        <5> QED BY <3>1, <4>1, <5>1
      <4>4. k > offset + DGI_MAX_DATA_ITEMS
        <5>1. ItemCount = DGI_MAX_DATA_ITEMS \/ ItemCount = Len(pos) - offset
          BY DEF ItemCount
        <5> HIDE DEF ItemCount
        <5>2. DGI_MAX_DATA_ITEMS \in Nat
          BY DetectorsAssumption
        <5>3. CASE ItemCount = DGI_MAX_DATA_ITEMS
          BY <1>0, <4>2, <4>3, <5>2, <5>3
        <5>4. CASE ItemCount = Len(pos) - offset
          BY <1>0, <4>2, <4>3, <5>4
        <5> QED BY <5>1, <5>3, <5>4
      <4> QED BY <1>1, <4>1, <4>4 DEF StillToReport
    <3> QED BY <3>2, <3>3 DEF OccupationInv, OccupationKnown
  <2> QED BY <2>9, <2>10
<1> QED BY <1>4, <1>5

LEMMA OccupationInit == Init => OccupationInv
<1> SUFFICES ASSUME Init PROVE OccupationInv
  OBVIOUS
<1>1. \A n \in Nibbles : detectorStates[n] = 0 /\ 0 # NUL
  BY NibbleFacts DEF Init, Nibbles, NUL
<1>2. NibblesAscend /\ EnoughChanges /\ HandInv /\ ReportsWellFormed /\ HandKnown
  BY DEF Init, NibblesAscend, EnoughChanges, HandInv, Making, ReportsWellFormed, HandKnown
<1> QED BY <1>1, <1>2, InitType DEF OccupationInv, Inductive, NoHoles, OccupationKnown

(* What the items in hand are about is on record.                            *)
LEMMA HandNibbles ==
  ASSUME Inductive, Making, FbIndex \in DOMAIN listOfUnexpectedFbMsg,
         NEW k \in DOMAIN InHand.xDataItem
  PROVE  posOfs88NibblesChanges[k + offset] \in Nibbles
<1>1. TypeOK /\ EnoughChanges /\ HandInv /\ HalfMade(InHand)
  BY DEF Inductive, HandInv
<1>2. CASE loopPc = "describe"
  <2>1. InHand.xDataItem = <<>>
    BY <1>1, <1>2 DEF HalfMade
  <2> HIDE DEF InHand
  <2> QED BY <2>1
<1>3. CASE loopPc = "fill"
  <2>1. Len(InHand.xDataItem) = item /\ item <= ItemCount /\ item \in Nat
    BY <1>1, <1>3 DEF HalfMade, HandInv, TypeOK
  <2>2. InHand.xDataItem \in Seq(Item)
    BY <1>1, InHandType
  <2>3. ItemCount \in Int /\ \A i \in 1..ItemCount : i + offset \in DOMAIN posOfs88NibblesChanges
    BY <1>1, ItemsLeft, ItemCountType
  <2>4. k \in 1..ItemCount
    <3> HIDE DEF InHand, Item, ItemCount
    <3>1. k \in 1..item
      BY <2>1, <2>2
    <3> QED BY <2>1, <2>3, <3>1
  <2>5. posOfs88NibblesChanges \in Seq(Nibbles)
    BY <1>1 DEF TypeOK
  <2> QED BY <2>3, <2>4, <2>5
<1> QED BY <1>2, <1>3 DEF Making

(* A clearing does not make an item filled untrue of an occupied nibble.     *)
LEMMA ClearedStates ==
  ASSUME TypeOK, initS88 \/ clearOneState, NEW n \in Nibbles
  PROVE  detectorStates'[n] = detectorStates[n] \/ detectorStates'[n] \in {0, NUL}
<1>1. n \in 0..NibbleCount /\ detectorStates \in [0..NibbleCount -> {NUL} \cup 0..15]
  BY NibbleFacts DEF TypeOK
<1> QED BY <1>1 DEF initS88, clearOneState

LEMMA HandKnownStep == OccupationInv /\ [Next]_vars => HandKnown'
<1> SUFFICES ASSUME OccupationInv, [Next]_vars PROVE HandKnown'
  OBVIOUS
<1>0. /\ Inductive /\ TypeOK /\ HandInv /\ HandKnown
      /\ listOfUnexpectedFbMsg \in Seq(Event) /\ FbIndex \in Nat
      /\ Len(listOfUnexpectedFbMsg) \in Nat
      /\ DOMAIN listOfUnexpectedFbMsg = 1..Len(listOfUnexpectedFbMsg)
  BY DEF OccupationInv, Inductive, TypeOK
<1>1. CASE initS88 \/ clearOneState
  <2>1. /\ UNCHANGED <<listOfUnexpectedFbMsg, FbIndex, reported, loopPc, posOfs88NibblesChanges, offset>>
        /\ hostPc # "copied" /\ hostPc' # "copied"
    BY <1>1 DEF initS88, clearOneState, update
  <2>2. AnythingGoes => AnythingGoes'
    <3>1. Making' <=> Making
      BY <2>1 DEF Making
    <3> QED BY <2>1, <3>1, KnowledgeKept DEF AnythingGoes
  <2>3. Making /\ FbIndex \in DOMAIN listOfUnexpectedFbMsg => ItemsTrue(InHand.xDataItem)'
    <3> SUFFICES ASSUME Making, FbIndex \in DOMAIN listOfUnexpectedFbMsg,
                        NEW k \in DOMAIN InHand.xDataItem
                 PROVE  \/ detectorStates'[posOfs88NibblesChanges[k + offset]] \in {0, NUL}
                        \/ InHand.xDataItem[k].hData = detectorStates'[posOfs88NibblesChanges[k + offset]]
      BY <2>1 DEF ItemsTrue, InHand
    <3>1. posOfs88NibblesChanges[k + offset] \in Nibbles
      BY <1>0, HandNibbles
    <3>2. \/ detectorStates[posOfs88NibblesChanges[k + offset]] \in {0, NUL}
          \/ InHand.xDataItem[k].hData = detectorStates[posOfs88NibblesChanges[k + offset]]
      BY <1>0 DEF HandKnown, ItemsTrue
    <3> HIDE DEF InHand
    <3> QED BY <1>0, <1>1, <3>1, <3>2, ClearedStates
  <2> QED BY <1>0, <2>1, <2>2, <2>3 DEF HandKnown, Making, GoneFromHand
<1>2. CASE copyFbMsgToGenericData
  <2>1. /\ UNCHANGED <<listOfUnexpectedFbMsg, FbIndex, loopPc, posOfs88NibblesChanges, offset, detectorStates>>
        /\ hostPc = "idle"
    BY <1>2 DEF copyFbMsgToGenericData, update, string
  <2>2. Making /\ GoneFromHand' => AnythingGoes'
    <3>1. CASE Making /\ GoneFromHand
      BY <1>0, <1>2, <3>1, ReportCopied DEF HandKnown, AnythingGoes
    <3>2. CASE Making /\ ~GoneFromHand /\ GoneFromHand'
      <4>1. FbIndex = 1
        BY <2>1, <3>2 DEF GoneFromHand
      <4> QED BY <1>0, <1>2, <3>2, <4>1, InHandTaken DEF AnythingGoes
    <3> QED BY <3>1, <3>2
  <2>3. ItemsTrue(InHand.xDataItem) => ItemsTrue(InHand.xDataItem)'
    BY <2>1 DEF ItemsTrue, InHand
  <2> QED BY <1>0, <2>1, <2>2, <2>3 DEF HandKnown, Making
<1>3. CASE removeFeedbackMsg
  <2>1. /\ Making' <=> Making
        /\ Making => FbIndex' \notin DOMAIN listOfUnexpectedFbMsg'
    BY <1>0, <1>3, RemovalFacts
  <2>2. Making => AnythingGoes'
    <3>1. CASE Making /\ GoneFromHand
      BY <1>0, <1>3, <3>1, ReportRemoved DEF HandKnown, AnythingGoes
    <3>2. CASE Making /\ ~GoneFromHand
      BY <1>0, <1>3, <3>2, InHandShifted DEF AnythingGoes
    <3> QED BY <3>1, <3>2
  <2> QED BY <2>1, <2>2 DEF HandKnown
<1>4. CASE saveFeedbackMsg
  <2>1. /\ loopPc' = "describe" /\ FbIndex' = Len(listOfUnexpectedFbMsg) + 1 /\ hostPc' = hostPc
        /\ listOfUnexpectedFbMsg' = Append(listOfUnexpectedFbMsg, Blank)
    BY <1>4 DEF saveFeedbackMsg
  <2>2. /\ listOfUnexpectedFbMsg'[FbIndex'] = Blank
        /\ DOMAIN listOfUnexpectedFbMsg' = 1..(Len(listOfUnexpectedFbMsg) + 1)
        /\ listOfUnexpectedFbMsg # <<>> => Len(listOfUnexpectedFbMsg) # 0
    <3> HIDE DEF Event, Blank
    <3> QED BY <1>0, <2>1
  <2>3. ~GoneFromHand'
    <3>1. hostPc = "copied" => Len(listOfUnexpectedFbMsg) # 0
      BY <1>0, <2>2 DEF HandInv
    <3>2. \A m \in Nat : m + 1 \in 1..(m + 1) /\ (m + 1 = 1 => m = 0)
      OBVIOUS
    <3> QED BY <1>0, <2>1, <2>2, <3>1, <3>2 DEF GoneFromHand
  <2>4. ItemsTrue(InHand.xDataItem)'
    <3>1. InHand'.xDataItem = <<>>
      BY <2>2 DEF InHand, Blank
    <3> HIDE DEF InHand
    <3> QED BY <3>1 DEF ItemsTrue
  <2> QED BY <2>3, <2>4 DEF HandKnown
<1>5. CASE handleCommandStationFb \/ fillItem
  <2>1. /\ Making /\ hostPc' = hostPc /\ FbIndex' = FbIndex
        /\ UNCHANGED <<detectorStates, posOfs88NibblesChanges, offset>>
    BY <1>5 DEF handleCommandStationFb, fillItem, Making, string
  <2>2. DOMAIN listOfUnexpectedFbMsg' = DOMAIN listOfUnexpectedFbMsg
    <3>1. PICK event : Write(event)
      BY <1>5 DEF handleCommandStationFb, fillItem
    <3> QED BY <1>0, <3>1, WriteResult
  <2>3. GoneFromHand' => AnythingGoes'
    <3> SUFFICES ASSUME GoneFromHand' PROVE AnythingGoes'
      OBVIOUS
    <3>1. GoneFromHand
      BY <2>1, <2>2 DEF GoneFromHand
    <3>2. AnythingGoes
      BY <1>0, <2>1, <3>1 DEF HandKnown
    <3> QED BY <1>0, <1>5, <3>2, MakingTellsNothing DEF AnythingGoes
  <2>4. ASSUME FbIndex \in DOMAIN listOfUnexpectedFbMsg PROVE ItemsTrue(InHand.xDataItem)'
    <3>1. ItemsTrue(InHand.xDataItem)
      BY <1>0, <2>1, <2>4 DEF HandKnown
    <3>2. CASE handleCommandStationFb
      <4>1. InHand'.xDataItem = <<>>
        BY <1>0, <2>4, <3>2, EventDescribed
      <4> HIDE DEF InHand
      <4> QED BY <4>1 DEF ItemsTrue
    <3>3. CASE fillItem
      <4>1. /\ InHand'.xDataItem = Append(InHand.xDataItem, NextItem)
            /\ InHand.xDataItem \in Seq(Item) /\ NextItem \in Item
        BY <1>0, <2>4, <3>3, ItemFilled, NextItemType DEF fillItem
      <4>2. Len(InHand.xDataItem) = item /\ item \in Nat
        BY <1>0, <2>4, <3>3 DEF HandInv, HalfMade, Making, fillItem, TypeOK
      <4>3. /\ \A k \in DOMAIN InHand'.xDataItem : k \in DOMAIN InHand.xDataItem \/ k = item + 1
            /\ InHand'.xDataItem[item + 1] = NextItem
            /\ \A k \in DOMAIN InHand.xDataItem : InHand'.xDataItem[k] = InHand.xDataItem[k]
        <5> HIDE DEF InHand, Item, NextItem
        <5> QED BY <4>1, <4>2
      <4>4. \/ detectorStates[posOfs88NibblesChanges[item + 1 + offset]] \in {0, NUL}
            \/ NextItem.hData = detectorStates[posOfs88NibblesChanges[item + 1 + offset]]
        BY DEF NextItem, NextNibble, ascii2Hex
      <4> HIDE DEF InHand, NextItem
      <4> QED BY <2>1, <3>1, <4>3, <4>4 DEF ItemsTrue
    <3> QED BY <1>5, <3>2, <3>3
  <2> QED BY <2>1, <2>2, <2>3, <2>4 DEF HandKnown
<1>6. CASE loopPc' \notin {"describe", "fill"}
  BY <1>6 DEF HandKnown, Making
<1>7. CASE /\ UNCHANGED <<detectorStates, listOfUnexpectedFbMsg, FbIndex, reported, loopPc>>
           /\ UNCHANGED <<posOfs88NibblesChanges, offset>>
           /\ hostPc' = "copied" <=> hostPc = "copied"
  <2>1. Making' <=> Making
    BY <1>7 DEF Making
  <2>2. AnythingGoes => AnythingGoes'
    BY <1>7, <2>1, KnowledgeKept DEF AnythingGoes
  <2> QED BY <1>0, <1>7, <2>1, <2>2 DEF HandKnown, GoneFromHand, ItemsTrue, InHand
<1>8. \/ initS88 \/ clearOneState \/ GetNextUnExpectedMessage
      \/ saveFeedbackMsg \/ handleCommandStationFb \/ fillItem
      \/ loopPc' \notin {"describe", "fill"}
      \/ /\ UNCHANGED <<detectorStates, listOfUnexpectedFbMsg, FbIndex, reported, loopPc>>
         /\ UNCHANGED <<posOfs88NibblesChanges, offset>>
         /\ hostPc' = "copied" <=> hostPc = "copied"
  BY DEF Next, Host, Loop, initS88Returns, DetectorInfoRequest, receiveMessage, receiveReturns,
         sendNothing, sendInitS88, parseNothing, parseUpdate, compareNibble, countReports,
         reportChanges, setNbDataItems, updateReturns, Station, string, update, vars
<1> QED BY <1>1, <1>2, <1>3, <1>4, <1>5, <1>6, <1>7, <1>8 DEF GetNextUnExpectedMessage

LEMMA OccupationStep == OccupationInv /\ LeavesOutOnlyFree /\ [Next]_vars => OccupationKnown'
<1> SUFFICES ASSUME OccupationInv, LeavesOutOnlyFree, [Next]_vars, NEW n \in Nibbles
             PROVE  \/ detectorStates'[n] \in {0, NUL}
                    \/ Knows(n, detectorStates[n])'
                    \/ StillToReport(n)'
  BY DEF OccupationKnown
<1>0. /\ Inductive /\ TypeOK /\ n \in 0..NibbleCount
      /\ detectorStates \in [0..NibbleCount -> {NUL} \cup 0..15]
      /\ filled \in 0..NibbleCount /\ at \in 0..NibbleCount
      /\ posOfs88NibblesChanges \in Seq(Nibbles) /\ offset \in Nat
      /\ \/ detectorStates[n] \in {0, NUL} \/ Knows(n, detectorStates[n]) \/ StillToReport(n)
  BY NibbleFacts DEF OccupationInv, OccupationKnown, Inductive, TypeOK
<1>1. ASSUME UNCHANGED <<listOfUnexpectedFbMsg, FbIndex, reported>>, Making' <=> Making,
             hostPc' = "copied" <=> hostPc = "copied",
             detectorStates'[n] = detectorStates[n], Knows(n, detectorStates[n])
      PROVE  Knows(n, detectorStates[n])'
  <2>1. \A value : Knows(n, value) => Knows(n, value)'
    BY <1>1, KnowledgeKept
  <2> QED BY <1>1, <2>1 DEF Knows, LastWord
<1>2. CASE initS88 \/ clearOneState
  <2>1. /\ detectorStates'[n] = detectorStates[n] \/ detectorStates'[n] \in {0, NUL}
        /\ UNCHANGED <<listOfUnexpectedFbMsg, FbIndex, reported, loopPc, posOfs88NibblesChanges, offset>>
        /\ hostPc # "copied" /\ hostPc' # "copied"
    BY <1>0, <1>2, ClearedStates DEF initS88, clearOneState, update
  <2> QED BY <1>0, <1>1, <2>1 DEF Making, StillToReport
<1>3. CASE GetNextUnExpectedMessage
  <2>1. UNCHANGED <<detectorStates, loopPc, posOfs88NibblesChanges, offset>>
    BY <1>3, TakingKeeps
  <2>2. Knows(n, detectorStates[n]) => Knows(n, detectorStates[n])'
    <3>1. \A value : Knows(n, value) => Knows(n, value)'
      BY <1>0, <1>3, ReportCopied, ReportRemoved DEF GetNextUnExpectedMessage
    <3> QED BY <2>1, <3>1 DEF Knows, LastWord
  <2> QED BY <1>0, <2>1, <2>2 DEF StillToReport
<1>4. CASE parseUpdate
  <2>1. /\ loopPc = "parse" /\ loopPc' = "compare" /\ hostPc' = hostPc
        /\ UNCHANGED <<detectorStates, listOfUnexpectedFbMsg, FbIndex, reported>>
    BY <1>4 DEF parseUpdate, string
  <2> QED BY <1>0, <1>1, <2>1 DEF Making, StillToReport
<1>5. CASE compareNibble
  <2>1. /\ loopPc = "compare" /\ loopPc' = loopPc /\ at < NibbleCount /\ offset = 0 /\ offset' = offset
        /\ UNCHANGED <<listOfUnexpectedFbMsg, FbIndex, reported, hostPc>>
    BY <1>5 DEF compareNibble, OccupationInv, Inductive, EnoughChanges
  <2>2. CASE UNCHANGED <<detectorStates, posOfs88NibblesChanges>>
    BY <1>0, <1>1, <2>1, <2>2 DEF Making, StillToReport
  <2>3. CASE /\ detectorStates' = [detectorStates EXCEPT ![at] = command[at]]
             /\ posOfs88NibblesChanges' = Append(posOfs88NibblesChanges, at)
    <3> DEFINE pos == posOfs88NibblesChanges
    <3>1. /\ Len(pos) \in Nat /\ DOMAIN pos = 1..Len(pos) /\ DOMAIN pos' = 1..(Len(pos) + 1)
          /\ pos'[Len(pos) + 1] = at /\ \A k \in DOMAIN pos : pos'[k] = pos[k]
      <4>1. at \in Nibbles
        BY <1>0, <2>1, NibbleFacts DEF Nibbles
      <4> HIDE DEF Nibbles
      <4> QED BY <1>0, <2>3, <4>1
    <3>2. CASE n = at
      <4>1. Len(pos) + 1 \in DOMAIN pos' /\ Len(pos) + 1 > offset'
        BY <2>1, <3>1
      <4> QED BY <2>1, <3>1, <3>2, <4>1 DEF StillToReport
    <3>3. CASE n # at
      <4>1. detectorStates'[n] = detectorStates[n]
        BY <1>0, <2>3, <3>3
      <4>2. StillToReport(n) => StillToReport(n)'
        <5>1. \A k \in DOMAIN pos : k \in DOMAIN pos'
          BY <3>1
        <5> QED BY <2>1, <3>1, <5>1 DEF StillToReport
      <4> QED BY <1>0, <1>1, <2>1, <4>1, <4>2 DEF Making
    <3> QED BY <3>2, <3>3
  <2> QED BY <1>5, <2>2, <2>3 DEF compareNibble
<1>6. CASE countReports
  <2>1. /\ loopPc = "compare" /\ loopPc' = "report" /\ hostPc' = hostPc
        /\ UNCHANGED <<detectorStates, listOfUnexpectedFbMsg, FbIndex, reported, posOfs88NibblesChanges, offset>>
    BY <1>6 DEF countReports, string
  <2> QED BY <1>0, <1>1, <2>1 DEF Making, StillToReport
<1>7. CASE saveFeedbackMsg \/ handleCommandStationFb \/ fillItem
  <2>1. /\ UNCHANGED <<detectorStates, posOfs88NibblesChanges, offset>>
        /\ loopPc' \in {"report", "describe", "fill"}
    BY <1>7 DEF saveFeedbackMsg, handleCommandStationFb, fillItem, string
  <2>2. Knows(n, detectorStates[n]) => Knows(n, detectorStates[n])'
    <3>1. \A value : Knows(n, value) => Knows(n, value)'
      BY <1>0, <1>7, MakingTellsNothing
    <3> QED BY <2>1, <3>1 DEF Knows, LastWord
  <2> QED BY <1>0, <2>1, <2>2 DEF StillToReport
<1>8. CASE setNbDataItems
  <2>1. UNCHANGED detectorStates
    BY <1>8 DEF setNbDataItems, string
  <2> QED BY <1>8, <2>1, ReportTells
<1>9. CASE updateReturns
  <2>1. /\ loopPc = "report" /\ loopPc' = "receive" /\ nbOfReports = 0 /\ hostPc' = hostPc
        /\ UNCHANGED <<detectorStates, listOfUnexpectedFbMsg, FbIndex, reported>>
    BY <1>9 DEF updateReturns, string
  <2>2. StillToReport(n) => detectorStates[n] \in {0, NUL}
    <3>1. offset + DGI_MAX_DATA_ITEMS * nbOfReports = offset
      BY <1>0, <2>1, DetectorsAssumption
    <3> QED BY <2>1, <3>1 DEF StillToReport, LeavesOutOnlyFree
  <2> QED BY <1>0, <1>1, <2>1, <2>2 DEF Making
<1>10. CASE /\ UNCHANGED <<detectorStates, listOfUnexpectedFbMsg, FbIndex, reported, posOfs88NibblesChanges, offset>>
            /\ loopPc' = loopPc
               \/ {loopPc, loopPc'} \cap {"compare", "report", "describe", "fill"} = {}
            /\ hostPc' = "copied" <=> hostPc = "copied"
  BY <1>0, <1>1, <1>10 DEF Making, StillToReport
<1>11. \/ initS88 \/ clearOneState \/ GetNextUnExpectedMessage \/ parseUpdate \/ compareNibble
       \/ countReports \/ reportChanges \/ updateReturns
       \/ /\ UNCHANGED <<detectorStates, listOfUnexpectedFbMsg, FbIndex, reported, posOfs88NibblesChanges, offset>>
          /\ loopPc' = loopPc
             \/ {loopPc, loopPc'} \cap {"compare", "report", "describe", "fill"} = {}
          /\ hostPc' = "copied" <=> hostPc = "copied"
  BY DEF Next, Host, Loop, initS88Returns, DetectorInfoRequest, receiveMessage, receiveReturns,
         sendNothing, sendInitS88, parseNothing, Station, string, update, vars
<1> QED BY <1>2, <1>3, <1>4, <1>5, <1>6, <1>7, <1>8, <1>9, <1>10, <1>11 DEF reportChanges

(* As long as the division leaves out no occupied nibble, CDM-Rail believes  *)
(* of every nibble the driver holds for occupied what the driver holds,      *)
(* unless it has taken an event before it was complete and has not been told *)
(* of the nibble since: whatever the host clears meanwhile, by whatever link *)
(* and however many updates are merged, an occupied detector gets lost in    *)
(* the rounding, or in an event taken too early, and in no other way         *)
(* (handleDetectorUpdate, DDGL_GetNextUnExpectedMessage).                    *)
THEOREM OnlyRoundingLoses == Spec /\ []LeavesOutOnlyFree => []OccupationReported
<1>1. OccupationInv => OccupationReported
  <2> SUFFICES ASSUME OccupationInv, Handled, listOfUnexpectedFbMsg = <<>>,
                      NEW n \in Nibbles, detectorStates[n] # 0, reported[n] # Anything
               PROVE  reported[n] = detectorStates[n]
    BY DEF OccupationReported
  <2>1. detectorStates[n] # NUL
    BY DEF OccupationInv, NoHoles, Handled
  <2>2. ~StillToReport(n)
    BY DEF StillToReport, Handled
  <2>3. Knows(n, detectorStates[n])
    BY <2>1, <2>2 DEF OccupationInv, OccupationKnown
  <2>4. \A k : ~Counts(k)
    BY DEF Counts
  <2> QED BY <2>3, <2>4 DEF Knows, LastWord
<1>2. OccupationInv /\ LeavesOutOnlyFree /\ [Next]_vars => OccupationInv'
  BY StepType, AscendStep, EnoughStep, HandStep, WellFormedStep, NoHolesStep, OccupationStep,
     HandKnownStep DEF OccupationInv, Inductive
<1> QED BY <1>1, <1>2, OccupationInit, PTL DEF Spec

(* No more nibbles change than have been compared, and with four modules the *)
(* reports counted are enough for all of them.                               *)
EnoughReports ==
  loopPc \in {"report", "describe", "fill"} =>
    Len(posOfs88NibblesChanges) <= offset + DGI_MAX_DATA_ITEMS * nbOfReports
FewChanges ==
  /\ Len(posOfs88NibblesChanges) <= at
  /\ EnoughReports

LEMMA FewChangesStep ==
  ASSUME NibbleCount <= DGI_MAX_DATA_ITEMS
  PROVE  Inductive /\ FewChanges /\ [Next]_vars => FewChanges'
<1> SUFFICES ASSUME Inductive, FewChanges, [Next]_vars PROVE FewChanges'
  OBVIOUS
<1>0. /\ at \in 0..NibbleCount /\ posOfs88NibblesChanges \in Seq(Nibbles)
      /\ Len(posOfs88NibblesChanges) \in Nat /\ offset \in Nat /\ nbOfReports \in Nat
      /\ NibbleCount \in Nat /\ DGI_MAX_DATA_ITEMS \in Nat \ {0}
      /\ Len(posOfs88NibblesChanges) <= at
  BY NibbleFacts, DetectorsAssumption DEF Inductive, TypeOK, FewChanges
<1>1. CASE compareNibble
  <2>1. loopPc' = "compare" /\ at' = at + 1
    BY <1>1 DEF compareNibble
  <2>2. Len(posOfs88NibblesChanges') <= Len(posOfs88NibblesChanges) + 1
    <3>1. Len(Append(posOfs88NibblesChanges, at)) = Len(posOfs88NibblesChanges) + 1
      <4>1. at \in Nibbles
        BY <1>0, <1>1 DEF compareNibble, Nibbles
      <4> HIDE DEF Nibbles
      <4> QED BY <1>0, <4>1
    <3> QED BY <1>0, <1>1, <3>1 DEF compareNibble
  <2>3. Len(posOfs88NibblesChanges') \in Nat
    BY <1>1, StepType DEF Inductive, TypeOK
  <2> QED BY <1>0, <2>1, <2>2, <2>3 DEF FewChanges, EnoughReports
<1>2. CASE parseUpdate
  BY <1>2 DEF parseUpdate, FewChanges, EnoughReports
<1>3. CASE countReports
  <2>1. /\ offset' = 0 /\ UNCHANGED <<at, posOfs88NibblesChanges>>
        /\ nbOfReports' = ReportsFor(Len(posOfs88NibblesChanges))
    BY <1>3 DEF countReports, Inductive, EnoughChanges
  <2>2. Len(posOfs88NibblesChanges) <= DGI_MAX_DATA_ITEMS
    BY <1>0
  <2>3. Len(posOfs88NibblesChanges) <= DGI_MAX_DATA_ITEMS * ReportsFor(Len(posOfs88NibblesChanges))
    <3>1. CASE Len(posOfs88NibblesChanges) = 0
      BY <1>0, <3>1 DEF ReportsFor
    <3>2. CASE Len(posOfs88NibblesChanges) # 0
      <4>1. ReportsFor(Len(posOfs88NibblesChanges)) = 1
        BY <1>0, <2>2, <3>2 DEF ReportsFor
      <4> QED BY <1>0, <2>2, <4>1
    <3> QED BY <3>1, <3>2
  <2>4. ReportsFor(Len(posOfs88NibblesChanges)) \in {0, 1}
    BY <1>0, <2>2 DEF ReportsFor
  <2> QED BY <1>0, <2>1, <2>3, <2>4 DEF FewChanges, EnoughReports
<1>4. CASE setNbDataItems
  <2>1. /\ loopPc = "fill" /\ UNCHANGED <<at, posOfs88NibblesChanges>>
        /\ nbOfReports # 0 /\ nbOfReports' = nbOfReports - 1
        /\ offset' = offset + DGI_MAX_DATA_ITEMS
    BY <1>4 DEF setNbDataItems, Inductive, TypeOK
  <2>2. Len(posOfs88NibblesChanges) <= offset + DGI_MAX_DATA_ITEMS * nbOfReports
    BY <2>1 DEF FewChanges, EnoughReports
  <2>3. offset' + DGI_MAX_DATA_ITEMS * nbOfReports' = offset + DGI_MAX_DATA_ITEMS * nbOfReports
    <3>1. \A o, d, r \in Nat : (o + d) + d * (r - 1) = o + d * r
      OBVIOUS
    <3> QED BY <1>0, <2>1, <3>1
  <2> QED BY <1>0, <2>1, <2>2, <2>3 DEF FewChanges, EnoughReports
<1>5. CASE /\ UNCHANGED <<at, posOfs88NibblesChanges, offset, nbOfReports>>
           /\ \/ loopPc' = loopPc \/ loopPc \in {"report", "describe", "fill"}
              \/ loopPc' \in {"receive", "send", "parse"}
  BY <1>5 DEF FewChanges, EnoughReports
<1>6. CASE updateReturns
  <2>1. loopPc' = "receive" /\ at' = 0 /\ posOfs88NibblesChanges' = <<>>
    BY <1>6 DEF updateReturns
  <2> QED BY <2>1 DEF FewChanges, EnoughReports
<1> QED BY <1>1, <1>2, <1>3, <1>4, <1>5, <1>6, MakingKeeps, TakingKeeps DEF Next, Host, Loop, initS88,
         clearOneState, initS88Returns, DetectorInfoRequest, receiveMessage, receiveReturns, sendNothing,
         sendInitS88, parseNothing, Station, string, update, vars

(* With no more nibbles than fit one report, which is up to four modules in  *)
(* the code, nothing is left out: CDM-Rail believes of every occupied        *)
(* detector what the driver holds, unless it has taken an event too early    *)
(* and not been told since (handleDetectorUpdate).                           *)
THEOREM FourModulesAreReported ==
  ASSUME NibbleCount <= DGI_MAX_DATA_ITEMS
  PROVE  Spec => []OccupationReported
<1>1. Init => Inductive /\ FewChanges
  <2> SUFFICES ASSUME Init PROVE Inductive /\ FewChanges
    OBVIOUS
  <2>1. Len(posOfs88NibblesChanges) <= at /\ loopPc \notin {"report", "describe", "fill"}
    BY DEF Init
  <2> QED BY <2>1, OccupationInit DEF FewChanges, EnoughReports, OccupationInv
<1>2. Inductive /\ FewChanges /\ [Next]_vars => (Inductive /\ FewChanges)'
  BY FewChangesStep, StepType, AscendStep, EnoughStep, HandStep, WellFormedStep DEF Inductive
<1>3. Inductive /\ FewChanges => LeavesOutOnlyFree
  <2> SUFFICES ASSUME Inductive, FewChanges, loopPc = "report", NEW k \in DOMAIN posOfs88NibblesChanges
               PROVE  ~(k > offset + DGI_MAX_DATA_ITEMS * nbOfReports)
    BY DEF LeavesOutOnlyFree
  <2>1. k \in Nat /\ k <= Len(posOfs88NibblesChanges) /\ Len(posOfs88NibblesChanges) \in Nat
    BY DEF Inductive, TypeOK
  <2>2. Len(posOfs88NibblesChanges) <= offset + DGI_MAX_DATA_ITEMS * nbOfReports
    BY DEF FewChanges, EnoughReports
  <2>3. offset + DGI_MAX_DATA_ITEMS * nbOfReports \in Nat
    <3>1. offset \in Nat /\ nbOfReports \in Nat /\ DGI_MAX_DATA_ITEMS \in Nat
      BY DetectorsAssumption DEF Inductive, TypeOK
    <3>2. \A o, d, r \in Nat : o + d * r \in Nat
      OBVIOUS
    <3> QED BY <3>1, <3>2
  <2> QED BY <2>1, <2>2, <2>3
<1>4. Spec => []LeavesOutOnlyFree
  BY <1>1, <1>2, <1>3, PTL DEF Spec
<1> QED BY <1>4, OnlyRoundingLoses, PTL
=============================================================================
