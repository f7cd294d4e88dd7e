------------------------------ MODULE Feedback ------------------------------
(* The list of events for CDM-Rail.  The loop thread pushes a blank event    *)
(* (saveFeedbackMsg) and fills it in place, through the index it was given;  *)
(* the host thread copies the first event and erases it.  Nothing keeps the  *)
(* one from happening in the middle of the other.                            *)
EXTENDS Turn

VARIABLES
  hostPc,                 \* "idle"; "copied" in DDGL_GetNextUnExpectedMessage; "killed",
                          \* "closing" in DCCpp::stop, and "stopped" after it
  listOfUnexpectedFbMsg,  \* the events, each with the fields filled so far
  FbIndex,                \* the loop thread's index, from 1 here
  taken                   \* what CDM-Rail has been handed

events == <<hostPc, listOfUnexpectedFbMsg, FbIndex, taken>>

Stopping == {"killed", "closing", "stopped"}
Fields == {"nRdCommand", "xDataItem", "nNbDataItems"}
Event == [of : Nat, filled : SUBSET Fields]

FeedbackTypeOK ==
  /\ hostPc \in {"idle", "copied"} \cup Stopping
  /\ listOfUnexpectedFbMsg \in Seq(Event) /\ taken \in Seq(Event)
  /\ FbIndex \in Nat

FeedbackInit == hostPc = "idle" /\ listOfUnexpectedFbMsg = <<>> /\ FbIndex = 0 /\ taken = <<>>

saveFeedbackMsg(of) ==
  /\ listOfUnexpectedFbMsg' = Append(listOfUnexpectedFbMsg, [of |-> of, filled |-> {}])
  /\ FbIndex' = Len(listOfUnexpectedFbMsg) + 1
  /\ UNCHANGED <<hostPc, taken>>

(* listOfUnexpectedFbMsg[FbIndex].field = ...: behind the last element, the  *)
(* write goes to memory the vector keeps and no element uses.                *)
Write(field) ==
  /\ listOfUnexpectedFbMsg' =
       IF FbIndex <= Len(listOfUnexpectedFbMsg)
       THEN [listOfUnexpectedFbMsg EXCEPT ![FbIndex].filled = @ \cup {field}]
       ELSE listOfUnexpectedFbMsg
  /\ UNCHANGED <<hostPc, FbIndex, taken>>

handleCommandStationFb ==
  /\ loopPc = "describe" /\ Write("nRdCommand") /\ loopPc' = "fill"
  /\ UNCHANGED <<mode, cmdToParse, sent, finished>>

fillItems ==
  /\ loopPc = "fill" /\ Write("xDataItem") /\ loopPc' = "count"
  /\ UNCHANGED <<mode, cmdToParse, sent, finished>>

setNbDataItems ==
  /\ loopPc = "count" /\ Write("nNbDataItems") /\ loopPc' = "receive"
  /\ UNCHANGED <<mode, cmdToParse, sent, finished>>

fill == handleCommandStationFb \/ fillItems \/ setNbDataItems

(* The host thread: copyFbMsgToGenericData, then removeFeedbackMsg, which    *)
(* erases the first event with the tag of the first: the first, since it is  *)
(* its own match.                                                            *)
copyFbMsgToGenericData ==
  /\ hostPc = "idle" /\ listOfUnexpectedFbMsg # <<>> /\ hostPc' = "copied"
  /\ taken' = Append(taken, Head(listOfUnexpectedFbMsg))
  /\ UNCHANGED <<turn, listOfUnexpectedFbMsg, FbIndex>>

EraseLast(list) == SubSeq(list, 1, Len(list) - 1)
EraseFirst(list) == Tail(list)
removeFeedbackMsg ==
  /\ hostPc = "copied" /\ hostPc' = "idle"
  /\ listOfUnexpectedFbMsg' = EraseFirst(listOfUnexpectedFbMsg)
  /\ UNCHANGED <<turn, FbIndex, taken>>

GetNextUnExpectedMessage == copyFbMsgToGenericData \/ removeFeedbackMsg
-----------------------------------------------------------------------------
(* Properties.                                                               *)

(* What CDM-Rail has been handed, and then what waits for it: each event by  *)
(* the message it is about.                                                  *)
Waiting == IF hostPc = "copied" THEN Tail(listOfUnexpectedFbMsg) ELSE listOfUnexpectedFbMsg
Told == [k \in 1..(Len(taken) + Len(Waiting)) |-> (taken \o Waiting)[k].of]

(* However the two threads interleave, an event is neither lost nor handed   *)
(* over twice nor overtaken: the events told and waiting only ever grow at   *)
(* the end (saveFeedbackMsg, removeFeedbackMsg).                             *)
NothingTakenBack == [][Seqs!IsPrefix(Told, Told')]_<<turn, events>>

(* CDM-Rail is handed complete events: the number of items is the last field *)
(* to be set (handleDetectorUpdate, copyFbMsgToGenericData).                 *)
EventsComplete == \A k \in DOMAIN taken : taken[k].filled = Fields
=============================================================================
