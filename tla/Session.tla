------------------------------ MODULE Session ------------------------------
(* A session with the station: DCCpp::start, its dialog, its retries and the *)
(* handshake, and DCCpp::stop.  Static variables outlive a session, and the  *)
(* loop thread is killed wherever it is.  CDM-Rail starts and stops in turn. *)
(* Of the messages, those that tell the version are followed, each with the  *)
(* session whose station sent it; of the commands, <s>, <1> and <0>.         *)
EXTENDS Integers, Sequences, NodeList

CONSTANTS
  Links,        \* what the user may choose: "usb", "wifi"
  Emulations,   \* DGI_SERVER_PARAMS::bEmulationMode, a set of Booleans
  MaxStarts,    \* bound: calls of DDGL_StartServer
  MaxRetries,   \* bound: how often the user lets it try again, in all
  MaxPowers     \* bound: calls that power the track or ask for the version

ATTEMPTS == 6
READY_SECONDS == 16
READY == 0     \* the boot message, beside the versions

ASSUME SessionAssumption ==
  /\ Links \subseteq {"usb", "wifi"} /\ Links # {} /\ Emulations \subseteq BOOLEAN
  /\ MaxStarts \in Nat /\ MaxRetries \in Nat /\ MaxPowers \in Nat

VARIABLES
  hostPc,                       \* where the host thread is
  session, retries, powers,     \* the bounds; session numbers the starts
  link, emulation, saved,       \* usbMode, emulation, and "mode" of the ini file
  comPort, ws, threads,         \* the connection, and how many loop threads run
  version, cmdStationReady,     \* version: the session that told it, 0 when empty
  attempts, elapsed, started,   \* of start(), and what it returns
  cmdToParse, txbuf,            \* messages unparsed, frames unsent
  answers, line, trackPower     \* the station: does it live, its messages, the track

bounds == <<session, retries, powers>>
settings == <<link, emulation, saved>>
connection == <<comPort, ws>>
starting == <<attempts, elapsed, started>>
station == <<answers, line, trackPower>>
vars == <<hostPc, bounds, settings, connection, threads, version, cmdStationReady, starting,
          cmdToParse, txbuf, station>>

Sessions == 1..MaxStarts

TypeOK ==
  /\ hostPc \in {"stopped", "dialog", "connect", "handshake", "ready", "ask", "sleep", "failed",
                 "retry", "served", "disconnect", "closing", "crashed"}
  /\ session \in 0..MaxStarts /\ retries \in 0..MaxRetries /\ powers \in 0..MaxPowers
  /\ link \in Links /\ emulation \in BOOLEAN /\ saved \in Links
  /\ comPort \in {"nullptr", "invalid", "open", "closed"}
  /\ ws \in {"nullptr", "OPEN", "CLOSED"} /\ threads \in Nat
  /\ version \in 0..MaxStarts /\ cmdStationReady \in BOOLEAN
  /\ attempts \in 0..ATTEMPTS /\ elapsed \in 0..READY_SECONDS /\ started \in BOOLEAN
  /\ IsNodeList(cmdToParse, Sessions)
  /\ txbuf \in Seq({"s", "1", "0"})
  /\ answers \in BOOLEAN /\ line \in Seq({READY} \cup Sessions) /\ trackPower \in BOOLEAN

Init ==
  /\ hostPc = "stopped" /\ session = 0 /\ retries = 0 /\ powers = 0
  /\ saved \in Links /\ link = saved /\ emulation = FALSE
  /\ comPort = "nullptr" /\ ws = "nullptr" /\ threads = 0
  /\ version = 0 /\ cmdStationReady = FALSE
  /\ attempts = 0 /\ elapsed = 0 /\ started = FALSE
  /\ cmdToParse = Empty /\ txbuf = <<>>
  /\ answers = FALSE /\ line = <<>> /\ trackPower = FALSE
-----------------------------------------------------------------------------
(* The station reads a command: a station that lives obeys and answers.      *)
Reads(c) ==
  /\ trackPower' = IF c = "s" \/ ~answers THEN trackPower ELSE c = "1"
  /\ line' = IF c = "s" /\ answers THEN Append(line, session) ELSE line
  /\ UNCHANGED answers

(* sendCommand.  Without a websocket the pointer is followed all the same.   *)
NeedsSocket == ~emulation /\ link = "wifi"
sendCommand(c) ==
  IF emulation
  THEN /\ cmdToParse' = IF c = "s" THEN PushBack(cmdToParse, session) ELSE cmdToParse
       /\ UNCHANGED <<txbuf, station>>
  ELSE IF link = "usb"
  THEN /\ IF comPort = "open" THEN Reads(c) ELSE UNCHANGED station
       /\ UNCHANGED <<cmdToParse, txbuf>>
  ELSE /\ txbuf' = IF ws = "OPEN" THEN Append(txbuf, c) ELSE txbuf
       /\ UNCHANGED <<cmdToParse, station>>

Crash ==
  /\ hostPc' = "crashed"
  /\ UNCHANGED <<bounds, settings, connection, threads, version, cmdStationReady, starting,
                 cmdToParse, txbuf, station>>

(* closeAnyConnection.  ClosesNull: ws is null and would be followed.  What  *)
(* is left of the websocket's buffer goes with the object, as ws is dropped. *)
ClosesNull == link = "wifi" /\ ws = "nullptr"
closeAnyConnection ==
  /\ IF link = "usb"
     THEN comPort' = "closed" /\ UNCHANGED <<ws, txbuf>>
     ELSE ws' = "nullptr" /\ txbuf' = <<>> /\ UNCHANGED comPort
  /\ version' = 0 /\ cmdStationReady' = FALSE
-----------------------------------------------------------------------------
(* DDGL_StartServer, up to the dialog.                                       *)
start == \E emul \in Emulations :
  /\ hostPc = "stopped" /\ session < MaxStarts /\ session' = session + 1
  /\ link' = saved /\ emulation' = emul
  /\ IF emul
     THEN /\ hostPc' = "served" /\ started' = TRUE /\ threads' = threads + 1
          /\ cmdToParse' = PushBack(cmdToParse, session + 1)
     ELSE hostPc' = "dialog" /\ UNCHANGED <<started, threads, cmdToParse>>
  /\ UNCHANGED <<retries, powers, saved, connection, version, cmdStationReady, attempts, elapsed,
                 txbuf, station>>

(* The parameter dialog is answered with a link, or cancelled: the radio     *)
(* buttons have set usbMode by then in either case.                          *)
runParamDlg == \E l \in Links :
  /\ hostPc = "dialog" /\ hostPc' = "connect" /\ link' = l
  /\ UNCHANGED <<bounds, emulation, saved, connection, threads, version, cmdStationReady, starting,
                 cmdToParse, txbuf, station>>

cancelParamDlg == \E l \in Links :
  /\ hostPc = "dialog" /\ hostPc' = "served" /\ started' = FALSE /\ link' = l
  /\ UNCHANGED <<bounds, emulation, saved, connection, threads, version, cmdStationReady, attempts,
                 elapsed, cmdToParse, txbuf, station>>

(* connect returns, and the loop thread is created in either case.  A board  *)
(* whose port is opened starts anew; what it had sent before is dropped.     *)
ConnectReturns(success, alive) ==
  /\ threads' = threads + 1
  /\ IF link = "usb"
     THEN comPort' = (IF success THEN "open" ELSE "invalid") /\ UNCHANGED ws
     ELSE ws' = (IF success THEN "OPEN" ELSE "nullptr") /\ UNCHANGED comPort
  /\ hostPc' = IF ~success THEN "failed" ELSE IF link = "usb" THEN "ready" ELSE "ask"
  /\ answers' = alive
  /\ trackPower' = IF success /\ link = "usb" THEN FALSE ELSE trackPower
  /\ line' = IF success /\ alive /\ link = "usb" THEN <<READY>> ELSE <<>>
  /\ attempts' = 0 /\ elapsed' = 0
  /\ UNCHANGED <<bounds, settings, version, cmdStationReady, started, cmdToParse, txbuf>>

(* A port opens or does not; a websocket's host is reached or is not.  If it *)
(* is, from_url waits for the answer to its request in recv, which has no    *)
(* timeout: it returns when the station has answered or the connection       *)
(* breaks, and nothing makes either happen.                                  *)
connect ==
  /\ hostPc = "connect"
  /\ \/ link = "usb" /\ \E success, alive \in BOOLEAN : ConnectReturns(success, alive)
     \/ link = "wifi" /\ \E alive \in BOOLEAN : ConnectReturns(FALSE, alive)
     \/ /\ link = "wifi" /\ hostPc' = "handshake"
        /\ UNCHANGED <<bounds, settings, connection, threads, version, cmdStationReady, starting,
                       cmdToParse, txbuf, station>>

from_url ==
  /\ hostPc = "handshake" /\ \E success, alive \in BOOLEAN : ConnectReturns(success, alive)

(* On a serial link: wait for the board, sixteen seconds at most.            *)
waitReady ==
  /\ hostPc = "ready"
  /\ IF cmdStationReady \/ elapsed = READY_SECONDS
     THEN hostPc' = "ask" /\ elapsed' = 0
     ELSE elapsed' = elapsed + 1 /\ UNCHANGED hostPc
  /\ UNCHANGED <<bounds, settings, connection, threads, version, cmdStationReady, attempts, started,
                 cmdToParse, txbuf, station>>

(* Ask for the version, and sleep.                                           *)
SameAttempt(n) == n
NextAttempt(n) == n + 1
askVersion ==
  /\ hostPc = "ask" /\ hostPc' = "sleep" /\ sendCommand("s") /\ attempts' = NextAttempt(attempts)
  /\ UNCHANGED <<bounds, settings, connection, threads, version, cmdStationReady, elapsed, started>>

AskOnceMore(n) == n <= ATTEMPTS
AskAgain(n) == n < ATTEMPTS
askAgain ==
  /\ hostPc = "sleep" /\ AskAgain(attempts) /\ version = 0 /\ hostPc' = "ask"
  /\ UNCHANGED <<bounds, settings, connection, threads, version, cmdStationReady, starting,
                 cmdToParse, txbuf, station>>

(* Enough has been asked.  The version is read once more to tell success     *)
(* from failure, and the settings are saved.  attempts, a local variable, is *)
(* of no more use.                                                           *)
GivesUpLate(n) == n > ATTEMPTS /\ version = 0
GivesUp(n) == n >= ATTEMPTS /\ version = 0
handshakeReturns ==
  /\ hostPc = "sleep" /\ ~(AskAgain(attempts) /\ version = 0)
  /\ IF GivesUp(attempts)
     THEN hostPc' = "failed" /\ UNCHANGED <<started, saved>>
     ELSE hostPc' = "served" /\ started' = TRUE /\ saved' = link
  /\ attempts' = 0
  /\ UNCHANGED <<bounds, link, emulation, connection, threads, version, cmdStationReady, elapsed,
                 cmdToParse, txbuf, station>>

(* The failure path: kill the thread, close, ask the user.                   *)
KeepThread(n) == n
TerminateThread(n) == IF n > 0 THEN n - 1 ELSE n
giveUp ==
  /\ hostPc = "failed"
  /\ IF ClosesNull
     THEN Crash
     ELSE /\ hostPc' = "retry" /\ threads' = TerminateThread(threads) /\ closeAnyConnection
          /\ UNCHANGED <<bounds, settings, starting, cmdToParse, station>>

retry ==
  /\ hostPc = "retry" /\ retries < MaxRetries /\ retries' = retries + 1 /\ hostPc' = "dialog"
  /\ UNCHANGED <<session, powers, settings, connection, threads, version, cmdStationReady, starting,
                 cmdToParse, txbuf, station>>

cancelRetry ==
  /\ hostPc = "retry" /\ hostPc' = "served" /\ started' = FALSE
  /\ UNCHANGED <<bounds, settings, connection, threads, version, cmdStationReady, attempts, elapsed,
                 cmdToParse, txbuf, station>>

(* What CDM-Rail does in a session: DDGL_StartServer returns true whatever   *)
(* start() has returned.                                                     *)
Call(c) ==
  /\ hostPc = "served" /\ powers < MaxPowers
  /\ IF NeedsSocket /\ ws = "nullptr"
     THEN Crash
     ELSE /\ sendCommand(c) /\ powers' = powers + 1
          /\ UNCHANGED <<hostPc, session, retries, settings, connection, threads, version,
                         cmdStationReady, starting>>

power == \E c \in {"1", "0"} : Call(c)
versionRequest == Call("s")

(* stop: the thread is killed, then disconnect, whose test is always true.   *)
stop ==
  /\ hostPc = "served" /\ hostPc' = "disconnect" /\ threads' = TerminateThread(threads)
  /\ UNCHANGED <<bounds, settings, connection, version, cmdStationReady, starting, cmdToParse,
                 txbuf, station>>

disconnect ==
  /\ hostPc = "disconnect"
  /\ IF NeedsSocket /\ ws = "nullptr"
     THEN Crash
     ELSE /\ sendCommand("0") /\ hostPc' = "closing"
          /\ UNCHANGED <<bounds, settings, connection, threads, version, cmdStationReady, starting>>

disconnectReturns ==
  /\ hostPc = "closing"
  /\ IF ClosesNull
     THEN Crash
     ELSE /\ closeAnyConnection /\ hostPc' = "stopped"
          /\ UNCHANGED <<bounds, settings, threads, starting, cmdToParse, station>>

Host ==
  \/ start \/ runParamDlg \/ cancelParamDlg \/ connect \/ from_url \/ waitReady
  \/ askVersion \/ askAgain \/ handshakeReturns \/ giveUp \/ retry \/ cancelRetry \/ power
  \/ versionRequest \/ stop \/ disconnect \/ disconnectReturns
-----------------------------------------------------------------------------
(* The loop thread.                                                          *)
Connected == ~emulation /\ IF link = "usb" THEN comPort = "open" ELSE ws = "OPEN"

receive ==
  /\ threads > 0 /\ Connected /\ line # <<>> /\ line' = Tail(line)
  /\ IF Head(line) = READY
     THEN cmdStationReady' = TRUE /\ UNCHANGED cmdToParse
     ELSE cmdToParse' = PushBack(cmdToParse, Head(line)) /\ UNCHANGED cmdStationReady
  /\ UNCHANGED <<hostPc, bounds, settings, connection, threads, version, starting, txbuf, answers,
                 trackPower>>

pollSends ==
  /\ threads > 0 /\ Connected /\ txbuf # <<>> /\ txbuf' = Tail(txbuf) /\ Reads(Head(txbuf))
  /\ UNCHANGED <<hostPc, bounds, settings, connection, threads, version, cmdStationReady, starting,
                 cmdToParse>>

pollLosesConnection ==
  /\ threads > 0 /\ ~emulation /\ ws = "OPEN" /\ link = "wifi" /\ ws' = "CLOSED" /\ answers' = FALSE
  /\ line' = <<>>
  /\ UNCHANGED <<hostPc, bounds, settings, comPort, threads, version, cmdStationReady, starting,
                 cmdToParse, txbuf, trackPower>>

handleCommandStationVersion ==
  /\ threads > 0 /\ ~IsEmpty(cmdToParse) /\ version' = Front(cmdToParse)
  /\ cmdToParse' = RemoveEqual(cmdToParse, Front(cmdToParse))
  /\ UNCHANGED <<hostPc, bounds, settings, connection, threads, cmdStationReady, starting, txbuf,
                 station>>

Loop == receive \/ pollSends \/ pollLosesConnection \/ handleCommandStationVersion

Next == hostPc # "crashed" /\ (Host \/ Loop)

Spec == Init /\ [][Next]_vars

(* The host thread runs on, except where it waits for a user, for CDM-Rail,  *)
(* or in recv for the station (from_url).                                    *)
Starting == connect \/ waitReady \/ askVersion \/ askAgain \/ handshakeReturns \/ giveUp
LiveSpec == Spec /\ WF_vars(Starting)
-----------------------------------------------------------------------------
(* Properties.                                                               *)

(* A loop thread never runs beside another, and none runs while the          *)
(* connection is closed or chosen anew (start, stop).                        *)
OneLoopThread ==
  /\ threads <= 1
  /\ hostPc \in {"stopped", "dialog", "connect", "handshake", "retry", "disconnect", "closing"}
       => threads = 0

(* When start returns success, a station has told its version, the loop      *)
(* thread runs, and sendCommand finds an open port or a websocket object to  *)
(* follow, whatever attempts, retries and sessions came before.  The         *)
(* websocket may have been closed by the loop thread since (its connection   *)
(* lost): commands are dropped then, but no null pointer is followed.        *)
StartedMeansUsable ==
  hostPc = "served" /\ started /\ ~emulation =>
    /\ version # 0 /\ threads = 1
    /\ IF link = "usb" THEN comPort = "open" ELSE ws # "nullptr"

(* Stopping leaves the track without power: the loop thread is gone, and     *)
(* <0> has reached the station before the connection is closed (stop,        *)
(* disconnect).                                                              *)
TrackOffWhenStopped == hostPc = "stopped" => ~trackPower

(* A connection that fails is followed by the question whether to try again, *)
(* and by nothing else (start).                                              *)
RetryPossible == [][hostPc = "failed" /\ hostPc' # "failed" => hostPc' = "retry"]_vars

(* Connecting comes to an end: CDM-Rail gets its thread back, or the user is *)
(* asked, whether the station tells its version or not (start).  The one     *)
(* place to be held up in for ever is recv, in the handshake of a websocket  *)
(* whose host has been reached (from_url).                                   *)
StartEnds ==
  hostPc \in {"connect", "handshake", "ready", "ask", "sleep", "failed"}
    ~> \/ hostPc \in {"retry", "served", "crashed"}
       \/ [](hostPc = "handshake")
=============================================================================
