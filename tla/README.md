# A TLA+ model of New_DCCPP

New_DCCPP is a Windows DLL that lets the layout software CDM-Rail drive a DCC++
command station. CDM-Rail calls exported `DDGL_*` functions; the station is an
Arduino on a serial port, a Wemos behind a websocket, or an emulator inside the
DLL. This directory models the driver in TLA+, checks it with TLC and proves its
central safety properties with TLAPS.

## 1. Inventory

Two threads share static variables without any lock:

- the **host thread**: CDM-Rail's, in a `DDGL_*` call or between two calls;
- the **loop thread**: `DCCpp::loop`, started by `DCCpp::start`. For ever: receive,
  send one queued command (`checkCmdToSend`), handle one message (`parse`).

| Component | State | Operations | Interacts with |
|---|---|---|---|
| Command queue, parser, power handling (`DCCpp_commands.cpp`, `DCCpp.cpp`) | `cmdToSend`, `cmdToParse`, `powerOn`, `commandStationStatus`, the time of the last command | `buildCommand`, `sendCommand`, `checkCmdToSend`, `parse`, `handleCommandStationStatus`, `emergencyStopAllLocos`, `restartAllLocos` | both threads; the station |
| DDGL interface (`DDGI_DCCpp.cpp`) | the call in progress | one exported function per request of CDM-Rail | all other parts, by direct calls |
| Locomotive list, function encoding (`DCCpp_utils.cpp`) | `listOfLocoInfos`: a locomotive's index + 1 is its register at the station | `saveLocoInfos`, `getLocoInfosIndex`, `getLocoFuncValue` | both threads |
| Waiting responses (`DCCpp_utils.cpp`) | `listOfCmdWaitingResp` | `saveCmdWtRsp`, `findCmdWtRsp`, `removeCmdWtRsp` | host thread adds, loop thread removes |
| Feedback to CDM-Rail (`DCCpp_utils.cpp`, `DCCpp.cpp`) | `listOfFeedbackMsg` (answers to calls), `listOfUnexpectedFbMsg` (events) | `saveFeedbackMsg`, `handleStandaloneCommands`, `handleCommandStationFb`, the two `GetNext*` calls | loop thread adds events, host thread takes them |
| S88 detectors (`DCCpp.cpp`, `DCCpp_utils.cpp`) | `detectorStates` | `initS88`, `clearDetectorStates`, `handleDetectorUpdate` | host thread clears, loop thread updates and reports |
| Emulator (`DCCpp_emul.cpp`) | none: it writes `cmdToParse` | `emulResponse`, `emulDetectorUpdate` | called in whichever thread sends |
| Session (`DCCpp.cpp`) | the loop thread, `comPort`, `ws`, `version`, `cmdStationReady` | `start`, `connect`, `stop`, `disconnect`, `closeAnyConnection` | creates and kills the loop thread |
| Serial reader (`waitSerialCommand`) | a buffer of 128 bytes, never initialised | reads one line, byte by byte, each read with a timeout | fills `cmdToParse` |
| WebSocket client (`websockets/wsclient.cpp`) | `readyState`, `rxbuf`, `receivedData`, `isRxBad`, `txbuf` | `from_url` (the handshake), `poll`, `dispatch`, `sendData`, `close` | host and loop thread both append to `txbuf`; `dispatch` fills `cmdToParse` |
| Settings and dialogs (`dialogs/`, `getDCCppParams`) | the ini file | parameter and progress dialogs | session |

What is hard, and what must hold nevertheless:

- **Interleaving.** An emergency stop runs in both threads, over a list the other
  may be growing, while commands wait in the queue: no locomotive may be left
  running, and no register may be given to two locomotives.
- **Ordering and merging.** `std::list::remove` takes *every* equal element, on both
  queues: merged commands and messages must not change the outcome.
- **Holding and releasing.** A loss of power holds the queue until the station says
  the power is back: it must be released when, and only when, that is so.
- **Stale reads.** `setLocoSpeed` tests `powerOn` and acts on it later.
- **Matching.** Replies are recognised by their arguments alone.
- **Detectors.** Changes are reported in messages of at most eight, while the host
  may be clearing the states.
- **Bytes.** A read that times out returns success and no byte, and the serial
  reader goes on with what its buffer happens to hold. Over Wi-Fi frames come in any
  pieces, messages in fragments with control frames between, and the first frames
  may follow the handshake at once; a failing `recv` may go unseen.
- **Events.** An event is pushed blank and filled in place later, through an index,
  while the host thread copies and erases from the front of the same vector.
- **Sessions.** Connecting may fail or time out and be retried, and over Wi-Fi it may
  block: `recv` in the handshake has no timeout. The loop thread is killed wherever
  it is.

## 2. Plan

In the order of importance for the layout; each module builds on the ones before.

1. `NodeList`, `LocoFunctions`: the containers and the pure encoding. *Done.*
2. `Bridge`: both threads, the queue, the parser, the power, the locomotives, the
   replies, the emulator. *Done, checked and proved.*
3. `TrackGate`: what the driver promises about a powerless track; `Bridge`
   implements it. *Done, checked and proved.*
4. `Detectors`: `initS88`, the update and its reports, the emulated requests.
   *Done, checked and proved.*
5. `Session`: start, the retries, the handshake, stop; what is left over from one
   session to the next. *Done, checked and proved.*
6. `Turn`, `SerialReader`, `WsClient`, `WsHandshake`, `Feedback`: the way in, from
   the station's bytes to the events CDM-Rail takes, one module per component.
   *Done.*
7. `Inbound` composes them; `MessageStream` is what it promises. *Done, checked and
   (all but the refinement and the liveness) proved.*
8. The settings: not done. Copying numbers between a file and dialog fields is
   sequential and leaves nothing to explore; where the numbers matter, the theorems
   hold for all of them (section 6).

Theorems worth proving: the type invariants and the safety invariants of `Bridge`,
`Detectors` and `Session`, the refinement of `TrackGate`, the replies, the handshake,
the event list and the whole texts of `Inbound`: all done. Left: that `Inbound`
implements `MessageStream` for every buffer size, for which the invariant of
`TextProofs` is the first half; the other says which of the messages read are told.

## 3. Modules and code

**`NodeList`** models `std::list` and the vector of waiting responses. What matters
is that `list::remove` takes all equal elements (`RemoveEqual`) where
`vector::erase` takes one (`Erase`), and that the order of the others stays.

**`Bridge`** models both threads over the variables they share.

| In the model | In the code |
|---|---|
| `mode` | `usbMode`, `emulation`: fixed while a session lasts |
| `cmdToSend`, `cmdToParse`, `listOf...`, `powerOn`, `commandStationStatus` | the statics of the same names |
| `hostPc`, `hostIt` | how far the host thread is in `setLocoSpeed`, `restartAllLocos`, `emergencyStopAllLocos` |
| `loopPc`, `loopIt`, `itValid` | how far the loop thread is, its iterator, and whether a reallocation left it dangling |
| `trackPower`, `throttle`, `line` | the station: the track, a command for each register, messages not yet read |
| `SetSpeed` ... `PowerOff`, `CommandStationVersionRequest` among them | the `DDGL_*` calls; `CommitSpeed`, `restartOneLoco`, `hostStopsOneLoco` and the `...Returns` actions are their later steps |
| `receiveMessage`, `checkCmdToSend`, `parse...` | the three parts of a turn of `DCCpp::loop` |
| `parsePowerOff`, `loopStopsOneLoco`, `loopEnds`, `reportPowerOff`, `holdQueue`, `believePowerOff` | `handleCommandStationStatus(-1)`: a step for each access |
| `parsePowerOn`, `releaseQueue`, `believePowerOn` | the same for a track that is powered |

Choices made there: a command takes effect at the station when it is sent, and all
delay is on the way back; the station is that of the emulator and of `parse`, with a
power button and keepalives (`Station`), and other throttles are not modelled; `y`
messages belong to `Detectors`; an `i` message is parsed here without effect, what it
tells belongs to `Session`. The calls are all those that reach the queue or the
station: `DDGL_LocoInfoRequest` does nothing, `DDGL_DetectorInfoRequest` is in
`Detectors`. Accessories use the command `T`, which `start` sets. One access to a
container or a scalar is one step (status and `powerOn` are two, which is the state
`GateFollowsPower` is about), so what two unlocked accesses could do to each other
inside the C++ library is not modelled, except for the iterator that a reallocation
invalidates. There the loop walks past the end of the block, and the model ends in the
state `crashed`.

**`TrackGate`** is the abstract specification: a gate that closes only when nothing
is driven, and through which nothing is driven while it is closed. `Bridge` maps
`held` to `commandStationStatus # 0` and `driven` to the locomotives whose register
holds anything but an emergency stop.

**`Detectors`** models `detectorStates` as the memory of the string: `clear` moves the
terminator to the front and keeps the allocation, `push_back` moves it up, and the
`operator[]` of the loop thread reads and writes beyond it (libstdc++;
`CMakeLists.txt` builds with gcc options). `compareNibble` is one turn of the loop
over the nibbles, `clearOneState` one turn of the host's loop. A report is made in
place (`reportChanges`): `saveFeedbackMsg` pushes a blank event,
`handleCommandStationFb` says what it is, `fillItem` adds one item, `setNbDataItems`
writes the count last, and the host thread may copy and erase the first event between
any two of these (`copyFbMsgToGenericData`, `removeFeedbackMsg`). `FbIndex` is not
moved then: what is written behind the list is lost. `reported` is what CDM-Rail
believes; of an event taken before it was complete nobody knows what it made, so every
nibble is `Anything` until CDM-Rail is told of it anew. One `fillItem` reads a state
and writes an item; nothing depends on a step between these. The model begins after a
first resume, when the string has its length. A request for a detector is answered in
emulation only, as in the code.

**`Session`** models `start`, with the dialog, the retry box and the handshake, and
`stop`; the loop thread appears with the steps a session is concerned with: a message
received, the frames of `txbuf` sent, the connection lost, a version parsed. CDM-Rail
starts and stops in turn. Over Wi-Fi `connect` reaches a host or does not; `from_url`
then waits for its answer in `recv`, and nothing makes that return. The radio buttons
of the dialog set the link at once, also when it is cancelled afterwards. A board
whose port is opened starts anew, without power on the track. A version message
carries the number of the session whose station sent it. A killed thread stops between
two steps. A station that answers with a text that does not match counts as one that
does not answer. Following a null `ws` ends in the state `crashed`; a closed one drops
what is sent.

**`Turn`** holds what the modules of the way in share: the place of the loop thread
in its turn and `cmdToParse`, and two histories, what the station has said (`sent`)
and how many of these messages the driver has read to their end (`finished`). By
them each text in `cmdToParse` knows which message it comes from.

**`SerialReader`** models `waitSerialCommand` one `ReadFile` at a time. `port` is
what the station has printed, with a `PAUSE` where the line is silent for longer
than the timeout. The locals `buffer` and `i` are on the stack: with no byte read
the buffer keeps what an earlier call left there, or something else did
(`Leftovers`), and that is compared with the end of line like a byte read. Nobody
terminates the buffer: `strstr` and `std::string` look for a NUL, and with none in it
they run on into the stack (`CStrings`); `Behind` is what may lie there. The
index is compared with nothing: when it leaves the buffer the model's behaviour ends
(`overrun`).

**`WsHandshake`** models `from_url`: a byte to a `recv`, the cut of the lines at
`LineSize` and at CR LF, the test of the status line and of the empty line. The lines
of the request go out through the same buffer and leave their rest in it
(`sendRequest`). A `recv` that returns 0 refuses; one that fails is not noticed
(`recvFailsUnseen`), and the line goes on with the byte that was there. A station may
fall silent with any part of its answer unsaid (`stationFallsSilent`); `recv` then
waits for ever. `unread` is a history of the bytes of the answer not taken yet.

**`WsClient`** models `poll` (receive, send, close the socket), `dispatch` (header,
extended length, mask, fragments, control frames, the invalid length) and `close`.
What comes in is followed byte by byte, with the masks really computed; of what goes
out, only whole frames. `close` tests and sets `readyState` in one step: it has one
writer at a time, as the host thread closes only after it has killed the loop thread.
`waitWsCommands` is the callback: a text that does not end in
`>` is dropped.

**`Feedback`** models the list of events: `saveFeedbackMsg` pushes, `Write` sets a
field through `FbIndex`, `copyFbMsgToGenericData` and `removeFeedbackMsg` are the two
steps of `DDGL_GetNextUnExpectedMessage` in the other thread. A write through an
index the list no longer has is lost, as it goes to memory the vector keeps.

**`Inbound`** composes the four with the rest of a turn, `parse` among it, and with
the end of a session: `stop` kills the loop thread wherever it is, `disconnect` sends
`<0>`, `closeAnyConnection` closes the websocket. A message has one of the figures of
`Contents` in it, so that equal texts may wait together; `parseMessage` takes the
first and removes all that are equal, as `list::remove` does. A message is *safe* when
the code means to take it: on a serial line, `<...>` or `-> ...` with no pause inside
it or inside the line before (a line cut short leaves a rest that may swallow the
next); over Wi-Fi, what `waitWsCommands` takes. **`MessageStream`** is the abstract
specification: messages are read in order and told in order, each at most once, and a
safe one is passed over only while an equal one waits to be parsed: the two become
one, in the place of the earlier. It does not promise that nothing is lost by that: of
A, B, A waiting together the last A may go with the first, and B is heard last (which
is what `held_forever` and `speed_lost` show for power and speeds). `Inbound` maps
`told` to what CDM-Rail has been handed, what waits as an event, and what waits to be
parsed, equal texts once (`Heard`).

`MCBridge`, `MCDetectors`, `MCSession` and `MCInbound` hold the sets the
configurations choose from.

## 4. What is checked

Every passing run explores its whole state space.

| Run | Shows | Bounds |
|---|---|---|
| `usb` | types, `GateFollowsPower`, `StoppedWhileHeld`, `StopsSoFar`, `RegisterIntegrity`, `PowerAgreement` on a serial link; what is queued is sent, a hold is released | 2 locomotives, an accessory, 3 calls, 1 event of the station's own |
| `links` | `TrackGate` is implemented and replies are recognised on all three links, with every `DDGL_*` call that reaches the queue or the station | 2 locomotives, an accessory, 3 calls, 2 messages to a turn |
| `detectors` | driver, station and CDM-Rail agree on the detectors, wherever a clearing falls (serial) and wherever CDM-Rail takes an event; reports of one and two full messages (Wi-Fi); the nibble of a detector asked for (emulation) | 2 modules, 2 items to a report, 2 changes (serial) or 3 (Wi-Fi, or requests), 1 more resume on the serial link, 3 messages to a turn |
| `session` | one loop thread, success means a version told and a connection `sendCommand` can use, connecting ends (or crashes, see `session_retry`, or waits in `recv`) | 2 starts, 1 retry, 1 power command or version request, both links and emulation |
| `inbound` | `MessageStream` is implemented, safe messages arrive whole and are answered by an event, the handshake reads its own bytes and ends unless the connection breaks or the station falls silent, no event is lost to the other thread | 2 messages or other frames of 8 kinds, one figure, pauses at 3 places, a buffer of 7 and a line of 6 bytes, 1 command sent, no stop |
| `inbound_stop` | the websocket only advances from open to closing to closed, when CDM-Rail stops the driver at any moment | 2 messages or other frames of 5 kinds, one format, 1 command sent |

Why these are enough. A loss of power meets a driver in one of few situations: a
command queued, a locomotive being registered, a resume or a stop of the host half
done. Two locomotives make "already passed" and "still to come" in both loops differ,
and make the vector reallocate; three calls allow a resume and two speeds, or a stop
among them; one event lets the station act at any moment between them. Two modules are
four nibbles, enough for a clearing to fall before, between and behind changes; with
two items to a report instead of eight (`DGI_MAX_DATA_ITEMS`) the same four fill two
reports, and `detectors_nine` has the eight of the code. Any two layouts over Wi-Fi
differ in two or four nibbles, full reports without a rest, and the serial ones in so
few that a clearing in the middle of an update leaves no rest either: with a rest
`OccupationReported` is false, which is what `detectors_nine` shows. In `inbound` the
buffer holds one message of either format and two or three bytes more, so that a rest,
a leftover and an overrun all occur; behind it lies a NUL, or one `>`, the character
that may make a message of a rest. With one figure (`Contents`) any two messages of a
format are equal, so that merging occurs; A, B, A needs a third message, which
no run has (`MessageStream` allows for it); so does a safe line behind one cut short,
which is left to `TextsAreWhole`. `CanStop` is false in
`inbound`, as a driver that is stopped tells nothing more. A header line of six
characters against a `LineSize` of six is cut as one of 1023 is by the code; and two
frames make a fragmented message, or a message behind a ping, a close or an invalid
length, or two messages cut anywhere by `recv`. Two starts and a retry show every
leftover of a session that another can meet. The theorems of section 5 remove these
bounds for most of the invariants.

`CHECK_DEADLOCK FALSE` is said for `Session` only: it stops when CDM-Rail has used
its starts, or in `crashed`. `Bridge` has an explicit stutter in `crashed`, `Inbound` one
when a line has outgrown the buffer, the handshake was refused or the driver was
stopped (`Over`).

**Fairness.** `Bridge!FairSpec` has weak fairness of the loop thread and of the
clock, and of the host for a call it has begun: no call blocks and every read has a
timeout. Reception is strongly fair, since it is enabled once a turn. CDM-Rail need
not call anything. `Session!LiveSpec` has weak fairness of the host thread where it
waits for neither the user nor CDM-Rail nor, in `from_url`, for the station; nothing is
asked of the station or of the loop thread. `StartEnds` says that connecting ends unless
it stays in `from_url` for ever, `HandshakeEnds` that this takes a station that falls
silent. `Inbound!FairSpec` has weak fairness
of the host thread in `from_url`, whose `recv` returns when there is a byte to
return, and of the loop thread; reception is strongly fair, since `poll` asks the
socket in every turn and a byte on it is returned some time. That the host takes events
is not asked for: `SafeMessagesArrive` speaks of the event list. It says that a safe
message on its way is answered by an event still to come, its own or that of an equal
message before it, unless the connection is closed, broken or silent, the driver is
being stopped, or a line outgrew the buffer.

**Where the code does something else than its text says** (runs with a violation):

- `held_forever`: over Wi-Fi, `p1 p0 p1` dispatched in one turn lose their last
  message to `list::remove`, and the queue stays held with the track on.
- `speed_lost`: of the speeds 20, 10, 20 the last goes with the first; the station
  stays at 10 and the driver, which has 20 on record, ignores a further 20.
- `detectors_nine`: nine changed nibbles make one report, of eight.
- `session_retry`: a Wi-Fi connection that fails leaves `ws` null, and the failure
  path follows it before it asks whether to try again.
- `session_power_left`: over Wi-Fi `<0>` is put into a buffer after the thread that
  would send it was killed, and the track keeps its power.
- `feedback_half`: the host thread takes an event that is pushed and not yet filled.

## 5. What is proved

TLAPS proves, for all values of the constants that satisfy `BridgeAssumption`,
`DetectorsAssumption`, `SessionAssumption`, and for `Inbound` `InboundAssumption`,
`TurnAssumption`, `SerialAssumption`, `WsAssumption` and `HandshakeAssumption` (types
of the constants, and that a line of the handshake holds three bytes, a buffer one):

- `BridgeProofs`: `TypeCorrect`, one lemma per action; `GateCorrect`,
  `HeldMeansStopped`, `StopsAreKept`, `RegistersAreOwned` and `DriverImplementsGate`.
  The invariant (`Inductive`) is the conjunction of the type invariant, the four
  properties and `ReleasedFirst`, and none of the four is inductive alone. When the loop thread is done
  stopping, `StopsSoFar` says that every register below its iterator is stopped, and
  `RegisterIntegrity` that no register lies beyond the end of the list: so all are
  stopped, which is `StoppedWhileHeld` for the status that follows. `StopsSoFar`
  itself needs `GateFollowsPower`: the loop began with the power on, hence with status
  0, and nobody but the loop thread changes either. While it runs nothing is sent from
  the queue, as the loop thread alone sends it; the host sends emergency stops only.
  Between the two assignments at its end the queue is held and `powerOn` still true:
  `GateCorrect` excepts exactly this state. At a return of power the queue is released
  first (`ReleasedFirst`), which needs no exception. Each action then shows four facts
  (what it does to the list, the queue, the registers, the power) and the invariant
  follows from them.
- `BridgeMessages`: `PowerAgrees`, that over a serial link `PowerAgreement` always
  holds. The invariant (`PowerInv`) says which message counts: the last power message
  on the line; with none there, the one that waits to be parsed; with none there
  either, what the driver believes, which is "off" while it is still stopping the
  locomotives. It needs that one message at most waits, which only the serial link
  guarantees: of several, `list::remove` may take the last. `RepliesAreRecognised`, on
  every link, is a proof by counting (`AllAwaited`): of the commands one reply may
  answer, those queued and the replies under way together are never more than the
  entries that await one. A command enters the queue or goes past it with an entry of
  its own; merging takes out of the queue at least the one that is sent; the station
  answers it once at most; and a reply strikes out one entry. So a reply looked at
  finds its entry.
- `DetectorsProofs`: `TypeCorrect`, which says that the loop thread never reads or
  writes beyond the string's memory, and `ReportsAreWellFormed`. A report names no
  nibble twice because the recorded changes ascend (`NibblesAscend`) whatever is
  cleared or taken meanwhile, and none that is counted is empty because the changes
  left suffice for the reports left (`EnoughChanges`). Both also speak of the event in
  hand: as long as the loop thread's index finds it, it holds the items filled so far
  (`HalfMade`). `StatesDoAgree`, over a serial link, by an invariant of the same kind
  as `PowerInv`: the last layout is on the line, or waits, or is being compared with
  every nibble passed copied, or is held; and a clearing of the host, wherever it
  falls, means that the station is going to be asked again. `OnlyRoundingLoses` and
  `FourModulesAreReported` are about what CDM-Rail has been told: an occupied nibble
  the driver holds is known to CDM-Rail, or is among the changes still to be reported,
  or CDM-Rail took an event before it was complete and has not been told of the nibble
  since. With more changes than full reports hold, the rounding down of `nbMsg` leaves
  the last ones out. The first theorem shows that rounding and events taken too early
  are all that can lose one: `OccupationReported` follows if the changes left out are
  always of free nibbles (`LeavesOutOnlyFree`), which TLC finds true of the layouts of
  `detectors` and false in `detectors_nine`. The second needs no such condition: with
  at most four modules every update fits in one report.
- `InboundProofs`: `TypeCorrect`, from the types of what every step does to the bytes
  (an exclusive-or of bytes is a byte, a slice of a text is a text) and from the index
  bounds of both readers: whatever the station sends, no byte is written outside the
  serial buffer or the handshake's line before the overrun. It is not so of reading:
  `strstr` and `std::string` may read behind the buffer (`CStrings`).
  `EventsOnlyGrow`: each step of either thread does one of four things to the event
  list (`EventsStep`), and `CopiedWaits`, that an event copied is still the first,
  makes erasing it invisible in `Told`. `ReadyStateOnlyAdvances` follows action by
  action, the host's `closeAnyConnection` among them.
- `WebSocketProofs`: `HandshakeIsExact`, if every answer of the station is
  `WellFormed` (CR and LF in pairs, the first empty line last, no line so long that a
  cut at `LineSize - 1` leaves its CR LF or its LF alone; `MCInbound` assumes it of
  its answers, and TLC evaluates that). The invariant (`HandshakeInv`, `Follows`) says
  where the reader is in the answer: behind a line end and a whole number of cuts,
  with the line so far in the buffer. Then a line goes on only if no line end was
  read, so that more of the answer is to come; a line that looks empty is empty, not
  the rest of a cut; and once the connection is broken, what is left in the buffer
  does not look like an empty line, so the handshake can no longer succeed too early.
  `FrameIsRead` is what `TextProofs` needs of `dispatch`: from any bytes that begin
  with a frame, once enough of them are in `rxbuf`, it reads the text put in and takes
  the frame and no byte more, whether the length is in one byte, in eight, or in two
  with the text masked (masking twice changes nothing, `XorTwice`, bit by bit).
- `TextProofs`: `TextsAreWhole`, if every answer of the station is `WellFormed`,
  whatever lies in the serial buffer or behind it. The bytes do not say where a
  message ends, so the invariant says it of what is on its way: it is a path of pieces
  (`Path`) from the place of the driver to that of the station. A place is how many
  messages are finished and what the driver has of the next; a line, a frame that
  carries a part of a text, or a control frame is a piece, from a place to a place.
  The paths are a least closed set of rests and places, which needs no induction: each
  step takes the first piece (`PathFirst`) or a byte of it, or puts pieces behind
  (`PathMore`). On the serial port (`UsbInv`) the driver is at the end of a line, or
  within one of which `j` bytes are read and, if the line is safe, are in the buffer;
  a line with a pause in it, and the one behind, may be read in any way. Over Wi-Fi
  (`WifiInv`) what the handshake has left of the answer comes before the frames, so
  that `HandshakeInv` is needed: `dispatch` begins only when nothing of it is left.
  Then `receivedData` is what the fragments so far make, a ping between them leads
  from a place to itself, and the last fragment makes it the text. Every message
  received (`Received`) keeps its text while it waits for `parse`, since a text is
  never changed and `remove` only takes some away. These invariants quantify over
  sequences of any length and over closed sets of them, so TLC cannot evaluate them;
  what it checks is the property, in `inbound`.
- `SessionProofs`: `SessionTypeCorrect`, `LoopThreadIsAlone`, `SuccessIsUsable`, from
  what holds at each place of the host thread (`ThreadsOK`, `HandshakeOK`,
  `ConnectionOK`); and `StoppedMeansTrackOff`: if all links are serial, the track is
  off whenever the driver is stopped. Over Wi-Fi it is not (`session_power_left`), so
  the assumption on `Links` is needed.
- `NodeListTheorems`: what the operators of `NodeList` keep.

Only model-checked: liveness (`QueueDrains`, `HoldReleased`, `StartEnds`,
`SafeMessagesArrive`, `HandshakeEnds`), which this prover does not reach; and
`StreamSpec`, which needs besides the invariant of `TextProofs` that what `parse`
removes as equal is what `MessageStream` merges.

## 6. What is not modelled, and why

- `sendData` appends a header, a payload and a mask in several steps, in either
  thread; it is one step here, and what a station makes of interleaved frames no
  document of the repository says.
- `ReadFile` failing in the middle of a line (an unplugged port), after which the
  reader never returns. This and the previous item are listed as hazards.
- The formatting of the URL and of the request, and an answer that is not
  `WellFormed`: with a header line of exactly 1023 characters, say, the rest of the
  headers would be dispatched as frames. A host name that is not resolved gives the
  number 1 for a socket; it is modelled as a broken connection.
- The settings' numbers. `getDCCppParams` and the dialog copy them between the ini
  file, the fields and the statics, sequentially and without a decision that
  another step depends on; that the limits are checked in the dialog alone is listed
  as a hazard. `Bridge` takes every timer and `Detectors` every module count.
- The layout of the dialogs, the translation of texts and the debug window: no
  property is about them.
- `convertLocoFuncValue` and the modes `a` and `X` of accessories: the first is
  called by nothing, the second is a setting of the ini file, listed as a hazard.
- What a race does inside the C++ library, and what `TerminateThread` does inside
  it: undefined, beyond the states this code defines.
