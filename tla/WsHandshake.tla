---------------------------- MODULE WsHandshake ----------------------------
(* from_url: connects to the station's websocket server and reads its answer *)
(* line by line, a byte to a recv that waits for it.  What follows the empty *)
(* line is left for poll.  A recv that fails is not told from one that read: *)
(* the byte in its place stays, and the line goes on.                        *)
EXTENDS WsClient

CONSTANTS
  LineSize,    \* 1024 in the code
  Responses    \* what the station may answer

ASSUME HandshakeAssumption == LineSize \in Nat \ (0..2) /\ Responses \subseteq Text

VARIABLES
  handshake,   \* "connect", "status", "headers"; "done" or "refused"
  line, lineAt,
  broken,      \* recv fails from now on
  silent,      \* the rest of the answer is not sent, and recv waits for it
  unread       \* history: bytes of the answer recv has not returned

handshakeVars == <<handshake, line, lineAt, broken, silent, unread>>

CR == 13
LinePositions == 0..(LineSize - 1)

NoLine == [p \in LinePositions |-> NUL]   \* outside from_url

HandshakeTypeOK ==
  /\ handshake \in {"connect", "status", "headers", "done", "refused"}
  /\ line \in [LinePositions -> Bytes] /\ lineAt \in LinePositions
  /\ broken \in BOOLEAN /\ silent \in BOOLEAN /\ unread \in Int

HandshakeInit ==
  /\ handshake = IF mode = "wifi" THEN "connect" ELSE "done"
  /\ line = NoLine /\ lineAt = 0
  /\ broken = FALSE /\ silent = FALSE /\ unread = 0

(* The request goes out through the same buffer.  Its last line is the empty *)
(* one, and behind its end lies what is left of the others: one byte for all *)
(* of it.                                                                    *)
sendRequest ==
  \E rest \in Leftovers :
    line' = [p \in LinePositions |-> CASE p = 0 -> CR [] p = 1 -> LF [] p = 2 -> NUL
                                       [] p > 2 -> rest]

(* A name that cannot be resolved gives the number 1 for a socket, and all   *)
(* that is done with it fails.                                               *)
hostname_connect ==
  /\ handshake = "connect" /\ UNCHANGED <<lineAt, silent>>
  /\ \/ /\ handshake' = "status" /\ broken' = FALSE /\ sendRequest
        /\ \E response \in Responses : wire' = response /\ unread' = Len(response)
     \/ /\ handshake' = "status" /\ broken' = TRUE /\ sendRequest /\ UNCHANGED <<wire, unread>>
     \/ /\ handshake' = "refused" /\ UNCHANGED <<line, wire, unread, broken>>

LineGoesOnFromThree ==
  lineAt >= 3 => (lineAt < LineSize - 1 /\ line[lineAt - 2] # CR /\ line[lineAt - 1] # LF)
LineGoesOn ==
  lineAt >= 2 => (lineAt < LineSize - 1 /\ line[lineAt - 2] # CR /\ line[lineAt - 1] # LF)
Reading == handshake \in {"status", "headers"} /\ LineGoesOn

recvOne ==
  /\ Reading /\ ~broken /\ ~silent /\ wire # <<>>
  /\ line' = [line EXCEPT ![lineAt] = Head(wire)] /\ lineAt' = lineAt + 1
  /\ wire' = Tail(wire) /\ unread' = unread - 1
  /\ UNCHANGED <<handshake, broken, silent>>

recvFailsUnseen ==
  /\ Reading /\ broken /\ lineAt' = lineAt + 1
  /\ UNCHANGED <<handshake, line, broken, silent, unread, wire>>

(* HTTP/1.1 101, by its first letter and the first figure of the status.     *)
IsSwitching == line[0] = 72 /\ line[1] = 49

statusLine ==
  /\ handshake = "status" /\ ~LineGoesOn /\ lineAt' = 0
  /\ line' = [line EXCEPT ![lineAt] = NUL]
  /\ handshake' = IF lineAt = LineSize - 1 \/ ~IsSwitching THEN "refused" ELSE "headers"
  /\ UNCHANGED <<broken, silent, unread, wire>>

EmptyLineOfLF == line[0] = LF
EmptyLine == line[0] = CR /\ line[1] = LF
headerLine ==
  /\ handshake = "headers" /\ ~LineGoesOn /\ lineAt' = 0
  /\ IF EmptyLine THEN handshake' = "done" /\ line' = NoLine ELSE UNCHANGED <<handshake, line>>
  /\ UNCHANGED <<broken, silent, unread, wire>>

from_url ==
  /\ hostname_connect \/ recvOne \/ recvFailsUnseen \/ statusLine \/ headerLine
  /\ UNCHANGED <<turn, rxbuf, receivedData, isRxBad, txbuf, readyState, sends>>

(* The station closes the connection; recv returns 0.                        *)
recvEnds ==
  /\ Reading /\ ~broken /\ handshake' = "refused"
  /\ UNCHANGED <<line, lineAt, broken, silent, unread, wire>>

(* The connection breaks, and what was on its way is gone.                   *)
connectionBreaks ==
  /\ Reading /\ ~broken /\ broken' = TRUE /\ wire' = <<>>
  /\ UNCHANGED <<handshake, line, lineAt, silent, unread>>

(* The station stops in the middle of its answer and keeps the connection.   *)
(* recv has no timeout: what has not been read by now never is.              *)
stationFallsSilent ==
  /\ Reading /\ ~broken /\ ~silent /\ unread > 0 /\ Len(wire) = unread /\ silent' = TRUE
  /\ UNCHANGED <<handshake, line, lineAt, broken, unread, wire>>

lost ==
  /\ recvEnds \/ connectionBreaks \/ stationFallsSilent
  /\ UNCHANGED <<turn, rxbuf, receivedData, isRxBad, txbuf, readyState, sends>>
-----------------------------------------------------------------------------
(* An answer the handshake can follow: CR and LF come as pairs and only so,  *)
(* the first empty line is the end, and no line is so long that the cut at   *)
(* LineSize - 1 falls right before its CR LF or between the two.             *)
Line(r, from, to) ==
  /\ from = 0 \/ r[from] = LF
  /\ from < to /\ r[to] = LF /\ \A p \in (from + 1)..(to - 1) : r[p] # LF
WellFormed(r) ==
  /\ \A p \in DOMAIN r : /\ r[p] = LF => p > 1 /\ r[p - 1] = CR
                         /\ r[p] = CR => p < Len(r) /\ r[p + 1] = LF
  /\ Len(r) >= 3 /\ r[Len(r)] = LF /\ r[Len(r) - 2] = LF
  /\ \A p \in 1..(Len(r) - 3) : ~(r[p] = LF /\ r[p + 2] = LF)
  /\ \A from \in 0..Len(r), to \in DOMAIN r, cuts \in 1..Len(r) :
       Line(r, from, to) => to - from - cuts * (LineSize - 1) \notin {1, 2}
-----------------------------------------------------------------------------
(* Properties.                                                               *)

(* The handshake has read the answer of the station and not a byte of the    *)
(* frames that may follow at once, however its lines are cut (from_url).     *)
HandshakeExact == handshake = "done" /\ mode = "wifi" => unread = 0

(* Connecting comes to an end, unless in the middle of the answer the        *)
(* connection breaks or the station falls silent (from_url).                 *)
Connecting == handshake \in {"connect", "status", "headers"}
HandshakeEnds == Connecting ~> handshake \in {"done", "refused"} \/ broken \/ silent
=============================================================================
