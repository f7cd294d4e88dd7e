----------------------------- MODULE MCInbound ------------------------------
(* Instances of Inbound for TLC.                                             *)
EXTENDS Inbound

AllFramings == {"huge", "masked", "fragments",
                "ping", "pong", "close", "unknown", "bad"}
StoppingFramings == {"whole", "fragments", "ping", "close", "bad"}

(* Nothing, or a character that could end a message.                         *)
BehindTheBuffer == {<<>>, <<GT>>}

(* Answers of the station: accepted, with a header that fills more than a    *)
(* line of six; and refused.                                                 *)
CRLF == <<CR, LF>>
SmallResponses == {
  <<72, 49>> \o CRLF \o <<85, 85, 85, 85, 85, 85>> \o CRLF \o CRLF,
  <<72, 52>> \o CRLF \o CRLF}

ASSUME AnswersAreWellFormed == \A response \in Responses : WellFormed(response)
=============================================================================
