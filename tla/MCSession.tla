----------------------------- MODULE MCSession -----------------------------
(* Instances of Session for TLC: what the user and CDM-Rail may choose.      *)
EXTENDS Session

WebSocketOnly == {"wifi"}
BothLinks == {"usb", "wifi"}
=============================================================================
