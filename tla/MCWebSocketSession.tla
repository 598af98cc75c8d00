-------------------------- MODULE MCWebSocketSession --------------------------
(* A small instance of WebSocketSession. *)
EXTENDS WebSocketSession

CONSTANTS m1, m2, frame

TwoMessages == {m1, m2}
OneMessage == {m1}
OneFrame == {frame}
=============================================================================
