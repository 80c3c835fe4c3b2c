--------------------------- MODULE MCWSConnection ---------------------------
(* WSConnection on a small instance: one frame of each kind. *)
EXTENDS WSConnection

F(op, fin) == [op |-> op, fin |-> fin, huge |-> FALSE]

DataFrames == {F("TEXT", TRUE), F("TEXT", FALSE),
               F("CONTINUATION", TRUE), F("CONTINUATION", FALSE)}
ControlFrames == {F("CLOSE", TRUE), F("PING", TRUE), F("PONG", TRUE),
                  F("UNKNOWN", TRUE), F("PING", FALSE)}
TooLong == {[F("TEXT", TRUE) EXCEPT !.huge = TRUE]}

AllFrames == DataFrames \union ControlFrames \union TooLong
SomeFrames == {F("TEXT", TRUE), F("CLOSE", TRUE), F("PING", TRUE)}
=============================================================================
