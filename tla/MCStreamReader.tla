--------------------------- MODULE MCStreamReader ---------------------------
(* The instance of MCReceiveLoop with the calls of receiveComplete: streams *)
(* long enough for a format, a time and data that take several chunks.      *)
EXTENDS StreamReader, MCReceiveLoop
=============================================================================
