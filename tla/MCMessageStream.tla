--------------------------- MODULE MCMessageStream ---------------------------
(* Model values for checking MessageStream.                                 *)
EXTENDS MessageStream

CONSTANTS i1, i2, b1, b2

TwoThreads == {i1, i2}
TwoBuffers == {b1, b2}
==============================================================================
