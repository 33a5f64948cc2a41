--------------------------- MODULE MCServerStatus ----------------------------
(* Checks ServerStatus; its one constant is a number the cfg gives.         *)
EXTENDS ServerStatus
==============================================================================
