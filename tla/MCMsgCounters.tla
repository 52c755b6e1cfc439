--------------------------- MODULE MCMsgCounters ---------------------------
(* Small header sizes for TLC.                                             *)
EXTENDS MsgCounters
=============================================================================
