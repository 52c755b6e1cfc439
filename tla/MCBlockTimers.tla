--------------------------- MODULE MCBlockTimers ---------------------------
(* Every kind of timer, two self timers among them.                        *)
EXTENDS BlockTimers, TLC

CONSTANTS prof, msg, self, selfmsg

MCKind == prof :> "prof" @@ msg :> "msg" @@ self :> "self" @@ selfmsg :> "selfmsg"
=============================================================================
