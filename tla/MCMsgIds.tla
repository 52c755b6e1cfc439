------------------------------ MODULE MCMsgIds ------------------------------
(* Threads of one process that meet at a few trace statements.              *)
EXTENDS MsgIds, TLC

CONSTANTS s1, s2, s3, t1, t2, default, other

MCUsed == [s \in Stmt |-> IF s = s3 THEN {other} ELSE {default}]
MCUsedBoth == [s \in Stmt |-> {default, other}]
=============================================================================
