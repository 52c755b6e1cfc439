---------------------------- MODULE MCTraceFiles ----------------------------
EXTENDS TraceFiles

(* Too large for a level, too small for another, and too large together. *)
MCSizes == {[l \in Level |-> IF l = 0 THEN 9 ELSE 0]}

MCBackupName == [k \in 0 .. MaxIndex |->
                    CASE k = 0 -> "f.0" [] k = 1 -> "f.1" [] k = 2 -> "f.2" [] OTHER -> "f.3"]
MCSamePath == [k \in 0 .. MaxIndex |->
                    CASE k = 0 -> "f.0" [] k = 1 -> "1" [] k = 2 -> "2" [] OTHER -> "f.3"]
=============================================================================
