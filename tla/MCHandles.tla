----------------------------- MODULE MCHandles -----------------------------
(* Two threads, a plain handle, and a default handle for many threads that *)
(* may be initialized once more after it was closed.                       *)
EXTENDS Handles, TLC

CONSTANTS main, worker, mt, again, plain

MCSuffix == mt :> mt @@ again :> mt @@ plain :> plain
MCUses == mt :> {main, worker} @@ again :> {main, worker} @@ plain :> {main}
=============================================================================
