--------------------------- MODULE MCTailStatus ---------------------------
(* The first file is replaced or deleted and holds a message each time; the *)
(* second one is deleted at most.                                           *)
EXTENDS TailStatus

Files == <<2, 1>>
Msgs == <<<<2, 0>>, <<0, 0>>>>
=============================================================================
