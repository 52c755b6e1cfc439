----------------------------- MODULE MCRingTail -----------------------------
(* qttail on a small ring: two kinds of message of 3 and of 4 cells, and     *)
(* three of which two are equally long and the third twice as long, so that  *)
(* an old id can pass for a new one and can lead beyond a message.           *)
EXTENDS RingTail, TLC

CONSTANTS a, b, c

MCWords == a :> 0 @@ b :> 1

MCWordsAlike == a :> 0 @@ b :> 3 @@ c :> 0

=============================================================================
