------------------------------- MODULE MCQtCat -------------------------------
(* A small ring and qttail -c on it: messages of 3 and of 4 cells.           *)
EXTENDS QtCat, TLC

CONSTANTS a, b

MCWords == a :> 0 @@ b :> 1
=============================================================================
