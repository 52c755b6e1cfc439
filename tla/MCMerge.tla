------------------------------ MODULE MCMerge ------------------------------
(***************************************************************************)
(* Merge with two levels: two files that are tailed, and two or three      *)
(* files of programs that have stopped.                                    *)
(***************************************************************************)
EXTENDS Merge

MCTailFiles == {2}
MCCatFiles == {2, 3}
MCEnabled == {0, 1}
MCCatLevels == {1}
MCTorn == {1, 4}

=============================================================================
