------------------------------ MODULE MCQlogExt ------------------------------
(***************************************************************************)
(* Instances of QlogExt for TLC.                                           *)
(***************************************************************************)
EXTENDS QlogExt, TLC

CONSTANTS bt, hex, c1, c2

\* Two callbacks of the application's own and a built-in one.
Registered == {c1, c2, bt}

ThreadSymmetry == Permutations(Threads)

=============================================================================
