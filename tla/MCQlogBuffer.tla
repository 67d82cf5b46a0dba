---------------------------- MODULE MCQlogBuffer ----------------------------
(***************************************************************************)
(* Instances of QlogBuffer for TLC.                                        *)
(***************************************************************************)
EXTENDS QlogBuffer, TLC

Nobodies == {}
Plain == {FALSE}
Either == BOOLEAN

\* Writers that play no other part are interchangeable.
WriterSymmetry == Permutations(Writers)

=============================================================================
