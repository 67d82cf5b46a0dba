---------------------------- MODULE MCQlogServer ----------------------------
(***************************************************************************)
(* Instances of QlogServer for TLC.                                        *)
(***************************************************************************)
EXTENDS QlogServer, TLC

\* Every input of at most two characters over these.
ShortInputs ==
  UNION {[1 .. n -> {"2", "5", NL, FF}] : n \in 0 .. 2}

\* Lines that are too long, broken off, answered with nothing, with numbers
\* of three bases, blanks and signs, more than a byte and more than LongMax;
\* reads that fail.
Sessions == {
  <<"2", NL, "1", NL, "5", NL, "q", NL>>,
  <<"2", NL, "2", "5", "7", NL, "5", NL>>,
  <<"2", NL, "0", "x", "1", "0", "1", NL, "5", NL>>,
  <<"2", NL, "0", "4", "0", "1", NL, "3", NL>>,
  <<"2", NL, "-", "1", NL, "3", NL, "5", NL>>,
  <<"2", NL, " ", "tab", "+", "0", "X", "1", NL, "5", NL>>,
  <<"2", NL, "0", "x", "F", "f", NL, "2", NL, "-", " ", "1", NL, "5", NL>>,
  <<"2", NL, "1", NL, "2", NL, "9", "9", "9", "9", NL, "5", NL>>,
  <<"2", NL, "1", NL, "2", NL, NL, "5", NL>>,
  <<"2", NL, "1", NL, "2", NL, FF, "5", NL>>,
  <<"2", NL, "5", Failure, "6", NL, "5", NL>>,
  <<"2", NL, "2", NL, "2", NL, "0", NL, "5", NL>>,
  <<"2", NL, "0", "0", "0", "0", "0", "0", "1", "9", NL, "5", NL>>,
  <<"2", "5", "q", "q", "q", "q", "q", "q", "q", NL, "1", "x", NL, "5", NL>>,
  <<"7", NL, "6", NL, "7", NL, "4", NL>>,
  <<"5", Failure, "6", NL>>,
  <<"x", NL, NL, "5", NL>> }

TheInputs == ShortInputs \cup Sessions

=============================================================================
