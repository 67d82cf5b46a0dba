\* Loggers and a printer: what a print shows of an event being filled.
CONSTANTS
  Size = 2
  Writers = {w1, w2}
  Readers = {r1}
  Resetters <- Nobodies
  MaxTickets = 3
  WrapModulus = 100
  ExtChoices <- Plain
  DumpChoices <- Either
SPECIFICATION Spec
INVARIANT PrintedAreMessages
