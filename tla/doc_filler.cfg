\* Loggers and a resetter: the lock flag is cleared under a filler.
CONSTANTS
  Size = 2
  Writers = {w1, w2}
  Readers <- Nobodies
  Resetters = {s1}
  MaxTickets = 3
  WrapModulus = 100
  ExtChoices <- Plain
  DumpChoices <- Plain
SPECIFICATION Spec
INVARIANT OneFiller
