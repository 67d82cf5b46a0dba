\* Loggers, a printer and a resetter, under fairness.
CONSTANTS
  Size = 2
  Writers = {w1, w2}
  Readers = {r1}
  Resetters = {s1}
  MaxTickets = 2
  WrapModulus = 100
  ExtChoices <- Plain
  DumpChoices <- Either
SPECIFICATION FairSpec
INVARIANTS
  PrintExact
PROPERTIES
  LockReleased
  LogCallEnds
  EventReleased
