\* Loggers and a printer, no reset. The count of wraps overflows.
CONSTANTS
  Size = 2
  Writers = {w1, w2}
  Readers = {r1}
  Resetters <- Nobodies
  MaxTickets = 5
  WrapModulus = 2
  ExtChoices <- Either
  DumpChoices <- Either
SYMMETRY WriterSymmetry
SPECIFICATION Spec
INVARIANTS
  TypeOK
  BufferLockExclusive
  ClaimAccounting
  PrintExact
  EventExclusion
  UnlockedEventWhole
  NoDoubleFree
  NoLeak
  QuietPrintReadsLive
PROPERTY ImplementsEventRing
