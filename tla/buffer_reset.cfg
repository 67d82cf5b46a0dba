\* Loggers with extended data and a resetter.
CONSTANTS
  Size = 2
  Writers = {w1, w2}
  Readers <- Nobodies
  Resetters = {s1}
  MaxTickets = 3
  WrapModulus = 100
  ExtChoices <- Either
  DumpChoices <- Plain
SYMMETRY WriterSymmetry
SPECIFICATION Spec
INVARIANTS
  ClaimAccounting
  NoOrphanLock
  DropOnlyOvertaken
  EventExclusion
  UnlockedEventWhole
  NoDoubleFree
  NoLeak
