\* All calls from two threads, init and cleanup on their own.
CONSTANTS
  main = main
  other = other
  Threads = {main, other}
  Calls <- LibCalls
  MaxBufs = 2
  Buffers = {b1, b2}
  Null = Null
  Nobody = Nobody
  Joined = TRUE
SPECIFICATION Spec
INVARIANTS
  LibTypeOK
  TableExclusive
  TableOwns
  DefaultAgrees
  SwitchBinary
  CleanupClears
  NoOrphanGlobalLock
  LogTouchesLive
\* Threads may wait for ever for a lock that is never given back.
CHECK_DEADLOCK FALSE
