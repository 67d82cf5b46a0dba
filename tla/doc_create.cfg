\* Two threads that create and reset buffers.
CONSTANTS
  main = main
  other = other
  Threads = {main, other}
  Calls <- CreateCalls
  MaxBufs = 2
  Buffers = {b1, b2}
  Null = Null
  Nobody = Nobody
  Joined = TRUE
SPECIFICATION Spec
INVARIANT ReturnsOwn
\* Threads may wait for ever for a lock that is never given back.
CHECK_DEADLOCK FALSE
