\* A cleanup while another thread logs.
CONSTANTS
  main = main
  other = other
  Threads = {main, other}
  Calls <- CleanupCalls
  MaxBufs = 2
  Buffers = {b1, b2}
  Null = Null
  Nobody = Nobody
  Joined = FALSE
SPECIFICATION Spec
INVARIANT LogTouchesLive
