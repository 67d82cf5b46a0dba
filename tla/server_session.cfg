\* One application, two calls of qlog_start_server, two buffers.
CONSTANTS
  Inputs <- TheInputs
  LineLen = 8
  LongMax = 1000
  MaxBufs = 2
  MaxStarts = 2
  MaxMessages = 2
SPECIFICATION FairSpec
INVARIANTS
  ServerTypeOK
  SessionFollowsInput
  ClearedAsAsked
  DescriptorsReturned
  ServerTouchesLive
PROPERTY WaitReturns
\* A program that was ended, or has ended, goes no further.
CHECK_DEADLOCK FALSE
