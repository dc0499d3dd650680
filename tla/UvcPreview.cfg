SPECIFICATION PreviewFairSpec
CONSTANTS
  Callback = {c1}
  Window = {w1}
  None = None
  MaxFrame = 1
  PoolSize = 1
  MaxCall = 5
INVARIANTS PreviewTypeOK StoppedQuiet FramesKept
PROPERTIES StopReturns
CHECK_DEADLOCK FALSE
