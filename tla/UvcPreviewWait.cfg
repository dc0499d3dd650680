SPECIFICATION PreviewSpec
CONSTANTS
  Callback = {c1}
  Window = {w1}
  None = None
  MaxFrame = 1
  PoolSize = 1
  MaxCall = 5
INVARIANT FinishedCapturing
CHECK_DEADLOCK FALSE
