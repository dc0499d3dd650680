SPECIFICATION MuxFairSpec
CONSTANTS
  Worker = w
  Disconnector = {d1}
  Caller = {w, d1}
  Interruptible = {w}
  MaxSession = 1
  MaxControl = 1
  MaxCache = 0
  GOP = 1
  MaxFrames = 1
  Lossy = TRUE
PROPERTIES FirstRunKeepsProtocol MuxStopReturns
INVARIANTS CleanAfterStop FirstRunNoCrash
CHECK_DEADLOCK FALSE
