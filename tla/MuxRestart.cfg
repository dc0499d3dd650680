SPECIFICATION MuxSpec
CONSTANTS
  Worker = w
  Disconnector = {d1}
  Caller = {w, d1}
  Interruptible = {w}
  MaxSession = 2
  MaxControl = 0
  MaxCache = 0
  GOP = 1
  MaxFrames = 2
  Lossy = FALSE
INVARIANTS CounterExact NoStaleFrames NothingDropped
CHECK_DEADLOCK FALSE
