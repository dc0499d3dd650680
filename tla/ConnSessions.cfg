SPECIFICATION FairSpec
CONSTANTS
  Caller = {w}
  Interruptible = {}
  MaxSession = 3
  MaxControl = 1
  MaxCache = 1
  Lossy = TRUE
PROPERTIES CallsReturn KeepsProtocol
INVARIANTS WireOrder WritesApart NoCrash ReleasedWhenClosed ConnInv
CHECK_DEADLOCK FALSE
