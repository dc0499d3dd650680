SPECIFICATION EventsFairSpec
CONSTANTS
  Caller = {c1, c2}
  Handler = handler
  Owner = owner
  Nobody = nobody
  MaxCall = 3
  MaxOpen = 2
INVARIANTS EventsTypeOK NoStrandedWaiter CompletedIsWoken
PROPERTIES SyncReturns CloseReturns
CHECK_DEADLOCK FALSE
