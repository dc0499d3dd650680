SPECIFICATION EventsSpec
CONSTANTS
  Caller = {c1, c2}
  Handler = handler
  Owner = owner
  Nobody = nobody
  MaxCall = 3
  MaxOpen = 2
INVARIANT OpenIsHandled
CHECK_DEADLOCK FALSE
