SPECIFICATION StreamFairSpec
CONSTANTS
  Transfer = {t1, t2}
  FrameSize = 2
  MaxPacket = 4
  MaxStart = 2
  Faults = {"bad", "lost", "submit", "unplugged"}
INVARIANTS StreamTypeOK FreedWhenQuiet NoMixedFrame CalledOncePerFrame
PROPERTIES StreamStops KeepsPromise
CHECK_DEADLOCK FALSE
