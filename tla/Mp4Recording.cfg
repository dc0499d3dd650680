SPECIFICATION Mp4FairSpec
CONSTANTS
  MaxRecord = 1
  MaxPause = 1
  MaxVideo = 2
  MaxAudio = 1
  OpenFails = FALSE
  WriteFails = FALSE
  Recycles = TRUE
INVARIANT StartsWithKeyFrame
PROPERTY StopReturnsWhenRecording
CHECK_DEADLOCK FALSE
