SPECIFICATION Mp4Spec
CONSTANTS
  MaxRecord = 1
  MaxPause = 0
  MaxVideo = 2
  MaxAudio = 1
  OpenFails = FALSE
  WriteFails = FALSE
  Recycles = TRUE
INVARIANT BytesIntact
CHECK_DEADLOCK FALSE
