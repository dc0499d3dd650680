SPECIFICATION Mp4Spec
CONSTANTS
  MaxRecord = 2
  MaxPause = 0
  MaxVideo = 2
  MaxAudio = 1
  OpenFails = TRUE
  WriteFails = TRUE
  Recycles = FALSE
INVARIANTS Mp4TypeOK OneWriter FilesReadable OneStaleFrame InOrder CrashesBeforeFirstFile
CHECK_DEADLOCK FALSE
