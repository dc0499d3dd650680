SPECIFICATION TableSpec
CONSTANTS
  TimeScale = 3
  Second = 4
  DefaultDuration = 2
  MaxSize = 2
  MaxTime = 2
  MaxWrites = 5
INVARIANTS OffsetsRead TimesKeepPace SyncSamplesRead
CHECK_DEADLOCK FALSE
