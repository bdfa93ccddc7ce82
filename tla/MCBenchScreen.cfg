SPECIFICATION BenchSpec
CONSTANTS
  siri = siri
  press = press
  None = None
  Requests <- MCRequests
  Intents <- MCIntents
  Profiles <- MCProfiles
  MaxMessages = 2
INVARIANTS
  ScreenTypeOK
  StoppedFileIsFinal
  RecorderIsConsistent
  StampsAreOwn
  ScreenAgrees
PROPERTY ImplementsRecordingOrder
CHECK_DEADLOCK FALSE
