SPECIFICATION SubmissionSpec
CONSTANTS
  memo = memo
  note = note
  i1 = i1
  i2 = i2
  None = None
  Entries <- MCEntries
  Notes <- MCNotes
  Rejected <- MCNotes
  Secrets <- MCBoth
  Attempts <- MCAttempts
  MaxTimeouts = 1
  MaxFailures = 1
  MaxKills = 1
  MaxFaults = 2
INVARIANTS
  SubmissionTypeOK
  HarmNeedsFault
PROPERTIES
  ImplementsDelivery
  EveryCaptureSettles
