SPECIFICATION SubmissionSafety
CONSTANTS
  memo = memo
  note = note
  i1 = i1
  i2 = i2
  None = None
  Entries <- MCOneEntry
  Notes <- MCNone
  Rejected <- MCNone
  Secrets <- MCRight
  Attempts <- MCAttempts
  MaxTimeouts = 0
  MaxFailures = 1
  MaxKills = 0
  MaxFaults = 2
INVARIANT SyncedIsWhole
