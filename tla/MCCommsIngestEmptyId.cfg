SPECIFICATION IngestSpec
CONSTANTS
  c1 = c1
  c2 = c2
  c3 = c3
  p1 = p1
  p2 = p2
  m1 = m1
  h1 = h1
  h2 = h2
  NullId = NullId
  EmptyId = EmptyId
  None = None
  Calls <- MCCalls
  Providers <- MCProviders
  MessageIds <- MCMessageIds
  Hashes <- MCHashes
  Messages <- MCEmptyIdMessages
  DEDUP_WINDOW = 1
  MaxTime = 2
SYMMETRY MCSymmetry
INVARIANT LossOnlyByFault
CHECK_DEADLOCK FALSE
