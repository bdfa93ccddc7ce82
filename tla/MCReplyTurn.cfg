SPECIFICATION TurnSpec
CONSTANTS
  machine = machine
  leak = leak
  noise = noise
  due = due
  alice = alice
  bob = bob
  None = None
  NoReply = NoReply
  Tokens <- MCTokens
  Gaps <- MCGaps
  Enders <- MCEnders
  Markup <- MCMarkup
  Claims <- MCClaims
  DraftMarks <- MCDraftMarks
  GateMarks <- MCGateMarks
  Numeric <- MCNumeric
  Lettered <- MCLettered
  PhoneMarks <- MCPhoneMarks
  Within <- MCWithin
  Costs <- MCCosts
  Cents <- MCCents
  Tildes <- MCTildes
  Estimates <- MCEstimates
  ShortWords <- MCShortWords
  Flags <- MCFlags
  SafetyFlags <- MCSafetyFlags
  Items <- MCItems
  MachineItems <- MCItems
  Machines <- MCMachines
  WordsOf <- MCWordsOf
  Labels <- MCLabels
  SerialOf <- MCSerialOf
  TotalTokens = 12
  ResponseReserve = 2
  StaticTokens = 1
  Overhead = 1
  EntryTokens = 1
  MaxTokens = 8
  Recipients <- MCRecipients
  Limit = 3
  PushLimit = 2
  RawInputs <- MCRawInputs
  Sessions <- MCSessions
  Conversations <- MCConversations
  SettingsRows <- MCSettingsRows
  Answers <- MCAnswers
  AuditReplies <- MCAuditReplies
  SignalSets <- MCSignalSets
  Routes <- MCRoutes
INVARIANTS
  TurnTypeOK
  ReplyIsWholeStream
  SafetyIsNeverSkipped
  HistoryIsLongestSuffix
  SegmentsCarryTheText
PROPERTIES
  ImplementsReplyDelivery
  EveryTurnEnds
CHECK_DEADLOCK FALSE
