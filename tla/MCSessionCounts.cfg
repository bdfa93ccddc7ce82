SPECIFICATION SessionSpec
CONSTANTS
  a = a
  b = b
  s1 = s1
  s2 = s2
  u1 = u1
  f1 = f1
  None = None
  Clients <- MCOneClient
  Sessions <- MCOneSession
  Users <- MCUsers
  UserOf <- MCOneUserOf
  Flags <- MCFlags
  RetentionDays = 2
  MaxRetention = 1
  MaxTime = 3
  MaxRows = 4
  MaxFaults = 1
INVARIANT
  PurgeCountsAreTrue
CHECK_DEADLOCK FALSE
