SPECIFICATION DispatchSpec
CONSTANTS
  c1 = c1
  c2 = c2
  c3 = c3
  u1 = u1
  u2 = u2
  r1 = r1
  r2 = r2
  r3 = r3
  Calls <- MCCalls
  Users <- MCUsers
  RequestIds <- MCRequestIds
  Workloads <- MCWorkloads
  MaxBoots = 1
INVARIANTS
  DispatchTypeOK
  ExplicitApproval
  ReplyMatchesRows
  PoNumbersDistinct
PROPERTIES
  TodosAreOwned
  ImplementsGatedWrite
  EveryCallAnswered
CHECK_DEADLOCK FALSE
