CONSTANTS
  Client = {k1, k2}
  Service = {s1, s2}
  Name = {name}
  name = name
  NULL = NULL
  ClientName <- SameName
  MaxCalls = 1
  MaxRequests = 3
  MaxValue = 1
SPECIFICATION Spec
INVARIANTS
  
  SubscriberKnows
PROPERTIES
  CallAnswered
CHECK_DEADLOCK FALSE
