CONSTANTS
  t1 = t1
  t2 = t2
  t3 = t3
  v = v
  s1 = s1
  s2 = s2
  s3 = s3
  k1 = k1
  k2 = k2
  l1 = l1
  l2 = l2
  Object = {t1, t2, t3, v, s1, s2, s3}
  EventsOf <- Events
  Fd = {1, 3}
  EventFd = 2
  StackBits = {{}, {3}}
  MaxRuns = 2
  Timer = {t1, t2, t3}
  IccTimer = {t1, t3}
  Listener = {l1, l2}
  Shared = {l2}
  Controller = {k1, k2}
  NoCall = NoCall
  MaxStarts = 2
  MaxChanges = 2
  Socket = {s1, s2, s3}
  Accepted = {s1}
  Server = {v}
  MaxBytes = 2
  MaxRequests = 2
  ChunkSizes = {2}
  Space = 1
  NoSocket = NoSocket
  Scenarios = {"lifecycle", "restart", "race", "control", "listeners", "reuse", "accept", "stream", "pair"}
SPECIFICATION MCSpec
INVARIANTS
  ListsCurrent
  ContinuousKept
  OnlyExpiries
  LateOnce
  RemovedSilent
  
  
PROPERTIES
  StopEnds
  TimerHeard
  RequestsServed
CHECK_DEADLOCK FALSE
