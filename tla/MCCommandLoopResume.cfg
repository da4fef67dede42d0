CONSTANTS
  a = a
  b = b
  k1 = k1
  k2 = k2
  Cmd = {a}
  Plain = {}
  Client = {k1}
  Calls = {"start", "suspend", "resume", "push"}
  Modes <- Default
  OwnsContext = FALSE
  MaxCalls = 4
  MaxPush = 1
SPECIFICATION Safety
INVARIANTS
  SuspendedResumed
CHECK_DEADLOCK FALSE
