CONSTANTS
  a = a
  b = b
  k1 = k1
  k2 = k2
  Cmd = {a, b, c}
  Plain = {c}
  Client = {k1, k2}
  Calls = {"start", "resume", "suspend", "stop", "clear", "push", "mode"}
  Modes <- FiniteModes
  OwnsContext = FALSE
  MaxCalls = 4
  MaxPush = 2
SPECIFICATION MCSpec
INVARIANTS
  OneAtATime
PROPERTIES
  SuccessMeansDone
  LoopFinishes
  QueuedRuns
CHECK_DEADLOCK FALSE
