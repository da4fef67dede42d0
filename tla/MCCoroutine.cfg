CONSTANTS
  a = a
  b = b
  d = d
  e = e
  k1 = k1
  Coro = {a, b, d, e}
  Root = {a, b}
  Void = {b, e}
  Client = {k1, k2}
  None = None
  Counts <- Signs
  MaxAwaits = 2
  MaxSpurious = 2
  MaxThrows = 1
  Scenarios = {"roots", "nested", "spurious", "throws"}
SPECIFICATION MCSpec
INVARIANTS
  
  ResultFirst
  NothingDangles
PROPERTIES
  
  RunEnds
  GetReturns
CHECK_DEADLOCK FALSE
