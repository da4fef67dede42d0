CONSTANTS
  Worker = {w1}
  Client = {c1}
  Task = {k1}
  PoolTask = {k1}
  Chained = {}
  Listener = {l1}
  Weak = {}
  MaxThens = 0
  NoTask = NoTask
  NoOne = NoOne
SPECIFICATION Safety
INVARIANTS
  NoSelfJoin
CHECK_DEADLOCK FALSE
