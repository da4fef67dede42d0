CONSTANTS
  Worker = {w1, w2}
  Client = {c1, c2}
  Task = {k1, k2, k3}
  PoolTask = {k1, k2}
  Chained = {k1}
  Listener = {l1, l2}
  Weak = {l1}
  MaxThens = 1
  NoTask = NoTask
  NoOne = NoOne
SPECIFICATION Spec
INVARIANTS
  TasksKept
PROPERTIES
  TasksRun
  DestructorReturns
CHECK_DEADLOCK FALSE
