CONSTANTS
  Comp = {root, a, b}
  Root = root
  Client = {k1, k2}
  NULL = NULL
  MaxCalls = 4
SPECIFICATION Spec
INVARIANTS
  NoChildForgotten
PROPERTIES
  
  ExitReachesChildren
CHECK_DEADLOCK FALSE
