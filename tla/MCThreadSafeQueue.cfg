CONSTANTS
  Thread = {t1, t2, t3}
  Node = {n1, n2, n3}
  Item = {a, b}
  NoItem = NoItem
  NULL = NULL
SPECIFICATION Spec
INVARIANTS
  Ownership
  NoLostWakeup
PROPERTIES
  ImplementsFifo
CHECK_DEADLOCK FALSE
