CONSTANTS
  Listener = {a, b, u}
  Unchecked = {u}
  Method = {m}
  Emitter = {s, e}
  Setter = s
  Value = {v, w}
  NULL = NULL
  MaxChanges = 3
  MaxEmissions = 2
SPECIFICATION Spec
INVARIANTS
  Delivered
  LastValue
SYMMETRY Symmetry
CHECK_DEADLOCK FALSE
