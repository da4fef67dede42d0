CONSTANTS
  r = r
  u = u
  Thread = {r, u}
  NoThread = NoThread
  Runner = {r, u}
  Stopper = {r, u}
  Policy = {"Forever"}
  MaxActions = 2
  MaxChannels = 0
  Scenarios = {"rerun"}
SPECIFICATION MCSpec
INVARIANTS
  SerialExecution
