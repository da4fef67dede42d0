CONSTANTS
  r = r
  u = u
  Thread = {r, u, v}
  NoThread = NoThread
  Runner = {r, u}
  Stopper = {r, u}
  Policy = {"Forever", "UntilWorkers"}
  MaxActions = 3
  MaxChannels = 2
  Scenarios = {"race", "stop"}
SPECIFICATION MCSpec
INVARIANTS
  SerialExecution
  FifoDelivery
  Conservation
PROPERTIES
  
  ForeverDelivers
  LastChannelWakes
