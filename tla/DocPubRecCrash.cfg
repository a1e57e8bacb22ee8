CONSTANTS
  Out1 = {}
  Out2 = {b}
  In1 = {}
  In2 = {}
  Ids = {b}
  IdOf <- OwnIdentifier
  NoEntry = NoEntry
  Faults = {"crash"}
  MaxReconnects = 1
  MaxRestarts = 1
SPECIFICATION Spec
INVARIANT UnreleasedIsPersisted
CHECK_DEADLOCK FALSE
