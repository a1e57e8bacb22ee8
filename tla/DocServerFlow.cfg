CONSTANTS
  Out1 = {}
  Out2 = {}
  In1 = {}
  In2 = {y}
  Ids = {}
  IdOf <- OwnIdentifier
  NoEntry = NoEntry
  Faults = {}
  MaxReconnects = 1
  MaxRestarts = 0
SPECIFICATION FairSpec
PROPERTY ServerFlowCompletes
CHECK_DEADLOCK FALSE
