CONSTANTS
  Out1 = {a}
  Out2 = {b, c}
  In1 = {x}
  In2 = {y}
  Ids = {four}
  IdOf <- OneIdentifier
  NoEntry = NoEntry
  Faults = {"io", "crash"}
  MaxReconnects = 1
  MaxRestarts = 1
SPECIFICATION Spec
INVARIANT TypeOK
INVARIANT InFlightIsPersisted
INVARIANT WaitingIsTracked
INVARIANT AtMostOnce
CHECK_DEADLOCK FALSE
