CONSTANTS
  Out1 = {a}
  Out2 = {b}
  In1 = {x}
  In2 = {y}
  Ids = {a, b}
  IdOf <- OwnIdentifier
  NoEntry = NoEntry
  Faults = {}
  MaxReconnects = 2
  MaxRestarts = 0
SPECIFICATION FairSpec
INVARIANT NoOrphans
INVARIANT NeverPanics
INVARIANT OkMeansTaken
CHECK_DEADLOCK FALSE
PROPERTY PublishResolves
PROPERTY KeepsPromises
