CONSTANTS
  Calls = {c1, c2, c3}
  Filters <- ThreeFilters
  Names <- ThreeNames
  MatchedBy <- Matched
  CoveredBy <- Covered
  WithEmptyLevel <- Empty
  WithHash <- Open
  TooLong <- JustLong
  Unparsable <- IllegalOrLarge
  Grantable <- TwoFilters
  OldFilters = {}
  IdSpace = 2
  Clean = FALSE
  MaxBatch = 2
  MaxInbox = 0
  MaxLosses = 1
SPECIFICATION FairSpec
INVARIANT TypeOK
INVARIANT WaitingIsTracked
INVARIANT AckFindsRequest
PROPERTY LostOnlyToReuseOrRefusal
PROPERTY RequestsResolve
CHECK_DEADLOCK FALSE
