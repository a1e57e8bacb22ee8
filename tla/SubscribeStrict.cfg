CONSTANTS
  Calls = {c1, c2, c3}
  Filters <- TwoFilters
  Names <- ThreeNames
  MatchedBy <- Matched
  CoveredBy <- Covered
  WithEmptyLevel <- Empty
  WithHash <- Open
  TooLong = {}
  Unparsable <- Illegal
  Grantable <- TwoFilters
  OldFilters = {}
  IdSpace = 3
  Clean = TRUE
  MaxBatch = 2
  MaxInbox = 2
  MaxLosses = 1
SPECIFICATION Spec
INVARIANT TablesAgree
INVARIANT NoOrphanStreams
PROPERTY NothingFallsThrough
PROPERTY OnlyHashOverhears
SYMMETRY CallSymmetry
CHECK_DEADLOCK FALSE
