\* Pages of two, of at most three results: the last page has another limit.
CONSTANTS
  None = None
  TraceBatches <- Batches
  LogBatches <- CorrelatedLogs
  LogIds = {1, 2, 3}
  Cutoffs = {0}
  BatchSize = 1
  SizeBudget = 9
  MaxKeys = 2
  MaxValues = 2
  MaxWrites = 2
  MaxStarts = 1
  MaxWakes = 0
  MaxFailures = 0
  Listings <- CollectedListings
  PageLimit = 2
  MaxResults = 3
SPECIFICATION Spec
INVARIANT PagingSucceeds
CHECK_DEADLOCK FALSE
