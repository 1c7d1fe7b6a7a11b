\* A trace with a negative duration and a running one, listed by duration, a page each.
CONSTANTS
  None = None
  TraceBatches <- RunningBatches
  LogBatches <- LogSequences
  LogIds = {1, 2}
  Cutoffs = {0}
  BatchSize = 1
  SizeBudget = 9
  MaxKeys = 2
  MaxValues = 2
  MaxWrites = 2
  MaxStarts = 1
  MaxWakes = 0
  MaxFailures = 0
  Listings <- SlowestListings
  PageLimit = 1
  MaxResults = 3
SPECIFICATION Spec
INVARIANT PagesExact
CHECK_DEADLOCK FALSE
