\* Two batches, a restart, a failure and a second run of the retention loop, under a reader.
CONSTANTS
  None = None
  TraceBatches <- Batches
  LogBatches <- LogSequences
  LogIds = {1, 2}
  Cutoffs = {0, 2}
  BatchSize = 1
  SizeBudget = 2
  MaxKeys = 2
  MaxValues = 2
  MaxWrites = 2
  MaxStarts = 2
  MaxWakes = 1
  MaxFailures = 1
  Listings <- AllListings
  PageLimit = 1
  MaxResults = 3
SPECIFICATION FairSpec
INVARIANTS ProjectionsMatchRecords TracesMatchSpans ReferencesExact CountersTellHistory PagesExact
PROPERTIES SweepsOldest RetentionSettles
CHECK_DEADLOCK FALSE
