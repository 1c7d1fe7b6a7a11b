CONSTANTS
  Exports <- AllExports
  RecursionLimit = 8
  MaxDecompressedBytes = 5
  None = None
  Traces <- AllTraces
  MaxTraceDetailSpans = 4
  MaxAncestry = 5
  Environments <- AllEnvironments
  Files <- AllFiles
SPECIFICATION Spec
INVARIANTS EncodingsAgree IdentitiesSound TraceFaithful DetailsAgree ConfigurationSound
PROPERTY InitNeutral
CHECK_DEADLOCK FALSE
