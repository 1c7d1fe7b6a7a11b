CONSTANTS
  Exports = {}
  RecursionLimit = 8
  MaxDecompressedBytes = 5
  None = None
  Traces <- CyclicTraces
  MaxTraceDetailSpans = 4
  MaxAncestry = 5
  Environments = {}
  Files = {}
SPECIFICATION Spec
INVARIANT WaterfallTotal
CHECK_DEADLOCK FALSE
