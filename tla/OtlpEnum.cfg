CONSTANTS
  Exports <- UnknownEnums
  RecursionLimit = 8
  MaxDecompressedBytes = 5
  None = None
  Traces = {}
  MaxTraceDetailSpans = 4
  MaxAncestry = 5
  Environments = {}
  Files = {}
SPECIFICATION Spec
INVARIANT AcceptedStorable
CHECK_DEADLOCK FALSE
