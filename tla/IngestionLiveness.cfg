\* Two requests, every call may time out; no symmetry, as liveness is checked.
CONSTANTS
  r1 = r1
  r2 = r2
  None = None
  Requests = {r1, r2}
  MaxRetentions = 0
  MaxWorkerErrors = 0
  RequestCapacity = 2
  ByteCapacity = 4
  MaxCompressedBytes = 2
SPECIFICATION FairSpec
PROPERTIES ImplementsContract AcceptedAnswered ShutdownTerminates
CHECK_DEADLOCK FALSE
