\* Three queries, two worker identities, an error event; no symmetry, as liveness is checked.
CONSTANTS
  q1 = q1
  q2 = q2
  q3 = q3
  w1 = w1
  w2 = w2
  None = None
  Queries = {q1, q2, q3}
  Workers = {w1, w2}
  MaxWorkerErrors = 1
SPECIFICATION FairSpec
INVARIANTS TypeOK OneWorker OneWaiter ClosedClean
PROPERTIES NoWorkerAfterClose ImplementsService QuerySettles CloseReturns
CHECK_DEADLOCK FALSE
