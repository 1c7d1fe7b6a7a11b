\* Two requests for one place in the queue, timeouts, a shutdown, and an error of the worker or a round of retention.
CONSTANTS
  r1 = r1
  r2 = r2
  None = None
  Requests = {r1, r2}
  MaxRetentions = 1
  MaxWorkerErrors = 1
  RequestCapacity = 1
  ByteCapacity = 3
  MaxCompressedBytes = 2
SPECIFICATION Spec
CONSTRAINT OneDisturbance
SYMMETRY Symmetry
INVARIANTS TypeOK CapacityAccounting ReservationHonoured BacklogCounted RejectionsAccounted DrainedShutdown
PROPERTIES FailureStopsAdmission
CHECK_DEADLOCK FALSE
