\* Two concurrent commands and a kill.
CONSTANTS
  m1 = m1
  m2 = m2
  m3 = m3
  d1 = d1
  d2 = d2
  d3 = d3
  None = None
  Managers = {m1, m2}
  Daemons = {d1, d2, d3}
  Scenarios <- Orderly
  MaxCrashes = 1
  MaxOverruns = 0
SPECIFICATION Spec
INVARIANTS TypeOK MaintenanceExclusive Discoverable
PROPERTIES SignalsVerified LocksReturned
CHECK_DEADLOCK FALSE
