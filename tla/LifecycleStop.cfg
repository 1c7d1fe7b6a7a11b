\* A stop, a start and maintenance.
CONSTANTS
  m1 = m1
  m2 = m2
  m3 = m3
  d1 = d1
  d2 = d2
  d3 = d3
  None = None
  Managers = {m1, m2, m3}
  Daemons = {d1, d2}
  Scenarios <- StopBesideStart
  MaxCrashes = 0
  MaxOverruns = 0
SPECIFICATION Spec
INVARIANTS MaintenanceExclusive
CHECK_DEADLOCK FALSE
