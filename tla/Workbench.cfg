\* Three things that the user does, and a tick or a refresh in between.
CONSTANTS
  None = None
  MaxAttributeFilters = 1
  MaxServiceFilters = 1
  MaxLookback = 6
  t1 = t1
  t2 = t2
  s1 = s1
  s2 = s2
  l1 = l1
  l2 = l2
  checkout = checkout
  basket = basket
  words = words
  key = key
  value = value
  errors = errors
  Traces = {t1, t2}
  SpansOf <- Spans
  Logs <- LogSummaries
  Services <- ServiceChoices
  TraceChanges <- TraceEdits
  LogChanges <- LogEdits
  Attributes <- AttributeChoices
  Durations = {1}
  DefaultDuration = 2
  Addresses <- OpenedAt
  TraceResults <- ListedTraces
  LogResults <- ListedLogs
  StartTime = 6
  MaxTime = 7
  MaxEvents = 3
SPECIFICATION Spec
INVARIANTS DetailCurrent AddressRestores
PROPERTIES ResultsCurrent SelectionKept
CHECK_DEADLOCK FALSE
