------------------------------ MODULE Workspace ------------------------------
(***************************************************************************)
(* The Telemetry Workspace (packages/workspace): what the user is looking  *)
(* at, the transition of every action of the user interface, and the       *)
(* address that keeps it in the browser's history (url.ts).                *)
(*                                                                         *)
(* A workspace is a record; a transition is an operator from a workspace   *)
(* and the action's arguments to the next workspace.  Times are small      *)
(* numbers.  `only` stands for the filters that one signal has and the     *)
(* other has not: operation, status and durations of traces, severities of *)
(* logs.  Limits and cursors of the queries, which the renderer never      *)
(* sets, are left out.                                                     *)
(***************************************************************************)
EXTENDS Integers, FiniteSets, SequencesExt

CONSTANTS
  None,                 \* an absent value
  MaxAttributeFilters,  \* attribute filters a query keeps
  MaxServiceFilters,    \* Services an address keeps
  MaxLookback           \* longest range that an address may ask for

ASSUME WorkspaceAssumption ==
  /\ None \notin Int \cup {"trace", "span"}
  /\ MaxAttributeFilters \in Nat \ {0} /\ MaxServiceFilters \in Nat /\ MaxLookback \in Nat \ {0}

Signals == {"traces", "logs"}

\* The sort orders that each signal's queries have.
TraceSorts == {"newest", "oldest", "slowest"}
LogSorts   == {"newest", "oldest"}

LocationFields ==
  {"signal", "selectedTraceId", "selectedSpanId", "selectedLogId", "serviceFilter",
   "traceQuery", "logQuery", "selectedLogContext", "collapsedSpanIds", "logCorrelation"}

LocationOf(ws) == [f \in LocationFields |-> ws[f]]

\* A workspace `next` reached by a step that `back` undoes.
WithHistory(ws, next) == [next EXCEPT !.history = Append(ws.history, LocationOf(ws))]

(***************************************************************************)
(* The initial workspace and the live range                                *)
(***************************************************************************)

InitialQuery(now, duration) ==
  [from |-> now - duration, to |-> now, services |-> <<>>, text |-> None, traceId |-> None,
   only |-> None, attributes |-> <<>>, sort |-> "newest"]

InitialLogQuery(now, duration) ==
  [from |-> now - duration, to |-> now, services |-> <<>>, text |-> None, traceId |-> None, spanId |-> None,
   only |-> None, attributes |-> <<>>, sort |-> "newest"]

InitialWorkspace(now, duration) ==
  [signal |-> "traces", serviceFilter |-> <<>>,
   selectedTraceId |-> None, selectedSpanId |-> None, selectedLogId |-> None, selectedLogContext |-> None,
   traceQuery |-> InitialQuery(now, duration),
   logQuery |-> InitialLogQuery(now, duration),
   history |-> <<>>, refreshPaused |-> FALSE, collapsedSpanIds |-> {},
   liveRangeDuration |-> duration, logCorrelation |-> None]

WithRange(ws, from, to) ==
  [ws EXCEPT !.traceQuery.from = from, !.traceQuery.to = to, !.logQuery.from = from, !.logQuery.to = to]

AdvanceTimeRange(ws, now) ==
  IF ws.liveRangeDuration = None \/ ws.refreshPaused THEN ws
  ELSE WithRange(ws, now - ws.liveRangeDuration, now)

(***************************************************************************)
(* The transitions                                                         *)
(***************************************************************************)

SignalChanged(ws, signal) ==
  WithHistory(ws, [ws EXCEPT !.signal = signal, !.logCorrelation = None])

ServiceFilterChanged(ws, services) ==
  [ws EXCEPT !.serviceFilter = services, !.traceQuery.services = services,
             !.logQuery.services = services, !.logCorrelation = None]

WithoutFilters(query) ==
  [query EXCEPT !.services = <<>>, !.only = None, !.traceId = None, !.text = None, !.attributes = <<>>]

FiltersCleared(ws) ==
  [ws EXCEPT !.serviceFilter = <<>>, !.traceQuery = WithoutFilters(@),
             !.logQuery = [WithoutFilters(@) EXCEPT !.spanId = None], !.logCorrelation = None]

LiveRangeChanged(ws, to, duration) ==
  IF duration <= 0 THEN ws
  ELSE [WithRange(ws, to - duration, to) EXCEPT
          !.liveRangeDuration = duration, !.logCorrelation = None]

\* What stays collapsed when a trace is opened.
CollapsedFor(ws, trace) == IF ws.selectedTraceId = trace THEN ws.collapsedSpanIds ELSE {}

TraceSelected(ws, trace, span) ==
  WithHistory(ws, [ws EXCEPT !.signal = "traces", !.selectedTraceId = trace, !.selectedSpanId = span,
                             !.selectedLogId = None, !.selectedLogContext = None,
                             !.collapsedSpanIds = CollapsedFor(ws, trace)])

SpanSelected(ws, trace, span) ==
  [ws EXCEPT !.signal = "traces", !.selectedTraceId = trace, !.selectedSpanId = span]

LogSelected(ws, log) ==
  WithHistory(ws, [ws EXCEPT !.selectedLogId = log.id, !.selectedLogContext = log])

LogClosed(ws) == [ws EXCEPT !.selectedLogId = None, !.selectedLogContext = None]

TraceClosed(ws) == [LogClosed(ws) EXCEPT !.selectedTraceId = None, !.selectedSpanId = None]

CorrelatedTraceOpened(ws, given) ==
  LET log == IF given # None THEN given ELSE ws.selectedLogContext IN
  IF log = None THEN ws
  ELSE IF log.traceId = None THEN ws
  ELSE WithHistory(ws, [LogClosed(ws) EXCEPT
         !.signal = "traces", !.serviceFilter = <<>>, !.traceQuery.services = <<>>,
         !.selectedTraceId = log.traceId, !.selectedSpanId = log.spanId,
         !.collapsedSpanIds = CollapsedFor(ws, log.traceId), !.logCorrelation = None])

\* The logs of a trace, or of one span of it, all of them and oldest first.
CorrelatedLogsOpened(ws, span) ==
  WithHistory(ws, [LogClosed(ws) EXCEPT
    !.signal = "logs", !.serviceFilter = <<>>,
    !.logQuery = [WithoutFilters(@) EXCEPT !.traceId = ws.selectedTraceId, !.spanId = span, !.sort = "oldest"],
    !.logCorrelation = [traceId |-> ws.selectedTraceId, spanId |-> span]])

TraceLogsOpened(ws) ==
  IF ws.selectedTraceId = None THEN ws ELSE CorrelatedLogsOpened(ws, None)

SpanLogsOpened(ws) ==
  IF None \in {ws.selectedTraceId, ws.selectedSpanId} THEN ws
  ELSE CorrelatedLogsOpened(ws, ws.selectedSpanId)

\* A selected span that the loaded trace does not have gives way to its first.
TraceDetailLoaded(ws, trace, spans) ==
  IF \/ ws.selectedTraceId # trace
     \/ ws.selectedSpanId = None
     \/ Contains(spans, ws.selectedSpanId)
  THEN ws
  ELSE [ws EXCEPT !.selectedSpanId = IF spans = <<>> THEN None ELSE Head(spans)]

\* A record with other values of some fields: { ...record, ...fields }.
Merge(record, fields) ==
  [f \in DOMAIN record |-> IF f \in DOMAIN fields THEN fields[f] ELSE record[f]]

Back(ws) ==
  IF ws.history = <<>> THEN ws
  ELSE Merge([ws EXCEPT !.history = Front(@)], Last(ws.history))

RefreshPauseToggled(ws) == [ws EXCEPT !.refreshPaused = ~@]

\* A complete result without the selected record closes its detail.
ResultsRefreshed(ws, signal, ids, truncated) ==
  IF signal # ws.signal \/ truncated THEN ws
  ELSE IF signal = "traces" /\ ws.selectedTraceId \notin ids \cup {None}
       THEN [ws EXCEPT !.selectedTraceId = None, !.selectedSpanId = None]
  ELSE IF signal = "logs" /\ ws.selectedLogId \notin ids \cup {None}
       THEN LogClosed(ws)
  ELSE ws

SpanCollapseToggled(ws, span) ==
  [ws EXCEPT !.collapsedSpanIds = IF span \in @ THEN @ \ {span} ELSE @ \cup {span}]

\* The elements of a sequence at some of its positions.
Picked(seq, positions) ==
  [n \in 1..Cardinality(positions) |->
     seq[CHOOSE i \in positions : Cardinality({j \in positions : j <= i}) = n]]

\* The filter of an attribute replaces the one that its key had; the oldest
\* ones go when there are too many.
Promoted(attributes, key, value) ==
  LET others == Picked(attributes, {i \in DOMAIN attributes : attributes[i].key # key})
      excess == Len(others) - (MaxAttributeFilters - 1)
      kept == IF excess > 0 THEN SubSeq(others, excess + 1, Len(others)) ELSE others
  IN Append(kept, [key |-> key, value |-> value])

AttributeFilterPromoted(ws, signal, key, value) ==
  LET next == IF signal = "traces"
              THEN [ws EXCEPT !.signal = signal,
                              !.traceQuery.attributes = Promoted(@, key, value)]
              ELSE [ws EXCEPT !.signal = signal, !.logCorrelation = None,
                              !.logQuery.attributes = Promoted(@, key, value)]
  IN IF signal = ws.signal THEN next ELSE WithHistory(ws, next)

TraceQueryChanged(ws, change) == [ws EXCEPT !.traceQuery = Merge(@, change)]

LogQueryChanged(ws, change) == [ws EXCEPT !.logQuery = Merge(@, change), !.logCorrelation = None]

(***************************************************************************)
(* The address                                                             *)
(***************************************************************************)

QueryOf(ws) == IF ws.signal = "traces" THEN ws.traceQuery ELSE ws.logQuery

\* workspaceToUrl: the path and the parameters, None where there is none.
ToUrl(ws) ==
  LET traces == ws.signal = "traces"
      query == QueryOf(ws)
  IN [signal |-> ws.signal, from |-> query.from, to |-> query.to, sort |-> query.sort, text |-> query.text,
      services |-> ws.serviceFilter, attributes |-> query.attributes, filterTrace |-> query.traceId,
      traceOnly |-> IF traces THEN query.only ELSE None,
      logOnly |-> IF traces THEN None ELSE query.only,
      filterSpan |-> IF traces THEN None ELSE query.spanId,
      trace |-> IF traces THEN ws.selectedTraceId ELSE None,
      span |-> IF traces THEN ws.selectedSpanId ELSE None,
      log |-> ws.selectedLogId,
      correlation |-> IF traces \/ ws.logCorrelation = None THEN None
                      ELSE IF ws.logCorrelation.spanId = None THEN "trace" ELSE "span",
      paused |-> ws.refreshPaused,
      live |-> ws.liveRangeDuration # None]

FirstOf(seq, n) == SubSeq(seq, 1, IF Len(seq) < n THEN Len(seq) ELSE n)

\* The range of an address, when it is one that may be asked for.
UrlRange(url, fallback) ==
  LET from == IF url.from = None THEN fallback.traceQuery.from ELSE url.from
      to == IF url.to = None THEN fallback.traceQuery.to ELSE url.to
  IN IF 0 <= from /\ from <= to /\ to - from <= MaxLookback
     THEN [from |-> from, to |-> to]
     ELSE [from |-> fallback.traceQuery.from, to |-> fallback.traceQuery.to]

UrlLiveRange(url, fallback) ==
  LET range == UrlRange(url, fallback)
      duration == range.to - range.from
      explicit == {url.from, url.to} # {None}
      requested == url.live \/ (~explicit /\ fallback.liveRangeDuration # None)
  IN IF requested /\ duration > 0 /\ duration <= MaxLookback
     THEN duration ELSE fallback.liveRangeDuration

\* Mutant: every filter by a trace is restored as a correlation.
UrlCorrelationOfFilter(url) ==
  IF url.signal # "logs" \/ url.filterTrace = None THEN None
  ELSE [traceId |-> url.filterTrace, spanId |-> url.filterSpan]

UrlCorrelation(url) ==
  IF url.signal # "logs" \/ None \in {url.correlation, url.filterTrace} THEN None
  ELSE [traceId |-> url.filterTrace,
        spanId |-> IF url.correlation = "span" THEN url.filterSpan ELSE None]

\* A sort that the address names and the signal has.
UrlSort(url, sorts, fallback) == IF url.sort \in sorts THEN url.sort ELSE fallback

\* workspaceFromUrl: both queries are restored from the one set of parameters.
FromUrl(url, fallback) ==
  LET range == UrlRange(url, fallback)
      services == FirstOf(url.services, MaxServiceFilters)
      restored(query) ==
        [query EXCEPT !.from = range.from, !.to = range.to, !.services = services, !.text = url.text,
                      !.traceId = url.filterTrace, !.attributes = FirstOf(url.attributes, MaxAttributeFilters)]
  IN [fallback EXCEPT
        !.signal = url.signal,
        !.selectedTraceId = url.trace,
        !.selectedSpanId = IF url.trace = None THEN None ELSE url.span,
        !.selectedLogId = url.log,
        !.serviceFilter = services,
        !.refreshPaused = url.paused,
        !.liveRangeDuration = UrlLiveRange(url, fallback),
        !.logCorrelation = UrlCorrelation(url),
        !.traceQuery = [restored(fallback.traceQuery) EXCEPT
          !.only = url.traceOnly,
          !.sort = UrlSort(url, TraceSorts, fallback.traceQuery.sort)],
        !.logQuery = [restored(fallback.logQuery) EXCEPT
          !.only = url.logOnly, !.spanId = url.filterSpan,
          !.sort = UrlSort(url, LogSorts, fallback.logQuery.sort)]]
=============================================================================
