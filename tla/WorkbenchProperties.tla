------------------------- MODULE WorkbenchProperties -------------------------
(***************************************************************************)
(* What the web renderer promises while answers, ticks of the polling      *)
(* timer, clicks and the browser's history interleave.                     *)
(***************************************************************************)
EXTENDS Workbench

\* The page says what the workspace asks, or will: a request for it is under
\* way, or React has yet to render the query and the effect will ask for it,
\* or the last query has ended, and where the page says "ready" its list is the
\* answer to exactly what its filters, range, sort and correlation ask.
Attended(u) ==
  \/ \E r \in u.refreshes : r.current
  \/ Revision(u.ws) # u.rendered.revision
  \/ /\ u.phase \in {"ready", "stale", "unavailable", "invalid"}
     /\ u.phase = "ready" => u.lists[u.ws.signal].asked = AskedBy(u.ws)

\* Before React has rendered a change of the query, and after the answer to the
\* one before was dropped for it, the page goes back to the one before.
Returns(u, ws) ==
  /\ \A r \in u.refreshes : ~r.current
  /\ Revision(u.ws) # u.rendered.revision
  /\ Revision(ws) = u.rendered.revision

\* Once connected the page is attended to, whatever is changed, answered,
\* superseded or restored on the way: it does not say "loading" for ever, nor
\* "ready" over the list of another query.  The one way to lose this is to come
\* back to the query that was rendered last between a dropped answer and the
\* next rendering: no effect runs for it (refresh, commitState, the popstate
\* listener and the effect on the query's revision).
ResultsCurrent ==
  [][(ui.connected => Attended(ui)) /\ ui'.connected => Attended(ui') \/ Returns(ui, ui'.ws)]_vars

\* Once the effects have run, the details that are shown are those of the
\* selected trace and the selected log or nothing, and a selected trace whose
\* detail is not there and is not under way is asked for again by the next
\* refresh (loadTraceDetail and the two detail effects).
DetailCurrent ==
  ui.connected /\ ~EffectsPending(ui) =>
    /\ ui.traceDetail \in {None, ui.ws.selectedTraceId}
    /\ ui.logDetail \in {None, ui.ws.selectedLogId}
    /\ ui.logLoad \in {None, ui.ws.selectedLogId}
    /\ ui.ws.selectedTraceId # None /\ ui.traceDetail = None =>
         \/ ~ui.fresh
         \/ \E l \in ui.loads : l.current /\ l.trace = ui.ws.selectedTraceId

\* The part of a workspace that the page shows.  The Service filter counts,
\* which a transition to correlated records clears for one signal only, and
\* not its copy in the query.
View(ws) ==
  LET traces == ws.signal = "traces"
  IN [signal |-> ws.signal,
      query |-> [QueryOf(ws) EXCEPT !.services = ws.serviceFilter],
      trace |-> IF traces THEN <<ws.selectedTraceId, ws.selectedSpanId>> ELSE <<>>,
      log |-> ws.selectedLogId,
      correlation |-> ws.logCorrelation,
      paused |-> ws.refreshPaused, live |-> ws.liveRangeDuration]

\* What an address keeps of a workspace: not more Services than MaxServiceFilters,
\* and of the live range that it is one, its length being that of the range.
Addressed(ws) ==
  LET shown == ws.traceQuery.to - ws.traceQuery.from
  IN [ws EXCEPT !.serviceFilter = FirstOf(@, MaxServiceFilters),
                !.liveRangeDuration = IF shown > 0 THEN shown ELSE DefaultDuration]

\* The address in the browser always restores what the page shows, but for the
\* Services beyond the limit and a live range that has not been applied yet: a
\* reload, a bookmark and `back` lead to the same query, selection, correlation
\* and polling (workspaceToUrl, workspaceFromUrl and every place that writes the
\* address).
AddressRestores == View(FromUrl(entries[at], Fallback)) = View(Addressed(ui.ws))

\* Only the user, or a complete answer to the current query that does not
\* have it, takes the selected trace away; no late answer does
\* (results-refreshed and the checks before it).
SelectionKept ==
  [][ /\ UNCHANGED events
      /\ ui.ws.selectedTraceId # None
      /\ ui'.ws.selectedTraceId # ui.ws.selectedTraceId
      => /\ ui.ws.signal = "traces"
         /\ ui'.lists["traces"].asked = AskedBy(ui.ws)
         /\ ui.ws.selectedTraceId \notin ui'.lists["traces"].ids ]_vars

-----------------------------------------------------------------------------
(* Strengthenings that make the properties inductive (WorkbenchProofs).     *)

WorkspaceFields ==
  {"signal", "serviceFilter", "selectedTraceId", "selectedSpanId", "selectedLogId", "selectedLogContext",
   "traceQuery", "logQuery", "history", "refreshPaused", "collapsedSpanIds", "liveRangeDuration",
   "logCorrelation"}

TraceQueryFields == {"from", "to", "services", "text", "traceId", "only", "attributes", "sort"}
LogQueryFields   == TraceQueryFields \cup {"spanId"}

UiFields ==
  {"ws", "connected", "phase", "lists", "refreshes", "loads", "traceDetail", "fresh", "logDetail", "logLoad",
   "rendered"}

QueryInv(query, fields, sorts) ==
  /\ query = [f \in fields |-> query[f]]
  /\ query.from \in Nat /\ query.to \in Nat
  /\ query.sort \in sorts
  /\ IsShort(query.attributes, MaxAttributeFilters)

\* A workspace is well-formed: both its queries are of one range, which is not
\* too long, no span is selected without its trace, and a correlation is that of
\* the log query.
WorkspaceInv(ws) ==
  /\ DOMAIN ws = WorkspaceFields
  /\ ws.signal \in Signals /\ ws.refreshPaused \in BOOLEAN
  /\ QueryInv(ws.traceQuery, TraceQueryFields, TraceSorts)
  /\ QueryInv(ws.logQuery, LogQueryFields, LogSorts)
  /\ ws.traceQuery.from = ws.logQuery.from /\ ws.traceQuery.to = ws.logQuery.to
  /\ ws.traceQuery.to - ws.traceQuery.from \in 0..MaxLookback
  /\ ws.liveRangeDuration \in 1..MaxLookback
  /\ IsShort(ws.serviceFilter, Len(ws.serviceFilter))
  /\ ws.selectedTraceId = None => ws.selectedSpanId = None
  /\ ws.logCorrelation # None =>
       /\ ws.signal = "logs" /\ ws.logQuery.traceId # None
       /\ ws.logCorrelation = [traceId |-> ws.logQuery.traceId, spanId |-> ws.logCorrelation.spanId]
       /\ ws.logCorrelation.spanId \in {None, ws.logQuery.spanId}

\* What a refresh asks for is known from the revision it was made for.
AskedOf(revision) ==
  IF revision.signal = "traces" \/ revision.correlation = None
  THEN [signal |-> revision.signal, query |-> revision.query]
  ELSE revision.correlation

\* A state of the component is well-formed, and so are its requests.
UiInv(u) ==
  /\ DOMAIN u = UiFields /\ DOMAIN u.lists = Signals /\ u.connected \in BOOLEAN
  /\ WorkspaceInv(u.ws)
  /\ \A r \in u.refreshes :
       /\ DOMAIN r = {"current", "revision", "signal", "asked"} /\ r.current \in BOOLEAN
       /\ r.signal = r.revision.signal /\ r.asked = AskedOf(r.revision)
  /\ \A l \in u.loads :
       /\ DOMAIN l = {"current", "trace"} /\ l.current \in BOOLEAN /\ l.trace # None

ComponentInv == UiInv(ui) /\ events \in Nat /\ clock \in Nat /\ StartTime <= clock

\* The details are those of what the effects ran for last.
DetailsOf(u) ==
  u.rendered.connected =>
    /\ u.traceDetail \in {None, u.rendered.trace}
    /\ u.logDetail \in {None, u.rendered.log}
    /\ u.logLoad \in {None, u.rendered.log}
    /\ u.rendered.trace # None /\ u.traceDetail = None => ~u.fresh

\* Between two runs the selection can only go, as nothing but the user selects
\* anything.
DetailInv ==
  /\ DetailsOf(ui)
  /\ ui.rendered.connected = ui.connected
  /\ ui.rendered.revision.signal = ui.ws.signal
  /\ ui.ws.selectedTraceId \in {None, ui.rendered.trace}
  /\ ui.ws.selectedLogId \in {None, ui.rendered.log}

\* A request that is under way is for what the effects ran for last.
RequestInv ==
  \A r \in ui.refreshes : r.current => ui.connected /\ r.revision = ui.rendered.revision

\* An address in the history, which all were written by ToUrl.
EntryInv(url) ==
  /\ url.signal \in Signals /\ url.paused \in BOOLEAN
  /\ url.from \in Nat /\ url.to \in Nat /\ url.to - url.from \in 0..MaxLookback
  /\ IsShort(url.attributes, MaxAttributeFilters) /\ IsShort(url.services, Len(url.services))
  /\ url.live

HistoryInv ==
  /\ IsShort(entries, Len(entries))
  /\ at \in DOMAIN entries
  /\ \A i \in DOMAIN entries : EntryInv(entries[i])

=============================================================================
