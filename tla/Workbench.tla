------------------------------ MODULE Workbench ------------------------------
(***************************************************************************)
(* The web renderer (apps/web/src/workbench.tsx): a workspace, its address *)
(* in the browser's history, and the queries that are under way for it.    *)
(*                                                                         *)
(* The state of the component is one record `ui`, because every handler of *)
(* the renderer is a sequence of small updates of it: an operator here     *)
(* takes the record before and gives the record after.  What the user does *)
(* makes React render and run the effects before anything else happens     *)
(* (Handled); an answer or a tick of the timer only changes the state, and *)
(* the effects run later (RunEffects).                                     *)
(*                                                                         *)
(* An aborted request may still answer, which is what the generations are  *)
(* for: `current` is whether a request's generation is the newest.  Left   *)
(* out: the Services of the picker with their cache, the notice, the       *)
(* layout.  The renderer never dispatches `back`, so the history of the    *)
(* workspace is dropped when a state is committed.                         *)
(***************************************************************************)
EXTENDS Workspace, FiniteSets

CONSTANTS
  Traces,            \* trace identities
  SpansOf,           \* the spans of each trace, in order
  Logs,              \* log summaries: [id, traceId, spanId]
  Services,          \* the Service filters a user sets
  TraceChanges, LogChanges,   \* changes of a query by the toolbar
  Attributes,        \* attributes to promote: [key, value]
  Durations,         \* ranges of the menu; one of them the default
  DefaultDuration,
  Addresses,         \* addresses the page may be opened at
  TraceResults, LogResults,   \* the identities a list may come back with
  StartTime, MaxTime,         \* bound: the clock
  MaxEvents          \* bound: what the user does

\* A sequence of at most n elements.
IsShort(seq, n) == Len(seq) \in 0..n /\ seq = [i \in 1..Len(seq) |-> seq[i]]

\* What a change of a query gives its fields.
IsChange(change, fields, sorts) ==
  /\ DOMAIN change \subseteq fields
  /\ "attributes" \in DOMAIN change => IsShort(change.attributes, MaxAttributeFilters)
  /\ "sort" \in DOMAIN change => change.sort \in sorts

\* The configuration is valid and the menu offers no longer range than it allows;
\* the toolbar leaves the range and the Services of a query alone; the clock has
\* run for longer than the longest range.
ASSUME WorkbenchAssumption ==
  /\ DefaultDuration \in 1..MaxLookback /\ Durations \subseteq 1..MaxLookback
  /\ StartTime \in Nat /\ MaxLookback <= StartTime /\ MaxTime \in Nat
  /\ \A c \in TraceChanges : IsChange(c, {"text", "traceId", "only", "attributes", "sort"}, TraceSorts)
  /\ \A c \in LogChanges : IsChange(c, {"text", "traceId", "spanId", "only", "attributes", "sort"}, LogSorts)
  /\ \A a \in Addresses :
       /\ a.signal \in Signals /\ a.paused \in BOOLEAN
       /\ a.from \in Int \cup {None} /\ a.to \in Int \cup {None}
       /\ IsShort(a.attributes, Len(a.attributes)) /\ IsShort(a.services, Len(a.services))
  /\ \A s \in Services : IsShort(s, Len(s))

VARIABLES
  ui,       \* the component
  entries,  \* the addresses in the browser's history
  at,       \* the one that is shown
  clock,    \* Date.now
  events    \* what the user has done so far

vars == <<ui, entries, at, clock, events>>

Fallback == InitialWorkspace(StartTime, DefaultDuration)

Empty == [ids |-> {}, asked |-> None]

(***************************************************************************)
(* What the effects depend on                                              *)
(***************************************************************************)

\* Mutant: the revision forgets the correlation.
RevisionOfQuery(ws) == [signal |-> ws.signal, query |-> QueryOf(ws)]

\* workspaceQueryRevision.
Revision(ws) == [signal |-> ws.signal, query |-> QueryOf(ws), correlation |-> ws.logCorrelation]

\* What a refresh asks the data source: a search, or the logs of a trace.
AskedBy(ws) ==
  IF ws.signal = "traces" \/ ws.logCorrelation = None
  THEN [signal |-> ws.signal, query |-> QueryOf(ws)]
  ELSE ws.logCorrelation

Dependencies(u) ==
  [connected |-> u.connected, revision |-> Revision(u.ws),
   trace |-> u.ws.selectedTraceId, log |-> u.ws.selectedLogId]

EffectsPending(u) == u.rendered # Dependencies(u)

(***************************************************************************)
(* The steps the handlers are made of                                      *)
(***************************************************************************)

\* commitState, without the address: another signal empties its list.
Commit(u, next) ==
  LET ws == [next EXCEPT !.history = <<>>] IN
  IF next.signal = u.ws.signal THEN [u EXCEPT !.ws = ws]
  ELSE [u EXCEPT !.ws = ws, !.phase = "reconnecting", !.lists[next.signal] = Empty]

\* Requests after a new one: the one before is aborted but may still answer.
Superseded(requests) == {[r EXCEPT !.current = FALSE] : r \in {r \in requests : r.current}}

Refresh(u) ==
  IF ~u.connected THEN u
  ELSE [u EXCEPT
          !.refreshes = Superseded(@) \cup
            {[current |-> TRUE, revision |-> Revision(u.ws),
              signal |-> u.ws.signal, asked |-> AskedBy(u.ws)]},
          !.phase = IF @ \in {"ready", "stale"} THEN @ ELSE "reconnecting"]

LoadTraceDetail(u, trace) ==
  IF ~u.connected THEN u
  ELSE [u EXCEPT !.loads = Superseded(@) \cup {[current |-> TRUE, trace |-> trace]}]

\* traceDetailAbortRef.current === null.
NoLoad(u) == \A l \in u.loads : ~l.current

TraceEffect(u) ==
  LET trace == u.ws.selectedTraceId IN
  IF trace = None \/ ~u.connected THEN [u EXCEPT !.traceDetail = None]
  ELSE LoadTraceDetail([u EXCEPT !.traceDetail = IF @ = trace THEN @ ELSE None,
                                 !.fresh = FALSE], trace)

LogEffect(u) ==
  LET log == u.ws.selectedLogId IN
  IF log = None \/ ~u.connected THEN [u EXCEPT !.logDetail = None, !.logLoad = None]
  ELSE [u EXCEPT !.logDetail = IF @ = log THEN @ ELSE None, !.logLoad = log]

\* The effects whose dependencies changed since they last ran.
RunEffectsOf(u) ==
  LET now == Dependencies(u)
      changed(field) == now.connected # u.rendered.connected \/ now[field] # u.rendered[field]
      refreshed == IF changed("revision") THEN Refresh(u) ELSE u
      traced == IF changed("trace") THEN TraceEffect(refreshed) ELSE refreshed
      logged == IF changed("log") THEN LogEffect(traced) ELSE traced
  IN [logged EXCEPT !.rendered = now]

\* refreshNow, at a time: the range moves on, or the query is asked again.
RefreshNow(u, now) ==
  IF u.ws.liveRangeDuration = None \/ u.ws.refreshPaused THEN Refresh(u)
  ELSE Commit(u, AdvanceTimeRange(u.ws, now))

(***************************************************************************)
(* The page is opened                                                      *)
(***************************************************************************)

Opened(ws) ==
  [ws |-> ws, connected |-> FALSE, phase |-> "loading", lists |-> [s \in Signals |-> Empty],
   refreshes |-> {}, loads |-> {}, traceDetail |-> None, fresh |-> FALSE,
   logDetail |-> None, logLoad |-> None,
   rendered |-> [connected |-> FALSE, revision |-> Revision(ws),
                 trace |-> ws.selectedTraceId, log |-> ws.selectedLogId]]

Init ==
  \E address \in Addresses :
    /\ ui = Opened(FromUrl(address, Fallback))
    /\ entries = <<ToUrl(ui.ws)>>
    /\ at = 1
    /\ clock = StartTime
    /\ events = 0

\* connectWebWorkspace answers, and the effects run with the data source.
Connect ==
  /\ ~ui.connected
  /\ ui' = RunEffectsOf([ui EXCEPT !.connected = TRUE])
  /\ UNCHANGED <<entries, at, clock, events>>

(***************************************************************************)
(* What the user does                                                      *)
(***************************************************************************)

\* dispatchWorkspaceAction: the state, a new address, and the effects.
Dispatch(next) ==
  /\ events < MaxEvents
  /\ events' = events + 1
  /\ ui' = RunEffectsOf(Commit(ui, next))
  /\ entries' = Append(SubSeq(entries, 1, at), ToUrl(next))
  /\ at' = at + 1
  /\ UNCHANGED clock

ShowingTrace ==
  /\ ui.ws.signal = "traces"
  /\ ui.ws.selectedTraceId # None
  /\ ui.traceDetail = ui.ws.selectedTraceId

ShownLog == CHOOSE log \in Logs : log.id = ui.logDetail

ChangeSignal == \E s \in Signals : Dispatch(SignalChanged(ui.ws, s))

ChangeServices == \E s \in Services : Dispatch(ServiceFilterChanged(ui.ws, s))

ClearFilters == Dispatch(FiltersCleared(ui.ws))

ChangeRange == \E d \in Durations : Dispatch(LiveRangeChanged(ui.ws, clock, d))

ChangeQuery ==
  \/ /\ ui.ws.signal = "traces"
     /\ \E c \in TraceChanges : Dispatch(TraceQueryChanged(ui.ws, c))
  \/ /\ ui.ws.signal = "logs"
     /\ \E c \in LogChanges : Dispatch(LogQueryChanged(ui.ws, c))

SelectTrace ==
  /\ ui.ws.signal = "traces"
  /\ \E t \in ui.lists["traces"].ids : Dispatch(TraceSelected(ui.ws, t, None))

SelectSpan ==
  /\ ShowingTrace
  /\ \E s \in Range(SpansOf[ui.traceDetail]) : Dispatch(SpanSelected(ui.ws, ui.traceDetail, s))

\* A log of the list, or of the trace that is shown.
SelectLog ==
  \E log \in Logs :
    /\ \/ ui.ws.signal = "logs" /\ log.id \in ui.lists["logs"].ids
       \/ ShowingTrace /\ log.traceId = ui.traceDetail
    /\ Dispatch(LogSelected(ui.ws, log))

\* Escape and the buttons.
CloseDetail ==
  \/ ui.ws.selectedLogId # None /\ Dispatch(LogClosed(ui.ws))
  \/ /\ ui.ws.selectedTraceId # None
     /\ ui.ws.selectedLogId = None \/ ShowingTrace
     /\ Dispatch(TraceClosed(ui.ws))

OpenTrace ==
  /\ ui.logDetail # None
  /\ ShownLog.traceId # None
  /\ Dispatch(CorrelatedTraceOpened(ui.ws, ShownLog))

OpenTraceLogs == ShowingTrace /\ Dispatch(TraceLogsOpened(ui.ws))

OpenSpanLogs ==
  /\ ShowingTrace
  /\ ui.ws.selectedSpanId # None
  /\ Dispatch(SpanLogsOpened(ui.ws))

PromoteAttribute ==
  \E a \in Attributes :
    \/ ShowingTrace /\ Dispatch(AttributeFilterPromoted(ui.ws, "traces", a.key, a.value))
    \/ ui.logDetail # None /\ Dispatch(AttributeFilterPromoted(ui.ws, "logs", a.key, a.value))

TogglePause == Dispatch(RefreshPauseToggled(ui.ws))

ToggleCollapse ==
  /\ ShowingTrace
  /\ \E s \in Range(SpansOf[ui.traceDetail]) : Dispatch(SpanCollapseToggled(ui.ws, s))

\* The refresh key or button.  While polling is paused the query is asked again
\* and the address is left as it is.
PressRefresh ==
  /\ events < MaxEvents
  /\ clock < MaxTime
  /\ clock' = clock + 1
  /\ events' = events + 1
  /\ ui' = RunEffectsOf(RefreshNow(ui, clock'))
  /\ entries' = [entries EXCEPT ![at] = IF ui'.ws = ui.ws THEN @ ELSE ToUrl(ui'.ws)]
  /\ UNCHANGED at

\* The browser's back and forward: the address is restored and nothing else,
\* whether React has rendered what came before or not.
PopState ==
  /\ events < MaxEvents
  /\ \E i \in {at - 1, at + 1} \cap DOMAIN entries :
       /\ at' = i
       /\ ui' = RunEffectsOf([ui EXCEPT !.ws = FromUrl(entries[i], Fallback)])
  /\ events' = events + 1
  /\ UNCHANGED <<entries, clock>>

User ==
  \/ ChangeSignal \/ ChangeServices \/ ClearFilters \/ ChangeRange \/ ChangeQuery
  \/ SelectTrace \/ SelectSpan \/ SelectLog \/ CloseDetail
  \/ OpenTrace \/ OpenTraceLogs \/ OpenSpanLogs \/ PromoteAttribute
  \/ TogglePause \/ ToggleCollapse \/ PressRefresh \/ PopState

(***************************************************************************)
(* What happens by itself                                                  *)
(***************************************************************************)

RunEffects ==
  /\ EffectsPending(ui)
  /\ ui' = RunEffectsOf(ui)
  /\ UNCHANGED <<entries, at, clock, events>>

\* The polling timer, or the page becoming visible.
Tick ==
  /\ ~ui.ws.refreshPaused
  /\ clock < MaxTime
  /\ clock' = clock + 1
  /\ ui' = RefreshNow(ui, clock')
  /\ entries' = [entries EXCEPT ![at] = ToUrl(ui'.ws)]
  /\ UNCHANGED <<at, events>>

\* Mutant: only the generation is looked at.
NewestOnly(u, r) == r.current

\* Still the newest request, and for what the workspace asks now.
Wanted(u, r) == r.current /\ Revision(u.ws) = r.revision

\* The lists and, for a trace that is due, its detail: `due` is whether its
\* summary changed or ten seconds have passed.
Listed(u, r, ids, due) ==
  LET listed == [u EXCEPT !.lists[r.signal] = [ids |-> ids, asked |-> r.asked]]
      trace == u.ws.selectedTraceId
  IN IF r.signal = "traces" /\ trace # None /\ NoLoad(u) /\ (due \/ ~u.fresh)
     THEN LoadTraceDetail(listed, trace) ELSE listed

RefreshAnswered ==
  \E r \in ui.refreshes, truncated, due \in BOOLEAN :
    LET u == [ui EXCEPT !.refreshes = @ \ {r}]
    IN /\ \/ /\ ~Wanted(ui, r)
             /\ ui' = u
          \/ /\ Wanted(ui, r)
             /\ \E ids \in IF r.signal = "traces" THEN TraceResults ELSE LogResults :
                  LET listed == Listed(u, r, ids, due)
                  IN ui' = [Commit(listed, ResultsRefreshed(u.ws, r.signal, ids, truncated))
                              EXCEPT !.phase = "ready"]
       /\ entries' = [entries EXCEPT ![at] = IF ui'.ws = ui.ws THEN @ ELSE ToUrl(ui'.ws)]
       /\ UNCHANGED <<at, clock, events>>

RefreshFailed ==
  \E r \in ui.refreshes :
    LET u == [ui EXCEPT !.refreshes = @ \ {r}] IN
    /\ \/ ~Wanted(ui, r) /\ ui' = u
       \/ /\ Wanted(ui, r)
          /\ \E invalid \in BOOLEAN :
               ui' = [u EXCEPT !.phase = IF invalid THEN "invalid"
                                         ELSE IF u.lists[r.signal].ids # {} THEN "stale"
                                         ELSE "unavailable"]
    /\ UNCHANGED <<entries, at, clock, events>>

\* Mutant: the selection is not looked at again when the answer comes.
TraceAnsweredLate ==
  \E l \in ui.loads :
    LET u == [ui EXCEPT !.loads = @ \ {l}] IN
    /\ IF ~l.current THEN ui' = u
       ELSE ui' = Commit([u EXCEPT !.traceDetail = l.trace, !.fresh = TRUE],
                         TraceDetailLoaded(ui.ws, l.trace, SpansOf[l.trace]))
    /\ entries' = [entries EXCEPT ![at] = IF ui'.ws = ui.ws THEN @ ELSE ToUrl(ui'.ws)]
    /\ UNCHANGED <<at, clock, events>>

TraceAnswered ==
  \E l \in ui.loads :
    LET u == [ui EXCEPT !.loads = @ \ {l}] IN
    /\ IF ~l.current \/ ui.ws.selectedTraceId # l.trace THEN ui' = u
       ELSE ui' = Commit([u EXCEPT !.traceDetail = l.trace, !.fresh = TRUE],
                         TraceDetailLoaded(ui.ws, l.trace, SpansOf[l.trace]))
    /\ entries' = [entries EXCEPT ![at] = IF ui'.ws = ui.ws THEN @ ELSE ToUrl(ui'.ws)]
    /\ UNCHANGED <<at, clock, events>>

TraceFailed ==
  \E l \in ui.loads :
    /\ ui' = [ui EXCEPT !.loads = @ \ {l}]
    /\ UNCHANGED <<entries, at, clock, events>>

\* Only the load that was not aborted can answer.
LogAnswered ==
  /\ ui.logLoad # None
  /\ \E found \in BOOLEAN :
       ui' = [ui EXCEPT !.logLoad = None, !.logDetail = IF found THEN ui.logLoad ELSE @]
  /\ UNCHANGED <<entries, at, clock, events>>

Next ==
  \/ Connect \/ User \/ RunEffects \/ Tick
  \/ RefreshAnswered \/ RefreshFailed \/ TraceAnswered \/ TraceFailed \/ LogAnswered

Spec == Init /\ [][Next]_vars
=============================================================================
