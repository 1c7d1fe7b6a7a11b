--------------------------- MODULE WorkbenchProofs ---------------------------
(***************************************************************************)
(* Theorems about the web renderer, for every set of traces, logs, filters *)
(* and addresses, and for any number of events, ticks and answers.         *)
(***************************************************************************)
EXTENDS WorkbenchProperties, TLAPS, SequenceTheorems, FiniteSetTheorems

-----------------------------------------------------------------------------
(* Sequences of at most so many elements.                                   *)

\* A sequence in the sense of IsShort is one of the elements it has.
LEMMA ShortIsSeq ==
  ASSUME NEW seq, NEW n \in Nat, IsShort(seq, n)
  PROVE  /\ seq \in Seq({seq[i] : i \in 1..Len(seq)})
         /\ Len(seq) \in Nat /\ DOMAIN seq = 1..Len(seq)
<1> DEFINE S == {seq[i] : i \in 1..Len(seq)}
<1>1. Len(seq) \in Nat /\ DOMAIN seq = 1..Len(seq)
  BY DEF IsShort
<1>2. seq \in [1..Len(seq) -> S]
  BY DEF IsShort
<1> QED
  BY <1>1, <1>2, SeqDef

LEMMA SeqIsShort ==
  ASSUME NEW S, NEW seq \in Seq(S), NEW n \in Nat, Len(seq) <= n
  PROVE  IsShort(seq, n)
<1>1. Len(seq) \in 0..n
  BY LenProperties
<1>2. seq \in [1..Len(seq) -> S]
  BY LenProperties
<1> QED
  BY <1>1, <1>2 DEF IsShort

\* Every bound that holds leads to its own length.
LEMMA ShortOfItself ==
  ASSUME NEW seq, NEW n \in Nat, IsShort(seq, n)
  PROVE  IsShort(seq, Len(seq))
BY DEF IsShort

LEMMA EmptyIsShort == ASSUME NEW n \in Nat  PROVE IsShort(<<>>, n)
<1>1. <<>> \in Seq({}) /\ Len(<<>>) = 0
  BY EmptySeq
<1>2. Len(<<>>) <= n
  BY <1>1
<1> QED
  BY <1>1, <1>2, SeqIsShort

\* What an address keeps of a sequence is short, and all of a short one.
LEMMA FirstOfShort ==
  ASSUME NEW seq, IsShort(seq, Len(seq)), NEW n \in Nat
  PROVE  /\ IsShort(FirstOf(seq, n), n)
         /\ Len(seq) <= n => FirstOf(seq, n) = seq
<1> DEFINE S == {seq[i] : i \in 1..Len(seq)}
<1>1. Len(seq) \in Nat
  BY DEF IsShort
<1>2. seq \in Seq(S)
  BY <1>1, ShortIsSeq
<1> HIDE DEF S
<1>3. CASE Len(seq) < n
  <2>1. FirstOf(seq, n) = seq
    BY <1>2, <1>3, SubSeqFull DEF FirstOf
  <2> QED
    BY <1>1, <1>2, <1>3, <2>1, SeqIsShort
<1>4. CASE ~(Len(seq) < n)
  <2>1. FirstOf(seq, n) = SubSeq(seq, 1, n)
    BY <1>4 DEF FirstOf
  <2>2. SubSeq(seq, 1, n) \in Seq(S) /\ Len(SubSeq(seq, 1, n)) = n
    BY <1>1, <1>2, <1>4, SubSeqProperties
  <2>3. IsShort(FirstOf(seq, n), n)
    <3>1. Len(SubSeq(seq, 1, n)) <= n
      BY <2>2
    <3> QED
      BY <2>1, <2>2, <3>1, SeqIsShort
  <2>4. ASSUME Len(seq) <= n  PROVE FirstOf(seq, n) = seq
    <3>1. Len(seq) = n
      BY <1>1, <1>4, <2>4
    <3> QED
      BY <1>2, <2>1, <3>1, SubSeqFull
  <2> QED
    BY <2>3, <2>4
<1> QED
  BY <1>3, <1>4

\* Promoting an attribute leaves at most as many as a query keeps.
LEMMA PromotedShort ==
  ASSUME NEW attributes, IsShort(attributes, MaxAttributeFilters), NEW k, NEW v
  PROVE  IsShort(Promoted(attributes, k, v), MaxAttributeFilters)
<1> DEFINE positions == {i \in DOMAIN attributes : attributes[i].key # k}
           others == Picked(attributes, positions)
           excess == Len(others) - (MaxAttributeFilters - 1)
           kept == IF excess > 0 THEN SubSeq(others, excess + 1, Len(others)) ELSE others
           new == [key |-> k, value |-> v]
           Kinds == {others[i] : i \in 1..Cardinality(positions)} \cup {new}
<1>1. MaxAttributeFilters \in Nat \ {0}
  BY WorkspaceAssumption
<1>2. Cardinality(positions) \in Nat
  <2>1. DOMAIN attributes = 1..Len(attributes) /\ Len(attributes) \in Nat
    BY <1>1, ShortIsSeq
  <2>2. IsFiniteSet(DOMAIN attributes)
    BY <2>1, FS_Interval
  <2> QED
    BY <2>2, FS_Subset, FS_CardinalityType
<1> HIDE DEF positions
<1>3. others \in [1..Cardinality(positions) -> Kinds]
  BY DEF Picked
<1>4. others \in Seq(Kinds) /\ Len(others) = Cardinality(positions)
  <2>1. others \in Seq(Kinds)
    BY <1>2, <1>3, SeqDef
  <2> QED
    BY <1>2, <1>3, <2>1, LenProperties
<1>5. new \in Kinds
  OBVIOUS
<1> HIDE DEF others, Kinds, new
<1>6. kept \in Seq(Kinds) /\ Len(kept) <= MaxAttributeFilters - 1
  <2>1. CASE excess > 0
    BY <1>1, <1>2, <1>4, <2>1, SubSeqProperties
  <2>2. CASE ~(excess > 0)
    BY <1>1, <1>2, <1>4, <2>2
  <2> QED
    BY <2>1, <2>2
<1> HIDE DEF kept
<1>7. Append(kept, new) \in Seq(Kinds) /\ Len(Append(kept, new)) <= MaxAttributeFilters
  BY <1>1, <1>5, <1>6, AppendProperties, LenProperties
<1>8. Promoted(attributes, k, v) = Append(kept, new)
  BY DEF Promoted, kept, others, positions, new
<1> QED
  BY <1>1, <1>7, <1>8, SeqIsShort

-----------------------------------------------------------------------------
(* Queries.                                                                 *)

\* Clearing the filters leaves the range and the order alone.
LEMMA WithoutFiltersSound ==
  ASSUME NEW fields \in {TraceQueryFields, LogQueryFields}, NEW sorts, NEW query,
         QueryInv(query, fields, sorts)
  PROVE  /\ QueryInv(WithoutFilters(query), fields, sorts)
         /\ WithoutFilters(query).from = query.from /\ WithoutFilters(query).to = query.to
<1>1. IsShort(<<>>, MaxAttributeFilters)
  BY EmptyIsShort, WorkspaceAssumption
<1> QED
  BY <1>1 DEF QueryInv, TraceQueryFields, LogQueryFields, WithoutFilters

\* So do the changes of the toolbar, whatever else they set.
LEMMA MergeSound ==
  ASSUME NEW fields \in {TraceQueryFields, LogQueryFields}, NEW sorts, NEW query,
         QueryInv(query, fields, sorts), NEW change,
         IsChange(change, fields \ {"from", "to", "services"}, sorts)
  PROVE  /\ QueryInv(Merge(query, change), fields, sorts)
         /\ Merge(query, change).from = query.from /\ Merge(query, change).to = query.to
<1> DEFINE next == Merge(query, change)
<1>1. DOMAIN query = fields /\ {"from", "to", "attributes", "sort"} \subseteq fields
  BY DEF QueryInv, TraceQueryFields, LogQueryFields
<1>2. next = [f \in fields |-> IF f \in DOMAIN change THEN change[f] ELSE query[f]]
  BY <1>1 DEF Merge
<1>3. next = [f \in fields |-> next[f]]
  BY <1>2
<1>4. next.from = query.from /\ next.to = query.to
  BY <1>1, <1>2 DEF IsChange
<1>5. next.sort \in sorts
  BY <1>1, <1>2 DEF IsChange, QueryInv
<1>6. IsShort(next.attributes, MaxAttributeFilters)
  BY <1>1, <1>2 DEF IsChange, QueryInv
<1>7. QueryInv(next, fields, sorts)
  <2> HIDE DEF next
  <2> QED
    BY <1>3, <1>4, <1>5, <1>6 DEF QueryInv
<1> QED
  BY <1>4, <1>7

-----------------------------------------------------------------------------
(* The transitions of the workspace: each leads from a well-formed one to a *)
(* well-formed one.                                                         *)

\* What a transition does that leaves both queries alone.
LEMMA SelectionStep ==
  ASSUME NEW ws, WorkspaceInv(ws), NEW next,
         DOMAIN next = WorkspaceFields, next.signal \in Signals, next.refreshPaused \in BOOLEAN,
         next.traceQuery = ws.traceQuery, next.logQuery = ws.logQuery,
         next.liveRangeDuration = ws.liveRangeDuration,
         next.serviceFilter = ws.serviceFilter,
         next.selectedTraceId = None => next.selectedSpanId = None,
         \/ next.logCorrelation = None
         \/ next.logCorrelation = ws.logCorrelation /\ next.signal = ws.signal
  PROVE  WorkspaceInv(next)
BY DEF WorkspaceInv

\* Another signal.
LEMMA SignalStep ==
  ASSUME NEW ws, WorkspaceInv(ws), NEW s \in Signals
  PROVE  WorkspaceInv(SignalChanged(ws, s))
<1> DEFINE next == SignalChanged(ws, s)
<1>1. /\ DOMAIN next = WorkspaceFields /\ next.signal \in Signals /\ next.refreshPaused \in BOOLEAN
      /\ next.traceQuery = ws.traceQuery /\ next.logQuery = ws.logQuery
      /\ next.liveRangeDuration = ws.liveRangeDuration /\ next.serviceFilter = ws.serviceFilter
      /\ next.selectedTraceId = None => next.selectedSpanId = None
      /\ \/ next.logCorrelation = None
         \/ next.logCorrelation = ws.logCorrelation /\ next.signal = ws.signal
  BY DEF WorkspaceInv, WorkspaceFields, Signals, SignalChanged, WithHistory
<1>2. WorkspaceInv(next)
  <2> HIDE DEF next
  <2> QED
    BY <1>1, SelectionStep
<1> QED
  BY <1>2

\* A trace of the list, or one of its spans.
LEMMA SelectTraceStep ==
  ASSUME NEW ws, WorkspaceInv(ws), NEW t, NEW s,
         ws.signal = "traces", t # None \/ s = None
  PROVE  WorkspaceInv(TraceSelected(ws, t, s))
<1> DEFINE next == TraceSelected(ws, t, s)
<1>1. /\ DOMAIN next = WorkspaceFields /\ next.signal \in Signals /\ next.refreshPaused \in BOOLEAN
      /\ next.traceQuery = ws.traceQuery /\ next.logQuery = ws.logQuery
      /\ next.liveRangeDuration = ws.liveRangeDuration /\ next.serviceFilter = ws.serviceFilter
      /\ next.selectedTraceId = None => next.selectedSpanId = None
      /\ \/ next.logCorrelation = None
         \/ next.logCorrelation = ws.logCorrelation /\ next.signal = ws.signal
  BY DEF WorkspaceInv, WorkspaceFields, Signals, TraceSelected, WithHistory
<1>2. WorkspaceInv(next)
  <2> HIDE DEF next
  <2> QED
    BY <1>1, SelectionStep
<1> QED
  BY <1>2

\* A span of the trace that is shown.
LEMMA SelectSpanStep ==
  ASSUME NEW ws, WorkspaceInv(ws), NEW t, NEW s,
         ws.signal = "traces", t # None
  PROVE  WorkspaceInv(SpanSelected(ws, t, s))
<1> DEFINE next == SpanSelected(ws, t, s)
<1>1. /\ DOMAIN next = WorkspaceFields /\ next.signal \in Signals /\ next.refreshPaused \in BOOLEAN
      /\ next.traceQuery = ws.traceQuery /\ next.logQuery = ws.logQuery
      /\ next.liveRangeDuration = ws.liveRangeDuration /\ next.serviceFilter = ws.serviceFilter
      /\ next.selectedTraceId = None => next.selectedSpanId = None
      /\ \/ next.logCorrelation = None
         \/ next.logCorrelation = ws.logCorrelation /\ next.signal = ws.signal
  BY DEF WorkspaceInv, WorkspaceFields, Signals, SpanSelected
<1>2. WorkspaceInv(next)
  <2> HIDE DEF next
  <2> QED
    BY <1>1, SelectionStep
<1> QED
  BY <1>2

\* A log.
LEMMA SelectLogStep ==
  ASSUME NEW ws, WorkspaceInv(ws), NEW log
  PROVE  WorkspaceInv(LogSelected(ws, log))
<1> DEFINE next == LogSelected(ws, log)
<1>1. /\ DOMAIN next = WorkspaceFields /\ next.signal \in Signals /\ next.refreshPaused \in BOOLEAN
      /\ next.traceQuery = ws.traceQuery /\ next.logQuery = ws.logQuery
      /\ next.liveRangeDuration = ws.liveRangeDuration /\ next.serviceFilter = ws.serviceFilter
      /\ next.selectedTraceId = None => next.selectedSpanId = None
      /\ \/ next.logCorrelation = None
         \/ next.logCorrelation = ws.logCorrelation /\ next.signal = ws.signal
  BY DEF WorkspaceInv, WorkspaceFields, Signals, LogSelected, WithHistory
<1>2. WorkspaceInv(next)
  <2> HIDE DEF next
  <2> QED
    BY <1>1, SelectionStep
<1> QED
  BY <1>2

\* The detail of a log is closed.
LEMMA CloseLogStep ==
  ASSUME NEW ws, WorkspaceInv(ws)
  PROVE  WorkspaceInv(LogClosed(ws))
<1> DEFINE next == LogClosed(ws)
<1>1. /\ DOMAIN next = WorkspaceFields /\ next.signal \in Signals /\ next.refreshPaused \in BOOLEAN
      /\ next.traceQuery = ws.traceQuery /\ next.logQuery = ws.logQuery
      /\ next.liveRangeDuration = ws.liveRangeDuration /\ next.serviceFilter = ws.serviceFilter
      /\ next.selectedTraceId = None => next.selectedSpanId = None
      /\ \/ next.logCorrelation = None
         \/ next.logCorrelation = ws.logCorrelation /\ next.signal = ws.signal
  BY DEF WorkspaceInv, WorkspaceFields, Signals, LogClosed
<1>2. WorkspaceInv(next)
  <2> HIDE DEF next
  <2> QED
    BY <1>1, SelectionStep
<1> QED
  BY <1>2

\* The detail of a trace is closed.
LEMMA CloseTraceStep ==
  ASSUME NEW ws, WorkspaceInv(ws)
  PROVE  WorkspaceInv(TraceClosed(ws))
<1> DEFINE next == TraceClosed(ws)
<1>1. /\ DOMAIN next = WorkspaceFields /\ next.signal \in Signals /\ next.refreshPaused \in BOOLEAN
      /\ next.traceQuery = ws.traceQuery /\ next.logQuery = ws.logQuery
      /\ next.liveRangeDuration = ws.liveRangeDuration /\ next.serviceFilter = ws.serviceFilter
      /\ next.selectedTraceId = None => next.selectedSpanId = None
      /\ \/ next.logCorrelation = None
         \/ next.logCorrelation = ws.logCorrelation /\ next.signal = ws.signal
  BY DEF WorkspaceInv, WorkspaceFields, Signals, TraceClosed, LogClosed
<1>2. WorkspaceInv(next)
  <2> HIDE DEF next
  <2> QED
    BY <1>1, SelectionStep
<1> QED
  BY <1>2

\* Polling is paused or resumed.
LEMMA PauseStep ==
  ASSUME NEW ws, WorkspaceInv(ws)
  PROVE  WorkspaceInv(RefreshPauseToggled(ws))
<1> DEFINE next == RefreshPauseToggled(ws)
<1>1. /\ DOMAIN next = WorkspaceFields /\ next.signal \in Signals /\ next.refreshPaused \in BOOLEAN
      /\ next.traceQuery = ws.traceQuery /\ next.logQuery = ws.logQuery
      /\ next.liveRangeDuration = ws.liveRangeDuration /\ next.serviceFilter = ws.serviceFilter
      /\ next.selectedTraceId = None => next.selectedSpanId = None
      /\ \/ next.logCorrelation = None
         \/ next.logCorrelation = ws.logCorrelation /\ next.signal = ws.signal
  BY DEF WorkspaceInv, WorkspaceFields, Signals, RefreshPauseToggled
<1>2. WorkspaceInv(next)
  <2> HIDE DEF next
  <2> QED
    BY <1>1, SelectionStep
<1> QED
  BY <1>2

\* A span is collapsed or expanded.
LEMMA CollapseStep ==
  ASSUME NEW ws, WorkspaceInv(ws), NEW s
  PROVE  WorkspaceInv(SpanCollapseToggled(ws, s))
<1> DEFINE next == SpanCollapseToggled(ws, s)
<1>1. /\ DOMAIN next = WorkspaceFields /\ next.signal \in Signals /\ next.refreshPaused \in BOOLEAN
      /\ next.traceQuery = ws.traceQuery /\ next.logQuery = ws.logQuery
      /\ next.liveRangeDuration = ws.liveRangeDuration /\ next.serviceFilter = ws.serviceFilter
      /\ next.selectedTraceId = None => next.selectedSpanId = None
      /\ \/ next.logCorrelation = None
         \/ next.logCorrelation = ws.logCorrelation /\ next.signal = ws.signal
  BY DEF WorkspaceInv, WorkspaceFields, Signals, SpanCollapseToggled
<1>2. WorkspaceInv(next)
  <2> HIDE DEF next
  <2> QED
    BY <1>1, SelectionStep
<1> QED
  BY <1>2

\* The detail of a trace has come.
LEMMA DetailStep ==
  ASSUME NEW ws, WorkspaceInv(ws), NEW t, NEW spans
  PROVE  WorkspaceInv(TraceDetailLoaded(ws, t, spans))
<1> DEFINE next == TraceDetailLoaded(ws, t, spans)
<1>1. /\ DOMAIN next = WorkspaceFields /\ next.signal \in Signals /\ next.refreshPaused \in BOOLEAN
      /\ next.traceQuery = ws.traceQuery /\ next.logQuery = ws.logQuery
      /\ next.liveRangeDuration = ws.liveRangeDuration /\ next.serviceFilter = ws.serviceFilter
      /\ next.selectedTraceId = None => next.selectedSpanId = None
      /\ \/ next.logCorrelation = None
         \/ next.logCorrelation = ws.logCorrelation /\ next.signal = ws.signal
  BY DEF WorkspaceInv, WorkspaceFields, Signals, TraceDetailLoaded
<1>2. WorkspaceInv(next)
  <2> HIDE DEF next
  <2> QED
    BY <1>1, SelectionStep
<1> QED
  BY <1>2

\* A list has come.
LEMMA RefreshedStep ==
  ASSUME NEW ws, WorkspaceInv(ws), NEW s, NEW ids, NEW b
  PROVE  WorkspaceInv(ResultsRefreshed(ws, s, ids, b))
<1> DEFINE next == ResultsRefreshed(ws, s, ids, b)
<1>1. /\ DOMAIN next = WorkspaceFields /\ next.signal \in Signals /\ next.refreshPaused \in BOOLEAN
      /\ next.traceQuery = ws.traceQuery /\ next.logQuery = ws.logQuery
      /\ next.liveRangeDuration = ws.liveRangeDuration /\ next.serviceFilter = ws.serviceFilter
      /\ next.selectedTraceId = None => next.selectedSpanId = None
      /\ \/ next.logCorrelation = None
         \/ next.logCorrelation = ws.logCorrelation /\ next.signal = ws.signal
  BY DEF WorkspaceInv, WorkspaceFields, Signals, ResultsRefreshed, LogClosed
<1>2. WorkspaceInv(next)
  <2> HIDE DEF next
  <2> QED
    BY <1>1, SelectionStep
<1> QED
  BY <1>2

\* What a transition does that keeps the range.
LEMMA QueryStep ==
  ASSUME NEW ws, WorkspaceInv(ws), NEW next,
         DOMAIN next = WorkspaceFields, next.signal \in Signals, next.refreshPaused = ws.refreshPaused,
         QueryInv(next.traceQuery, TraceQueryFields, TraceSorts),
         QueryInv(next.logQuery, LogQueryFields, LogSorts),
         next.traceQuery.from = ws.traceQuery.from, next.traceQuery.to = ws.traceQuery.to,
         next.logQuery.from = ws.logQuery.from, next.logQuery.to = ws.logQuery.to,
         next.liveRangeDuration = ws.liveRangeDuration,
         next.serviceFilter \in {ws.serviceFilter, <<>>} \cup Services,
         next.selectedTraceId = None => next.selectedSpanId = None,
         \/ next.logCorrelation = None
         \/ /\ next.signal = "logs" /\ next.logQuery.traceId # None
            /\ next.logCorrelation =
                 [traceId |-> next.logQuery.traceId, spanId |-> next.logQuery.spanId]
         \/ /\ next.logCorrelation = ws.logCorrelation /\ next.signal = ws.signal
            /\ next.logQuery = ws.logQuery
  PROVE  WorkspaceInv(next)
<1>1. IsShort(next.serviceFilter, Len(next.serviceFilter))
  <2>1. Len(<<>>) = 0 /\ IsShort(<<>>, 0)
    BY EmptyIsShort
  <2>2. \A s \in Services : IsShort(s, Len(s))
    BY WorkbenchAssumption
  <2>3. IsShort(ws.serviceFilter, Len(ws.serviceFilter))
    BY DEF WorkspaceInv
  <2> QED
    BY <2>1, <2>2, <2>3
<1> QED
  BY <1>1 DEF WorkspaceInv

\* Other Services.
LEMMA ServicesStep ==
  ASSUME NEW ws, WorkspaceInv(ws), NEW s \in Services
  PROVE  WorkspaceInv(ServiceFilterChanged(ws, s))
<1> DEFINE next == ServiceFilterChanged(ws, s)
<1>1. /\ QueryInv(ws.traceQuery, TraceQueryFields, TraceSorts)
      /\ QueryInv(ws.logQuery, LogQueryFields, LogSorts)
  BY DEF WorkspaceInv
<1>2. /\ QueryInv([ws.traceQuery EXCEPT !.services = s], TraceQueryFields, TraceSorts)
      /\ QueryInv([ws.logQuery EXCEPT !.services = s], LogQueryFields, LogSorts)
  BY <1>1 DEF QueryInv, TraceQueryFields, LogQueryFields
<1>3. /\ next.traceQuery = [ws.traceQuery EXCEPT !.services = s]
      /\ next.logQuery = [ws.logQuery EXCEPT !.services = s]
  BY DEF WorkspaceInv, WorkspaceFields, ServiceFilterChanged
<1>4. /\ DOMAIN next = WorkspaceFields /\ next.signal \in Signals
      /\ next.refreshPaused = ws.refreshPaused
      /\ next.liveRangeDuration = ws.liveRangeDuration
      /\ next.serviceFilter \in {ws.serviceFilter, <<>>} \cup Services
      /\ next.selectedTraceId = None => next.selectedSpanId = None
  BY DEF WorkspaceInv, WorkspaceFields, Signals, ServiceFilterChanged, LogQueryFields
<1>5. /\ QueryInv(next.traceQuery, TraceQueryFields, TraceSorts)
      /\ next.traceQuery.from = ws.traceQuery.from /\ next.traceQuery.to = ws.traceQuery.to
  BY <1>1, <1>2, <1>3 DEF QueryInv, TraceQueryFields, LogQueryFields
<1>6. /\ QueryInv(next.logQuery, LogQueryFields, LogSorts)
      /\ next.logQuery.from = ws.logQuery.from /\ next.logQuery.to = ws.logQuery.to
  BY <1>1, <1>2, <1>3 DEF QueryInv, TraceQueryFields, LogQueryFields
<1>7. \/ next.logCorrelation = None
      \/ /\ next.signal = "logs" /\ next.logQuery.traceId # None
         /\ next.logCorrelation =
              [traceId |-> next.logQuery.traceId, spanId |-> next.logQuery.spanId]
      \/ /\ next.logCorrelation = ws.logCorrelation /\ next.signal = ws.signal
         /\ next.logQuery = ws.logQuery
  BY <1>1, <1>2, <1>3
  DEF WorkspaceInv, WorkspaceFields, ServiceFilterChanged, QueryInv, LogQueryFields
<1>8. WorkspaceInv(next)
  <2> HIDE DEF next
  <2> QED
    BY <1>4, <1>5, <1>6, <1>7, QueryStep
<1> QED
  BY <1>8

\* No filters.
LEMMA ClearStep ==
  ASSUME NEW ws, WorkspaceInv(ws)
  PROVE  WorkspaceInv(FiltersCleared(ws))
<1> DEFINE next == FiltersCleared(ws)
<1>1. /\ QueryInv(ws.traceQuery, TraceQueryFields, TraceSorts)
      /\ QueryInv(ws.logQuery, LogQueryFields, LogSorts)
  BY DEF WorkspaceInv
<1>2. /\ QueryInv(WithoutFilters(ws.traceQuery), TraceQueryFields, TraceSorts)
      /\ QueryInv(WithoutFilters(ws.logQuery), LogQueryFields, LogSorts)
      /\ WithoutFilters(ws.traceQuery).from = ws.traceQuery.from
      /\ WithoutFilters(ws.traceQuery).to = ws.traceQuery.to
      /\ WithoutFilters(ws.logQuery).from = ws.logQuery.from
      /\ WithoutFilters(ws.logQuery).to = ws.logQuery.to
  BY <1>1, WithoutFiltersSound
<1>3. /\ next.traceQuery = WithoutFilters(ws.traceQuery)
      /\ next.logQuery = [WithoutFilters(ws.logQuery) EXCEPT !.spanId = None]
  BY DEF WorkspaceInv, WorkspaceFields, FiltersCleared
<1>4. /\ DOMAIN next = WorkspaceFields /\ next.signal \in Signals
      /\ next.refreshPaused = ws.refreshPaused
      /\ next.liveRangeDuration = ws.liveRangeDuration
      /\ next.serviceFilter \in {ws.serviceFilter, <<>>} \cup Services
      /\ next.selectedTraceId = None => next.selectedSpanId = None
  BY DEF WorkspaceInv, WorkspaceFields, Signals, FiltersCleared
<1>5. /\ QueryInv(next.traceQuery, TraceQueryFields, TraceSorts)
      /\ next.traceQuery.from = ws.traceQuery.from /\ next.traceQuery.to = ws.traceQuery.to
  BY <1>1, <1>2, <1>3 DEF QueryInv, TraceQueryFields, LogQueryFields
<1>6. /\ QueryInv(next.logQuery, LogQueryFields, LogSorts)
      /\ next.logQuery.from = ws.logQuery.from /\ next.logQuery.to = ws.logQuery.to
  BY <1>1, <1>2, <1>3 DEF QueryInv, TraceQueryFields, LogQueryFields
<1>7. \/ next.logCorrelation = None
      \/ /\ next.signal = "logs" /\ next.logQuery.traceId # None
         /\ next.logCorrelation =
              [traceId |-> next.logQuery.traceId, spanId |-> next.logQuery.spanId]
      \/ /\ next.logCorrelation = ws.logCorrelation /\ next.signal = ws.signal
         /\ next.logQuery = ws.logQuery
  BY <1>1, <1>2, <1>3
  DEF WorkspaceInv, WorkspaceFields, FiltersCleared, QueryInv, LogQueryFields
<1>8. WorkspaceInv(next)
  <2> HIDE DEF next
  <2> QED
    BY <1>4, <1>5, <1>6, <1>7, QueryStep
<1> QED
  BY <1>8

\* The toolbar changes the trace query.
LEMMA TraceChangeStep ==
  ASSUME NEW ws, WorkspaceInv(ws), NEW c \in TraceChanges,
         ws.signal = "traces"
  PROVE  WorkspaceInv(TraceQueryChanged(ws, c))
<1> DEFINE next == TraceQueryChanged(ws, c)
<1>1. /\ QueryInv(ws.traceQuery, TraceQueryFields, TraceSorts)
      /\ QueryInv(ws.logQuery, LogQueryFields, LogSorts)
  BY DEF WorkspaceInv
<1>2. IsChange(c, TraceQueryFields \ {"from", "to", "services"}, TraceSorts)
  BY WorkbenchAssumption DEF IsChange, TraceQueryFields
<1>3. /\ QueryInv(Merge(ws.traceQuery, c), TraceQueryFields, TraceSorts)
      /\ Merge(ws.traceQuery, c).from = ws.traceQuery.from
      /\ Merge(ws.traceQuery, c).to = ws.traceQuery.to
  BY <1>1, <1>2, MergeSound
<1>4. next.traceQuery = Merge(ws.traceQuery, c) /\ next.logQuery = ws.logQuery
  BY DEF WorkspaceInv, WorkspaceFields, TraceQueryChanged
<1>5. /\ DOMAIN next = WorkspaceFields /\ next.signal \in Signals
      /\ next.refreshPaused = ws.refreshPaused
      /\ next.liveRangeDuration = ws.liveRangeDuration
      /\ next.serviceFilter \in {ws.serviceFilter, <<>>} \cup Services
      /\ next.selectedTraceId = None => next.selectedSpanId = None
  BY DEF WorkspaceInv, WorkspaceFields, Signals, TraceQueryChanged
<1>6. /\ QueryInv(next.traceQuery, TraceQueryFields, TraceSorts)
      /\ next.traceQuery.from = ws.traceQuery.from /\ next.traceQuery.to = ws.traceQuery.to
  BY <1>1, <1>2, <1>3, <1>4 DEF QueryInv, TraceQueryFields, LogQueryFields
<1>7. /\ QueryInv(next.logQuery, LogQueryFields, LogSorts)
      /\ next.logQuery.from = ws.logQuery.from /\ next.logQuery.to = ws.logQuery.to
  BY <1>1, <1>2, <1>3, <1>4 DEF QueryInv, TraceQueryFields, LogQueryFields
<1>8. \/ next.logCorrelation = None
      \/ /\ next.signal = "logs" /\ next.logQuery.traceId # None
         /\ next.logCorrelation =
              [traceId |-> next.logQuery.traceId, spanId |-> next.logQuery.spanId]
      \/ /\ next.logCorrelation = ws.logCorrelation /\ next.signal = ws.signal
         /\ next.logQuery = ws.logQuery
  BY <1>1, <1>2, <1>3, <1>4
  DEF WorkspaceInv, WorkspaceFields, TraceQueryChanged
<1>9. WorkspaceInv(next)
  <2> HIDE DEF next
  <2> QED
    BY <1>5, <1>6, <1>7, <1>8, QueryStep
<1> QED
  BY <1>9

\* The toolbar changes the log query.
LEMMA LogChangeStep ==
  ASSUME NEW ws, WorkspaceInv(ws), NEW c \in LogChanges
  PROVE  WorkspaceInv(LogQueryChanged(ws, c))
<1> DEFINE next == LogQueryChanged(ws, c)
<1>1. /\ QueryInv(ws.traceQuery, TraceQueryFields, TraceSorts)
      /\ QueryInv(ws.logQuery, LogQueryFields, LogSorts)
  BY DEF WorkspaceInv
<1>2. IsChange(c, LogQueryFields \ {"from", "to", "services"}, LogSorts)
  BY WorkbenchAssumption DEF IsChange, TraceQueryFields, LogQueryFields
<1>3. /\ QueryInv(Merge(ws.logQuery, c), LogQueryFields, LogSorts)
      /\ Merge(ws.logQuery, c).from = ws.logQuery.from
      /\ Merge(ws.logQuery, c).to = ws.logQuery.to
  BY <1>1, <1>2, MergeSound
<1>4. next.logQuery = Merge(ws.logQuery, c) /\ next.traceQuery = ws.traceQuery
  BY DEF WorkspaceInv, WorkspaceFields, LogQueryChanged
<1>5. /\ DOMAIN next = WorkspaceFields /\ next.signal \in Signals
      /\ next.refreshPaused = ws.refreshPaused
      /\ next.liveRangeDuration = ws.liveRangeDuration
      /\ next.serviceFilter \in {ws.serviceFilter, <<>>} \cup Services
      /\ next.selectedTraceId = None => next.selectedSpanId = None
  BY DEF WorkspaceInv, WorkspaceFields, Signals, LogQueryChanged
<1>6. /\ QueryInv(next.traceQuery, TraceQueryFields, TraceSorts)
      /\ next.traceQuery.from = ws.traceQuery.from /\ next.traceQuery.to = ws.traceQuery.to
  BY <1>1, <1>2, <1>3, <1>4 DEF QueryInv, TraceQueryFields, LogQueryFields
<1>7. /\ QueryInv(next.logQuery, LogQueryFields, LogSorts)
      /\ next.logQuery.from = ws.logQuery.from /\ next.logQuery.to = ws.logQuery.to
  BY <1>1, <1>2, <1>3, <1>4 DEF QueryInv, TraceQueryFields, LogQueryFields
<1>8. \/ next.logCorrelation = None
      \/ /\ next.signal = "logs" /\ next.logQuery.traceId # None
         /\ next.logCorrelation =
              [traceId |-> next.logQuery.traceId, spanId |-> next.logQuery.spanId]
      \/ /\ next.logCorrelation = ws.logCorrelation /\ next.signal = ws.signal
         /\ next.logQuery = ws.logQuery
  BY <1>1, <1>2, <1>3, <1>4
  DEF WorkspaceInv, WorkspaceFields, LogQueryChanged
<1>9. WorkspaceInv(next)
  <2> HIDE DEF next
  <2> QED
    BY <1>5, <1>6, <1>7, <1>8, QueryStep
<1> QED
  BY <1>9

\* The trace of a log.
LEMMA OpenTraceStep ==
  ASSUME NEW ws, WorkspaceInv(ws), NEW log
  PROVE  WorkspaceInv(CorrelatedTraceOpened(ws, log))
<1> DEFINE next == CorrelatedTraceOpened(ws, log)
<1>1. /\ QueryInv(ws.traceQuery, TraceQueryFields, TraceSorts)
      /\ QueryInv(ws.logQuery, LogQueryFields, LogSorts)
  BY DEF WorkspaceInv
<1>2. QueryInv([ws.traceQuery EXCEPT !.services = <<>>], TraceQueryFields, TraceSorts)
  BY <1>1 DEF QueryInv, TraceQueryFields, LogQueryFields
<1>3. /\ next.traceQuery \in {ws.traceQuery, [ws.traceQuery EXCEPT !.services = <<>>]}
      /\ next.logQuery = ws.logQuery
  BY DEF WorkspaceInv, WorkspaceFields, CorrelatedTraceOpened, WithHistory, LogClosed
<1>4. /\ DOMAIN next = WorkspaceFields /\ next.signal \in Signals
      /\ next.refreshPaused = ws.refreshPaused
      /\ next.liveRangeDuration = ws.liveRangeDuration
      /\ next.serviceFilter \in {ws.serviceFilter, <<>>} \cup Services
      /\ next.selectedTraceId = None => next.selectedSpanId = None
  BY DEF WorkspaceInv, WorkspaceFields, Signals, CorrelatedTraceOpened, WithHistory, LogClosed, TraceQueryFields
<1>5. /\ QueryInv(next.traceQuery, TraceQueryFields, TraceSorts)
      /\ next.traceQuery.from = ws.traceQuery.from /\ next.traceQuery.to = ws.traceQuery.to
  BY <1>1, <1>2, <1>3 DEF QueryInv, TraceQueryFields, LogQueryFields
<1>6. /\ QueryInv(next.logQuery, LogQueryFields, LogSorts)
      /\ next.logQuery.from = ws.logQuery.from /\ next.logQuery.to = ws.logQuery.to
  BY <1>1, <1>2, <1>3 DEF QueryInv, TraceQueryFields, LogQueryFields
<1>7. \/ next.logCorrelation = None
      \/ /\ next.signal = "logs" /\ next.logQuery.traceId # None
         /\ next.logCorrelation =
              [traceId |-> next.logQuery.traceId, spanId |-> next.logQuery.spanId]
      \/ /\ next.logCorrelation = ws.logCorrelation /\ next.signal = ws.signal
         /\ next.logQuery = ws.logQuery
  BY <1>1, <1>2, <1>3
  DEF WorkspaceInv, WorkspaceFields, CorrelatedTraceOpened, WithHistory, LogClosed, QueryInv
<1>8. WorkspaceInv(next)
  <2> HIDE DEF next
  <2> QED
    BY <1>4, <1>5, <1>6, <1>7, QueryStep
<1> QED
  BY <1>8

\* The logs of the selected trace or of one of its spans.
LEMMA CorrelatedLogsStep ==
  ASSUME NEW ws, WorkspaceInv(ws), NEW s,
         ws.selectedTraceId # None
  PROVE  WorkspaceInv(CorrelatedLogsOpened(ws, s))
<1> DEFINE next == CorrelatedLogsOpened(ws, s)
<1>1. /\ QueryInv(ws.traceQuery, TraceQueryFields, TraceSorts)
      /\ QueryInv(ws.logQuery, LogQueryFields, LogSorts)
  BY DEF WorkspaceInv
<1> DEFINE query == WithoutFilters(ws.logQuery)
<1>2. /\ QueryInv(query, LogQueryFields, LogSorts)
      /\ query.from = ws.logQuery.from /\ query.to = ws.logQuery.to
  BY <1>1, WithoutFiltersSound
<1>3. /\ next.logQuery =
           [query EXCEPT !.traceId = ws.selectedTraceId, !.spanId = s, !.sort = "oldest"]
      /\ next.traceQuery = ws.traceQuery
  BY DEF WorkspaceInv, WorkspaceFields, CorrelatedLogsOpened, WithHistory, LogClosed
<1>4. /\ DOMAIN next = WorkspaceFields /\ next.signal \in Signals
      /\ next.refreshPaused = ws.refreshPaused
      /\ next.liveRangeDuration = ws.liveRangeDuration
      /\ next.serviceFilter \in {ws.serviceFilter, <<>>} \cup Services
      /\ next.selectedTraceId = None => next.selectedSpanId = None
  BY DEF WorkspaceInv, WorkspaceFields, Signals, CorrelatedLogsOpened, WithHistory, LogClosed, TraceQueryFields
<1>5. /\ QueryInv(next.traceQuery, TraceQueryFields, TraceSorts)
      /\ next.traceQuery.from = ws.traceQuery.from /\ next.traceQuery.to = ws.traceQuery.to
  BY <1>1, <1>2, <1>3 DEF QueryInv, TraceQueryFields, LogQueryFields
<1>6. /\ QueryInv(next.logQuery, LogQueryFields, LogSorts)
      /\ next.logQuery.from = ws.logQuery.from /\ next.logQuery.to = ws.logQuery.to
  BY <1>1, <1>2, <1>3 DEF QueryInv, TraceQueryFields, LogQueryFields, LogSorts
<1>7. \/ next.logCorrelation = None
      \/ /\ next.signal = "logs" /\ next.logQuery.traceId # None
         /\ next.logCorrelation =
              [traceId |-> next.logQuery.traceId, spanId |-> next.logQuery.spanId]
      \/ /\ next.logCorrelation = ws.logCorrelation /\ next.signal = ws.signal
         /\ next.logQuery = ws.logQuery
  BY <1>1, <1>2, <1>3
  DEF WorkspaceInv, WorkspaceFields, CorrelatedLogsOpened, WithHistory, LogClosed, QueryInv, TraceQueryFields,
      LogQueryFields
<1>8. WorkspaceInv(next)
  <2> HIDE DEF next
  <2> QED
    BY <1>4, <1>5, <1>6, <1>7, QueryStep
<1> QED
  BY <1>8

\* A filter for the attribute of a record.
LEMMA PromoteStep ==
  ASSUME NEW ws, WorkspaceInv(ws), NEW s \in Signals, NEW k, NEW v,
         s = "traces" => ws.signal = "traces"
  PROVE  WorkspaceInv(AttributeFilterPromoted(ws, s, k, v))
<1> DEFINE next == AttributeFilterPromoted(ws, s, k, v)
<1>1. /\ QueryInv(ws.traceQuery, TraceQueryFields, TraceSorts)
      /\ QueryInv(ws.logQuery, LogQueryFields, LogSorts)
  BY DEF WorkspaceInv
<1>2. /\ QueryInv([ws.traceQuery EXCEPT !.attributes = Promoted(@, k, v)],
                  TraceQueryFields, TraceSorts)
      /\ QueryInv([ws.logQuery EXCEPT !.attributes = Promoted(@, k, v)], LogQueryFields, LogSorts)
  <2>1. /\ IsShort(Promoted(ws.traceQuery.attributes, k, v), MaxAttributeFilters)
        /\ IsShort(Promoted(ws.logQuery.attributes, k, v), MaxAttributeFilters)
    BY <1>1, PromotedShort DEF QueryInv
  <2> QED
    BY <1>1, <2>1 DEF QueryInv, TraceQueryFields, LogQueryFields
<1>3. IF s = "traces"
      THEN /\ next.traceQuery = [ws.traceQuery EXCEPT !.attributes = Promoted(@, k, v)]
           /\ next.logQuery = ws.logQuery
           /\ next.signal = ws.signal /\ next.logCorrelation = ws.logCorrelation
      ELSE /\ next.logQuery = [ws.logQuery EXCEPT !.attributes = Promoted(@, k, v)]
           /\ next.traceQuery = ws.traceQuery /\ next.logCorrelation = None
  BY DEF WorkspaceInv, WorkspaceFields, AttributeFilterPromoted, WithHistory
<1>4. /\ DOMAIN next = WorkspaceFields /\ next.signal \in Signals
      /\ next.refreshPaused = ws.refreshPaused
      /\ next.liveRangeDuration = ws.liveRangeDuration
      /\ next.serviceFilter \in {ws.serviceFilter, <<>>} \cup Services
      /\ next.selectedTraceId = None => next.selectedSpanId = None
  BY DEF WorkspaceInv, WorkspaceFields, Signals, AttributeFilterPromoted, WithHistory, TraceQueryFields
<1>5. /\ QueryInv(next.traceQuery, TraceQueryFields, TraceSorts)
      /\ next.traceQuery.from = ws.traceQuery.from /\ next.traceQuery.to = ws.traceQuery.to
  BY <1>1, <1>2, <1>3 DEF QueryInv, TraceQueryFields, LogQueryFields
<1>6. /\ QueryInv(next.logQuery, LogQueryFields, LogSorts)
      /\ next.logQuery.from = ws.logQuery.from /\ next.logQuery.to = ws.logQuery.to
  BY <1>1, <1>2, <1>3 DEF QueryInv, TraceQueryFields, LogQueryFields
<1>7. \/ next.logCorrelation = None
      \/ /\ next.signal = "logs" /\ next.logQuery.traceId # None
         /\ next.logCorrelation =
              [traceId |-> next.logQuery.traceId, spanId |-> next.logQuery.spanId]
      \/ /\ next.logCorrelation = ws.logCorrelation /\ next.signal = ws.signal
         /\ next.logQuery = ws.logQuery
  BY <1>1, <1>2, <1>3
  DEF WorkspaceInv, WorkspaceFields, AttributeFilterPromoted, WithHistory, QueryInv, LogQueryFields
<1>8. WorkspaceInv(next)
  <2> HIDE DEF next
  <2> QED
    BY <1>4, <1>5, <1>6, <1>7, QueryStep
<1> QED
  BY <1>8

\* A range of the menu, which ends now.
LEMMA RangeStep ==
  ASSUME NEW ws, WorkspaceInv(ws), NEW now \in Nat, NEW d \in Durations, MaxLookback <= now
  PROVE  WorkspaceInv(LiveRangeChanged(ws, now, d))
<1> DEFINE next == LiveRangeChanged(ws, now, d)
<1>1. d \in 1..MaxLookback /\ now - d \in Nat
  BY WorkbenchAssumption, WorkspaceAssumption
<1>2. /\ DOMAIN next = WorkspaceFields /\ next.signal = ws.signal
      /\ next.refreshPaused = ws.refreshPaused
      /\ next.liveRangeDuration = d /\ next.serviceFilter = ws.serviceFilter
      /\ next.selectedTraceId = ws.selectedTraceId /\ next.selectedSpanId = ws.selectedSpanId
      /\ next.logCorrelation = None
  BY <1>1, WorkspaceAssumption DEF WorkspaceInv, WorkspaceFields, LiveRangeChanged, WithRange
<1>3. /\ next.traceQuery = [ws.traceQuery EXCEPT !.from = now - d, !.to = now]
      /\ next.logQuery = [ws.logQuery EXCEPT !.from = now - d, !.to = now]
  BY <1>1, WorkspaceAssumption DEF WorkspaceInv, WorkspaceFields, LiveRangeChanged, WithRange
<1>4. /\ QueryInv(next.traceQuery, TraceQueryFields, TraceSorts)
      /\ QueryInv(next.logQuery, LogQueryFields, LogSorts)
      /\ next.traceQuery.from = now - d /\ next.traceQuery.to = now
      /\ next.logQuery.from = now - d /\ next.logQuery.to = now
  BY <1>1, <1>3 DEF WorkspaceInv, QueryInv, TraceQueryFields, LogQueryFields
<1>5. d = now - (now - d)
  BY <1>1
<1>6. WorkspaceInv(next)
  <2> HIDE DEF next
  <2>1. next.traceQuery.to - next.traceQuery.from \in 0..MaxLookback
    BY <1>1, <1>4, <1>5
  <2> QED
    BY <1>1, <1>2, <1>4, <2>1 DEF WorkspaceInv
<1> QED
  BY <1>6

\* The live range moves to the present, and the rest of the workspace stays as
\* it is.
LEMMA AdvanceStep ==
  ASSUME NEW ws, WorkspaceInv(ws), NEW now \in Nat, MaxLookback <= now
  PROVE  /\ WorkspaceInv(AdvanceTimeRange(ws, now))
         /\ AdvanceTimeRange(ws, now).signal = ws.signal
         /\ AdvanceTimeRange(ws, now).selectedTraceId = ws.selectedTraceId
         /\ AdvanceTimeRange(ws, now).selectedLogId = ws.selectedLogId
<1> DEFINE next == AdvanceTimeRange(ws, now)
           d == ws.liveRangeDuration
<1>1. d \in 1..MaxLookback /\ now - d \in Nat /\ d # None
  BY WorkspaceAssumption DEF WorkspaceInv
<1>2. CASE ws.refreshPaused
  <2>1. next = ws
    BY <1>2 DEF AdvanceTimeRange
  <2> QED
    BY <2>1
<1>3. CASE ~ws.refreshPaused
  <2>1. next = WithRange(ws, now - d, now)
    BY <1>1, <1>3 DEF AdvanceTimeRange
  <2>2. /\ DOMAIN next = WorkspaceFields /\ next.signal = ws.signal
        /\ next.refreshPaused = ws.refreshPaused
        /\ next.liveRangeDuration = d /\ next.serviceFilter = ws.serviceFilter
        /\ next.selectedTraceId = ws.selectedTraceId /\ next.selectedSpanId = ws.selectedSpanId
        /\ next.selectedLogId = ws.selectedLogId
        /\ next.logCorrelation = ws.logCorrelation
    BY <2>1 DEF WorkspaceInv, WorkspaceFields, WithRange
  <2>3. /\ next.traceQuery = [ws.traceQuery EXCEPT !.from = now - d, !.to = now]
        /\ next.logQuery = [ws.logQuery EXCEPT !.from = now - d, !.to = now]
    BY <2>1 DEF WorkspaceInv, WorkspaceFields, WithRange
  <2>4. /\ QueryInv(next.traceQuery, TraceQueryFields, TraceSorts)
        /\ QueryInv(next.logQuery, LogQueryFields, LogSorts)
        /\ next.traceQuery.from = now - d /\ next.traceQuery.to = now
        /\ next.logQuery.from = now - d /\ next.logQuery.to = now
        /\ next.logQuery.traceId = ws.logQuery.traceId /\ next.logQuery.spanId = ws.logQuery.spanId
    BY <1>1, <2>3, ZenonT(60) DEF WorkspaceInv, QueryInv, TraceQueryFields, LogQueryFields
  <2>5. d = now - (now - d)
    BY <1>1
  <2> HIDE DEF next
  <2>6. next.traceQuery.to - next.traceQuery.from \in 0..MaxLookback
    BY <1>1, <2>4, <2>5
  <2>7. WorkspaceInv(next)
    BY <1>1, <2>2, <2>4, <2>6 DEF WorkspaceInv
  <2> QED
    BY <2>2, <2>7 DEF next
<1> QED
  BY <1>2, <1>3 DEF WorkspaceInv

-----------------------------------------------------------------------------
(* The address.                                                             *)

\* The workspace that an address without parameters leads to.
LEMMA FallbackSound ==
  /\ WorkspaceInv(Fallback)
  /\ Fallback.traceQuery.from = StartTime - DefaultDuration
  /\ Fallback.traceQuery.to = StartTime
  /\ Fallback.liveRangeDuration = DefaultDuration
<1>1. StartTime - DefaultDuration \in Nat /\ StartTime \in Nat /\ DefaultDuration \in 1..MaxLookback
  BY WorkbenchAssumption, WorkspaceAssumption
<1>2. IsShort(<<>>, MaxAttributeFilters)
  BY EmptyIsShort, WorkspaceAssumption
<1>3. /\ QueryInv(InitialQuery(StartTime, DefaultDuration), TraceQueryFields, TraceSorts)
      /\ QueryInv(InitialLogQuery(StartTime, DefaultDuration), LogQueryFields, LogSorts)
  BY <1>1, <1>2 DEF QueryInv, InitialQuery, InitialLogQuery, TraceQueryFields, LogQueryFields,
                    TraceSorts, LogSorts
<1>4. /\ DOMAIN Fallback = WorkspaceFields
      /\ Fallback.traceQuery = InitialQuery(StartTime, DefaultDuration)
      /\ Fallback.logQuery = InitialLogQuery(StartTime, DefaultDuration)
      /\ Fallback.signal = "traces" /\ Fallback.refreshPaused = FALSE
      /\ Fallback.liveRangeDuration = DefaultDuration
      /\ Fallback.selectedTraceId = None /\ Fallback.selectedSpanId = None
      /\ Fallback.logCorrelation = None /\ Fallback.serviceFilter = <<>>
  BY DEF Fallback, InitialWorkspace, WorkspaceFields
<1>5. /\ InitialQuery(StartTime, DefaultDuration).from = StartTime - DefaultDuration
      /\ InitialQuery(StartTime, DefaultDuration).to = StartTime
      /\ InitialLogQuery(StartTime, DefaultDuration).from = StartTime - DefaultDuration
      /\ InitialLogQuery(StartTime, DefaultDuration).to = StartTime
  BY DEF InitialQuery, InitialLogQuery
<1>6. StartTime - (StartTime - DefaultDuration) \in 0..MaxLookback
  BY <1>1, WorkspaceAssumption
<1>7. IsShort(<<>>, 0) /\ Len(<<>>) = 0
  BY EmptyIsShort
<1> HIDE DEF Fallback
<1> QED
  BY <1>1, <1>3, <1>4, <1>5, <1>6, <1>7 DEF WorkspaceInv, Signals

\* What an address has to have to lead anywhere.
IsAddress(url) ==
  /\ url.signal \in Signals /\ url.paused \in BOOLEAN
  /\ url.from \in Int \cup {None} /\ url.to \in Int \cup {None}
  /\ IsShort(url.attributes, Len(url.attributes)) /\ IsShort(url.services, Len(url.services))

\* The range of an address is one that may be asked for, and so is the live one.
LEMMA UrlRangeSound ==
  ASSUME NEW url, IsAddress(url)
  PROVE  /\ UrlRange(url, Fallback).from \in Nat /\ UrlRange(url, Fallback).to \in Nat
         /\ UrlRange(url, Fallback).to - UrlRange(url, Fallback).from \in 0..MaxLookback
         /\ UrlLiveRange(url, Fallback) \in 1..MaxLookback
<1>1. StartTime - DefaultDuration \in Nat /\ StartTime \in Nat /\ DefaultDuration \in 1..MaxLookback
  BY WorkbenchAssumption, WorkspaceAssumption
<1>2. MaxLookback \in Nat
  BY WorkspaceAssumption
<1>3. /\ UrlRange(url, Fallback).from \in Nat /\ UrlRange(url, Fallback).to \in Nat
      /\ UrlRange(url, Fallback).to - UrlRange(url, Fallback).from \in 0..MaxLookback
  BY <1>1, <1>2, FallbackSound, WorkspaceAssumption DEF IsAddress, UrlRange
<1>4. UrlLiveRange(url, Fallback) \in 1..MaxLookback
  BY <1>1, <1>2, <1>3, FallbackSound DEF UrlLiveRange
<1> QED
  BY <1>3, <1>4

\* The queries that an address leads to.
LEMMA RestoredQueries ==
  ASSUME NEW url, IsAddress(url)
  PROVE  LET next == FromUrl(url, Fallback)
             range == UrlRange(url, Fallback)
             services == FirstOf(url.services, MaxServiceFilters)
             attributes == FirstOf(url.attributes, MaxAttributeFilters) IN
         /\ QueryInv(next.traceQuery, TraceQueryFields, TraceSorts)
         /\ QueryInv(next.logQuery, LogQueryFields, LogSorts)
         /\ \A query \in {next.traceQuery, next.logQuery} :
              /\ query.from = range.from /\ query.to = range.to
              /\ query.services = services /\ query.text = url.text
              /\ query.traceId = url.filterTrace /\ query.attributes = attributes
         /\ next.traceQuery.only = url.traceOnly /\ next.logQuery.only = url.logOnly
         /\ next.logQuery.spanId = url.filterSpan
         /\ next.traceQuery.sort = UrlSort(url, TraceSorts, Fallback.traceQuery.sort)
         /\ next.logQuery.sort = UrlSort(url, LogSorts, Fallback.logQuery.sort)
<1> DEFINE next == FromUrl(url, Fallback)
           range == UrlRange(url, Fallback)
           services == FirstOf(url.services, MaxServiceFilters)
           attributes == FirstOf(url.attributes, MaxAttributeFilters)
<1>1. range.from \in Nat /\ range.to \in Nat
  BY UrlRangeSound
<1>2. IsShort(attributes, MaxAttributeFilters)
  BY FirstOfShort, WorkspaceAssumption DEF IsAddress
<1>3. /\ DOMAIN Fallback = WorkspaceFields
      /\ QueryInv(Fallback.traceQuery, TraceQueryFields, TraceSorts)
      /\ QueryInv(Fallback.logQuery, LogQueryFields, LogSorts)
  BY FallbackSound DEF WorkspaceInv
<1> DEFINE ofTraces == Fallback.traceQuery
           ofLogs == Fallback.logQuery
<1> DEFINE ranged(query) ==
             [query EXCEPT !.from = range.from, !.to = range.to, !.services = services, !.text = url.text,
                           !.traceId = url.filterTrace, !.attributes = attributes]
<1>4. next.traceQuery =
        [ranged(ofTraces) EXCEPT !.only = url.traceOnly,
                                 !.sort = UrlSort(url, TraceSorts, ofTraces.sort)]
  BY <1>3 DEF FromUrl, WorkspaceFields
<1>5. next.logQuery =
        [ranged(ofLogs) EXCEPT !.only = url.logOnly, !.spanId = url.filterSpan,
                               !.sort = UrlSort(url, LogSorts, ofLogs.sort)]
  BY <1>3 DEF FromUrl, WorkspaceFields
<1> HIDE DEF next, range, services, attributes
<1>6. /\ UrlSort(url, TraceSorts, ofTraces.sort) \in TraceSorts
      /\ UrlSort(url, LogSorts, ofLogs.sort) \in LogSorts
  BY <1>3 DEF UrlSort, QueryInv
<1> HIDE DEF ofTraces, ofLogs
<1>7. /\ QueryInv(next.traceQuery, TraceQueryFields, TraceSorts)
      /\ next.traceQuery.from = range.from /\ next.traceQuery.to = range.to
      /\ next.traceQuery.services = services /\ next.traceQuery.text = url.text
      /\ next.traceQuery.traceId = url.filterTrace /\ next.traceQuery.attributes = attributes
      /\ next.traceQuery.only = url.traceOnly
      /\ next.traceQuery.sort = UrlSort(url, TraceSorts, ofTraces.sort)
  BY <1>1, <1>2, <1>3, <1>4, <1>6 DEF QueryInv, TraceQueryFields, ofTraces
<1>8. /\ QueryInv(next.logQuery, LogQueryFields, LogSorts)
      /\ next.logQuery.from = range.from /\ next.logQuery.to = range.to
      /\ next.logQuery.services = services /\ next.logQuery.text = url.text
      /\ next.logQuery.traceId = url.filterTrace /\ next.logQuery.attributes = attributes
      /\ next.logQuery.only = url.logOnly /\ next.logQuery.spanId = url.filterSpan
      /\ next.logQuery.sort = UrlSort(url, LogSorts, ofLogs.sort)
  BY <1>1, <1>2, <1>3, <1>5, <1>6, ZenonT(60) DEF QueryInv, TraceQueryFields, LogQueryFields, ofLogs
<1> QED
  BY <1>7, <1>8 DEF next, range, services, attributes, ofTraces, ofLogs

\* Every address leads to a well-formed workspace.
LEMMA FromUrlSound ==
  ASSUME NEW url, IsAddress(url)
  PROVE  LET next == FromUrl(url, Fallback) IN
         /\ WorkspaceInv(next)
         /\ next.signal = url.signal /\ next.refreshPaused = url.paused
         /\ next.liveRangeDuration = UrlLiveRange(url, Fallback)
         /\ next.serviceFilter = FirstOf(url.services, MaxServiceFilters)
         /\ next.selectedTraceId = url.trace /\ next.selectedLogId = url.log
         /\ next.selectedSpanId = IF url.trace = None THEN None ELSE url.span
         /\ next.logCorrelation = UrlCorrelation(url)
<1> DEFINE next == FromUrl(url, Fallback)
<1>1. /\ DOMAIN next = WorkspaceFields
      /\ next.signal = url.signal /\ next.refreshPaused = url.paused
      /\ next.liveRangeDuration = UrlLiveRange(url, Fallback)
      /\ next.serviceFilter = FirstOf(url.services, MaxServiceFilters)
      /\ next.selectedTraceId = url.trace /\ next.selectedLogId = url.log
      /\ next.selectedSpanId = IF url.trace = None THEN None ELSE url.span
      /\ next.logCorrelation = UrlCorrelation(url)
  BY FallbackSound DEF FromUrl, WorkspaceInv, WorkspaceFields
<1>2. /\ QueryInv(next.traceQuery, TraceQueryFields, TraceSorts)
      /\ QueryInv(next.logQuery, LogQueryFields, LogSorts)
      /\ next.traceQuery.from = next.logQuery.from /\ next.traceQuery.to = next.logQuery.to
      /\ next.traceQuery.to = UrlRange(url, Fallback).to
      /\ next.logQuery.traceId = url.filterTrace /\ next.logQuery.spanId = url.filterSpan
      /\ next.traceQuery.from = UrlRange(url, Fallback).from
  BY RestoredQueries
<1>3. /\ UrlRange(url, Fallback).to - UrlRange(url, Fallback).from \in 0..MaxLookback
      /\ UrlLiveRange(url, Fallback) \in 1..MaxLookback
  BY UrlRangeSound
<1> HIDE DEF next
<1>4. next.logCorrelation # None =>
        /\ next.signal = "logs" /\ next.logQuery.traceId # None
        /\ next.logCorrelation = [traceId |-> next.logQuery.traceId, spanId |-> next.logCorrelation.spanId]
        /\ next.logCorrelation.spanId \in {None, next.logQuery.spanId}
  BY <1>1, <1>2 DEF UrlCorrelation
<1>5. IsShort(next.serviceFilter, Len(next.serviceFilter))
  <2>1. IsShort(FirstOf(url.services, MaxServiceFilters), MaxServiceFilters)
    BY FirstOfShort, WorkspaceAssumption DEF IsAddress
  <2> QED
    BY <1>1, <2>1, ShortOfItself, WorkspaceAssumption
<1>6. WorkspaceInv(next)
  BY <1>1, <1>2, <1>3, <1>4, <1>5 DEF WorkspaceInv, IsAddress
<1> QED
  BY <1>1, <1>6 DEF next

-----------------------------------------------------------------------------
(* The steps the handlers are made of.                                      *)

\* What is committed is the next workspace but for its history, which neither
\* the address nor the queries depend on.
LEMMA CommitSound ==
  ASSUME NEW u, UiInv(u), NEW next, WorkspaceInv(next)
  PROVE  LET v == Commit(u, next)
             ws == [next EXCEPT !.history = <<>>] IN
         /\ UiInv(v)
         /\ v.ws = ws /\ ToUrl(ws) = ToUrl(next) /\ Revision(ws) = Revision(next)
         /\ \A f \in WorkspaceFields \ {"history"} : ws[f] = next[f]
         /\ \A f \in UiFields \ {"ws", "phase", "lists"} : v[f] = u[f]
         /\ next.signal = u.ws.signal => v.phase = u.phase /\ v.lists = u.lists
<1> DEFINE v == Commit(u, next)
           ws == [next EXCEPT !.history = <<>>]
<1>1. /\ DOMAIN ws = WorkspaceFields
      /\ \A f \in WorkspaceFields \ {"history"} : ws[f] = next[f]
  BY DEF WorkspaceInv
<1>2. WorkspaceInv(ws)
  <2> HIDE DEF ws
  <2> QED
    BY <1>1 DEF WorkspaceInv, WorkspaceFields
<1>3. ToUrl(ws) = ToUrl(next) /\ Revision(ws) = Revision(next)
  <2> HIDE DEF ws
  <2> QED
    BY <1>1 DEF ToUrl, QueryOf, Revision, WorkspaceFields
<1> HIDE DEF ws
<1>4. /\ v.ws = ws /\ DOMAIN v = UiFields /\ DOMAIN v.lists = Signals
      /\ \A f \in UiFields \ {"ws", "phase", "lists"} : v[f] = u[f]
      /\ next.signal = u.ws.signal => v.phase = u.phase /\ v.lists = u.lists
  BY DEF UiInv, UiFields, Commit, ws
<1>5. UiInv(v)
  <2>1. v.connected = u.connected /\ v.refreshes = u.refreshes /\ v.loads = u.loads
    BY <1>4 DEF UiFields
  <2> HIDE DEF v
  <2> QED
    BY <1>2, <1>4, <2>1 DEF UiInv
<1> QED
  BY <1>1, <1>3, <1>4, <1>5 DEF ws

\* A refresh is the only request under way, and is for what the workspace asks.
LEMMA RefreshSound ==
  ASSUME NEW u, UiInv(u)
  PROVE  LET v == Refresh(u) IN
         /\ UiInv(v)
         /\ \A f \in UiFields \ {"refreshes", "phase"} : v[f] = u[f]
         /\ ~u.connected => v = u
         /\ u.connected =>
              /\ \E r \in v.refreshes : r.current
              /\ \A r \in v.refreshes : r.current => r.revision = Revision(u.ws)
<1> DEFINE v == Refresh(u)
           new == [current |-> TRUE, revision |-> Revision(u.ws), signal |-> u.ws.signal, asked |-> AskedBy(u.ws)]
<1>1. CASE ~u.connected
  BY <1>1 DEF Refresh
<1>2. CASE u.connected
  <2>1. /\ DOMAIN v = UiFields
        /\ \A f \in UiFields \ {"refreshes", "phase"} : v[f] = u[f]
        /\ v.refreshes = Superseded(u.refreshes) \cup {new}
    BY <1>2 DEF Refresh, UiInv, UiFields
  <2>2. /\ DOMAIN new = {"current", "revision", "signal", "asked"} /\ new.current = TRUE
        /\ new.revision = Revision(u.ws) /\ new.signal = new.revision.signal
        /\ new.asked = AskedOf(new.revision)
    BY DEF Revision, AskedOf, AskedBy
  <2>3. \A r \in Superseded(u.refreshes) :
          /\ DOMAIN r = {"current", "revision", "signal", "asked"} /\ r.current = FALSE
          /\ r.signal = r.revision.signal /\ r.asked = AskedOf(r.revision)
    BY DEF Superseded, UiInv
  <2> HIDE DEF v, new
  <2>4. UiInv(v)
    BY <2>1, <2>2, <2>3 DEF UiInv, UiFields
  <2>5. /\ \E r \in v.refreshes : r.current
        /\ \A r \in v.refreshes : r.current => r.revision = Revision(u.ws)
    BY <2>1, <2>2, <2>3
  <2> QED
    BY <1>2, <2>1, <2>4, <2>5 DEF v
<1> QED
  BY <1>1, <1>2

\* Loading the detail of a trace leaves what is shown alone.
LEMMA LoadSound ==
  ASSUME NEW u, UiInv(u), NEW t, t # None
  PROVE  LET v == LoadTraceDetail(u, t) IN
         UiInv(v) /\ \A f \in UiFields \ {"loads"} : v[f] = u[f]
<1> DEFINE v == LoadTraceDetail(u, t)
           new == [current |-> TRUE, trace |-> t]
<1>1. CASE ~u.connected
  BY <1>1 DEF LoadTraceDetail
<1>2. CASE u.connected
  <2>1. /\ DOMAIN v = UiFields
        /\ \A f \in UiFields \ {"loads"} : v[f] = u[f]
        /\ v.loads = Superseded(u.loads) \cup {new}
    BY <1>2 DEF LoadTraceDetail, UiInv, UiFields
  <2>2. \A l \in Superseded(u.loads) :
          DOMAIN l = {"current", "trace"} /\ l.current \in BOOLEAN /\ l.trace # None
    BY ZenonT(60) DEF Superseded, UiInv
  <2>3. DOMAIN new = {"current", "trace"} /\ new.current = TRUE /\ new.trace = t
    OBVIOUS
  <2> HIDE DEF v, new
  <2>4. UiInv(v)
    BY <2>3, <2>1, <2>2 DEF UiInv, UiFields
  <2> QED
    BY <2>1, <2>4 DEF v
<1> QED
  BY <1>1, <1>2

\* The effect of the selected trace: its detail is shown or it is not fresh.
LEMMA TraceEffectSound ==
  ASSUME NEW u, UiInv(u)
  PROVE  LET v == TraceEffect(u)
             t == u.ws.selectedTraceId IN
         /\ UiInv(v)
         /\ \A f \in UiFields \ {"loads", "traceDetail", "fresh"} : v[f] = u[f]
         /\ v.traceDetail \in {None, t}
         /\ u.connected /\ t # None => ~v.fresh
<1> DEFINE v == TraceEffect(u)
           t == u.ws.selectedTraceId
<1>1. CASE t = None \/ ~u.connected
  <2>1. v = [u EXCEPT !.traceDetail = None]
    BY <1>1 DEF TraceEffect
  <2> QED
    BY <1>1, <2>1 DEF UiInv, UiFields
<1>2. CASE ~(t = None \/ ~u.connected)
  <2> DEFINE w == [u EXCEPT !.traceDetail = IF @ = t THEN @ ELSE None, !.fresh = FALSE]
  <2>1. v = LoadTraceDetail(w, t)
    BY <1>2 DEF TraceEffect
  <2>2. /\ UiInv(w) /\ w.traceDetail \in {None, t} /\ w.fresh = FALSE
        /\ \A f \in UiFields \ {"traceDetail", "fresh"} : w[f] = u[f]
    BY DEF UiInv, UiFields
  <2> HIDE DEF w, v
  <2>3. UiInv(v) /\ \A f \in UiFields \ {"loads"} : v[f] = w[f]
    BY <1>2, <2>1, <2>2, LoadSound
  <2> QED
    BY <2>2, <2>3 DEF v, UiFields
<1> QED
  BY <1>1, <1>2

\* The effect of the selected log.
LEMMA LogEffectSound ==
  ASSUME NEW u, UiInv(u)
  PROVE  LET v == LogEffect(u)
             log == u.ws.selectedLogId IN
         /\ UiInv(v)
         /\ \A f \in UiFields \ {"logDetail", "logLoad"} : v[f] = u[f]
         /\ v.logDetail \in {None, log} /\ v.logLoad \in {None, log}
BY DEF LogEffect, UiInv, UiFields

\* Rendering: the effects run for what the workspace is, and leave the details of
\* that; a request that is under way is for it, and the phase is true of it.
LEMMA EffectsSound ==
  ASSUME NEW u, UiInv(u)
  PROVE  LET v == RunEffectsOf(u) IN
         /\ UiInv(v)
         /\ v.ws = u.ws /\ v.connected = u.connected /\ v.lists = u.lists
         /\ v.rendered = Dependencies(u)
         /\ DetailsOf(u) /\ (u.rendered.connected => u.connected) => DetailsOf(v)
         /\ (\A r \in u.refreshes : r.current =>
               u.connected /\ r.revision \in {u.rendered.revision, Revision(u.ws)})
            => (\A r \in v.refreshes : r.current => v.connected /\ r.revision = v.rendered.revision)
         /\ u.connected /\ (Attended(u) \/ ~u.rendered.connected) => Attended(v)
<1> DEFINE v == RunEffectsOf(u)
           now == Dependencies(u)
           changed(field) == now.connected # u.rendered.connected \/ now[field] # u.rendered[field]
           refreshed == IF changed("revision") THEN Refresh(u) ELSE u
           traced == IF changed("trace") THEN TraceEffect(refreshed) ELSE refreshed
           logged == IF changed("log") THEN LogEffect(traced) ELSE traced
<1>1. v = [logged EXCEPT !.rendered = now]
  BY DEF RunEffectsOf
<1>2. /\ now.connected = u.connected /\ now.revision = Revision(u.ws)
      /\ now.trace = u.ws.selectedTraceId /\ now.log = u.ws.selectedLogId
  BY DEF Dependencies
<1>3. /\ UiInv(refreshed) /\ \A f \in UiFields \ {"refreshes", "phase"} : refreshed[f] = u[f]
      /\ ~changed("revision") => refreshed = u
      /\ ~u.connected => refreshed = u
      /\ changed("revision") /\ u.connected =>
           /\ \E r \in refreshed.refreshes : r.current
           /\ \A r \in refreshed.refreshes : r.current => r.revision = Revision(u.ws)
  BY RefreshSound
<1> HIDE DEF refreshed
<1>4. /\ UiInv(traced)
      /\ \A f \in UiFields \ {"loads", "traceDetail", "fresh"} : traced[f] = refreshed[f]
      /\ ~changed("trace") => traced = refreshed
      /\ changed("trace") => /\ traced.traceDetail \in {None, refreshed.ws.selectedTraceId}
                             /\ refreshed.connected /\ refreshed.ws.selectedTraceId # None => ~traced.fresh
  BY <1>3, TraceEffectSound
<1> HIDE DEF traced
<1>5. /\ UiInv(logged)
      /\ \A f \in UiFields \ {"logDetail", "logLoad"} : logged[f] = traced[f]
      /\ ~changed("log") => logged = traced
      /\ changed("log") => /\ logged.logDetail \in {None, traced.ws.selectedLogId}
                           /\ logged.logLoad \in {None, traced.ws.selectedLogId}
  BY <1>4, LogEffectSound
<1> HIDE DEF logged
<1>6. DOMAIN v = UiFields /\ v.rendered = now /\ \A f \in UiFields \ {"rendered"} : v[f] = logged[f]
  BY <1>1, <1>5 DEF UiInv, UiFields
<1>7. /\ v.ws = u.ws /\ v.connected = u.connected /\ v.lists = u.lists
      /\ v.refreshes = refreshed.refreshes /\ v.phase = refreshed.phase
      /\ v.traceDetail = traced.traceDetail /\ v.fresh = traced.fresh
      /\ v.logDetail = logged.logDetail /\ v.logLoad = logged.logLoad
  BY <1>3, <1>4, <1>5, <1>6 DEF UiFields
<1>8. UiInv(v)
  <2>1. v.loads = logged.loads /\ v.refreshes = logged.refreshes
        /\ v.ws = logged.ws /\ v.lists = logged.lists /\ v.connected = logged.connected
    BY <1>6 DEF UiFields
  <2> HIDE DEF v
  <2> QED
    BY <1>5, <1>6, <2>1 DEF UiInv
<1>9. ASSUME DetailsOf(u), u.rendered.connected => u.connected
      PROVE  DetailsOf(v)
  <2>1. /\ refreshed.traceDetail = u.traceDetail /\ refreshed.fresh = u.fresh
        /\ traced.logDetail = u.logDetail /\ traced.logLoad = u.logLoad
        /\ refreshed.ws = u.ws /\ refreshed.connected = u.connected /\ traced.ws = u.ws
    BY <1>3, <1>4 DEF UiFields
  <2> HIDE DEF v, now
  <2>2. ASSUME u.connected
        PROVE  v.traceDetail \in {None, now.trace} /\ (now.trace # None /\ v.traceDetail = None => ~v.fresh)
    BY <1>2, <1>4, <1>7, <1>9, <2>1, <2>2, ZenonT(60) DEF DetailsOf
  <2>3. ASSUME u.connected
        PROVE  v.logDetail \in {None, now.log} /\ v.logLoad \in {None, now.log}
    BY <1>2, <1>5, <1>7, <1>9, <2>1, <2>3, ZenonT(60) DEF DetailsOf
  <2> QED
    BY <1>2, <1>6, <2>2, <2>3 DEF DetailsOf
<1>10. ASSUME \A r \in u.refreshes : r.current =>
                u.connected /\ r.revision \in {u.rendered.revision, Revision(u.ws)},
              NEW r \in v.refreshes, r.current
       PROVE  v.connected /\ r.revision = v.rendered.revision
  <2> HIDE DEF v, now
  <2>1. CASE changed("revision") /\ u.connected
    BY <1>2, <1>3, <1>6, <1>7, <1>10, <2>1
  <2>2. CASE ~(changed("revision") /\ u.connected)
    <3>1. refreshed = u
      BY <1>3, <2>2
    <3> QED
      BY <1>2, <1>6, <1>7, <1>10, <2>2, <3>1
  <2> QED
    BY <2>1, <2>2
<1>11. ASSUME u.connected, Attended(u) \/ ~u.rendered.connected
       PROVE  Attended(v)
  <2> HIDE DEF v, now
  <2>1. CASE changed("revision")
    BY <1>3, <1>7, <1>11, <2>1 DEF Attended
  <2>2. CASE ~changed("revision")
    <3>1. refreshed = u /\ Revision(u.ws) = u.rendered.revision
      BY <1>2, <1>3, <2>2
    <3>2. Attended(u)
      BY <1>2, <1>11, <2>2
    <3> QED
      BY <1>2, <1>6, <1>7, <3>1, <3>2 DEF Attended
  <2> QED
    BY <2>1, <2>2
<1> QED
  BY <1>6, <1>7, <1>8, <1>9, <1>10, <1>11

\* What an answer leaves of a workspace: what it asks for, and of the selection
\* what it does not take away.
Kept(ws, next) ==
  /\ next.signal = ws.signal /\ next.logCorrelation = ws.logCorrelation
  /\ next.traceQuery = ws.traceQuery /\ next.logQuery = ws.logQuery
  /\ next.liveRangeDuration = ws.liveRangeDuration /\ next.serviceFilter = ws.serviceFilter
  /\ next.selectedTraceId \in {None, ws.selectedTraceId}
  /\ next.selectedLogId \in {None, ws.selectedLogId}

LEMMA AnswersKeep ==
  ASSUME NEW ws, WorkspaceInv(ws), NEW t, NEW spans, NEW s, NEW ids, NEW truncated
  PROVE  /\ Kept(ws, TraceDetailLoaded(ws, t, spans))
         /\ TraceDetailLoaded(ws, t, spans).selectedTraceId = ws.selectedTraceId
         /\ Kept(ws, ResultsRefreshed(ws, s, ids, truncated))
         /\ ResultsRefreshed(ws, s, ids, truncated).selectedTraceId # ws.selectedTraceId =>
              s = ws.signal /\ s = "traces" /\ ws.selectedTraceId \notin ids
BY DEF WorkspaceInv, WorkspaceFields, Signals, Kept, TraceDetailLoaded, ResultsRefreshed, LogClosed

\* What is kept is asked for as before.
LEMMA KeptRevision ==
  ASSUME NEW ws, NEW next, Kept(ws, next)
  PROVE  Revision(next) = Revision(ws) /\ AskedBy(next) = AskedBy(ws)
BY DEF Kept, Revision, AskedBy, QueryOf

\* A refresh asks for what the revision it was made for says.
LEMMA AskedOfRevision ==
  ASSUME NEW ws
  PROVE  AskedOf(Revision(ws)) = AskedBy(ws) /\ Revision(ws).signal = ws.signal
BY DEF Revision, AskedOf, AskedBy

-----------------------------------------------------------------------------
(* The browser's history.                                                   *)

\* The addresses after a step that wrote one: those there were, and that one
\* where the page now is.
Written(url) ==
  /\ IsShort(entries', Len(entries')) /\ at' \in DOMAIN entries'
  /\ entries'[at'] = url
  /\ \A i \in DOMAIN entries' : entries'[i] = url \/ \E j \in DOMAIN entries : entries'[i] = entries[j]

LEMMA EntriesSeq ==
  ASSUME HistoryInv
  PROVE  /\ entries \in Seq({entries[i] : i \in 1..Len(entries)})
         /\ Len(entries) \in Nat /\ DOMAIN entries = 1..Len(entries) /\ at \in 1..Len(entries)
<1>1. Len(entries) \in Nat
  BY DEF HistoryInv, IsShort
<1> QED
  BY <1>1, ShortIsSeq DEF HistoryInv

\* dispatchWorkspaceAction pushes an address and forgets those that came after.
LEMMA PushWrites ==
  ASSUME HistoryInv, NEW url, entries' = Append(SubSeq(entries, 1, at), url), at' = at + 1
  PROVE  Written(url)
<1> DEFINE S == {entries[i] : i \in 1..Len(entries)} \cup {url}
<1>1. /\ entries \in Seq(S) /\ Len(entries) \in Nat /\ DOMAIN entries = 1..Len(entries)
      /\ at \in 1..Len(entries)
  BY EntriesSeq, SeqMonotonic
<1>2. url \in S
  OBVIOUS
<1> HIDE DEF S
<1> DEFINE before == SubSeq(entries, 1, at)
<1>3. /\ before \in Seq(S) /\ Len(before) = at
      /\ \A i \in 1..at : before[i] = entries[i]
  BY <1>1, SubSeqProperties
<1> HIDE DEF before
<1>4. /\ entries' \in Seq(S) /\ Len(entries') = at + 1 /\ at \in Nat
      /\ entries'[at + 1] = url
      /\ \A i \in 1..at : entries'[i] = before[i]
  BY <1>1, <1>2, <1>3, AppendProperties DEF before
<1>5. DOMAIN entries' = 1..(at + 1)
  BY <1>4, LenProperties
<1>6. IsShort(entries', Len(entries'))
  <2>1. Len(entries') \in Nat /\ Len(entries') <= Len(entries')
    BY <1>4
  <2> QED
    BY <1>4, <2>1, SeqIsShort
<1>7. \A i \in DOMAIN entries' : i = at + 1 \/ i \in 1..at
  BY <1>4, <1>5
<1>8. \A i \in 1..at : i \in DOMAIN entries /\ entries'[i] = entries[i]
  BY <1>1, <1>3, <1>4
<1>9. \A i \in DOMAIN entries' : entries'[i] = url \/ \E j \in DOMAIN entries : entries'[i] = entries[j]
  BY <1>4, <1>7, <1>8
<1>10. at' \in DOMAIN entries'
  BY <1>4, <1>5
<1> QED
  BY <1>4, <1>6, <1>9, <1>10 DEF Written

\* The other handlers replace the address that is shown.
LEMMA ReplaceWrites ==
  ASSUME HistoryInv, NEW url, entries' = [entries EXCEPT ![at] = url], at' = at
  PROVE  Written(url)
<1> DEFINE S == {entries[i] : i \in 1..Len(entries)} \cup {url}
<1>1. /\ entries \in Seq(S) /\ Len(entries) \in Nat /\ DOMAIN entries = 1..Len(entries)
      /\ at \in 1..Len(entries)
  BY EntriesSeq, SeqMonotonic
<1>2. url \in S
  OBVIOUS
<1> HIDE DEF S
<1>3. entries' \in Seq(S) /\ Len(entries') = Len(entries)
  BY <1>1, <1>2, ExceptSeq
<1>4. IsShort(entries', Len(entries'))
  <2>1. Len(entries') \in Nat /\ Len(entries') <= Len(entries')
    BY <1>1, <1>3
  <2> QED
    BY <1>3, <2>1, SeqIsShort
<1> QED
  BY <1>1, <1>4 DEF Written

\* Some only when the workspace has changed.
LEMMA ReplaceIfChanged ==
  ASSUME HistoryInv, at' = at,
         \/ UNCHANGED entries /\ ui'.ws = ui.ws
         \/ entries' = [entries EXCEPT ![at] = IF ui'.ws = ui.ws THEN @ ELSE ToUrl(ui'.ws)]
  PROVE  (UNCHANGED entries /\ ui'.ws = ui.ws) \/ Written(ToUrl(ui'.ws))
<1>1. CASE ui'.ws = ui.ws
  <2>1. entries' = entries \/ entries' = [entries EXCEPT ![at] = entries[at]]
    BY <1>1
  <2>2. entries = [i \in 1..Len(entries) |-> entries[i]]
    BY DEF HistoryInv, IsShort
  <2> QED
    BY <1>1, <2>1, <2>2
<1>2. CASE ui'.ws # ui.ws
  <2>1. entries' = [entries EXCEPT ![at] = ToUrl(ui'.ws)]
    BY <1>2
  <2> QED
    BY <2>1, ReplaceWrites
<1> QED
  BY <1>1, <1>2

\* An address that is written is one that leads somewhere.
LEMMA WrittenSound ==
  ASSUME NEW ws, WorkspaceInv(ws)
  PROVE  EntryInv(ToUrl(ws)) /\ ToUrl(ws).to = ws.traceQuery.to /\ ToUrl(ws).from = ws.traceQuery.from
<1>1. ws.liveRangeDuration # None
  BY WorkspaceAssumption DEF WorkspaceInv
<1> QED
  BY <1>1 DEF WorkspaceInv, QueryInv, EntryInv, ToUrl, QueryOf, Signals

\* And every address of the history does.
LEMMA EntryIsAddress ==
  ASSUME NEW url, EntryInv(url)
  PROVE  IsAddress(url)
<1>1. IsShort(url.attributes, Len(url.attributes))
  BY ShortOfItself, WorkspaceAssumption DEF EntryInv
<1> QED
  BY <1>1 DEF EntryInv, IsAddress

LEMMA WrittenHistory ==
  ASSUME HistoryInv, NEW ws, WorkspaceInv(ws), Written(ToUrl(ws))
  PROVE  HistoryInv'
<1>1. EntryInv(ToUrl(ws))
  BY WrittenSound
<1>2. \A i \in DOMAIN entries' : EntryInv(entries'[i])
  BY <1>1 DEF HistoryInv, Written
<1>3. \A i \in DOMAIN entries' : EntryInv(entries[i])'
  BY <1>2 DEF EntryInv, IsShort
<1> QED
  BY <1>3 DEF HistoryInv, Written, IsShort

-----------------------------------------------------------------------------
(* The invariant that the properties follow from.                           *)

BaseInv == ComponentInv /\ DetailInv /\ RequestInv /\ HistoryInv

\* Initially the page shows what its address asks for.
LEMMA BaseInit == Init => BaseInv
<1> SUFFICES ASSUME NEW address \in Addresses,
                    ui = Opened(FromUrl(address, Fallback)),
                    entries = <<ToUrl(ui.ws)>>, at = 1, clock = StartTime, events = 0
             PROVE  BaseInv
  BY DEF Init
<1> DEFINE ws == FromUrl(address, Fallback)
<1>1. WorkspaceInv(ws)
  <2>1. IsAddress(address)
    BY WorkbenchAssumption DEF IsAddress
  <2> QED
    BY <2>1, FromUrlSound
<1> HIDE DEF ws
<1>2. /\ DOMAIN ui = UiFields /\ DOMAIN ui.lists = Signals /\ ui.connected = FALSE
      /\ ui.ws = ws /\ ui.refreshes = {} /\ ui.loads = {}
      /\ ui.rendered.connected = FALSE /\ ui.rendered.revision = Revision(ws)
      /\ ui.rendered.trace = ws.selectedTraceId /\ ui.rendered.log = ws.selectedLogId
  BY DEF ws, Opened, UiFields
<1>3. ComponentInv
  <2>1. UiInv(ui)
    BY <1>1, <1>2 DEF UiInv
  <2>2. events \in Nat /\ clock \in Nat /\ StartTime <= clock
    BY WorkbenchAssumption
  <2> QED
    BY <2>1, <2>2 DEF ComponentInv
<1>4. DetailInv /\ RequestInv
  <2>1. DetailsOf(ui)
    BY <1>2 DEF DetailsOf
  <2>2. RequestInv
    BY <1>2 DEF RequestInv
  <2>3. Revision(ws).signal = ws.signal
    BY DEF Revision
  <2>4. DetailInv
    BY <1>2, <2>1, <2>3 DEF DetailInv
  <2> QED
    BY <2>2, <2>4
<1>5. HistoryInv
  <2>1. entries = [i \in 1..1 |-> ToUrl(ws)] /\ Len(entries) = 1 /\ DOMAIN entries = 1..1
    BY <1>2
  <2>2. IsShort(entries, Len(entries))
    BY <1>2, <2>1 DEF IsShort
  <2>3. \A i \in DOMAIN entries : EntryInv(entries[i])
    BY <1>1, <2>1, WrittenSound
  <2> QED
    BY <2>1, <2>2, <2>3 DEF HistoryInv
<1> QED
  BY <1>3, <1>4, <1>5 DEF BaseInv

\* What a user does is a transition of the workspace that keeps it well-formed,
\* a refresh or a step through the browser's history.
LEMMA UserSteps ==
  ASSUME BaseInv, User
  PROVE  \/ \E next : WorkspaceInv(next) /\ Dispatch(next)
         \/ PressRefresh
         \/ PopState
<1>1. WorkspaceInv(ui.ws)
  BY DEF BaseInv, ComponentInv, UiInv
<1>2. CASE ChangeSignal
  BY <1>1, <1>2, SignalStep DEF ChangeSignal
<1>3. CASE ChangeServices
  BY <1>1, <1>3, ServicesStep DEF ChangeServices
<1>4. CASE ClearFilters
  BY <1>1, <1>4, ClearStep DEF ClearFilters
<1>5. CASE ChangeRange
  <2>1. clock \in Nat /\ MaxLookback <= clock
    BY WorkbenchAssumption, WorkspaceAssumption DEF BaseInv, ComponentInv
  <2> QED
    BY <1>1, <1>5, <2>1, RangeStep DEF ChangeRange
<1>6. CASE ChangeQuery
  BY <1>1, <1>6, TraceChangeStep, LogChangeStep DEF ChangeQuery
<1>7. CASE SelectTrace
  BY <1>1, <1>7, SelectTraceStep DEF SelectTrace
<1>8. CASE SelectSpan
  BY <1>1, <1>8, SelectSpanStep DEF SelectSpan, ShowingTrace
<1>9. CASE SelectLog
  BY <1>1, <1>9, SelectLogStep DEF SelectLog
<1>10. CASE CloseDetail
  BY <1>1, <1>10, CloseLogStep, CloseTraceStep DEF CloseDetail
<1>11. CASE OpenTrace
  BY <1>1, <1>11, OpenTraceStep DEF OpenTrace
<1>12. CASE OpenTraceLogs
  BY <1>1, <1>12, CorrelatedLogsStep DEF OpenTraceLogs, ShowingTrace, TraceLogsOpened
<1>13. CASE OpenSpanLogs
  BY <1>1, <1>13, CorrelatedLogsStep DEF OpenSpanLogs, ShowingTrace, SpanLogsOpened
<1>14. CASE PromoteAttribute
  BY <1>1, <1>14, PromoteStep DEF PromoteAttribute, ShowingTrace, Signals
<1>15. CASE TogglePause
  BY <1>1, <1>15, PauseStep DEF TogglePause
<1>16. CASE ToggleCollapse
  BY <1>1, <1>16, CollapseStep DEF ToggleCollapse
<1> QED
  BY <1>2, <1>3, <1>4, <1>5, <1>6, <1>7, <1>8, <1>9, <1>10, <1>11, <1>12, <1>13, <1>14, <1>15, <1>16
  DEF User

\* A step that ends with the effects leaves the page well-formed.
LEMMA RenderedBase ==
  ASSUME BaseInv, NEW u, UiInv(u), DetailsOf(u), u.rendered.connected => u.connected,
         \A r \in u.refreshes : r.current =>
           u.connected /\ r.revision \in {u.rendered.revision, Revision(u.ws)},
         ui' = RunEffectsOf(u),
         events' \in Nat, clock' \in Nat, StartTime <= clock', HistoryInv'
  PROVE  BaseInv' /\ ui'.ws = u.ws
<1> DEFINE v == RunEffectsOf(u)
<1>1. /\ UiInv(v) /\ DetailsOf(v)
      /\ v.ws = u.ws /\ v.connected = u.connected /\ v.rendered = Dependencies(u)
      /\ \A r \in v.refreshes : r.current => v.connected /\ r.revision = v.rendered.revision
  BY EffectsSound
<1> HIDE DEF v
<1>2. ui' = v
  BY DEF v
<1>3. ComponentInv'
  BY <1>1, <1>2 DEF ComponentInv
<1>4. /\ v.rendered.connected = v.connected /\ v.rendered.revision.signal = v.ws.signal
      /\ v.ws.selectedTraceId = v.rendered.trace /\ v.ws.selectedLogId = v.rendered.log
  BY <1>1 DEF Dependencies, Revision
<1>5. DetailInv'
  BY <1>1, <1>2, <1>4 DEF DetailInv
<1>6. RequestInv'
  BY <1>1, <1>2 DEF RequestInv
<1> QED
  BY <1>1, <1>2, <1>3, <1>5, <1>6 DEF BaseInv

\* A transition of the user.
LEMMA DispatchBase ==
  ASSUME BaseInv, NEW next, WorkspaceInv(next), Dispatch(next)
  PROVE  BaseInv' /\ ui'.ws = [next EXCEPT !.history = <<>>] /\ Written(ToUrl(next))
<1> DEFINE u == Commit(ui, next)
<1>1. UiInv(ui)
  BY DEF BaseInv, ComponentInv
<1>2. /\ UiInv(u) /\ u.ws = [next EXCEPT !.history = <<>>]
      /\ \A f \in UiFields \ {"ws", "phase", "lists"} : u[f] = ui[f]
  BY <1>1, CommitSound
<1>3. ui' = RunEffectsOf(u)
  BY DEF Dispatch
<1> HIDE DEF u
<1>4. /\ u.refreshes = ui.refreshes /\ u.rendered = ui.rendered /\ u.connected = ui.connected
      /\ u.traceDetail = ui.traceDetail /\ u.fresh = ui.fresh
      /\ u.logDetail = ui.logDetail /\ u.logLoad = ui.logLoad
  BY <1>2 DEF UiFields
<1>5. DetailsOf(u) /\ (u.rendered.connected => u.connected)
  BY <1>4 DEF BaseInv, DetailInv, DetailsOf
<1>6. \A r \in u.refreshes : r.current => u.connected /\ r.revision \in {u.rendered.revision, Revision(u.ws)}
  BY <1>4 DEF BaseInv, RequestInv
<1>7. Written(ToUrl(next))
  BY PushWrites DEF BaseInv, Dispatch
<1>8. HistoryInv'
  BY <1>7, WrittenHistory DEF BaseInv
<1>9. events' \in Nat /\ clock' \in Nat /\ StartTime <= clock'
  BY DEF BaseInv, ComponentInv, Dispatch
<1> QED
  BY <1>2, <1>3, <1>5, <1>6, <1>7, <1>8, <1>9, RenderedBase

\* A refresh, by the timer or the user: what it asks for again, or the present.
LEMMA RefreshNowSound ==
  ASSUME NEW u, UiInv(u), NEW now \in Nat, MaxLookback <= now
  PROVE  LET v == RefreshNow(u, now) IN
         /\ UiInv(v)
         /\ v.ws.signal = u.ws.signal /\ v.ws.selectedTraceId = u.ws.selectedTraceId
         /\ v.ws.selectedLogId = u.ws.selectedLogId
         /\ \A f \in UiFields \ {"ws", "phase", "refreshes"} : v[f] = u[f]
         /\ \/ u.ws.refreshPaused /\ v = Refresh(u)
            \/ ~u.ws.refreshPaused /\ v.refreshes = u.refreshes /\ v.phase = u.phase
<1> DEFINE v == RefreshNow(u, now)
           next == AdvanceTimeRange(u.ws, now)
<1>1. WorkspaceInv(u.ws) /\ u.ws.liveRangeDuration # None
  BY WorkspaceAssumption DEF UiInv, WorkspaceInv
<1>2. CASE u.ws.refreshPaused
  <2>1. v = Refresh(u)
    BY <1>2 DEF RefreshNow
  <2>2. UiInv(v) /\ \A f \in UiFields \ {"refreshes", "phase"} : v[f] = u[f]
    BY <2>1, RefreshSound
  <2>3. v.ws = u.ws
    BY <2>2 DEF UiFields
  <2> QED
    BY <1>2, <2>1, <2>2, <2>3
<1>3. CASE ~u.ws.refreshPaused
  <2>1. v = Commit(u, next)
    BY <1>1, <1>3 DEF RefreshNow
  <2>2. /\ WorkspaceInv(next) /\ next.signal = u.ws.signal
        /\ next.selectedTraceId = u.ws.selectedTraceId /\ next.selectedLogId = u.ws.selectedLogId
    BY <1>1, AdvanceStep
  <2> HIDE DEF next
  <2>3. /\ UiInv(v) /\ \A f \in WorkspaceFields \ {"history"} : v.ws[f] = next[f]
        /\ \A f \in UiFields \ {"ws", "phase", "lists"} : v[f] = u[f]
        /\ v.phase = u.phase /\ v.lists = u.lists
    <3> DEFINE ws == [next EXCEPT !.history = <<>>]
    <3>1. /\ UiInv(v) /\ v.ws = ws /\ \A f \in WorkspaceFields \ {"history"} : ws[f] = next[f]
          /\ \A f \in UiFields \ {"ws", "phase", "lists"} : v[f] = u[f]
          /\ next.signal = u.ws.signal => v.phase = u.phase /\ v.lists = u.lists
      BY <2>1, <2>2, CommitSound
    <3> HIDE DEF ws, v
    <3> QED
      BY <2>2, <3>1
  <2> HIDE DEF v
  <2>4. /\ v.ws.signal = next.signal /\ v.ws.selectedTraceId = next.selectedTraceId
        /\ v.ws.selectedLogId = next.selectedLogId
    BY <2>3 DEF WorkspaceFields
  <2>5. v.refreshes = u.refreshes /\ \A f \in UiFields \ {"ws", "phase", "refreshes"} : v[f] = u[f]
    BY <2>3 DEF UiFields
  <2> QED
    BY <1>3, <2>2, <2>3, <2>4, <2>5 DEF v
<1> QED
  BY <1>2, <1>3 DEF UiInv, WorkspaceInv

\* What an answer does: it takes a request away, and of the workspace nothing but
\* a selection that a current list does not have.
Answered(v) ==
  /\ UiInv(v) /\ DetailsOf(v)
  /\ v.rendered = ui.rendered /\ v.connected = ui.connected /\ v.refreshes \subseteq ui.refreshes
  /\ Kept(ui.ws, v.ws)
  /\ Attended(ui) => Attended(v)
  /\ v.ws.selectedTraceId # ui.ws.selectedTraceId =>
       /\ ui.ws.signal = "traces"
       /\ v.lists["traces"].asked = AskedBy(ui.ws)
       /\ ui.ws.selectedTraceId \notin v.lists["traces"].ids

\* The component without a refresh that has been answered.
LEMMA RefreshTaken ==
  ASSUME BaseInv, NEW r \in ui.refreshes
  PROVE  LET u == [ui EXCEPT !.refreshes = @ \ {r}] IN
         /\ UiInv(u) /\ u.refreshes = ui.refreshes \ {r}
         /\ \A f \in UiFields \ {"refreshes"} : u[f] = ui[f]
         /\ ~Wanted(ui, r) => Answered(u)
<1> DEFINE u == [ui EXCEPT !.refreshes = @ \ {r}]
<1>1. UiInv(ui)
  BY DEF BaseInv, ComponentInv
<1>2. /\ DOMAIN u = UiFields /\ u.refreshes = ui.refreshes \ {r}
      /\ \A f \in UiFields \ {"refreshes"} : u[f] = ui[f]
  BY <1>1 DEF UiInv, UiFields
<1> HIDE DEF u
<1>3. /\ u.ws = ui.ws /\ u.connected = ui.connected /\ u.rendered = ui.rendered /\ u.loads = ui.loads
      /\ u.lists = ui.lists /\ u.phase = ui.phase /\ u.traceDetail = ui.traceDetail
      /\ u.logDetail = ui.logDetail /\ u.logLoad = ui.logLoad /\ u.fresh = ui.fresh
  BY <1>2 DEF UiFields
<1>4. UiInv(u)
  BY <1>1, <1>2, <1>3 DEF UiInv
<1>5. ASSUME ~Wanted(ui, r)  PROVE Answered(u)
  <2>1. DetailsOf(u)
    BY <1>3 DEF BaseInv, DetailInv, DetailsOf
  <2>2. Kept(ui.ws, u.ws)
    BY <1>3 DEF Kept
  <2>3. ASSUME Attended(ui)  PROVE Attended(u)
    <3>1. CASE r.current
      <4>1. Revision(ui.ws) # ui.rendered.revision
        BY <1>5, <3>1 DEF Wanted, BaseInv, RequestInv
      <4> QED
        BY <1>3, <4>1 DEF Attended
    <3>2. CASE ~r.current
      BY <1>2, <1>3, <2>3, <3>2 DEF Attended
    <3> QED
      BY <3>1, <3>2
  <2> QED
    BY <1>2, <1>3, <1>4, <2>1, <2>2, <2>3 DEF Answered
<1> QED
  BY <1>2, <1>4, <1>5 DEF u

\* The list that a wanted refresh comes with, and the detail that it asks for.
LEMMA ListedSound ==
  ASSUME NEW u, UiInv(u), NEW r, r.signal \in Signals, NEW ids, NEW due
  PROVE  LET v == Listed(u, r, ids, due) IN
         /\ UiInv(v)
         /\ \A f \in UiFields \ {"lists", "loads"} : v[f] = u[f]
         /\ v.lists[r.signal] = [ids |-> ids, asked |-> r.asked]
<1> DEFINE v == Listed(u, r, ids, due)
           listed == [u EXCEPT !.lists[r.signal] = [ids |-> ids, asked |-> r.asked]]
           trace == u.ws.selectedTraceId
<1>1. /\ DOMAIN listed = UiFields /\ \A f \in UiFields \ {"lists"} : listed[f] = u[f]
      /\ DOMAIN listed.lists = Signals
      /\ listed.lists[r.signal] = [ids |-> ids, asked |-> r.asked]
  BY DEF UiInv, UiFields
<1>2. v = listed \/ (trace # None /\ v = LoadTraceDetail(listed, trace))
  BY DEF Listed
<1> HIDE DEF listed, v
<1>3. listed.ws = u.ws /\ listed.connected = u.connected
      /\ listed.refreshes = u.refreshes /\ listed.loads = u.loads
  BY <1>1 DEF UiFields
<1>4. UiInv(listed)
  BY <1>1, <1>3 DEF UiInv
<1>5. UiInv(v) /\ \A f \in UiFields \ {"loads"} : v[f] = listed[f]
  BY <1>2, <1>4, LoadSound
<1>6. v.lists = listed.lists
  BY <1>5 DEF UiFields
<1> QED
  BY <1>1, <1>5, <1>6 DEF v

LEMMA RefreshAnsweredSound == ASSUME BaseInv, RefreshAnswered  PROVE Answered(ui')
<1> PICK r \in ui.refreshes, truncated \in BOOLEAN, due \in BOOLEAN :
      LET u == [ui EXCEPT !.refreshes = @ \ {r}] IN
      \/ /\ ~Wanted(ui, r)
         /\ ui' = u
      \/ /\ Wanted(ui, r)
         /\ \E ids \in IF r.signal = "traces" THEN TraceResults ELSE LogResults :
              LET listed == Listed(u, r, ids, due)
              IN ui' = [Commit(listed, ResultsRefreshed(u.ws, r.signal, ids, truncated))
                          EXCEPT !.phase = "ready"]
  BY ZenonT(60) DEF RefreshAnswered
<1> DEFINE u == [ui EXCEPT !.refreshes = @ \ {r}]
<1>1. CASE ~Wanted(ui, r)
  BY <1>1, RefreshTaken
<1>2. CASE Wanted(ui, r)
  <2> PICK ids : ui' = [Commit(Listed(u, r, ids, due), ResultsRefreshed(u.ws, r.signal, ids, truncated))
                          EXCEPT !.phase = "ready"]
    BY <1>2
  <2> DEFINE listed == Listed(u, r, ids, due)
             next == ResultsRefreshed(u.ws, r.signal, ids, truncated)
             v == Commit(listed, next)
  <2>1. /\ UiInv(u) /\ u.refreshes = ui.refreshes \ {r}
        /\ \A f \in UiFields \ {"refreshes"} : u[f] = ui[f]
    BY RefreshTaken
  <2>2. ui' = [v EXCEPT !.phase = "ready"]
    OBVIOUS
  <2> HIDE DEF u
  <2>3. r.signal = ui.ws.signal /\ r.signal \in Signals /\ r.asked = AskedBy(ui.ws)
    <3>1. r.revision = Revision(ui.ws)
      BY <1>2 DEF Wanted
    <3>2. r.signal = r.revision.signal /\ r.asked = AskedOf(r.revision) /\ ui.ws.signal \in Signals
      BY DEF BaseInv, ComponentInv, UiInv, WorkspaceInv
    <3> QED
      BY <3>1, <3>2, AskedOfRevision
  <2>4. /\ UiInv(listed) /\ \A f \in UiFields \ {"lists", "loads"} : listed[f] = u[f]
        /\ listed.lists[r.signal] = [ids |-> ids, asked |-> r.asked]
    BY <2>1, <2>3, ListedSound
  <2> HIDE DEF listed
  <2>5. /\ u.ws = ui.ws /\ listed.ws = ui.ws /\ WorkspaceInv(ui.ws)
    BY <2>1, <2>4 DEF UiFields, UiInv
  <2>6. /\ Kept(ui.ws, next) /\ WorkspaceInv(next)
        /\ next.selectedTraceId # ui.ws.selectedTraceId =>
             r.signal = "traces" /\ ui.ws.selectedTraceId \notin ids
    <3>1. WorkspaceInv(next)
      BY <2>5, RefreshedStep
    <3> QED
      BY <2>5, <3>1, AnswersKeep
  <2> HIDE DEF next
  <2> DEFINE ws == [next EXCEPT !.history = <<>>]
  <2>7. /\ UiInv(v) /\ v.ws = ws /\ \A f \in WorkspaceFields \ {"history"} : ws[f] = next[f]
        /\ \A f \in UiFields \ {"ws", "phase", "lists"} : v[f] = listed[f]
        /\ next.signal = listed.ws.signal => v.phase = listed.phase /\ v.lists = listed.lists
    BY <2>4, <2>6, CommitSound
  <2> HIDE DEF ws, v
  <2>8. /\ UiInv(ui') /\ ui'.phase = "ready" /\ \A f \in UiFields \ {"phase"} : ui'[f] = v[f]
    <3>1. DOMAIN ui' = UiFields /\ ui'.phase = "ready" /\ \A f \in UiFields \ {"phase"} : ui'[f] = v[f]
      BY <2>2, <2>7 DEF UiInv, UiFields
    <3>2. /\ ui'.ws = v.ws /\ ui'.connected = v.connected /\ ui'.lists = v.lists
          /\ ui'.refreshes = v.refreshes /\ ui'.loads = v.loads
      BY <3>1 DEF UiFields
    <3> QED
      BY <2>7, <3>1, <3>2 DEF UiInv
  <2>9. Kept(ui.ws, ui'.ws) /\ ui'.ws.selectedTraceId = next.selectedTraceId /\ ui'.ws = ws
    <3>1. ui'.ws = ws
      BY <2>7, <2>8 DEF UiFields
    <3> QED
      BY <2>6, <2>7, <3>1 DEF Kept, WorkspaceFields
  <2>10. /\ ui'.rendered = ui.rendered /\ ui'.connected = ui.connected
         /\ ui'.refreshes = u.refreshes /\ ui'.traceDetail = ui.traceDetail /\ ui'.fresh = ui.fresh
         /\ ui'.logDetail = ui.logDetail /\ ui'.logLoad = ui.logLoad
    <3>1. \A f \in UiFields \ {"ws", "phase", "lists", "refreshes", "loads"} : ui'[f] = ui[f]
      BY <2>1, <2>4, <2>7, <2>8
    <3>2. ui'.refreshes = u.refreshes
      BY <2>4, <2>7, <2>8, ZenonT(60) DEF UiFields
    <3> QED
      BY <3>1, <3>2 DEF UiFields
  <2>11. ui'.lists[r.signal] = [ids |-> ids, asked |-> r.asked]
    <3>1. next.signal = listed.ws.signal
      BY <2>5, <2>6 DEF Kept
    <3>2. ui'.lists = v.lists
      BY <2>8 DEF UiFields
    <3> QED
      BY <2>4, <2>7, <3>1, <3>2
  <2>12. DetailsOf(ui')
    BY <2>10 DEF BaseInv, DetailInv, DetailsOf
  <2>13. Attended(ui')
    <3>1. ui'.ws.signal = r.signal /\ AskedBy(ui'.ws) = r.asked
      BY <2>3, <2>9, KeptRevision DEF Kept
    <3> QED
      BY <2>8, <2>11, <3>1 DEF Attended
  <2>14. ui'.refreshes \subseteq ui.refreshes
    BY <2>1, <2>10
  <2>15. ui'.ws.selectedTraceId # ui.ws.selectedTraceId =>
           /\ ui.ws.signal = "traces"
           /\ ui'.lists["traces"].asked = AskedBy(ui.ws)
           /\ ui.ws.selectedTraceId \notin ui'.lists["traces"].ids
    BY <2>3, <2>6, <2>9, <2>11
  <2> QED
    BY <2>8, <2>9, <2>10, <2>12, <2>13, <2>14, <2>15 DEF Answered
<1> QED
  BY <1>1, <1>2

LEMMA RefreshFailedSound == ASSUME BaseInv, RefreshFailed  PROVE Answered(ui')
<1> PICK r \in ui.refreshes :
      LET u == [ui EXCEPT !.refreshes = @ \ {r}] IN
      \/ ~Wanted(ui, r) /\ ui' = u
      \/ /\ Wanted(ui, r)
         /\ \E phase \in {"stale", "unavailable", "invalid"} : ui' = [u EXCEPT !.phase = phase]
  BY DEF RefreshFailed
<1> DEFINE u == [ui EXCEPT !.refreshes = @ \ {r}]
<1>1. CASE ~Wanted(ui, r)
  BY <1>1, RefreshTaken
<1>2. CASE Wanted(ui, r)
  <2> PICK phase \in {"stale", "unavailable", "invalid"} : ui' = [u EXCEPT !.phase = phase]
    BY <1>2
  <2>1. /\ UiInv(u) /\ u.refreshes = ui.refreshes \ {r}
        /\ \A f \in UiFields \ {"refreshes"} : u[f] = ui[f]
    BY RefreshTaken
  <2> HIDE DEF u
  <2>2. /\ DOMAIN ui' = UiFields /\ ui'.phase = phase
        /\ \A f \in UiFields \ {"phase"} : ui'[f] = u[f]
    BY <2>1 DEF UiInv, UiFields
  <2>3. /\ ui'.ws = ui.ws /\ ui'.connected = ui.connected /\ ui'.rendered = ui.rendered
        /\ ui'.traceDetail = ui.traceDetail /\ ui'.fresh = ui.fresh
        /\ ui'.logDetail = ui.logDetail /\ ui'.logLoad = ui.logLoad
        /\ ui'.refreshes = ui.refreshes \ {r}
    BY <2>1, <2>2 DEF UiFields
  <2>4. UiInv(ui')
    <3>1. /\ ui'.ws = u.ws /\ ui'.connected = u.connected /\ ui'.lists = u.lists
          /\ ui'.refreshes = u.refreshes /\ ui'.loads = u.loads
      BY <2>2 DEF UiFields
    <3> QED
      BY <2>1, <2>2, <3>1 DEF UiInv
  <2>5. DetailsOf(ui')
    BY <2>3 DEF BaseInv, DetailInv, DetailsOf
  <2>6. Kept(ui.ws, ui'.ws)
    BY <2>3 DEF Kept
  <2>7. Attended(ui')
    BY <2>2 DEF Attended
  <2> QED
    BY <2>3, <2>4, <2>5, <2>6, <2>7 DEF Answered
<1> QED
  BY <1>1, <1>2

\* A load that has come or failed, when it changes nothing but the loads.
LEMMA LoadTaken ==
  ASSUME BaseInv, NEW l \in ui.loads
  PROVE  LET u == [ui EXCEPT !.loads = @ \ {l}] IN
         /\ UiInv(u) /\ Answered(u)
         /\ \A f \in UiFields \ {"loads"} : u[f] = ui[f]
<1> DEFINE u == [ui EXCEPT !.loads = @ \ {l}]
<1>1. UiInv(ui)
  BY DEF BaseInv, ComponentInv
<1>2. /\ DOMAIN u = UiFields /\ u.loads = ui.loads \ {l}
      /\ \A f \in UiFields \ {"loads"} : u[f] = ui[f]
  BY <1>1 DEF UiInv, UiFields
<1> HIDE DEF u
<1>3. /\ u.ws = ui.ws /\ u.connected = ui.connected /\ u.rendered = ui.rendered
      /\ u.refreshes = ui.refreshes
      /\ u.lists = ui.lists /\ u.phase = ui.phase /\ u.traceDetail = ui.traceDetail
      /\ u.logDetail = ui.logDetail /\ u.logLoad = ui.logLoad /\ u.fresh = ui.fresh
  BY <1>2 DEF UiFields
<1>4. UiInv(u)
  BY <1>1, <1>2, <1>3 DEF UiInv
<1>5. DetailsOf(u)
  BY <1>3 DEF BaseInv, DetailInv, DetailsOf
<1>6. Kept(ui.ws, u.ws)
  BY <1>3 DEF Kept
<1>7. Attended(ui) => Attended(u)
  BY <1>3 DEF Attended
<1> QED
  BY <1>2, <1>3, <1>4, <1>5, <1>6, <1>7 DEF Answered, u

LEMMA TraceAnsweredSound == ASSUME BaseInv, TraceAnswered  PROVE Answered(ui')
<1> PICK l \in ui.loads :
      LET u == [ui EXCEPT !.loads = @ \ {l}] IN
      IF ~l.current \/ ui.ws.selectedTraceId # l.trace THEN ui' = u
      ELSE ui' = Commit([u EXCEPT !.traceDetail = l.trace, !.fresh = TRUE],
                        TraceDetailLoaded(ui.ws, l.trace, SpansOf[l.trace]))
  BY DEF TraceAnswered
<1> DEFINE u == [ui EXCEPT !.loads = @ \ {l}]
<1>1. CASE ~l.current \/ ui.ws.selectedTraceId # l.trace
  BY <1>1, LoadTaken
<1>2. CASE ~(~l.current \/ ui.ws.selectedTraceId # l.trace)
  <2> DEFINE shown == [u EXCEPT !.traceDetail = l.trace, !.fresh = TRUE]
             next == TraceDetailLoaded(ui.ws, l.trace, SpansOf[l.trace])
  <2>1. ui' = Commit(shown, next)
    BY <1>2
  <2>2. UiInv(u) /\ Answered(u) /\ \A f \in UiFields \ {"loads"} : u[f] = ui[f]
    BY LoadTaken
  <2> HIDE DEF u
  <2>3. /\ DOMAIN shown = UiFields /\ shown.traceDetail = l.trace
        /\ \A f \in UiFields \ {"traceDetail", "fresh"} : shown[f] = u[f]
    BY <2>2 DEF UiInv, UiFields
  <2> HIDE DEF shown
  <2>4. /\ shown.ws = ui.ws /\ shown.connected = ui.connected /\ shown.rendered = ui.rendered
        /\ shown.refreshes = ui.refreshes
        /\ shown.lists = ui.lists /\ shown.phase = ui.phase
        /\ shown.logDetail = ui.logDetail /\ shown.logLoad = ui.logLoad
        /\ shown.loads = u.loads
    BY <2>2, <2>3 DEF UiFields
  <2>5. UiInv(shown) /\ WorkspaceInv(ui.ws)
    <3>1. u.ws = ui.ws /\ u.connected = ui.connected /\ u.lists = ui.lists /\ u.refreshes = ui.refreshes
      BY <2>2 DEF UiFields
    <3> QED
      BY <2>2, <2>3, <2>4, <3>1 DEF UiInv
  <2>6. /\ Kept(ui.ws, next) /\ WorkspaceInv(next)
        /\ next.selectedTraceId = ui.ws.selectedTraceId
    <3>1. WorkspaceInv(next)
      BY <2>5, DetailStep
    <3> QED
      BY <2>5, <3>1, AnswersKeep
  <2> HIDE DEF next
  <2> DEFINE ws == [next EXCEPT !.history = <<>>]
  <2>7. /\ UiInv(ui') /\ ui'.ws = ws /\ \A f \in WorkspaceFields \ {"history"} : ws[f] = next[f]
        /\ \A f \in UiFields \ {"ws", "phase", "lists"} : ui'[f] = shown[f]
        /\ next.signal = shown.ws.signal => ui'.phase = shown.phase /\ ui'.lists = shown.lists
    BY <2>1, <2>5, <2>6, CommitSound
  <2> HIDE DEF ws
  <2>8. /\ Kept(ui.ws, ui'.ws) /\ ui'.ws.selectedTraceId = ui.ws.selectedTraceId
    BY <2>6, <2>7 DEF Kept, WorkspaceFields
  <2>9. /\ ui'.rendered = ui.rendered /\ ui'.connected = ui.connected
        /\ ui'.refreshes = ui.refreshes /\ ui'.traceDetail = l.trace
        /\ ui'.logDetail = ui.logDetail /\ ui'.logLoad = ui.logLoad
        /\ ui'.phase = ui.phase /\ ui'.lists = ui.lists
    BY <2>3, <2>4, <2>6, <2>7 DEF UiFields, Kept
  <2>10. l.trace # None /\ l.trace = ui.rendered.trace
    BY <1>2 DEF BaseInv, ComponentInv, UiInv, DetailInv
  <2>11. DetailsOf(ui')
    BY <2>9, <2>10 DEF BaseInv, DetailInv, DetailsOf
  <2>12. Attended(ui) => Attended(ui')
    <3>1. Revision(ui'.ws) = Revision(ui.ws) /\ AskedBy(ui'.ws) = AskedBy(ui.ws)
          /\ ui'.ws.signal = ui.ws.signal
      BY <2>8, KeptRevision DEF Kept
    <3> QED
      BY <2>9, <3>1 DEF Attended
  <2> QED
    BY <2>7, <2>8, <2>9, <2>11, <2>12 DEF Answered
<1> QED
  BY <1>1, <1>2

LEMMA LogAnsweredSound == ASSUME BaseInv, LogAnswered  PROVE Answered(ui')
<1> PICK detail \in {ui.logLoad, ui.logDetail} : ui' = [ui EXCEPT !.logLoad = None, !.logDetail = detail]
  BY DEF LogAnswered
<1>1. UiInv(ui)
  BY DEF BaseInv, ComponentInv
<1>2. /\ DOMAIN ui' = UiFields /\ ui'.logLoad = None /\ ui'.logDetail \in {ui.logLoad, ui.logDetail}
      /\ ui'.ws = ui.ws /\ ui'.connected = ui.connected /\ ui'.rendered = ui.rendered
      /\ ui'.refreshes = ui.refreshes /\ ui'.loads = ui.loads
      /\ ui'.lists = ui.lists /\ ui'.phase = ui.phase
      /\ ui'.traceDetail = ui.traceDetail /\ ui'.fresh = ui.fresh
  BY <1>1 DEF UiInv, UiFields
<1>3. UiInv(ui')
  BY <1>1, <1>2 DEF UiInv
<1>4. DetailsOf(ui')
  BY <1>2 DEF BaseInv, DetailInv, DetailsOf
<1>5. Kept(ui.ws, ui'.ws)
  BY <1>2 DEF Kept
<1>6. Attended(ui) => Attended(ui')
  BY <1>2 DEF Attended
<1> QED
  BY <1>2, <1>3, <1>4, <1>5, <1>6 DEF Answered

\* What happens by itself, except rendering and the timer.
Answer == RefreshAnswered \/ RefreshFailed \/ TraceAnswered \/ TraceFailed \/ LogAnswered

LEMMA AnswerSteps ==
  ASSUME BaseInv, Answer
  PROVE  /\ Answered(ui') /\ UNCHANGED <<at, clock, events>>
         /\ (UNCHANGED entries /\ ui'.ws = ui.ws) \/ Written(ToUrl(ui'.ws))
<1>1. Answered(ui')
  BY RefreshAnsweredSound, RefreshFailedSound, TraceAnsweredSound, LoadTaken, LogAnsweredSound
  DEF Answer, TraceFailed
<1>2. UNCHANGED <<at, clock, events>>
  BY DEF Answer, RefreshAnswered, RefreshFailed, TraceAnswered, TraceFailed, LogAnswered
<1>3. \/ UNCHANGED entries /\ ui'.ws = ui.ws
      \/ entries' = [entries EXCEPT ![at] = IF ui'.ws = ui.ws THEN @ ELSE ToUrl(ui'.ws)]
  <2>1. UiInv(ui)
    BY DEF BaseInv, ComponentInv
  <2>2. CASE RefreshAnswered \/ TraceAnswered
    BY <2>2 DEF RefreshAnswered, TraceAnswered
  <2>3. CASE RefreshFailed
    BY <2>1, <2>3 DEF RefreshFailed, UiInv, UiFields
  <2>4. CASE TraceFailed
    BY <2>1, <2>4 DEF TraceFailed, UiInv, UiFields
  <2>5. CASE LogAnswered
    BY <2>1, <2>5 DEF LogAnswered, UiInv, UiFields
  <2> QED
    BY <2>2, <2>3, <2>4, <2>5 DEF Answer
<1> QED
  BY <1>1, <1>2, <1>3, ReplaceIfChanged DEF BaseInv

LEMMA AnswerBase == ASSUME BaseInv, Answer  PROVE BaseInv'
<1>1. /\ Answered(ui') /\ UNCHANGED <<at, clock, events>>
      /\ (UNCHANGED entries /\ ui'.ws = ui.ws) \/ Written(ToUrl(ui'.ws))
  BY AnswerSteps
<1>2. UiInv(ui') /\ WorkspaceInv(ui'.ws)
  BY <1>1 DEF Answered, UiInv
<1>3. ComponentInv'
  BY <1>1, <1>2 DEF BaseInv, ComponentInv
<1>4. DetailInv'
  BY <1>1 DEF BaseInv, DetailInv, Answered, Kept
<1>5. RequestInv'
  BY <1>1 DEF BaseInv, RequestInv, Answered
<1>6. HistoryInv'
  <2>1. CASE UNCHANGED entries
    BY <1>1, <2>1 DEF BaseInv, HistoryInv
  <2>2. CASE Written(ToUrl(ui'.ws))
    BY <1>2, <2>2, WrittenHistory DEF BaseInv
  <2> QED
    BY <1>1, <2>1, <2>2
<1> QED
  BY <1>3, <1>4, <1>5, <1>6 DEF BaseInv

\* The timer and the refresh key find a time that has a whole range before it.
LEMMA NextTime ==
  ASSUME BaseInv, clock' = clock + 1
  PROVE  clock' \in Nat /\ StartTime <= clock' /\ MaxLookback <= clock'
BY WorkbenchAssumption, WorkspaceAssumption DEF BaseInv, ComponentInv

LEMMA TickBase ==
  ASSUME BaseInv, Tick
  PROVE  /\ BaseInv' /\ Written(ToUrl(ui'.ws))
         /\ ui'.rendered = ui.rendered /\ ui'.connected = ui.connected
         /\ ui'.refreshes = ui.refreshes /\ ui'.phase = ui.phase /\ ui'.lists = ui.lists
         /\ ui'.ws.signal = ui.ws.signal /\ ui'.ws.selectedTraceId = ui.ws.selectedTraceId
<1>1. UiInv(ui) /\ clock' \in Nat /\ StartTime <= clock' /\ MaxLookback <= clock'
  BY NextTime DEF BaseInv, ComponentInv, Tick
<1>2. ui' = RefreshNow(ui, clock') /\ ~ui.ws.refreshPaused
  BY DEF Tick
<1>3. /\ UiInv(ui')
      /\ ui'.ws.signal = ui.ws.signal /\ ui'.ws.selectedTraceId = ui.ws.selectedTraceId
      /\ ui'.ws.selectedLogId = ui.ws.selectedLogId
      /\ \A f \in UiFields \ {"ws", "phase", "refreshes"} : ui'[f] = ui[f]
      /\ ui'.refreshes = ui.refreshes /\ ui'.phase = ui.phase
  BY <1>1, <1>2, RefreshNowSound
<1>4. /\ ui'.rendered = ui.rendered /\ ui'.connected = ui.connected /\ ui'.lists = ui.lists
      /\ ui'.traceDetail = ui.traceDetail /\ ui'.fresh = ui.fresh
      /\ ui'.logDetail = ui.logDetail /\ ui'.logLoad = ui.logLoad
  BY <1>3 DEF UiFields
<1>5. ComponentInv'
  BY <1>1, <1>3 DEF BaseInv, ComponentInv, Tick
<1>6. DetailInv'
  BY <1>3, <1>4 DEF BaseInv, DetailInv, DetailsOf
<1>7. RequestInv'
  BY <1>3, <1>4 DEF BaseInv, RequestInv
<1>8. Written(ToUrl(ui'.ws))
  BY ReplaceWrites DEF BaseInv, Tick
<1>9. HistoryInv'
  BY <1>3, <1>8, WrittenHistory DEF BaseInv, UiInv
<1> QED
  BY <1>3, <1>4, <1>5, <1>6, <1>7, <1>8, <1>9 DEF BaseInv

LEMMA PressRefreshBase ==
  ASSUME BaseInv, PressRefresh
  PROVE  /\ BaseInv'
         /\ (UNCHANGED entries /\ ui'.ws = ui.ws) \/ Written(ToUrl(ui'.ws))
         /\ ui' = RunEffectsOf(RefreshNow(ui, clock')) /\ ui'.ws = RefreshNow(ui, clock').ws
<1>1. UiInv(ui) /\ clock' \in Nat /\ StartTime <= clock' /\ MaxLookback <= clock'
  BY NextTime DEF BaseInv, ComponentInv, PressRefresh
<1> DEFINE u == RefreshNow(ui, clock')
<1>2. ui' = RunEffectsOf(u)
  BY DEF PressRefresh
<1>3. /\ UiInv(u)
      /\ \A f \in UiFields \ {"ws", "phase", "refreshes"} : u[f] = ui[f]
      /\ \/ u = Refresh(ui)
         \/ u.refreshes = ui.refreshes
  BY <1>1, RefreshNowSound
<1>4. u = Refresh(ui) =>
        \A r \in u.refreshes : r.current => ui.connected /\ r.revision = Revision(u.ws)
  <2> SUFFICES ASSUME u = Refresh(ui), NEW r \in u.refreshes, r.current
               PROVE  ui.connected /\ r.revision = Revision(u.ws)
    OBVIOUS
  <2>1. /\ \A f \in UiFields \ {"refreshes", "phase"} : Refresh(ui)[f] = ui[f]
        /\ ~ui.connected => Refresh(ui) = ui
        /\ ui.connected => \A q \in Refresh(ui).refreshes : q.current => q.revision = Revision(ui.ws)
    BY <1>1, RefreshSound
  <2> HIDE DEF u
  <2>2. u.ws = ui.ws
    BY <2>1 DEF UiFields
  <2> QED
    BY <2>1, <2>2 DEF BaseInv, RequestInv
<1> HIDE DEF u
<1>5. /\ u.rendered = ui.rendered /\ u.connected = ui.connected
      /\ u.traceDetail = ui.traceDetail /\ u.fresh = ui.fresh
      /\ u.logDetail = ui.logDetail /\ u.logLoad = ui.logLoad
  BY <1>3 DEF UiFields
<1>6. DetailsOf(u) /\ (u.rendered.connected => u.connected)
  BY <1>5 DEF BaseInv, DetailInv, DetailsOf
<1>7. \A r \in u.refreshes : r.current => u.connected /\ r.revision \in {u.rendered.revision, Revision(u.ws)}
  BY <1>3, <1>4, <1>5 DEF BaseInv, RequestInv
<1>8. ui'.ws = u.ws
  BY <1>2, <1>3, EffectsSound
<1>9. (UNCHANGED entries /\ ui'.ws = ui.ws) \/ Written(ToUrl(ui'.ws))
  BY ReplaceIfChanged DEF BaseInv, PressRefresh
<1>10. HistoryInv'
  <2>1. CASE UNCHANGED entries
    BY <2>1 DEF BaseInv, HistoryInv, PressRefresh
  <2>2. CASE Written(ToUrl(ui'.ws))
    <3>1. WorkspaceInv(ui'.ws)
      BY <1>3, <1>8 DEF UiInv
    <3> QED
      BY <2>2, <3>1, WrittenHistory DEF BaseInv
  <2> QED
    BY <1>9, <2>1, <2>2
<1>11. events' \in Nat
  BY DEF BaseInv, ComponentInv, PressRefresh
<1> QED
  BY <1>1, <1>2, <1>3, <1>6, <1>7, <1>8, <1>9, <1>10, <1>11, RenderedBase DEF u

\* The effects run for the component as it is, but for some fields.
LEMMA SimilarBase ==
  ASSUME BaseInv, NEW u, UiInv(u), u.rendered = ui.rendered, ui.connected => u.connected,
         u.refreshes = ui.refreshes, u.traceDetail = ui.traceDetail, u.fresh = ui.fresh,
         u.logDetail = ui.logDetail, u.logLoad = ui.logLoad, ui' = RunEffectsOf(u),
         events' \in Nat, clock' = clock, HistoryInv'
  PROVE  BaseInv' /\ ui'.ws = u.ws
<1>1. DetailsOf(u) /\ (u.rendered.connected => u.connected)
  BY DEF BaseInv, DetailInv, DetailsOf
<1>2. \A r \in u.refreshes : r.current => u.connected /\ r.revision \in {u.rendered.revision, Revision(u.ws)}
  BY DEF BaseInv, RequestInv
<1>3. clock' \in Nat /\ StartTime <= clock'
  BY DEF BaseInv, ComponentInv
<1> QED
  BY <1>1, <1>2, <1>3, RenderedBase

LEMMA ConnectBase ==
  ASSUME BaseInv, Connect
  PROVE  BaseInv' /\ ui'.ws = ui.ws
<1> DEFINE u == [ui EXCEPT !.connected = TRUE]
<1>1. UiInv(ui)
  BY DEF BaseInv, ComponentInv
<1>2. /\ DOMAIN u = UiFields /\ u.connected = TRUE
      /\ u.ws = ui.ws /\ u.rendered = ui.rendered /\ u.refreshes = ui.refreshes /\ u.loads = ui.loads
      /\ u.lists = ui.lists /\ u.traceDetail = ui.traceDetail /\ u.fresh = ui.fresh
      /\ u.logDetail = ui.logDetail /\ u.logLoad = ui.logLoad
  BY <1>1 DEF UiInv, UiFields
<1>3. ui' = RunEffectsOf(u) /\ events' \in Nat /\ clock' = clock /\ HistoryInv'
  BY DEF Connect, BaseInv, ComponentInv, HistoryInv
<1> HIDE DEF u
<1>4. UiInv(u)
  BY <1>1, <1>2 DEF UiInv
<1> QED
  BY <1>2, <1>3, <1>4, SimilarBase

LEMMA RunEffectsBase ==
  ASSUME BaseInv, RunEffects
  PROVE  BaseInv' /\ ui'.ws = ui.ws
<1>1. UiInv(ui) /\ ui' = RunEffectsOf(ui) /\ events' \in Nat /\ clock' = clock /\ HistoryInv'
  BY DEF RunEffects, BaseInv, ComponentInv, HistoryInv
<1> QED
  BY <1>1, SimilarBase

LEMMA PopStateBase ==
  ASSUME BaseInv, PopState
  PROVE  /\ BaseInv' /\ at' \in DOMAIN entries
         /\ ui'.ws = FromUrl(entries[at'], Fallback) /\ WorkspaceInv(ui'.ws)
         /\ ui' = RunEffectsOf([ui EXCEPT !.ws = ui'.ws])
<1>1. PICK i \in DOMAIN entries :
        at' = i /\ ui' = RunEffectsOf([ui EXCEPT !.ws = FromUrl(entries[i], Fallback)])
  BY DEF PopState
<1> DEFINE ws == FromUrl(entries[i], Fallback)
           u == [ui EXCEPT !.ws = ws]
<1>2. WorkspaceInv(ws)
  BY EntryIsAddress, FromUrlSound DEF BaseInv, HistoryInv
<1>3. UiInv(ui)
  BY DEF BaseInv, ComponentInv
<1> HIDE DEF ws
<1>4. /\ DOMAIN u = UiFields /\ u.ws = ws
      /\ u.connected = ui.connected /\ u.rendered = ui.rendered
      /\ u.refreshes = ui.refreshes /\ u.loads = ui.loads
      /\ u.lists = ui.lists /\ u.traceDetail = ui.traceDetail /\ u.fresh = ui.fresh
      /\ u.logDetail = ui.logDetail /\ u.logLoad = ui.logLoad
  BY <1>3 DEF UiInv, UiFields
<1>5. ui' = RunEffectsOf(u)
  BY <1>1 DEF ws
<1>6. events' \in Nat /\ clock' = clock /\ HistoryInv'
  BY <1>1 DEF PopState, BaseInv, ComponentInv, HistoryInv
<1> HIDE DEF u
<1>7. UiInv(u)
  BY <1>3, <1>2, <1>4 DEF UiInv
<1>8. BaseInv' /\ ui'.ws = ws
  BY <1>4, <1>5, <1>6, <1>7, SimilarBase
<1> QED
  BY <1>1, <1>2, <1>5, <1>8 DEF u, ws

LEMMA BaseStep == BaseInv /\ [Next]_vars => BaseInv'
<1> SUFFICES ASSUME BaseInv, [Next]_vars  PROVE BaseInv'
  OBVIOUS
<1>1. ASSUME NEW next, WorkspaceInv(next), Dispatch(next)  PROVE BaseInv'
  BY <1>1, DispatchBase
<1>2. CASE User
  BY <1>1, <1>2, UserSteps, PressRefreshBase, PopStateBase
<1>3. CASE Connect \/ RunEffects \/ Tick
  BY <1>3, ConnectBase, RunEffectsBase, TickBase
<1>4. CASE Answer
  BY <1>4, AnswerBase
<1>5. CASE UNCHANGED vars
  BY <1>5 DEF vars, BaseInv, ComponentInv, DetailInv, RequestInv, HistoryInv
<1> QED
  BY <1>2, <1>3, <1>4, <1>5 DEF Next, Answer

\* Whatever is opened, done, answered, late or restored, the page is well-formed.
THEOREM WorkbenchBase == Spec => []BaseInv
<1> QED
  BY BaseInit, BaseStep, PTL DEF Spec

\* The details that are shown are those of the selection (loadTraceDetail and the
\* two detail effects).
THEOREM DetailsCorrect == Spec => []DetailCurrent
<1>1. ASSUME BaseInv  PROVE DetailCurrent
  <2> SUFFICES ASSUME ui.connected, ui.rendered = Dependencies(ui)
               PROVE  /\ ui.traceDetail \in {None, ui.ws.selectedTraceId}
                      /\ ui.logDetail \in {None, ui.ws.selectedLogId}
                      /\ ui.logLoad \in {None, ui.ws.selectedLogId}
                      /\ ui.ws.selectedTraceId # None /\ ui.traceDetail = None => ~ui.fresh
    BY DEF DetailCurrent, EffectsPending
  <2>1. /\ ui.rendered.trace = ui.ws.selectedTraceId /\ ui.rendered.log = ui.ws.selectedLogId
        /\ ui.rendered.connected
    BY <1>1 DEF Dependencies, BaseInv, DetailInv
  <2> QED
    BY <1>1, <2>1 DEF BaseInv, DetailInv, DetailsOf
<1> QED
  BY <1>1, WorkbenchBase, PTL

\* No late answer takes the selection away (results-refreshed and the checks
\* before it).
THEOREM SelectionsCorrect == Spec => SelectionKept
<1> DEFINE Taken == /\ UNCHANGED events
                    /\ ui.ws.selectedTraceId # None
                    /\ ui'.ws.selectedTraceId # ui.ws.selectedTraceId
                    => /\ ui.ws.signal = "traces"
                       /\ ui'.lists["traces"].asked = AskedBy(ui.ws)
                       /\ ui.ws.selectedTraceId \notin ui'.lists["traces"].ids
<1>1. ASSUME BaseInv, [Next]_vars  PROVE [Taken]_vars
  <2>1. CASE User
    <3>1. events' = events + 1 /\ events \in Nat
      <4>1. ASSUME NEW next, Dispatch(next)  PROVE events' = events + 1
        BY <4>1 DEF Dispatch
      <4> QED
        BY <1>1, <2>1, <4>1, UserSteps DEF PressRefresh, PopState, BaseInv, ComponentInv
    <3> QED
      BY <3>1
  <2>2. CASE Connect \/ RunEffects \/ Tick
    BY <1>1, <2>2, ConnectBase, RunEffectsBase, TickBase
  <2>3. CASE Answer
    BY <1>1, <2>3, AnswerSteps DEF Answered
  <2>4. CASE UNCHANGED vars
    BY <2>4
  <2> QED
    BY <1>1, <2>1, <2>2, <2>3, <2>4 DEF Next, Answer
<1> QED
  BY <1>1, WorkbenchBase, PTL DEF Spec, SelectionKept

-----------------------------------------------------------------------------
(* Results.                                                                 *)

\* A workspace whose revision is that of another asks for the same.
LEMMA SameRevision ==
  ASSUME NEW ws, NEW other, Revision(ws) = Revision(other)
  PROVE  ws.signal = other.signal /\ AskedBy(ws) = AskedBy(other)
<1>1. /\ AskedOf(Revision(ws)) = AskedBy(ws) /\ Revision(ws).signal = ws.signal
      /\ AskedOf(Revision(other)) = AskedBy(other) /\ Revision(other).signal = other.signal
  BY AskedOfRevision
<1> QED
  BY <1>1

\* Another workspace, before the effects run: they will ask for what it asks, or
\* it asks what was asked before, or the page goes back to what was rendered.
LEMMA ChangeAttended ==
  ASSUME Attended(ui), NEW u, u.refreshes = ui.refreshes, u.rendered = ui.rendered,
         u.ws.signal = ui.ws.signal => u.phase = ui.phase /\ u.lists = ui.lists
  PROVE  Attended(u) \/ Returns(ui, u.ws)
<1>1. CASE \E r \in ui.refreshes : r.current
  BY <1>1 DEF Attended
<1>2. CASE Revision(u.ws) # ui.rendered.revision
  BY <1>2 DEF Attended
<1>3. CASE /\ \A r \in ui.refreshes : ~r.current
           /\ Revision(u.ws) = ui.rendered.revision
           /\ Revision(ui.ws) # ui.rendered.revision
  BY <1>3 DEF Returns
<1>4. CASE /\ \A r \in ui.refreshes : ~r.current
           /\ Revision(u.ws) = ui.rendered.revision
           /\ Revision(ui.ws) = ui.rendered.revision
  <2>1. u.ws.signal = ui.ws.signal /\ AskedBy(u.ws) = AskedBy(ui.ws)
    BY <1>4, SameRevision
  <2> QED
    BY <1>4, <2>1 DEF Attended
<1> QED
  BY <1>1, <1>2, <1>3, <1>4

\* What every step of a connected page does.
StaysAttended ==
  /\ ui'.connected = ui.connected
  /\ ui.connected /\ Attended(ui) => Attended(ui') \/ Returns(ui, ui'.ws)

\* The page is attended to once the effects have run.
LEMMA RenderAttended ==
  ASSUME NEW u, UiInv(u), u.connected = ui.connected, ui' = RunEffectsOf(u),
         Attended(ui) /\ ui.connected => Attended(u) \/ Returns(ui, u.ws)
  PROVE  StaysAttended
BY EffectsSound DEF StaysAttended

\* A transition of the user.
LEMMA DispatchAttended ==
  ASSUME BaseInv, NEW next, WorkspaceInv(next), Dispatch(next)
  PROVE  StaysAttended
<1> DEFINE u == Commit(ui, next)
           ws == [next EXCEPT !.history = <<>>]
<1>1. UiInv(ui)
  BY DEF BaseInv, ComponentInv
<1>2. /\ UiInv(u) /\ u.ws = ws
      /\ \A f \in UiFields \ {"ws", "phase", "lists"} : u[f] = ui[f]
      /\ \A f \in WorkspaceFields \ {"history"} : ws[f] = next[f]
      /\ next.signal = ui.ws.signal => u.phase = ui.phase /\ u.lists = ui.lists
  BY <1>1, CommitSound
<1>3. ui' = RunEffectsOf(u)
  BY DEF Dispatch
<1> HIDE DEF u, ws
<1>4. /\ u.refreshes = ui.refreshes /\ u.rendered = ui.rendered /\ u.connected = ui.connected
      /\ u.ws.signal = next.signal
  BY <1>2 DEF UiFields, WorkspaceFields
<1>5. Attended(ui) => Attended(u) \/ Returns(ui, u.ws)
  BY <1>2, <1>4, ChangeAttended
<1> QED
  BY <1>2, <1>3, <1>4, <1>5, RenderAttended

\* The refresh key or button: the query is asked again, or the range moves on.
LEMMA PressRefreshAttended ==
  ASSUME BaseInv, PressRefresh
  PROVE  StaysAttended
<1> DEFINE u == RefreshNow(ui, clock')
<1>1. UiInv(ui) /\ clock' \in Nat /\ MaxLookback <= clock'
  BY NextTime DEF BaseInv, ComponentInv, PressRefresh
<1>2. ui' = RunEffectsOf(u)
  BY DEF PressRefresh
<1>3. /\ UiInv(u)
      /\ \A f \in UiFields \ {"ws", "phase", "refreshes"} : u[f] = ui[f]
      /\ \/ u = Refresh(ui)
         \/ u.refreshes = ui.refreshes /\ u.phase = ui.phase
  BY <1>1, RefreshNowSound
<1>4. u = Refresh(ui) /\ ui.connected => \E r \in u.refreshes : r.current
  BY <1>1, RefreshSound
<1> HIDE DEF u
<1>5. u.rendered = ui.rendered /\ u.connected = ui.connected /\ u.lists = ui.lists
  BY <1>3 DEF UiFields
<1>6. ui.connected /\ Attended(ui) => Attended(u) \/ Returns(ui, u.ws)
  <2>1. CASE u = Refresh(ui)
    BY <1>4, <2>1 DEF Attended
  <2>2. CASE u.refreshes = ui.refreshes /\ u.phase = ui.phase
    BY <1>5, <2>2, ChangeAttended
  <2> QED
    BY <1>3, <2>1, <2>2
<1> QED
  BY <1>2, <1>3, <1>5, <1>6, RenderAttended

\* The browser's back and forward.
LEMMA PopStateAttended ==
  ASSUME BaseInv, PopState
  PROVE  StaysAttended
<1> DEFINE ws == ui'.ws
           u == [ui EXCEPT !.ws = ws]
<1>1. ui' = RunEffectsOf(u) /\ WorkspaceInv(ws)
  BY PopStateBase
<1>2. UiInv(ui)
  BY DEF BaseInv, ComponentInv
<1> HIDE DEF ws
<1>3. /\ DOMAIN u = UiFields /\ u.ws = ws
      /\ u.connected = ui.connected /\ u.rendered = ui.rendered
      /\ u.refreshes = ui.refreshes /\ u.loads = ui.loads
      /\ u.lists = ui.lists /\ u.phase = ui.phase
  BY <1>2 DEF UiInv, UiFields
<1> HIDE DEF u
<1>4. UiInv(u)
  BY <1>1, <1>2, <1>3 DEF UiInv
<1>5. Attended(ui) => Attended(u) \/ Returns(ui, u.ws)
  BY <1>3, ChangeAttended
<1> QED
  BY <1>1, <1>3, <1>4, <1>5, RenderAttended

\* The data source is there: everything is asked for.
LEMMA ConnectAttended == ASSUME BaseInv, Connect  PROVE Attended(ui')
<1> DEFINE u == [ui EXCEPT !.connected = TRUE]
<1>1. UiInv(ui) /\ ui' = RunEffectsOf(u)
  BY DEF BaseInv, ComponentInv, Connect
<1>2. /\ DOMAIN u = UiFields /\ u.connected = TRUE
      /\ u.ws = ui.ws /\ u.rendered = ui.rendered /\ u.refreshes = ui.refreshes /\ u.loads = ui.loads
      /\ u.lists = ui.lists
  BY <1>1 DEF UiInv, UiFields
<1> HIDE DEF u
<1>3. UiInv(u)
  BY <1>1, <1>2 DEF UiInv
<1>4. ~u.rendered.connected
  BY <1>2 DEF BaseInv, DetailInv, Connect
<1> QED
  BY <1>1, <1>2, <1>3, <1>4, EffectsSound

\* React renders, the timer ticks or an answer comes.
LEMMA ItselfAttended ==
  ASSUME BaseInv, RunEffects \/ Tick \/ Answer
  PROVE  StaysAttended
<1>1. CASE RunEffects
  <2>1. UiInv(ui) /\ ui' = RunEffectsOf(ui)
    BY <1>1 DEF BaseInv, ComponentInv, RunEffects
  <2> QED
    BY <2>1, RenderAttended
<1>2. CASE Tick
  <2>1. /\ ui'.rendered = ui.rendered /\ ui'.refreshes = ui.refreshes
        /\ ui'.phase = ui.phase /\ ui'.lists = ui.lists /\ ui'.connected = ui.connected
    BY <1>2, TickBase
  <2> QED
    BY <2>1, ChangeAttended DEF StaysAttended
<1>3. CASE Answer
  BY <1>3, AnswerSteps DEF Answered, StaysAttended
<1> QED
  BY <1>1, <1>2, <1>3

\* The page is attended to, whatever is changed, answered, superseded or restored,
\* but for a return to the query that was rendered last before React has rendered
\* the one in between (refresh, commitState, the popstate listener and the effect
\* on the query's revision).
THEOREM ResultsCorrect == Spec => ResultsCurrent
<1> DEFINE Goal == (ui.connected => Attended(ui)) /\ ui'.connected => Attended(ui') \/ Returns(ui, ui'.ws)
<1>1. ASSUME BaseInv, [Next]_vars  PROVE [Goal]_vars
  <2>1. CASE Connect
    BY <1>1, <2>1, ConnectAttended
  <2>2. CASE User
    <3>1. ASSUME NEW next, WorkspaceInv(next), Dispatch(next)  PROVE StaysAttended
      BY <1>1, <3>1, DispatchAttended
    <3>2. StaysAttended
      BY <1>1, <2>2, <3>1, UserSteps, PressRefreshAttended, PopStateAttended
    <3> QED
      BY <3>2 DEF StaysAttended
  <2>3. CASE RunEffects \/ Tick \/ Answer
    BY <1>1, <2>3, ItselfAttended DEF StaysAttended
  <2>4. CASE UNCHANGED vars
    BY <2>4
  <2> QED
    BY <1>1, <2>1, <2>2, <2>3, <2>4 DEF Next, Answer
<1> QED
  BY <1>1, WorkbenchBase, PTL DEF Spec, ResultsCurrent

-----------------------------------------------------------------------------
(* The address in the browser.                                              *)

\* What an address keeps of a sequence it keeps the next time.
LEMMA FirstOfTwice ==
  ASSUME NEW seq, IsShort(seq, Len(seq)), NEW n \in Nat
  PROVE  FirstOf(FirstOf(seq, n), n) = FirstOf(seq, n)
<1> DEFINE first == FirstOf(seq, n)
<1>1. IsShort(first, n)
  BY FirstOfShort
<1> HIDE DEF first
<1>2. IsShort(first, Len(first)) /\ Len(first) <= n
  BY <1>1 DEF IsShort
<1>3. FirstOf(first, n) = first
  BY <1>2, FirstOfShort
<1> QED
  BY <1>3 DEF first

\* The fields that an address keeps as they are, and the others.
LEMMA AddressedFields ==
  ASSUME NEW ws, WorkspaceInv(ws)
  PROVE  LET kept == Addressed(ws)
             shown == ws.traceQuery.to - ws.traceQuery.from IN
         /\ kept.signal = ws.signal /\ QueryOf(kept) = QueryOf(ws)
         /\ kept.selectedTraceId = ws.selectedTraceId /\ kept.selectedSpanId = ws.selectedSpanId
         /\ kept.selectedLogId = ws.selectedLogId /\ kept.logCorrelation = ws.logCorrelation
         /\ kept.refreshPaused = ws.refreshPaused
         /\ kept.serviceFilter = FirstOf(ws.serviceFilter, MaxServiceFilters)
         /\ kept.liveRangeDuration = IF shown > 0 THEN shown ELSE DefaultDuration
BY DEF WorkspaceInv, WorkspaceFields, Addressed, QueryOf

\* An address that was written names its range and that it is live.
LEMMA EntryRange ==
  ASSUME NEW url, EntryInv(url)
  PROVE  LET shown == url.to - url.from IN
         /\ UrlRange(url, Fallback) = [from |-> url.from, to |-> url.to]
         /\ UrlLiveRange(url, Fallback) = IF shown > 0 THEN shown ELSE DefaultDuration
<1>1. /\ url.from \in Nat /\ url.to \in Nat /\ url.live /\ None \notin Int
      /\ url.to - url.from \in 0..MaxLookback /\ MaxLookback \in Nat
  BY WorkspaceAssumption DEF EntryInv
<1>2. UrlRange(url, Fallback) = [from |-> url.from, to |-> url.to]
  BY <1>1 DEF UrlRange
<1>3. UrlLiveRange(url, Fallback) =
        IF url.to - url.from > 0 THEN url.to - url.from ELSE Fallback.liveRangeDuration
  BY <1>1, <1>2 DEF UrlLiveRange
<1> QED
  BY <1>2, <1>3, FallbackSound

LEMMA RoundTripRange ==
  ASSUME NEW ws, WorkspaceInv(ws)
  PROVE  LET url == ToUrl(ws) IN
         /\ IsAddress(url)
         /\ UrlRange(url, Fallback) = [from |-> ws.traceQuery.from, to |-> ws.traceQuery.to]
         /\ UrlLiveRange(url, Fallback) = Addressed(ws).liveRangeDuration
<1> DEFINE url == ToUrl(ws)
<1>1. EntryInv(url) /\ url.to = ws.traceQuery.to /\ url.from = ws.traceQuery.from
  BY WrittenSound
<1>2. IsAddress(url)
  BY <1>1, EntryIsAddress
<1> HIDE DEF url
<1>3. /\ UrlRange(url, Fallback) = [from |-> url.from, to |-> url.to]
      /\ UrlLiveRange(url, Fallback) =
           IF url.to - url.from > 0 THEN url.to - url.from ELSE DefaultDuration
  BY <1>1, EntryRange
<1>4. UrlLiveRange(url, Fallback) = Addressed(ws).liveRangeDuration
  BY <1>1, <1>3, AddressedFields
<1> QED
  BY <1>1, <1>2, <1>3, <1>4 DEF url

\* The correlation is restored.
LEMMA RoundTripCorrelation ==
  ASSUME NEW ws, WorkspaceInv(ws)
  PROVE  UrlCorrelation(ToUrl(ws)) = ws.logCorrelation
<1> DEFINE url == ToUrl(ws)
<1>1. CASE ws.logCorrelation = None
  <2>1. url.correlation = None
    BY <1>1 DEF ToUrl
  <2> QED
    BY <1>1, <2>1 DEF UrlCorrelation
<1>2. CASE ws.logCorrelation # None
  <2>1. /\ ws.signal = "logs" /\ ws.logQuery.traceId # None
        /\ ws.logCorrelation = [traceId |-> ws.logQuery.traceId, spanId |-> ws.logCorrelation.spanId]
        /\ ws.logCorrelation.spanId \in {None, ws.logQuery.spanId}
    BY <1>2 DEF WorkspaceInv
  <2>2. /\ url.signal = "logs" /\ url.filterTrace = ws.logQuery.traceId /\ url.filterSpan = ws.logQuery.spanId
        /\ url.correlation = IF ws.logCorrelation.spanId = None THEN "trace" ELSE "span"
    BY <1>2, <2>1 DEF ToUrl, QueryOf
  <2>3. "trace" # None /\ "span" # None
    BY WorkspaceAssumption
  <2> HIDE DEF url
  <2>4. UrlCorrelation(url) =
          [traceId |-> url.filterTrace, spanId |-> IF url.correlation = "span" THEN url.filterSpan ELSE None]
    BY <2>1, <2>2, <2>3 DEF UrlCorrelation
  <2>5. (IF url.correlation = "span" THEN url.filterSpan ELSE None) = ws.logCorrelation.spanId
    BY <2>1, <2>2
  <2> QED
    BY <2>1, <2>2, <2>4, <2>5 DEF url
<1> QED
  BY <1>1, <1>2

\* A query with the Services of the workspace.
LEMMA RoundTripQuery ==
  ASSUME NEW ws, WorkspaceInv(ws)
  PROVE  QueryOf(FromUrl(ToUrl(ws), Fallback)) =
           [QueryOf(ws) EXCEPT !.services = FirstOf(ws.serviceFilter, MaxServiceFilters)]
<1> DEFINE url == ToUrl(ws)
           next == FromUrl(url, Fallback)
           range == UrlRange(url, Fallback)
           services == FirstOf(url.services, MaxServiceFilters)
           attributes == FirstOf(url.attributes, MaxAttributeFilters)
<1>1. /\ IsAddress(url) /\ range = [from |-> ws.traceQuery.from, to |-> ws.traceQuery.to]
  BY RoundTripRange
<1>2. /\ url.signal = ws.signal /\ url.sort = QueryOf(ws).sort /\ url.text = QueryOf(ws).text
      /\ url.services = ws.serviceFilter /\ url.attributes = QueryOf(ws).attributes
      /\ url.filterTrace = QueryOf(ws).traceId
      /\ ws.signal = "traces" => url.traceOnly = ws.traceQuery.only
      /\ ws.signal = "logs" => url.logOnly = ws.logQuery.only /\ url.filterSpan = ws.logQuery.spanId
  BY DEF ToUrl, QueryOf
<1>3. services = FirstOf(ws.serviceFilter, MaxServiceFilters)
  BY <1>2
<1>4. attributes = QueryOf(ws).attributes
  <2>1. IsShort(QueryOf(ws).attributes, MaxAttributeFilters)
    BY DEF WorkspaceInv, QueryInv, QueryOf
  <2>2. IsShort(QueryOf(ws).attributes, Len(QueryOf(ws).attributes))
        /\ Len(QueryOf(ws).attributes) <= MaxAttributeFilters
    BY <2>1, WorkspaceAssumption DEF IsShort
  <2> QED
    BY <1>2, <2>2, FirstOfShort, WorkspaceAssumption
<1>5. /\ QueryInv(next.traceQuery, TraceQueryFields, TraceSorts)
      /\ QueryInv(next.logQuery, LogQueryFields, LogSorts)
      /\ \A query \in {next.traceQuery, next.logQuery} :
           /\ query.from = range.from /\ query.to = range.to
           /\ query.services = services /\ query.text = url.text
           /\ query.traceId = url.filterTrace /\ query.attributes = attributes
      /\ next.traceQuery.only = url.traceOnly /\ next.logQuery.only = url.logOnly
      /\ next.logQuery.spanId = url.filterSpan
      /\ next.traceQuery.sort = UrlSort(url, TraceSorts, Fallback.traceQuery.sort)
      /\ next.logQuery.sort = UrlSort(url, LogSorts, Fallback.logQuery.sort)
  BY <1>1, RestoredQueries
<1>6. next.signal = url.signal
  BY <1>1, FromUrlSound
<1> HIDE DEF next, url, range, services, attributes
<1>7. CASE ws.signal = "traces"
  <2> DEFINE query == ws.traceQuery
             other == next.traceQuery
  <2>1. QueryOf(ws) = query /\ QueryOf(next) = other
    BY <1>2, <1>6, <1>7 DEF QueryOf
  <2>2. other.sort = query.sort
    BY <1>2, <1>5, <2>1 DEF UrlSort, WorkspaceInv, QueryInv
  <2>3. /\ other.from = query.from /\ other.to = query.to /\ other.services = services
        /\ other.text = query.text /\ other.traceId = query.traceId
        /\ other.attributes = query.attributes /\ other.only = query.only
    BY <1>1, <1>2, <1>4, <1>5, <1>7, <2>1
  <2>4. query = [f \in TraceQueryFields |-> query[f]] /\ other = [f \in TraceQueryFields |-> other[f]]
    BY <1>5 DEF WorkspaceInv, QueryInv
  <2> HIDE DEF query, other
  <2>5. other = [query EXCEPT !.services = services]
    BY <2>2, <2>3, <2>4 DEF TraceQueryFields
  <2> QED
    BY <1>3, <2>1, <2>5 DEF next, url
<1>8. CASE ws.signal = "logs"
  <2> DEFINE query == ws.logQuery
             other == next.logQuery
  <2>1. QueryOf(ws) = query /\ QueryOf(next) = other
    BY <1>2, <1>6, <1>8 DEF QueryOf
  <2>2. other.sort = query.sort
    BY <1>2, <1>5, <2>1 DEF UrlSort, WorkspaceInv, QueryInv
  <2>3. /\ other.from = query.from /\ other.to = query.to /\ other.services = services
        /\ other.text = query.text /\ other.traceId = query.traceId /\ other.spanId = query.spanId
        /\ other.attributes = query.attributes /\ other.only = query.only
    BY <1>1, <1>2, <1>4, <1>5, <1>8, <2>1 DEF WorkspaceInv
  <2>4. query = [f \in LogQueryFields |-> query[f]] /\ other = [f \in LogQueryFields |-> other[f]]
    BY <1>5 DEF WorkspaceInv, QueryInv
  <2> HIDE DEF query, other
  <2>5. other = [query EXCEPT !.services = services]
    BY <2>2, <2>3, <2>4 DEF TraceQueryFields, LogQueryFields
  <2> QED
    BY <1>3, <2>1, <2>5 DEF next, url
<1> QED
  BY <1>7, <1>8 DEF WorkspaceInv, Signals

\* Writing the address of a workspace and restoring it shows what an address keeps.
THEOREM RoundTrip ==
  ASSUME NEW ws, WorkspaceInv(ws)
  PROVE  View(FromUrl(ToUrl(ws), Fallback)) = View(Addressed(ws))
<1> DEFINE url == ToUrl(ws)
           next == FromUrl(url, Fallback)
           kept == Addressed(ws)
           services == FirstOf(ws.serviceFilter, MaxServiceFilters)
<1>1. IsAddress(url) /\ UrlLiveRange(url, Fallback) = kept.liveRangeDuration
  BY RoundTripRange
<1>2. /\ url.signal = ws.signal /\ url.paused = ws.refreshPaused /\ url.log = ws.selectedLogId
      /\ url.services = ws.serviceFilter
      /\ ws.signal = "traces" => url.trace = ws.selectedTraceId /\ url.span = ws.selectedSpanId
  BY DEF ToUrl
<1>3. /\ next.signal = ws.signal /\ next.refreshPaused = ws.refreshPaused
      /\ next.liveRangeDuration = kept.liveRangeDuration
      /\ next.serviceFilter = services
      /\ next.selectedLogId = ws.selectedLogId
      /\ next.selectedTraceId = url.trace
      /\ next.selectedSpanId = IF url.trace = None THEN None ELSE url.span
      /\ next.logCorrelation = ws.logCorrelation
  BY <1>1, <1>2, FromUrlSound, RoundTripCorrelation
<1>4. ws.signal = "traces" =>
        next.selectedTraceId = ws.selectedTraceId /\ next.selectedSpanId = ws.selectedSpanId
  BY <1>2, <1>3 DEF WorkspaceInv
<1>5. QueryOf(next) = [QueryOf(ws) EXCEPT !.services = services]
  BY RoundTripQuery
<1>6. /\ kept.signal = ws.signal /\ QueryOf(kept) = QueryOf(ws)
      /\ kept.selectedTraceId = ws.selectedTraceId /\ kept.selectedSpanId = ws.selectedSpanId
      /\ kept.selectedLogId = ws.selectedLogId /\ kept.logCorrelation = ws.logCorrelation
      /\ kept.refreshPaused = ws.refreshPaused /\ kept.serviceFilter = services
  BY AddressedFields
<1> HIDE DEF next, kept, services
<1>7. [QueryOf(next) EXCEPT !.services = next.serviceFilter]
        = [QueryOf(kept) EXCEPT !.services = kept.serviceFilter]
  BY <1>3, <1>5, <1>6
<1>8. View(next) = View(kept)
  BY <1>3, <1>4, <1>6, <1>7 DEF View
<1> QED
  BY <1>8 DEF next, kept

AddressInv == BaseInv /\ AddressRestores

\* A step that wrote the address of what the page now shows.
LEMMA WrittenRestores ==
  ASSUME BaseInv', Written(ToUrl(ui'.ws))
  PROVE  AddressRestores'
<1>1. WorkspaceInv(ui'.ws)
  BY DEF BaseInv, ComponentInv, UiInv
<1>2. View(FromUrl(entries'[at'], Fallback)) = View(Addressed(ui'.ws))
  BY <1>1, RoundTrip DEF Written
<1> QED
  BY <1>2 DEF AddressRestores, Fallback

LEMMA AddressInit == Init => AddressInv
<1> SUFFICES ASSUME Init  PROVE AddressInv
  OBVIOUS
<1>1. BaseInv /\ WorkspaceInv(ui.ws)
  BY BaseInit DEF BaseInv, ComponentInv, UiInv
<1>2. entries = <<ToUrl(ui.ws)>> /\ at = 1
  BY DEF Init
<1>3. View(FromUrl(ToUrl(ui.ws), Fallback)) = View(Addressed(ui.ws))
  BY <1>1, RoundTrip
<1> QED
  BY <1>1, <1>2, <1>3 DEF AddressInv, AddressRestores

\* A step back or forward shows what the address restores, which is what an
\* address keeps of it.
LEMMA PopStateRestores ==
  ASSUME BaseInv, PopState
  PROVE  AddressRestores'
<1> DEFINE url == entries[at']
           ws == FromUrl(url, Fallback)
           kept == Addressed(ws)
<1>1. at' \in DOMAIN entries /\ ui'.ws = ws /\ WorkspaceInv(ws) /\ entries' = entries
  BY PopStateBase DEF PopState
<1>2. EntryInv(url)
  BY <1>1 DEF BaseInv, HistoryInv
<1> HIDE DEF url
<1>3. IsAddress(url)
  BY <1>2, EntryIsAddress
<1>4. /\ ws.liveRangeDuration = UrlLiveRange(url, Fallback)
      /\ ws.serviceFilter = FirstOf(url.services, MaxServiceFilters)
      /\ ws.traceQuery.from = UrlRange(url, Fallback).from
      /\ ws.traceQuery.to = UrlRange(url, Fallback).to
  BY <1>3, FromUrlSound, RestoredQueries
<1> HIDE DEF ws
<1>5. kept.liveRangeDuration = ws.liveRangeDuration
  <2>1. /\ ws.traceQuery.from = url.from /\ ws.traceQuery.to = url.to
        /\ ws.liveRangeDuration = IF url.to - url.from > 0 THEN url.to - url.from ELSE DefaultDuration
    BY <1>2, <1>4, EntryRange
  <2> QED
    BY <1>1, <2>1, AddressedFields
<1>6. kept.serviceFilter = ws.serviceFilter
  <2>1. IsShort(url.services, Len(url.services))
    BY <1>3 DEF IsAddress
  <2>2. FirstOf(ws.serviceFilter, MaxServiceFilters) = ws.serviceFilter
    BY <1>4, <2>1, FirstOfTwice, WorkspaceAssumption
  <2> QED
    BY <1>1, <2>2, AddressedFields
<1>7. /\ kept.signal = ws.signal /\ QueryOf(kept) = QueryOf(ws)
      /\ kept.selectedTraceId = ws.selectedTraceId /\ kept.selectedSpanId = ws.selectedSpanId
      /\ kept.selectedLogId = ws.selectedLogId /\ kept.logCorrelation = ws.logCorrelation
      /\ kept.refreshPaused = ws.refreshPaused
  BY <1>1, AddressedFields
<1>8. View(ws) = View(kept)
  <2> HIDE DEF kept
  <2> QED
    BY <1>5, <1>6, <1>7 DEF View
<1>9. View(FromUrl(entries'[at'], Fallback)) = View(Addressed(ui'.ws))
  BY <1>1, <1>8 DEF ws, url
<1> QED
  BY <1>9 DEF AddressRestores, Fallback

LEMMA AddressStep == AddressInv /\ [Next]_vars => AddressInv'
<1> SUFFICES ASSUME AddressInv, [Next]_vars  PROVE AddressInv'
  OBVIOUS
<1>1. BaseInv /\ BaseInv'
  BY BaseStep DEF AddressInv
<1>2. ASSUME NEW next, WorkspaceInv(next), Dispatch(next)  PROVE AddressInv'
  <2>1. ui'.ws = [next EXCEPT !.history = <<>>] /\ Written(ToUrl(next))
    BY <1>1, <1>2, DispatchBase
  <2>2. ToUrl([next EXCEPT !.history = <<>>]) = ToUrl(next)
    BY <1>1, <1>2, CommitSound DEF BaseInv, ComponentInv
  <2> QED
    BY <1>1, <2>1, <2>2, WrittenRestores DEF AddressInv
<1>3. ASSUME UNCHANGED <<entries, at>>, ui'.ws = ui.ws  PROVE AddressInv'
  BY <1>1, <1>3 DEF AddressInv, AddressRestores
<1>4. CASE Tick
  BY <1>1, <1>4, TickBase, WrittenRestores DEF AddressInv
<1>5. CASE PressRefresh
  <2>1. (UNCHANGED entries /\ ui'.ws = ui.ws) \/ Written(ToUrl(ui'.ws))
    BY <1>1, <1>5, PressRefreshBase
  <2>2. UNCHANGED at
    BY <1>5 DEF PressRefresh
  <2>3. CASE Written(ToUrl(ui'.ws))
    BY <1>1, <2>3, WrittenRestores DEF AddressInv
  <2> QED
    BY <1>3, <2>1, <2>2, <2>3
<1>6. CASE PopState
  BY <1>1, <1>6, PopStateRestores DEF AddressInv
<1>7. CASE User
  BY <1>1, <1>2, <1>5, <1>6, <1>7, UserSteps
<1>8. CASE Connect \/ RunEffects
  BY <1>1, <1>3, <1>8, ConnectBase, RunEffectsBase DEF Connect, RunEffects
<1>9. CASE Answer
  <2>1. /\ UNCHANGED <<at, clock, events>>
        /\ (UNCHANGED entries /\ ui'.ws = ui.ws) \/ Written(ToUrl(ui'.ws))
    BY <1>1, <1>9, AnswerSteps
  <2>2. CASE Written(ToUrl(ui'.ws))
    BY <1>1, <2>2, WrittenRestores DEF AddressInv
  <2> QED
    BY <1>3, <2>1, <2>2
<1>10. CASE UNCHANGED vars
  BY <1>3, <1>10 DEF vars
<1> QED
  BY <1>4, <1>7, <1>8, <1>9, <1>10 DEF Next, Answer

\* A reload, a bookmark and `back` lead to what the page shows, as far as an
\* address keeps it (workspaceToUrl, workspaceFromUrl and every place that writes
\* the address).
THEOREM AddressesCorrect == Spec => []AddressRestores
<1>1. AddressInv => AddressRestores
  BY DEF AddressInv
<1> QED
  BY <1>1, AddressInit, AddressStep, PTL DEF Spec

=============================================================================
