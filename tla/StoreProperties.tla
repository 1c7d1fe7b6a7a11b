--------------------------- MODULE StoreProperties ---------------------------
(***************************************************************************)
(* What is expected of the Telemetry Store and of paging through it.       *)
(***************************************************************************)
EXTENDS StorePaging

\* The projections agree with the records after any mixture of exports, exports
\* again and deletions: each record has the attribute and search rows of its
\* current version and no others, and the index keeps to its limits (writer.ts
\* deletes and rewrites them, retention.ts deletes them by hand or by cascade).
ProjectionsMatchRecords ==
  /\ store.spanIndex =
       UNION {{[record |-> SpanKey(s), key |-> a[1], value |-> a[2]] : a \in s.indexed} : s \in store.spans}
  /\ store.spanSearch = {[record |-> SpanKey(s), words |-> Words(s)] : s \in store.spans}
  /\ store.logIndex =
       UNION {{[record |-> l.id, key |-> a[1], value |-> a[2]] : a \in l.indexed} : l \in store.logs}
  /\ store.logSearch = {[record |-> l.id, words |-> Words(l)] : l \in store.logs}
  /\ Cardinality(Keys(IndexedPairs(store))) <= MaxKeys
  /\ \A k \in Keys(IndexedPairs(store)) : Cardinality(ValuesOf(IndexedPairs(store), k)) <= MaxValues

\* A trace's row is the summary of the spans the Store has of it, in whatever
\* order, batches and versions they arrived, and there is no row without a span
\* (materializeTrace; docs/05: traces are materialized from their spans).
TracesMatchSpans ==
  /\ DOMAIN store.traces = {s.trace : s \in store.spans}
  /\ \A t \in DOMAIN store.traces : store.traces[t] = TraceRow(SpansOf(store, t))

\* Every record's Service, resource and scope is there while the record is, and a
\* Service's bounds cover all its records, although spans are replaced and
\* retention deletes what nothing refers to (no foreign key can fail); and after
\* a sweep nothing is left that no record refers to.
ReferencesExact ==
  LET records == store.spans \cup store.logs IN
  /\ \A r \in records :
       /\ r.refs \subseteq store.references
       /\ r.service \in DOMAIN store.services
       /\ store.services[r.service].first <= r.start
       /\ r.start <= store.services[r.service].last
  /\ step = "swept" =>
       /\ DOMAIN store.services = {r.service : r \in records}
       /\ store.references = UNION {r.refs : r \in records}

\* The counters tell the history of the Store: every log accepted since the last
\* reset is in it or was deleted; and unless a retain failed or was cut off,
\* deletedRecords is what was deleted (docs/10: ingestion statistics).
CountersTellHistory ==
  /\ store.counters.logs = Cardinality(store.logs) + gone.logs
  /\ store.retention.deleted + round.deleted <= gone.records
  /\ starts <= 1 /\ failures = 0 /\ daemon # "down"
       => store.retention.deleted + round.deleted = gone.records

\* A page sequence is exact over what does not change: each row that has been
\* there with the same key since before the first page is on exactly one page
\* when the pages have passed it, and on none before; whatever is written,
\* replaced and deleted in between (docs/10: "deterministic time/ID keyset
\* positions").  With traces that end before they start the code departs from it:
\* their durations are below the -1 that stands for a running trace.
PagesExact ==
  LET Passed(r) == \/ cursor = None /\ got # <<>>
                   \/ cursor # None /\ ~AfterCursor(r, cursor, listing.sort)
  IN  reading \in {"reading", "done"} =>
        \A r \in steady :
          Cardinality({i \in DOMAIN got : got[i] = r.id}) = IF Passed(r) THEN 1 ELSE 0

\* No span ends before it starts, and none does that is listed by its duration: what
\* PagesExact needs of the exporters, as no decoder asks for it.
EndsAfterStarts(batches) ==
  \A batch \in batches : \A i \in DOMAIN batch : batch[i].end # None => batch[i].start <= batch[i].end
DurationsNatural == (\E q \in Listings : q.sort = "slowest") => EndsAfterStarts(TraceBatches)

\* Retention deletes the oldest first: what a sweep deletes is older than all it
\* leaves, is at most a batch, and was expired or over the budget (docs/05:
\* "deletes the globally oldest traces/logs in bounded batches").
SweepsOldest ==
  [][step = "marked" /\ step' = "swept" =>
       LET left == Telemetry(store)'
           lost == Telemetry(store) \ left
       IN  /\ Cardinality(lost) <= BatchSize
           /\ \A c \in lost : \A d \in left : OlderThan(c, d)
           /\ (\E c \in lost : c.time >= round.cutoff) => OverBudget(store)]_vars

\* The retention loop comes to rest, as every batch it asks for deletes
\* something, unless writes, failures or restarts keep it busy.
RetentionSettles == loop /\ daemon = "ready" ~> ~loop \/ daemon # "ready"

-----------------------------------------------------------------------------
(* A statement of the documentation that the code departs from.             *)

\* Paging through correlated logs or Services ends with the results and not
\* with a refused cursor.  docs/07: correlated logs "use their own bounded
\* cursor pagination"; collectPages asks for a smaller last page, and the
\* limit is part of what a cursor is bound to.
PagingSucceeds == reading # "failed"

=============================================================================
