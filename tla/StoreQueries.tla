----------------------------- MODULE StoreQueries -----------------------------
(***************************************************************************)
(* The listings of the Telemetry Store: searchTraces, searchLogs,          *)
(* listTraceLogs and listServices of storage.ts, the facets of facets.ts,  *)
(* and the page a listing gives after a cursor (query-handlers.ts).        *)
(*                                                                         *)
(* A query says what is listed, in which order and of which records; a     *)
(* filter that is None, or a set of Services that is empty, filters        *)
(* nothing.  A row is its id and the key it is ordered by.                 *)
(***************************************************************************)
EXTENDS TelemetryStore

\* A query without filters.  The LIKE of prefix and operation is equality here.
Query(what, sort) ==
  [what |-> what, sort |-> sort, from |-> 0, to |-> 9, services |-> {}, status |-> None,
   shortest |-> None, longest |-> None, operation |-> None, text |-> None, attribute |-> None,
   severity |-> None, trace |-> None, span |-> None, key |-> None, prefix |-> None]

InRange(time, q) == q.from <= time /\ time <= q.to

\* The filters of searchTraces.  A running trace has no duration, and a
\* comparison with NULL does not hold.
TraceMatches(db, t, q) ==
  LET row == db.traces[t]
  IN  /\ InRange(row.start, q)
      /\ q.text # None => \E r \in db.spanSearch : r.record[1] = t /\ q.text \in r.words
      /\ q.services # {} => row.services \cap q.services # {}
      /\ q.operation # None => row.operation = q.operation
      /\ q.status = "error" => row.errors > 0
      /\ q.status = "ok" => row.errors = 0 /\ ~row.active
      /\ q.status = "active" => row.active
      /\ q.shortest # None => row.duration # None /\ row.duration >= q.shortest
      /\ q.longest # None => row.duration # None /\ row.duration <= q.longest
      /\ q.trace # None => t = q.trace
      /\ q.attribute # None => \E r \in db.spanIndex : r.record[1] = t /\ <<r.key, r.value>> = q.attribute

\* The filters of searchLogs
LogMatches(db, l, q) ==
  /\ InRange(l.start, q)
  /\ q.text # None => \E r \in db.logSearch : r.record = l.id /\ q.text \in r.words
  /\ q.services # {} => l.service \in q.services
  /\ q.severity # None => l.severity # None /\ l.severity >= q.severity
  /\ q.trace # None => l.trace = q.trace
  /\ q.span # None => l.span = q.span
  /\ q.attribute # None => \E r \in db.logIndex : r.record = l.id /\ <<r.key, r.value>> = q.attribute

\* The groups of a facet: each value with the number of distinct things counted.
Grouped(pairs) ==
  {[id |-> v, key |-> Cardinality({p \in pairs : p[1] = v})] : v \in {p[1] : p \in pairs}}

OfServices(services, q) == q.services = {} \/ services \cap q.services # {}

\* What a facet counts, as pairs of a value and a thing that has it: an attribute
\* is counted for every row it has in the index of the signal.
FacetPairs(db, q) ==
  LET traces == {t \in DOMAIN db.traces : InRange(db.traces[t].start, q) /\ OfServices(db.traces[t].services, q)}
      logs   == {l \in db.logs : InRange(l.start, q) /\ OfServices({l.service}, q)}
      rows   == {r \in db.spanIndex : r.record[1] \in traces}
      spans  == {s \in db.spans : InRange(s.start, q) /\ OfServices(db.traces[s.trace].services, q)}
      pairs  == CASE q.what = "trace services" -> {<<s.service, s.trace>> : s \in spans}
                  [] q.what = "log services"   -> {<<l.service, l.id>> : l \in logs}
                  [] q.what = "operations"     -> {<<db.traces[t].operation, t>> : t \in traces}
                  [] q.what = "severities"     -> {<<l.severity, l.id>> : l \in {m \in logs : m.severity # None}}
                  [] q.what = "keys"           -> {<<r.key, r>> : r \in rows}
                  [] q.what = "values"         -> {<<r.value, r>> : r \in {x \in rows : x.key = q.key}}
  IN  {p \in pairs : q.prefix = None \/ p[1] = q.prefix}

Facets == {"trace services", "log services", "operations", "severities", "keys", "values"}

TraceRows(db, q) ==
  {[id |-> t, key |-> IF q.sort = "slowest" THEN db.traces[t].duration ELSE db.traces[t].start]
     : t \in {u \in DOMAIN db.traces : TraceMatches(db, u, q)}}

LogRows(db, q) == {[id |-> l.id, key |-> l.start] : l \in {m \in db.logs : LogMatches(db, m, q)}}

\* listTraceLogs looks for the trace first, and fails with StorageNotFound without it.
Found(db, q) == q.what = "trace logs" => q.trace \in DOMAIN db.traces

\* listTraceLogs, of the whole trace or of a span
TraceLogRows(db, q) ==
  {[id |-> l.id, key |-> l.start]
     : l \in {m \in db.logs : m.trace = q.trace /\ (q.span = None \/ m.span = q.span)}}

\* listServices: when a Service was last seen in the range
ServiceRows(db, q) ==
  LET observed == {[service |-> r.service, at |-> r.start]
                     : r \in {x \in db.spans \cup db.logs : InRange(x.start, q)}}
  IN  {[id |-> k, key |-> Greatest({o.at : o \in {p \in observed : p.service = k}})]
         : k \in {o.service : o \in observed} \cap DOMAIN db.services}

\* The rows of a listing
Rows(db, q) ==
  CASE q.what = "traces"     -> TraceRows(db, q)
    [] q.what = "logs"       -> LogRows(db, q)
    [] q.what = "trace logs" -> TraceLogRows(db, q)
    [] q.what = "services"   -> ServiceRows(db, q)
    [] q.what \in Facets    -> Grouped(FacetPairs(db, q))

-----------------------------------------------------------------------------
\* ORDER BY; NULL is the least of values.
ListedBefore(r, s, sort) ==
  CASE sort = "oldest"  -> r.key < s.key \/ (r.key = s.key /\ r.id < s.id)
    [] sort = "newest"  -> r.key > s.key \/ (r.key = s.key /\ r.id > s.id)
    [] sort = "ranked"  -> r.key > s.key \/ (r.key = s.key /\ r.id < s.id)
    [] sort = "slowest" ->
         IF r.key = s.key THEN r.id > s.id
         ELSE s.key = None \/ (r.key # None /\ r.key > s.key)

\* COALESCE(duration_ns, -1) of the rows, and durationNs ?? -1n of the cursor
KeyOf(r, sort) == IF sort = "slowest" /\ r.key = None THEN -1 ELSE r.key

\* Mutant: the ids of rows with the cursor's key are not compared.
AfterCursorIgnoresIds(r, c, sort) ==
  IF sort = "oldest" THEN KeyOf(r, sort) > c.key ELSE KeyOf(r, sort) < c.key

\* The clause a cursor adds to WHERE or HAVING
AfterCursor(r, c, sort) ==
  LET key == KeyOf(r, sort)
  IN  CASE sort = "oldest" -> key > c.key \/ (key = c.key /\ r.id > c.id)
        [] sort = "ranked" -> key < c.key \/ (key = c.key /\ r.id > c.id)
        [] OTHER           -> key < c.key \/ (key = c.key /\ r.id < c.id)

\* A finite set of rows in order: each at the place that the rows before it leave it.
InOrder(rows, sort) ==
  [i \in 1..Cardinality(rows) |->
     CHOOSE r \in rows : Cardinality({s \in rows : ListedBefore(s, r, sort)}) = i - 1]

\* The rows of a query after a cursor, in order.
Matching(db, q, cursor) == InOrder({r \in Rows(db, q) : cursor = None \/ AfterCursor(r, cursor, q.sort)}, q.sort)

\* The cursor of a page is its last row, for this query with this limit.
NextCursor(row, q, limit) == [key |-> KeyOf(row, q.sort), id |-> row.id, limit |-> limit]

\* decodeCursor takes a cursor for the query it was made for, limit included.
CursorAccepted(cursor, limit) == cursor = None \/ cursor.limit = limit

\* One row more than the limit is fetched to know whether the page is truncated.
Page(db, q, cursor, limit) ==
  LET rows  == Matching(db, q, cursor)
      items == SubSeq(rows, 1, IF Len(rows) < limit THEN Len(rows) ELSE limit)
  IN  [ids  |-> [i \in DOMAIN items |-> items[i].id],
       next |-> IF Len(rows) > limit THEN NextCursor(items[Len(items)], q, limit) ELSE None]

=============================================================================
