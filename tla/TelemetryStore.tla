---------------------------- MODULE TelemetryStore ----------------------------
(***************************************************************************)
(* The Telemetry Store: what the write connection does to the SQLite file  *)
(* (storage.ts, writer.ts, retention.ts) for the worker of                 *)
(* writer-worker.ts and the retention loop of server.ts.                   *)
(*                                                                         *)
(* A transaction is an operator from the tables to the tables.  retain is  *)
(* three of them, and readers, and crashes, come in between.  Attributes   *)
(* are the <<key, value>> pairs projectAttributes lets through; the file   *)
(* is over its budget when it holds more than SizeBudget records.          *)
(***************************************************************************)
EXTENDS SpanGraph, Sequences, FiniteSetsExt, TLC

CONSTANTS
  TraceBatches,  \* the span sequences that may be written together
  LogBatches,    \* the log sequences that may be written together
  LogIds,        \* what crypto.randomUUID may return, used once
  Cutoffs,       \* values of nowNs - maxAgeNs
  BatchSize,     \* retentionBatchSize
  SizeBudget,    \* retentionMaxBytes, in records
  MaxKeys,       \* maxIndexedAttributeKeys
  MaxValues,     \* maxIndexedValuesPerKey
  MaxWrites, MaxStarts, MaxWakes, MaxFailures  \* bounds of the exploration

ASSUME StoreAssumption ==
  /\ BatchSize \in Nat \ {0} /\ MaxKeys \in Nat \ {0} /\ MaxValues \in Nat \ {0}
  /\ SizeBudget \in Nat /\ MaxWrites \in Nat /\ MaxFailures \in Nat

\* Attributes have a key and a value, a record a Resource and a Scope.
Attributes == {pairs \in SUBSET (Int \X Int) : IsFiniteSet(pairs)}
References == {"resource", "scope"} \X Int

SpanRecords ==
  [trace : Int, id : Int, parent : Int \cup {None}, start : Int, end : Int \cup {None}, service : Int,
   name : Int, error : BOOLEAN, attributes : Attributes, refs : SUBSET References]

LogRecords ==
  [trace : Int \cup {None}, span : Int \cup {None}, severity : Int \cup {None}, start : Int, service : Int,
   name : Int, attributes : Attributes, refs : SUBSET References]

ASSUME RecordAssumption ==
  /\ TraceBatches \subseteq Seq(SpanRecords) /\ LogBatches \subseteq Seq(LogRecords)
  /\ LogIds \subseteq Int /\ Cutoffs \subseteq Int

VARIABLES
  store,    \* the tables
  daemon,   \* "down", "starting" (recovering retention), "ready", "halted" (writer
            \* marked unavailable) or "unavailable" (initialize failed)
  step,     \* how far retain is: "idle", "marked" (T1), "swept" (T2)
  round,    \* what the running retain knows: cutoff, deleted records, needsMore
  loop,     \* runRetentionUntilCurrent is running
  writes, starts, wakes, failures,  \* counted against the bounds
  gone      \* history: logs, and telemetry records, that left the Store since the last reset

boundVars == <<writes, starts, wakes, failures>>
storeVars == <<store, daemon, step, round, loop, boundVars, gone>>

EmptyStore ==
  [spans |-> {}, spanIndex |-> {}, spanSearch |-> {},
   traces |-> <<>>,
   logs |-> {}, logIndex |-> {}, logSearch |-> {},
   services |-> <<>>, references |-> {}, diagnostics |-> 0,
   counters |-> [spans |-> 0, logs |-> 0, rejected |-> 0, undecoded |-> 0, truncated |-> 0],
   retention |-> [running |-> FALSE, deleted |-> 0, failed |-> FALSE]]

NoRound == [cutoff |-> 0, deleted |-> 0, more |-> FALSE]

StoreInit ==
  /\ store = EmptyStore
  /\ daemon = "down" /\ step = "idle" /\ round = NoRound /\ loop = FALSE
  /\ writes = 0 /\ starts = 0 /\ wakes = 0 /\ failures = 0
  /\ gone = [logs |-> 0, records |-> 0]

-----------------------------------------------------------------------------
(* writer.ts                                                                *)

SpanKey(s) == <<s.trace, s.id>>
SpansOf(db, t) == {s \in db.spans : s.trace = t}

\* The n first of a sorted set of numbers.
FirstOf(n, S) == {x \in S : Cardinality({y \in S : y < x}) < n}

\* Mutant: the values already there are not looked at.
AdmitIgnoresExisting(existing, candidates, limit) == FirstOf(limit, candidates)

\* What is there, as far as the limit, then new ones while there is room.
Admit(existing, candidates, limit) ==
  LET known == FirstOf(limit, existing)
      fresh == candidates \ known
  IN  known \cup FirstOf(limit - Cardinality(known), fresh)

Keys(pairs)      == {p[1] : p \in pairs}
ValuesOf(pairs, k) == {p[2] : p \in {q \in pairs : q[1] = k}}
IndexedPairs(db) ==
  {<<r.key, r.value>> : r \in db.spanIndex} \cup {<<r.key, r.value>> : r \in db.logIndex}

\* admittedProjectionCardinality
AdmittedPairs(db, candidates) ==
  LET indexed == IndexedPairs(db)
      keys    == Admit(Keys(indexed), Keys(candidates), MaxKeys)
  IN  {p \in candidates :
         /\ p[1] \in keys
         /\ p[2] \in Admit(ValuesOf(indexed, p[1]), ValuesOf(candidates, p[1]), MaxValues)}

\* A record with one more field, which it does not have yet.
WithField(record, name, value) ==
  [f \in DOMAIN record \cup {name} |-> IF f = name THEN value ELSE record[f]]

\* A record as it is kept: with the attributes it can be filtered by.
Prepare(record, admitted) == WithField(record, "indexed", record.attributes \cap admitted)

\* spanSearchText, and what of a log is searched: its name and what is indexed.
Words(record) == {<<record.name>>} \cup record.indexed

\* Attributes that are kept but not indexed.
Excluded(records) == MapThenSumSet(LAMBDA r : Cardinality(r.attributes \ r.indexed), records)

AddReferences(db, records) == [db EXCEPT !.references = @ \cup UNION {r.refs : r \in records}]

\* ensureServices: the bounds only widen.
ObserveServices(db, observed) ==
  [db EXCEPT !.services =
     [k \in DOMAIN @ \cup {o.service : o \in observed} |->
        LET times == {o.at : o \in {p \in observed : p.service = k}}
              \cup (IF k \in DOMAIN db.services
                    THEN {db.services[k].first, db.services[k].last} ELSE {})
        IN  [first |-> Least(times), last |-> Greatest(times)]]]

Observed(records) == {[service |-> r.service, at |-> r.start] : r \in records}

\* Mutant: a trace is summarised from the batch alone.
MaterializeFromBatch(db, touched, batch) ==
  [db EXCEPT !.traces =
     [t \in DOMAIN @ \cup touched |->
        IF t \in touched THEN TraceRow({s \in batch : s.trace = t}) ELSE @[t]]]

\* materializeTrace for every trace of the batch
Materialize(db, touched, batch) ==
  [db EXCEPT !.traces =
     [t \in DOMAIN @ \cup touched |-> IF t \in touched THEN TraceRow(SpansOf(db, t)) ELSE @[t]]]

\* Mutant: the rows of a span that is written again are not deleted.
ReplaceSpansKeepsProjections(db, new) ==
  LET keys == {SpanKey(s) : s \in new}
  IN  [db EXCEPT
         !.spans = {s \in @ : SpanKey(s) \notin keys} \cup new,
         !.spanIndex = @ \cup UNION {{[record |-> SpanKey(s), key |-> a[1], value |-> a[2]] : a \in s.indexed} : s \in new},
         !.spanSearch = @ \cup {[record |-> SpanKey(s), words |-> Words(s)] : s \in new}]

\* The upsert of spans, and their attribute and search rows written anew.
ReplaceSpans(db, new) ==
  LET keys == {SpanKey(s) : s \in new}
  IN  [db EXCEPT
         !.spans = {s \in @ : SpanKey(s) \notin keys} \cup new,
         !.spanIndex = {r \in @ : r.record \notin keys} \cup
            UNION {{[record |-> SpanKey(s), key |-> a[1], value |-> a[2]] : a \in s.indexed} : s \in new},
         !.spanSearch = {r \in @ : r.record \notin keys} \cup
            {[record |-> SpanKey(s), words |-> Words(s)] : s \in new}]

\* write: traces.  The last of the spans of a batch with one identity counts.
WriteSpans(db, batch) ==
  LET last     == {batch[i] : i \in {j \in DOMAIN batch :
                     \A k \in DOMAIN batch : SpanKey(batch[k]) = SpanKey(batch[j]) => k <= j}}
      admitted == AdmittedPairs(db, UNION {s.attributes : s \in last})
      new      == {Prepare(s, admitted) : s \in last}
      written  == ReplaceSpans(ObserveServices(AddReferences(db, new), Observed(new)), new)
  IN  [Materialize(written, {s.trace : s \in new}, new) EXCEPT
         !.counters.spans = @ + Len(batch),
         !.counters.truncated = @ + Excluded(new)]

\* write: logs, under fresh ids.
WriteLogs(db, batch, ids) ==
  LET admitted == AdmittedPairs(db, UNION {batch[i].attributes : i \in DOMAIN batch})
      new      == {WithField(Prepare(batch[i], admitted), "id", ids[i]) : i \in DOMAIN batch}
  IN  [ObserveServices(AddReferences(db, new), Observed(new)) EXCEPT
         !.logs = @ \cup new,
         !.logIndex = @ \cup UNION {{[record |-> l.id, key |-> a[1], value |-> a[2]] : a \in l.indexed} : l \in new},
         !.logSearch = @ \cup {[record |-> l.id, words |-> Words(l)] : l \in new},
         !.counters.logs = @ + Len(batch),
         !.counters.truncated = @ + Excluded(new)]

\* recordIngestionFailure, with a diagnostic as every caller gives one
RecordFailure(db, undecoded) ==
  [db EXCEPT !.counters.rejected = @ + 1,
             !.counters.undecoded = @ + (IF undecoded THEN 1 ELSE 0),
             !.diagnostics = @ + 1]

-----------------------------------------------------------------------------
(* retention.ts                                                             *)

RecordCount(db) == Cardinality(DOMAIN db.traces) + Cardinality(db.logs)

OverBudget(db) == Cardinality(db.spans) + Cardinality(db.logs) > SizeBudget

\* What retention counts: a trace with all its spans, or a log.
Telemetry(db) ==
  {[kind |-> "trace", id |-> t, time |-> db.traces[t].start] : t \in DOMAIN db.traces}
    \cup {[kind |-> "log", id |-> l.id, time |-> l.start] : l \in db.logs}

\* ORDER BY time_ns, kind, id
OlderThan(c, d) ==
  \/ c.time < d.time
  \/ c.time = d.time /\ c.kind = "log" /\ d.kind = "trace"
  \/ c.time = d.time /\ c.kind = d.kind /\ c.id < d.id

Oldest(n, S) == {c \in S : Cardinality({d \in S : OlderThan(d, c)}) < n}

\* Mutant: the rows that point to deleted records stay.
DeleteTelemetryLeavesRows(db, candidates) ==
  LET traceIds == {c.id : c \in {d \in candidates : d.kind = "trace"}}
      logIds   == {c.id : c \in {d \in candidates : d.kind = "log"}}
      spans    == {s \in db.spans : s.trace \notin traceIds}
      logs     == {l \in db.logs : l.id \notin logIds}
  IN  [db EXCEPT
         !.spans = spans,
         !.spanIndex = {r \in @ : r.record[1] \notin traceIds},
         !.traces = [t \in DOMAIN @ \ traceIds |-> @[t]],
         !.logs = logs,
         !.logIndex = {r \in @ : r.record \notin logIds}]

\* deleteTelemetry, with the cascades of the foreign keys, and the deletion of
\* Services, resources and scopes nothing refers to any more.
DeleteTelemetry(db, candidates) ==
  LET traceIds == {c.id : c \in {d \in candidates : d.kind = "trace"}}
      logIds   == {c.id : c \in {d \in candidates : d.kind = "log"}}
      spans    == {s \in db.spans : s.trace \notin traceIds}
      logs     == {l \in db.logs : l.id \notin logIds}
  IN  [db EXCEPT
         !.spans = spans,
         !.spanIndex = {r \in @ : r.record[1] \notin traceIds},
         !.spanSearch = {r \in @ : r.record[1] \notin traceIds},
         !.traces = [t \in DOMAIN @ \ traceIds |-> @[t]],
         !.logs = logs,
         !.logIndex = {r \in @ : r.record \notin logIds},
         !.logSearch = {r \in @ : r.record \notin logIds},
         !.services = [k \in {r.service : r \in spans \cup logs} |-> @[k]],
         !.references = UNION {r.refs : r \in spans \cup logs}]

\* Mutant: the budget is met from the whole Store before the cutoff is applied.
RunRetentionNewestFirst(db, cutoff) ==
  LET some == {c \in Telemetry(db) : Cardinality({d \in Telemetry(db) : OlderThan(c, d)}) < BatchSize}
      kept == IF OverBudget(db) THEN DeleteTelemetry(db, some) ELSE db
  IN  [tables |-> kept, deleted |-> RecordCount(db) - RecordCount(kept),
       more |-> OverBudget(kept) /\ RecordCount(kept) > 0]

\* Mutant: a Store over its budget asks for another batch even when this one
\* deleted nothing.
RunRetentionWithoutBudgetPass(db, cutoff) ==
  LET Expired(d) == {c \in Telemetry(d) : c.time < cutoff}
      kept == DeleteTelemetry(db, Oldest(BatchSize, Expired(db)))
  IN  [tables |-> kept, deleted |-> RecordCount(db) - RecordCount(kept),
       more |-> Expired(kept) # {} \/ (OverBudget(kept) /\ RecordCount(kept) > 0)]

\* runRetention: expired records, then the oldest while over budget, at most a
\* batch of both; then whether another batch is needed.
RunRetention(db, cutoff) ==
  LET Expired(d) == {c \in Telemetry(d) : c.time < cutoff}
      fresh   == DeleteTelemetry(db, Oldest(BatchSize, Expired(db)))
      deleted == RecordCount(db) - RecordCount(fresh)
      kept    == IF OverBudget(fresh) /\ deleted < BatchSize
                 THEN DeleteTelemetry(fresh, Oldest(BatchSize - deleted, Telemetry(fresh)))
                 ELSE fresh
  IN  [tables |-> kept, deleted |-> RecordCount(db) - RecordCount(kept),
       more |-> Expired(kept) # {} \/ (OverBudget(kept) /\ RecordCount(kept) > 0)]

-----------------------------------------------------------------------------
(* The worker, which handles one message at a time, and its Daemon.         *)

WorkerFree == daemon \in {"ready", "halted"} /\ step = "idle"

\* The Daemon starts: initialize recovers a Store whose last retention failed.
Start ==
  /\ daemon = "down" /\ starts < MaxStarts
  /\ starts' = starts + 1
  /\ IF store.retention.failed
     THEN daemon' = "starting" /\ UNCHANGED loop
     ELSE daemon' = "ready" /\ loop' = TRUE
  /\ UNCHANGED <<store, step, round, writes, wakes, failures, gone>>

\* A batch is committed.  Once halted, only what was queued before is.
CommitSpans(batch) ==
  /\ WorkerFree /\ writes < MaxWrites
  /\ writes' = writes + 1
  /\ store' = WriteSpans(store, batch)
  /\ UNCHANGED <<daemon, step, round, loop, starts, wakes, failures, gone>>

CommitLogs(batch, ids) ==
  /\ WorkerFree /\ writes < MaxWrites
  /\ \A i \in DOMAIN batch : ids[i] \notin {l.id : l \in store.logs}
  /\ writes' = writes + 1
  /\ store' = WriteLogs(store, batch, ids)
  /\ UNCHANGED <<daemon, step, round, loop, starts, wakes, failures, gone>>

\* A write fails: nothing of it is kept, and the Daemon stops admission.
WriteFails ==
  /\ WorkerFree /\ failures < MaxFailures
  /\ failures' = failures + 1
  /\ daemon' = "halted"
  /\ UNCHANGED <<store, step, round, loop, writes, starts, wakes, gone>>

Reject(undecoded) ==
  /\ WorkerFree /\ writes < MaxWrites
  /\ writes' = writes + 1
  /\ store' = RecordFailure(store, undecoded)
  /\ UNCHANGED <<daemon, step, round, loop, starts, wakes, failures, gone>>

\* initialize, or the retention loop, is about to call retain.
RetentionDue == step = "idle" /\ (daemon = "starting" \/ (daemon \in {"ready", "halted"} /\ loop))

\* retain, its first transaction
MarkRunning(cutoff) ==
  /\ RetentionDue
  /\ step' = "marked"
  /\ round' = [NoRound EXCEPT !.cutoff = cutoff]
  /\ store' = [store EXCEPT !.retention.running = TRUE, !.retention.failed = FALSE]
  /\ UNCHANGED <<daemon, loop, boundVars, gone>>

\* retain, its second transaction
Sweep ==
  /\ step = "marked"
  /\ step' = "swept"
  /\ LET result == RunRetention(store, round.cutoff)
     IN  /\ store' = result.tables
         /\ round' = [round EXCEPT !.deleted = result.deleted, !.more = result.more]
         /\ gone' = [logs    |-> gone.logs + Cardinality(store.logs \ result.tables.logs),
                     records |-> gone.records + Cardinality(Telemetry(store) \ Telemetry(result.tables))]
  /\ UNCHANGED <<daemon, loop, boundVars>>

\* Mutant: deletedRecords is that of the last batch.
FinishRoundReplacesCount ==
  /\ step = "swept"
  /\ step' = "idle" /\ round' = NoRound
  /\ store' = [store EXCEPT !.retention.running = FALSE, !.retention.deleted = round.deleted]
  /\ daemon' = IF daemon = "starting" THEN "ready" ELSE daemon
  /\ loop' = (daemon = "starting" \/ round.more)
  /\ UNCHANGED <<boundVars, gone>>

\* retain, its third transaction; runRetentionUntilCurrent goes on while more is
\* needed, and initialize opens the writer after one batch.
FinishRound ==
  /\ step = "swept"
  /\ step' = "idle" /\ round' = NoRound
  /\ store' = [store EXCEPT !.retention.running = FALSE, !.retention.deleted = @ + round.deleted]
  /\ daemon' = IF daemon = "starting" THEN "ready" ELSE daemon
  /\ loop' = (daemon = "starting" \/ round.more)
  /\ UNCHANGED <<boundVars, gone>>

\* The second or third transaction fails; the failure is noted when the Store
\* still takes that.
RetentionFails(noted) ==
  /\ step \in {"marked", "swept"} /\ failures < MaxFailures
  /\ failures' = failures + 1
  /\ step' = "idle" /\ round' = NoRound /\ loop' = FALSE
  /\ store' = IF noted
              THEN [store EXCEPT !.retention.running = FALSE, !.retention.failed = TRUE,
                                 !.diagnostics = @ + 1]
              ELSE store
  /\ daemon' = IF daemon = "starting" THEN "unavailable" ELSE "halted"
  /\ UNCHANGED <<writes, starts, wakes, gone>>

\* The minute's sleep of the retention loop is over.
Wake ==
  /\ daemon \in {"ready", "halted"} /\ ~loop /\ wakes < MaxWakes
  /\ wakes' = wakes + 1
  /\ loop' = TRUE
  /\ UNCHANGED <<store, daemon, step, round, writes, starts, failures, gone>>

\* The worker ends, between two transactions or two messages: by an orderly stop,
\* a response timeout that terminates it, or a crash.
End ==
  /\ daemon # "down"
  /\ daemon' = "down" /\ step' = "idle" /\ round' = NoRound /\ loop' = FALSE
  /\ UNCHANGED <<store, boundVars, gone>>

\* belfry database reset, which needs the Daemon stopped.
Reset ==
  /\ daemon = "down"
  /\ store' = EmptyStore
  /\ gone' = [logs |-> 0, records |-> 0]
  /\ UNCHANGED <<daemon, step, round, loop, boundVars>>

Injections(S, T) == {f \in [S -> T] : \A a, b \in S : f[a] = f[b] => a = b}

StoreNext ==
  \/ Start \/ End \/ Reset \/ Wake
  \/ \E batch \in TraceBatches : CommitSpans(batch)
  \/ \E batch \in LogBatches : \E ids \in Injections(DOMAIN batch, LogIds) : CommitLogs(batch, ids)
  \/ WriteFails
  \/ \E undecoded \in BOOLEAN : Reject(undecoded)
  \/ \E cutoff \in Cutoffs : MarkRunning(cutoff)
  \/ Sweep \/ FinishRound
  \/ \E noted \in BOOLEAN : RetentionFails(noted)

=============================================================================
