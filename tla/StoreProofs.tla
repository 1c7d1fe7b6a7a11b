----------------------------- MODULE StoreProofs -----------------------------
(***************************************************************************)
(* The tables of the Telemetry Store: the projections, trace rows and      *)
(* limits of the index hold whatever is written, replaced and deleted.     *)
(* The argument is on transactions, operators from tables to tables, each  *)
(* of which keeps the tables Sound.                                        *)
(***************************************************************************)
EXTENDS StoreProperties, TLAPS, FunctionTheorems, FiniteSetTheorems

\* The tables of the Store.
Tables == {"spans", "spanIndex", "spanSearch", "traces", "logs", "logIndex", "logSearch",
           "services", "references", "diagnostics", "counters", "retention"}

\* The attribute rows of a span, and of a log.
RowsOf(s) == {[record |-> SpanKey(s), key |-> a[1], value |-> a[2]] : a \in s.indexed}
LogRowsOf(l) == {[record |-> l.id, key |-> a[1], value |-> a[2]] : a \in l.indexed}

\* A Store has the same tables all the time; the next lemmas say what each part of a
\* transaction does to which of them.
LEMMA EmptyTables == DOMAIN EmptyStore = Tables
BY DEF EmptyStore, Tables

\* ensureReferences touches the resources and scopes only.
LEMMA ReferencesTables ==
  ASSUME NEW db, DOMAIN db = Tables, NEW new
  PROVE  /\ DOMAIN AddReferences(db, new) = Tables
         /\ \A t \in Tables \ {"references"} : AddReferences(db, new)[t] = db[t]
BY DEF AddReferences, Tables

\* ensureServices touches the Services only.
LEMMA ServicesTables ==
  ASSUME NEW db, DOMAIN db = Tables, NEW observed
  PROVE  /\ DOMAIN ObserveServices(db, observed) = Tables
         /\ \A t \in Tables \ {"services"} : ObserveServices(db, observed)[t] = db[t]
BY DEF ObserveServices, Tables

\* The upsert of spans touches the spans and their projections only.
LEMMA ReplaceTables ==
  ASSUME NEW db, DOMAIN db = Tables, NEW new
  PROVE  LET w == ReplaceSpans(db, new)
             keys == {SpanKey(s) : s \in new}
         IN  /\ DOMAIN w = Tables
             /\ \A t \in Tables \ {"spans", "spanIndex", "spanSearch"} : w[t] = db[t]
             /\ w.spans = {s \in db.spans : SpanKey(s) \notin keys} \cup new
             /\ w.spanIndex = {r \in db.spanIndex : r.record \notin keys} \cup UNION {RowsOf(s) : s \in new}
             /\ w.spanSearch = {r \in db.spanSearch : r.record \notin keys} \cup
                                 {[record |-> SpanKey(s), words |-> Words(s)] : s \in new}
BY DEF ReplaceSpans, Tables, RowsOf

\* materializeTrace touches the trace rows only.
LEMMA MaterializeTables ==
  ASSUME NEW db, DOMAIN db = Tables, NEW touched, NEW batch
  PROVE  LET w == Materialize(db, touched, batch)
         IN  /\ DOMAIN w = Tables
             /\ \A t \in Tables \ {"traces"} : w[t] = db[t]
             /\ w.traces = [t \in DOMAIN db.traces \cup touched |->
                              IF t \in touched THEN TraceRow(SpansOf(db, t)) ELSE db.traces[t]]
BY DEF Materialize, Tables

\* The traces, and the logs, among what retention deletes.
TracesIn(C) == {c.id : c \in {d \in C : d.kind = "trace"}}
LogsIn(C)   == {c.id : c \in {d \in C : d.kind = "log"}}

\* What deleteTelemetry leaves in each table: w is what it makes of db.
Pruned(db, C, w) ==
  /\ DOMAIN w = Tables
  /\ w.spans = {s \in db.spans : s.trace \notin TracesIn(C)}
  /\ w.spanIndex = {r \in db.spanIndex : r.record[1] \notin TracesIn(C)}
  /\ w.spanSearch = {r \in db.spanSearch : r.record[1] \notin TracesIn(C)}
  /\ w.traces = [t \in DOMAIN db.traces \ TracesIn(C) |-> db.traces[t]]
  /\ w.logs = {l \in db.logs : l.id \notin LogsIn(C)}
  /\ w.logIndex = {r \in db.logIndex : r.record \notin LogsIn(C)}
  /\ w.logSearch = {r \in db.logSearch : r.record \notin LogsIn(C)}
  /\ w.counters = db.counters /\ w.retention = db.retention

LEMMA DeleteTables ==
  ASSUME NEW db, DOMAIN db = Tables, NEW C
  PROVE  Pruned(db, C, DeleteTelemetry(db, C))
BY DEF DeleteTelemetry, Tables, TracesIn, LogsIn, Pruned

\* deleteTelemetry leaves the Services, resources and scopes that are referred to.
Collected(db, w) ==
  /\ w.services = [k \in {r.service : r \in w.spans \cup w.logs} |-> db.services[k]]
  /\ w.references = UNION {r.refs : r \in w.spans \cup w.logs}

LEMMA DeleteReferences ==
  ASSUME NEW db, DOMAIN db = Tables, NEW C
  PROVE  Collected(db, DeleteTelemetry(db, C))
BY DEF DeleteTelemetry, Tables, Collected

\* The spans of a batch that count, and the records a batch becomes.
LastSpans(batch) == {batch[i] : i \in {j \in DOMAIN batch :
                       \A k \in DOMAIN batch : SpanKey(batch[k]) = SpanKey(batch[j]) => k <= j}}

NewSpans(db, batch) ==
  {Prepare(s, AdmittedPairs(db, UNION {r.attributes : r \in LastSpans(batch)})) : s \in LastSpans(batch)}

NewLogs(db, batch, ids) ==
  LET admitted == AdmittedPairs(db, UNION {batch[i].attributes : i \in DOMAIN batch})
  IN  {WithField(Prepare(batch[i], admitted), "id", ids[i]) : i \in DOMAIN batch}

\* What the transaction of a batch of spans leaves in each table: w is what it makes
\* of db, and new the records of the batch.
SpansWritten(db, new, w) ==
  LET keys    == {SpanKey(s) : s \in new}
      touched == {s.trace : s \in new}
  IN  /\ DOMAIN w = Tables
      /\ w.spans = {s \in db.spans : SpanKey(s) \notin keys} \cup new
      /\ w.spanIndex = {r \in db.spanIndex : r.record \notin keys} \cup UNION {RowsOf(s) : s \in new}
      /\ w.spanSearch = {r \in db.spanSearch : r.record \notin keys} \cup
                          {[record |-> SpanKey(s), words |-> Words(s)] : s \in new}
      /\ w.traces = [t \in DOMAIN db.traces \cup touched |->
                       IF t \in touched THEN TraceRow(SpansOf(w, t)) ELSE db.traces[t]]
      /\ w.logs = db.logs /\ w.logIndex = db.logIndex /\ w.logSearch = db.logSearch
      /\ w.services = ObserveServices(AddReferences(db, new), Observed(new)).services
      /\ w.references = AddReferences(db, new).references
      /\ w.retention = db.retention
      /\ DOMAIN w.counters = DOMAIN db.counters
      /\ "logs" \in DOMAIN db.counters => w.counters.logs = db.counters.logs

LEMMA WriteSpansTables ==
  ASSUME NEW db, DOMAIN db = Tables, NEW batch
  PROVE  SpansWritten(db, NewSpans(db, batch), WriteSpans(db, batch))
<1> DEFINE new == NewSpans(db, batch)
           touched == {s.trace : s \in new}
           keys == {SpanKey(s) : s \in new}
           a == AddReferences(db, new)
           b == ObserveServices(a, Observed(new))
           c == ReplaceSpans(b, new)
           d == Materialize(c, touched, new)
<1>1. WriteSpans(db, batch) = [d EXCEPT !.counters.spans = @ + Len(batch), !.counters.truncated = @ + Excluded(new)]
  BY DEF WriteSpans, NewSpans, LastSpans
<1>2. DOMAIN a = Tables /\ \A t \in Tables \ {"references"} : a[t] = db[t]
  BY ReferencesTables
<1>3. DOMAIN b = Tables /\ \A t \in Tables \ {"services"} : b[t] = a[t]
  BY <1>2, ServicesTables
<1> HIDE DEF a, b
<1>4. /\ DOMAIN c = Tables
      /\ \A t \in Tables \ {"spans", "spanIndex", "spanSearch"} : c[t] = b[t]
      /\ c.spans = {s \in b.spans : SpanKey(s) \notin keys} \cup new
      /\ c.spanIndex = {r \in b.spanIndex : r.record \notin keys} \cup UNION {RowsOf(s) : s \in new}
      /\ c.spanSearch = {r \in b.spanSearch : r.record \notin keys} \cup
                          {[record |-> SpanKey(s), words |-> Words(s)] : s \in new}
  BY <1>3, ReplaceTables
<1> HIDE DEF c, new, touched, keys
<1>5. /\ DOMAIN d = Tables
      /\ \A t \in Tables \ {"traces"} : d[t] = c[t]
      /\ d.traces = [t \in DOMAIN c.traces \cup touched |->
                       IF t \in touched THEN TraceRow(SpansOf(c, t)) ELSE c.traces[t]]
  <2>1. DOMAIN c = Tables
    BY <1>4
  <2> QED BY <2>1, MaterializeTables
<1> HIDE DEF d
<1> DEFINE w == WriteSpans(db, batch)
<1>6. DOMAIN w = Tables /\ \A t \in Tables \ {"counters"} : w[t] = d[t]
  BY <1>1, <1>5 DEF Tables
<1>7. /\ DOMAIN w.counters = DOMAIN d.counters
      /\ "logs" \in DOMAIN d.counters => w.counters.logs = d.counters.logs
  BY <1>1, <1>5 DEF Tables
<1> HIDE DEF w
<1>8. d.counters = db.counters
  BY <1>2, <1>3, <1>4, <1>5 DEF Tables
<1>9. \A t : SpansOf(w, t) = SpansOf(c, t)
  BY <1>5, <1>6 DEF SpansOf, Tables
<1>10. w.services = b.services /\ w.references = a.references /\ w.retention = db.retention
  BY <1>2, <1>3, <1>4, <1>5, <1>6 DEF Tables
<1>11. w.logs = db.logs /\ w.logIndex = db.logIndex /\ w.logSearch = db.logSearch
  BY <1>2, <1>3, <1>4, <1>5, <1>6 DEF Tables
<1>12. w.spans = c.spans /\ w.spanIndex = c.spanIndex /\ w.spanSearch = c.spanSearch
  BY <1>5, <1>6 DEF Tables
<1>13. b.spans = db.spans /\ b.spanIndex = db.spanIndex /\ b.spanSearch = db.spanSearch
  BY <1>2, <1>3 DEF Tables
<1>14. c.traces = db.traces
  BY <1>2, <1>3, <1>4 DEF Tables
<1>15. w.traces = [t \in DOMAIN db.traces \cup touched |->
                       IF t \in touched THEN TraceRow(SpansOf(w, t)) ELSE db.traces[t]]
  BY <1>5, <1>6, <1>9, <1>14 DEF Tables
<1>16. /\ w.spans = {s \in db.spans : SpanKey(s) \notin keys} \cup new
       /\ w.spanIndex = {r \in db.spanIndex : r.record \notin keys} \cup UNION {RowsOf(s) : s \in new}
       /\ w.spanSearch = {r \in db.spanSearch : r.record \notin keys} \cup
                           {[record |-> SpanKey(s), words |-> Words(s)] : s \in new}
  BY <1>4, <1>12, <1>13
<1>17. w.services = ObserveServices(AddReferences(db, new), Observed(new)).services
       /\ w.references = AddReferences(db, new).references
  BY <1>10 DEF a, b
<1>18. DOMAIN w = Tables /\ DOMAIN w.counters = DOMAIN db.counters
       /\ ("logs" \in DOMAIN db.counters => w.counters.logs = db.counters.logs)
  <2>1. DOMAIN w = Tables
    BY <1>6
  <2>2. DOMAIN w.counters = DOMAIN db.counters
    BY <1>7, <1>8
  <2>3. "logs" \in DOMAIN db.counters => w.counters.logs = db.counters.logs
    BY <1>7, <1>8
  <2> QED BY <2>1, <2>2, <2>3
<1> HIDE DEF a, b
<1>19. SpansWritten(db, new, w)
  BY <1>10, <1>11, <1>15, <1>16, <1>17, <1>18 DEF keys, touched, SpansWritten
<1> QED BY <1>19 DEF new, w

\* What the transaction of a batch of logs leaves in each table.
LogsWritten(db, batch, new, w) ==
  /\ DOMAIN w = Tables
  /\ w.spans = db.spans /\ w.spanIndex = db.spanIndex /\ w.spanSearch = db.spanSearch
  /\ w.traces = db.traces
  /\ w.logs = db.logs \cup new
  /\ w.logIndex = db.logIndex \cup UNION {LogRowsOf(l) : l \in new}
  /\ w.logSearch = db.logSearch \cup {[record |-> l.id, words |-> Words(l)] : l \in new}
  /\ w.services = ObserveServices(AddReferences(db, new), Observed(new)).services
  /\ w.references = AddReferences(db, new).references
  /\ w.retention = db.retention
  /\ DOMAIN w.counters = DOMAIN db.counters
  /\ "logs" \in DOMAIN db.counters => w.counters.logs = db.counters.logs + Len(batch)

LEMMA WriteLogsTables ==
  ASSUME NEW db, DOMAIN db = Tables, NEW batch, NEW ids
  PROVE  LogsWritten(db, batch, NewLogs(db, batch, ids), WriteLogs(db, batch, ids))
<1> DEFINE new == NewLogs(db, batch, ids)
           a == AddReferences(db, new)
           b == ObserveServices(a, Observed(new))
           w == WriteLogs(db, batch, ids)
<1>1. w = [b EXCEPT !.logs = @ \cup new,
                    !.logIndex = @ \cup UNION {LogRowsOf(l) : l \in new},
                    !.logSearch = @ \cup {[record |-> l.id, words |-> Words(l)] : l \in new},
                    !.counters.logs = @ + Len(batch),
                    !.counters.truncated = @ + Excluded(new)]
  BY DEF WriteLogs, NewLogs, LogRowsOf
<1>2. DOMAIN a = Tables /\ \A t \in Tables \ {"references"} : a[t] = db[t]
  BY ReferencesTables
<1>3. DOMAIN b = Tables /\ \A t \in Tables \ {"services"} : b[t] = a[t]
  BY <1>2, ServicesTables
<1> HIDE DEF a, b, w, new
<1>4. /\ DOMAIN w = Tables
      /\ \A t \in Tables \ {"logs", "logIndex", "logSearch", "counters"} : w[t] = b[t]
      /\ w.logs = b.logs \cup new
      /\ w.logIndex = b.logIndex \cup UNION {LogRowsOf(l) : l \in new}
      /\ w.logSearch = b.logSearch \cup {[record |-> l.id, words |-> Words(l)] : l \in new}
  BY <1>1, <1>3 DEF Tables
<1>5. /\ DOMAIN w.counters = DOMAIN b.counters
      /\ "logs" \in DOMAIN b.counters => w.counters.logs = b.counters.logs + Len(batch)
  BY <1>1, <1>3 DEF Tables
<1>6. b.counters = db.counters
  BY <1>2, <1>3 DEF Tables
<1>7. w.services = b.services /\ w.references = a.references /\ w.retention = db.retention /\ w.traces = db.traces
  BY <1>2, <1>3, <1>4 DEF Tables
<1>8. w.spans = db.spans /\ w.spanIndex = db.spanIndex /\ w.spanSearch = db.spanSearch
  BY <1>2, <1>3, <1>4 DEF Tables
<1>9. b.logs = db.logs /\ b.logIndex = db.logIndex /\ b.logSearch = db.logSearch
  BY <1>2, <1>3 DEF Tables
<1>10. w.services = ObserveServices(AddReferences(db, new), Observed(new)).services
       /\ w.references = AddReferences(db, new).references
  BY <1>7 DEF a, b
<1> HIDE DEF a, b
<1>11. LogsWritten(db, batch, new, w)
  BY <1>4, <1>5, <1>6, <1>7, <1>8, <1>9, <1>10 DEF LogsWritten
<1> QED BY <1>11 DEF w, new

\* In a finite set of numbers, a smaller number has fewer below it.
LEMMA RankOrder ==
  ASSUME NEW S, S \subseteq Int, IsFiniteSet(S), NEW x \in S, NEW y \in S, x < y
  PROVE  Cardinality({z \in S : z < x}) < Cardinality({z \in S : z < y})
<1> DEFINE B(v) == {z \in S : z < v}
<1>1. IsFiniteSet(B(y)) /\ B(x) \in SUBSET B(y) /\ B(x) # B(y)
  <2>1. B(y) \in SUBSET S
    OBVIOUS
  <2>2. x \in B(y) /\ x \notin B(x)
    OBVIOUS
  <2>3. \A z \in S : z < x => z < y
    <3> TAKE z \in S
    <3>1. x \in Int /\ y \in Int /\ z \in Int
      OBVIOUS
    <3> QED BY <3>1
  <2>4. IsFiniteSet(B(y))
    BY <2>1, FS_Subset
  <2>5. B(x) \in SUBSET B(y)
    BY <2>3
  <2> QED BY <2>2, <2>4, <2>5
<1>2. Cardinality(B(x)) <= Cardinality(B(y)) /\ Cardinality(B(x)) # Cardinality(B(y)) /\ IsFiniteSet(B(x))
  BY <1>1, FS_Subset
<1>3. Cardinality(B(x)) \in Nat /\ Cardinality(B(y)) \in Nat
  BY <1>1, <1>2, FS_CardinalityType
<1> QED BY <1>2, <1>3

\* FirstOf(n, S) takes at most n: the ranks of what it takes are different numbers below n.
LEMMA FirstOfBounded ==
  ASSUME NEW n \in Int, NEW S, S \subseteq Int, IsFiniteSet(S)
  PROVE  /\ FirstOf(n, S) \subseteq S /\ IsFiniteSet(FirstOf(n, S))
         /\ n >= 0 => Cardinality(FirstOf(n, S)) <= n
<1> DEFINE F == FirstOf(n, S)
           rank(x) == Cardinality({y \in S : y < x})
<1>1. F \in SUBSET S /\ IsFiniteSet(F)
  <2>1. F \in SUBSET S
    BY DEF FirstOf
  <2> QED BY <2>1, FS_Subset
<1>2. ASSUME n >= 0 PROVE Cardinality(F) <= n
  <2> DEFINE f == [x \in F |-> rank(x)]
  <2>1. \A x \in S : rank(x) \in Nat
    <3> TAKE x \in S
    <3>1. {y \in S : y < x} \in SUBSET S
      OBVIOUS
    <3> QED BY <3>1, FS_Subset, FS_CardinalityType
  <2>2. \A x \in F : rank(x) \in 0..(n - 1)
    BY <1>2, <2>1 DEF FirstOf
  <2>3. \A x, y \in S : x # y => rank(x) # rank(y)
    <3> SUFFICES ASSUME NEW x \in S, NEW y \in S, x # y PROVE rank(x) # rank(y)
      OBVIOUS
    <3>1. x < y \/ y < x
      OBVIOUS
    <3>2. rank(x) \in Nat /\ rank(y) \in Nat
      BY <2>1
    <3>3. CASE x < y
      <4>1. rank(x) < rank(y)
        BY <3>3, RankOrder
      <4> QED BY <3>2, <4>1
    <3>4. CASE y < x
      <4>1. rank(y) < rank(x)
        BY <3>4, RankOrder
      <4> QED BY <3>2, <4>1
    <3> QED BY <3>1, <3>3, <3>4
  <2> HIDE DEF rank
  <2>4. f \in Injection(F, 0..(n - 1))
    <3>1. f \in [F -> 0..(n - 1)]
      BY <2>2
    <3>2. \A x, y \in F : f[x] = f[y] => x = y
      BY <1>1, <2>3
    <3> QED BY <3>1, <3>2 DEF Injection, IsInjective
  <2>5. IsFiniteSet(0..(n - 1)) /\ Cardinality(0..(n - 1)) = n
    BY <1>2, FS_Interval
  <2>6. Cardinality(F) <= Cardinality(0..(n - 1))
    BY <2>4, <2>5, FS_Injection
  <2> QED BY <2>5, <2>6
<1> QED BY <1>1, <1>2

\* FirstOf(n, S) takes everything when S has no more than n.
LEMMA FirstOfAll ==
  ASSUME NEW n \in Int, NEW S, S \subseteq Int, IsFiniteSet(S), Cardinality(S) <= n
  PROVE  FirstOf(n, S) = S
<1> SUFFICES ASSUME NEW x \in S PROVE Cardinality({y \in S : y < x}) < n
  BY DEF FirstOf
<1> DEFINE B == {y \in S : y < x}
<1>1. B \in SUBSET S /\ x \notin B
  OBVIOUS
<1>2. Cardinality(B) <= Cardinality(S) /\ Cardinality(B) # Cardinality(S) /\ IsFiniteSet(B)
  BY <1>1, FS_Subset
<1>3. Cardinality(B) \in Nat /\ Cardinality(S) \in Nat
  BY <1>2, FS_CardinalityType
<1> QED BY <1>2, <1>3

\* The index admits everything it has and new entries only up to its limit.
LEMMA AdmitBounded ==
  ASSUME NEW n \in Int, NEW E, NEW C, E \subseteq Int, IsFiniteSet(E), C \subseteq Int, IsFiniteSet(C),
         Cardinality(E) <= n
  PROVE  /\ E \subseteq Admit(E, C, n) /\ Admit(E, C, n) \subseteq E \cup C
         /\ IsFiniteSet(Admit(E, C, n)) /\ Cardinality(Admit(E, C, n)) <= n
<1> DEFINE m == n - Cardinality(E)
           N == FirstOf(m, C \ E)
<1>1. Cardinality(E) \in Nat /\ m \in Int /\ m >= 0
  BY FS_CardinalityType
<1>2. C \ E \subseteq Int /\ IsFiniteSet(C \ E)
  BY FS_Difference
<1> HIDE DEF m
<1>3. N \subseteq C \ E /\ IsFiniteSet(N) /\ Cardinality(N) <= m
  BY <1>1, <1>2, FirstOfBounded
<1>4. Admit(E, C, n) = E \cup N
  BY FirstOfAll DEF Admit, m
<1>5. IsFiniteSet(E \cup N) /\ Cardinality(E \cup N) = Cardinality(E) + Cardinality(N) - Cardinality(E \cap N)
  BY <1>3, FS_Union
<1>6. E \cap N = {}
  BY <1>3
<1>7. Cardinality(E \cap N) = 0
  BY <1>6, FS_EmptySet
<1>8. Cardinality(N) \in Nat
  BY <1>3, FS_CardinalityType
<1>9. Cardinality(E \cup N) <= n
  BY <1>1, <1>3, <1>5, <1>7, <1>8 DEF m
<1> QED BY <1>3, <1>4, <1>5, <1>9

\* The index keeps to its limits.
Within(P) ==
  /\ Cardinality(Keys(P)) <= MaxKeys
  /\ \A k \in Keys(P) : Cardinality(ValuesOf(P, k)) <= MaxValues

\* Finite attributes have finitely many keys and values.
LEMMA KeysFinite ==
  ASSUME NEW P \in Attributes
  PROVE  /\ Keys(P) \subseteq Int /\ IsFiniteSet(Keys(P))
         /\ \A k : ValuesOf(P, k) \subseteq Int /\ IsFiniteSet(ValuesOf(P, k))
<1>1. P \subseteq Int \X Int /\ IsFiniteSet(P)
  BY DEF Attributes
<1>2. Keys(P) \subseteq Int
  BY <1>1 DEF Keys
<1>3. IsFiniteSet(Keys(P))
  <2> DEFINE f == [p \in P |-> p[1]]
  <2>1. f \in Surjection(P, Keys(P))
    BY DEF Surjection, Keys
  <2> QED BY <1>1, <2>1, FS_Surjection
<1>4. ASSUME NEW k PROVE ValuesOf(P, k) \subseteq Int /\ IsFiniteSet(ValuesOf(P, k))
  <2> DEFINE Q == {q \in P : q[1] = k}
             f == [p \in Q |-> p[2]]
  <2>1. Q \in SUBSET P
    OBVIOUS
  <2>2. IsFiniteSet(Q)
    BY <1>1, <2>1, FS_Subset
  <2>3. f \in Surjection(Q, ValuesOf(P, k))
    BY DEF Surjection, ValuesOf
  <2>4. ValuesOf(P, k) \subseteq Int
    BY <1>1 DEF ValuesOf
  <2> QED BY <2>2, <2>3, <2>4, FS_Surjection
<1> QED BY <1>2, <1>3, <1>4

\* Whatever of the admitted pairs is added, the index keeps to both limits
\* (admittedProjectionCardinality).
LEMMA AdmittedWithin ==
  ASSUME NEW db, IndexedPairs(db) \in Attributes, Within(IndexedPairs(db)),
         NEW C \in Attributes, NEW P, P \subseteq IndexedPairs(db) \cup AdmittedPairs(db, C)
  PROVE  P \in Attributes /\ Within(P)
<1> DEFINE I == IndexedPairs(db)
           A == AdmittedPairs(db, C)
           K == Admit(Keys(I), Keys(C), MaxKeys)
           V(k) == Admit(ValuesOf(I, k), ValuesOf(C, k), MaxValues)
<1> USE StoreAssumption
<1>1. A \subseteq C /\ \A p \in A : p[1] \in K /\ p[2] \in V(p[1])
  BY DEF AdmittedPairs
<1> HIDE DEF A, I
<1>2. P \in Attributes
  <2>1. I \cup C \subseteq Int \X Int /\ IsFiniteSet(I \cup C)
    BY FS_Union DEF Attributes, I
  <2>2. P \in SUBSET (I \cup C)
    BY <1>1 DEF I, A
  <2> QED BY <2>1, <2>2, FS_Subset DEF Attributes
<1>3. Cardinality(Keys(P)) <= MaxKeys
  <2>1. Cardinality(Keys(I)) <= MaxKeys
    BY DEF Within, I
  <2>2. /\ Keys(I) \subseteq Int /\ IsFiniteSet(Keys(I))
        /\ Keys(C) \subseteq Int /\ IsFiniteSet(Keys(C))
    BY KeysFinite DEF I
  <2>3. Keys(I) \subseteq K /\ IsFiniteSet(K) /\ Cardinality(K) <= MaxKeys
    BY <2>1, <2>2, AdmitBounded
  <2>4. Keys(P) \in SUBSET K
    BY <1>1, <2>3 DEF Keys, I, A
  <2>5. Cardinality(Keys(P)) <= Cardinality(K) /\ IsFiniteSet(Keys(P))
    BY <2>3, <2>4, FS_Subset
  <2>6. Cardinality(Keys(P)) \in Nat /\ Cardinality(K) \in Nat
    BY <2>3, <2>5, FS_CardinalityType
  <2> QED BY <2>3, <2>5, <2>6
<1>4. ASSUME NEW k \in Keys(P) PROVE Cardinality(ValuesOf(P, k)) <= MaxValues
  <2>1. /\ ValuesOf(I, k) \subseteq Int /\ IsFiniteSet(ValuesOf(I, k))
        /\ ValuesOf(C, k) \subseteq Int /\ IsFiniteSet(ValuesOf(C, k))
    BY KeysFinite DEF I
  <2>2. Cardinality(ValuesOf(I, k)) <= MaxValues
    <3>1. CASE k \in Keys(I)
      BY <3>1 DEF Within, I
    <3>2. CASE k \notin Keys(I)
      <4>1. ValuesOf(I, k) = {}
        BY <3>2 DEF ValuesOf, Keys
      <4> QED BY <4>1, FS_EmptySet
    <3> QED BY <3>1, <3>2
  <2>3. ValuesOf(I, k) \subseteq V(k) /\ IsFiniteSet(V(k)) /\ Cardinality(V(k)) <= MaxValues
    BY <2>1, <2>2, AdmitBounded
  <2>4. ValuesOf(P, k) \in SUBSET V(k)
    BY <1>1, <2>3 DEF ValuesOf, I, A
  <2>5. Cardinality(ValuesOf(P, k)) <= Cardinality(V(k)) /\ IsFiniteSet(ValuesOf(P, k))
    BY <2>3, <2>4, FS_Subset
  <2>6. Cardinality(ValuesOf(P, k)) \in Nat /\ Cardinality(V(k)) \in Nat
    BY <2>3, <2>5, FS_CardinalityType
  <2> QED BY <2>3, <2>5, <2>6
<1> QED BY <1>2, <1>3, <1>4 DEF Within


\* The parts of the invariant: projections, trace rows and the limits of the index.
SpansExact(db) ==
  /\ db.spanIndex = UNION {RowsOf(s) : s \in db.spans}
  /\ db.spanSearch = {[record |-> SpanKey(s), words |-> Words(s)] : s \in db.spans}

LogsExact(db) ==
  /\ db.logIndex = UNION {LogRowsOf(l) : l \in db.logs}
  /\ db.logSearch = {[record |-> l.id, words |-> Words(l)] : l \in db.logs}

TracesExact(db) ==
  /\ DOMAIN db.traces = {s.trace : s \in db.spans}
  /\ \A t \in DOMAIN db.traces : db.traces[t] = TraceRow(SpansOf(db, t))

IndexBounded(db) == IndexedPairs(db) \in Attributes /\ Within(IndexedPairs(db))

\* The inductive invariant of the tables.
Sound(db) == DOMAIN db = Tables /\ SpansExact(db) /\ LogsExact(db) /\ TracesExact(db) /\ IndexBounded(db)

\* An attribute row names its record.
LEMMA RowsOfKey ==
  /\ \A s : \A r \in RowsOf(s) : r.record = SpanKey(s)
  /\ \A l : \A r \in LogRowsOf(l) : r.record = l.id
BY DEF RowsOf, LogRowsOf

\* The key of a span has its trace.
LEMMA KeyOfTrace == \A s : SpanKey(s)[1] = s.trace
BY DEF SpanKey

\* A new Store is sound.
LEMMA EmptySound == Sound(EmptyStore)
<1> DEFINE e == EmptyStore
<1>1. /\ e.spans = {} /\ e.spanIndex = {} /\ e.spanSearch = {} /\ e.traces = <<>>
      /\ e.logs = {} /\ e.logIndex = {} /\ e.logSearch = {}
  BY DEF EmptyStore
<1>2. DOMAIN e = Tables
  BY EmptyTables
<1> HIDE DEF e
<1>3. IndexedPairs(e) = {}
  BY <1>1 DEF IndexedPairs
<1>4. Keys({}) = {} /\ Cardinality({}) = 0 /\ IsFiniteSet({})
  BY FS_EmptySet DEF Keys
<1>5. IndexBounded(e)
  BY <1>3, <1>4, StoreAssumption DEF IndexBounded, Within, Attributes
<1>6. SpansExact(e) /\ LogsExact(e)
  BY <1>1 DEF SpansExact, LogsExact
<1>7. DOMAIN e.traces = {}
  BY <1>1
<1>8. TracesExact(e)
  BY <1>1, <1>7 DEF TracesExact
<1> QED BY <1>2, <1>5, <1>6, <1>8 DEF Sound, e

\* A batch is finite.
LEMMA FiniteBatch ==
  ASSUME NEW batch, NEW S, batch \in Seq(S)
  PROVE  IsFiniteSet(DOMAIN batch) /\ \A i \in DOMAIN batch : batch[i] \in S
<1>1. Len(batch) \in Nat /\ DOMAIN batch = 1..Len(batch)
  OBVIOUS
<1>2. IsFiniteSet(1..Len(batch))
  BY <1>1, FS_Interval
<1> QED BY <1>1, <1>2

\* Of the spans of a batch only admitted attributes are indexed.
LEMMA NewSpansIndexed ==
  ASSUME NEW db, NEW batch \in Seq(SpanRecords)
  PROVE  \E C \in Attributes : \A s \in NewSpans(db, batch) : s.indexed \subseteq AdmittedPairs(db, C)
<1> DEFINE last == LastSpans(batch)
           C == UNION {r.attributes : r \in last}
<1>1. IsFiniteSet(DOMAIN batch) /\ \A i \in DOMAIN batch : batch[i] \in SpanRecords
  BY FiniteBatch
<1>2. \A r \in last : r.attributes \in Attributes
  BY <1>1 DEF LastSpans, SpanRecords
<1>3. IsFiniteSet({r.attributes : r \in last})
  <2> DEFINE L == {j \in DOMAIN batch : \A k \in DOMAIN batch : SpanKey(batch[k]) = SpanKey(batch[j]) => k <= j}
             f == [j \in L |-> batch[j].attributes]
  <2>1. L \in SUBSET DOMAIN batch
    OBVIOUS
  <2>2. IsFiniteSet(L)
    BY <1>1, <2>1, FS_Subset
  <2>3. last = {batch[j] : j \in L}
    BY DEF LastSpans
  <2>4. f \in Surjection(L, {r.attributes : r \in last})
    BY <2>3 DEF Surjection
  <2> QED BY <2>2, <2>4, FS_Surjection
<1>4. C \in Attributes
  <2>1. \A T \in {r.attributes : r \in last} : IsFiniteSet(T) /\ T \subseteq Int \X Int
    BY <1>2 DEF Attributes
  <2>2. IsFiniteSet(C)
    BY <1>3, <2>1, FS_UNION
  <2>3. C \subseteq Int \X Int
    BY <2>1
  <2> QED BY <2>2, <2>3 DEF Attributes
<1>5. \A s \in NewSpans(db, batch) : s.indexed \subseteq AdmittedPairs(db, C)
  BY DEF NewSpans, Prepare, WithField
<1> QED BY <1>4, <1>5

\* Of the logs of a batch only admitted attributes are indexed.
LEMMA NewLogsIndexed ==
  ASSUME NEW db, NEW batch \in Seq(LogRecords), NEW ids
  PROVE  \E C \in Attributes : \A l \in NewLogs(db, batch, ids) : l.indexed \subseteq AdmittedPairs(db, C)
<1> DEFINE C == UNION {batch[i].attributes : i \in DOMAIN batch}
<1>1. IsFiniteSet(DOMAIN batch) /\ \A i \in DOMAIN batch : batch[i] \in LogRecords
  BY FiniteBatch
<1>2. \A i \in DOMAIN batch : batch[i].attributes \in Attributes
  BY <1>1 DEF LogRecords
<1>3. IsFiniteSet({batch[i].attributes : i \in DOMAIN batch})
  <2> DEFINE f == [j \in DOMAIN batch |-> batch[j].attributes]
  <2>1. f \in Surjection(DOMAIN batch, {batch[i].attributes : i \in DOMAIN batch})
    BY DEF Surjection
  <2> QED BY <1>1, <2>1, FS_Surjection
<1>4. C \in Attributes
  <2>1. \A T \in {batch[i].attributes : i \in DOMAIN batch} : IsFiniteSet(T) /\ T \subseteq Int \X Int
    BY <1>2 DEF Attributes
  <2>2. IsFiniteSet(C)
    BY <1>3, <2>1, FS_UNION
  <2>3. C \subseteq Int \X Int
    BY <2>1
  <2> QED BY <2>2, <2>3 DEF Attributes
<1>5. \A l \in NewLogs(db, batch, ids) : l.indexed \subseteq AdmittedPairs(db, C)
  <2> SUFFICES ASSUME NEW i \in DOMAIN batch
               PROVE  WithField(Prepare(batch[i], AdmittedPairs(db, C)), "id", ids[i]).indexed
                        \subseteq AdmittedPairs(db, C)
    BY DEF NewLogs
  <2> QED BY DEF Prepare, WithField
<1> QED BY <1>4, <1>5

\* The transaction of a batch of spans keeps the Store sound.
LEMMA SpansSound ==
  ASSUME NEW db, Sound(db), NEW batch \in Seq(SpanRecords)
  PROVE  Sound(WriteSpans(db, batch))
<1> DEFINE w == WriteSpans(db, batch)
           new == NewSpans(db, batch)
           keys == {SpanKey(s) : s \in new}
           touched == {s.trace : s \in new}
<1>1. SpansWritten(db, new, w)
  <2>1. DOMAIN db = Tables
    BY DEF Sound
  <2> QED BY <2>1, WriteSpansTables
<1>2. PICK C \in Attributes : \A s \in new : s.indexed \subseteq AdmittedPairs(db, C)
  BY NewSpansIndexed
<1> HIDE DEF w, new
<1> USE DEF SpansWritten
<1>3. SpansExact(w)
  <2>1. w.spanIndex = UNION {RowsOf(s) : s \in w.spans}
    BY <1>1, RowsOfKey DEF Sound, SpansExact
  <2>2. w.spanSearch = {[record |-> SpanKey(s), words |-> Words(s)] : s \in w.spans}
    BY <1>1 DEF Sound, SpansExact
  <2> QED BY <2>1, <2>2 DEF SpansExact
<1>4. LogsExact(w)
  BY <1>1 DEF Sound, LogsExact
<1>5. TracesExact(w)
  <2>1. DOMAIN w.traces = DOMAIN db.traces \cup touched
    BY <1>1
  <2>2. \A s \in db.spans : s.trace \notin touched => SpanKey(s) \notin keys
    BY KeyOfTrace
  <2>3. DOMAIN w.traces = {s.trace : s \in w.spans}
    BY <1>1, <2>1, <2>2 DEF Sound, TracesExact
  <2>4. \A t : t \notin touched => SpansOf(w, t) = SpansOf(db, t)
    BY <1>1, <2>2 DEF SpansOf
  <2>5. \A t \in DOMAIN w.traces : w.traces[t] = TraceRow(SpansOf(w, t))
    <3> TAKE t \in DOMAIN w.traces
    <3>1. CASE t \in touched
      BY <1>1, <3>1
    <3>2. CASE t \notin touched
      BY <1>1, <2>1, <2>4, <3>2 DEF Sound, TracesExact
    <3> QED BY <3>1, <3>2
  <2> QED BY <2>3, <2>5 DEF TracesExact
<1>6. IndexBounded(w)
  <2>1. AdmittedPairs(db, C) \subseteq Int \X Int
    BY DEF AdmittedPairs, Attributes
  <2>2. \A s \in new : \A r \in RowsOf(s) : <<r.key, r.value>> \in AdmittedPairs(db, C)
    BY <1>2, <2>1 DEF RowsOf
  <2>3. IndexedPairs(w) \subseteq IndexedPairs(db) \cup AdmittedPairs(db, C)
    BY <1>1, <2>2 DEF IndexedPairs
  <2> QED BY <2>3, AdmittedWithin DEF Sound, IndexBounded
<1> QED BY <1>1, <1>3, <1>4, <1>5, <1>6 DEF Sound, w

\* The transaction of a batch of logs keeps the Store sound.
LEMMA LogsSound ==
  ASSUME NEW db, Sound(db), NEW batch \in Seq(LogRecords), NEW ids
  PROVE  Sound(WriteLogs(db, batch, ids))
<1> DEFINE w == WriteLogs(db, batch, ids)
           new == NewLogs(db, batch, ids)
<1>1. LogsWritten(db, batch, new, w)
  <2>1. DOMAIN db = Tables
    BY DEF Sound
  <2> QED BY <2>1, WriteLogsTables
<1>2. PICK C \in Attributes : \A l \in new : l.indexed \subseteq AdmittedPairs(db, C)
  BY NewLogsIndexed
<1> HIDE DEF w, new
<1> USE DEF LogsWritten
<1>3. SpansExact(w)
  BY <1>1 DEF Sound, SpansExact
<1>4. LogsExact(w)
  BY <1>1 DEF Sound, LogsExact
<1>5. TracesExact(w)
  BY <1>1 DEF Sound, TracesExact, SpansOf
<1>6. IndexBounded(w)
  <2>1. AdmittedPairs(db, C) \subseteq Int \X Int
    BY DEF AdmittedPairs, Attributes
  <2>2. \A l \in new : \A r \in LogRowsOf(l) : <<r.key, r.value>> \in AdmittedPairs(db, C)
    BY <1>2, <2>1 DEF LogRowsOf
  <2>3. IndexedPairs(w) \subseteq IndexedPairs(db) \cup AdmittedPairs(db, C)
    BY <1>1, <2>2 DEF IndexedPairs
  <2> QED BY <2>3, AdmittedWithin DEF Sound, IndexBounded
<1> QED BY <1>1, <1>3, <1>4, <1>5, <1>6 DEF Sound, w

\* An index from which rows are taken keeps to its limits.
LEMMA NoPairsAdmitted ==
  ASSUME NEW db, IndexBounded(db), NEW P, P \subseteq IndexedPairs(db)
  PROVE  P \in Attributes /\ Within(P)
<1>1. {} \in Attributes
  BY FS_EmptySet DEF Attributes
<1> QED BY <1>1, AdmittedWithin DEF IndexBounded

\* deleteTelemetry keeps the Store sound.
LEMMA DeletionSound ==
  ASSUME NEW db, Sound(db), NEW C
  PROVE  Sound(DeleteTelemetry(db, C))
<1> DEFINE w == DeleteTelemetry(db, C)
<1>1. Pruned(db, C, w)
  <2>1. DOMAIN db = Tables
    BY DEF Sound
  <2> QED BY <2>1, DeleteTables
<1> HIDE DEF w
<1> USE DEF Pruned
<1>2. SpansExact(w)
  <2>1. w.spanIndex = UNION {RowsOf(s) : s \in w.spans}
    <3>1. \A s : \A r \in RowsOf(s) : r.record[1] = s.trace
      BY RowsOfKey, KeyOfTrace
    <3>2. db.spanIndex = UNION {RowsOf(s) : s \in db.spans}
      BY DEF Sound, SpansExact
    <3> QED BY <1>1, <3>1, <3>2
  <2>2. w.spanSearch = {[record |-> SpanKey(s), words |-> Words(s)] : s \in w.spans}
    BY <1>1, KeyOfTrace DEF Sound, SpansExact
  <2> QED BY <2>1, <2>2 DEF SpansExact
<1>3. LogsExact(w)
  <2>1. w.logIndex = UNION {LogRowsOf(l) : l \in w.logs}
    BY <1>1, RowsOfKey DEF Sound, LogsExact
  <2>2. w.logSearch = {[record |-> l.id, words |-> Words(l)] : l \in w.logs}
    BY <1>1 DEF Sound, LogsExact
  <2> QED BY <2>1, <2>2 DEF LogsExact
<1>4. TracesExact(w)
  <2>1. DOMAIN w.traces = DOMAIN db.traces \ TracesIn(C)
    BY <1>1
  <2>2. DOMAIN w.traces = {s.trace : s \in w.spans}
    BY <1>1, <2>1 DEF Sound, TracesExact
  <2>3. \A t : t \notin TracesIn(C) => SpansOf(w, t) = SpansOf(db, t)
    BY <1>1 DEF SpansOf
  <2>4. \A t \in DOMAIN w.traces : w.traces[t] = TraceRow(SpansOf(w, t))
    BY <1>1, <2>1, <2>3 DEF Sound, TracesExact
  <2> QED BY <2>2, <2>4 DEF TracesExact
<1>5. IndexBounded(w)
  <2>1. IndexedPairs(w) \subseteq IndexedPairs(db)
    BY <1>1 DEF IndexedPairs
  <2> QED BY <2>1, NoPairsAdmitted DEF Sound, IndexBounded
<1> QED BY <1>1, <1>2, <1>3, <1>4, <1>5 DEF Sound, w

\* A transaction that leaves the records and their projections alone keeps the Store sound.
LEMMA SameRecords ==
  ASSUME NEW db, Sound(db), NEW e, DOMAIN e = Tables,
         \A t \in Tables \ {"references", "services", "diagnostics", "counters", "retention"} : e[t] = db[t]
  PROVE  Sound(e)
<1>1. /\ e.spans = db.spans /\ e.spanIndex = db.spanIndex /\ e.spanSearch = db.spanSearch
      /\ e.logs = db.logs /\ e.logIndex = db.logIndex /\ e.logSearch = db.logSearch
      /\ e.traces = db.traces
  BY DEF Tables
<1>2. IndexedPairs(e) = IndexedPairs(db) /\ \A t : SpansOf(e, t) = SpansOf(db, t)
  BY <1>1 DEF IndexedPairs, SpansOf
<1>3. SpansExact(e) /\ LogsExact(e)
  BY <1>1 DEF Sound, SpansExact, LogsExact
<1>4. TracesExact(e)
  BY <1>1, <1>2 DEF Sound, TracesExact
<1>5. IndexBounded(e)
  BY <1>2 DEF Sound, IndexBounded
<1> QED BY <1>3, <1>4, <1>5 DEF Sound

\* What retain does to the Store is two deletions at most.
LEMMA RetentionDeletes ==
  ASSUME NEW db, NEW cutoff
  PROVE  \E C, D : LET fresh == DeleteTelemetry(db, C)
                  IN  RunRetention(db, cutoff).tables \in {fresh, DeleteTelemetry(fresh, D)}
<1> DEFINE expired == {c \in Telemetry(db) : c.time < cutoff}
           first == Oldest(BatchSize, expired)
           fresh == DeleteTelemetry(db, first)
           deleted == RecordCount(db) - RecordCount(fresh)
           second == Oldest(BatchSize - deleted, Telemetry(fresh))
<1>1. RunRetention(db, cutoff).tables =
        IF OverBudget(fresh) /\ deleted < BatchSize THEN DeleteTelemetry(fresh, second) ELSE fresh
  BY DEF RunRetention
<1> HIDE DEF first, second, deleted
<1>2. RunRetention(db, cutoff).tables \in {fresh, DeleteTelemetry(fresh, second)}
  BY <1>1
<1> QED BY <1>2

\* runRetention keeps the Store sound.
LEMMA RetentionSound ==
  ASSUME NEW db, Sound(db), NEW cutoff
  PROVE  Sound(RunRetention(db, cutoff).tables)
<1>1. PICK C, D : RunRetention(db, cutoff).tables \in
                    {DeleteTelemetry(db, C), DeleteTelemetry(DeleteTelemetry(db, C), D)}
  BY RetentionDeletes
<1>2. Sound(DeleteTelemetry(db, C))
  BY DeletionSound
<1>3. Sound(DeleteTelemetry(DeleteTelemetry(db, C), D))
  BY <1>2, DeletionSound
<1> QED BY <1>1, <1>2, <1>3

\* Every step keeps the Store sound.
LEMMA SoundStep == Sound(store) /\ [Next]_vars => Sound(store)'
<1> SUFFICES ASSUME Sound(store), [Next]_vars PROVE Sound(store')
  BY DEF Sound, SpansExact, LogsExact, TracesExact, IndexBounded
<1>1. ASSUME UNCHANGED store PROVE Sound(store')
  BY <1>1
<1>2. ASSUME StoreNext PROVE Sound(store')
  <2>1. ASSUME Start \/ End \/ Wake \/ WriteFails PROVE Sound(store')
    BY <1>1, <2>1 DEF Start, End, Wake, WriteFails
  <2>2. CASE Reset
    BY <2>2, EmptySound DEF Reset
  <2>3. ASSUME NEW batch \in TraceBatches, CommitSpans(batch) PROVE Sound(store')
    BY <2>3, SpansSound, RecordAssumption DEF CommitSpans
  <2>4. ASSUME NEW batch \in LogBatches, NEW ids, CommitLogs(batch, ids) PROVE Sound(store')
    BY <2>4, LogsSound, RecordAssumption DEF CommitLogs
  <2>5. ASSUME NEW undecoded, Reject(undecoded) PROVE Sound(store')
    <3>1. store' = RecordFailure(store, undecoded) /\ DOMAIN store = Tables
      BY <2>5 DEF Reject, Sound
    <3>2. /\ DOMAIN RecordFailure(store, undecoded) = Tables
          /\ \A t \in Tables \ {"diagnostics", "counters"} : RecordFailure(store, undecoded)[t] = store[t]
      BY <3>1 DEF RecordFailure, Tables
    <3> QED BY <3>1, <3>2, SameRecords
  <2>6. ASSUME NEW cutoff, MarkRunning(cutoff) PROVE Sound(store')
    <3>1. store' = [store EXCEPT !.retention.running = TRUE, !.retention.failed = FALSE] /\ DOMAIN store = Tables
      BY <2>6 DEF MarkRunning, Sound
    <3>2. DOMAIN store' = Tables /\ \A t \in Tables \ {"retention"} : store'[t] = store[t]
      BY <3>1 DEF Tables
    <3> QED BY <3>2, SameRecords
  <2>7. CASE Sweep
    BY <2>7, RetentionSound DEF Sweep
  <2>8. CASE FinishRound
    <3>1. /\ store' = [store EXCEPT !.retention.running = FALSE, !.retention.deleted = @ + round.deleted]
          /\ DOMAIN store = Tables
      BY <2>8 DEF FinishRound, Sound
    <3>2. DOMAIN store' = Tables /\ \A t \in Tables \ {"retention"} : store'[t] = store[t]
      BY <3>1 DEF Tables
    <3> QED BY <3>2, SameRecords
  <2>9. ASSUME NEW noted, RetentionFails(noted) PROVE Sound(store')
    <3>1. CASE noted
      <4>1. /\ store' = [store EXCEPT !.retention.running = FALSE, !.retention.failed = TRUE, !.diagnostics = @ + 1]
            /\ DOMAIN store = Tables
        BY <2>9, <3>1 DEF RetentionFails, Sound
      <4>2. DOMAIN store' = Tables /\ \A t \in Tables \ {"diagnostics", "retention"} : store'[t] = store[t]
        BY <4>1 DEF Tables
      <4> QED BY <4>2, SameRecords
    <3>2. CASE ~noted
      BY <1>1, <2>9, <3>2 DEF RetentionFails
    <3> QED BY <3>1, <3>2
  <2> QED BY <1>2, <2>1, <2>2, <2>3, <2>4, <2>5, <2>6, <2>7, <2>8, <2>9 DEF StoreNext
<1>3. ASSUME NEW which, StartPaging(which) PROVE Sound(store')
  BY <1>1, <1>3 DEF StartPaging, storeVars
<1>4. CASE ReadPage
  BY <1>1, <1>4 DEF ReadPage, storeVars
<1>5. CASE UNCHANGED vars
  BY <1>1, <1>5 DEF vars, storeVars
<1> QED BY <1>2, <1>3, <1>4, <1>5 DEF Next, StoreStep

\* The Store is sound at any moment, in between the transactions of retain, after a failure,
\* a restart or a reset too.
THEOREM StoreSound == Spec => []Sound(store)
<1>1. Init => Sound(store)
  BY EmptySound DEF Init, StoreInit
<1> QED BY <1>1, SoundStep, PTL DEF Spec

\* Every record has exactly the index and search rows of its current version, and the index
\* never has more keys or values than configured.
THEOREM ProjectionsCorrect == Spec => []ProjectionsMatchRecords
<1>1. Sound(store) => ProjectionsMatchRecords
  BY DEF Sound, SpansExact, LogsExact, IndexBounded, Within, ProjectionsMatchRecords, RowsOf, LogRowsOf
<1> QED BY <1>1, StoreSound, PTL

\* A trace row is always the summary of the spans the Store has of the trace.
THEOREM TraceRowsCorrect == Spec => []TracesMatchSpans
<1>1. Sound(store) => TracesMatchSpans
  BY DEF Sound, TracesExact, TracesMatchSpans
<1> QED BY <1>1, StoreSound, PTL

====
