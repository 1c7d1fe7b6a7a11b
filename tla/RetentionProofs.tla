--------------------------- MODULE RetentionProofs ---------------------------
(***************************************************************************)
(* Retention: what one sweep deletes, and what it leaves referred to and   *)
(* counted.                                                                *)
(***************************************************************************)
EXTENDS StoreProofs

\* What retention chooses from.
Candidates == [kind : {"trace", "log"}, id : Int, time : Int]

\* ORDER BY time_ns, kind, id is a total order.
LEMMA OlderOrder ==
  /\ \A x \in Candidates : ~OlderThan(x, x)
  /\ \A x, y \in Candidates : x = y \/ OlderThan(x, y) \/ OlderThan(y, x)
  /\ \A x, y, z \in Candidates : OlderThan(x, y) /\ OlderThan(y, z) => OlderThan(x, z)
<1>1. \A x \in Candidates : x.kind \in {"trace", "log"} /\ x.id \in Int /\ x.time \in Int
  BY DEF Candidates
<1>2. \A x, y \in Candidates : x.kind = y.kind /\ x.id = y.id /\ x.time = y.time => x = y
  BY DEF Candidates
<1> QED BY <1>1, <1>2 DEF OlderThan

\* What is older has fewer that are older.
LEMMA OlderRank ==
  ASSUME NEW S, S \subseteq Candidates, IsFiniteSet(S), NEW x \in S, NEW y \in S, OlderThan(x, y)
  PROVE  Cardinality({z \in S : OlderThan(z, x)}) < Cardinality({z \in S : OlderThan(z, y)})
<1> DEFINE B(v) == {z \in S : OlderThan(z, v)}
<1>1. B(y) \in SUBSET S
  OBVIOUS
<1>2. x \in B(y) /\ x \notin B(x)
  BY OlderOrder
<1>3. B(x) \in SUBSET B(y)
  BY OlderOrder
<1>4. IsFiniteSet(B(y))
  BY <1>1, FS_Subset
<1>5. Cardinality(B(x)) <= Cardinality(B(y)) /\ Cardinality(B(x)) # Cardinality(B(y)) /\ IsFiniteSet(B(x))
  BY <1>2, <1>3, <1>4, FS_Subset
<1>6. Cardinality(B(x)) \in Nat /\ Cardinality(B(y)) \in Nat
  BY <1>4, <1>5, FS_CardinalityType
<1> QED BY <1>5, <1>6

\* Oldest(n, S) takes at most n, and takes nothing while it leaves something older.
LEMMA OldestFirst ==
  ASSUME NEW n \in Int, NEW S, S \subseteq Candidates, IsFiniteSet(S)
  PROVE  /\ Oldest(n, S) \subseteq S /\ IsFiniteSet(Oldest(n, S))
         /\ n >= 0 => Cardinality(Oldest(n, S)) <= n
         /\ \A c \in Oldest(n, S) : \A d \in S \ Oldest(n, S) : OlderThan(c, d)
<1> DEFINE F == Oldest(n, S)
           rank(x) == Cardinality({y \in S : OlderThan(y, x)})
<1>1. F \in SUBSET S /\ IsFiniteSet(F)
  <2>1. F \in SUBSET S
    BY DEF Oldest
  <2> QED BY <2>1, FS_Subset
<1>2. \A x \in S : rank(x) \in Nat
  <2> TAKE x \in S
  <2>1. {y \in S : OlderThan(y, x)} \in SUBSET S
    OBVIOUS
  <2> QED BY <2>1, FS_Subset, FS_CardinalityType
<1>3. \A x, y \in S : OlderThan(x, y) => rank(x) < rank(y)
  BY OlderRank
<1>4. \A x \in S : x \in F <=> rank(x) < n
  BY DEF Oldest
<1> HIDE DEF rank, F
<1>5. \A x, y \in S : x # y => rank(x) # rank(y)
  <2> SUFFICES ASSUME NEW x \in S, NEW y \in S, x # y PROVE rank(x) # rank(y)
    OBVIOUS
  <2>1. OlderThan(x, y) \/ OlderThan(y, x)
    BY OlderOrder
  <2> QED BY <1>2, <1>3, <2>1
<1>6. ASSUME n >= 0 PROVE Cardinality(F) <= n
  <2> DEFINE f == [x \in F |-> rank(x)]
  <2>1. \A x \in F : rank(x) \in 0..(n - 1)
    BY <1>1, <1>2, <1>4
  <2>2. f \in Injection(F, 0..(n - 1))
    <3>1. f \in [F -> 0..(n - 1)]
      BY <2>1
    <3>2. \A x, y \in F : f[x] = f[y] => x = y
      BY <1>1, <1>5
    <3> QED BY <3>1, <3>2 DEF Injection, IsInjective
  <2>3. IsFiniteSet(0..(n - 1)) /\ Cardinality(0..(n - 1)) = n
    BY <1>6, FS_Interval
  <2>4. Cardinality(F) <= Cardinality(0..(n - 1))
    BY <2>2, <2>3, FS_Injection
  <2> QED BY <2>3, <2>4
<1>7. \A c \in F : \A d \in S \ F : OlderThan(c, d)
  <2> SUFFICES ASSUME NEW c \in F, NEW d \in S \ F PROVE OlderThan(c, d)
    OBVIOUS
  <2>1. c \in S /\ rank(c) < n /\ ~(rank(d) < n)
    BY <1>1, <1>4
  <2>2. c # d /\ ~OlderThan(d, c)
    BY <1>2, <1>3, <2>1
  <2> QED BY <2>1, <2>2, OlderOrder
<1> QED BY <1>1, <1>6, <1>7 DEF F

\* A finite set of times has a first and a last.
LEMMA EnclosingTimes ==
  ASSUME NEW S, S \subseteq Int, IsFiniteSet(S), S # {}
  PROVE  /\ Least(S) \in S /\ \A m \in S : Least(S) <= m
         /\ Greatest(S) \in S /\ \A m \in S : m <= Greatest(S)
<1> DEFINE n == Cardinality(S)
           rank(x) == Cardinality({y \in S : y < x})
           f == [x \in S |-> rank(x)]
<1>1. n \in Nat /\ n # 0
  BY FS_CardinalityType, FS_EmptySet
<1>2. \A x \in S : rank(x) \in 0..(n - 1) /\ IsFiniteSet({y \in S : y < x})
  <2> TAKE x \in S
  <2>1. {y \in S : y < x} \in SUBSET S /\ x \notin {y \in S : y < x}
    OBVIOUS
  <2>2. rank(x) <= n /\ rank(x) # n /\ IsFiniteSet({y \in S : y < x})
    BY <2>1, FS_Subset
  <2>3. rank(x) \in Nat
    BY <2>2, FS_CardinalityType
  <2> QED BY <1>1, <2>2, <2>3
<1>3. \A x, y \in S : x < y => rank(x) < rank(y)
  BY RankOrder
<1>4. \A x \in S : rank(x) \in Int
  BY <1>1, <1>2
<1> HIDE DEF n
<1>5. f \in Injection(S, 0..(n - 1))
  <2> HIDE DEF rank
  <2>1. f \in [S -> 0..(n - 1)]
    BY <1>2
  <2>2. \A x, y \in S : f[x] = f[y] => x = y
    <3> SUFFICES ASSUME NEW x \in S, NEW y \in S, x # y PROVE rank(x) # rank(y)
      OBVIOUS
    <3>1. x < y \/ y < x
      OBVIOUS
    <3>2. rank(x) \in Int /\ rank(y) \in Int
      BY <1>4
    <3> QED BY <1>3, <3>1, <3>2
  <2> QED BY <2>1, <2>2 DEF Injection, IsInjective
<1>6. IsFiniteSet(0..(n - 1)) /\ Cardinality(0..(n - 1)) = n
  BY <1>1, FS_Interval
<1>7. f \in Surjection(S, 0..(n - 1))
  BY <1>5, <1>6, FS_Injection DEF n
<1>8. \A v \in 0..(n - 1) : \E x \in S : rank(x) = v
  <2> HIDE DEF rank
  <2> QED BY <1>7 DEF Surjection
<1>9. \E x \in S : \A m \in S : x <= m
  <2>1. PICK x \in S : rank(x) = 0
    BY <1>1, <1>8
  <2>2. {y \in S : y < x} = {}
    BY <1>2, <2>1, FS_EmptySet
  <2> QED BY <2>2
<1>10. \E x \in S : \A m \in S : m <= x
  <2>1. PICK x \in S : rank(x) = n - 1
    BY <1>1, <1>8
  <2>2. IsFiniteSet(S \ {x}) /\ Cardinality(S \ {x}) = n - 1
    BY FS_RemoveElement DEF n
  <2>3. {y \in S : y < x} \in SUBSET (S \ {x})
    OBVIOUS
  <2>4. {y \in S : y < x} = S \ {x}
    BY <2>1, <2>2, <2>3, FS_Subset
  <2> QED BY <2>4
<1>11. Least(S) \in S /\ \A m \in S : Least(S) <= m
  BY <1>9 DEF Least
<1>12. Greatest(S) \in S /\ \A m \in S : m <= Greatest(S)
  BY <1>10 DEF Greatest
<1> QED BY <1>11, <1>12

-----------------------------------------------------------------------------
\* Finitely many records, with numbers for times and identities, and one log of each id.
Typed(db) ==
  /\ IsFiniteSet(db.spans) /\ IsFiniteSet(db.logs)
  /\ \A s \in db.spans : s.trace \in Int /\ s.start \in Int
  /\ \A l \in db.logs : l.id \in Int /\ l.start \in Int
  /\ \A l, m \in db.logs : l.id = m.id => l = m

\* A trace and a log as retention sees them.
TraceEntry(db, t) == [kind |-> "trace", id |-> t, time |-> db.traces[t].start]
LogEntry(l) == [kind |-> "log", id |-> l.id, time |-> l.start]

\* Telemetry is the traces and the logs.
LEMMA TelemetryEntries ==
  ASSUME NEW db
  PROVE  Telemetry(db) = {TraceEntry(db, t) : t \in DOMAIN db.traces} \cup {LogEntry(l) : l \in db.logs}
BY DEF Telemetry, TraceEntry, LogEntry

\* Every trace has a time: the row is that of a nonempty set of spans.
LEMMA TraceTimes ==
  ASSUME NEW db, Sound(db), Typed(db)
  PROVE  /\ IsFiniteSet(DOMAIN db.traces)
         /\ \A t \in DOMAIN db.traces : t \in Int /\ db.traces[t].start \in Int
<1>1. DOMAIN db.traces = {s.trace : s \in db.spans} /\ IsFiniteSet(db.spans)
  BY DEF Sound, TracesExact, Typed
<1>2. IsFiniteSet(DOMAIN db.traces)
  <2> DEFINE f == [s \in db.spans |-> s.trace]
  <2>1. f \in Surjection(db.spans, DOMAIN db.traces)
    BY <1>1 DEF Surjection
  <2> QED BY <1>1, <2>1, FS_Surjection
<1>3. \A t \in DOMAIN db.traces : t \in Int
  BY <1>1 DEF Typed
<1>4. ASSUME NEW t \in DOMAIN db.traces PROVE db.traces[t].start \in Int
  <2> DEFINE S == SpansOf(db, t)
             f == [s \in S |-> s.start]
             times == {s.start : s \in S}
  <2>1. db.traces[t] = TraceRow(S)
    BY DEF Sound, TracesExact
  <2>2. TraceRow(S).start = Least(times)
    BY DEF TraceRow
  <2>3. S \in SUBSET db.spans
    BY DEF SpansOf
  <2>4. IsFiniteSet(S)
    BY <1>1, <2>3, FS_Subset
  <2>5. S # {} /\ \A s \in S : s.start \in Int
    BY <1>1 DEF SpansOf, Typed
  <2>6. f \in Surjection(S, times)
    BY DEF Surjection
  <2>7. IsFiniteSet(times)
    BY <2>4, <2>6, FS_Surjection
  <2>8. times \subseteq Int /\ times # {}
    BY <2>5
  <2>9. Least(times) \in times
    BY <2>7, <2>8, EnclosingTimes
  <2> QED BY <2>1, <2>2, <2>8, <2>9
<1> QED BY <1>2, <1>3, <1>4

\* telemetryRecordCount counts what retention chooses from.
LEMMA TelemetryCount ==
  ASSUME NEW db, Sound(db), Typed(db)
  PROVE  /\ Telemetry(db) \subseteq Candidates /\ IsFiniteSet(Telemetry(db))
         /\ RecordCount(db) = Cardinality(Telemetry(db))
<1> DEFINE T == {TraceEntry(db, t) : t \in DOMAIN db.traces}
           L == {LogEntry(l) : l \in db.logs}
<1>1. Telemetry(db) = T \cup L
  BY TelemetryEntries
<1>2. /\ IsFiniteSet(DOMAIN db.traces)
      /\ \A t \in DOMAIN db.traces : t \in Int /\ db.traces[t].start \in Int
  BY TraceTimes
<1>3. T \subseteq Candidates /\ L \subseteq Candidates
  BY <1>2 DEF TraceEntry, LogEntry, Candidates, Typed
<1>4. IsFiniteSet(T) /\ Cardinality(T) = Cardinality(DOMAIN db.traces)
  <2> DEFINE f == [t \in DOMAIN db.traces |-> TraceEntry(db, t)]
  <2>1. \A t : TraceEntry(db, t).id = t
    BY DEF TraceEntry
  <2> HIDE DEF T
  <2>2. f \in Surjection(DOMAIN db.traces, T)
    BY DEF Surjection, T
  <2>3. f \in Injection(DOMAIN db.traces, T)
    BY <2>1 DEF Injection, IsInjective, T
  <2> QED BY <1>2, <2>2, <2>3, FS_Surjection
<1>5. IsFiniteSet(L) /\ Cardinality(L) = Cardinality(db.logs)
  <2> DEFINE f == [l \in db.logs |-> LogEntry(l)]
  <2>1. \A l \in db.logs : LogEntry(l).id = l.id
    BY DEF LogEntry
  <2>2. f \in Surjection(db.logs, L)
    BY DEF Surjection
  <2>3. f \in Injection(db.logs, L)
    BY <2>1 DEF Injection, IsInjective, Typed
  <2> QED BY <2>2, <2>3, FS_Surjection DEF Typed
<1>6. T \cap L = {}
  BY DEF TraceEntry, LogEntry
<1>7. IsFiniteSet(T \cup L) /\ Cardinality(T \cup L) = Cardinality(T) + Cardinality(L) - Cardinality(T \cap L)
  BY <1>4, <1>5, FS_Union
<1>8. Cardinality(T \cap L) = 0
  BY <1>6, FS_EmptySet
<1>9. Cardinality(T) \in Nat /\ Cardinality(L) \in Nat
  BY <1>4, <1>5, FS_CardinalityType
<1>10. Cardinality(T \cup L) = RecordCount(db)
  BY <1>4, <1>5, <1>7, <1>8, <1>9 DEF RecordCount
<1> QED BY <1>1, <1>3, <1>7, <1>10

\* deleteTelemetry deletes the records it is given and no others.
LEMMA DeletionExact ==
  ASSUME NEW db, Sound(db), Typed(db), NEW C, C \subseteq Telemetry(db)
  PROVE  LET w == DeleteTelemetry(db, C)
         IN  /\ Typed(w)
             /\ Telemetry(w) = Telemetry(db) \ C
             /\ w.spans \subseteq db.spans /\ w.logs \subseteq db.logs
<1> DEFINE w == DeleteTelemetry(db, C)
<1>1. /\ w.spans = {s \in db.spans : s.trace \notin TracesIn(C)}
      /\ w.traces = [t \in DOMAIN db.traces \ TracesIn(C) |-> db.traces[t]]
      /\ w.logs = {l \in db.logs : l.id \notin LogsIn(C)}
  <2>1. DOMAIN db = Tables
    BY DEF Sound
  <2>2. Pruned(db, C, w)
    BY <2>1, DeleteTables
  <2> HIDE DEF w
  <2> QED BY <2>2 DEF Pruned
<1> HIDE DEF w
<1>2. Typed(w)
  <2>1. w.spans \in SUBSET db.spans /\ w.logs \in SUBSET db.logs
    BY <1>1
  <2>2. IsFiniteSet(w.spans) /\ IsFiniteSet(w.logs)
    BY <2>1, FS_Subset DEF Typed
  <2> QED BY <2>1, <2>2 DEF Typed
<1>3. \A t \in DOMAIN db.traces : t \in TracesIn(C) <=> TraceEntry(db, t) \in C
  <2> TAKE t \in DOMAIN db.traces
  <2>1. ASSUME TraceEntry(db, t) \in C PROVE t \in TracesIn(C)
    BY <2>1 DEF TracesIn, TraceEntry
  <2>2. ASSUME t \in TracesIn(C) PROVE TraceEntry(db, t) \in C
    <3>1. PICK c \in C : c.kind = "trace" /\ c.id = t
      BY <2>2 DEF TracesIn
    <3>2. \A l : LogEntry(l).kind = "log"
      BY DEF LogEntry
    <3>3. PICK u \in DOMAIN db.traces : c = TraceEntry(db, u)
      BY <3>1, <3>2, TelemetryEntries
    <3>4. u = t
      BY <3>1, <3>3 DEF TraceEntry
    <3> QED BY <3>3, <3>4
  <2> QED BY <2>1, <2>2
<1>4. \A l \in db.logs : l.id \in LogsIn(C) <=> LogEntry(l) \in C
  <2> TAKE l \in db.logs
  <2>1. ASSUME LogEntry(l) \in C PROVE l.id \in LogsIn(C)
    BY <2>1 DEF LogsIn, LogEntry
  <2>2. ASSUME l.id \in LogsIn(C) PROVE LogEntry(l) \in C
    <3>1. PICK c \in C : c.kind = "log" /\ c.id = l.id
      BY <2>2 DEF LogsIn
    <3>2. \A t : TraceEntry(db, t).kind = "trace"
      BY DEF TraceEntry
    <3>3. PICK m \in db.logs : c = LogEntry(m)
      BY <3>1, <3>2, TelemetryEntries
    <3>4. m.id = l.id
      BY <3>1, <3>3 DEF LogEntry
    <3>5. m = l
      BY <3>4 DEF Typed
    <3> QED BY <3>3, <3>5
  <2> QED BY <2>1, <2>2
<1>5. \A t \in DOMAIN w.traces : TraceEntry(w, t) = TraceEntry(db, t)
  BY <1>1 DEF TraceEntry
<1>6. Telemetry(w) = Telemetry(db) \ C
  <2>1. DOMAIN w.traces = DOMAIN db.traces \ TracesIn(C)
    BY <1>1
  <2>2. Telemetry(w) = {TraceEntry(w, t) : t \in DOMAIN w.traces} \cup {LogEntry(l) : l \in w.logs}
    BY TelemetryEntries
  <2>3. \A c \in Telemetry(w) : c \in Telemetry(db) \ C
    BY <1>1, <1>3, <1>4, <1>5, <2>1, <2>2, TelemetryEntries
  <2>4. \A c \in Telemetry(db) \ C : c \in Telemetry(w)
    <3> TAKE c \in Telemetry(db) \ C
    <3>1. CASE \E t \in DOMAIN db.traces : c = TraceEntry(db, t)
      BY <1>3, <1>5, <2>1, <2>2, <3>1
    <3>2. CASE \E l \in db.logs : c = LogEntry(l)
      BY <1>1, <1>4, <2>2, <3>2
    <3> QED BY <3>1, <3>2, TelemetryEntries
  <2> QED BY <2>3, <2>4
<1>7. w.spans \subseteq db.spans /\ w.logs \subseteq db.logs
  BY <1>1
<1> QED BY <1>2, <1>6, <1>7 DEF w

\* A Store that is over its budget after a deletion was over it before.
LEMMA BudgetMonotone ==
  ASSUME NEW db, Typed(db), NEW w, w.spans \subseteq db.spans, w.logs \subseteq db.logs, OverBudget(w)
  PROVE  OverBudget(db)
<1>1. w.spans \in SUBSET db.spans /\ w.logs \in SUBSET db.logs /\ IsFiniteSet(db.spans) /\ IsFiniteSet(db.logs)
  BY DEF Typed
<1>2. /\ IsFiniteSet(w.spans) /\ Cardinality(w.spans) <= Cardinality(db.spans)
      /\ IsFiniteSet(w.logs) /\ Cardinality(w.logs) <= Cardinality(db.logs)
  BY <1>1, FS_Subset
<1>3. /\ Cardinality(w.spans) \in Nat /\ Cardinality(db.spans) \in Nat
      /\ Cardinality(w.logs) \in Nat /\ Cardinality(db.logs) \in Nat
  BY <1>1, <1>2, FS_CardinalityType
<1> QED BY <1>2, <1>3, StoreAssumption DEF OverBudget

\* One runRetention: it deletes at most a batch, the oldest, counts them, and touches what
\* has not expired only in a Store that is over its budget.
LEMMA SweepExact ==
  ASSUME NEW db, Sound(db), Typed(db), NEW cutoff \in Int
  PROVE  LET result == RunRetention(db, cutoff)
             kept   == result.tables
             left   == Telemetry(kept)
             lost   == Telemetry(db) \ left
         IN  /\ Typed(kept)
             /\ left \subseteq Telemetry(db) /\ kept.logs \subseteq db.logs
             /\ result.deleted = Cardinality(lost) /\ Cardinality(lost) <= BatchSize
             /\ \A c \in lost : \A d \in left : OlderThan(c, d)
             /\ (\E c \in lost : c.time >= cutoff) => OverBudget(db)
<1> DEFINE all == Telemetry(db)
           expired == {c \in Telemetry(db) : c.time < cutoff}
           first == Oldest(BatchSize, expired)
           fresh == DeleteTelemetry(db, first)
           deleted == RecordCount(db) - RecordCount(fresh)
           second == Oldest(BatchSize - deleted, Telemetry(fresh))
           more == OverBudget(fresh) /\ deleted < BatchSize
           also == IF more THEN second ELSE {}
           result == RunRetention(db, cutoff)
           kept == result.tables
           lost == all \ Telemetry(kept)
<1> USE StoreAssumption
<1>1. /\ kept = IF more THEN DeleteTelemetry(fresh, second) ELSE fresh
      /\ result.deleted = RecordCount(db) - RecordCount(kept)
  BY DEF RunRetention
<1>2. all \subseteq Candidates /\ IsFiniteSet(all) /\ RecordCount(db) = Cardinality(all)
  BY TelemetryCount
<1>3. expired \in SUBSET all
  OBVIOUS
<1>4. expired \subseteq Candidates /\ IsFiniteSet(expired)
  BY <1>2, <1>3, FS_Subset
<1>5. \A c \in all : c \in expired <=> c.time < cutoff
  OBVIOUS
<1>6. BatchSize \in Int /\ BatchSize >= 0
  OBVIOUS
<1> HIDE DEF expired
<1>7. /\ first \subseteq expired /\ IsFiniteSet(first) /\ Cardinality(first) <= BatchSize
      /\ \A c \in first : \A d \in expired \ first : OlderThan(c, d)
  BY <1>4, <1>6, OldestFirst
<1> HIDE DEF first
<1>8. /\ Typed(fresh) /\ Telemetry(fresh) = all \ first
      /\ fresh.spans \subseteq db.spans /\ fresh.logs \subseteq db.logs
  BY <1>3, <1>7, DeletionExact
<1>9. Sound(fresh)
  BY DeletionSound
<1> HIDE DEF fresh
<1>10. /\ Telemetry(fresh) \subseteq Candidates /\ IsFiniteSet(Telemetry(fresh))
       /\ RecordCount(fresh) = Cardinality(Telemetry(fresh))
  BY <1>8, <1>9, TelemetryCount
<1>11. deleted = Cardinality(first) /\ deleted \in Nat
  <2>1. Cardinality(all \ first) = Cardinality(all) - Cardinality(all \cap first)
    BY <1>2, FS_Difference
  <2>2. all \cap first = first
    BY <1>3, <1>7
  <2>3. Cardinality(all) \in Nat /\ Cardinality(first) \in Nat
    BY <1>2, <1>7, FS_CardinalityType
  <2> QED BY <1>2, <1>8, <1>10, <2>1, <2>2, <2>3
<1> HIDE DEF deleted
<1>12. /\ second \subseteq Telemetry(fresh) /\ IsFiniteSet(second)
       /\ \A c \in second : \A d \in Telemetry(fresh) \ second : OlderThan(c, d)
       /\ deleted < BatchSize => Cardinality(second) <= BatchSize - deleted
  BY <1>10, <1>11, OldestFirst
<1> HIDE DEF second
<1>13. /\ Typed(kept) /\ Sound(kept) /\ Telemetry(kept) = Telemetry(fresh) \ also
       /\ kept.logs \subseteq db.logs
  <2>1. CASE more
    <3>1. kept = DeleteTelemetry(fresh, second) /\ also = second
      BY <1>1, <2>1
    <3>2. /\ Typed(DeleteTelemetry(fresh, second))
          /\ Telemetry(DeleteTelemetry(fresh, second)) = Telemetry(fresh) \ second
          /\ DeleteTelemetry(fresh, second).logs \subseteq fresh.logs
      BY <1>8, <1>9, <1>12, DeletionExact
    <3>3. Sound(DeleteTelemetry(fresh, second))
      BY <1>9, DeletionSound
    <3> HIDE DEF kept, also
    <3> QED BY <1>8, <3>1, <3>2, <3>3
  <2>2. CASE ~more
    <3>1. kept = fresh /\ also = {}
      BY <1>1, <2>2
    <3> HIDE DEF kept, also
    <3> QED BY <1>8, <1>9, <3>1
  <2> QED BY <2>1, <2>2
<1>14. also \subseteq Telemetry(fresh) /\ IsFiniteSet(also) /\ deleted + Cardinality(also) <= BatchSize
  <2>1. CASE more
    <3>1. Cardinality(second) \in Nat
      BY <1>12, FS_CardinalityType
    <3> QED BY <1>11, <1>12, <2>1, <3>1
  <2>2. CASE ~more
    <3>1. also = {} /\ Cardinality({}) = 0 /\ IsFiniteSet({})
      BY <2>2, FS_EmptySet
    <3>2. deleted <= BatchSize
      BY <1>7, <1>11
    <3> QED BY <1>11, <3>1, <3>2
  <2> QED BY <2>1, <2>2
<1>15. \A c \in also : \A d \in Telemetry(fresh) \ also : OlderThan(c, d)
  BY <1>12
<1>16. also # {} => OverBudget(db)
  <2>1. also # {} => OverBudget(fresh)
    OBVIOUS
  <2> QED BY <1>8, <2>1, BudgetMonotone
<1> HIDE DEF also, kept, more
<1>17. lost = first \cup also /\ first \cap also = {} /\ Telemetry(kept) = (all \ first) \ also
  BY <1>3, <1>7, <1>8, <1>13, <1>14
<1>18. Cardinality(lost) = deleted + Cardinality(also) /\ IsFiniteSet(lost)
  <2>1. IsFiniteSet(first \cup also) /\ Cardinality(first \cup also) =
          Cardinality(first) + Cardinality(also) - Cardinality(first \cap also)
    BY <1>7, <1>14, FS_Union
  <2>2. Cardinality(first \cap also) = 0
    BY <1>17, FS_EmptySet
  <2>3. Cardinality(first) \in Nat /\ Cardinality(also) \in Nat
    BY <1>7, <1>14, FS_CardinalityType
  <2> HIDE DEF lost
  <2> QED BY <1>11, <1>17, <2>1, <2>2, <2>3
<1>19. RecordCount(db) - RecordCount(kept) = Cardinality(lost)
  <2>1. RecordCount(kept) = Cardinality(Telemetry(kept)) /\ IsFiniteSet(Telemetry(kept))
    BY <1>13, TelemetryCount
  <2>2. Cardinality(all \ Telemetry(kept)) = Cardinality(all) - Cardinality(all \cap Telemetry(kept))
    BY <1>2, FS_Difference
  <2>3. all \cap Telemetry(kept) = Telemetry(kept)
    BY <1>17
  <2>4. Cardinality(all) \in Nat /\ Cardinality(Telemetry(kept)) \in Nat
    BY <1>2, <2>1, FS_CardinalityType
  <2> QED BY <1>2, <2>1, <2>2, <2>3, <2>4
<1>20. \A c \in lost : \A d \in Telemetry(kept) : OlderThan(c, d)
  <2> SUFFICES ASSUME NEW c \in lost, NEW d \in Telemetry(kept) PROVE OlderThan(c, d)
    OBVIOUS
  <2>1. d \in all /\ d \notin first /\ d \notin also /\ d \in Telemetry(fresh)
    BY <1>8, <1>13, <1>17
  <2>2. CASE c \in also
    BY <1>15, <2>1, <2>2
  <2>3. CASE c \in first /\ d \in expired
    BY <1>7, <2>1, <2>3
  <2>4. CASE c \in first /\ d \notin expired
    <3>1. c.time < cutoff /\ ~(d.time < cutoff)
      BY <1>3, <1>5, <1>7, <2>1, <2>4
    <3>2. c \in Candidates /\ d \in Candidates
      BY <1>2, <1>3, <1>7, <2>1, <2>4
    <3>3. c.time \in Int /\ d.time \in Int
      BY <3>2 DEF Candidates
    <3>4. c.time < d.time
      BY <3>1, <3>3
    <3> QED BY <3>4 DEF OlderThan
  <2> QED BY <1>17, <2>2, <2>3, <2>4
<1>21. (\E c \in lost : c.time >= cutoff) => OverBudget(db)
  <2> SUFFICES ASSUME NEW c \in lost, c.time >= cutoff PROVE OverBudget(db)
    OBVIOUS
  <2>1. c \in Candidates
    BY <1>2
  <2>2. c.time \in Int
    BY <2>1 DEF Candidates
  <2>3. c \notin first
    BY <1>3, <1>5, <1>7, <2>2
  <2>4. also # {}
    BY <1>17, <2>3
  <2> QED BY <1>16, <2>4
<1>22. Telemetry(kept) \subseteq all
  BY <1>17
<1>23. result.deleted = Cardinality(lost)
  BY <1>1, <1>19 DEF kept
<1>24. Cardinality(lost) <= BatchSize
  BY <1>14, <1>18
<1> QED BY <1>13, <1>20, <1>21, <1>22, <1>23, <1>24 DEF kept

-----------------------------------------------------------------------------
\* A batch of spans becomes finitely many records.
LEMMA NewSpansTyped ==
  ASSUME NEW db, NEW batch \in Seq(SpanRecords)
  PROVE  /\ IsFiniteSet(NewSpans(db, batch))
         /\ \A s \in NewSpans(db, batch) : s.trace \in Int /\ s.start \in Int
<1> DEFINE last == LastSpans(batch)
           admitted == AdmittedPairs(db, UNION {r.attributes : r \in last})
           new == NewSpans(db, batch)
<1>1. IsFiniteSet(DOMAIN batch) /\ \A i \in DOMAIN batch : batch[i] \in SpanRecords
  BY FiniteBatch
<1> HIDE DEF admitted
<1>2. new = {Prepare(s, admitted) : s \in last}
  BY DEF NewSpans, admitted
<1>3. IsFiniteSet(new)
  <2> DEFINE L == {j \in DOMAIN batch : \A k \in DOMAIN batch : SpanKey(batch[k]) = SpanKey(batch[j]) => k <= j}
             f == [j \in L |-> Prepare(batch[j], admitted)]
  <2>1. L \in SUBSET DOMAIN batch
    OBVIOUS
  <2>2. IsFiniteSet(L)
    BY <1>1, <2>1, FS_Subset
  <2>3. new = {Prepare(batch[j], admitted) : j \in L}
    BY <1>2 DEF LastSpans
  <2>4. f \in Surjection(L, new)
    BY <2>3 DEF Surjection
  <2> QED BY <2>2, <2>4, FS_Surjection
<1>4. ASSUME NEW r \in last
      PROVE  Prepare(r, admitted).trace \in Int /\ Prepare(r, admitted).start \in Int
  <2>1. r \in SpanRecords
    BY <1>1 DEF LastSpans
  <2>2. {"trace", "start"} \subseteq DOMAIN r /\ r.trace \in Int /\ r.start \in Int
    BY <2>1 DEF SpanRecords
  <2> QED BY <2>2 DEF Prepare, WithField
<1> QED BY <1>2, <1>3, <1>4

\* A batch of logs becomes as many records, each with an id of its own.
LEMMA NewLogsTyped ==
  ASSUME NEW db, NEW batch \in Seq(LogRecords), NEW ids \in Injections(DOMAIN batch, LogIds)
  PROVE  LET new == NewLogs(db, batch, ids)
         IN  /\ IsFiniteSet(new) /\ Cardinality(new) = Len(batch)
             /\ \A l \in new : l.id \in Int /\ l.start \in Int /\ \E i \in DOMAIN batch : l.id = ids[i]
             /\ \A l, m \in new : l.id = m.id => l = m
<1> DEFINE admitted == AdmittedPairs(db, UNION {batch[i].attributes : i \in DOMAIN batch})
           new == NewLogs(db, batch, ids)
           L(i) == WithField(Prepare(batch[i], admitted), "id", ids[i])
           f == [i \in DOMAIN batch |-> L(i)]
<1>1. /\ IsFiniteSet(DOMAIN batch) /\ \A i \in DOMAIN batch : batch[i] \in LogRecords
      /\ Len(batch) \in Nat /\ DOMAIN batch = 1..Len(batch)
  BY FiniteBatch
<1>2. /\ \A i \in DOMAIN batch : ids[i] \in Int
      /\ \A i, j \in DOMAIN batch : ids[i] = ids[j] => i = j
  BY RecordAssumption DEF Injections
<1> HIDE DEF admitted
<1>3. new = {L(i) : i \in DOMAIN batch}
  BY DEF NewLogs, admitted
<1>4. ASSUME NEW i \in DOMAIN batch
      PROVE  L(i).id = ids[i] /\ L(i).start \in Int
  <2>1. batch[i] \in LogRecords
    BY <1>1
  <2>2. "start" \in DOMAIN batch[i] /\ batch[i].start \in Int
    BY <2>1 DEF LogRecords
  <2> QED BY <2>2 DEF Prepare, WithField
<1> HIDE DEF L, new
<1>5. f \in Surjection(DOMAIN batch, new)
  BY <1>3 DEF Surjection
<1>6. f \in Injection(DOMAIN batch, new)
  BY <1>2, <1>3, <1>4 DEF Injection, IsInjective
<1>7. IsFiniteSet(new) /\ Cardinality(new) = Cardinality(DOMAIN batch)
  BY <1>1, <1>5, <1>6, FS_Surjection
<1>8. Cardinality(DOMAIN batch) = Len(batch)
  BY <1>1, FS_Interval
<1>9. \A l \in new : l.id \in Int /\ l.start \in Int /\ \E i \in DOMAIN batch : l.id = ids[i]
  BY <1>2, <1>3, <1>4
<1>10. \A l, m \in new : l.id = m.id => l = m
  BY <1>2, <1>3, <1>4
<1> QED BY <1>7, <1>8, <1>9, <1>10 DEF new

\* The transaction of a batch of spans keeps the records well formed.
LEMMA SpansTyped ==
  ASSUME NEW db, Sound(db), Typed(db), NEW batch \in Seq(SpanRecords)
  PROVE  Typed(WriteSpans(db, batch))
<1> DEFINE w == WriteSpans(db, batch)
           new == NewSpans(db, batch)
           kept == {s \in db.spans : SpanKey(s) \notin {SpanKey(n) : n \in new}}
<1>1. w.spans = kept \cup new /\ w.logs = db.logs
  <2>1. DOMAIN db = Tables
    BY DEF Sound
  <2>2. SpansWritten(db, new, w)
    BY <2>1, WriteSpansTables
  <2> HIDE DEF new, w
  <2> QED BY <2>2 DEF SpansWritten
<1>2. IsFiniteSet(new) /\ \A s \in new : s.trace \in Int /\ s.start \in Int
  BY NewSpansTyped
<1> HIDE DEF w, new
<1>3. kept \in SUBSET db.spans
  OBVIOUS
<1>4. IsFiniteSet(kept)
  BY <1>3, FS_Subset DEF Typed
<1>5. IsFiniteSet(kept \cup new)
  BY <1>2, <1>4, FS_Union
<1> HIDE DEF kept
<1>6. Typed(w)
  BY <1>1, <1>2, <1>3, <1>5 DEF Typed
<1> QED BY <1>6 DEF w

\* The transaction of a batch of logs adds as many logs as the batch has.
LEMMA LogsTyped ==
  ASSUME NEW db, Sound(db), Typed(db), NEW batch \in Seq(LogRecords), NEW ids \in Injections(DOMAIN batch, LogIds),
         \A i \in DOMAIN batch : ids[i] \notin {l.id : l \in db.logs}
  PROVE  /\ Typed(WriteLogs(db, batch, ids))
         /\ Cardinality(WriteLogs(db, batch, ids).logs) = Cardinality(db.logs) + Len(batch)
<1> DEFINE w == WriteLogs(db, batch, ids)
           new == NewLogs(db, batch, ids)
<1>1. w.spans = db.spans /\ w.logs = db.logs \cup new
  <2>1. DOMAIN db = Tables
    BY DEF Sound
  <2>2. LogsWritten(db, batch, new, w)
    BY <2>1, WriteLogsTables
  <2> HIDE DEF new, w
  <2> QED BY <2>2 DEF LogsWritten
<1>2. /\ IsFiniteSet(new) /\ Cardinality(new) = Len(batch)
      /\ \A l \in new : l.id \in Int /\ l.start \in Int /\ \E i \in DOMAIN batch : l.id = ids[i]
      /\ \A l, m \in new : l.id = m.id => l = m
  BY NewLogsTyped
<1> HIDE DEF w, new
<1>3. \A l \in new : \A m \in db.logs : l.id # m.id
  BY <1>2
<1>4. IsFiniteSet(db.logs \cup new) /\ Cardinality(db.logs \cup new) =
        Cardinality(db.logs) + Cardinality(new) - Cardinality(db.logs \cap new)
  BY <1>2, FS_Union DEF Typed
<1>5. Cardinality(db.logs \cap new) = 0
  <2>1. db.logs \cap new = {}
    BY <1>3
  <2> QED BY <2>1, FS_EmptySet
<1>6. Cardinality(db.logs) \in Nat /\ Cardinality(new) \in Nat
  BY <1>2, FS_CardinalityType DEF Typed
<1>7. Typed(w)
  BY <1>1, <1>2, <1>3, <1>4 DEF Typed
<1>8. Cardinality(w.logs) = Cardinality(db.logs) + Len(batch)
  BY <1>1, <1>2, <1>4, <1>5, <1>6
<1> QED BY <1>7, <1>8 DEF w

-----------------------------------------------------------------------------
\* Well-formedness depends on the records only.
LEMMA SameTyped ==
  ASSUME NEW db, Typed(db), NEW e, e.spans = db.spans, e.logs = db.logs
  PROVE  Typed(e)
BY DEF Typed

\* The actions that leave all records of the Store as they are.
Bookkeeping ==
  \/ Start \/ End \/ Wake \/ WriteFails \/ FinishRound
  \/ \E undecoded \in BOOLEAN : Reject(undecoded)
  \/ \E cutoff \in Cutoffs : MarkRunning(cutoff)
  \/ \E noted \in BOOLEAN : RetentionFails(noted)

\* They leave every table but retention, diagnostics and counters as it is.
LEMMA BookkeepingKeeps ==
  ASSUME DOMAIN store = Tables, Bookkeeping
  PROVE  /\ \A t \in Tables \ {"retention", "diagnostics", "counters"} : store'[t] = store[t]
         /\ DOMAIN store' = Tables
<1>1. CASE Start \/ End \/ Wake \/ WriteFails
  BY <1>1 DEF Start, End, Wake, WriteFails
<1>2. CASE FinishRound
  BY <1>2 DEF FinishRound, Tables
<1>3. ASSUME NEW undecoded \in BOOLEAN, Reject(undecoded)
      PROVE  /\ \A t \in Tables \ {"retention", "diagnostics", "counters"} : store'[t] = store[t]
             /\ DOMAIN store' = Tables
  BY <1>3 DEF Reject, RecordFailure, Tables
<1>4. ASSUME NEW cutoff \in Cutoffs, MarkRunning(cutoff)
      PROVE  /\ \A t \in Tables \ {"retention", "diagnostics", "counters"} : store'[t] = store[t]
             /\ DOMAIN store' = Tables
  BY <1>4 DEF MarkRunning, Tables
<1>5. ASSUME NEW noted \in BOOLEAN, RetentionFails(noted)
      PROVE  /\ \A t \in Tables \ {"retention", "diagnostics", "counters"} : store'[t] = store[t]
             /\ DOMAIN store' = Tables
  BY <1>5 DEF RetentionFails, Tables
<1> QED BY <1>1, <1>2, <1>3, <1>4, <1>5 DEF Bookkeeping

\* There are no other actions.
LEMMA StoreSteps ==
  StoreNext => \/ Bookkeeping \/ Reset \/ Sweep
               \/ \E batch \in TraceBatches : CommitSpans(batch)
               \/ \E batch \in LogBatches : \E ids \in Injections(DOMAIN batch, LogIds) : CommitLogs(batch, ids)
BY DEF StoreNext, Bookkeeping

\* What the running retain knows.
RoundInv ==
  /\ DOMAIN round = {"cutoff", "deleted", "more"}
  /\ round.cutoff \in Int /\ round.deleted \in Nat
  /\ step # "swept" => round.deleted = 0
  /\ daemon = "down" => step = "idle"

\* The invariant the theorems below rest on.
TypedInv == Sound(store) /\ Typed(store) /\ RoundInv

\* Every step keeps what retain knows in order; a sweep counts what it deleted.
LEMMA RoundStep == TypedInv /\ [Next]_vars => RoundInv'
<1> SUFFICES ASSUME TypedInv, [Next]_vars PROVE RoundInv'
  OBVIOUS
<1> USE DEF TypedInv, RoundInv
<1>1. CASE Start \/ Wake \/ WriteFails \/ Reset \/ \E undecoded \in BOOLEAN : Reject(undecoded)
  BY <1>1 DEF Start, Wake, WriteFails, Reset, Reject, WorkerFree
<1>2. CASE End \/ FinishRound \/ \E noted \in BOOLEAN : RetentionFails(noted)
  BY <1>2 DEF End, FinishRound, RetentionFails, NoRound
<1>3. ASSUME NEW cutoff \in Cutoffs, MarkRunning(cutoff) PROVE RoundInv'
  <2>1. cutoff \in Int
    BY RecordAssumption
  <2> QED BY <1>3, <2>1 DEF MarkRunning, RetentionDue, NoRound
<1>4. CASE Sweep
  <2> DEFINE result == RunRetention(store, round.cutoff)
             lost == Telemetry(store) \ Telemetry(result.tables)
  <2>1. result.deleted = Cardinality(lost)
    BY SweepExact
  <2>2. IsFiniteSet(lost)
    BY TelemetryCount, FS_Difference
  <2>3. result.deleted \in Nat
    BY <2>1, <2>2, FS_CardinalityType
  <2> HIDE DEF result
  <2>4. round' = [round EXCEPT !.deleted = result.deleted, !.more = result.more] /\ step' = "swept"
        /\ step = "marked" /\ daemon' = daemon
    BY <1>4 DEF Sweep, result
  <2> QED BY <2>3, <2>4
<1>5. CASE \E batch \in TraceBatches : CommitSpans(batch)
  BY <1>5 DEF CommitSpans, WorkerFree
<1>6. CASE \E batch \in LogBatches : \E ids \in Injections(DOMAIN batch, LogIds) : CommitLogs(batch, ids)
  BY <1>6 DEF CommitLogs, WorkerFree
<1>7. CASE UNCHANGED storeVars
  BY <1>7 DEF storeVars
<1> QED BY <1>1, <1>2, <1>3, <1>4, <1>5, <1>6, <1>7 DEF Next, StoreStep, StoreNext, StartPaging, ReadPage, vars

\* Every step keeps the records well formed.
LEMMA TypedStep == TypedInv /\ [Next]_vars => TypedInv'
<1> SUFFICES ASSUME TypedInv, [Next]_vars PROVE Typed(store)'
  BY SoundStep, RoundStep DEF TypedInv
<1> SUFFICES Typed(store')
  BY DEF Typed
<1>1. Sound(store) /\ Typed(store) /\ DOMAIN store = Tables
  BY DEF TypedInv, Sound
<1>2. CASE Bookkeeping
  <2>1. store'.spans = store.spans /\ store'.logs = store.logs
    BY <1>1, <1>2, BookkeepingKeeps DEF Tables
  <2> QED BY <1>1, <2>1, SameTyped
<1>3. CASE Reset
  <2>1. store'.spans = {} /\ store'.logs = {}
    BY <1>3 DEF Reset, EmptyStore
  <2> QED BY <2>1, FS_EmptySet DEF Typed
<1>4. CASE Sweep
  <2>1. round.cutoff \in Int
    BY DEF TypedInv, RoundInv
  <2> QED BY <1>1, <1>4, <2>1, SweepExact DEF Sweep
<1>5. ASSUME NEW batch \in TraceBatches, CommitSpans(batch) PROVE Typed(store')
  BY <1>1, <1>5, SpansTyped, RecordAssumption DEF CommitSpans
<1>6. ASSUME NEW batch \in LogBatches, NEW ids \in Injections(DOMAIN batch, LogIds), CommitLogs(batch, ids)
      PROVE  Typed(store')
  BY <1>1, <1>6, LogsTyped, RecordAssumption DEF CommitLogs
<1>7. CASE UNCHANGED storeVars
  BY <1>1, <1>7, SameTyped DEF storeVars
<1> QED BY <1>2, <1>3, <1>4, <1>5, <1>6, <1>7, StoreSteps DEF Next, StoreStep, StartPaging, ReadPage, vars

\* Type correctness of the tables and of the running retain.
THEOREM StoreTyped == Spec => []TypedInv
<1>1. Init => TypedInv
  <2> SUFFICES ASSUME Init PROVE TypedInv
    OBVIOUS
  <2>1. store.spans = {} /\ store.logs = {}
    BY DEF Init, StoreInit, EmptyStore
  <2>2. Typed(store)
    BY <2>1, FS_EmptySet DEF Typed
  <2>3. RoundInv
    BY DEF Init, StoreInit, NoRound, RoundInv
  <2>4. Sound(store)
    BY EmptySound DEF Init, StoreInit
  <2> QED BY <2>2, <2>3, <2>4 DEF TypedInv
<1> QED BY <1>1, TypedStep, PTL DEF Spec

\* A sweep deletes the oldest first, at most a batch, and what has not expired only while the
\* Store is over its budget.
THEOREM SweepsCorrect == Spec => SweepsOldest
<1> DEFINE Older == step = "marked" /\ step' = "swept" =>
                      LET left == Telemetry(store)'
                          lost == Telemetry(store) \ left
                      IN  /\ Cardinality(lost) <= BatchSize
                          /\ \A c \in lost : \A d \in left : OlderThan(c, d)
                          /\ (\E c \in lost : c.time >= round.cutoff) => OverBudget(store)
<1>1. TypedInv /\ [Next]_vars => [Older]_vars
  <2> SUFFICES ASSUME TypedInv, Next, step = "marked", step' = "swept"
               PROVE  LET left == Telemetry(store)'
                          lost == Telemetry(store) \ left
                      IN  /\ Cardinality(lost) <= BatchSize
                          /\ \A c \in lost : \A d \in left : OlderThan(c, d)
                          /\ (\E c \in lost : c.time >= round.cutoff) => OverBudget(store)
    OBVIOUS
  <2>1. Sweep
    BY DEF Next, StoreStep, StartPaging, ReadPage, storeVars, StoreNext, Start, End, Reset, Wake, CommitSpans, CommitLogs,
           WriteFails, Reject, MarkRunning, FinishRound, RetentionFails
  <2>2. store' = RunRetention(store, round.cutoff).tables
    BY <2>1 DEF Sweep
  <2>3. Sound(store) /\ Typed(store) /\ round.cutoff \in Int
    BY DEF TypedInv, RoundInv
  <2>4. Telemetry(store)' = Telemetry(store')
    BY DEF Telemetry
  <2> QED BY <2>2, <2>3, <2>4, SweepExact
<1> QED BY <1>1, StoreTyped, PTL DEF Spec, SweepsOldest

-----------------------------------------------------------------------------
\* Accepted logs are there or were deleted.
Counted ==
  /\ "logs" \in DOMAIN store.counters /\ gone.logs \in Nat
  /\ store.counters.logs = Cardinality(store.logs) + gone.logs

\* deleted_records never says more than was deleted, and says it all in a first run without
\* a failure.
Deleted ==
  /\ DOMAIN store.retention = {"running", "deleted", "failed"}
  /\ store.retention.deleted \in Nat /\ gone.records \in Nat /\ starts \in Nat /\ failures \in Nat
  /\ store.retention.deleted + round.deleted <= gone.records
  /\ starts = 0 => daemon = "down" /\ gone.records = 0
  /\ starts = 1 /\ failures = 0 /\ daemon # "down"
       => store.retention.deleted + round.deleted = gone.records

\* Deletions leave the counters and the state of retention alone.
LEMMA DeletionKeeps ==
  ASSUME NEW db, DOMAIN db = Tables, NEW C
  PROVE  /\ DOMAIN DeleteTelemetry(db, C) = Tables
         /\ DeleteTelemetry(db, C).counters = db.counters
         /\ DeleteTelemetry(db, C).retention = db.retention
<1> DEFINE w == DeleteTelemetry(db, C)
<1>1. Pruned(db, C, w)
  BY DeleteTables
<1> HIDE DEF w
<1>2. DOMAIN w = Tables /\ w.counters = db.counters /\ w.retention = db.retention
  BY <1>1 DEF Pruned
<1> QED BY <1>2 DEF w

\* And so does a sweep.
LEMMA RetentionKeeps ==
  ASSUME NEW db, DOMAIN db = Tables, NEW cutoff
  PROVE  /\ RunRetention(db, cutoff).tables.counters = db.counters
         /\ RunRetention(db, cutoff).tables.retention = db.retention
<1>1. PICK C, D : RunRetention(db, cutoff).tables \in
                    {DeleteTelemetry(db, C), DeleteTelemetry(DeleteTelemetry(db, C), D)}
  BY RetentionDeletes
<1>2. /\ DOMAIN DeleteTelemetry(db, C) = Tables
      /\ DeleteTelemetry(db, C).counters = db.counters
      /\ DeleteTelemetry(db, C).retention = db.retention
  BY DeletionKeeps
<1>3. /\ DeleteTelemetry(DeleteTelemetry(db, C), D).counters = db.counters
      /\ DeleteTelemetry(DeleteTelemetry(db, C), D).retention = db.retention
  BY <1>2, DeletionKeeps
<1> QED BY <1>1, <1>2, <1>3

\* A batch of spans leaves the logs, their count and the state of retention alone.
LEMMA SpansKeep ==
  ASSUME NEW db, DOMAIN db = Tables, NEW batch
  PROVE  LET w == WriteSpans(db, batch)
         IN  /\ w.logs = db.logs /\ w.retention = db.retention
             /\ DOMAIN w.counters = DOMAIN db.counters
             /\ "logs" \in DOMAIN db.counters => w.counters.logs = db.counters.logs
<1> DEFINE w == WriteSpans(db, batch)
           new == NewSpans(db, batch)
<1>1. SpansWritten(db, new, w)
  BY WriteSpansTables
<1> HIDE DEF w, new
<1>2. w.logs = db.logs /\ w.retention = db.retention /\ DOMAIN w.counters = DOMAIN db.counters
  BY <1>1 DEF SpansWritten
<1>3. "logs" \in DOMAIN db.counters => w.counters.logs = db.counters.logs
  BY <1>1 DEF SpansWritten
<1> QED BY <1>2, <1>3 DEF w

\* A batch of logs is counted, record by record.
LEMMA LogsKeep ==
  ASSUME NEW db, DOMAIN db = Tables, NEW batch, NEW ids
  PROVE  LET w == WriteLogs(db, batch, ids)
         IN  /\ w.retention = db.retention
             /\ DOMAIN w.counters = DOMAIN db.counters
             /\ "logs" \in DOMAIN db.counters => w.counters.logs = db.counters.logs + Len(batch)
<1> DEFINE w == WriteLogs(db, batch, ids)
           new == NewLogs(db, batch, ids)
<1>1. LogsWritten(db, batch, new, w)
  BY WriteLogsTables
<1> HIDE DEF w, new
<1>2. w.retention = db.retention /\ DOMAIN w.counters = DOMAIN db.counters
  BY <1>1 DEF LogsWritten
<1>3. "logs" \in DOMAIN db.counters => w.counters.logs = db.counters.logs + Len(batch)
  BY <1>1 DEF LogsWritten
<1> QED BY <1>2, <1>3 DEF w

\* Every step keeps the count of logs.
LEMMA CountedStep == TypedInv /\ Counted /\ [Next]_vars => Counted'
<1> SUFFICES ASSUME TypedInv, Counted, [Next]_vars PROVE Counted'
  OBVIOUS
<1>1. Sound(store) /\ Typed(store) /\ DOMAIN store = Tables
  BY DEF TypedInv, Sound
<1>2. CASE Bookkeeping
  <2>1. store'.logs = store.logs
    BY <1>1, <1>2, BookkeepingKeeps DEF Tables
  <2>2. gone' = gone
    BY <1>2 DEF Bookkeeping, Start, End, Wake, WriteFails, FinishRound, Reject, MarkRunning, RetentionFails
  <2>3. "logs" \in DOMAIN store'.counters /\ store'.counters.logs = store.counters.logs
    <3>1. CASE Start \/ End \/ Wake \/ WriteFails
      BY <3>1 DEF Counted, Start, End, Wake, WriteFails
    <3>2. CASE FinishRound
      BY <1>1, <3>2 DEF Counted, FinishRound, Tables
    <3>3. ASSUME NEW undecoded \in BOOLEAN, Reject(undecoded)
          PROVE  "logs" \in DOMAIN store'.counters /\ store'.counters.logs = store.counters.logs
      BY <1>1, <3>3 DEF Counted, Reject, RecordFailure, Tables
    <3>4. ASSUME NEW cutoff \in Cutoffs, MarkRunning(cutoff)
          PROVE  "logs" \in DOMAIN store'.counters /\ store'.counters.logs = store.counters.logs
      BY <1>1, <3>4 DEF Counted, MarkRunning, Tables
    <3>5. ASSUME NEW noted \in BOOLEAN, RetentionFails(noted)
          PROVE  "logs" \in DOMAIN store'.counters /\ store'.counters.logs = store.counters.logs
      BY <1>1, <3>5 DEF Counted, RetentionFails, Tables
    <3> QED BY <1>2, <3>1, <3>2, <3>3, <3>4, <3>5 DEF Bookkeeping
  <2> QED BY <2>1, <2>2, <2>3 DEF Counted
<1>3. CASE Reset
  <2>1. store'.logs = {} /\ store'.counters = EmptyStore.counters /\ gone'.logs = 0
    BY <1>3 DEF Reset, EmptyStore
  <2>2. "logs" \in DOMAIN EmptyStore.counters /\ EmptyStore.counters.logs = 0
    BY DEF EmptyStore
  <2> QED BY <2>1, <2>2, FS_EmptySet DEF Counted
<1>4. CASE Sweep
  <2> DEFINE kept == RunRetention(store, round.cutoff).tables
  <2>1. kept.logs \subseteq store.logs
    BY <1>1, SweepExact DEF TypedInv, RoundInv
  <2>2. kept.counters = store.counters
    BY <1>1, RetentionKeeps
  <2>3. store' = kept /\ gone'.logs = gone.logs + Cardinality(store.logs \ kept.logs)
    BY <1>4 DEF Sweep
  <2> HIDE DEF kept
  <2>4. IsFiniteSet(store.logs)
    BY <1>1 DEF Typed
  <2>5. IsFiniteSet(store.logs \ kept.logs) /\ Cardinality(store.logs \ kept.logs) =
          Cardinality(store.logs) - Cardinality(store.logs \cap kept.logs)
    BY <2>4, FS_Difference
  <2>6. store.logs \cap kept.logs = kept.logs
    BY <2>1
  <2>7. IsFiniteSet(kept.logs)
    BY <2>4, <2>6, FS_Intersection
  <2>8. /\ Cardinality(store.logs) \in Nat /\ Cardinality(kept.logs) \in Nat
        /\ Cardinality(store.logs \ kept.logs) \in Nat
    BY <2>4, <2>5, <2>7, FS_CardinalityType
  <2>9. Cardinality(store.logs \ kept.logs) = Cardinality(store.logs) - Cardinality(kept.logs)
    BY <2>5, <2>6
  <2>10. /\ store'.counters = store.counters /\ store'.logs = kept.logs
         /\ gone'.logs = gone.logs + Cardinality(store.logs) - Cardinality(kept.logs)
         /\ gone'.logs \in Nat
    BY <2>2, <2>3, <2>8, <2>9 DEF Counted
  <2> QED BY <2>8, <2>10 DEF Counted
<1>5. ASSUME NEW batch \in TraceBatches, CommitSpans(batch) PROVE Counted'
  <2>1. store' = WriteSpans(store, batch) /\ gone' = gone
    BY <1>5 DEF CommitSpans
  <2>2. /\ WriteSpans(store, batch).logs = store.logs
        /\ DOMAIN WriteSpans(store, batch).counters = DOMAIN store.counters
        /\ WriteSpans(store, batch).counters.logs = store.counters.logs
    BY <1>1, SpansKeep DEF Counted
  <2> QED BY <2>1, <2>2 DEF Counted
<1>6. ASSUME NEW batch \in LogBatches, NEW ids \in Injections(DOMAIN batch, LogIds), CommitLogs(batch, ids)
      PROVE  Counted'
  <2>1. store' = WriteLogs(store, batch, ids) /\ gone' = gone
    BY <1>6 DEF CommitLogs
  <2>2. /\ DOMAIN WriteLogs(store, batch, ids).counters = DOMAIN store.counters
        /\ WriteLogs(store, batch, ids).counters.logs = store.counters.logs + Len(batch)
    BY <1>1, LogsKeep DEF Counted
  <2>3. Cardinality(WriteLogs(store, batch, ids).logs) = Cardinality(store.logs) + Len(batch)
    BY <1>1, <1>6, LogsTyped, RecordAssumption DEF CommitLogs
  <2>4. Cardinality(store.logs) \in Nat
    BY <1>1, FS_CardinalityType DEF Typed
  <2>5. Len(batch) \in Nat
    BY RecordAssumption
  <2> QED BY <2>1, <2>2, <2>3, <2>4, <2>5 DEF Counted
<1>7. CASE UNCHANGED storeVars
  BY <1>7 DEF storeVars, Counted
<1> QED BY <1>2, <1>3, <1>4, <1>5, <1>6, <1>7, StoreSteps DEF Next, StoreStep, StartPaging, ReadPage, vars

\* Every step keeps the count of deletions.
LEMMA DeletedStep == TypedInv /\ Deleted /\ [Next]_vars => Deleted'
<1> SUFFICES ASSUME TypedInv, Deleted, [Next]_vars PROVE Deleted'
  OBVIOUS
<1>1. Sound(store) /\ Typed(store) /\ DOMAIN store = Tables /\ RoundInv
  BY DEF TypedInv, Sound
<1> USE DEF Deleted
<1>2. CASE Start
  BY <1>1, <1>2 DEF Start, RoundInv
<1>3. CASE End
  BY <1>1, <1>3 DEF End, RoundInv, NoRound, boundVars
<1>4. CASE Wake
  BY <1>4 DEF Wake
<1>5. CASE WriteFails
  BY <1>5 DEF WriteFails, WorkerFree
<1>6. CASE FinishRound
  <2>1. /\ DOMAIN store'.retention = DOMAIN store.retention
        /\ store'.retention.deleted = store.retention.deleted + round.deleted
    BY <1>1, <1>6 DEF FinishRound, Tables
  <2>2. round'.deleted = 0 /\ daemon # "down" /\ gone' = gone /\ starts' = starts /\ failures' = failures
    BY <1>1, <1>6 DEF FinishRound, NoRound, RoundInv, boundVars
  <2> QED BY <1>1, <2>1, <2>2 DEF RoundInv
<1>7. ASSUME NEW undecoded \in BOOLEAN, Reject(undecoded) PROVE Deleted'
  <2>1. store'.retention = store.retention
    BY <1>1, <1>7 DEF Reject, RecordFailure, Tables
  <2> QED BY <1>7, <2>1 DEF Reject
<1>8. ASSUME NEW cutoff \in Cutoffs, MarkRunning(cutoff) PROVE Deleted'
  <2>1. DOMAIN store'.retention = DOMAIN store.retention /\ store'.retention.deleted = store.retention.deleted
    BY <1>1, <1>8 DEF MarkRunning, Tables
  <2>2. round'.deleted = 0 /\ round.deleted = 0
    BY <1>1, <1>8 DEF MarkRunning, RetentionDue, NoRound, RoundInv
  <2> QED BY <1>8, <2>1, <2>2 DEF MarkRunning, boundVars
<1>9. ASSUME NEW noted \in BOOLEAN, RetentionFails(noted) PROVE Deleted'
  <2>1. DOMAIN store'.retention = DOMAIN store.retention /\ store'.retention.deleted = store.retention.deleted
    BY <1>1, <1>9 DEF RetentionFails, Tables
  <2>2. round'.deleted = 0 /\ round.deleted \in Nat /\ daemon # "down" /\ failures' = failures + 1
        /\ gone' = gone /\ starts' = starts
    BY <1>1, <1>9 DEF RetentionFails, NoRound, RoundInv
  <2> QED BY <2>1, <2>2
<1>10. CASE Reset
  <2>1. store'.retention = EmptyStore.retention /\ gone'.records = 0 /\ daemon = "down" /\ daemon' = daemon
        /\ round' = round /\ starts' = starts /\ failures' = failures
    BY <1>10 DEF Reset, boundVars
  <2>2. DOMAIN EmptyStore.retention = {"running", "deleted", "failed"} /\ EmptyStore.retention.deleted = 0
    BY DEF EmptyStore
  <2>3. round.deleted = 0
    BY <1>1, <2>1 DEF RoundInv
  <2> QED BY <2>1, <2>2, <2>3
<1>11. CASE Sweep
  <2> DEFINE result == RunRetention(store, round.cutoff)
             kept == result.tables
             lost == Telemetry(store) \ Telemetry(kept)
  <2>1. result.deleted = Cardinality(lost)
    BY <1>1, SweepExact DEF RoundInv
  <2>2. IsFiniteSet(lost)
    BY <1>1, TelemetryCount, FS_Difference
  <2>3. Cardinality(lost) \in Nat
    BY <2>2, FS_CardinalityType
  <2>4. kept.retention = store.retention
    BY <1>1, RetentionKeeps
  <2>5. /\ store' = kept /\ round'.deleted = result.deleted /\ gone'.records = gone.records + Cardinality(lost)
        /\ step = "marked" /\ daemon' = daemon /\ starts' = starts /\ failures' = failures
    BY <1>1, <1>11 DEF Sweep, RoundInv, boundVars
  <2>6. round.deleted = 0 /\ daemon # "down"
    BY <1>1, <2>5 DEF RoundInv
  <2> HIDE DEF result, kept, lost
  <2>7. store'.retention = store.retention
    BY <2>4, <2>5
  <2> QED BY <2>1, <2>3, <2>5, <2>6, <2>7
<1>12. ASSUME NEW batch \in TraceBatches, CommitSpans(batch) PROVE Deleted'
  <2>1. store'.retention = store.retention
    BY <1>1, <1>12, SpansKeep DEF CommitSpans
  <2> QED BY <1>12, <2>1 DEF CommitSpans
<1>13. ASSUME NEW batch \in LogBatches, NEW ids \in Injections(DOMAIN batch, LogIds), CommitLogs(batch, ids)
       PROVE  Deleted'
  <2>1. store'.retention = store.retention
    BY <1>1, <1>13, LogsKeep DEF CommitLogs
  <2> QED BY <1>13, <2>1 DEF CommitLogs
<1>14. CASE UNCHANGED storeVars
  BY <1>14 DEF storeVars, boundVars
<1> QED BY <1>2, <1>3, <1>4, <1>5, <1>6, <1>7, <1>8, <1>9, <1>10, <1>11, <1>12, <1>13, <1>14
        DEF Next, StoreStep, StoreNext, StartPaging, ReadPage, vars

\* The counters tell the history of the Store.
THEOREM CountersCorrect == Spec => []CountersTellHistory
<1>1. Init => Counted /\ Deleted
  <2> SUFFICES ASSUME Init PROVE Counted /\ Deleted
    OBVIOUS
  <2>1. store.logs = {} /\ "logs" \in DOMAIN store.counters /\ store.counters.logs = 0
    BY DEF Init, StoreInit, EmptyStore
  <2>2. DOMAIN store.retention = {"running", "deleted", "failed"} /\ store.retention.deleted = 0
    BY DEF Init, StoreInit, EmptyStore
  <2>3. round.deleted = 0
    BY DEF Init, StoreInit, NoRound
  <2> QED BY <2>1, <2>2, <2>3, FS_EmptySet DEF Init, StoreInit, Counted, Deleted
<1>2. TypedInv /\ Counted /\ Deleted => CountersTellHistory
  BY DEF TypedInv, RoundInv, Counted, Deleted, CountersTellHistory
<1> QED BY <1>1, <1>2, CountedStep, DeletedStep, StoreTyped, PTL DEF Spec

-----------------------------------------------------------------------------
\* Spans and logs refer to the same tables.
RecordsOf(db) == db.spans \cup db.logs

\* A Service's bounds cover the record.
Referenced(db, r) ==
  /\ r.refs \subseteq db.references
  /\ r.service \in DOMAIN db.services
  /\ db.services[r.service].first <= r.start
  /\ r.start <= db.services[r.service].last

\* Services have times.
Bounds(db) == \A k \in DOMAIN db.services : db.services[k].first \in Int /\ db.services[k].last \in Int

\* No reference of a record is dangling.
AllReferenced(db) == Bounds(db) /\ \A r \in RecordsOf(db) : Referenced(db, r)

\* Nothing is kept that no record refers to.
OnlyReferenced(db) ==
  /\ DOMAIN db.services = {r.service : r \in RecordsOf(db)}
  /\ db.references = UNION {r.refs : r \in RecordsOf(db)}

\* ensureServices only widens the bounds of a Service, to cover what is new.
LEMMA ObserveWidens ==
  ASSUME NEW db, DOMAIN db = Tables, Bounds(db),
         NEW observed, IsFiniteSet(observed), \A o \in observed : o.at \in Int
  PROVE  LET w == ObserveServices(db, observed)
         IN  /\ Bounds(w)
             /\ DOMAIN w.services = DOMAIN db.services \cup {o.service : o \in observed}
             /\ \A k \in DOMAIN db.services : /\ w.services[k].first <= db.services[k].first
                                              /\ db.services[k].last <= w.services[k].last
             /\ \A o \in observed : /\ w.services[o.service].first <= o.at
                                    /\ o.at <= w.services[o.service].last
<1> DEFINE w == ObserveServices(db, observed)
           seen(k) == {o.at : o \in {p \in observed : p.service = k}}
           known(k) == IF k \in DOMAIN db.services
                       THEN {db.services[k].first, db.services[k].last} ELSE {}
           times(k) == seen(k) \cup known(k)
           keys == DOMAIN db.services \cup {o.service : o \in observed}
<1>1. w.services = [k \in keys |-> [first |-> Least(times(k)), last |-> Greatest(times(k))]]
  BY DEF ObserveServices, Tables
<1>2. ASSUME NEW k \in keys
      PROVE  IsFiniteSet(times(k)) /\ times(k) \subseteq Int /\ times(k) # {}
  <2>1. IsFiniteSet(seen(k))
    <3> DEFINE P == {p \in observed : p.service = k}
               f == [p \in P |-> p.at]
    <3>1. P \in SUBSET observed
      OBVIOUS
    <3>2. IsFiniteSet(P)
      BY <3>1, FS_Subset
    <3>3. f \in Surjection(P, seen(k))
      BY DEF Surjection
    <3> QED BY <3>2, <3>3, FS_Surjection
  <2>2. IsFiniteSet(known(k))
    <3>1. CASE k \in DOMAIN db.services
      <4>1. IsFiniteSet({db.services[k].first} \cup {db.services[k].last})
        BY FS_Singleton, FS_Union
      <4>2. known(k) = {db.services[k].first} \cup {db.services[k].last}
        BY <3>1
      <4> QED BY <4>1, <4>2
    <3>2. CASE k \notin DOMAIN db.services
      BY <3>2, FS_EmptySet
    <3> QED BY <3>1, <3>2
  <2>3. times(k) \subseteq Int /\ times(k) # {}
    BY DEF Bounds
  <2> HIDE DEF seen, known
  <2>4. IsFiniteSet(seen(k) \cup known(k))
    BY <2>1, <2>2, FS_Union
  <2> QED BY <2>3, <2>4
<1>3. \A k \in DOMAIN db.services : db.services[k].first \in times(k) /\ db.services[k].last \in times(k)
  OBVIOUS
<1>4. \A o \in observed : o.service \in keys /\ o.at \in times(o.service)
  OBVIOUS
<1>5. DOMAIN db.services \subseteq keys
  OBVIOUS
<1> HIDE DEF times
<1>6. ASSUME NEW k \in keys
      PROVE  /\ Least(times(k)) \in Int /\ \A m \in times(k) : Least(times(k)) <= m
             /\ Greatest(times(k)) \in Int /\ \A m \in times(k) : m <= Greatest(times(k))
  BY <1>2, EnclosingTimes
<1> HIDE DEF keys, w
<1>7. /\ DOMAIN w.services = keys
      /\ \A k \in keys : w.services[k].first = Least(times(k)) /\ w.services[k].last = Greatest(times(k))
  BY <1>1
<1>8. Bounds(w)
  BY <1>6, <1>7 DEF Bounds
<1>9. \A k \in DOMAIN db.services : /\ w.services[k].first <= db.services[k].first
                                    /\ db.services[k].last <= w.services[k].last
  BY <1>3, <1>5, <1>6, <1>7
<1>10. \A o \in observed : /\ w.services[o.service].first <= o.at
                           /\ o.at <= w.services[o.service].last
  BY <1>4, <1>6, <1>7
<1> QED BY <1>7, <1>8, <1>9, <1>10 DEF keys, w

\* Records that are kept or new have what they refer to after a batch.
LEMMA WrittenReferenced ==
  ASSUME NEW db, DOMAIN db = Tables, AllReferenced(db),
         NEW new, IsFiniteSet(new), \A r \in new : r.start \in Int,
         \A r \in RecordsOf(db) : r.start \in Int,
         NEW w, w.references = AddReferences(db, new).references,
         w.services = ObserveServices(AddReferences(db, new), Observed(new)).services,
         RecordsOf(w) \subseteq RecordsOf(db) \cup new
  PROVE  AllReferenced(w)
<1> DEFINE a == AddReferences(db, new)
           o == Observed(new)
<1>1. DOMAIN a = Tables /\ a.services = db.services
  BY ReferencesTables DEF Tables
<1>2. a.references = db.references \cup UNION {r.refs : r \in new}
  BY DEF AddReferences, Tables
<1>3. Bounds(a)
  BY <1>1 DEF Bounds, AllReferenced
<1>4. IsFiniteSet(o) /\ \A p \in o : p.at \in Int
  <2> DEFINE f == [r \in new |-> [service |-> r.service, at |-> r.start]]
  <2>1. f \in Surjection(new, o)
    BY DEF Surjection, Observed
  <2>2. \A p \in o : p.at \in Int
    BY DEF Observed
  <2> QED BY <2>1, <2>2, FS_Surjection
<1>5. \A r \in new : [service |-> r.service, at |-> r.start] \in o
  BY DEF Observed
<1> HIDE DEF a, o
<1>6. LET v == ObserveServices(a, o)
      IN  /\ Bounds(v)
          /\ DOMAIN v.services = DOMAIN a.services \cup {p.service : p \in o}
          /\ \A k \in DOMAIN a.services : /\ v.services[k].first <= a.services[k].first
                                          /\ a.services[k].last <= v.services[k].last
          /\ \A p \in o : v.services[p.service].first <= p.at /\ p.at <= v.services[p.service].last
  BY <1>1, <1>3, <1>4, ObserveWidens
<1>7. w.services = ObserveServices(a, o).services /\ w.references = a.references
  BY DEF a, o
<1>8. Bounds(w)
  BY <1>6, <1>7 DEF Bounds
<1>9. ASSUME NEW r \in new PROVE Referenced(w, r)
  <2>1. PICK p \in o : p.service = r.service /\ p.at = r.start
    BY <1>5
  <2>2. r.service \in DOMAIN w.services
    BY <1>6, <1>7, <2>1
  <2>3. w.services[r.service].first <= r.start /\ r.start <= w.services[r.service].last
    BY <1>6, <1>7, <2>1
  <2> QED BY <1>2, <1>7, <2>2, <2>3 DEF Referenced
<1>10. ASSUME NEW r \in RecordsOf(db) PROVE Referenced(w, r)
  <2>1. Referenced(db, r) /\ r.start \in Int
    BY DEF AllReferenced
  <2>2. r.service \in DOMAIN db.services /\ db.services[r.service].first <= r.start
        /\ r.start <= db.services[r.service].last /\ r.refs \subseteq db.references
    BY <2>1 DEF Referenced
  <2>3. /\ w.services[r.service].first <= db.services[r.service].first
        /\ db.services[r.service].last <= w.services[r.service].last
        /\ r.service \in DOMAIN w.services
    BY <1>1, <1>6, <1>7, <2>2
  <2>4. /\ db.services[r.service].first \in Int /\ db.services[r.service].last \in Int
        /\ w.services[r.service].first \in Int /\ w.services[r.service].last \in Int
    BY <1>8, <2>2, <2>3 DEF Bounds, AllReferenced
  <2>5. w.services[r.service].first <= r.start /\ r.start <= w.services[r.service].last
    BY <2>1, <2>2, <2>3, <2>4
  <2> QED BY <1>2, <1>7, <2>2, <2>3, <2>5 DEF Referenced
<1> QED BY <1>8, <1>9, <1>10 DEF AllReferenced

\* deleteTelemetry leaves no dangling reference, and nothing unreferenced.
LEMMA DeletionReferenced ==
  ASSUME NEW db, DOMAIN db = Tables, AllReferenced(db), NEW C
  PROVE  AllReferenced(DeleteTelemetry(db, C)) /\ OnlyReferenced(DeleteTelemetry(db, C))
<1> DEFINE w == DeleteTelemetry(db, C)
<1>1. RecordsOf(w) \subseteq RecordsOf(db)
  <2>1. w.spans = {s \in db.spans : s.trace \notin TracesIn(C)}
    BY DEF DeleteTelemetry, Tables, TracesIn
  <2>2. w.logs = {l \in db.logs : l.id \notin LogsIn(C)}
    BY DEF DeleteTelemetry, Tables, LogsIn
  <2> HIDE DEF w
  <2> QED BY <2>1, <2>2 DEF RecordsOf
<1>2. Collected(db, w)
  BY DeleteReferences
<1> HIDE DEF w
<1>3. /\ w.services = [k \in {r.service : r \in w.spans \cup w.logs} |-> db.services[k]]
      /\ w.references = UNION {r.refs : r \in w.spans \cup w.logs}
  BY <1>2 DEF Collected
<1>4. OnlyReferenced(w)
  BY <1>3 DEF OnlyReferenced, RecordsOf
<1>5. \A k \in DOMAIN w.services : k \in DOMAIN db.services /\ w.services[k] = db.services[k]
  BY <1>1, <1>3 DEF AllReferenced, Referenced, RecordsOf
<1>6. Bounds(w)
  BY <1>5 DEF AllReferenced, Bounds
<1>7. \A r \in RecordsOf(w) : Referenced(w, r)
  BY <1>1, <1>4, <1>5 DEF AllReferenced, Referenced, OnlyReferenced
<1> QED BY <1>4, <1>6, <1>7 DEF AllReferenced, w

\* The invariant of references.
ReferencesInv == AllReferenced(store) /\ (step = "swept" => OnlyReferenced(store))

\* Every step keeps it.
LEMMA ReferencesStep == TypedInv /\ ReferencesInv /\ [Next]_vars => ReferencesInv'
<1> SUFFICES ASSUME TypedInv, ReferencesInv, [Next]_vars PROVE ReferencesInv'
  OBVIOUS
<1> SUFFICES AllReferenced(store') /\ (step' = "swept" => OnlyReferenced(store'))
  BY DEF ReferencesInv, AllReferenced, OnlyReferenced, RecordsOf, Bounds, Referenced
<1>1. Sound(store) /\ Typed(store) /\ DOMAIN store = Tables /\ AllReferenced(store)
      /\ \A r \in RecordsOf(store) : r.start \in Int
  BY DEF TypedInv, Sound, ReferencesInv, RecordsOf, Typed
<1>2. CASE Bookkeeping
  <2>1. /\ store'.spans = store.spans /\ store'.logs = store.logs
        /\ store'.references = store.references /\ store'.services = store.services
    BY <1>1, <1>2, BookkeepingKeeps DEF Tables
  <2>2. step' = "swept" => step = "swept"
    BY <1>2 DEF Bookkeeping, Start, End, Wake, WriteFails, FinishRound, Reject, MarkRunning, RetentionFails
  <2> QED BY <1>1, <2>1, <2>2 DEF ReferencesInv, AllReferenced, OnlyReferenced, RecordsOf, Bounds, Referenced
<1>3. CASE Reset
  <2>1. /\ store'.spans = {} /\ store'.logs = {} /\ store'.references = {} /\ DOMAIN store'.services = {}
    BY <1>3 DEF Reset, EmptyStore
  <2> QED BY <2>1 DEF AllReferenced, OnlyReferenced, RecordsOf, Bounds, Referenced
<1>4. CASE Sweep
  <2>1. store' = RunRetention(store, round.cutoff).tables
    BY <1>4 DEF Sweep
  <2>2. PICK C, D : RunRetention(store, round.cutoff).tables \in
                      {DeleteTelemetry(store, C), DeleteTelemetry(DeleteTelemetry(store, C), D)}
    BY RetentionDeletes
  <2>3. /\ AllReferenced(DeleteTelemetry(store, C)) /\ OnlyReferenced(DeleteTelemetry(store, C))
        /\ DOMAIN DeleteTelemetry(store, C) = Tables
    BY <1>1, DeletionReferenced, DeletionKeeps
  <2>4. /\ AllReferenced(DeleteTelemetry(DeleteTelemetry(store, C), D))
        /\ OnlyReferenced(DeleteTelemetry(DeleteTelemetry(store, C), D))
    BY <2>3, DeletionReferenced
  <2> QED BY <2>1, <2>2, <2>3, <2>4
<1>5. ASSUME NEW batch \in TraceBatches, CommitSpans(batch)
      PROVE  AllReferenced(store') /\ step' # "swept"
  <2> DEFINE new == NewSpans(store, batch)
             w == WriteSpans(store, batch)
  <2>1. store' = w /\ step' # "swept"
    BY <1>5 DEF CommitSpans, WorkerFree
  <2>2. IsFiniteSet(new) /\ \A r \in new : r.start \in Int
    BY RecordAssumption, NewSpansTyped
  <2>3. SpansWritten(store, new, w)
    BY <1>1, WriteSpansTables
  <2> HIDE DEF new, w
  <2>4. w.references = AddReferences(store, new).references
    BY <2>3 DEF SpansWritten
  <2>5. w.services = ObserveServices(AddReferences(store, new), Observed(new)).services
    BY <2>3 DEF SpansWritten
  <2>6. RecordsOf(w) \subseteq RecordsOf(store) \cup new
    <3>1. w.spans = {s \in store.spans : SpanKey(s) \notin {SpanKey(n) : n \in new}} \cup new
      BY <2>3 DEF SpansWritten
    <3>2. w.logs = store.logs
      BY <2>3 DEF SpansWritten
    <3> QED BY <3>1, <3>2 DEF RecordsOf
  <2>7. AllReferenced(w)
    BY <1>1, <2>2, <2>4, <2>5, <2>6, WrittenReferenced
  <2> QED BY <2>1, <2>7
<1>6. ASSUME NEW batch \in LogBatches, NEW ids \in Injections(DOMAIN batch, LogIds), CommitLogs(batch, ids)
      PROVE  AllReferenced(store') /\ step' # "swept"
  <2> DEFINE new == NewLogs(store, batch, ids)
             w == WriteLogs(store, batch, ids)
  <2>1. store' = w /\ step' # "swept"
    BY <1>6 DEF CommitLogs, WorkerFree
  <2>2. IsFiniteSet(new) /\ \A r \in new : r.start \in Int
    BY RecordAssumption, NewLogsTyped
  <2>3. LogsWritten(store, batch, new, w)
    BY <1>1, WriteLogsTables
  <2> HIDE DEF new, w
  <2>4. w.references = AddReferences(store, new).references
    BY <2>3 DEF LogsWritten
  <2>5. w.services = ObserveServices(AddReferences(store, new), Observed(new)).services
    BY <2>3 DEF LogsWritten
  <2>6. RecordsOf(w) \subseteq RecordsOf(store) \cup new
    <3>1. w.spans = store.spans /\ w.logs = store.logs \cup new
      BY <2>3 DEF LogsWritten
    <3> QED BY <3>1 DEF RecordsOf
  <2>7. AllReferenced(w)
    BY <1>1, <2>2, <2>4, <2>5, <2>6, WrittenReferenced
  <2> QED BY <2>1, <2>7
<1>7. CASE UNCHANGED storeVars
  BY <1>1, <1>7 DEF storeVars, ReferencesInv
<1> QED BY <1>2, <1>3, <1>4, <1>5, <1>6, <1>7, StoreSteps DEF Next, StoreStep, StartPaging, ReadPage, vars

\* References are never dangling, and after a sweep nothing unreferenced is left.
THEOREM ReferencesCorrect == Spec => []ReferencesExact
<1>1. Init => ReferencesInv
  <2> SUFFICES ASSUME Init PROVE ReferencesInv
    OBVIOUS
  <2>1. store.spans = {} /\ store.logs = {} /\ DOMAIN store.services = {} /\ step = "idle"
    BY DEF Init, StoreInit, EmptyStore
  <2> QED BY <2>1 DEF ReferencesInv, AllReferenced, RecordsOf, Bounds
<1>2. ReferencesInv => ReferencesExact
  BY DEF ReferencesInv, AllReferenced, OnlyReferenced, RecordsOf, Referenced, ReferencesExact
<1> QED BY <1>1, <1>2, ReferencesStep, StoreTyped, PTL DEF Spec

====
