----------------------------- MODULE PagingProofs -----------------------------
(***************************************************************************)
(* Paging: whatever happens to the Store meanwhile, a row that does not    *)
(* change is on exactly one page once the pages have passed it.            *)
(***************************************************************************)
EXTENDS RetentionProofs

-----------------------------------------------------------------------------
(* Orders.                                                                  *)

\* R, a set of pairs, orders S totally.
Orders(R, S) ==
  /\ \A x \in S : <<x, x>> \notin R
  /\ \A x, y \in S : x = y \/ <<x, y>> \in R \/ <<y, x>> \in R
  /\ \A x, y, z \in S : <<x, y>> \in R /\ <<y, z>> \in R => <<x, z>> \in R

\* The place of each element: how many are before it.
Places(R, S) == [x \in S |-> Cardinality({y \in S : <<y, x>> \in R})]

\* In a finite set the places are 0, 1, ..., each of one element.
LEMMA Ranks ==
  ASSUME NEW S, IsFiniteSet(S), NEW R, Orders(R, S)
  PROVE  LET rank == Places(R, S)
         IN  /\ \A x \in S : rank[x] \in 0..(Cardinality(S) - 1)
             /\ \A x, y \in S : <<x, y>> \in R <=> rank[x] < rank[y]
             /\ \A i \in 0..(Cardinality(S) - 1) : \E x \in S : rank[x] = i
<1> DEFINE n == Cardinality(S)
           rank == Places(R, S)
           B(x) == {y \in S : <<y, x>> \in R}
<1>0. /\ \A x \in S : <<x, x>> \notin R
      /\ \A x, y \in S : x = y \/ <<x, y>> \in R \/ <<y, x>> \in R
      /\ \A x, y, z \in S : <<x, y>> \in R /\ <<y, z>> \in R => <<x, z>> \in R
  BY DEF Orders
<1>1. n \in Nat /\ \A x \in S : IsFiniteSet(B(x)) /\ Cardinality(B(x)) \in 0..(n - 1)
  <2>1. n \in Nat
    BY FS_CardinalityType
  <2>2. ASSUME NEW x \in S PROVE IsFiniteSet(B(x)) /\ Cardinality(B(x)) \in 0..(n - 1)
    <3>1. B(x) \in SUBSET S /\ x \notin B(x)
      BY <1>0
    <3>2. Cardinality(B(x)) <= n /\ Cardinality(B(x)) # n /\ IsFiniteSet(B(x))
      BY <3>1, FS_Subset
    <3>3. Cardinality(B(x)) \in Nat
      BY <3>2, FS_CardinalityType
    <3> QED BY <2>1, <3>2, <3>3
  <2> QED BY <2>1, <2>2
<1>2. ASSUME NEW x \in S, NEW y \in S, <<x, y>> \in R PROVE Cardinality(B(x)) < Cardinality(B(y))
  <2>1. B(x) \in SUBSET B(y)
    BY <1>0, <1>2
  <2>2. x \in B(y) /\ x \notin B(x)
    BY <1>0, <1>2
  <2>3. Cardinality(B(x)) <= Cardinality(B(y)) /\ Cardinality(B(x)) # Cardinality(B(y))
    BY <1>1, <2>1, <2>2, FS_Subset
  <2>4. Cardinality(B(x)) \in Nat /\ Cardinality(B(y)) \in Nat
    BY <1>1, FS_CardinalityType
  <2> QED BY <2>3, <2>4
<1>3. rank = [x \in S |-> Cardinality(B(x))]
  BY DEF Places
<1> HIDE DEF B, n, rank
<1>4. \A x \in S : rank[x] \in 0..(n - 1) /\ rank[x] \in Int
  BY <1>1, <1>3
<1>5. \A x, y \in S : <<x, y>> \in R => rank[x] < rank[y]
  BY <1>2, <1>3
<1>6. ASSUME NEW x \in S, NEW y \in S, rank[x] < rank[y] PROVE <<x, y>> \in R
  <2>1. rank[x] \in Int /\ rank[y] \in Int
    BY <1>4
  <2>2. x # y /\ <<y, x>> \notin R
    <3>1. ~(rank[y] < rank[x]) /\ rank[x] # rank[y]
      BY <1>6, <2>1
    <3> QED BY <1>5, <3>1
  <2> QED BY <1>0, <2>2
<1>7. rank \in Injection(S, 0..(n - 1))
  <2>1. rank \in [S -> 0..(n - 1)]
    BY <1>3, <1>4
  <2>2. ASSUME NEW x \in S, NEW y \in S, x # y PROVE rank[x] # rank[y]
    <3>1. rank[x] \in Int /\ rank[y] \in Int
      BY <1>4
    <3>2. rank[x] < rank[y] \/ rank[y] < rank[x]
      BY <1>0, <1>5, <2>2
    <3> QED BY <3>1, <3>2
  <2> QED BY <2>1, <2>2 DEF Injection, IsInjective
<1>8. \A i \in 0..(n - 1) : \E x \in S : rank[x] = i
  <2>1. IsFiniteSet(0..(n - 1)) /\ Cardinality(0..(n - 1)) = n
    BY <1>1, FS_Interval
  <2>2. rank \in Surjection(S, 0..(n - 1))
    BY <1>7, <2>1, FS_Injection DEF n
  <2> QED BY <2>2 DEF Surjection
<1> QED BY <1>4, <1>5, <1>6, <1>8 DEF n, rank

\* Every order of a listing.
Sorts == {"newest", "oldest", "slowest", "ranked"}

\* The rows an order is of: only by duration may a key be missing, and then no other is
\* below zero.
ListedRows(sort) ==
  {r \in [id : Int, key : Int \cup {None}] :
     /\ r.key = None => sort = "slowest"
     /\ sort = "slowest" => r.key = None \/ r.key >= 0}

\* Each order of a listing is total, and what is after the cursor of a row is what is
\* listed after the row.
LEMMA ListingOrder ==
  ASSUME NEW sort \in Sorts
  PROVE  /\ \A r \in ListedRows(sort) : ~ListedBefore(r, r, sort)
         /\ \A r, s \in ListedRows(sort) : r = s \/ ListedBefore(r, s, sort) \/ ListedBefore(s, r, sort)
         /\ \A r, s, t \in ListedRows(sort) :
              ListedBefore(r, s, sort) /\ ListedBefore(s, t, sort) => ListedBefore(r, t, sort)
         /\ \A r, s \in ListedRows(sort) : \A q, n : q.sort = sort =>
              (AfterCursor(s, NextCursor(r, q, n), sort) <=> ListedBefore(r, s, sort))
<1> DEFINE Fits(r) == r.id \in Int /\ (IF sort = "slowest" THEN r.key \in Nat \cup {None} ELSE r.key \in Int)
<1>1. \A r \in ListedRows(sort) : Fits(r)
  BY DEF ListedRows
<1>2. \A r, s \in ListedRows(sort) : r.id = s.id /\ r.key = s.key => r = s
  BY DEF ListedRows
<1>3. None \notin Int
  BY ListingAssumption
<1>4. ASSUME NEW r \in ListedRows(sort), NEW s \in ListedRows(sort), NEW t \in ListedRows(sort)
      PROVE  /\ ~ListedBefore(r, r, sort)
             /\ r = s \/ ListedBefore(r, s, sort) \/ ListedBefore(s, r, sort)
             /\ ListedBefore(r, s, sort) /\ ListedBefore(s, t, sort) => ListedBefore(r, t, sort)
  <2>1. CASE sort = "slowest"
    BY <1>1, <1>2, <1>3, <2>1 DEF ListedBefore
  <2>2. CASE sort # "slowest"
    <3>1. Fits(r) /\ Fits(s) /\ Fits(t) /\ (r.id = s.id /\ r.key = s.key => r = s)
      BY <1>1, <1>2
    <3>2. sort \in {"newest", "oldest", "ranked"}
      BY <2>2 DEF Sorts
    <3>3. CASE sort = "newest"
      BY <3>1, <3>3 DEF ListedBefore
    <3>4. CASE sort = "oldest"
      BY <3>1, <3>4 DEF ListedBefore
    <3>5. CASE sort = "ranked"
      BY <3>1, <3>5 DEF ListedBefore
    <3> QED BY <3>2, <3>3, <3>4, <3>5
  <2> QED BY <2>1, <2>2
<1>5. ASSUME NEW r \in ListedRows(sort), NEW s \in ListedRows(sort), NEW q, NEW n, q.sort = sort
      PROVE  AfterCursor(s, NextCursor(r, q, n), sort) <=> ListedBefore(r, s, sort)
  <2> DEFINE c == NextCursor(r, q, n)
  <2>1. c.key = KeyOf(r, sort) /\ c.id = r.id
    BY <1>5 DEF NextCursor
  <2> HIDE DEF c
  <2>2. Fits(r) /\ Fits(s) /\ (sort # "slowest" => KeyOf(r, sort) = r.key /\ KeyOf(s, sort) = s.key)
    BY <1>1 DEF KeyOf
  <2>3. CASE sort = "slowest"
    <3>1. /\ KeyOf(r, sort) = IF r.key = None THEN -1 ELSE r.key
          /\ KeyOf(s, sort) = IF s.key = None THEN -1 ELSE s.key
      BY <2>3 DEF KeyOf
    <3>2. AfterCursor(s, c, sort) <=> \/ KeyOf(s, sort) < c.key
                                      \/ KeyOf(s, sort) = c.key /\ s.id < c.id
      BY <2>3 DEF AfterCursor
    <3>3. ListedBefore(r, s, sort) <=> IF r.key = s.key THEN r.id > s.id
                                       ELSE s.key = None \/ (r.key # None /\ r.key > s.key)
      BY <2>3 DEF ListedBefore
    <3> QED BY <1>3, <2>1, <2>2, <2>3, <3>1, <3>2, <3>3 DEF c
  <2>4. CASE sort = "newest"
    BY <2>1, <2>2, <2>4 DEF AfterCursor, ListedBefore, c
  <2>5. CASE sort = "oldest"
    BY <2>1, <2>2, <2>5 DEF AfterCursor, ListedBefore, c
  <2>6. CASE sort = "ranked"
    BY <2>1, <2>2, <2>6 DEF AfterCursor, ListedBefore, c
  <2> QED BY <2>3, <2>4, <2>5, <2>6 DEF Sorts, c
<1> QED BY <1>4, <1>5

\* A finite set of rows in order has each row at one place, in order.
LEMMA OrderedRows ==
  ASSUME NEW sort \in Sorts, NEW rows, rows \subseteq ListedRows(sort), IsFiniteSet(rows)
  PROVE  LET o == InOrder(rows, sort)
             n == Cardinality(rows)
         IN  /\ n \in Nat /\ o \in [1..n -> rows]
             /\ \A i, j \in 1..n : i < j <=> ListedBefore(o[i], o[j], sort)
             /\ \A r \in rows : \E i \in 1..n : o[i] = r
<1> DEFINE R == {p \in rows \X rows : ListedBefore(p[1], p[2], sort)}
           rank == Places(R, rows)
           n == Cardinality(rows)
           o == InOrder(rows, sort)
<1>1. \A r, s \in rows : <<r, s>> \in R <=> ListedBefore(r, s, sort)
  OBVIOUS
<1>2. Orders(R, rows)
  <2> HIDE DEF R
  <2> QED BY <1>1, ListingOrder DEF Orders
<1>3. \A r \in rows : rank[r] = Cardinality({s \in rows : ListedBefore(s, r, sort)})
  <2> TAKE r \in rows
  <2>1. {s \in rows : <<s, r>> \in R} = {s \in rows : ListedBefore(s, r, sort)}
    BY <1>1
  <2> QED BY <2>1 DEF Places
<1> HIDE DEF R
<1>4. /\ \A x \in rows : rank[x] \in 0..(n - 1)
      /\ \A x, y \in rows : <<x, y>> \in R <=> rank[x] < rank[y]
      /\ \A i \in 0..(n - 1) : \E x \in rows : rank[x] = i
  BY <1>2, Ranks
<1>5. n \in Nat
  BY FS_CardinalityType
<1> HIDE DEF rank, n
<1>6. o = [i \in 1..n |-> CHOOSE r \in rows : rank[r] = i - 1]
  <2>1. o = [i \in 1..n |-> CHOOSE r \in rows : Cardinality({s \in rows : ListedBefore(s, r, sort)}) = i - 1]
    BY DEF InOrder, n
  <2> QED BY <1>3, <2>1
<1>7. \A i \in 1..n : o[i] \in rows /\ rank[o[i]] = i - 1
  <2> TAKE i \in 1..n
  <2>1. i - 1 \in 0..(n - 1)
    BY <1>5
  <2>2. \E r \in rows : rank[r] = i - 1
    BY <1>4, <2>1
  <2> QED BY <1>6, <2>2
<1>8. o \in [1..n -> rows]
  BY <1>6, <1>7
<1> HIDE DEF o
<1>9. \A i, j \in 1..n : i < j <=> ListedBefore(o[i], o[j], sort)
  <2> TAKE i, j \in 1..n
  <2>1. o[i] \in rows /\ o[j] \in rows /\ rank[o[i]] = i - 1 /\ rank[o[j]] = j - 1 /\ i \in Int /\ j \in Int
    BY <1>5, <1>7
  <2>2. ListedBefore(o[i], o[j], sort) <=> rank[o[i]] < rank[o[j]]
    BY <1>1, <1>4, <2>1
  <2> QED BY <2>1, <2>2
<1>10. ASSUME NEW r \in rows PROVE \E i \in 1..n : o[i] = r
  <2>1. rank[r] \in 0..(n - 1)
    BY <1>4
  <2>2. rank[r] + 1 \in 1..n
    BY <1>5, <2>1
  <2>3. o[rank[r] + 1] \in rows /\ rank[o[rank[r] + 1]] = rank[r]
    BY <1>7, <2>1, <2>2, <1>5
  <2>4. ~(<<o[rank[r] + 1], r>> \in R) /\ ~(<<r, o[rank[r] + 1]>> \in R)
    BY <1>4, <2>1, <2>3, <1>5
  <2>5. o[rank[r] + 1] = r
    BY <1>2, <2>3, <2>4 DEF Orders
  <2> QED BY <2>2, <2>5
<1> QED BY <1>5, <1>8, <1>9, <1>10 DEF n, o

-----------------------------------------------------------------------------
(* Pages.                                                                   *)

\* What Rows gives: finitely many rows that its order is of, each with its own id.
Listed(rows, sort) ==
  /\ sort \in Sorts /\ rows \subseteq ListedRows(sort) /\ IsFiniteSet(rows)
  /\ \A r, s \in rows : r.id = s.id => r = s

\* The row is once, or not, among the ids.
Once(ids, r)  == \E i \in DOMAIN ids : ids[i] = r.id /\ \A j \in DOMAIN ids : ids[j] = r.id => j = i
Never(ids, r) == \A i \in DOMAIN ids : ids[i] # r.id

\* The rows of a listing a cursor leaves.
Left(db, q, c) == {r \in Rows(db, q) : c = None \/ AfterCursor(r, c, q.sort)}

\* A page has some rows T of those its cursor leaves, once each and no others: all, if it
\* is the last, and otherwise those that are not after the row m of its own cursor.
LEMMA PageRows ==
  ASSUME NEW db, NEW q, Listed(Rows(db, q), q.sort), NEW c, NEW n \in Nat \ {0}
  PROVE  LET page == Page(db, q, c, n)
             left == Left(db, q, c)
         IN  /\ page.ids \in Seq(Int)
             /\ \E T \in SUBSET left :
                  /\ \A r \in T : Once(page.ids, r)
                  /\ \A r \in Rows(db, q) \ T : Never(page.ids, r)
                  /\ \/ page.next = None /\ T = left
                     \/ \E m \in left : /\ page.next = NextCursor(m, q, n)
                                       /\ T = {r \in left : ~ListedBefore(m, r, q.sort)}
<1> DEFINE left == Left(db, q, c)
           o == InOrder(left, q.sort)
           size == Cardinality(left)
           k == IF size < n THEN size ELSE n
           T == {o[i] : i \in 1..k}
           page == Page(db, q, c, n)
<1>1. left \in SUBSET Rows(db, q)
  BY DEF Left
<1>2. left \subseteq ListedRows(q.sort) /\ IsFiniteSet(left) /\ q.sort \in Sorts
  BY <1>1, FS_Subset DEF Listed
<1>3. /\ size \in Nat /\ o \in [1..size -> left]
      /\ \A i, j \in 1..size : i < j <=> ListedBefore(o[i], o[j], q.sort)
      /\ \A r \in left : \E i \in 1..size : o[i] = r
  BY <1>2, OrderedRows
<1>4. Matching(db, q, c) = o
  BY DEF Matching, Left
<1> HIDE DEF o, left
<1>5. o \in Seq(left) /\ Len(o) = size
  BY <1>3
<1>6. k \in 0..size /\ k <= n /\ k \in Nat /\ (size > n => k = n) /\ (~(size > n) => k = size)
  BY <1>3
<1>7. /\ page.ids = [i \in 1..k |-> o[i].id]
      /\ page.next = IF size > n THEN NextCursor(o[k], q, n) ELSE None
  <2> DEFINE items == SubSeq(o, 1, k)
  <2>1. /\ page.ids = [i \in DOMAIN items |-> items[i].id]
        /\ page.next = IF size > n THEN NextCursor(items[Len(items)], q, n) ELSE None
    BY <1>4, <1>5 DEF Page
  <2> HIDE DEF k
  <2>2. items = [i \in 1..k |-> o[i]] /\ Len(items) = k
    BY <1>5, <1>6
  <2>3. page.ids = [i \in 1..k |-> o[i].id]
    BY <2>1, <2>2
  <2>4. size > n => k \in 1..k
    BY <1>6
  <2> QED BY <2>1, <2>2, <2>3, <2>4
<1> HIDE DEF size, k, page
<1>8. \A i \in 1..k : i \in 1..size /\ o[i] \in left /\ o[i].id \in Int
  <2>1. \A r \in left : r.id \in Int
    BY <1>2 DEF ListedRows
  <2>2. \A i \in 1..k : i \in 1..size
    BY <1>3, <1>6
  <2> QED BY <1>3, <2>1, <2>2
<1>9. page.ids \in Seq(Int)
  BY <1>6, <1>7, <1>8
<1>10. \A r, s \in Rows(db, q) : r.id = s.id => r = s
  BY DEF Listed
<1>11. ASSUME NEW i \in 1..size, NEW j \in 1..size, o[i] = o[j] PROVE i = j
  <2>1. ~ListedBefore(o[i], o[j], q.sort) /\ ~ListedBefore(o[j], o[i], q.sort)
    BY <1>2, <1>3, <1>11, ListingOrder
  <2>2. ~(i < j) /\ ~(j < i) /\ i \in Int /\ j \in Int
    BY <1>3, <2>1
  <2> QED BY <2>2
<1>12. ASSUME NEW r \in T PROVE Once(page.ids, r)
  <2>1. PICK i \in 1..k : r = o[i]
    OBVIOUS
  <2>2. \A j \in 1..k : o[j].id = r.id <=> j = i
    BY <1>1, <1>8, <1>10, <1>11, <2>1
  <2> QED BY <1>7, <2>2 DEF Once
<1>13. ASSUME NEW r \in Rows(db, q) \ T PROVE Never(page.ids, r)
  BY <1>1, <1>7, <1>8, <1>10 DEF Never
<1>14. T \in SUBSET left
  BY <1>8
<1>15. CASE size > n
  <2>1. k \in 1..size /\ k = n /\ o[k] \in left
    BY <1>3, <1>6, <1>15
  <2>2. T = {r \in left : ~ListedBefore(o[k], r, q.sort)}
    <3>1. ASSUME NEW r \in left PROVE r \in T <=> ~ListedBefore(o[k], r, q.sort)
      <4>1. PICK i \in 1..size : o[i] = r
        BY <1>3
      <4>2. ListedBefore(o[k], r, q.sort) <=> k < i
        BY <1>3, <2>1, <4>1
      <4>3. r \in T <=> i \in 1..k
        BY <1>8, <1>11, <4>1
      <4> QED BY <1>3, <2>1, <4>2, <4>3
    <3> QED BY <1>14, <3>1
  <2>3. page.next = NextCursor(o[k], q, n)
    BY <1>7, <1>15
  <2> QED BY <1>9, <1>12, <1>13, <1>14, <2>1, <2>2, <2>3 DEF page, left
<1>16. CASE ~(size > n)
  <2>1. T = left
    BY <1>3, <1>6, <1>14, <1>16
  <2>2. page.next = None
    BY <1>7, <1>16
  <2> QED BY <1>9, <1>12, <1>13, <1>14, <2>1, <2>2 DEF page, left
<1> QED BY <1>15, <1>16

-----------------------------------------------------------------------------
(* Records and what was sent.                                               *)

\* The record has what the sender gave.
Keeps(record, sent) == \A f \in DOMAIN sent : record[f] = sent[f]

SpanSent(s) == \E batch \in TraceBatches : \E i \in DOMAIN batch : Keeps(s, batch[i])
LogSent(l)  == \E batch \in LogBatches : \E i \in DOMAIN batch : Keeps(l, batch[i])

\* Every record is one that was sent, and a span is there once.
Recorded(db) ==
  /\ \A s \in db.spans : SpanSent(s)
  /\ \A l \in db.logs : LogSent(l)
  /\ \A s, u \in db.spans : SpanKey(s) = SpanKey(u) => s = u

\* What a record as it is kept has, and what it had before.
LEMMA PreparedKeeps ==
  ASSUME NEW r, "indexed" \notin DOMAIN r, NEW admitted
  PROVE  /\ Keeps(Prepare(r, admitted), r)
         /\ "id" \notin DOMAIN r => \A v : Keeps(WithField(Prepare(r, admitted), "id", v), r)
<1>1. /\ DOMAIN Prepare(r, admitted) = DOMAIN r \cup {"indexed"}
      /\ \A f \in DOMAIN r : Prepare(r, admitted)[f] = r[f]
  BY DEF Prepare, WithField
<1>2. Keeps(Prepare(r, admitted), r)
  BY <1>1 DEF Keeps
<1>3. ASSUME "id" \notin DOMAIN r, NEW v PROVE Keeps(WithField(Prepare(r, admitted), "id", v), r)
  <2> DEFINE p == Prepare(r, admitted)
  <2> HIDE DEF p
  <2>1. \A f \in DOMAIN p : f # "id" => WithField(p, "id", v)[f] = p[f]
    BY DEF WithField
  <2>2. \A f \in DOMAIN r : WithField(p, "id", v)[f] = r[f]
    BY <1>1, <1>3, <2>1 DEF p
  <2> QED BY <2>2 DEF Keeps, p
<1> QED BY <1>2, <1>3

\* A batch of spans becomes one record for each span of it, as it was sent last.
LEMMA SpansRecorded ==
  ASSUME NEW db, DOMAIN db = Tables, Recorded(db), NEW batch \in TraceBatches
  PROVE  Recorded(WriteSpans(db, batch))
<1> DEFINE w == WriteSpans(db, batch)
           new == NewSpans(db, batch)
           kept == {s \in db.spans : SpanKey(s) \notin {SpanKey(n) : n \in new}}
           admitted == AdmittedPairs(db, UNION {r.attributes : r \in LastSpans(batch)})
<1>1. w.spans = kept \cup new /\ w.logs = db.logs
  <2>1. SpansWritten(db, new, w)
    BY WriteSpansTables
  <2> HIDE DEF new, w
  <2> QED BY <2>1 DEF SpansWritten
<1>2. \A i \in DOMAIN batch : batch[i] \in SpanRecords
  BY RecordAssumption, FiniteBatch
<1>3. \A r \in LastSpans(batch) : \E i \in DOMAIN batch : r = batch[i]
  BY DEF LastSpans
<1>4. \A r, u \in LastSpans(batch) : SpanKey(r) = SpanKey(u) => r = u
  <2> SUFFICES ASSUME NEW i \in DOMAIN batch, NEW j \in DOMAIN batch, SpanKey(batch[i]) = SpanKey(batch[j]),
                      \A k \in DOMAIN batch : SpanKey(batch[k]) = SpanKey(batch[i]) => k <= i,
                      \A k \in DOMAIN batch : SpanKey(batch[k]) = SpanKey(batch[j]) => k <= j
               PROVE  i = j
    BY DEF LastSpans
  <2>1. i \in Int /\ j \in Int /\ i <= j /\ j <= i
    <3>1. batch \in Seq(SpanRecords)
      BY RecordAssumption
    <3>2. DOMAIN batch = 1..Len(batch) /\ Len(batch) \in Nat
      BY <3>1
    <3> QED BY <3>2
  <2> QED BY <2>1
<1> HIDE DEF admitted
<1>5. new = {Prepare(r, admitted) : r \in LastSpans(batch)}
  BY DEF NewSpans, admitted
<1>6. ASSUME NEW r \in LastSpans(batch)
      PROVE  /\ SpanSent(Prepare(r, admitted))
             /\ SpanKey(Prepare(r, admitted)) = SpanKey(r)
  <2>1. PICK i \in DOMAIN batch : r = batch[i]
    BY <1>3
  <2>2. r \in SpanRecords
    BY <1>2, <2>1
  <2>3. "indexed" \notin DOMAIN r /\ {"trace", "id"} \subseteq DOMAIN r
    BY <2>2 DEF SpanRecords
  <2>4. Keeps(Prepare(r, admitted), r)
    BY <2>3, PreparedKeeps
  <2>5. SpanSent(Prepare(r, admitted))
    BY <2>1, <2>4 DEF SpanSent
  <2> QED BY <2>3, <2>4, <2>5 DEF Keeps, SpanKey
<1> HIDE DEF new, w
<1>7. \A s \in new : SpanSent(s)
  BY <1>5, <1>6
<1>8. \A s, u \in new : SpanKey(s) = SpanKey(u) => s = u
  BY <1>4, <1>5, <1>6
<1>9. \A s, u \in kept \cup new : SpanKey(s) = SpanKey(u) => s = u
  BY <1>8 DEF Recorded
<1> QED BY <1>1, <1>7, <1>9 DEF Recorded, w

\* A batch of logs becomes as many logs, as they were sent.
LEMMA LogsRecorded ==
  ASSUME NEW db, DOMAIN db = Tables, Recorded(db), NEW batch \in LogBatches, NEW ids
  PROVE  Recorded(WriteLogs(db, batch, ids))
<1> DEFINE w == WriteLogs(db, batch, ids)
           new == NewLogs(db, batch, ids)
           admitted == AdmittedPairs(db, UNION {batch[i].attributes : i \in DOMAIN batch})
<1>1. w.spans = db.spans /\ w.logs = db.logs \cup new
  <2>1. LogsWritten(db, batch, new, w)
    BY WriteLogsTables
  <2> HIDE DEF new, w
  <2> QED BY <2>1 DEF LogsWritten
<1>2. \A i \in DOMAIN batch : batch[i] \in LogRecords
  BY RecordAssumption, FiniteBatch
<1> HIDE DEF admitted
<1>3. new = {WithField(Prepare(batch[i], admitted), "id", ids[i]) : i \in DOMAIN batch}
  BY DEF NewLogs, admitted
<1>4. ASSUME NEW i \in DOMAIN batch
      PROVE  LogSent(WithField(Prepare(batch[i], admitted), "id", ids[i]))
  <2>1. "indexed" \notin DOMAIN batch[i] /\ "id" \notin DOMAIN batch[i]
    BY <1>2 DEF LogRecords
  <2>2. Keeps(WithField(Prepare(batch[i], admitted), "id", ids[i]), batch[i])
    BY <2>1, PreparedKeeps
  <2> QED BY <2>2 DEF LogSent
<1> HIDE DEF new, w
<1>5. \A l \in new : LogSent(l)
  BY <1>3, <1>4
<1> QED BY <1>1, <1>5 DEF Recorded, w

\* A Store that has lost records has no others.
LEMMA FewerRecorded ==
  ASSUME NEW db, Recorded(db), NEW w, w.spans \subseteq db.spans, w.logs \subseteq db.logs
  PROVE  Recorded(w)
BY DEF Recorded

\* A sweep only deletes records.
LEMMA SweptRecords ==
  ASSUME NEW db, DOMAIN db = Tables, NEW cutoff
  PROVE  /\ RunRetention(db, cutoff).tables.spans \subseteq db.spans
         /\ RunRetention(db, cutoff).tables.logs \subseteq db.logs
<1>1. ASSUME NEW d, DOMAIN d = Tables, NEW C
      PROVE  LET w == DeleteTelemetry(d, C)
             IN  DOMAIN w = Tables /\ w.spans \subseteq d.spans /\ w.logs \subseteq d.logs
  <2>1. Pruned(d, C, DeleteTelemetry(d, C))
    BY <1>1, DeleteTables
  <2> QED BY <2>1 DEF Pruned
<1>2. PICK C, D : RunRetention(db, cutoff).tables \in
                    {DeleteTelemetry(db, C), DeleteTelemetry(DeleteTelemetry(db, C), D)}
  BY RetentionDeletes
<1>3. /\ DOMAIN DeleteTelemetry(db, C) = Tables
      /\ DeleteTelemetry(db, C).spans \subseteq db.spans /\ DeleteTelemetry(db, C).logs \subseteq db.logs
  BY <1>1
<1>4. /\ DeleteTelemetry(DeleteTelemetry(db, C), D).spans \subseteq DeleteTelemetry(db, C).spans
      /\ DeleteTelemetry(DeleteTelemetry(db, C), D).logs \subseteq DeleteTelemetry(db, C).logs
  BY <1>1, <1>3
<1> QED BY <1>2, <1>3, <1>4

\* Every step keeps that.
LEMMA RecordedStep == TypedInv /\ Recorded(store) /\ [Next]_vars => Recorded(store')
<1> SUFFICES ASSUME TypedInv, Recorded(store), [Next]_vars PROVE Recorded(store')
  OBVIOUS
<1>1. Sound(store) /\ Typed(store) /\ DOMAIN store = Tables
  BY DEF TypedInv, Sound
<1>2. CASE Bookkeeping
  <2>1. store'.spans = store.spans /\ store'.logs = store.logs
    BY <1>1, <1>2, BookkeepingKeeps DEF Tables
  <2> QED BY <2>1, FewerRecorded
<1>3. CASE Reset
  <2>1. store'.spans = {} /\ store'.logs = {}
    BY <1>3 DEF Reset, EmptyStore
  <2> QED BY <2>1, FewerRecorded
<1>4. CASE Sweep
  <2>1. store' = RunRetention(store, round.cutoff).tables
    BY <1>4 DEF Sweep
  <2>2. store'.spans \subseteq store.spans /\ store'.logs \subseteq store.logs
    BY <1>1, <2>1, SweptRecords
  <2> QED BY <2>2, FewerRecorded
<1>5. ASSUME NEW batch \in TraceBatches, CommitSpans(batch) PROVE Recorded(store')
  BY <1>1, <1>5, SpansRecorded DEF CommitSpans
<1>6. ASSUME NEW batch \in LogBatches, NEW ids, CommitLogs(batch, ids) PROVE Recorded(store')
  BY <1>1, <1>6, LogsRecorded DEF CommitLogs
<1>7. CASE UNCHANGED storeVars
  BY <1>7 DEF storeVars
<1> QED BY <1>2, <1>3, <1>4, <1>5, <1>6, <1>7, StoreSteps DEF Next, StoreStep, StartPaging, ReadPage, vars

\* Every record of the Store is one an exporter sent, under its key once: replacing,
\* deleting and restarting mix no two.
THEOREM RecordsCorrect == Spec => []Recorded(store)
<1>1. Init => Recorded(store)
  BY DEF Init, StoreInit, EmptyStore, Recorded
<1>2. TypedInv /\ Recorded(store) /\ [Next]_vars => Recorded(store)'
  BY RecordedStep DEF Recorded, SpanSent, LogSent
<1> QED BY <1>1, <1>2, StoreTyped, PTL DEF Spec

-----------------------------------------------------------------------------
(* Rows.                                                                    *)

\* What a finite set is mapped to is finite.
LEMMA FiniteRange ==
  ASSUME NEW f, IsFiniteSet(DOMAIN f)
  PROVE  IsFiniteSet({f[x] : x \in DOMAIN f})
<1> DEFINE T == {f[x] : x \in DOMAIN f}
           g == [x \in DOMAIN f |-> f[x]]
<1>1. g \in Surjection(DOMAIN f, T)
  BY DEF Surjection
<1> QED BY <1>1, FS_Surjection

\* The numbers a record has.
LEMMA RecordFields ==
  ASSUME NEW db, Typed(db), Recorded(db)
  PROVE  /\ \A s \in db.spans : /\ s.trace \in Int /\ s.id \in Int /\ s.start \in Int /\ s.end \in Int \cup {None}
                                /\ s.service \in Int /\ s.name \in Int
                                /\ EndsAfterStarts(TraceBatches) => s.end = None \/ s.start <= s.end
         /\ \A l \in db.logs : /\ l.id \in Int /\ l.start \in Int /\ l.service \in Int
                               /\ l.severity \in Int \cup {None}
<1>1. ASSUME NEW s \in db.spans
      PROVE  /\ s.trace \in Int /\ s.id \in Int /\ s.start \in Int /\ s.end \in Int \cup {None}
             /\ s.service \in Int /\ s.name \in Int
             /\ EndsAfterStarts(TraceBatches) => s.end = None \/ s.start <= s.end
  <2>1. PICK batch \in TraceBatches : \E i \in DOMAIN batch : Keeps(s, batch[i])
    BY DEF Recorded, SpanSent
  <2>2. PICK i \in DOMAIN batch : Keeps(s, batch[i])
    BY <2>1
  <2>3. batch[i] \in SpanRecords
    BY RecordAssumption, FiniteBatch
  <2>4. /\ s.trace = batch[i].trace /\ s.id = batch[i].id /\ s.start = batch[i].start
        /\ s.end = batch[i].end /\ s.service = batch[i].service /\ s.name = batch[i].name
    BY <2>2, <2>3 DEF Keeps, SpanRecords
  <2>5. EndsAfterStarts(TraceBatches) => batch[i].end = None \/ batch[i].start <= batch[i].end
    BY DEF EndsAfterStarts
  <2> QED BY <2>3, <2>4, <2>5 DEF SpanRecords
<1>2. ASSUME NEW l \in db.logs
      PROVE  /\ l.id \in Int /\ l.start \in Int /\ l.service \in Int
             /\ l.severity \in Int \cup {None}
  <2>1. PICK batch \in LogBatches : \E i \in DOMAIN batch : Keeps(l, batch[i])
    BY DEF Recorded, LogSent
  <2>2. PICK i \in DOMAIN batch : Keeps(l, batch[i])
    BY <2>1
  <2>3. batch[i] \in LogRecords
    BY RecordAssumption, FiniteBatch
  <2>4. l.service = batch[i].service /\ l.severity = batch[i].severity
    BY <2>2, <2>3 DEF Keeps, LogRecords
  <2> QED BY <2>3, <2>4 DEF Typed, LogRecords
<1> QED BY <1>1, <1>2

\* The span that is first is one of those it is chosen from.
LEMMA EarliestThere ==
  ASSUME NEW db, Typed(db), Recorded(db), NEW S \in SUBSET db.spans, S # {}, IsFiniteSet(S),
         \A s, u \in S : s.trace = u.trace
  PROVE  EarliestSpan(S) \in S
<1> DEFINE R == {p \in S \X S : Precedes(p[1], p[2])}
           rank == Places(R, S)
<1>1. \A s, u \in S : <<s, u>> \in R <=> Precedes(s, u)
  OBVIOUS
<1>2. \A s \in S : s.id \in Int /\ s.start \in Int
  BY RecordFields
<1>3. \A s, u \in S : s.id = u.id => s = u
  BY DEF Recorded, SpanKey
<1> HIDE DEF R
<1>4. Orders(R, S)
  BY <1>1, <1>2, <1>3 DEF Orders, Precedes
<1>5. Cardinality(S) \in Nat /\ Cardinality(S) # 0
  BY FS_CardinalityType, FS_EmptySet
<1>6. /\ \A x \in S : rank[x] \in 0..(Cardinality(S) - 1)
      /\ \A x, y \in S : <<x, y>> \in R <=> rank[x] < rank[y]
      /\ \A i \in 0..(Cardinality(S) - 1) : \E x \in S : rank[x] = i
  BY <1>4, Ranks
<1> HIDE DEF rank
<1>7. PICK x \in S : rank[x] = 0
  BY <1>5, <1>6
<1>8. \A y \in S \ {x} : <<x, y>> \in R
  <2> TAKE y \in S \ {x}
  <2>1. ~(rank[y] < rank[x])
    BY <1>5, <1>6, <1>7
  <2> QED BY <1>4, <1>6, <2>1 DEF Orders
<1> QED BY <1>1, <1>8 DEF EarliestSpan

\* A trace row has numbers for its start and its root's name; its duration is missing, or a
\* number that is not below zero when no span ends before it starts.
LEMMA TraceFields ==
  ASSUME NEW db, Sound(db), Typed(db), Recorded(db), NEW t \in DOMAIN db.traces
  PROVE  LET row == db.traces[t]
         IN  /\ row.start \in Int /\ row.operation \in Int
             /\ EndsAfterStarts(TraceBatches) => row.duration = None \/ row.duration \in Nat
<1> DEFINE S == SpansOf(db, t)
           begins == {s.start : s \in S}
           finishes == {s.end : s \in S}
           active == \E s \in S : s.end = None
           row == db.traces[t]
<1>1. row = TraceRow(S)
  BY DEF Sound, TracesExact
<1>2. S \in SUBSET db.spans /\ \A s, u \in S : s.trace = u.trace
  BY DEF SpansOf
<1>3. IsFiniteSet(S)
  BY <1>2, FS_Subset DEF Typed
<1>4. S # {}
  BY DEF Sound, TracesExact, SpansOf
<1>5. /\ row.start = Least(begins)
      /\ row.duration = IF active THEN None ELSE Greatest(finishes) - Least(begins)
      /\ row.operation = EarliestSpan(IF SpanRoots(S) = {} THEN S ELSE SpanRoots(S)).name
  BY <1>1 DEF TraceRow
<1> HIDE DEF S
<1>6. \A s \in S : /\ s.start \in Int /\ s.end \in Int \cup {None} /\ s.name \in Int
                   /\ EndsAfterStarts(TraceBatches) => s.end = None \/ s.start <= s.end
  BY <1>2, RecordFields
<1>7. IsFiniteSet(begins) /\ IsFiniteSet(finishes)
  <2> DEFINE f == [s \in S |-> s.start]
             g == [s \in S |-> s.end]
  <2>1. f \in Surjection(S, begins) /\ g \in Surjection(S, finishes)
    BY DEF Surjection
  <2> QED BY <1>3, <2>1, FS_Surjection
<1>8. Least(begins) \in Int /\ \A m \in begins : Least(begins) <= m
  <2>1. begins \subseteq Int /\ begins # {}
    BY <1>4, <1>6
  <2> QED BY <1>7, <2>1, EnclosingTimes
<1>9. row.operation \in Int
  <2> DEFINE T == IF SpanRoots(S) = {} THEN S ELSE SpanRoots(S)
  <2>1. T \in SUBSET S /\ T # {}
    BY <1>4 DEF SpanRoots
  <2>2. IsFiniteSet(T) /\ T \in SUBSET db.spans /\ \A s, u \in T : s.trace = u.trace
    BY <1>2, <1>3, <2>1, FS_Subset
  <2> HIDE DEF T
  <2>3. EarliestSpan(T) \in T
    BY <2>1, <2>2, EarliestThere
  <2>4. EarliestSpan(T).name \in Int
    BY <1>6, <2>1, <2>3
  <2> QED BY <1>5, <2>4 DEF T
<1>10. ASSUME EndsAfterStarts(TraceBatches), ~active PROVE row.duration \in Nat
  <2>1. finishes \subseteq Int /\ finishes # {}
    BY <1>4, <1>6, <1>10
  <2>2. Greatest(finishes) \in Int /\ \A m \in finishes : m <= Greatest(finishes)
    BY <1>7, <2>1, EnclosingTimes
  <2>3. PICK s \in S : TRUE
    BY <1>4
  <2>4. s.start \in begins /\ s.end \in finishes /\ s.end # None
    BY <1>10
  <2>5. s.start \in Int /\ s.end \in Int /\ s.start <= s.end
    BY <1>6, <1>10, <2>4
  <2>6. Least(begins) <= s.start /\ s.end <= Greatest(finishes)
    BY <1>8, <2>2, <2>4
  <2> HIDE DEF begins, finishes
  <2> QED BY <1>5, <1>8, <1>10, <2>2, <2>5, <2>6
<1> QED BY <1>5, <1>8, <1>9, <1>10

\* The attribute rows of the spans are finitely many, and have numbers.
LEMMA SpanIndexFinite ==
  ASSUME NEW db, Sound(db), Typed(db)
  PROVE  IsFiniteSet(db.spanIndex) /\ \A r \in db.spanIndex : r.key \in Int /\ r.value \in Int
<1> DEFINE P == IndexedPairs(db)
           f == [x \in db.spans \X P |-> [record |-> SpanKey(x[1]), key |-> x[2][1], value |-> x[2][2]]]
           T == {f[x] : x \in DOMAIN f}
<1>1. P \in SUBSET (Int \X Int) /\ IsFiniteSet(P)
  BY DEF Sound, IndexBounded, Attributes
<1>2. \A r \in db.spanIndex : <<r.key, r.value>> \in P
  BY DEF IndexedPairs
<1>3. db.spanIndex = UNION {RowsOf(s) : s \in db.spans}
  BY DEF Sound, SpansExact
<1> HIDE DEF P
<1>4. IsFiniteSet(db.spans \X P)
  BY <1>1, FS_Product DEF Typed
<1>5. IsFiniteSet(T)
  <2>1. IsFiniteSet(DOMAIN f)
    BY <1>4
  <2> HIDE DEF f
  <2> QED BY <2>1, FiniteRange
<1>6. db.spanIndex \in SUBSET T
  <2> SUFFICES ASSUME NEW r \in db.spanIndex PROVE r \in T
    OBVIOUS
  <2>1. PICK s \in db.spans : r \in RowsOf(s)
    BY <1>3
  <2>2. r = [record |-> SpanKey(s), key |-> r.key, value |-> r.value]
    BY <2>1 DEF RowsOf
  <2>3. <<s, <<r.key, r.value>>>> \in db.spans \X P
    BY <1>2
  <2>4. f[<<s, <<r.key, r.value>>>>] = r
    BY <2>2, <2>3
  <2> QED BY <2>3, <2>4
<1>7. \A r \in db.spanIndex : r.key \in Int /\ r.value \in Int
  BY <1>1, <1>2
<1> QED BY <1>5, <1>6, <1>7, FS_Subset

\* A facet counts finitely many pairs, of values that are numbers.
LEMMA FacetsFinite ==
  ASSUME NEW db, Sound(db), Typed(db), Recorded(db), NEW q, q.what \in Facets
  PROVE  IsFiniteSet(FacetPairs(db, q)) /\ \A p \in FacetPairs(db, q) : p[1] \in Int
<1> DEFINE severe == {l \in db.logs : l.severity # None}
           f == [s \in db.spans |-> <<s.service, s.trace>>]
           g == [l \in db.logs |-> <<l.service, l.id>>]
           h == [t \in DOMAIN db.traces |-> <<db.traces[t].operation, t>>]
           i == [l \in severe |-> <<l.severity, l.id>>]
           j == [r \in db.spanIndex |-> <<r.key, r>>]
           k == [r \in db.spanIndex |-> <<r.value, r>>]
           A == {f[x] : x \in DOMAIN f}
           B == {g[x] : x \in DOMAIN g}
           C == {h[x] : x \in DOMAIN h}
           D == {i[x] : x \in DOMAIN i}
           E == {j[x] : x \in DOMAIN j}
           F == {k[x] : x \in DOMAIN k}
<1>1. /\ IsFiniteSet(db.spans) /\ IsFiniteSet(db.logs) /\ IsFiniteSet(DOMAIN db.traces)
      /\ IsFiniteSet(severe) /\ IsFiniteSet(db.spanIndex)
  <2>1. severe \in SUBSET db.logs
    OBVIOUS
  <2> QED BY <2>1, TraceTimes, SpanIndexFinite, FS_Subset DEF Typed
<1>2. /\ IsFiniteSet(A) /\ IsFiniteSet(B) /\ IsFiniteSet(C)
      /\ IsFiniteSet(D) /\ IsFiniteSet(E) /\ IsFiniteSet(F)
  <2>1. /\ IsFiniteSet(DOMAIN f) /\ IsFiniteSet(DOMAIN g) /\ IsFiniteSet(DOMAIN h)
        /\ IsFiniteSet(DOMAIN i) /\ IsFiniteSet(DOMAIN j) /\ IsFiniteSet(DOMAIN k)
    BY <1>1
  <2> HIDE DEF f, g, h, i, j, k, severe
  <2> QED BY <2>1, FiniteRange
<1>3. /\ \A p \in A : p[1] \in Int
      /\ \A p \in B : p[1] \in Int
      /\ \A p \in D : p[1] \in Int
  <2>1. /\ \A s \in db.spans : s.service \in Int
        /\ \A l \in db.logs : l.service \in Int
        /\ \A l \in severe : l.severity \in Int
    BY RecordFields
  <2>2. /\ \A s \in db.spans : f[s][1] \in Int
        /\ \A l \in db.logs : g[l][1] \in Int
        /\ \A l \in severe : i[l][1] \in Int
    BY <2>1
  <2>3. DOMAIN f = db.spans /\ DOMAIN g = db.logs /\ DOMAIN i = severe
    OBVIOUS
  <2> HIDE DEF f, g, i, severe
  <2> QED BY <2>2, <2>3
<1>4. \A p \in C : p[1] \in Int
  <2>1. \A t \in DOMAIN db.traces : db.traces[t].operation \in Int
    BY TraceFields
  <2>2. \A t \in DOMAIN db.traces : h[t][1] \in Int
    BY <2>1
  <2>3. DOMAIN h = DOMAIN db.traces
    OBVIOUS
  <2> HIDE DEF h
  <2> QED BY <2>2, <2>3
<1>5. /\ \A p \in E : p[1] \in Int
      /\ \A p \in F : p[1] \in Int
  <2>1. \A r \in db.spanIndex : r.key \in Int /\ r.value \in Int
    BY SpanIndexFinite
  <2>2. \A r \in db.spanIndex : j[r][1] \in Int /\ k[r][1] \in Int
    BY <2>1
  <2>3. DOMAIN j = db.spanIndex /\ DOMAIN k = db.spanIndex
    OBVIOUS
  <2> HIDE DEF j, k
  <2> QED BY <2>2, <2>3
<1>6. /\ q.what = "trace services" => FacetPairs(db, q) \in SUBSET A
      /\ q.what = "log services" => FacetPairs(db, q) \in SUBSET B
      /\ q.what = "operations" => FacetPairs(db, q) \in SUBSET C
      /\ q.what = "severities" => FacetPairs(db, q) \in SUBSET D
      /\ q.what = "keys" => FacetPairs(db, q) \in SUBSET E
      /\ q.what = "values" => FacetPairs(db, q) \in SUBSET F
  BY DEF FacetPairs
<1> HIDE DEF A, B, C, D, E, F
<1> QED BY <1>2, <1>3, <1>4, <1>5, <1>6, FS_Subset DEF Facets

\* The groups of a facet are rows, one of each value.
LEMMA GroupedListed ==
  ASSUME NEW pairs, IsFiniteSet(pairs), \A p \in pairs : p[1] \in Int
  PROVE  Listed(Grouped(pairs), "ranked")
<1> DEFINE count(v) == Cardinality({p \in pairs : p[1] = v})
           f == [p \in pairs |-> [id |-> p[1], key |-> count(p[1])]]
           T == {f[p] : p \in DOMAIN f}
<1>1. Grouped(pairs) = T
  BY DEF Grouped
<1>2. \A v : count(v) \in Int
  <2> TAKE v
  <2>1. {p \in pairs : p[1] = v} \in SUBSET pairs
    OBVIOUS
  <2>2. IsFiniteSet({p \in pairs : p[1] = v})
    BY <2>1, FS_Subset
  <2> QED BY <2>2, FS_CardinalityType
<1> HIDE DEF count
<1>3. IsFiniteSet(T)
  <2>1. IsFiniteSet(DOMAIN f)
    OBVIOUS
  <2> HIDE DEF f
  <2> QED BY <2>1, FiniteRange
<1>4. T \subseteq ListedRows("ranked")
  <2> SUFFICES ASSUME NEW p \in pairs PROVE f[p] \in ListedRows("ranked")
    OBVIOUS
  <2>1. f[p] = [id |-> p[1], key |-> count(p[1])] /\ p[1] \in Int /\ count(p[1]) \in Int
    BY <1>2
  <2> QED BY <2>1, ListingAssumption DEF ListedRows
<1>5. \A r, s \in T : r.id = s.id => r = s
  OBVIOUS
<1> QED BY <1>1, <1>3, <1>4, <1>5 DEF Listed, Sorts

\* A row with these is one its order is of.
LEMMA RowListed ==
  ASSUME NEW sort, NEW i \in Int, NEW k,
         IF sort = "slowest" THEN k \in Nat \cup {None} ELSE k \in Int
  PROVE  [id |-> i, key |-> k] \in ListedRows(sort)
<1>1. None \notin Int
  BY ListingAssumption
<1>2. [id |-> i, key |-> k] \in [id : Int, key : Int \cup {None}]
  OBVIOUS
<1> QED BY <1>1, <1>2 DEF ListedRows

\* Traces are rows in each of their orders; a duration is no row's key unless it is missing
\* or not below zero.
LEMMA TracesListed ==
  ASSUME NEW db, Sound(db), Typed(db), Recorded(db), NEW q, q.sort \in {"newest", "oldest", "slowest"},
         q.sort = "slowest" => EndsAfterStarts(TraceBatches)
  PROVE  Listed(TraceRows(db, q), q.sort)
<1> DEFINE f == [t \in DOMAIN db.traces |->
                   [id |-> t, key |-> IF q.sort = "slowest" THEN db.traces[t].duration ELSE db.traces[t].start]]
           T == {f[t] : t \in DOMAIN f}
<1>1. TraceRows(db, q) \in SUBSET T
  BY DEF TraceRows
<1>2. IsFiniteSet(T)
  <2>1. IsFiniteSet(DOMAIN f)
    BY TraceTimes
  <2> HIDE DEF f
  <2> QED BY <2>1, FiniteRange
<1>3. T \subseteq ListedRows(q.sort)
  <2> SUFFICES ASSUME NEW t \in DOMAIN db.traces PROVE f[t] \in ListedRows(q.sort)
    OBVIOUS
  <2> DEFINE row == db.traces[t]
  <2>1. /\ t \in Int /\ row.start \in Int
        /\ EndsAfterStarts(TraceBatches) => row.duration = None \/ row.duration \in Nat
    BY TraceTimes, TraceFields
  <2>2. f[t] = [id |-> t, key |-> IF q.sort = "slowest" THEN row.duration ELSE row.start]
    OBVIOUS
  <2>3. q.sort = "slowest" => row.duration \in Nat \cup {None}
    BY <2>1
  <2> HIDE DEF f, row
  <2>4. CASE q.sort = "slowest"
    <3>1. f[t] = [id |-> t, key |-> row.duration] /\ row.duration \in Nat \cup {None}
      BY <2>2, <2>3, <2>4
    <3>2. [id |-> t, key |-> row.duration] \in ListedRows(q.sort)
      BY <2>1, <2>4, <3>1, RowListed
    <3> QED BY <3>1, <3>2
  <2>5. CASE q.sort # "slowest"
    <3>1. f[t] = [id |-> t, key |-> row.start] /\ row.start \in Int
      BY <2>1, <2>2, <2>5
    <3>2. [id |-> t, key |-> row.start] \in ListedRows(q.sort)
      BY <2>1, <2>5, <3>1, RowListed
    <3> QED BY <3>1, <3>2
  <2> QED BY <2>4, <2>5
<1>4. \A r, s \in T : r.id = s.id => r = s
  <2>1. DOMAIN f = DOMAIN db.traces /\ \A t \in DOMAIN db.traces : f[t].id = t
    OBVIOUS
  <2> HIDE DEF f
  <2> QED BY <2>1
<1> HIDE DEF T
<1> QED BY <1>1, <1>2, <1>3, <1>4, FS_Subset DEF Listed, Sorts

\* So are logs.
LEMMA LogsListed ==
  ASSUME NEW db, Typed(db), NEW sort \in {"newest", "oldest"},
         NEW rows \in SUBSET {[id |-> l.id, key |-> l.start] : l \in db.logs}
  PROVE  Listed(rows, sort)
<1> DEFINE f == [l \in db.logs |-> [id |-> l.id, key |-> l.start]]
           T == {f[l] : l \in DOMAIN f}
<1>1. rows \in SUBSET T
  OBVIOUS
<1>2. IsFiniteSet(T)
  <2>1. IsFiniteSet(DOMAIN f)
    BY DEF Typed
  <2> HIDE DEF f
  <2> QED BY <2>1, FiniteRange
<1>3. T \subseteq ListedRows(sort)
  <2> SUFFICES ASSUME NEW l \in db.logs PROVE f[l] \in ListedRows(sort)
    OBVIOUS
  <2>1. l.id \in Int /\ l.start \in Int
    BY DEF Typed
  <2> QED BY <2>1, ListingAssumption DEF ListedRows
<1>4. \A r, s \in T : r.id = s.id => r = s
  <2>1. DOMAIN f = db.logs /\ \A l \in db.logs : f[l].id = l.id
    OBVIOUS
  <2>2. \A l, m \in db.logs : l.id = m.id => l = m
    BY DEF Typed
  <2> HIDE DEF f
  <2> QED BY <2>1, <2>2
<1> HIDE DEF T
<1> QED BY <1>1, <1>2, <1>3, <1>4, FS_Subset DEF Listed, Sorts

\* So are Services, by when they were last seen.
LEMMA ServicesListed ==
  ASSUME NEW db, Typed(db), Recorded(db), NEW q
  PROVE  Listed(ServiceRows(db, q), "ranked")
<1> DEFINE seen == {x \in db.spans \cup db.logs : InRange(x.start, q)}
           f == [r \in seen |-> [service |-> r.service, at |-> r.start]]
           observed == {f[r] : r \in DOMAIN f}
           g == [o \in observed |-> o.at]
           times(k) == {o.at : o \in {p \in observed : p.service = k}}
           h == [o \in observed |-> [id |-> o.service, key |-> Greatest(times(o.service))]]
           T == {h[o] : o \in DOMAIN h}
<1>1. ServiceRows(db, q) \in SUBSET T
  <2>1. observed = {[service |-> r.service, at |-> r.start] : r \in seen}
    OBVIOUS
  <2>2. ServiceRows(db, q) = {[id |-> k, key |-> Greatest(times(k))]
                                : k \in {o.service : o \in observed} \cap DOMAIN db.services}
    BY <2>1 DEF ServiceRows
  <2> HIDE DEF observed, times
  <2> QED BY <2>2
<1>2. IsFiniteSet(observed)
  <2>1. IsFiniteSet(db.spans \cup db.logs) /\ seen \in SUBSET (db.spans \cup db.logs)
    BY FS_Union DEF Typed
  <2>2. IsFiniteSet(DOMAIN f)
    BY <2>1, FS_Subset
  <2> HIDE DEF f
  <2> QED BY <2>2, FiniteRange
<1>3. \A o \in observed : o.service \in Int /\ o.at \in Int
  <2>1. \A r \in seen : r.service \in Int /\ r.start \in Int
    BY RecordFields
  <2> HIDE DEF seen
  <2> QED BY <2>1
<1> HIDE DEF observed
<1>4. ASSUME NEW o \in observed PROVE h[o] \in ListedRows("ranked")
  <2> DEFINE some == {p \in observed : p.service = o.service}
             e == [p \in some |-> p.at]
             t == {e[p] : p \in DOMAIN e}
  <2>1. some \in SUBSET observed /\ o \in some
    OBVIOUS
  <2>2. IsFiniteSet(DOMAIN e)
    BY <1>2, <2>1, FS_Subset
  <2>3. IsFiniteSet(t)
    <3> HIDE DEF e
    <3> QED BY <2>2, FiniteRange
  <2>4. t = times(o.service) /\ t \subseteq Int /\ t # {}
    BY <1>3, <2>1
  <2> HIDE DEF t, times
  <2>5. Greatest(times(o.service)) \in Int
    BY <2>3, <2>4, EnclosingTimes
  <2>6. h[o] = [id |-> o.service, key |-> Greatest(times(o.service))]
    OBVIOUS
  <2> QED BY <1>3, <2>5, <2>6, ListingAssumption DEF ListedRows
<1>5. IsFiniteSet(T)
  <2>1. IsFiniteSet(DOMAIN h)
    BY <1>2
  <2> HIDE DEF h
  <2> QED BY <2>1, FiniteRange
<1>6. T \subseteq ListedRows("ranked")
  <2>1. DOMAIN h = observed
    OBVIOUS
  <2> HIDE DEF h
  <2> QED BY <1>4, <2>1
<1>7. \A r, s \in T : r.id = s.id => r = s
  <2> HIDE DEF times
  <2> QED OBVIOUS
<1> HIDE DEF T
<1> QED BY <1>1, <1>5, <1>6, <1>7, FS_Subset DEF Listed, Sorts

\* Whatever a client may page through, the rows are those of its order.
LEMMA RowsListed ==
  ASSUME DurationsNatural, NEW db, Sound(db), Typed(db), Recorded(db), NEW q \in Listings
  PROVE  Listed(Rows(db, q), q.sort)
<1>1. q.what \in {"traces", "logs", "trace logs", "services"} \cup Facets /\ q.sort \in OrdersOf(q.what)
  BY ListingAssumption
<1>2. CASE q.what = "traces"
  <2>1. q.sort \in {"newest", "oldest", "slowest"}
    BY <1>1, <1>2 DEF OrdersOf
  <2>2. Rows(db, q) = TraceRows(db, q)
    BY <1>2 DEF Rows, Facets
  <2> QED BY <2>1, <2>2, TracesListed DEF DurationsNatural
<1>3. CASE q.what = "logs"
  <2>1. q.sort \in {"newest", "oldest"}
    BY <1>1, <1>3 DEF OrdersOf
  <2>2. Rows(db, q) = LogRows(db, q)
    BY <1>3 DEF Rows, Facets
  <2>3. LogRows(db, q) \in SUBSET {[id |-> l.id, key |-> l.start] : l \in db.logs}
    BY DEF LogRows
  <2> QED BY <2>1, <2>2, <2>3, LogsListed
<1>4. CASE q.what = "trace logs"
  <2>1. q.sort \in {"newest", "oldest"}
    BY <1>1, <1>4 DEF OrdersOf
  <2>2. Rows(db, q) = TraceLogRows(db, q)
    BY <1>4 DEF Rows, Facets
  <2>3. TraceLogRows(db, q) \in SUBSET {[id |-> l.id, key |-> l.start] : l \in db.logs}
    BY DEF TraceLogRows
  <2> QED BY <2>1, <2>2, <2>3, LogsListed
<1>5. CASE q.what = "services"
  <2>1. q.sort = "ranked" /\ Rows(db, q) = ServiceRows(db, q)
    BY <1>1, <1>5 DEF OrdersOf, Rows, Facets
  <2> QED BY <2>1, ServicesListed
<1>6. CASE q.what \in Facets
  <2>1. q.sort = "ranked" /\ Rows(db, q) = Grouped(FacetPairs(db, q))
    BY <1>1, <1>6 DEF OrdersOf, Rows, Facets
  <2> QED BY <1>6, <2>1, FacetsFinite, GroupedListed
<1> QED BY <1>1, <1>2, <1>3, <1>4, <1>5, <1>6

-----------------------------------------------------------------------------
(* Page sequences.                                                          *)

\* Pages are put together.
LEMMA PagesJoined ==
  ASSUME NEW a \in Seq(Int), NEW b \in Seq(Int), NEW r
  PROVE  /\ a \o b \in Seq(Int)
         /\ Len(a \o b) = Len(a) + Len(b)
         /\ Once(a, r) /\ Never(b, r) => Once(a \o b, r)
         /\ Never(a, r) /\ Once(b, r) => Once(a \o b, r)
         /\ Never(a, r) /\ Never(b, r) => Never(a \o b, r)
<1> DEFINE ab == a \o b
           m == Len(a)
           n == Len(b)
           x == r.id
           OneOf(ids, k) == \E i \in 1..k : ids[i] = x /\ \A j \in 1..k : ids[j] = x => j = i
           NoneOf(ids, k) == \A i \in 1..k : ids[i] # x
<1>1. /\ m \in Nat /\ n \in Nat /\ DOMAIN a = 1..m /\ DOMAIN b = 1..n
      /\ ab \in Seq(Int) /\ Len(ab) = m + n /\ DOMAIN ab = 1..(m + n)
  OBVIOUS
<1>2. /\ \A i \in 1..m : ab[i] = a[i]
      /\ \A i \in (m + 1)..(m + n) : ab[i] = b[i - m] /\ i - m \in 1..n
      /\ \A i \in 1..n : m + i \in (m + 1)..(m + n) /\ ab[m + i] = b[i]
  OBVIOUS
<1>3. /\ Once(a, r) <=> OneOf(a, m)
      /\ Once(b, r) <=> OneOf(b, n)
      /\ Once(ab, r) <=> OneOf(ab, m + n)
      /\ Never(a, r) <=> NoneOf(a, m)
      /\ Never(b, r) <=> NoneOf(b, n)
      /\ Never(ab, r) <=> NoneOf(ab, m + n)
  <2> HIDE DEF m, n, ab, x
  <2>1. ASSUME NEW ids, NEW k, DOMAIN ids = 1..k
        PROVE  (Once(ids, r) <=> OneOf(ids, k)) /\ (Never(ids, r) <=> NoneOf(ids, k))
    BY <2>1 DEF Once, Never, x
  <2> QED BY <1>1, <2>1
<1> HIDE DEF ab, m, n, x
<1>4. \A i \in 1..(m + n) : i \in 1..m \/ i \in (m + 1)..(m + n)
  BY <1>1
<1>5. ASSUME OneOf(a, m), NoneOf(b, n) PROVE OneOf(ab, m + n)
  <2>1. PICK i \in 1..m : a[i] = x /\ \A j \in 1..m : a[j] = x => j = i
    BY <1>5
  <2>2. i \in 1..(m + n) /\ ab[i] = x
    BY <1>1, <1>2, <2>1
  <2>3. \A j \in 1..(m + n) : ab[j] = x => j = i
    BY <1>2, <1>4, <1>5, <2>1
  <2> QED BY <2>2, <2>3
<1>6. ASSUME NoneOf(a, m), OneOf(b, n) PROVE OneOf(ab, m + n)
  <2>1. PICK i \in 1..n : b[i] = x /\ \A j \in 1..n : b[j] = x => j = i
    BY <1>6
  <2>2. m + i \in 1..(m + n) /\ ab[m + i] = x
    BY <1>1, <1>2, <2>1
  <2>3. ASSUME NEW j \in 1..(m + n), ab[j] = x PROVE j = m + i
    <3>1. j \in (m + 1)..(m + n)
      BY <1>2, <1>4, <1>6, <2>3
    <3>2. j - m \in 1..n /\ b[j - m] = x
      BY <1>2, <2>3, <3>1
    <3>3. j - m = i
      BY <2>1, <3>2
    <3> QED BY <1>1, <3>1, <3>3
  <2> QED BY <2>2, <2>3
<1>7. ASSUME NoneOf(a, m), NoneOf(b, n) PROVE NoneOf(ab, m + n)
  BY <1>2, <1>4, <1>7
<1> QED BY <1>1, <1>3, <1>5, <1>6, <1>7 DEF ab, m, n

\* How often an id is among the ids.
LEMMA OnceCounted ==
  ASSUME NEW ids, NEW r
  PROVE  /\ Once(ids, r) => Cardinality({i \in DOMAIN ids : ids[i] = r.id}) = 1
         /\ Never(ids, r) => Cardinality({i \in DOMAIN ids : ids[i] = r.id}) = 0
<1>1. ASSUME Once(ids, r) PROVE Cardinality({i \in DOMAIN ids : ids[i] = r.id}) = 1
  <2>1. PICK i \in DOMAIN ids : ids[i] = r.id /\ \A j \in DOMAIN ids : ids[j] = r.id => j = i
    BY <1>1 DEF Once
  <2>2. {j \in DOMAIN ids : ids[j] = r.id} = {i}
    BY <2>1
  <2> QED BY <2>2, FS_Singleton
<1>2. ASSUME Never(ids, r) PROVE Cardinality({i \in DOMAIN ids : ids[i] = r.id}) = 0
  <2>1. {j \in DOMAIN ids : ids[j] = r.id} = {}
    BY <1>2 DEF Never
  <2> QED BY <2>1, FS_EmptySet
<1> QED BY <1>1, <1>2

\* The pages have passed a row.
Passed(q, c, ids, r) ==
  \/ c = None /\ ids # <<>>
  \/ c # None /\ ~AfterCursor(r, c, q.sort)

\* Each row of some is on the pages once, or on none, as they have passed it or not.
Exact(q, c, ids, some) ==
  \A r \in some : IF Passed(q, c, ids, r) THEN Once(ids, r) ELSE Never(ids, r)

\* A cursor is that of a row, though it may have gone.
CursorOf(q, c) == \E r \in ListedRows(q.sort), n \in Nat : c = NextCursor(r, q, n)

\* One page more: what was exact stays exact.
LEMMA PageExact ==
  ASSUME NEW db, NEW q, Listed(Rows(db, q), q.sort), NEW n \in Nat \ {0}, NEW ids \in Seq(Int),
         NEW c, c # None => CursorOf(q, c), c = None => ids = <<>>,
         NEW some, some \subseteq Rows(db, q), Exact(q, c, ids, some)
  PROVE  LET page == Page(db, q, c, n)
         IN  /\ ids \o page.ids \in Seq(Int)
             /\ page.next # None => CursorOf(q, page.next)
             /\ Exact(q, page.next, ids \o page.ids, some)
<1> DEFINE page == Page(db, q, c, n)
           left == Left(db, q, c)
           all == ids \o page.ids
           sort == q.sort
<1>1. /\ page.ids \in Seq(Int)
      /\ \E T \in SUBSET left :
           /\ \A r \in T : Once(page.ids, r)
           /\ \A r \in Rows(db, q) \ T : Never(page.ids, r)
           /\ \/ page.next = None /\ T = left
              \/ \E m \in left : page.next = NextCursor(m, q, n) /\ T = {r \in left : ~ListedBefore(m, r, sort)}
  BY PageRows, ZenonT(60)
<1>2. \A r \in Rows(db, q) : r \in left <=> c = None \/ AfterCursor(r, c, sort)
  BY DEF Left
<1>3. left \subseteq Rows(db, q) /\ Rows(db, q) \subseteq ListedRows(sort) /\ sort \in Sorts
  BY DEF Left, Listed
<1> HIDE DEF page, left, sort
<1>4. PICK T \in SUBSET left :
        /\ \A r \in T : Once(page.ids, r)
        /\ \A r \in Rows(db, q) \ T : Never(page.ids, r)
        /\ \/ page.next = None /\ T = left
           \/ \E m \in left : page.next = NextCursor(m, q, n) /\ T = {r \in left : ~ListedBefore(m, r, sort)}
  BY <1>1
<1>5. \A r \in some : Passed(q, c, ids, r) <=> r \notin left
  BY <1>2 DEF Passed, sort
<1>6. \A r \in some : IF r \in left THEN Never(ids, r) ELSE Once(ids, r)
  BY <1>5 DEF Exact
<1>7. all \in Seq(Int)
  BY <1>1
<1>8. ASSUME NEW r \in some
      PROVE  IF r \in left /\ r \notin T THEN Never(all, r) ELSE Once(all, r)
  BY <1>1, <1>4, <1>6, PagesJoined
<1>9. \A r : Once(all, r) => all # <<>>
  BY DEF Once
<1> HIDE DEF all
<1>10. CASE page.next = None /\ T = left
  <2>1. \A r \in some : Once(all, r) /\ all # <<>>
    BY <1>8, <1>9, <1>10
  <2> QED BY <1>7, <1>10, <2>1 DEF Exact, Passed, page, all
<1>11. ASSUME NEW m \in left, page.next = NextCursor(m, q, n), T = {r \in left : ~ListedBefore(m, r, sort)}
       PROVE  /\ page.next # None /\ CursorOf(q, page.next)
              /\ Exact(q, page.next, all, some)
  <2>1. m \in ListedRows(sort) /\ n \in Nat
    BY <1>3
  <2>2. CursorOf(q, page.next)
    BY <1>11, <2>1 DEF CursorOf, sort
  <2>3. page.next # None
    <3>1. m.id \in Int /\ KeyOf(m, sort) \in Int
      BY <2>1 DEF ListedRows, KeyOf
    <3>2. NextCursor(m, q, n) \in Cursors
      BY <3>1 DEF NextCursor, Cursors, sort
    <3> QED BY <1>11, <3>2, ListingAssumption
  <2>4. ASSUME NEW r \in some PROVE ~AfterCursor(r, page.next, sort) <=> (r \notin left \/ r \in T)
    <3>1. r \in Rows(db, q) /\ r \in ListedRows(sort)
      BY <1>3
    <3>2. AfterCursor(r, page.next, sort) <=> ListedBefore(m, r, sort)
      BY <1>3, <1>11, <2>1, <3>1, ListingOrder DEF sort
    <3>3. CASE r \in left
      BY <1>11, <3>2, <3>3
    <3>4. CASE r \notin left
      <4>1. c # None /\ ~AfterCursor(r, c, sort) /\ AfterCursor(m, c, sort)
        BY <1>2, <1>3, <3>1, <3>4
      <4>2. PICK e \in ListedRows(sort), k \in Nat : c = NextCursor(e, q, k)
        BY <4>1 DEF CursorOf, sort
      <4>3. ~ListedBefore(e, r, sort) /\ ListedBefore(e, m, sort)
        BY <1>3, <2>1, <3>1, <4>1, <4>2, ListingOrder DEF sort
      <4>4. ~ListedBefore(m, r, sort)
        BY <1>3, <2>1, <3>1, <4>3, ListingOrder
      <4> QED BY <3>2, <3>4, <4>4
    <3> QED BY <3>3, <3>4
  <2>5. Exact(q, page.next, all, some)
    BY <1>8, <2>3, <2>4 DEF Exact, Passed, sort
  <2> QED BY <2>2, <2>3, <2>5
<1> QED BY <1>4, <1>7, <1>10, <1>11 DEF page, all, sort

\* What a client has of the pages, and its rows, at any moment.
Paging(db, q, state, c, ids, some) ==
  /\ state \in {"idle", "reading", "done", "failed", "missing"}
  /\ state = "idle" => c = None /\ ids = <<>> /\ some = {}
  /\ state # "idle" => q \in Listings
  /\ state = "reading" => Len(ids) < MaxResults /\ (c = None => ids = <<>>)
  /\ c # None => CursorOf(q, c)
  /\ ids \in Seq(Int) /\ some \subseteq Rows(db, q)
  /\ state \in {"reading", "done"} => Exact(q, c, ids, some)

\* The invariant, which a step is shown to keep for the operators of its new state.
PagingInv == Paging(store, listing, reading, cursor, got, steady)

LEMMA PagingStep ==
  ASSUME DurationsNatural, Sound(store), Typed(store), Recorded(store), PagingInv, [Next]_vars
  PROVE  Paging(store', listing', reading', cursor', got', steady')
<1>1. CASE StoreStep
  <2>1. steady' \subseteq Rows(store', listing) /\ steady' \subseteq steady
    BY <1>1 DEF StoreStep
  <2>2. UNCHANGED <<listing, reading, cursor, got>>
    BY <1>1 DEF StoreStep
  <2>3. Exact(listing, cursor, got, steady) => Exact(listing, cursor, got, steady')
    BY <2>1 DEF Exact
  <2> QED BY <2>1, <2>2, <2>3 DEF PagingInv, Paging
<1>2. ASSUME NEW which \in Listings, StartPaging(which)
      PROVE  Paging(store', listing', reading', cursor', got', steady')
  <2>1. /\ store' = store /\ listing' = which /\ reading' = "reading"
        /\ cursor' = None /\ got' = <<>> /\ steady' = Rows(store, which)
    BY <1>2 DEF StartPaging, storeVars, PagingInv, Paging
  <2>2. Exact(which, None, <<>>, Rows(store, which))
    BY DEF Exact, Passed, Never
  <2>3. Len(<<>>) < MaxResults /\ <<>> \in Seq(Int)
    BY PagingAssumption
  <2> QED BY <2>1, <2>2, <2>3 DEF Paging
<1>3. CASE ReadPage
  <2>1. /\ reading = "reading" /\ store' = store /\ listing' = listing /\ steady' = steady
        /\ listing \in Listings /\ got \in Seq(Int) /\ Len(got) < MaxResults
        /\ (cursor = None => got = <<>>) /\ (cursor # None => CursorOf(listing, cursor))
        /\ steady \subseteq Rows(store, listing) /\ Exact(listing, cursor, got, steady)
    BY <1>3 DEF ReadPage, storeVars, PagingInv, Paging
  <2>2. CASE CursorAccepted(cursor, NextLimit) /\ Found(store, listing)
    <3> DEFINE page == Page(store, listing, cursor, NextLimit)
    <3>1. NextLimit \in Nat \ {0}
      <4>1. Len(got) \in Nat
        BY <2>1
      <4> QED BY <2>1, <4>1, PagingAssumption DEF NextLimit
    <3>2. Listed(Rows(store, listing), listing.sort)
      BY <2>1, RowsListed
    <3>3. /\ got \o page.ids \in Seq(Int)
          /\ page.next # None => CursorOf(listing, page.next)
          /\ Exact(listing, page.next, got \o page.ids, steady)
      BY <2>1, <3>1, <3>2, PageExact
    <3>4. /\ got' = got \o page.ids /\ cursor' = page.next
          /\ reading' = IF page.next = None \/ Len(got') >= MaxResults THEN "done" ELSE "reading"
      BY <1>3, <2>2 DEF ReadPage
    <3> HIDE DEF page
    <3>5. reading' = "reading" => Len(got') < MaxResults /\ cursor' # None
      <4>1. Len(got') \in Nat
        BY <3>3, <3>4
      <4> QED BY <3>4, <4>1, PagingAssumption
    <3>6. reading' \in {"reading", "done"}
      BY <3>4
    <3> QED BY <2>1, <3>3, <3>4, <3>5, <3>6 DEF Paging
  <2>3. CASE ~(CursorAccepted(cursor, NextLimit) /\ Found(store, listing))
    <3>1. reading' \in {"failed", "missing"} /\ cursor' = cursor /\ got' = got
      BY <1>3, <2>3 DEF ReadPage
    <3> QED BY <2>1, <3>1 DEF Paging
  <2> QED BY <2>2, <2>3
<1>4. CASE UNCHANGED vars
  BY <1>4 DEF PagingInv, vars, storeVars
<1> QED BY <1>1, <1>2, <1>3, <1>4 DEF Next

\* Whatever is written, replaced, deleted or recovered between two pages, each row that has
\* not changed since the first page is on exactly one page once the pages have passed it and
\* on none before, provided no span that is listed by duration ends before it starts.
THEOREM PagesCorrect == DurationsNatural => (Spec => []PagesExact)
<1> SUFFICES ASSUME DurationsNatural PROVE Spec => []PagesExact
  OBVIOUS
<1>1. Init => PagingInv
  BY DEF Init, PagingInv, Paging
<1>2. TypedInv /\ Recorded(store) /\ PagingInv /\ [Next]_vars => PagingInv'
  <2> SUFFICES ASSUME TypedInv, Recorded(store), PagingInv, [Next]_vars PROVE PagingInv'
    OBVIOUS
  <2>1. Paging(store', listing', reading', cursor', got', steady')
    BY PagingStep DEF TypedInv
  <2>2. Rows(store, listing)' = Rows(store', listing')
    BY DEF Rows, TraceRows, LogRows, TraceLogRows, ServiceRows, Grouped, FacetPairs, TraceMatches, LogMatches,
           InRange, OfServices, Greatest
  <2> QED BY <2>1, <2>2 DEF PagingInv, Paging, Exact, Passed, Once, Never, AfterCursor, KeyOf, CursorOf, NextCursor,
                            ListedRows
<1>3. PagingInv => PagesExact
  <2> SUFFICES ASSUME PagingInv, reading \in {"reading", "done"}, NEW r \in steady
               PROVE  Cardinality({i \in DOMAIN got : got[i] = r.id}) = IF Passed(listing, cursor, got, r) THEN 1 ELSE 0
    BY DEF PagesExact, Passed
  <2>1. IF Passed(listing, cursor, got, r) THEN Once(got, r) ELSE Never(got, r)
    BY DEF PagingInv, Paging, Exact
  <2> QED BY <2>1, OnceCounted
<1> QED BY <1>1, <1>2, <1>3, StoreTyped, RecordsCorrect, PTL DEF Spec

=============================================================================
