--------------------------- MODULE TraceStructure ---------------------------
(***************************************************************************)
(* A trace as it is shown: the tree that getTrace lays out                 *)
(* (analyzeStructure and orderSpanTree of record-model.ts), the span that  *)
(* getSpan gives on its own from an ancestry it reads with SQL, and the    *)
(* waterfall the interface builds from the tree (buildTraceWaterfall of    *)
(* workspace/model.ts), in which spans can be collapsed.                   *)
(*                                                                         *)
(* SpanGraph says what these algorithms are meant to find; here they are   *)
(* as they run, over whatever parents the spans of a trace name: missing   *)
(* ones, themselves, each other.                                           *)
(***************************************************************************)
EXTENDS SpanGraph, Sequences, SequencesExt

CONSTANTS
  Traces,               \* the traces that may be opened, of spans and collapsed ids
  MaxTraceDetailSpans,  \* the spans of a trace that getTrace returns
  MaxAncestry           \* how many parents getSpan follows, 500 in the code

NoTrace  == [spans |-> {}, collapsed |-> {}]
NotShown == [pending |-> TRUE]

VARIABLES
  trace,  \* the trace that is opened, or NoTrace
  shown   \* its detail, its spans and its waterfall, NotShown before

traceVars == <<trace, shown>>

-----------------------------------------------------------------------------
SpanWithId(spans, id) == spans[CHOOSE i \in DOMAIN spans : spans[i].id = id]
IdSet(rows) == {rows[i].id : i \in DOMAIN rows}
Sorted(S)   == SetToSortSeq(S, Precedes)

\* The parent that byId has, None without one.
ParentOf(spans, s) == IF s.parent \in IdSet(spans) THEN s.parent ELSE None

ChildrenOf(spans, id) ==
  Sorted({s \in ToSet(spans) : s.id # id /\ ParentOf(spans, s) = id})

RootsOf(spans) == Sorted({s \in ToSet(spans) : ParentOf(spans, s) \in {None, s.id}})

RECURSIVE CycleAbove(_, _, _, _)
\* The walk up from a span: the ids on its path, and of them those that are on a cycle.
CycleAbove(spans, id, path, visited) ==
  IF id = None \/ id \in visited THEN [path |-> path, cycle |-> {}]
  ELSE IF \E i \in DOMAIN path : path[i] = id
       THEN [path |-> path, cycle |-> {path[j] : j \in {j \in DOMAIN path : \E i \in 1..j : path[i] = id}}]
       ELSE CycleAbove(spans, ParentOf(spans, SpanWithId(spans, id)), Append(path, id), visited)

\* The walk starts at each span in turn and stops where an earlier one has been.
CycleIds(spans) ==
  LET Walk(acc, s) == LET up == CycleAbove(spans, s.id, <<>>, acc.visited)
                      IN  [visited |-> acc.visited \cup ToSet(up.path), cycle |-> acc.cycle \cup up.cycle]
  IN  FoldLeft(Walk, [visited |-> {}, cycle |-> {}], spans).cycle

\* The warnings analyzeStructure gives to a span, with those the record has
StructureWarnings(spans, s) ==
  (IF s.end = None THEN {"running-span"} ELSE {})
    \cup (IF s.parent # None /\ ParentOf(spans, s) = None THEN {"missing-parent", "orphan-span"} ELSE {})
    \cup (IF ParentOf(spans, s) = s.id \/ s.id \in CycleIds(spans) THEN {"cycle"} ELSE {})
    \cup (IF Len(RootsOf(spans)) > 1 /\ s \in ToSet(RootsOf(spans)) THEN {"multiple-roots"} ELSE {})

RECURSIVE VisitSpan(_, _, _, _, _)
\* visit of orderSpanTree, rows being result and its ids visited
VisitSpan(spans, rows, s, ancestors, depth) ==
  IF s.id \in IdSet(rows) THEN rows
  ELSE LET here == Append(rows, [id |-> s.id, depth |-> depth, warnings |-> StructureWarnings(spans, s)])
       IN  IF s.id \in ancestors THEN here
           ELSE FoldLeft(LAMBDA r, c : VisitSpan(spans, r, c, ancestors \cup {s.id}, depth + 1),
                         here, ChildrenOf(spans, s.id))

OrderSpanTree(spans) ==
  FoldLeft(LAMBDA rows, s : VisitSpan(spans, rows, s, {}, 0), <<>>,
           RootsOf(spans) \o Sorted(ToSet(spans)))

\* getTrace: the first spans of the trace, as a tree
GetTrace(S) ==
  LET rows   == Sorted(S)
      parsed == SubSeq(rows, 1, IF Len(rows) > MaxTraceDetailSpans THEN MaxTraceDetailSpans ELSE Len(rows))
  IN  [spans |-> OrderSpanTree(parsed), spansTruncated |-> Len(rows) > MaxTraceDetailSpans]

-----------------------------------------------------------------------------
RECURSIVE AncestryWithoutPath(_, _, _, _)
AncestryWithoutPath(S, id, path, depth) ==  \* Mutant: the depth is the only limit
  LET parent == ParentIn(CHOOSE t \in S : t.id = id, S)
  IN  IF parent = None \/ depth >= MaxAncestry THEN [depth |-> depth, cycle |-> FALSE]
      ELSE AncestryWithoutPath(S, parent, path, depth + 1)

RECURSIVE Ancestry(_, _, _, _)
\* The recursive query of getSpan, from the row it has reached
Ancestry(S, id, path, depth) ==
  LET parent == ParentIn(CHOOSE t \in S : t.id = id, S)
  IN  IF parent = None \/ depth >= MaxAncestry THEN [depth |-> depth, cycle |-> FALSE]
      ELSE IF parent \in path THEN [depth |-> depth + 1, cycle |-> TRUE]
      ELSE Ancestry(S, parent, path \cup {parent}, depth + 1)

GetSpan(S, s) ==
  LET up           == Ancestry(S, s.id, {s.id}, 0)
      parentExists == s.parent = None \/ s.parent \in SpanIds(S)
      rootCount    == Cardinality({t \in S : t.parent = None \/ t.parent \notin SpanIds(S) \/ t.parent = t.id})
      root         == s.parent = None \/ ~parentExists \/ s.parent = s.id
  IN  [depth    |-> IF up.cycle THEN 0 ELSE up.depth,
       warnings |-> (IF s.end = None THEN {"running-span"} ELSE {})
                      \cup (IF ~parentExists THEN {"missing-parent", "orphan-span"} ELSE {})
                      \cup (IF up.cycle THEN {"cycle"} ELSE {})
                      \cup (IF root /\ rootCount > 1 THEN {"multiple-roots"} ELSE {})]

-----------------------------------------------------------------------------
Overflow == -1  \* a RangeError: the stack is exhausted

RECURSIVE DescendantCount(_, _, _)
\* descendantCount: without a visited set it never ends on a cycle (fuel stands for the stack)
DescendantCount(spans, id, fuel) ==
  LET Count(n, c) == LET below == DescendantCount(spans, c.id, fuel - 1)
                     IN  IF Overflow \in {n, below} THEN Overflow ELSE n + 1 + below
  IN  IF fuel = 0 THEN Overflow ELSE FoldLeft(Count, 0, ChildrenOf(spans, id))

MarkHiddenChildren(spans, visited, id) ==  \* Mutant: only the children are marked
  visited \cup IdSet(ChildrenOf(spans, id))

RECURSIVE MarkHidden(_, _, _)
MarkHidden(spans, visited, id) ==
  FoldLeft(LAMBDA v, c : IF c.id \in v THEN v ELSE MarkHidden(spans, v \cup {c.id}, c.id),
           visited, ChildrenOf(spans, id))

\* The warnings a node has before it is visited
NodeWarnings(spans, s) ==
  s.warnings \cup (IF s.end = None THEN {"running-span"} ELSE {})
    \cup (IF s.parent # None /\ ParentOf(spans, s) = None THEN {"missing-parent", "orphan-span"} ELSE {})
    \cup (IF ParentOf(spans, s) = s.id THEN {"cycle", "orphan-span"} ELSE {})
    \cup (IF Len(RootsOf(spans)) > 1 /\ s \in ToSet(RootsOf(spans)) THEN {"multiple-roots"} ELSE {})

RECURSIVE VisitNode(_, _, _, _, _, _)
\* visit of buildTraceWaterfall: state has the rows, the visited ids and whether it threw
VisitNode(spans, collapsed, state, s, depth, ancestors) ==
  LET hidden == DescendantCount(spans, s.id, Len(spans) + 1)
      row    == [id |-> s.id, depth |-> depth, hasChildren |-> ChildrenOf(spans, s.id) # <<>>,
                 hidden |-> IF s.id \in collapsed THEN hidden ELSE 0,
                 warnings |-> NodeWarnings(spans, s) \cup (IF s.id \in state.loose THEN {"cycle"} ELSE {})]
      here   == [state EXCEPT !.rows = Append(@, row), !.visited = @ \cup {s.id}]
  IN  IF s.id \in ancestors \/ state.threw THEN state
      ELSE IF s.id \in collapsed /\ hidden = Overflow THEN [state EXCEPT !.threw = TRUE]
      ELSE IF s.id \in collapsed THEN [here EXCEPT !.visited = MarkHidden(spans, @, s.id)]
      ELSE FoldLeft(LAMBDA st, c : VisitNode(spans, collapsed, st, c, depth + 1, ancestors \cup {s.id}),
                    here, ChildrenOf(spans, s.id))

\* buildTraceWaterfall: from the roots, then from each span not visited from them, on or below a cycle
BuildTraceWaterfall(spans, collapsed) ==
  LET Root(st, s)  == VisitNode(spans, collapsed, st, s, 0, {})
      Loose(st, s) == IF s.id \in st.visited THEN st
                      ELSE VisitNode(spans, collapsed, [st EXCEPT !.loose = @ \cup {s.id}], s, 0, {})
      start        == [rows |-> <<>>, visited |-> {}, loose |-> {}, threw |-> FALSE]
      state        == FoldLeft(Loose, FoldLeft(Root, start, RootsOf(spans)), Sorted(ToSet(spans)))
  IN  [rows |-> state.rows, threw |-> state.threw]

\* The spans of a detail, with the fields of their records
DetailSpans(S, detail) ==
  [i \in DOMAIN detail.spans |->
     LET s == CHOOSE s \in S : s.id = detail.spans[i].id
     IN  [id |-> s.id, parent |-> s.parent, start |-> s.start, end |-> s.end, warnings |-> detail.spans[i].warnings]]

TraceInit == trace \in Traces /\ shown = NotShown

OpenTrace ==
  /\ trace # NoTrace /\ shown = NotShown
  /\ LET detail == GetTrace(trace.spans)
     IN  shown' = [detail    |-> detail,
                   spans     |-> [s \in trace.spans |-> GetSpan(trace.spans, s)],
                   waterfall |-> BuildTraceWaterfall(DetailSpans(trace.spans, detail), trace.collapsed)]
  /\ UNCHANGED trace

-----------------------------------------------------------------------------
\* The spans that the detail shows, as a set of records.
Shown == {s \in trace.spans : \E i \in DOMAIN shown.detail.spans : shown.detail.spans[i].id = s.id}

Above(s, S)   == {AncestorOf(s, S)[n] : n \in 1..Cardinality(S)} \ {None}
Acyclic(S)    == \A s \in S : ~OnCycle(s, S)
Distance(s, S) == Cardinality(Above(s, S))

\* Rows in tree order: the row before one of depth d > 0 at which depth d - 1 was last
\* seen is its parent's.
TreeOrder(rows, S) ==
  \A i \in DOMAIN rows :
    IF rows[i].depth = 0 THEN TRUE
    ELSE \E j \in 1..i - 1 :
           /\ rows[j].depth = rows[i].depth - 1
           /\ \A k \in j + 1..i - 1 : rows[k].depth >= rows[i].depth
           /\ (CHOOSE s \in S : s.id = rows[i].id).parent = rows[j].id

\* The detail of a trace has the earliest spans, each of them once, below its parent and
\* at its distance from the root, with the warnings the graph calls for, whatever
\* cycles, orphans and roots there are (orderSpanTree); and when there is no cycle the
\* waterfall has the same tree, without the spans below a collapsed one, whose number
\* is right (buildTraceWaterfall).
TreeFaithful ==
  LET rows == shown.detail.spans
  IN  /\ Len(rows) = Cardinality(Shown)
      /\ \A s \in trace.spans \ Shown, t \in Shown : Precedes(t, s)
      /\ (trace.spans # Shown) <=> shown.detail.spansTruncated
      /\ TreeOrder(rows, Shown)
      /\ \A i \in DOMAIN rows :
           LET s == CHOOSE s \in Shown : s.id = rows[i].id
           IN  /\ rows[i].warnings = SpanWarnings(s, Shown)
               /\ Acyclic(Shown) => rows[i].depth = Distance(s, Shown)

WaterfallFaithful ==
  LET rows    == shown.waterfall.rows
      Open(s) == Above(s, Shown) \cap trace.collapsed = {}
  IN  Acyclic(Shown) =>
        /\ ~shown.waterfall.threw
        /\ IdSet(rows) = {s.id : s \in {s \in Shown : Open(s)}} /\ Len(rows) = Cardinality(IdSet(rows))
        /\ TreeOrder(rows, Shown)
        /\ \A i \in DOMAIN rows :
             LET s     == CHOOSE s \in Shown : s.id = rows[i].id
                 below == {t \in Shown : s.id \in Above(t, Shown)}
             IN  /\ rows[i].depth = Distance(s, Shown) /\ rows[i].hasChildren = (below # {})
                 /\ rows[i].hidden = IF s.id \in trace.collapsed THEN Cardinality(below) ELSE 0
                 /\ rows[i].warnings = SpanWarnings(s, Shown)

TraceFaithful == shown # NotShown => TreeFaithful /\ WaterfallFaithful

\* A span on its own says what it says in its trace when the trace is not truncated:
\* the same warnings unless it is below a cycle, the same depth unless it is on or
\* below one (getSpan computes both by SQL, getTrace in memory).
DetailsAgree ==
  shown # NotShown /\ ~shown.detail.spansTruncated =>
    \A i \in DOMAIN shown.detail.spans :
      LET s          == CHOOSE s \in Shown : s.id = shown.detail.spans[i].id
          alone      == shown.spans[s]
          belowCycle == \E t \in Shown : t.id \in Above(s, Shown) /\ OnCycle(t, Shown)
      IN  /\ OnCycle(s, Shown) \/ ~belowCycle => alone.warnings = shown.detail.spans[i].warnings
          /\ ~belowCycle => alone.depth = shown.detail.spans[i].depth

\* The waterfall shows every span of the detail that is not below a collapsed one, and
\* shows it once (docs/08: "Structural trace defects are warnings in the waterfall, not
\* reasons to hide telemetry").
WaterfallTotal ==
  shown # NotShown =>
    /\ ~shown.waterfall.threw
    /\ Len(shown.waterfall.rows) = Cardinality(IdSet(shown.waterfall.rows))

=============================================================================
