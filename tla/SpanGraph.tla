------------------------------ MODULE SpanGraph ------------------------------
(***************************************************************************)
(* A trace as a graph of spans: what analyzeStructure of record-model.ts   *)
(* is meant to find in it, by sets and quantifiers (TraceStructure has the *)
(* algorithm), and the trace row materializeTrace of writer.ts derives.    *)
(*                                                                         *)
(* A span has an id, a parent id or None, a start, an end or None (still   *)
(* running), a service, a name and whether its status is an error.  Ids    *)
(* are numbers, so that localeCompare is <.                                *)
(***************************************************************************)
EXTENDS Integers, FiniteSets

CONSTANT None  \* an absent optional value

\* compareSpan
Precedes(s, t) == s.start < t.start \/ (s.start = t.start /\ s.id < t.id)

\* The span the code finds first in S, for a nonempty S.
EarliestSpan(S) == CHOOSE s \in S : \A t \in S \ {s} : Precedes(s, t)

SpanIds(S) == {s.id : s \in S}

\* The parent when the trace has it, else None.
ParentIn(s, S) == IF s.parent \in SpanIds(S) THEN s.parent ELSE None

\* A span with no parent, with a parent that is not here, or its own parent.
SpanRoots(S) == {s \in S : ParentIn(s, S) \in {None, s.id}}

\* The id reached from s by following n parents, None once there is none.
AncestorOf(s, S) ==
  LET Parent(i) == IF i = None THEN None ELSE ParentIn(CHOOSE t \in S : t.id = i, S)
      up[n \in 0..Cardinality(S)] == IF n = 0 THEN s.id ELSE Parent(up[n - 1])
  IN  up

OnCycle(s, S) == \E n \in 1..Cardinality(S) : AncestorOf(s, S)[n] = s.id

\* The warnings of one span, without multiple-roots.
OwnWarnings(s, S) ==
  (IF s.end = None THEN {"running-span"} ELSE {})
    \cup (IF s.parent # None /\ s.parent \notin SpanIds(S) THEN {"missing-parent", "orphan-span"} ELSE {})
    \cup (IF OnCycle(s, S) THEN {"cycle"} ELSE {})

SpanWarnings(s, S) ==
  OwnWarnings(s, S) \cup (IF s \in SpanRoots(S) /\ Cardinality(SpanRoots(S)) > 1 THEN {"multiple-roots"} ELSE {})

TraceWarnings(S) == UNION {SpanWarnings(s, S) : s \in S}

-----------------------------------------------------------------------------
Least(N)    == CHOOSE n \in N : \A m \in N : n <= m
Greatest(N) == CHOOSE n \in N : \A m \in N : m <= n

\* The row of a trace with the nonempty set S of spans.
TraceRow(S) ==
  LET start  == Least({s.start : s \in S})
      active == \E s \in S : s.end = None
      end    == IF active THEN None ELSE Greatest({s.end : s \in S})
      root   == EarliestSpan(IF SpanRoots(S) = {} THEN S ELSE SpanRoots(S))
  IN  [root |-> root.id, operation |-> root.name, start |-> start, end |-> end,
       duration |-> IF active THEN None ELSE end - start, active |-> active,
       count |-> Cardinality(S), errors |-> Cardinality({s \in S : s.error}),
       services |-> {s.service : s \in S}, warnings |-> TraceWarnings(S)]

=============================================================================
