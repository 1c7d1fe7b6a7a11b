------------------------------- MODULE MCStore -------------------------------
(***************************************************************************)
(* A small Telemetry Store for TLC: a trace whose root is exported twice,  *)
(* a child that starts before its root, an orphan in another trace and two *)
(* logs, over two Services.                                                *)
(***************************************************************************)
EXTENDS StoreProperties

Root ==
  [trace |-> 1, id |-> 1, parent |-> None, start |-> 2, end |-> None, service |-> 1, name |-> 1,
   error |-> FALSE, attributes |-> {<<1, 1>>}, refs |-> {<<"resource", 1>>, <<"scope", 1>>}]
RootEnded ==
  [Root EXCEPT !.end = 4, !.service = 2, !.attributes = {<<1, 2>>}, !.refs = {<<"resource", 2>>, <<"scope", 1>>}]
Child ==
  [Root EXCEPT !.id = 2, !.parent = 1, !.start = 1, !.end = 3, !.name = 2, !.error = TRUE,
               !.attributes = {<<2, 1>>}]
Orphan ==
  [Root EXCEPT !.trace = 2, !.id = 3, !.parent = 9, !.end = 3, !.service = 2,
               !.attributes = {<<1, 3>>, <<2, 1>>}, !.refs = {<<"resource", 2>>, <<"scope", 1>>}]
EarlyLog ==
  [trace |-> 1, span |-> 1, severity |-> 9, start |-> 1, service |-> 1, name |-> 3, attributes |-> {<<1, 1>>}, refs |-> {<<"resource", 1>>, <<"scope", 2>>}]
LateLog ==
  [EarlyLog EXCEPT !.trace = None, !.span = None, !.severity = None, !.start = 3, !.service = 2, !.attributes = {<<1, 2>>}]

Batches      == {<<Root>>, <<RootEnded, Orphan>>, <<Child, Orphan>>, <<Root, RootEnded>>}
LogSequences == {<<EarlyLog>>, <<LateLog, EarlyLog>>}

\* A trace that a clock set back ends before it starts, beside one that is running.
EndedEarly     == [Root EXCEPT !.start = 4, !.end = 2]
RunningBatches == {<<EndedEarly, [Orphan EXCEPT !.end = None]>>}

ASSUME EndsAfterStarts(Batches)

AllListings ==
  {Query("traces", "newest"), Query("traces", "slowest"), Query("services", "ranked"),
   Query("operations", "ranked"),
   [Query("traces", "oldest") EXCEPT !.status = "error", !.services = {1}, !.attribute = <<2, 1>>],
   [Query("logs", "oldest") EXCEPT !.text = <<1, 1>>, !.severity = 9],
   [Query("trace logs", "oldest") EXCEPT !.trace = 1]}

SlowestListings == {Query("traces", "slowest")}

\* More logs of the trace of Root than a page holds.
CorrelatedLogs == {<<EarlyLog, EarlyLog>>, <<EarlyLog, EarlyLog, EarlyLog>>}

\* What collectPages pages through to its maximum.
CollectedListings ==
  {Query("services", "ranked"), [Query("trace logs", "oldest") EXCEPT !.trace = 1]}

=============================================================================
