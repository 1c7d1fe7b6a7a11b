----------------------------- MODULE MCWorkbench -----------------------------
(***************************************************************************)
(* A small instance of the web renderer for TLC: two traces, a log of one  *)
(* of them and a log of none, two Services, one text, one attribute, three *)
(* moments, and a page opened plainly, at shared addresses or in a range   *)
(* that is not live.                                                       *)
(***************************************************************************)
EXTENDS WorkbenchProperties

CONSTANTS t1, t2, s1, s2, l1, l2, checkout, basket, words, key, value, errors

Spans == (t1 :> <<s1>>) @@ (t2 :> <<s2>>)

LogOfTrace == [id |-> l1, traceId |-> t1, spanId |-> s1]
LogOfNone == [id |-> l2, traceId |-> None, spanId |-> None]
LogSummaries == {LogOfTrace, LogOfNone}

ServiceChoices == {<<checkout>>, <<checkout, basket>>}
TraceEdits == {[sort |-> "slowest", text |-> words]}
LogEdits == {[sort |-> "oldest", only |-> errors]}
AttributeChoices == {[key |-> key, value |-> value]}

\* An address without parameters, and one that somebody shared: the logs of
\* a span or a trace, in a range of their own, with polling paused.
Plain ==
  [signal |-> "traces", from |-> None, to |-> None, sort |-> None, text |-> None, services |-> <<>>,
   attributes |-> <<>>, filterTrace |-> None, traceOnly |-> None, logOnly |-> None, filterSpan |-> None,
   trace |-> None, span |-> None, log |-> None, correlation |-> None, paused |-> FALSE, live |-> FALSE]
Shared ==
  [Plain EXCEPT !.signal = "logs", !.from = 1, !.to = 2, !.sort = "oldest", !.filterTrace = t1,
                !.filterSpan = s1, !.log = l1, !.correlation = "span", !.paused = TRUE, !.live = TRUE]
SharedTrace ==
  [Plain EXCEPT !.from = 0, !.to = 9, !.sort = "slowest", !.services = <<checkout>>, !.trace = t2,
                !.span = s1, !.paused = TRUE, !.live = TRUE]
Absolute == [Plain EXCEPT !.from = 3, !.to = 6, !.services = <<basket, checkout>>]
OpenedAt == {Plain, Shared, SharedTrace, Absolute}

ListedTraces == {{t2}, {t1, t2}}
ListedLogs == {{}, {l1, l2}}
=============================================================================
