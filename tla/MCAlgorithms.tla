----------------------------- MODULE MCAlgorithms -----------------------------
(***************************************************************************)
(* Inputs for the pure algorithms: exports for the decoder, traces for the  *)
(* tree and the waterfall, environments and files for the configuration.   *)
(***************************************************************************)
EXTENDS OtlpProperties, TraceStructure, Configuration

Word(w) == <<"text", <<"word", w>>>>
Int1(n) == <<"int", n>>
Id(size, id) == [size |-> size, id |-> id]
Trace1 == <<"bytes", Id(16, 1)>>
Span1  == <<"bytes", Id(8, 1)>>

Attribute(key, value) == <<"message", [key |-> Word(key), value |-> <<"message", value>>]>>
Text1(w)     == [stringValue |-> Word(w)]
HexText(f, b) == [stringValue |-> <<"text", <<f, b>>>>]
ListOf(values) == [arrayValue |-> <<"message", [values |-> <<"list", values>>]>>]

\* One value of each type, the empty ones included, and one too deep.
Values ==
  <<Text1("w"), [stringValue |-> <<"text", EmptyText>>], [boolValue |-> <<"bool", FALSE>>], [intValue |-> Int1(0)],
    [doubleValue |-> Int1(2)], [bytesValue |-> <<"bytes", Id(4, 2)>>], [bytesValue |-> <<"bytes", EmptyBytes>>],
    NoMembers, ListOf(<<<<"message", Text1("w")>>>>),
    [kvlistValue |-> <<"message", [values |-> <<"list", <<Attribute("k", [intValue |-> Int1(3)])>>>>]>>]>>
TooDeep == ListOf(<<<<"message", ListOf(<<<<"message", Text1("w")>>>>)>>>>)

Plain ==
  [traceId |-> Trace1, spanId |-> Span1, name |-> Word("GET"), kind |-> Int1(2), startTimeUnixNano |-> Int1(1),
   endTimeUnixNano |-> Int1(4)]
Linked(link) == With(Plain, "links", <<"list", <<<<"message", link>>>>>>)

Spans ==
  {Plain, Without(Plain, {"endTimeUnixNano"}), Without(Plain, {"spanId"}),
   With(Plain, "traceId", <<"bytes", Id(16, 0)>>), With(Plain, "traceId", <<"bytes", Id(8, 1)>>),
   With(Plain, "parentSpanId", <<"bytes", Id(8, 2)>>), With(Plain, "parentSpanId", <<"bytes", Id(4, 2)>>),
   Linked([traceId |-> Trace1, spanId |-> <<"bytes", Id(8, 3)>>, flags |-> Int1(1)]), Linked([traceId |-> Trace1]),
   With(With(Plain, "status", <<"message", [message |-> Word("failed"), code |-> Int1(2)]>>), "flags", Int1(1)),
   With(With(Plain, "events", <<"list", <<<<"message", [name |-> Word("e"), timeUnixNano |-> Int1(2)]>>>>>>),
        "droppedEventsCount", Int1(3))}
  \cup {With(Plain, "attributes", <<"list", <<Attribute("k", Values[i]), Attribute("l", Values[1])>>>>)
          : i \in DOMAIN Values}
  \cup {With(Plain, "attributes", <<"list", <<Attribute("k", Values[1]), Attribute("k", Values[3])>>>>),
        With(Plain, "attributes", <<"list", <<Attribute("k", TooDeep)>>>>)}

Logs ==
  {[body |-> <<"message", Text1("hello")>>, severityNumber |-> Int1(9), timeUnixNano |-> Int1(2)],
   [traceId |-> Trace1, spanId |-> Span1, observedTimeUnixNano |-> Int1(3)],
   [traceId |-> <<"bytes", Id(3, 1)>>], [spanId |-> Span1],
   [attributes |-> <<"list", <<Attribute("trace_id", HexText("HEX", Id(16, 2))),
                              Attribute("spanId", HexText("hex", Id(8, 2)))>>>>],
   [attributes |-> <<"list", <<Attribute("traceId", HexText("hex", Id(16, 0))),
                              Attribute("span_id", HexText("hex", Id(8, 2)))>>>>],
   [traceId |-> Trace1, attributes |-> <<"list", <<Attribute("traceId", HexText("hex", Id(16, 2))),
                              Attribute("span_id", HexText("hex", Id(8, 2)))>>>>]}

ServiceResource ==
  <<"message", [attributes |-> <<"list", <<Attribute("service.name", Text1("shop")),
                                           Attribute("deployment.environment", Text1("test"))>>>>,
                droppedAttributesCount |-> Int1(1)]>>
ScopeMessage == <<"message", [name |-> Word("scope"), version |-> Word("1")]>>

\* Requests of one record, of two records of which the second may be wrong, and of none.
Messages1(items) == <<"list", [i \in DOMAIN items |-> <<"message", items[i]>>]>>
TraceRequest(spans) ==
  [resourceSpans |-> Messages1(<<[resource |-> ServiceResource,
     scopeSpans |-> Messages1(<<[scope |-> ScopeMessage, spans |-> Messages1(spans)]>>)]>>)]
LogRequest(logs) ==
  [resourceLogs |-> Messages1(<<[scopeLogs |-> Messages1(<<[logRecords |-> Messages1(logs)]>>)]>>)]

Requests ==
  {[signal |-> "traces", request |-> TraceRequest(<<s>>)] : s \in Spans}
    \cup {[signal |-> "traces", request |-> TraceRequest(<<Plain, s>>)] : s \in {Without(Plain, {"traceId"}), Plain}}
    \cup {[signal |-> "logs", request |-> LogRequest(<<l>>)] : l \in Logs}
    \cup {[signal |-> "logs", request |-> LogRequest(<<>>)], [signal |-> "traces", request |-> NoMembers]}

Styles ==
  {<<"application/x-protobuf", s>> : s \in {"plain", "reversed", "superseded", "mistyped", "split", "explicit", "unknown", "cut", "large"}}
    \cup {<<"application/json", s>> : s \in {"plain", "named", "explicit", "unknown", "misplaced", "corrupt"}}
    \cup {<<"text/plain", "plain">>}

AllExports == {[signal |-> r.signal, request |-> r.request, media |-> s[1], style |-> s[2]] : r \in Requests, s \in Styles}

\* Exports of a span whose kind or status code is none of the enums'.
UnknownEnums ==
  {[signal |-> "traces", request |-> TraceRequest(<<s>>), media |-> m, style |-> "plain"] :
     s \in {With(Plain, "kind", Int1(9)), With(Plain, "status", <<"message", [code |-> Int1(7)]>>)},
     m \in {"application/x-protobuf", "application/json"}}

-----------------------------------------------------------------------------
Span(id, parent, start, end) == [id |-> id, parent |-> parent, start |-> start, end |-> end]

\* Four spans with any parents, of which 5 is missing: the third starts first, the fourth
\* runs; five spans, one more than a detail has; three spans, any of them collapsed.
FourSpans == {{Span(i, p[i], IF i = 3 THEN 0 ELSE i, IF i = 4 THEN None ELSE 9) : i \in 1..4}
                : p \in [1..4 -> {None, 1, 2, 3, 4, 5}]}
FiveSpans == {{Span(i, p[i], IF i = 3 THEN 0 ELSE i, 9) : i \in 1..5} : p \in [1..5 -> {None, 1, 4, 5}]}
ThreeSpans == {{Span(i, p[i], IF i = 3 THEN 0 ELSE 1, 9) : i \in 1..3} : p \in [1..3 -> {None, 1, 2, 3, 5}]}

AllTraces == {[spans |-> S, collapsed |-> {}] : S \in FourSpans \cup FiveSpans}
               \cup {[spans |-> S, collapsed |-> C] : S \in ThreeSpans, C \in SUBSET (1..3)}

\* A trace on which nothing is collapsed or only a span of a cycle is.
CyclicTraces == {t \in AllTraces : t.collapsed \subseteq {1}}

-----------------------------------------------------------------------------
Toml(k, v) == <<"toml", [s \in {k[1]} |-> <<"table", [n \in {k[2]} |-> v]>>]>>
Toml2(s, k1, v1, k2, v2) == <<"toml", [t \in {s} |-> <<"table", [n \in {k1, k2} |-> IF n = k1 THEN v1 ELSE v2]>>]>>

\* Values below, in and above the ranges, and those of another type
Numbers == {<<"int", 0>>, <<"int", 1>>, <<"int", 700>>, <<"int", 100000>>, <<"int", 6000000>>, <<"fraction", 2>>,
            <<"numeral", 800>>, <<"nonfinite">>, <<"text", "x">>}
Paths1 == {<<"path", f, "p">> : f \in {"absolute", "home", "user", "relative"}} \cup {<<"blank">>}
Given(k) ==
  CASE Of(k).kind \in {"int", "days"} -> Numbers
    [] Of(k).kind = "bool"            -> {<<"bool", TRUE>>, <<"text", "x">>}
    [] Of(k).kind = "url"             -> {<<"url", "other">>, <<"text", "x">>}
    [] OTHER                          -> IF k[2] = "host" THEN {<<"text", "::1">>, <<"text", "x">>} ELSE Paths1
OneKeyFiles == UNION {{Toml(k, v) : v \in Given(k)} : k \in Keys}
OddFiles ==
  {<<"missing">>, <<"unreadable">>, <<"malformed">>, <<"toml", [s \in {} |-> <<>>]>>, StarterFile,
   <<"toml", [storage |-> <<"scalar">>]>>, <<"toml", [other |-> <<"table", [port |-> <<"int", 1>>]>>]>>,
   <<"toml", [daemon |-> <<"table", [ports |-> <<"int", 1>>]>>]>>,
   Toml2("ingestion", "max_compressed_bytes", <<"int", 40 * Mebi>>, "max_decompressed_bytes", <<"int", 50 * Mebi>>),
   Toml2("ingestion", "max_compressed_bytes", <<"int", 40 * Mebi>>, "queue_byte_capacity", <<"int", 20 * Mebi>>),
   Toml2("daemon", "port", <<"text", "x">>, "host", <<"text", "localhost">>)}
AllFiles == OneKeyFiles \cup OddFiles

EnvValues(n) ==
  CASE n = "BELFRY_TELEMETRY"     -> {<<"bool", TRUE>>, <<"text", "yes">>, <<"blank">>}
    [] n = "BELFRY_OTLP_ENDPOINT" -> {<<"url", "env">>, <<"text", "x">>}
    [] n = "BELFRY_DAEMON_HOST"   -> {<<"text", "localhost">>, <<"text", "x">>, <<"blank">>}
    [] n \in {"BELFRY_STATE_DIRECTORY", "BELFRY_DATABASE_PATH"} -> Paths1
    [] OTHER -> {<<"numeral", 0>>, <<"numeral", 7000>>, <<"numeral", 6000000>>, <<"fraction", 2>>, <<"text", "x">>, <<"blank">>}
OneVariable == UNION {{[m \in {n} |-> v] : v \in EnvValues(n)} : n \in DOMAIN Variables}
PathVariable == {[BELFRY_CONFIG_PATH |-> v] : v \in {<<"blank">>, <<"path", "absolute", "config">>}}
TwoVariables == {[BELFRY_DAEMON_PORT |-> <<"numeral", p>>, BELFRY_CONFIG_PATH |-> <<"path", "absolute", "config">>] : p \in {0, 7000}}
AllEnvironments == {[n \in {} |-> <<>>]} \cup OneVariable \cup PathVariable \cup TwoVariables

-----------------------------------------------------------------------------
\* One of the algorithms runs, on one input.
NoExports == export = NoExport /\ decoded = Pending
NoTraces  == trace = NoTrace /\ shown = NotShown
NoConfig  == env = [n \in {} |-> <<>>] /\ file = <<"none">> /\ init = "none" /\ report = NoReport
Init == \/ OtlpInit /\ NoTraces /\ NoConfig
        \/ TraceInit /\ NoExports /\ NoConfig
        \/ ConfigInit /\ NoExports /\ NoTraces
Next == \/ ReceiveExport /\ UNCHANGED <<traceVars, configVars>>
        \/ OpenTrace /\ UNCHANGED <<otlpVars, configVars>>
        \/ file # <<"none">> /\ ConfigNext /\ UNCHANGED <<otlpVars, traceVars>>
Spec == Init /\ [][Next]_<<otlpVars, traceVars, configVars>>

=============================================================================
