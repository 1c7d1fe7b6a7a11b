---------------------------- MODULE OtlpMessages ----------------------------
(***************************************************************************)
(* The tables the generated bindings (otlp.js) are made of.  Each message  *)
(* has four functions, and so four tables:                                 *)
(*   Encoding  what encode writes, in order: name, id and wire type;       *)
(*   Fields    what decode does with each id it knows;                     *)
(*   Shape     what verify asks of each member;                            *)
(*   Members   how fromObject converts each member of a plain object.      *)
(***************************************************************************)
EXTENDS TLC

Scalar(kind) == [kind |-> kind, of |-> ""]       \* one value
One(message) == [kind |-> "one", of |-> message]  \* a message
Each(what)   == [kind |-> "each", of |-> what]    \* a repeated field, of messages or "text"
Enum(names)  == [kind |-> "enum", of |-> names]   \* a number, or one of the names

On(id, how)     == [id |-> id, kind |-> how.kind, of |-> how.of]
All(how, names) == [n \in names |-> how]

-----------------------------------------------------------------------------
\* Requests
ExportTraceServiceRequestEncoding ==
  <<<<"resourceSpans", 1, 2>>>>
ExportTraceServiceRequestFields ==
  [resourceSpans |-> On(1, Each("ResourceSpans"))]
ExportTraceServiceRequestShape ==
  All(Each("ResourceSpans"), {"resourceSpans"})
ExportTraceServiceRequestMembers ==
  All(Each("ResourceSpans"), {"resourceSpans"})

ExportLogsServiceRequestEncoding ==
  <<<<"resourceLogs", 1, 2>>>>
ExportLogsServiceRequestFields ==
  [resourceLogs |-> On(1, Each("ResourceLogs"))]
ExportLogsServiceRequestShape ==
  All(Each("ResourceLogs"), {"resourceLogs"})
ExportLogsServiceRequestMembers ==
  All(Each("ResourceLogs"), {"resourceLogs"})

-----------------------------------------------------------------------------
\* Traces
ResourceSpansEncoding ==
  <<<<"resource", 1, 2>>, <<"scopeSpans", 2, 2>>, <<"schemaUrl", 3, 2>>>>
ResourceSpansFields ==
  [resource |-> On(1, One("Resource")), scopeSpans |-> On(2, Each("ScopeSpans")), schemaUrl |-> On(3, Scalar("text"))]
ResourceSpansShape ==
  All(One("Resource"), {"resource"}) @@ All(Each("ScopeSpans"), {"scopeSpans"}) @@ All(Scalar("text"), {"schemaUrl"})
ResourceSpansMembers ==
  All(One("Resource"), {"resource"}) @@ All(Each("ScopeSpans"), {"scopeSpans"}) @@ All(Scalar("text"), {"schemaUrl"})

ScopeSpansEncoding ==
  <<<<"scope", 1, 2>>, <<"spans", 2, 2>>, <<"schemaUrl", 3, 2>>>>
ScopeSpansFields ==
  [scope |-> On(1, One("InstrumentationScope")), spans |-> On(2, Each("Span")), schemaUrl |-> On(3, Scalar("text"))]
ScopeSpansShape ==
  All(One("InstrumentationScope"), {"scope"}) @@ All(Each("Span"), {"spans"}) @@ All(Scalar("text"), {"schemaUrl"})
ScopeSpansMembers ==
  All(One("InstrumentationScope"), {"scope"}) @@ All(Each("Span"), {"spans"}) @@ All(Scalar("text"), {"schemaUrl"})

SpanEncoding ==
  <<<<"traceId", 1, 2>>, <<"spanId", 2, 2>>, <<"traceState", 3, 2>>, <<"parentSpanId", 4, 2>>, <<"name", 5, 2>>,
    <<"kind", 6, 0>>, <<"startTimeUnixNano", 7, 1>>, <<"endTimeUnixNano", 8, 1>>, <<"attributes", 9, 2>>,
    <<"droppedAttributesCount", 10, 0>>, <<"events", 11, 2>>, <<"droppedEventsCount", 12, 0>>, <<"links", 13, 2>>,
    <<"droppedLinksCount", 14, 0>>, <<"status", 15, 2>>, <<"flags", 16, 5>>>>
SpanFields ==
  [traceId |-> On(1, Scalar("bytes")), spanId |-> On(2, Scalar("bytes")), traceState |-> On(3, Scalar("text")),
   parentSpanId |-> On(4, Scalar("bytes")), flags |-> On(16, Scalar("fixed32")), name |-> On(5, Scalar("text")),
   kind |-> On(6, Scalar("int32")), startTimeUnixNano |-> On(7, Scalar("fixed64")),
   endTimeUnixNano |-> On(8, Scalar("fixed64")), attributes |-> On(9, Each("KeyValue")),
   droppedAttributesCount |-> On(10, Scalar("uint32")), events |-> On(11, Each("Event")),
   droppedEventsCount |-> On(12, Scalar("uint32")), links |-> On(13, Each("Link")),
   droppedLinksCount |-> On(14, Scalar("uint32")), status |-> On(15, One("Status"))]
SpanShape ==
  All(Scalar("buffer"), {"traceId", "spanId", "parentSpanId"}) @@ All(Scalar("text"), {"traceState", "name"}) @@
   All(Scalar("integer"), {"flags", "droppedAttributesCount", "droppedEventsCount", "droppedLinksCount"}) @@
   All(Scalar("enum"), {"kind"}) @@ All(Scalar("long"), {"startTimeUnixNano", "endTimeUnixNano"}) @@
   All(Each("KeyValue"), {"attributes"}) @@ All(Each("Event"), {"events"}) @@ All(Each("Link"), {"links"}) @@
   All(One("Status"), {"status"})
SpanMembers ==
  All(Scalar("bytes"), {"traceId", "spanId", "parentSpanId"}) @@ All(Scalar("text"), {"traceState", "name"}) @@
   All(Scalar("uint32"), {"flags", "droppedAttributesCount", "droppedEventsCount", "droppedLinksCount"}) @@
   All(Enum("SpanKind"), {"kind"}) @@ All(Scalar("long"), {"startTimeUnixNano", "endTimeUnixNano"}) @@
   All(Each("KeyValue"), {"attributes"}) @@ All(Each("Event"), {"events"}) @@ All(Each("Link"), {"links"}) @@
   All(One("Status"), {"status"})

EventEncoding ==
  <<<<"timeUnixNano", 1, 1>>, <<"name", 2, 2>>, <<"attributes", 3, 2>>, <<"droppedAttributesCount", 4, 0>>>>
EventFields ==
  [timeUnixNano |-> On(1, Scalar("fixed64")), name |-> On(2, Scalar("text")), attributes |-> On(3, Each("KeyValue")),
   droppedAttributesCount |-> On(4, Scalar("uint32"))]
EventShape ==
  All(Scalar("long"), {"timeUnixNano"}) @@ All(Scalar("text"), {"name"}) @@ All(Each("KeyValue"), {"attributes"}) @@
   All(Scalar("integer"), {"droppedAttributesCount"})
EventMembers ==
  All(Scalar("long"), {"timeUnixNano"}) @@ All(Scalar("text"), {"name"}) @@ All(Each("KeyValue"), {"attributes"}) @@
   All(Scalar("uint32"), {"droppedAttributesCount"})

LinkEncoding ==
  <<<<"traceId", 1, 2>>, <<"spanId", 2, 2>>, <<"traceState", 3, 2>>, <<"attributes", 4, 2>>,
    <<"droppedAttributesCount", 5, 0>>, <<"flags", 6, 5>>>>
LinkFields ==
  [traceId |-> On(1, Scalar("bytes")), spanId |-> On(2, Scalar("bytes")), traceState |-> On(3, Scalar("text")),
   attributes |-> On(4, Each("KeyValue")), droppedAttributesCount |-> On(5, Scalar("uint32")),
   flags |-> On(6, Scalar("fixed32"))]
LinkShape ==
  All(Scalar("buffer"), {"traceId", "spanId"}) @@ All(Scalar("text"), {"traceState"}) @@
   All(Each("KeyValue"), {"attributes"}) @@ All(Scalar("integer"), {"droppedAttributesCount", "flags"})
LinkMembers ==
  All(Scalar("bytes"), {"traceId", "spanId"}) @@ All(Scalar("text"), {"traceState"}) @@
   All(Each("KeyValue"), {"attributes"}) @@ All(Scalar("uint32"), {"droppedAttributesCount", "flags"})

StatusEncoding ==
  <<<<"message", 2, 2>>, <<"code", 3, 0>>>>
StatusFields ==
  [message |-> On(2, Scalar("text")), code |-> On(3, Scalar("int32"))]
StatusShape ==
  All(Scalar("text"), {"message"}) @@ All(Scalar("enum"), {"code"})
StatusMembers ==
  All(Scalar("text"), {"message"}) @@ All(Enum("StatusCode"), {"code"})

-----------------------------------------------------------------------------
\* Logs
ResourceLogsEncoding ==
  <<<<"resource", 1, 2>>, <<"scopeLogs", 2, 2>>, <<"schemaUrl", 3, 2>>>>
ResourceLogsFields ==
  [resource |-> On(1, One("Resource")), scopeLogs |-> On(2, Each("ScopeLogs")), schemaUrl |-> On(3, Scalar("text"))]
ResourceLogsShape ==
  All(One("Resource"), {"resource"}) @@ All(Each("ScopeLogs"), {"scopeLogs"}) @@ All(Scalar("text"), {"schemaUrl"})
ResourceLogsMembers ==
  All(One("Resource"), {"resource"}) @@ All(Each("ScopeLogs"), {"scopeLogs"}) @@ All(Scalar("text"), {"schemaUrl"})

ScopeLogsEncoding ==
  <<<<"scope", 1, 2>>, <<"logRecords", 2, 2>>, <<"schemaUrl", 3, 2>>>>
ScopeLogsFields ==
  [scope |-> On(1, One("InstrumentationScope")), logRecords |-> On(2, Each("LogRecord")),
   schemaUrl |-> On(3, Scalar("text"))]
ScopeLogsShape ==
  All(One("InstrumentationScope"), {"scope"}) @@ All(Each("LogRecord"), {"logRecords"}) @@
   All(Scalar("text"), {"schemaUrl"})
ScopeLogsMembers ==
  All(One("InstrumentationScope"), {"scope"}) @@ All(Each("LogRecord"), {"logRecords"}) @@
   All(Scalar("text"), {"schemaUrl"})

LogRecordEncoding ==
  <<<<"timeUnixNano", 1, 1>>, <<"severityNumber", 2, 0>>, <<"severityText", 3, 2>>, <<"body", 5, 2>>,
    <<"attributes", 6, 2>>, <<"droppedAttributesCount", 7, 0>>, <<"flags", 8, 5>>, <<"traceId", 9, 2>>,
    <<"spanId", 10, 2>>, <<"observedTimeUnixNano", 11, 1>>, <<"eventName", 12, 2>>>>
LogRecordFields ==
  [timeUnixNano |-> On(1, Scalar("fixed64")), observedTimeUnixNano |-> On(11, Scalar("fixed64")),
   severityNumber |-> On(2, Scalar("int32")), severityText |-> On(3, Scalar("text")), body |-> On(5, One("AnyValue")),
   attributes |-> On(6, Each("KeyValue")), droppedAttributesCount |-> On(7, Scalar("uint32")),
   flags |-> On(8, Scalar("fixed32")), traceId |-> On(9, Scalar("bytes")), spanId |-> On(10, Scalar("bytes")),
   eventName |-> On(12, Scalar("text"))]
LogRecordShape ==
  All(Scalar("long"), {"timeUnixNano", "observedTimeUnixNano"}) @@ All(Scalar("enum"), {"severityNumber"}) @@
   All(Scalar("text"), {"severityText", "eventName"}) @@ All(One("AnyValue"), {"body"}) @@
   All(Each("KeyValue"), {"attributes"}) @@ All(Scalar("integer"), {"droppedAttributesCount", "flags"}) @@
   All(Scalar("buffer"), {"traceId", "spanId"})
LogRecordMembers ==
  All(Scalar("long"), {"timeUnixNano", "observedTimeUnixNano"}) @@ All(Enum("SeverityNumber"), {"severityNumber"}) @@
   All(Scalar("text"), {"severityText", "eventName"}) @@ All(One("AnyValue"), {"body"}) @@
   All(Each("KeyValue"), {"attributes"}) @@ All(Scalar("uint32"), {"droppedAttributesCount", "flags"}) @@
   All(Scalar("bytes"), {"traceId", "spanId"})

-----------------------------------------------------------------------------
\* Resources and scopes
ResourceEncoding ==
  <<<<"attributes", 1, 2>>, <<"droppedAttributesCount", 2, 0>>, <<"entityRefs", 3, 2>>>>
ResourceFields ==
  [attributes |-> On(1, Each("KeyValue")), droppedAttributesCount |-> On(2, Scalar("uint32")),
   entityRefs |-> On(3, Each("EntityRef"))]
ResourceShape ==
  All(Each("KeyValue"), {"attributes"}) @@ All(Scalar("integer"), {"droppedAttributesCount"}) @@
   All(Each("EntityRef"), {"entityRefs"})
ResourceMembers ==
  All(Each("KeyValue"), {"attributes"}) @@ All(Scalar("uint32"), {"droppedAttributesCount"}) @@
   All(Each("EntityRef"), {"entityRefs"})

EntityRefEncoding ==
  <<<<"schemaUrl", 1, 2>>, <<"type", 2, 2>>, <<"idKeys", 3, 2>>, <<"descriptionKeys", 4, 2>>>>
EntityRefFields ==
  [schemaUrl |-> On(1, Scalar("text")), type |-> On(2, Scalar("text")), idKeys |-> On(3, Each("text")),
   descriptionKeys |-> On(4, Each("text"))]
EntityRefShape ==
  All(Scalar("text"), {"schemaUrl", "type"}) @@ All(Each("text"), {"idKeys", "descriptionKeys"})
EntityRefMembers ==
  All(Scalar("text"), {"schemaUrl", "type"}) @@ All(Each("text"), {"idKeys", "descriptionKeys"})

InstrumentationScopeEncoding ==
  <<<<"name", 1, 2>>, <<"version", 2, 2>>, <<"attributes", 3, 2>>, <<"droppedAttributesCount", 4, 0>>>>
InstrumentationScopeFields ==
  [name |-> On(1, Scalar("text")), version |-> On(2, Scalar("text")), attributes |-> On(3, Each("KeyValue")),
   droppedAttributesCount |-> On(4, Scalar("uint32"))]
InstrumentationScopeShape ==
  All(Scalar("text"), {"name", "version"}) @@ All(Each("KeyValue"), {"attributes"}) @@
   All(Scalar("integer"), {"droppedAttributesCount"})
InstrumentationScopeMembers ==
  All(Scalar("text"), {"name", "version"}) @@ All(Each("KeyValue"), {"attributes"}) @@
   All(Scalar("uint32"), {"droppedAttributesCount"})

-----------------------------------------------------------------------------
\* Attributes
KeyValueEncoding ==
  <<<<"key", 1, 2>>, <<"value", 2, 2>>>>
KeyValueFields ==
  [key |-> On(1, Scalar("text")), value |-> On(2, One("AnyValue"))]
KeyValueShape ==
  All(Scalar("text"), {"key"}) @@ All(One("AnyValue"), {"value"})
KeyValueMembers ==
  All(Scalar("text"), {"key"}) @@ All(One("AnyValue"), {"value"})

KeyValueListEncoding ==
  <<<<"values", 1, 2>>>>
KeyValueListFields ==
  [values |-> On(1, Each("KeyValue"))]
KeyValueListShape ==
  All(Each("KeyValue"), {"values"})
KeyValueListMembers ==
  All(Each("KeyValue"), {"values"})

ArrayValueEncoding ==
  <<<<"values", 1, 2>>>>
ArrayValueFields ==
  [values |-> On(1, Each("AnyValue"))]
ArrayValueShape ==
  All(Each("AnyValue"), {"values"})
ArrayValueMembers ==
  All(Each("AnyValue"), {"values"})

AnyValueEncoding ==
  <<<<"stringValue", 1, 2>>, <<"boolValue", 2, 0>>, <<"intValue", 3, 0>>, <<"doubleValue", 4, 1>>,
    <<"arrayValue", 5, 2>>, <<"kvlistValue", 6, 2>>, <<"bytesValue", 7, 2>>>>
AnyValueFields ==
  [stringValue |-> On(1, Scalar("text")), boolValue |-> On(2, Scalar("bool")), intValue |-> On(3, Scalar("int64")),
   doubleValue |-> On(4, Scalar("double")), arrayValue |-> On(5, One("ArrayValue")),
   kvlistValue |-> On(6, One("KeyValueList")), bytesValue |-> On(7, Scalar("bytes"))]
AnyValueShape ==
  All(Scalar("text"), {"stringValue"}) @@ All(Scalar("boolean"), {"boolValue"}) @@
   All(Scalar("long"), {"intValue"}) @@ All(Scalar("number"), {"doubleValue"}) @@
   All(One("ArrayValue"), {"arrayValue"}) @@ All(One("KeyValueList"), {"kvlistValue"}) @@
   All(Scalar("buffer"), {"bytesValue"})
AnyValueMembers ==
  All(Scalar("text"), {"stringValue"}) @@ All(Scalar("bool"), {"boolValue"}) @@ All(Scalar("long"), {"intValue"}) @@
   All(Scalar("number"), {"doubleValue"}) @@ All(One("ArrayValue"), {"arrayValue"}) @@
   All(One("KeyValueList"), {"kvlistValue"}) @@ All(Scalar("bytes"), {"bytesValue"})

-----------------------------------------------------------------------------
\* The names of the enumerations
SpanKind ==
  [SPAN_KIND_UNSPECIFIED |-> 0, SPAN_KIND_INTERNAL |-> 1, SPAN_KIND_SERVER |-> 2, SPAN_KIND_CLIENT |-> 3,
   SPAN_KIND_PRODUCER |-> 4, SPAN_KIND_CONSUMER |-> 5]
StatusCode == [STATUS_CODE_UNSET |-> 0, STATUS_CODE_OK |-> 1, STATUS_CODE_ERROR |-> 2]
SeverityNumber ==
  [SEVERITY_NUMBER_UNSPECIFIED |-> 0,
   SEVERITY_NUMBER_TRACE |-> 1, SEVERITY_NUMBER_TRACE2 |-> 2, SEVERITY_NUMBER_TRACE3 |-> 3,
   SEVERITY_NUMBER_TRACE4 |-> 4, SEVERITY_NUMBER_DEBUG |-> 5, SEVERITY_NUMBER_DEBUG2 |-> 6,
   SEVERITY_NUMBER_DEBUG3 |-> 7, SEVERITY_NUMBER_DEBUG4 |-> 8, SEVERITY_NUMBER_INFO |-> 9,
   SEVERITY_NUMBER_INFO2 |-> 10, SEVERITY_NUMBER_INFO3 |-> 11, SEVERITY_NUMBER_INFO4 |-> 12,
   SEVERITY_NUMBER_WARN |-> 13, SEVERITY_NUMBER_WARN2 |-> 14, SEVERITY_NUMBER_WARN3 |-> 15,
   SEVERITY_NUMBER_WARN4 |-> 16, SEVERITY_NUMBER_ERROR |-> 17, SEVERITY_NUMBER_ERROR2 |-> 18,
   SEVERITY_NUMBER_ERROR3 |-> 19, SEVERITY_NUMBER_ERROR4 |-> 20, SEVERITY_NUMBER_FATAL |-> 21,
   SEVERITY_NUMBER_FATAL2 |-> 22, SEVERITY_NUMBER_FATAL3 |-> 23, SEVERITY_NUMBER_FATAL4 |-> 24]

=============================================================================
