----------------------------- MODULE OtlpDecoder -----------------------------
(***************************************************************************)
(* decoder.ts and service.ts of the ingestion package: from the body of an *)
(* export to spans or logs, or to the code of an error.                    *)
(*                                                                         *)
(* A body has a size, once it is unpacked, and a content: the fields of a  *)
(* message or parsed JSON.  An absent member of a result is Absent.        *)
(***************************************************************************)
EXTENDS OtlpBindings

CONSTANT MaxDecompressedBytes

ASSUME DecompressedAssumption == MaxDecompressedBytes \in Nat

Absent == <<"absent">>

\* parseContentType, of the media type without parameters, in lower case
ParseContentType(mediaType) ==
  CASE mediaType = "application/x-protobuf" -> "protobuf"
    [] mediaType = "application/json"       -> "json"
    [] OTHER                                -> "unsupported"

-----------------------------------------------------------------------------
(* JSON identities                                                          *)

IdentityFields == {"traceId", "spanId", "parentSpanId"}

\* hexadecimalBytes: what is not the hexadecimal of bytes becomes no bytes.
HexadecimalBytes(text) == IF text[1] \in {"hex", "HEX"} THEN text[2] ELSE EmptyBytes

RECURSIVE NormalizeJsonIdentities(_)
NormalizeJson(j) ==
  CASE j[1] = "object" -> <<"object", NormalizeJsonIdentities(j[2])>>
    [] j[1] = "array"  -> <<"array", [i \in DOMAIN j[2] |->
                             IF j[2][i][1] = "object" THEN <<"object", NormalizeJsonIdentities(j[2][i][2])>>
                             ELSE j[2][i]]>>
    [] OTHER           -> j
NormalizeJsonIdentities(object) ==
  [n \in DOMAIN object |->
     IF n \in IdentityFields /\ object[n][1] = "string" THEN <<"bytes", HexadecimalBytes(object[n][2])>>
     ELSE NormalizeJson(object[n])]

-----------------------------------------------------------------------------
(* Normalisation                                                            *)

\* A member of a message, or what its prototype has.
Member(m, name, default) == IF name \in DOMAIN m THEN m[name][2] ELSE default
Items(m, name)  == Member(m, name, <<>>)
Inner(m, name)  == Member(m, name, NoMembers)
Number(m, name) == Member(m, name, 0)
Bytes(m, name)  == Member(m, name, EmptyBytes)

NonEmpty(m, name) == IF Member(m, name, EmptyText) = EmptyText THEN Absent ELSE m[name]
Positive(m, name) == IF Number(m, name) = 0 THEN Absent ELSE m[name]

RECURSIVE NormalizeAnyValue(_)
\* normalizeAttributes: the last value of a key counts, an empty key does not.
NormalizeAttributes(attributes) ==
  LET key(i) == Member(attributes[i][2], "key", EmptyText)
      last   == {i \in DOMAIN attributes : key(i) # EmptyText /\ \A k \in DOMAIN attributes : key(k) = key(i) => k <= i}
  IN  [k \in {key(i) : i \in last} |->
         NormalizeAnyValue(Inner(attributes[CHOOSE i \in last : key(i) = k][2], "value"))]

\* normalizeAnyValue; a verified value has one member at most.
NormalizeAnyValue(value) ==
  LET Has(name) == name \in DOMAIN value
  IN  CASE Has("stringValue") -> <<"string", value["stringValue"][2]>>
        [] Has("boolValue")   -> <<"boolean", value["boolValue"][2]>>
        [] Has("intValue")    -> <<"integer", value["intValue"][2]>>
        [] Has("doubleValue") -> <<"double", value["doubleValue"][2]>>
        [] Has("bytesValue")  -> <<"bytes", value["bytesValue"][2]>>
        [] Has("arrayValue")  ->
             LET items == Items(value["arrayValue"][2], "values")
             IN  <<"array", [i \in DOMAIN items |-> NormalizeAnyValue(items[i][2])]>>
        [] Has("kvlistValue") ->
             <<"key-value-list", NormalizeAttributes(Items(value["kvlistValue"][2], "values"))>>
        [] OTHER -> <<"empty">>

\* A nonempty string among attributes, else Absent
StringAttribute(attributes, name) ==
  LET key == <<"word", name>>
  IN  IF key \in DOMAIN attributes /\ attributes[key][1] = "string" /\ attributes[key][2] # EmptyText
      THEN <<"text", attributes[key][2]>> ELSE Absent

OrElse(value, other) == IF value = Absent THEN other ELSE value

\* serviceFromResource, whose diagnostic is the name it gives an unknown Service
ServiceFromResource(attributes) ==
  [namespace   |-> StringAttribute(attributes, "service.namespace"),
   name        |-> OrElse(StringAttribute(attributes, "service.name"), <<"unknown_service">>),
   environment |-> OrElse(StringAttribute(attributes, "deployment.environment.name"),
                          StringAttribute(attributes, "deployment.environment"))]

\* canonicalId accepts these bytes.
IsCanonical(bytes, size) == bytes.size = size /\ bytes.id # 0

\* The errors canonicalId and optionalCanonicalId throw, as sequences of a code
RequiredId(m, name, size, code) == IF IsCanonical(Bytes(m, name), size) THEN <<>> ELSE <<code>>
OptionalId(m, name, size, code) == IF Bytes(m, name).size = 0 THEN <<>> ELSE RequiredId(m, name, size, code)

CanonicalId(m, name) == IF Bytes(m, name).size = 0 THEN Absent ELSE <<"id", Bytes(m, name)>>

\* attributeCorrelationId: the first of the keys that holds an id, in any case
RECURSIVE AttributeCorrelationId(_, _, _)
AttributeCorrelationId(attributes, keys, size) ==
  IF keys = <<>> THEN Absent
  ELSE LET text == StringAttribute(attributes, Head(keys))
       IN  IF text # Absent /\ text[2][1] \in {"hex", "HEX"} /\ IsCanonical(text[2][2], size)
           THEN <<"id", text[2][2]>>
           ELSE AttributeCorrelationId(attributes, Tail(keys), size)

NormalizeEvent(event) ==
  [name |-> Member(event, "name", EmptyText), time |-> Number(event, "timeUnixNano"),
   attributes |-> NormalizeAttributes(Items(event, "attributes")),
   dropped |-> Positive(event, "droppedAttributesCount")]

NormalizeLink(link) ==
  [traceId |-> CanonicalId(link, "traceId"), spanId |-> CanonicalId(link, "spanId"),
   traceState |-> NonEmpty(link, "traceState"), flags |-> Number(link, "flags"),
   attributes |-> NormalizeAttributes(Items(link, "attributes")),
   dropped |-> Positive(link, "droppedAttributesCount")]

NormalizeResource(resource) ==
  [attributes |-> NormalizeAttributes(Items(resource, "attributes")),
   dropped |-> Positive(resource, "droppedAttributesCount")]

NormalizeScope(scope) ==
  [name |-> Member(scope, "name", EmptyText), version |-> NonEmpty(scope, "version"),
   attributes |-> NormalizeAttributes(Items(scope, "attributes")),
   dropped |-> Positive(scope, "droppedAttributesCount")]

\* Mutant: the identities of links are not looked at.
SpanErrorsSkipsLinks(span) ==
  RequiredId(span, "traceId", 16, "invalid_trace_id") \o RequiredId(span, "spanId", 8, "invalid_span_id")
    \o OptionalId(span, "parentSpanId", 8, "invalid_span_id")

\* What normalizeSpan throws, in the order it looks
SpanErrors(span) ==
  LET links == Items(span, "links")
  IN  RequiredId(span, "traceId", 16, "invalid_trace_id") \o RequiredId(span, "spanId", 8, "invalid_span_id")
        \o OptionalId(span, "parentSpanId", 8, "invalid_span_id")
        \o FlattenSeq([i \in DOMAIN links |->
             RequiredId(links[i][2], "traceId", 16, "invalid_trace_id")
               \o RequiredId(links[i][2], "spanId", 8, "invalid_span_id")])

NormalizeSpan(span, resource, scope, service) ==
  LET ended == Number(span, "endTimeUnixNano") # 0
      status == Inner(span, "status")
  IN  [traceId |-> CanonicalId(span, "traceId"), spanId |-> CanonicalId(span, "spanId"),
       parentSpanId |-> CanonicalId(span, "parentSpanId"), traceState |-> NonEmpty(span, "traceState"),
       flags |-> Number(span, "flags"), name |-> Member(span, "name", EmptyText), kind |-> Number(span, "kind"),
       start |-> Number(span, "startTimeUnixNano"), end |-> Positive(span, "endTimeUnixNano"),
       service |-> service, code |-> Number(status, "code"), message |-> NonEmpty(status, "message"),
       attributes |-> NormalizeAttributes(Items(span, "attributes")),
       dropped |-> [n \in {"droppedAttributesCount", "droppedEventsCount", "droppedLinksCount"} |-> Positive(span, n)],
       events |-> [i \in DOMAIN Items(span, "events") |-> NormalizeEvent(Items(span, "events")[i][2])],
       links |-> [i \in DOMAIN Items(span, "links") |-> NormalizeLink(Items(span, "links")[i][2])],
       resource |-> resource, scope |-> scope, warnings |-> IF ended THEN {} ELSE {"running-span"}]

LogErrors(log) ==
  OptionalId(log, "traceId", 16, "invalid_trace_id") \o OptionalId(log, "spanId", 8, "invalid_span_id")

\* The correlation of a log: its own ids, else those among its attributes, of
\* which a span's counts only beside a trace.
NormalizeLog(log, resource, scope, service) ==
  LET attributes == NormalizeAttributes(Items(log, "attributes"))
      traceId == OrElse(CanonicalId(log, "traceId"), AttributeCorrelationId(attributes, <<"traceId", "trace_id">>, 16))
      spanId  == OrElse(CanonicalId(log, "spanId"),
                        IF traceId = Absent THEN Absent
                        ELSE AttributeCorrelationId(attributes, <<"spanId", "span_id">>, 8))
  IN  [time |-> Positive(log, "timeUnixNano"), observed |-> Positive(log, "observedTimeUnixNano"), service |-> service,
       severity |-> Positive(log, "severityNumber"), severityText |-> NonEmpty(log, "severityText"),
       traceId |-> traceId, spanId |-> spanId, flags |-> Number(log, "flags"),
       body |-> NormalizeAnyValue(Inner(log, "body")), attributes |-> attributes,
       dropped |-> Positive(log, "droppedAttributesCount"), eventName |-> NonEmpty(log, "eventName"),
       resource |-> resource, scope |-> scope]

-----------------------------------------------------------------------------
(* The request                                                              *)

Signals ==
  [traces |-> [message |-> "ExportTraceServiceRequest", resources |-> "resourceSpans", scopes |-> "scopeSpans",
               records |-> "spans"],
   logs   |-> [message |-> "ExportLogsServiceRequest", resources |-> "resourceLogs", scopes |-> "scopeLogs",
               records |-> "logRecords"]]

\* The records of a request in order, each with the resource and scope around it.
RecordsOf(signal, request) ==
  LET names == Signals[signal]
      groups == Items(request, names.resources)
      InScope(group, scoped) ==
        [i \in DOMAIN Items(scoped, names.records) |->
           [record |-> Items(scoped, names.records)[i][2], resource |-> Inner(group, "resource"),
            scope |-> Inner(scoped, "scope")]]
      InGroup(group) ==
        FlattenSeq([i \in DOMAIN Items(group, names.scopes) |-> InScope(group, Items(group, names.scopes)[i][2])])
  IN  FlattenSeq([i \in DOMAIN groups |-> InGroup(groups[i][2])])

\* The loops of decodeOtlpTraces and decodeOtlpLogs: the first error ends them.
Normalize(signal, request) ==
  LET records == RecordsOf(signal, request)
      errors  == FlattenSeq([i \in DOMAIN records |->
                   IF signal = "traces" THEN SpanErrors(records[i].record) ELSE LogErrors(records[i].record)])
      Normalized(r) ==
        LET resource == NormalizeResource(r.resource)
            scope    == NormalizeScope(r.scope)
            service  == ServiceFromResource(resource.attributes)
        IN  IF signal = "traces" THEN NormalizeSpan(r.record, resource, scope, service)
            ELSE NormalizeLog(r.record, resource, scope, service)
  IN  IF errors # <<>> THEN <<"error", Head(errors)>>
      ELSE <<"batch", [i \in DOMAIN records |-> Normalized(records[i])]>>

Malformed == <<"error", "malformed_payload">>

\* decodeOtlpTraces, decodeOtlpLogs
DecodeOtlp(signal, mediaType, content) ==
  LET encoding == ParseContentType(mediaType)
      type     == Signals[signal].message
      request  == CASE encoding = "protobuf" -> Decode(type, content, 0, NoMembers)
                    [] encoding = "json"     -> IF content[1] # "object" THEN Failure
                                                ELSE FromObject(type, NormalizeJsonIdentities(content[2]), 0)
  IN  IF encoding = "unsupported" THEN <<"error", "unsupported_content_type">>
      ELSE IF Failing(request) THEN Malformed
      ELSE IF ~Verify(type, request, 0) THEN Malformed
      ELSE Normalize(signal, request)

\* decode of service.ts, with decompressBounded: nothing larger than the limit is
\* looked at, whatever it was packed to.
DecodeRequest(signal, mediaType, body) ==
  IF body.size > MaxDecompressedBytes THEN <<"error", "payload_too_large">>
  ELSE IF body.corrupt THEN Malformed
  ELSE DecodeOtlp(signal, mediaType, body.content)

=============================================================================
