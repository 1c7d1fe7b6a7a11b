--------------------------- MODULE OtlpProperties ---------------------------
(***************************************************************************)
(* What is expected of the decoder: an export means the same however its   *)
(* sender may encode it.                                                   *)
(*                                                                         *)
(* An export is a request, a message as the bindings have it, and a style: *)
(* a media type and one of the liberties the encodings leave a sender, or  *)
(* a fault.                                                                *)
(***************************************************************************)
EXTENDS OtlpDecoder

CONSTANT Exports  \* the exports that may arrive, of signal, request and style

NoExport == [signal |-> "none"]
Pending  == <<"pending">>

VARIABLES
  export,  \* the export that arrives, or NoExport
  decoded  \* what the decoder made of it, Pending before

otlpVars == <<export, decoded>>

-----------------------------------------------------------------------------
(* protobuf: every sender's encoding is one of encode, up to the order of   *)
(* the fields, unknown fields, repeated scalars and split messages.         *)

\* The fields with the largest ids first; those of one id keep their order.
ByDescendingId(fields) ==
  FlattenSeq([k \in 1..100 |-> SelectSeq(fields, LAMBDA f : f.id = 101 - k)])

\* Another value of the type of a field
Other(f) ==
  IF f.wire # 2 THEN f.payload + 1
  ELSE IF f.payload[1] = "text" THEN <<"text", <<"word", "earlier">>>> ELSE <<"bytes", [size |-> 3, id |-> 9]>>

Mistyped(f) == [id |-> f.id, wire |-> IF f.wire = 0 THEN 5 ELSE 0, payload |-> 7]

\* The members of AnyValue before which another one may come.
EarlierMember(f) == IF f.id = 2 THEN [id |-> 3, wire |-> 0, payload |-> 5] ELSE [id |-> 2, wire |-> 0, payload |-> 1]

\* The liberties a sender takes with one field of a message.
FieldStyled(message, f, style) ==
  LET name  == CHOOSE n \in DOMAIN Messages[message].fields : Messages[message].fields[n].id = f.id
      how   == Messages[message].fields[name]
      cut   == Len(f.payload[2]) \div 2
      Half(from, to) == [f EXCEPT !.payload = <<"message", SubSeq(@[2], from, to)>>]
  IN  CASE style = "superseded" /\ IsOneof(message) -> <<EarlierMember(f), f>>
        [] style = "superseded" /\ ~IsOneof(message) /\ how.of = "" -> <<[f EXCEPT !.payload = Other(f)], f>>
        [] style = "mistyped"   -> <<Mistyped(f), f>>
        [] style = "split" /\ how.kind = "one" -> <<Half(1, cut), Half(cut + 1, Len(f.payload[2]))>>
        [] OTHER -> <<f>>

\* Members that are absent, written with their default value
Explicit(message, fields) ==
  LET table   == Messages[message].encoding
      absent  == SelectSeq(table, LAMBDA e : Messages[message].fields[e[1]].of = ""
                                               /\ \A i \in DOMAIN fields : fields[i].id # e[2])
      Zero(e) == [id |-> e[2], wire |-> e[3],
                  payload |-> CASE e[3] # 2 -> 0
                                [] e[3] = 2 /\ Messages[message].fields[e[1]].kind = "text" -> <<"text", EmptyText>>
                                [] OTHER -> <<"bytes", EmptyBytes>>]
  IN  IF IsOneof(message) THEN fields ELSE fields \o [i \in DOMAIN absent |-> Zero(absent[i])]

Unknown == <<[id |-> 99, wire |-> 2, payload |-> <<"text", <<"word", "unknown">>>>],
             [id |-> 98, wire |-> 3, payload |-> 0]>>

RECURSIVE Styled(_, _, _)
\* The encoding of a message in a style, at every depth.
Styled(message, fields, style) ==
  LET Of(f)  == Messages[message].fields[CHOOSE n \in DOMAIN Messages[message].fields :
                                            Messages[message].fields[n].id = f.id].of
      deep   == [i \in DOMAIN fields |->
                   IF fields[i].wire = 2 /\ fields[i].payload[1] = "message"
                   THEN [fields[i] EXCEPT !.payload = <<"message", Styled(Of(fields[i]), @[2], style)>>]
                   ELSE fields[i]]
  IN  CASE style = "reversed" -> ByDescendingId(deep)
        [] style = "unknown"  -> Unknown \o deep
        [] style = "explicit" -> Explicit(message, deep)
        [] OTHER -> FlattenSeq([i \in DOMAIN deep |-> FieldStyled(message, deep[i], style)])

\* A request whose last field is cut off
Cut(fields) == Append(fields, [id |-> 1, wire |-> 2, payload |-> <<"cut">>])

-----------------------------------------------------------------------------
(* JSON, as the OTLP specification and the bindings' names have it          *)

NameOf(of, n) == CHOOSE name \in DOMAIN EnumNames(of) : EnumNames(of)[name] = n

RECURSIVE ToJson(_, _, _)
JsonValue(v, name, how, style) ==
  CASE v[1] = "message" -> <<"object", ToJson(how.of, v[2], style)>>
    [] v[1] = "bool"    -> v
    [] v[1] = "text"    -> <<"string", v[2]>>
    [] v[1] = "bytes"   -> IF v[2] = EmptyBytes THEN <<"string", EmptyText>>
                           ELSE <<"string", <<IF name \notin IdentityFields THEN "base64"
                                              ELSE IF style = "named" THEN "HEX" ELSE "hex", v[2]>>>>
    [] v[1] = "int"     ->
         CASE how.kind = "enum" /\ style = "named" /\ v[2] \in {EnumNames(how.of)[n] : n \in DOMAIN EnumNames(how.of)}
                -> <<"string", <<"word", NameOf(how.of, v[2])>>>>
           [] how.kind = "long" /\ style # "named" -> <<"string", <<"decimal", v[2]>>>>
           [] OTHER -> <<"number", v[2]>>

\* The plain object of a message in a style, at every depth
ToJson(message, m, style) ==
  LET members == Messages[message].members
      Value(n) == IF n \notin DOMAIN m THEN <<"null">>
                  ELSE IF m[n][1] = "list"
                       THEN <<"array", [i \in DOMAIN m[n][2] |-> JsonValue(m[n][2][i], n, members[n], style)]>>
                       ELSE JsonValue(m[n], n, members[n], style)
      names == CASE style = "explicit" -> DOMAIN members
                 [] style = "unknown"  -> DOMAIN m \cup {"unknownMember"}
                 [] OTHER              -> DOMAIN m
  IN  [n \in names |-> IF n = "unknownMember" THEN <<"string", <<"word", "unknown">>>> ELSE Value(n)]

-----------------------------------------------------------------------------
\* The body of an export: the faults are the styles cut, misplaced, corrupt and large.
Body(x) ==
  LET type    == Signals[x.signal].message
      fields  == Encode(type, x.request)
      object  == ToJson(type, x.request, x.style)
      content == CASE x.media = "application/json" /\ x.style = "misplaced" -> <<"array", <<>>>>
                   [] x.media = "application/json" /\ x.style # "misplaced" -> <<"object", object>>
                   [] x.media # "application/json" /\ x.style = "cut"       -> Cut(fields)
                   [] OTHER                                                 -> Styled(type, fields, x.style)
  IN  [size |-> IF x.style = "large" THEN MaxDecompressedBytes + 1 ELSE MaxDecompressedBytes,
       corrupt |-> x.style = "corrupt", content |-> content]

OtlpInit == export \in Exports /\ decoded = Pending

\* decode, run by the writer worker for the request of an export
ReceiveExport ==
  /\ export # NoExport /\ decoded = Pending
  /\ decoded' = DecodeRequest(export.signal, export.media, Body(export))
  /\ UNCHANGED export

-----------------------------------------------------------------------------
RECURSIVE Nesting(_)
\* How deep messages are in a value.
Nesting(v) ==
  CASE v[1] = "message" -> 1 + Max({0} \cup {Nesting(v[2][n]) : n \in DOMAIN v[2]})
    [] v[1] = "list"    -> Max({0} \cup {Nesting(v[2][i]) : i \in DOMAIN v[2]})
    [] OTHER            -> 0

\* Whatever the encoding and whatever liberty the sender takes, the batch is that of
\* the request itself, or the same error; a faulty or too deep request is malformed,
\* and nothing larger than the limit is decoded (docs/03: protobuf and JSON are
\* accepted alike; unknown fields, defaults, merging and the last value of a field).
EncodingsAgree ==
  decoded # Pending =>
    decoded = CASE export.style = "large" -> <<"error", "payload_too_large">>
                [] export.style # "large" /\ export.media = "text/plain" /\ export.style # "corrupt"
                     -> <<"error", "unsupported_content_type">>
                [] export.style \in {"cut", "misplaced", "corrupt"} -> Malformed
                [] OTHER -> IF Nesting(<<"message", export.request>>) - 1 > RecursionLimit THEN Malformed
                            ELSE Normalize(export.signal, export.request)

\* A batch has every record of its request, none is left out or made up, and every
\* identity in it is one its sender gave and that can be looked up: 16 or 8 bytes,
\* not all zero; a request with any other span, parent or link is refused whole.
Canonical(id, size)  == id[1] = "id" /\ id[2].size = size /\ id[2].id # 0
CanonicalIfAny(id, size) == id = Absent \/ Canonical(id, size)
IdentitiesSound ==
  decoded # Pending /\ decoded[1] = "batch" =>
    /\ Len(decoded[2]) = Len(RecordsOf(export.signal, export.request))
    /\ \A i \in DOMAIN decoded[2] :
         LET r    == decoded[2][i]
             sent == RecordsOf(export.signal, export.request)[i].record
         IN  IF export.signal = "logs" THEN CanonicalIfAny(r.traceId, 16) /\ CanonicalIfAny(r.spanId, 8)
             ELSE /\ Canonical(r.traceId, 16) /\ Canonical(r.spanId, 8) /\ CanonicalIfAny(r.parentSpanId, 8)
                  /\ (r.parentSpanId = Absent) <=> ("parentSpanId" \notin DOMAIN sent)
                  /\ \A k \in DOMAIN r.links : Canonical(r.links[k].traceId, 16) /\ Canonical(r.links[k].spanId, 8)

\* What the decoder accepts, the Store can encode: the kinds, status codes and
\* severities of a batch are those the telemetry schemas allow (docs/03: "400
\* Malformed or invalid payload").
AcceptedStorable ==
  decoded # Pending /\ decoded[1] = "batch" =>
    \A i \in DOMAIN decoded[2] :
      LET r == decoded[2][i]
      IN  IF export.signal = "logs" THEN r.severity = Absent \/ r.severity[2] >= 0
          ELSE r.kind \in 0..5 /\ r.code \in 0..2

=============================================================================
