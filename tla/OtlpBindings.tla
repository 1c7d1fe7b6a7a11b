---------------------------- MODULE OtlpBindings ----------------------------
(***************************************************************************)
(* encode, decode, verify and fromObject of the generated bindings         *)
(* (otlp.js), over the tables of OtlpMessages: the functions of a message  *)
(* differ only in those.                                                   *)
(*                                                                         *)
(* A value has a type: <<"int", n>>, <<"bool", b>>, <<"text", t>>,         *)
(* <<"bytes", b>>, <<"message", m>>, <<"list", values>>.  A message is a   *)
(* function from the members it has to their values.  Bytes have a size    *)
(* and an id, 0 when all are zero.  A text is <<"word", w>>, the digits of *)
(* a number, <<"decimal", n>>, or the encoding of bytes: <<"hex", b>>,     *)
(* <<"HEX", b>> or <<"base64", b>>.  Numbers fit every width.              *)
(*                                                                         *)
(* On the wire a message is a sequence of fields: id, wire type and a      *)
(* number (types 0, 1, 5), or text, bytes or a message (type 2).  Parsed   *)
(* JSON is <<"null">>, <<"bool", b>>, <<"number", n>>, <<"string", t>>,    *)
(* <<"array", values>>, <<"object", members>>, or <<"bytes", b>>, which    *)
(* the decoder puts in.                                                    *)
(***************************************************************************)
EXTENDS OtlpMessages, Integers, FiniteSets, SequencesExt

CONSTANT RecursionLimit  \* of protobufjs, 100

ASSUME RecursionAssumption == RecursionLimit \in Nat

EmptyText  == <<"word", "">>
EmptyBytes == [size |-> 0, id |-> 0]
NoMembers  == [n \in {} |-> n]

\* The result of reading what cannot be read: an error was thrown.
Failure    == [error |-> TRUE]
Failing(m) == "error" \in DOMAIN m

With(m, name, value) == (name :> value) @@ m
Without(m, names)    == [n \in DOMAIN m \ names |-> m[n]]

\* What the bindings do not set or write: 0, an empty text and empty bytes.
IsDefault(v) ==
  CASE v[1] = "int"   -> v[2] = 0
    [] v[1] = "text"  -> v[2] = EmptyText
    [] v[1] = "bytes" -> v[2] = EmptyBytes
    [] OTHER          -> FALSE

Message(encoding, fields, shape, members) ==
  [encoding |-> encoding, fields |-> fields, shape |-> shape, members |-> members]

Messages ==
  [ExportTraceServiceRequest |-> Message(ExportTraceServiceRequestEncoding, ExportTraceServiceRequestFields,
                                         ExportTraceServiceRequestShape, ExportTraceServiceRequestMembers),
   ExportLogsServiceRequest  |-> Message(ExportLogsServiceRequestEncoding, ExportLogsServiceRequestFields,
                                         ExportLogsServiceRequestShape, ExportLogsServiceRequestMembers),
   ResourceSpans |-> Message(ResourceSpansEncoding, ResourceSpansFields, ResourceSpansShape, ResourceSpansMembers),
   ScopeSpans    |-> Message(ScopeSpansEncoding, ScopeSpansFields, ScopeSpansShape, ScopeSpansMembers),
   Span          |-> Message(SpanEncoding, SpanFields, SpanShape, SpanMembers),
   Event         |-> Message(EventEncoding, EventFields, EventShape, EventMembers),
   Link          |-> Message(LinkEncoding, LinkFields, LinkShape, LinkMembers),
   Status        |-> Message(StatusEncoding, StatusFields, StatusShape, StatusMembers),
   ResourceLogs  |-> Message(ResourceLogsEncoding, ResourceLogsFields, ResourceLogsShape, ResourceLogsMembers),
   ScopeLogs     |-> Message(ScopeLogsEncoding, ScopeLogsFields, ScopeLogsShape, ScopeLogsMembers),
   LogRecord     |-> Message(LogRecordEncoding, LogRecordFields, LogRecordShape, LogRecordMembers),
   Resource      |-> Message(ResourceEncoding, ResourceFields, ResourceShape, ResourceMembers),
   EntityRef     |-> Message(EntityRefEncoding, EntityRefFields, EntityRefShape, EntityRefMembers),
   InstrumentationScope |-> Message(InstrumentationScopeEncoding, InstrumentationScopeFields,
                                    InstrumentationScopeShape, InstrumentationScopeMembers),
   KeyValue      |-> Message(KeyValueEncoding, KeyValueFields, KeyValueShape, KeyValueMembers),
   KeyValueList  |-> Message(KeyValueListEncoding, KeyValueListFields, KeyValueListShape, KeyValueListMembers),
   ArrayValue    |-> Message(ArrayValueEncoding, ArrayValueFields, ArrayValueShape, ArrayValueMembers),
   AnyValue      |-> Message(AnyValueEncoding, AnyValueFields, AnyValueShape, AnyValueMembers)]

\* AnyValue has one member at most, which may have its default value.
IsOneof(message) == message = "AnyValue"

-----------------------------------------------------------------------------
(* encode (its depth check left out: exporters have their own encoders)     *)

RECURSIVE Encode(_, _)
\* What a value of a member that is described so is on the wire.
Payload(v, how) ==
  CASE v[1] = "message" -> <<"message", Encode(how.of, v[2])>>
    [] v[1] = "int"     -> v[2]
    [] v[1] = "bool"    -> IF v[2] THEN 1 ELSE 0
    [] OTHER            -> v

\* The fields that the member of an entry of the table is written to.
FieldsOf(message, m, entry) ==
  LET how    == Messages[message].fields[entry[1]]
      value  == m[entry[1]]
      values == IF value[1] = "list" THEN value[2] ELSE <<value>>
  IN  IF entry[1] \notin DOMAIN m \/ (~IsOneof(message) /\ IsDefault(value)) THEN <<>>
      ELSE [i \in DOMAIN values |-> [id |-> entry[2], wire |-> entry[3], payload |-> Payload(values[i], how)]]

Encode(message, m) ==
  LET table == Messages[message].encoding
  IN  FlattenSeq([i \in DOMAIN table |-> FieldsOf(message, m, table[i])])

-----------------------------------------------------------------------------
(* decode                                                                   *)

\* The wire type a member of this kind is written with.
WireType(kind) ==
  CASE kind \in {"bool", "int32", "int64", "uint32"} -> 0
    [] kind = "fixed64" \/ kind = "double"           -> 1
    [] kind = "fixed32"                              -> 5
    [] OTHER                                         -> 2

\* The reader skips fields of these wire types, and throws at the others.
Skippable == {0, 1, 2, 3, 5}

\* What the reader reads of a payload.  stringVerify throws at bytes that are no
\* text; members that are bytes are not given text here.
ReadScalar(kind, payload) ==
  CASE kind = "bool"                   -> <<"bool", payload # 0>>
    [] kind \in {"text", "bytes"}      -> IF payload[1] = kind THEN payload ELSE <<"error">>
    [] OTHER                           -> <<"int", payload>>

RECURSIVE Decode(_, _, _, _)
\* The value of a field; a message is read into the one that is there.
ReadValue(message, name, payload, depth, m) ==
  LET how    == Messages[message].fields[name]
      target == IF how.kind = "one" /\ name \in DOMAIN m THEN m[name][2] ELSE NoMembers
      inner  == Decode(how.of, payload[2], depth + 1, target)
  IN  IF how.of \notin DOMAIN Messages
      THEN ReadScalar(IF how.kind = "each" THEN how.of ELSE how.kind, payload)
      ELSE IF payload[1] # "message" \/ Failing(inner) THEN <<"error">> ELSE <<"message", inner>>

\* Mutant: a member of AnyValue with its default value is not kept.
AssignDropsDefaults(message, name, value, m) ==
  LET how == Messages[message].fields[name]
  IN  IF how.kind = "each"
      THEN With(m, name, <<"list", Append(IF name \in DOMAIN m THEN m[name][2] ELSE <<>>, value)>>)
      ELSE IF IsDefault(value) THEN Without(m, {name})
      ELSE IF IsOneof(message) THEN name :> value ELSE With(m, name, value)

\* The message after a known field.
Assign(message, name, value, m) ==
  LET how == Messages[message].fields[name]
  IN  IF how.kind = "each"
      THEN With(m, name, <<"list", Append(IF name \in DOMAIN m THEN m[name][2] ELSE <<>>, value)>>)
      ELSE IF IsOneof(message) THEN name :> value
      ELSE IF IsDefault(value) THEN Without(m, {name}) ELSE With(m, name, value)

ReadField(message, field, depth, m) ==
  LET fields == Messages[message].fields
      known  == {n \in DOMAIN fields : fields[n].id = field.id /\ WireType(fields[n].kind) = field.wire}
  IN  IF known = {} THEN IF field.wire \in Skippable THEN m ELSE Failure
      ELSE LET name  == CHOOSE n \in known : TRUE
               value == ReadValue(message, name, field.payload, depth, m)
           IN  IF value[1] = "error" THEN Failure ELSE Assign(message, name, value, m)

\* decode: the fields in turn, into the target
Decode(message, fields, depth, target) ==
  IF depth > RecursionLimit THEN Failure
  ELSE FoldLeft(LAMBDA m, f : IF Failing(m) THEN m ELSE ReadField(message, f, depth, m), target, fields)

-----------------------------------------------------------------------------
(* verify                                                                   *)

\* What a scalar may be, by the type that verify expects.
Admits(kind) ==
  CASE kind = "buffer"                                  -> {"bytes", "text"}
    [] kind \in {"integer", "enum", "long", "number"}   -> {"int"}
    [] kind = "boolean"                                 -> {"bool"}
    [] kind = "text"                                    -> {"text"}

RECURSIVE Verify(_, _, _)
VerifyValue(v, how, depth) ==
  CASE how.of \in DOMAIN Messages -> v[1] = "message" /\ Verify(how.of, v[2], depth + 1)
    [] how.of = "text"            -> v[1] = "text"
    [] OTHER                      -> v[1] \in Admits(how.kind)

\* verify returns null.
Verify(message, m, depth) ==
  /\ depth <= RecursionLimit
  /\ IsOneof(message) => Cardinality(DOMAIN m) <= 1
  /\ \A n \in DOMAIN m :
       LET how == Messages[message].shape[n]
       IN  IF how.kind = "each"
           THEN m[n][1] = "list" /\ \A i \in DOMAIN m[n][2] : VerifyValue(m[n][2][i], how, depth)
           ELSE VerifyValue(m[n], how, depth)

-----------------------------------------------------------------------------
(* fromObject                                                               *)

\* $String
ToText(j) == IF j[1] = "string" THEN j[2] ELSE <<"word", "printed">>

\* $Number, for what is to become an integer, which NaN does as 0.
ToNumber(j) ==
  CASE j[1] = "number"                             -> j[2]
    [] j[1] = "bool"                               -> IF j[2] THEN 1 ELSE 0
    [] j[1] = "string" /\ j[2][1] = "decimal"      -> j[2][2]
    [] OTHER                                       -> 0

\* $Boolean
ToBool(j) ==
  CASE j[1] = "bool"   -> j[2]
    [] j[1] = "number" -> j[2] # 0
    [] j[1] = "string" -> j[2] # EmptyText
    [] OTHER           -> j[1] # "null"

\* A buffer as it is, a string as base64; what has no length sets nothing.
ToBytes(j) ==
  CASE j[1] = "bytes"                              -> <<"bytes", j[2]>>
    [] j[1] = "string" /\ j[2] = EmptyText         -> <<"bytes", EmptyBytes>>
    [] j[1] = "string" /\ j[2][1] = "base64"       -> <<"bytes", j[2][2]>>
    [] j[1] = "string" /\ j[2][1] # "base64"       -> <<"error">>
    [] OTHER                                       -> <<"unset">>

EnumNames(of) ==
  CASE of = "SpanKind"       -> SpanKind
    [] of = "StatusCode"     -> StatusCode
    [] of = "SeverityNumber" -> SeverityNumber

\* A number as it is, a name as its number; anything else sets nothing.
ToEnum(j, of) ==
  CASE j[1] = "number" -> <<"int", j[2]>>
    [] j[1] = "string" /\ j[2][1] = "word" /\ j[2][2] \in DOMAIN EnumNames(of) -> <<"int", EnumNames(of)[j[2][2]]>>
    [] OTHER -> <<"unset">>

\* What a repeated field ignores
Falsy(j) == ~ToBool(j)

\* isObject: a list is one too, without any known member
IsObject(j) == j[1] \in {"object", "array"}
MembersOf(j) == IF j[1] = "object" THEN j[2] ELSE <<>>

RECURSIVE FromObject(_, _, _)
FromMember(j, how, depth) ==
  LET inner == FromObject(how.of, MembersOf(j), depth + 1)
      items == [i \in DOMAIN j[2] |->
                  IF how.of = "text" THEN <<"text", ToText(j[2][i])>>
                  ELSE IF ~IsObject(j[2][i]) THEN <<"error">>
                  ELSE <<"message", FromObject(how.of, MembersOf(j[2][i]), depth + 1)>>]
  IN  CASE how.kind = "each" -> IF Falsy(j) THEN <<"unset">>
                                ELSE IF j[1] # "array" THEN <<"error">>
                                ELSE IF \E i \in DOMAIN items :
                                          items[i][1] = "error" \/ (items[i][1] = "message" /\ Failing(items[i][2]))
                                     THEN <<"error">> ELSE <<"list", items>>
        [] how.kind # "each" /\ j[1] = "null" -> <<"unset">>
        [] how.kind = "one" /\ j[1] # "null"  -> IF ~IsObject(j) \/ Failing(inner) THEN <<"error">>
                                                 ELSE <<"message", inner>>
        [] how.kind = "text" /\ j[1] # "null"   -> <<"text", ToText(j)>>
        [] how.kind = "bytes" /\ j[1] # "null"  -> ToBytes(j)
        [] how.kind = "bool" /\ j[1] # "null"   -> <<"bool", ToBool(j)>>
        [] how.kind = "enum" /\ j[1] # "null"   -> ToEnum(j, how.of)
        [] OTHER                                -> <<"int", ToNumber(j)>>

\* fromObject: the known members of a plain object
FromObject(message, object, depth) ==
  LET members == Messages[message].members
      values  == [n \in DOMAIN object \cap DOMAIN members |-> FromMember(object[n], members[n], depth)]
      set     == {n \in DOMAIN values : values[n][1] # "unset" /\ (IsOneof(message) \/ ~IsDefault(values[n]))}
  IN  IF depth > RecursionLimit \/ \E n \in DOMAIN values : values[n][1] = "error" THEN Failure
      ELSE [n \in set |-> values[n]]

=============================================================================
