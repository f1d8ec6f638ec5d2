----------------------------- MODULE RecordCodec -----------------------------
(***************************************************************************)
(* What the logging calls write and what the readers make of it: vlog()    *)
(* and the span messages with the sizes they reserve, the parser of the    *)
(* fabric (preparse_messages), and the decoders of the viewer.             *)
(*                                                                         *)
(* A value is [cpp, n, fails]: its kind of C++ type, a number that stands  *)
(* for its size or its value, and whether its codec fails to encode it.    *)
(* A call of a logging function is a record, see Calls in BufferBus.       *)
(***************************************************************************)
EXTENDS Items

None == 99  \* no instrumentation scope (data() is null), no source location

-----------------------------------------------------------------------------
(* Values, as arguments and as attributes.                                  *)

\* effective_reification_tag_v: the number that names the type on the wire.
Tag(cpp) ==
    CASE cpp = "unsigned" -> 0 [] cpp = "signed" -> 1 [] cpp = "double" -> 3
      [] cpp = "text" -> 5 [] cpp = "system_code" -> 6 [] cpp = "status_code" -> 7
      [] cpp = "user" -> 128

\* The names of a status code's domain and its message.
Names == <<Text("domain", 2), Text("message", 3)>>

\* The id of a domain has n bytes on the wire.
DomainId(n) == Item("uint", 0, n, 0)

ValueItems(v) ==
    CASE v.cpp \in {"unsigned", "user"} -> <<Uint(v.n)>>
      [] v.cpp = "signed" -> <<Item("int", v.n, HeadSize(v.n), 0)>>
      [] v.cpp = "double" -> <<Item("float", v.n, 9, 0)>>
      [] v.cpp = "text" -> <<Text("value", v.n)>>
      [] v.cpp = "system_code" -> <<Array(4), DomainId(v.n), Uint(0)>> \o Names
      [] v.cpp = "status_code" -> <<Array(3), DomainId(v.n)>> \o Names

\* The size of a status code counts nine bytes for the id of its domain.
ValueSize(v) ==
    CASE v.cpp = "system_code" -> 10 + HeadSize(0) + TextSize(2) + TextSize(3)
      [] v.cpp = "status_code" -> 10 + TextSize(2) + TextSize(3)
      [] OTHER -> Bytes(ValueItems(v))

\* Types the library does not know are sized and encoded by a function of their own, the
\* only one that may fail.
Thunked(v) == v.cpp = "user"
ThunkSize(v) == 1 + HeadSize(Tag(v.cpp)) + ValueSize(v)
ThunkItems(v) == <<Array(2), Uint(Tag(v.cpp))>> \o IF v.fails THEN <<>> ELSE ValueItems(v)

ArgumentItems(v) == IF Thunked(v) THEN ThunkItems(v)
                    ELSE <<Array(2), Uint(Tag(v.cpp))>> \o ValueItems(v)
ArgumentSize_NoTag(v) == IF Thunked(v) THEN ThunkSize(v) ELSE 1 + ValueSize(v)  \* mutant
ArgumentSize(v) == IF Thunked(v) THEN ThunkSize(v) ELSE 1 + HeadSize(Tag(v.cpp)) + ValueSize(v)

\* Attributes are [id, value], with the value's type known by the id.
AttributeItems(a) == <<Uint(a.id)>> \o ValueItems(a.value)
AttributeSize(a) == HeadSize(a.id) + ValueSize(a.value)
Attributes(as) == <<Map(Len(as))>> \o FlattenSeq([k \in DOMAIN as |-> AttributeItems(as[k])])
AttributesSize(as) == HeadSize(Len(as)) + Fold(LAMBDA n, a : n + AttributeSize(a), 0, as)

\* A sink's attributes are encoded into as many bytes, zero at first, as their size.
SinkAttributes(as) ==
    IF as = <<>> THEN <<Map(0)>>
    ELSE Attributes(as) \o Times(AttributesSize(as) - Bytes(Attributes(as)), Uint(0))

-----------------------------------------------------------------------------
(* vlog(): a record of a severity, the context (scope and owning span), the *)
(* time, the text, its arguments and the attributes line and file.          *)

Flag(b) == IF b THEN 1 ELSE 0
ContextSize(c) ==
    1 + (IF c.scope \in {0, None} THEN 0 ELSE TextSize(c.scope)) + IF c.span THEN 17 + 9 ELSE 0

ContextItems(c) ==
    <<Array(Flag(c.scope # None) + 2 * Flag(c.span))>>
    \o (IF c.scope # None THEN <<Text("scope", c.scope)>> ELSE <<>>)
    \o IF c.span THEN <<Binary(16), Binary(8)>> ELSE <<>>

\* How many arguments are written before one cannot be encoded.
Encodable(c) == IF \E k \in DOMAIN c.args : c.args[k].fails
                THEN Min({k \in DOMAIN c.args : c.args[k].fails}) ELSE Len(c.args) + 1

Location(c) ==
    <<Map(Flag(c.line # None) + Flag(c.file # None))>>
    \o (IF c.line # None THEN <<Uint(3), Uint(c.line)>> ELSE <<>>)
    \o IF c.file # None THEN <<Uint(2), Text("file", c.file)>> ELSE <<>>
LocationSize(c) ==
    1 + (IF c.line # None THEN 1 + HeadSize(c.line) ELSE 0)
      + IF c.file # None THEN 1 + TextSize(c.file) ELSE 0

RecordSize(c) ==
    1 + 1 + 9 + ContextSize(c) + TextSize(c.text) + HeadSize(Len(c.args))
    + Fold(LAMBDA n, v : n + ArgumentSize(v), 0, c.args) + LocationSize(c)

RecordItems(c, id, time) ==
    LET written == SubSeq(c.args, 1, Min({Encodable(c), Len(c.args)}))
    IN <<Array(6), Uint(c.sev - 1)>> \o ContextItems(c)
       \o <<Wide(time), Text(id, c.text), Array(Len(c.args))>>
       \o FlattenSeq([k \in DOMAIN written |-> ArgumentItems(written[k])])
       \o IF Encodable(c) > Len(c.args) THEN Location(c) ELSE <<>>

(* The start and the end of a span (span_start_msg, span_end_msg).          *)

SpanContext(known) == IF known THEN <<Array(2), Binary(16), Binary(8)>> ELSE <<Null>>
SpanContextSize(known) == IF known THEN 1 + 17 + 9 ELSE 1

\* The name and the attributes of a span that starts are taken from the call.
SpanStartItems(c, time) ==
    <<Array(7)>> \o SpanContext(TRUE) \o <<Uint(0)>> \o SpanContext(c.span)
    \o <<Wide(time), Text("name", c.text), Array(0)>> \o Attributes(c.attributes)
SpanStartSize(c) ==
    1 + SpanContextSize(TRUE) + 1 + SpanContextSize(c.span) + 9 + TextSize(c.text) + 1
    + AttributesSize(c.attributes)
SpanEndItems(time) == <<Array(2)>> \o SpanContext(TRUE) \o <<Wide(time)>>
SpanEndSize == 1 + SpanContextSize(TRUE) + 9

-----------------------------------------------------------------------------
(* The parser of the fabric: what kind of message a block holds, and which  *)
(* part of it is the message.                                               *)

RawFields(want, item) ==
    CASE want = "message" /\ item.type = "array" /\ item.value = 6 ->
           <<"severity", "any", "uint", "any", "any", "any">>
      [] want = "message" /\ item.type = "array" /\ item.value \in {2, 7} ->
           Times(item.value, "any")
      [] want = "severity" /\ item.type = "uint" /\ item.value < 24 -> <<>>
      [] want = "uint" /\ item.type = "uint" -> <<>>
      [] want = "any" -> Skip(item)
      [] OTHER -> Refused

Kind(items) == CASE items[1].value = 6 -> "record" [] items[1].value = 7 -> "span_start"
                 [] items[1].value = 2 -> "span_end" [] OTHER -> "malformed"

\* The part of a malformed message that is kept is written through a pointer into the
\* alternative of the variant that is gone: it takes effect or it does not.
Preparsed(items, takesEffect) ==
    LET parse == Parse(RawFields, <<"message">>, items)
        raw == SubSeq(items, 1, parse.used)
    IN IF Parsed(parse)
       THEN [kind |-> Kind(items), raw |-> raw,
             severity |-> IF Kind(items) = "record" THEN items[2].value + 1 ELSE 0]
       ELSE [kind |-> "malformed", raw |-> IF takesEffect THEN raw ELSE items, severity |-> 0]

-----------------------------------------------------------------------------
(* The decoders of a record container, with the types the viewer registers. *)

KnownArguments == {0, 1, 6, 7}
Revived(tag) == CASE tag = 0 -> "uint" [] tag = 1 -> "int"
                  [] tag = 6 -> "system_code" [] tag = 7 -> "status_code"
KnownAttributes == {2, 3, 4, 256}
RevivedAttribute(id) == IF id \in {2, 4} THEN "text" ELSE "uint"

RecordFields == <<"severity", "context", "uint", "text", "arguments", "attributes">>

ContextFields(flags) ==
    (IF flags \in {1, 3} THEN <<"text">> ELSE <<>>)
    \o IF flags \in {2, 3} THEN <<"binary", "binary">> ELSE <<>>

MessageField(want, item) ==
    CASE want = "message" /\ item.type = "array" /\ item.value = 6 -> RecordFields
      [] want = "message" /\ item.type = "array" /\ item.value \in {2, 7} ->
           Times(item.value, "any")
      [] want = "context" /\ item.type = "array" /\ item.value <= 3 -> ContextFields(item.value)
      [] OTHER -> Refused

\* Arguments come as type and value, or with their name in between.
ArgumentField(want, item) ==
    CASE want = "arguments" /\ item.type = "array" -> Times(item.value, "argument")
      [] want = "argument" /\ item.type = "array" /\ item.value = 2 -> <<"type">>
      [] want = "argument" /\ item.type = "array" /\ item.value = 3 -> <<"named type">>
      [] item.type = "uint" /\ item.value \in KnownArguments ->
           IF want = "type" THEN <<Revived(item.value)>> ELSE <<"text", Revived(item.value)>>
      [] OTHER -> Refused

AttributeField(want, item) ==
    CASE want = "attributes" /\ item.type = "map" -> Times(item.value, "attribute")
      [] want = "attribute" /\ item.type = "uint" /\ item.value \in KnownAttributes ->
           <<RevivedAttribute(item.value)>>
      [] OTHER -> Refused

StatusField(want, item) ==
    CASE want = "status_code" /\ item.type = "array" /\ item.value = 3 ->
           <<"uint", "text", "text">>
      [] want = "system_code" /\ item.type = "array" /\ item.value = 4 ->
           <<"uint", "int", "text", "text">>
      [] OTHER -> Refused

PlainField(want, item) ==
    CASE want = "severity" /\ item.type = "uint" /\ item.value < 24 -> <<>>
      [] want = "int" /\ item.type \in {"uint", "int"} -> <<>>
      [] want = item.type -> <<>>
      [] OTHER -> Refused

Fields(want, item) ==
    CASE want = "any" -> Skip(item)
      [] want \in {"message", "context"} -> MessageField(want, item)
      [] want \in {"arguments", "argument", "type", "named type"} -> ArgumentField(want, item)
      [] want \in {"attributes", "attribute"} -> AttributeField(want, item)
      [] want \in {"status_code", "system_code"} -> StatusField(want, item)
      [] OTHER -> PlainField(want, item)

\* A message is decoded if it is all that the decoder reads.  After one that is not,
\* the decoder would find what is wanted next in the following message, or the break,
\* where none of it is.
Decodes(items) ==
    LET parse == Parse(Fields, <<"message">>, items)
    IN Parsed(parse) /\ parse.used = Len(items)

\* The fields of a record that are shown.
Decoded(items) ==
    LET flags == items[3].value
        skip == Flag(flags \in {1, 3}) + 2 * Flag(flags \in {2, 3})
    IN [severity |-> items[2].value + 1, scope |-> flags \in {1, 3}, span |-> flags \in {2, 3},
        time |-> items[4 + skip].value, text |-> items[5 + skip].value]
=============================================================================
