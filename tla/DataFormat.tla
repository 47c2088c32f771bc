----------------------------- MODULE DataFormat -----------------------------
(***************************************************************************)
(* The payload of a message: which format an answer takes, how data is     *)
(* written in it and read from it (data/data.c, core/utils.c).  This is a  *)
(* build with TLV, CBOR and SenML CBOR and without the JSON formats.       *)
(***************************************************************************)
EXTENDS SenMl

TextFormat == 0
OpaqueFormat == 42
CborFormat == 60
SenMlCborFormat == 112
TlvFormat == 11542

SingleFormats == {TextFormat, OpaqueFormat, CborFormat}
Formats == SingleFormats \cup {SenMlCborFormat, TlvFormat}

\* utils_convertMediaType: what is not known is a text.
MediaType(contentType) == IF contentType \in Formats THEN contentType ELSE TextFormat

\* utils_getResponseFormat; NoFormat is 4.06.
NoFormat == 65535

\* Mutant: a resource with instances counts as one value.
MutSingular(items, resource) == resource

Singular(items, resource) == resource /\ (Len(items) = 1 => items[1].type \notin Collections)

FirstOf(accepted) == IF accepted = <<>> THEN NoFormat ELSE accepted[1]

ResponseFormat(accept, singular) ==
  IF accept = <<>> THEN IF singular THEN TextFormat ELSE SenMlCborFormat
  ELSE FirstOf(SelectSeq(accept, LAMBDA f : f \in Formats /\ (f \in SingleFormats => singular)))
----------------------------------------------------------------------------
(* Texts: prv_textSerialize.                                               *)

\* prv_encodeBlock, with the zero bytes that a last block of one or two lacks.
Alphabet(n) ==
  IF n < 26 THEN 65 + n ELSE IF n < 52 THEN 71 + n ELSE IF n < 62 THEN n - 4 ELSE IF n = 62 THEN 43 ELSE 47

EncodeBlock(a, b, c) ==
  <<Alphabet(a \div 4), Alphabet((a % 4) * 16 + (b \div 16)), Alphabet((b % 16) * 4 + (c \div 64)), Alphabet(c % 64)>>

RECURSIVE Base64(_)
Base64(bytes) ==
  CASE bytes = <<>> -> <<>>
    [] Len(bytes) = 1 -> SubSeq(EncodeBlock(bytes[1], 0, 0), 1, 2) \o <<61, 61>>
    [] Len(bytes) = 2 -> SubSeq(EncodeBlock(bytes[1], bytes[2], 0), 1, 3) \o <<61>>
    [] OTHER -> EncodeBlock(bytes[1], bytes[2], bytes[3]) \o Base64(SubSeq(bytes, 4, Len(bytes)))

\* utils_base64Decode: padding ends the text.
Base64Value(c) ==
  CASE 65 <= c /\ c <= 90 -> c - 65
    [] 97 <= c /\ c <= 122 -> c - 71
    [] 48 <= c /\ c <= 57 -> c + 4
    [] c = 43 -> 62
    [] c = 47 -> 63
    [] OTHER -> 255

DecodeBlock(a, b, c, d) ==
  <<(a * 4 + (b \div 16)) % 256, ((b % 16) * 16 + (c \div 4)) % 256, ((c % 4) * 64 + d) % 256>>

RECURSIVE DecodeValues(_)
DecodeValues(v) ==
  CASE Len(v) < 2 -> <<>>
    [] Len(v) = 2 -> SubSeq(DecodeBlock(v[1], v[2], 0, 0), 1, 1)
    [] Len(v) = 3 -> SubSeq(DecodeBlock(v[1], v[2], v[3], 0), 1, 2)
    [] OTHER -> DecodeBlock(v[1], v[2], v[3], v[4]) \o DecodeValues(SubSeq(v, 5, Len(v)))

Unpadded(text) == SelectSeq(text, LAMBDA c : c # 61)

Base64Decode(text) ==
  IF \E i \in DOMAIN Unpadded(text) : Base64Value(Unpadded(text)[i]) = 255 THEN <<>>
  ELSE DecodeValues([i \in DOMAIN Unpadded(text) |-> Base64Value(Unpadded(text)[i])])

\* The colon of a link goes to the sixth place of the buffer, which is its own
\* only after five digits; else the end of the first number stands there.
LinkText(link) ==
  U!Digits(link[1]) \o (IF Len(U!Digits(link[1])) = 5 THEN <<58>> ELSE <<0>>) \o U!Digits(link[2])

TextOf(item) ==
  CASE item.type \in {"string", "corelink"} -> item.value
    [] item.type = "int" -> IntToText(item.value)
    [] item.type = "uint" -> UintToText(item.value)
    [] item.type = "float" -> FloatText(item.value)
    [] item.type = "bool" -> <<48 + item.value[1]>>
    [] item.type = "link" -> LinkText(item.value)
    [] item.type = "opaque" -> Base64(item.value)
----------------------------------------------------------------------------
(* lwm2m_data_serialize.                                                   *)

\* A single value is asked for and there is more: the format is changed.
FinalFormat(uri, items, format) ==
  IF format \in SingleFormats /\ (Len(items) # 1 \/ uri.resource = U!NoId \/ items[1].type \in Collections)
    THEN SenMlCborFormat ELSE format

\* TLV: are the items instances of the resource that the URI names?
OfResource(uri, items) ==
  \/ uri.resourceInstance # U!NoId
  \/ uri.resource # U!NoId /\ (Len(items) # 1 \/ items[1].id # uri.resource)

Writable(uri, items, format) ==
  CASE format = TlvFormat ->
         /\ uri.resourceInstance # U!NoId => Len(items) = 1 /\ items[1].id = uri.resourceInstance
         /\ AllWritable(items)
    [] format = SenMlCborFormat -> SenMlWritable(uri, items)
    [] format = OpaqueFormat -> items[1].type = "opaque"
    [] OTHER -> HasValue(items[1])

Write(uri, items, format) ==
  CASE format = TlvFormat -> WriteTlv(OfResource(uri, items), items)
    [] format = SenMlCborFormat -> WriteSenMl(uri, items)
    [] format = TextFormat -> TextOf(items[1])
    [] format = CborFormat -> Put(items[1])
    [] OTHER -> items[1].value

\* lwm2m_data_parse: none when it fails.
SingleId(uri) == IF uri.resourceInstance # U!NoId THEN uri.resourceInstance ELSE uri.resource

ReadSingle(uri, bytes, format) ==
  CASE format = TextFormat -> <<Item(SingleId(uri), "string", bytes)>>
    [] format = OpaqueFormat -> <<Item(SingleId(uri), "opaque", bytes)>>
    [] OTHER -> ReadCbor(SingleId(uri), bytes)

ReadData(uri, bytes, format) ==
  CASE format = TlvFormat -> ReadTlv(bytes, <<>>)
    [] format = SenMlCborFormat -> ReadSenMl(uri, bytes)
    [] OTHER -> IF uri.resource = U!NoId THEN <<>> ELSE ReadSingle(uri, bytes, format)
=============================================================================
