-------------------------------- MODULE Tlv --------------------------------
(***************************************************************************)
(* The TLV form of LwM2M data (data/tlv.c).                                *)
(***************************************************************************)
EXTENDS Items

\* prv_encodeInt, prv_encodeUInt and prv_encodeFloat
\* Mutant: the sign is forgotten.
MutFitsSigned(v, width) == Unsigned(Low(v, width)) = v

FitsSigned(v, width) == Signed(Low(v, width)) = v
FitsUnsigned(v, width) == Unsigned(Low(v, width)) = v

EncodeInt(v) ==
  Low(v, IF FitsSigned(v, 1) THEN 1 ELSE IF FitsSigned(v, 2) THEN 2 ELSE IF FitsSigned(v, 4) THEN 4 ELSE 8)

EncodeUint(v) ==
  Low(v, IF FitsUnsigned(v, 1) THEN 1 ELSE IF FitsUnsigned(v, 2) THEN 2
         ELSE IF FitsUnsigned(v, 4) THEN 4 ELSE 8)

EncodeFloat(f) == IF BeyondFloat(f) THEN DoubleBytes(f) ELSE FloatBytes(ToFloat(f))

LeafBytes(item) ==
  CASE item.type = "int" -> EncodeInt(item.value)
    [] item.type = "uint" -> EncodeUint(item.value)
    [] item.type = "float" -> EncodeFloat(item.value)
    [] item.type = "link" -> <<item.value[1] \div 256, item.value[1] % 256,
                               item.value[2] \div 256, item.value[2] % 256>>
    [] item.type \in Buffers \cup {"bool"} -> item.value
----------------------------------------------------------------------------
(* prv_createHeader and tlv_serialize.                                     *)

HeaderLength(id, length) ==
  2 + (IF id > 255 THEN 1 ELSE 0)
    + (IF length > 65535 THEN 3 ELSE IF length > 255 THEN 2 ELSE IF length > 7 THEN 1 ELSE 0)

TypeBits(type, isInstance) ==
  CASE isInstance -> 64
    [] ~isInstance /\ type = "instance" -> 0
    [] ~isInstance /\ type = "multiple" -> 128
    [] OTHER -> 192

LengthBits(length) ==
  IF length <= 7 THEN length ELSE IF length <= 255 THEN 8 ELSE IF length <= 65535 THEN 16 ELSE 24

LengthField(length) ==
  IF length <= 7 THEN <<>> ELSE IF length <= 255 THEN <<length>>
  ELSE IF length <= 65535 THEN <<length \div 256, length % 256>>
  ELSE <<length \div 65536, (length \div 256) % 256, length % 256>>

Header(isInstance, type, id, length) ==
  <<TypeBits(type, isInstance) + (IF id > 255 THEN 32 ELSE 0) + LengthBits(length)>>
  \o (IF id > 255 THEN <<id \div 256, id % 256>> ELSE <<id>>)
  \o LengthField(length)

WriteContainer(item, body) == Header(FALSE, item.type, item.id, Len(body)) \o body

\* tlv_serialize writes the items below a multiple resource as instances.
RECURSIVE WriteTlv(_, _), WriteItem(_, _)
WriteTlv(isInstance, items) ==
  FlattenSeq([i \in DOMAIN items |-> WriteItem(isInstance, items[i])])
WriteItem(isInstance, item) ==
  IF item.type \in Containers
    THEN WriteContainer(item, WriteTlv(isInstance \/ item.type = "multiple", item.value))
    ELSE Header(isInstance, item.type, item.id, Len(LeafBytes(item))) \o LeafBytes(item)

RECURSIVE AllWritable(_)
AllWritable(items) ==
  \A i \in DOMAIN items : \/ items[i].type \in Leaves
                          \/ items[i].type \in Containers /\ AllWritable(items[i].value)

\* prv_getLength: what tlv_serialize allocates, computed apart.
LeafLength(item) ==
  CASE item.type = "float" -> IF BeyondFloat(item.value) THEN 8 ELSE 4
    [] item.type = "bool" -> 1
    [] item.type = "link" -> 4
    [] OTHER -> Len(LeafBytes(item))

RECURSIVE TlvLength(_), ItemLength(_)
TlvLength(items) ==
  FoldLeft(LAMBDA sum, item : sum + ItemLength(item), 0, items)
ItemLength(item) ==
  IF item.type \in Containers THEN HeaderLength(item.id, TlvLength(item.value)) + TlvLength(item.value)
  ELSE HeaderLength(item.id, LeafLength(item)) + LeafLength(item)
----------------------------------------------------------------------------
(* lwm2m_decode_TLV and tlv_parse.                                         *)

IdBytes(b) == (b[1] \div 32) % 2
LengthBytes(b) == (b[1] \div 8) % 4
DataIndex(b) == 2 + IdBytes(b) + LengthBytes(b)

TlvId(b) == IF IdBytes(b) = 1 THEN b[2] * 256 + b[3] ELSE b[2]

DataLength(b) ==
  IF LengthBytes(b) = 0 THEN b[1] % 8
  ELSE FoldLeft(LAMBDA n, byte : n * 256 + byte, 0, SubSeq(b, 3 + IdBytes(b), DataIndex(b)))

Decodable(b) ==
  /\ Len(b) >= 2
  /\ DataIndex(b) <= Len(b)
  /\ DataIndex(b) + DataLength(b) <= Len(b)

TlvType(b) == CASE b[1] \div 64 = 0 -> "instance" [] b[1] \div 64 = 2 -> "multiple" [] OTHER -> "opaque"

\* What cannot be decoded ends the list; a container with nothing in it that
\* can be decoded makes the whole parse fail.
RECURSIVE ReadTlv(_, _), ReadNext(_, _, _, _, _), ReadContainer(_, _, _, _, _)
ReadTlv(b, items) ==
  IF ~Decodable(b) THEN items
  ELSE ReadNext(TlvType(b), TlvId(b), SubSeq(b, DataIndex(b) + 1, DataIndex(b) + DataLength(b)),
                SubSeq(b, DataIndex(b) + DataLength(b) + 1, Len(b)), items)
ReadNext(type, id, body, rest, items) ==
  IF type = "opaque" THEN ReadTlv(rest, Append(items, Item(id, "opaque", body)))
  ELSE ReadContainer(type, id, ReadTlv(body, <<>>), rest, items)
ReadContainer(type, id, below, rest, items) ==
  IF below = <<>> THEN <<>> ELSE ReadTlv(rest, Append(items, Item(id, type, below)))
=============================================================================
