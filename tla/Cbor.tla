-------------------------------- MODULE Cbor --------------------------------
(***************************************************************************)
(* CBOR items as bytes (data/cbor.c): an item is a head, with a major type *)
(* and an argument of 64 bits, and for a string the bytes that follow.     *)
(***************************************************************************)
EXTENDS Tlv

UnsignedInteger == 0
NegativeInteger == 1
ByteString == 2
TextString == 3
Array == 4
Map == 5
SemanticTag == 6
Simple == 7

False == 20
True == 21

Not(v) == [i \in 1..8 |-> 255 - v[i]]
Small(n) == Unsigned(<<n \div 65536, (n \div 256) % 256, n % 256>>)
NumberOf(v) == v[6] * 65536 + v[7] * 256 + v[8]
IsSmall(v) == ~Greater(v, Small(16777215))
----------------------------------------------------------------------------
(* Writing.                                                                *)

\* prv_serialize_value.  The largest argument of a width is written with the
\* next width.
Below(v, limit) == Greater(Unsigned(limit), v)

PutHead(major, v) ==
  IF Below(v, <<24>>) THEN <<major * 32 + v[8]>>
  ELSE IF Below(v, <<255>>) THEN <<major * 32 + 24>> \o Low(v, 1)
  ELSE IF Below(v, <<255, 255>>) THEN <<major * 32 + 25>> \o Low(v, 2)
  ELSE IF Below(v, <<255, 255, 255, 255>>) THEN <<major * 32 + 26>> \o Low(v, 4)
  ELSE <<major * 32 + 27>> \o v

\* prv_serialize_float: a half, a float or a double.  A half has ten bits of
\* fraction; the test of a normal half lets twelve through.
HalfBytes(f, half) == <<249, f[1] * 128 + (half \div 256), half % 256>>

IsNormalHalf(f) == f[3] % 2048 = 0 /\ f[2] \in -14..15
IsDenormalHalf(f) == f[2] \in -24..-15 /\ f[3] % 2^(IF f[2] > -22 THEN 1 - f[2] ELSE 23) = 0

PutFloat(f) ==
  IF f[4] # 0 \/ BeyondFloat(f) THEN <<251>> \o DoubleBytes(f)
  ELSE IF f[2] = ZeroExponent THEN HalfBytes(f, 0)
  ELSE IF IsNormalHalf(f) THEN HalfBytes(f, (f[2] + 15) * 1024 + (f[3] \div 8192))
  ELSE IF IsDenormalHalf(f) THEN HalfBytes(f, (f[3] + 8388608) \div 2^(-1 - f[2]))
  ELSE <<250>> \o FloatBytes(f)

\* cbor_put_singular: the text of a link must leave its head one byte.
Put(item) ==
  CASE item.type \in {"string", "corelink"} -> PutHead(TextString, Small(Len(item.value))) \o item.value
    [] item.type = "opaque" -> PutHead(ByteString, Small(Len(item.value))) \o item.value
    [] item.type = "int" /\ IsNegative(item.value) -> PutHead(NegativeInteger, Not(item.value))
    [] item.type = "uint" \/ (item.type = "int" /\ ~IsNegative(item.value)) -> PutHead(UnsignedInteger, item.value)
    [] item.type = "float" -> PutFloat(item.value)
    [] item.type = "bool" -> PutHead(Simple, Small(IF item.value = <<1>> THEN True ELSE False))
    [] item.type = "link" -> PutHead(TextString, Small(Len(LinkToText(item.value)))) \o LinkToText(item.value)
    [] OTHER -> <<>>
----------------------------------------------------------------------------
(* Reading.                                                                *)

Info(b) == b[1] % 32

ArgumentWidth(info) ==
  CASE info = 24 -> 1 [] info = 25 -> 2 [] info = 26 -> 4 [] info = 27 -> 8 [] OTHER -> 0

\* cbor_get_type_and_value: the head of b is whole, and its argument can be kept.
Argument(b) ==
  IF ArgumentWidth(Info(b)) = 0 THEN Unsigned(<<Info(b)>>) ELSE Unsigned(SubSeq(b, 2, 1 + ArgumentWidth(Info(b))))

HeadReadable(b) ==
  /\ b # <<>>
  /\ Info(b) \notin 28..30
  /\ 1 + ArgumentWidth(Info(b)) <= Len(b)
  /\ b[1] \div 32 = NegativeInteger => ~IsNegative(Argument(b))

Major(b) == b[1] \div 32
AfterHead(b) == SubSeq(b, 2 + ArgumentWidth(Info(b)), Len(b))
HasTag(b) == HeadReadable(b) /\ Major(b) = SemanticTag

\* One tag is skipped.
Untagged(b) == IF HasTag(b) THEN AfterHead(b) ELSE b

\* The ten bits of a half's fraction, shifted until the highest is set.
Normalised(sign, fraction) ==
  LET k == CHOOSE k \in 0..9 : 2^k <= fraction /\ fraction < 2^(k + 1)
  IN  <<sign, k - 24, (fraction - 2^k) * 2^(23 - k), 0>>

OfHalf(b) ==
  LET exponent == (b[1] % 128) \div 4
      fraction == (b[1] % 4) * 256 + b[2]
  IN  IF exponent = 0 /\ fraction = 0 THEN <<b[1] \div 128, ZeroExponent, 0, 0>>
      ELSE IF exponent = 0 THEN Normalised(b[1] \div 128, fraction)
      ELSE <<b[1] \div 128, exponent - 15, fraction * 8192, 0>>

FloatOf(b) ==
  CASE Info(b) = 25 -> OfHalf(SubSeq(b, 2, 3))
    [] Info(b) = 26 -> OfFloat(SubSeq(b, 2, 5))
    [] OTHER -> OfDouble(SubSeq(b, 2, 9))

IsString(b) == Major(b) \in {ByteString, TextString}
StringLength(b) == NumberOf(Argument(b))
IsFloat(b) == Major(b) = Simple /\ Info(b) \in 25..27

\* cbor_get_singular of b without its tag: the item, and the bytes after it.
IsSingular(b) ==
  /\ HeadReadable(b)
  /\ \/ Major(b) \in {UnsignedInteger, NegativeInteger}
     \/ IsString(b) /\ IsSmall(Argument(b)) /\ StringLength(b) <= Len(AfterHead(b))
     \/ IsFloat(b)
     \/ Major(b) = Simple /\ Argument(b) \in {Small(False), Small(True)}

ItemOf(id, b) ==
  CASE Major(b) = UnsignedInteger -> Item(id, "uint", Argument(b))
    [] Major(b) = NegativeInteger -> Item(id, "int", Not(Argument(b)))
    [] IsString(b) -> Item(id, IF Major(b) = TextString THEN "string" ELSE "opaque",
                           SubSeq(AfterHead(b), 1, StringLength(b)))
    [] IsFloat(b) -> Item(id, "float", FloatOf(b))
    [] OTHER -> Item(id, "bool", IF Argument(b) = Small(True) THEN <<1>> ELSE <<0>>)

AfterItem(b) ==
  IF IsString(b) THEN SubSeq(AfterHead(b), 1 + StringLength(b), Len(AfterHead(b))) ELSE AfterHead(b)

\* cbor_parse: exactly one item.
ReadCbor(id, b) ==
  IF IsSingular(Untagged(b)) /\ AfterItem(Untagged(b)) = <<>> THEN <<ItemOf(id, Untagged(b))>> ELSE <<>>
=============================================================================
