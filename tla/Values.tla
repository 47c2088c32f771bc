------------------------------- MODULE Values -------------------------------
(***************************************************************************)
(* The values of resources.  A 64-bit integer is the tuple of its eight    *)
(* bytes, the highest first, because TLC counts in 32 bits.  A double is   *)
(* <<sign, exponent, high, low>>, with the 23 bits of the fraction that a  *)
(* float has room for and the 29 bits it has not; zero has the exponent    *)
(* ZeroExponent.  Below: the integer conversions of core/utils.c and the   *)
(* byte strings data formats share.                                        *)
(***************************************************************************)
EXTENDS Integers, Sequences, SequencesExt

Refused == <<>>        \* the conversion failed

Fill(n, byte) == [i \in 1..n |-> byte]

\* The value of a string of at most eight bytes, read without or with a sign.
Unsigned(bytes) == Fill(8 - Len(bytes), 0) \o bytes
Signed(bytes) == Fill(8 - Len(bytes), IF bytes[1] >= 128 THEN 255 ELSE 0) \o bytes

Low(v, width) == SubSeq(v, 9 - width, 8)
IsNegative(v) == v[1] >= 128

\* a > b as unsigned numbers
Greater(a, b) ==
  \E i \in 1..8 : a[i] > b[i] /\ \A j \in 1..i - 1 : a[j] = b[j]

\* From the right: every byte by factor, and what is carried.
Multiplied(v, factor, add) ==
  FoldRight(LAMBDA byte, acc : [bytes |-> <<(byte * factor + acc.carry) % 256>> \o acc.bytes,
                                carry |-> (byte * factor + acc.carry) \div 256],
            v, [bytes |-> <<>>, carry |-> add]).bytes

Negated(v) == Multiplied([i \in 1..8 |-> 255 - v[i]], 1, 1)

\* From the left: the quotient and the remainder by ten.
DividedByTen(v) ==
  FoldLeft(LAMBDA acc, byte : [quotient |-> Append(acc.quotient, (acc.rest * 256 + byte) \div 10),
                               rest |-> (acc.rest * 256 + byte) % 10],
           [quotient |-> <<>>, rest |-> 0], v)

\* utils_uintToText
RECURSIVE UintToText(_)
UintToText(v) ==
  IF Greater(v, Unsigned(<<9>>))
    THEN Append(UintToText(DividedByTen(v).quotient), 48 + DividedByTen(v).rest)
    ELSE <<48 + v[8]>>

\* utils_intToText
IntToText(v) == IF IsNegative(v) THEN <<45>> \o UintToText(Negated(v)) ELSE UintToText(v)

\* One digit more.  The test is made before the digit is added, and the sum
\* may pass 2^64.
UintMaxByTen == <<25, 153, 153, 153, 153, 153, 153, 153>>

AddDigit(v, c) ==
  IF v = Refused \/ ~(48 <= c /\ c <= 57) THEN Refused
  ELSE IF Greater(v, UintMaxByTen) THEN Refused
  ELSE Multiplied(v, 10, c - 48)

\* utils_textToUInt
TextToUint(text) == IF text = <<>> THEN Refused ELSE FoldLeft(AddDigit, Unsigned(<<>>), text)

\* utils_textToInt
IntMin == <<128, 0, 0, 0, 0, 0, 0, 0>>

WithSign(v, negative) ==
  IF v = Refused \/ Greater(v, IntMin) \/ (v = IntMin /\ ~negative) THEN Refused
  ELSE IF negative THEN Negated(v) ELSE v

TextToInt(text) ==
  IF text = <<>> THEN Refused
  ELSE IF text[1] = 45 THEN WithSign(FoldLeft(AddDigit, Unsigned(<<>>), Tail(text)), TRUE)
  ELSE WithSign(TextToUint(text), FALSE)

\* An id of 16 bits among the integers, and back.
Id(n) == Unsigned(<<n \div 256, n % 256>>)
IdOf(v) == v[7] * 256 + v[8]
MaxId == Id(65535)

\* utils_objLinkToText and utils_textToObjLink
LinkToText(link) == UintToText(Id(link[1])) \o <<58>> \o UintToText(Id(link[2]))

LinkOf(object, instance) ==
  IF object = Refused \/ instance = Refused THEN Refused
  ELSE IF Greater(object, MaxId) \/ Greater(instance, MaxId) THEN Refused
  ELSE <<IdOf(object), IdOf(instance)>>

TextToLink(text) ==
  IF \A i \in DOMAIN text : text[i] # 58 THEN Refused
  ELSE LinkOf(TextToUint(SubSeq(text, 1, SelectInSeq(text, LAMBDA c : c = 58) - 1)),
              TextToUint(SubSeq(text, SelectInSeq(text, LAMBDA c : c = 58) + 1, Len(text))))
----------------------------------------------------------------------------
(* Doubles and floats.                                                     *)

ZeroExponent == -1023

Zero == <<0, ZeroExponent, 0, 0>>

\* |f| is more than FLT_MAX
BeyondFloat(f) ==
  \/ f[2] > 127
  \/ f[2] = 127 /\ f[3] = 8388607 /\ f[4] > 0

\* The cast to float rounds to the nearest, and to the even one of two.
RoundsUp(f) == f[4] > 268435456 \/ (f[4] = 268435456 /\ f[3] % 2 = 1)

ToFloat(f) ==
  IF ~RoundsUp(f) THEN <<f[1], f[2], f[3], 0>>
  ELSE IF f[3] = 8388607 THEN <<f[1], f[2] + 1, 0, 0>>
  ELSE <<f[1], f[2], f[3] + 1, 0>>

\* The bytes of a double and of a float.
DoubleBytes(f) ==
  <<f[1] * 128 + ((f[2] + 1023) \div 16),
    ((f[2] + 1023) % 16) * 16 + (f[3] \div 524288),
    (f[3] \div 2048) % 256, (f[3] \div 8) % 256,
    (f[3] % 8) * 32 + (f[4] \div 16777216),
    (f[4] \div 65536) % 256, (f[4] \div 256) % 256, f[4] % 256>>

FloatExponent(f) == IF f[2] = ZeroExponent THEN 0 ELSE f[2] + 127

FloatBytes(f) ==
  <<f[1] * 128 + (FloatExponent(f) \div 2),
    (FloatExponent(f) % 2) * 128 + (f[3] \div 65536), (f[3] \div 256) % 256, f[3] % 256>>

OfDouble(b) ==
  <<b[1] \div 128, (b[1] % 128) * 16 + (b[2] \div 16) - 1023,
    (b[2] % 16) * 524288 + b[3] * 2048 + b[4] * 8 + (b[5] \div 32),
    (b[5] % 32) * 16777216 + b[6] * 65536 + b[7] * 256 + b[8]>>

OfFloat(b) ==
  <<b[1] \div 128,
    IF b[1] % 128 = 0 /\ b[2] < 128 THEN ZeroExponent ELSE (b[1] % 128) * 2 + (b[2] \div 128) - 127,
    (b[2] % 128) * 65536 + b[3] * 256 + b[4], 0>>

\* utils_floatToText writes about fifteen digits, and strtod reads the double
\* that is next to them.  A short one is written with all its digits: zero, and
\* what is of 2^-3 to 8 and a multiple of 2^-15.  Of the others only that a near
\* one comes back is told, and not which.  256 and 257 are no bytes.
Short(f) ==
  \/ f = Zero
  \/ f[2] \in -3..2 /\ f[4] = 0 /\ f[3] % (2 ^ (8 - f[2])) = 0

FloatText(f) == <<256>> \o f
IsFloatText(text) == Len(text) = 5 /\ text[1] = 256

Near(f) == <<257>> \o f

\* utils_textToFloat
TextToFloat(text) == IF Short(Tail(text)) THEN Tail(text) ELSE Near(Tail(text))
=============================================================================
