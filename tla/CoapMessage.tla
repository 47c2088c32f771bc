---------------------------- MODULE CoapMessage ----------------------------
(***************************************************************************)
(* A CoAP message as the record the program fills in, and as the datagram  *)
(* it sends (coap/er-coap-13).  Bytes are numbers 0..255 and texts are     *)
(* sequences of bytes.  The options of a message are a function from the   *)
(* numbers that are set to their values: a sequence of segments, a string  *)
(* of bytes, a number, a sequence of numbers (Accept) or a block.          *)
(* The definitions are operators that TLC evaluates; Formats uses them.    *)
(***************************************************************************)
EXTENDS Integers, Sequences, SequencesExt

CONSTANT ServerMode    \* a build with LWM2M_SERVER_MODE reads messages

IfMatch == 1
UriHost == 3
ETag == 4
IfNoneMatch == 5
Observe == 6
UriPort == 7
LocationPath == 8
UriPath == 11
ContentType == 12
MaxAge == 14
UriQuery == 15
Accept == 17
LocationQuery == 20
Block2 == 23
Block1 == 27
Size == 28
ProxyUri == 35

MultiOptions == {LocationPath, UriPath, UriQuery}
ByteOptions == {IfMatch, ETag, UriHost, ProxyUri}
IntOptions == {IfNoneMatch, Observe, UriPort, ContentType, MaxAge, Size}
BlockOptions == {Block1, Block2}

\* The order in which coap_serialize_message writes the options.
Order == <<IfMatch, UriHost, ETag, IfNoneMatch, Observe, UriPort, LocationPath,
           UriPath, ContentType, MaxAge, UriQuery, Accept, LocationQuery,
           Block2, Block1, Size, ProxyUri>>
----------------------------------------------------------------------------
(* The record: coap_init_message and the setters the program uses.         *)

Message(type, code, mid) ==
  [type |-> type, code |-> code, mid |-> mid, token |-> <<>>,
   options |-> <<>>, payload |-> <<>>]

Has(msg, number) == number \in DOMAIN msg.options

Set(msg, number, value) == [msg EXCEPT !.options = (number :> value) @@ @]

SetToken(msg, token) == [msg EXCEPT !.token = SubSeq(token, 1, IF Len(token) < 8 THEN Len(token) ELSE 8)]

\* The length of a segment is kept in a uint8_t.
Segment(bytes) == SubSeq(bytes, 1, Len(bytes) % 256)

AddSegment(msg, number, bytes) ==
  Set(msg, number, Append(IF Has(msg, number) THEN msg.options[number] ELSE <<>>, Segment(bytes)))

\* The loop of the path and query setters: it leaves after a separator that
\* ends the text, so that no empty segment follows it.
RECURSIVE Segments(_, _)
Segments(text, separator) ==
  IF \A i \in 1..Len(text) : text[i] # separator
    THEN <<Segment(text)>>
    ELSE <<Segment(SubSeq(text, 1, SelectInSeq(text, LAMBDA c : c = separator) - 1))>>
         \o IF SelectInSeq(text, LAMBDA c : c = separator) = Len(text) THEN <<>>
            ELSE Segments(SubSeq(text, SelectInSeq(text, LAMBDA c : c = separator) + 1, Len(text)), separator)

Without(text, first) == IF text # <<>> /\ text[1] = first THEN Tail(text) ELSE text

SetUriPath(msg, path) == Set(msg, UriPath, Segments(Without(path, 47), 47))
SetUriQuery(msg, query) == Set(msg, UriQuery, Segments(Without(query, 63), 38))
SetLocationPath(msg, path) == Set(msg, LocationPath, Segments(Without(path, 47), 47))

SetObserve(msg, counter) == Set(msg, Observe, counter % 16777216)

SetAccept(msg, format) ==
  IF ~Has(msg, Accept) THEN Set(msg, Accept, <<format>>)
  ELSE IF Len(msg.options[Accept]) < 2 THEN Set(msg, Accept, Append(msg.options[Accept], format))
  ELSE msg

SetBlock(msg, number, num, more, size) ==
  IF size < 16 \/ size > 2048 \/ num > 1048575 THEN msg
  ELSE Set(msg, number, [num |-> num, more |-> more, size |-> size])

SetPayload(msg, payload) == [msg EXCEPT !.payload = SubSeq(payload, 1, Len(payload) % 65536)]
----------------------------------------------------------------------------
(* Writing: coap_serialize_message.                                        *)

\* coap_serialize_int_option: the bytes of a number, none for zero.
IntBytes(value) ==
  LET width == IF value = 0 THEN 0 ELSE IF value < 256 THEN 1 ELSE IF value < 65536 THEN 2
               ELSE IF value < 16777216 THEN 3 ELSE 4
  IN  [i \in 1..width |-> (value \div 256^(width - i)) % 256]

\* coap_log_2 of the size in units of 16 bytes.
Log2(value) == CHOOSE k \in 0..15 : 2^k <= value /\ value < 2^(k + 1)

BlockWord(block) == block.num * 16 + (IF block.more THEN 8 ELSE 0) + Log2(block.size \div 16)

\* coap_serialize_array_option with a split character: the part after a
\* separator starts one byte later, and that byte is not looked at.
RECURSIVE Parts(_, _, _)
Parts(text, from, j) ==
  IF j > Len(text) + 1 THEN <<>>
  ELSE IF j = Len(text) + 1 \/ text[j] = 38
    THEN <<SubSeq(text, from, j - 1)>> \o Parts(text, j + 1, j + 2)
    ELSE Parts(text, from, j + 1)

\* The strings of bytes an option is written as, one for each occurrence.
Occurrences(number, value) ==
  CASE number \in MultiOptions -> value
    [] number \in ByteOptions -> <<value>>
    [] number = IfNoneMatch -> <<<<>>>>
    [] number \in IntOptions -> <<IntBytes(value)>>
    [] number = Accept -> [i \in 1..Len(value) |-> IntBytes(value[i])]
    [] number = LocationQuery -> Parts(value, 1, 1)
    [] number \in BlockOptions -> <<IntBytes(BlockWord(value))>>

\* Mutant: a length of 269 is written with one byte more, not two.
MutNibble(n) == IF n < 13 THEN n ELSE IF n <= 269 THEN 13 ELSE 14

Nibble(n) == IF n < 13 THEN n ELSE IF n <= 268 THEN 13 ELSE 14

Extended(n) ==
  IF n > 268 THEN <<((n - 269) \div 256) % 256, (n - 269) % 256>>
  ELSE IF n > 12 THEN <<n - 13>> ELSE <<>>

OptionHeader(delta, length) == <<Nibble(delta) * 16 + Nibble(length)>> \o Extended(delta) \o Extended(length)

RECURSIVE WriteAll(_, _)
WriteAll(delta, strings) ==
  IF strings = <<>> THEN <<>>
  ELSE OptionHeader(delta, Len(strings[1])) \o strings[1] \o WriteAll(0, Tail(strings))

RECURSIVE WriteOptions(_, _, _)
WriteOptions(msg, order, current) ==
  IF order = <<>> THEN <<>>
  ELSE IF ~Has(msg, order[1]) THEN WriteOptions(msg, Tail(order), current)
  ELSE WriteAll(order[1] - current, Occurrences(order[1], msg.options[order[1]]))
       \o WriteOptions(msg, Tail(order), order[1])

Serialize(msg) ==
  <<64 + msg.type * 16 + Len(msg.token), msg.code, msg.mid \div 256, msg.mid % 256>>
  \o msg.token
  \o WriteOptions(msg, Order, 0)
  \o (IF msg.payload = <<>> THEN <<>> ELSE <<255>> \o msg.payload)

\* coap_serialize_get_size: what transaction_send and message_send allocate.
MaxOptionHeader == 5

SizeOfOption(number, value) ==
  CASE number \in MultiOptions -> FoldSeq(LAMBDA segment, sum : sum + MaxOptionHeader + Len(segment), 0, value)
    [] number \in ByteOptions \cup {LocationQuery} -> MaxOptionHeader + Len(value)
    [] number = Accept -> MaxOptionHeader * Len(value)
    [] OTHER -> MaxOptionHeader

GetSize(msg) ==
  4 + Len(msg.payload) + Len(msg.token)
  + FoldSet(LAMBDA number, sum : sum + SizeOfOption(number, msg.options[number]), 0, DOMAIN msg.options)
  + (IF msg.payload = <<>> THEN 0 ELSE 1)
----------------------------------------------------------------------------
(* Reading: coap_parse_message.  A reading is a status and the message as  *)
(* far as it was read.                                                     *)

NoError == 0
BadRequest == 128
BadOption == 130
ProxyingNotSupported == 165

Read(status, msg) == [status |-> status, msg |-> msg]

RECURSIVE IntOption(_)
IntOption(bytes) ==
  IF bytes = <<>> THEN 0 ELSE IntOption(SubSeq(bytes, 1, Len(bytes) - 1)) * 256 + bytes[Len(bytes)]

ExtensionLen(nibble) == IF nibble = 13 THEN 1 ELSE IF nibble = 14 THEN 2 ELSE 0

Value(nibble, rest) ==
  CASE nibble = 13 -> 13 + rest[1]
    [] nibble = 14 -> 269 + rest[1] * 256 + rest[2]
    [] OTHER -> nibble

DeltaNibble(b) == b[1] \div 16
LengthNibble(b) == b[1] % 16
BodyAt(b) == 2 + ExtensionLen(DeltaNibble(b)) + ExtensionLen(LengthNibble(b))
DeltaOf(b) == Value(DeltaNibble(b), Tail(b))
LengthOf(b) == Value(LengthNibble(b), SubSeq(b, 2 + ExtensionLen(DeltaNibble(b)), Len(b)))

\* The extensions and the value of the option that starts b lie within b.
WellFormed(b) ==
  /\ DeltaNibble(b) # 15
  /\ LengthNibble(b) # 15
  /\ BodyAt(b) - 1 <= Len(b)
  /\ BodyAt(b) - 1 + LengthOf(b) <= Len(b)

BlockOf(word) == [num |-> word \div 16, more |-> (word \div 8) % 2 = 1, size |-> 16 * 2^(word % 8)]

\* A server takes the numbers 2048 and 2049 of some modems for Observe.
ObserveNumbers == {Observe} \cup (IF ServerMode THEN {2048, 2049} ELSE {})

\* The switch on the option number: the value is kept, cut to what its field
\* holds.  An option with a number the switch does not know is refused by a
\* server, and by a client if the number is odd.
Keep(msg, number, raw) ==
  CASE number \in MultiOptions -> AddSegment(msg, number, raw)
    [] number = ContentType -> Set(msg, number, IntOption(raw))
    [] number \in {MaxAge, Size} -> Set(msg, number, IntOption(raw))
    [] number = UriPort -> Set(msg, number, IntOption(raw) % 65536)
    [] number \in {ETag, IfMatch} -> Set(msg, number, SubSeq(raw, 1, IF Len(raw) < 8 THEN Len(raw) ELSE 8))
    [] number \in {UriHost, ProxyUri} -> Set(msg, number, raw)
    [] number = IfNoneMatch -> Set(msg, number, 1)
    [] number = Accept -> SetAccept(msg, IntOption(raw) % 65536)
    [] number = LocationQuery ->
         Set(msg, number, IF Has(msg, number) /\ msg.options[number] # <<>>
                          THEN msg.options[number] \o <<38>> \o raw ELSE raw)
    [] number = Observe -> Set(msg, number, IntOption(raw))
    [] number \in ObserveNumbers -> msg
    [] number \in BlockOptions -> Set(msg, number, BlockOf(IntOption(raw)))
    [] OTHER -> msg

Refusal(number, raw) ==
  CASE number = ContentType /\ Len(raw) > 2 -> BadRequest
    [] number = ProxyUri -> ProxyingNotSupported
    [] number \notin {Order[i] : i \in DOMAIN Order} \cup ObserveNumbers
       /\ (ServerMode \/ number % 2 = 1) -> BadOption
    [] OTHER -> NoError

RECURSIVE ReadOptions(_, _, _), ReadOption(_, _, _, _)
ReadOptions(msg, b, current) ==
  IF b = <<>> THEN Read(NoError, msg)
  ELSE IF b[1] = 255
    THEN IF Len(b) = 1 THEN Read(BadRequest, msg) ELSE Read(NoError, [msg EXCEPT !.payload = Tail(b)])
  ELSE IF ~WellFormed(b) THEN Read(BadRequest, msg)
  ELSE ReadOption(msg, b, current + DeltaOf(b), SubSeq(b, BodyAt(b), BodyAt(b) - 1 + LengthOf(b)))
ReadOption(msg, b, number, raw) ==
  IF Refusal(number, raw) # NoError THEN Read(Refusal(number, raw), msg)
  ELSE ReadOptions(Keep(msg, number, raw), SubSeq(b, BodyAt(b) + Len(raw), Len(b)), number)

Parse(b) ==
  IF \/ Len(b) < 4
     \/ b[1] \div 64 # 1
     \/ b[2] = 0 /\ Len(b) > 4
     \/ b[1] % 16 > 8
     \/ 4 + (b[1] % 16) > Len(b)
    THEN Read(BadRequest, Message(0, 0, 0))
    ELSE ReadOptions([Message((b[1] \div 16) % 4, b[2], b[3] * 256 + b[4])
                        EXCEPT !.token = SubSeq(b, 5, 4 + (b[1] % 16))],
                     SubSeq(b, 5 + (b[1] % 16), Len(b)), 0)
----------------------------------------------------------------------------
(* The request for the next block is made from the datagram of the last    *)
(* one: prv_create_next_block_transaction.  A request that had no format   *)
(* gets the number of its own message type as format.                      *)

\* Mutant: the path is forgotten.
MutCarried == {IfMatch, UriHost, ETag, IfNoneMatch, Observe, UriPort, LocationPath, ContentType, UriQuery, Accept}

Carried == {IfMatch, UriHost, ETag, IfNoneMatch, Observe, UriPort, LocationPath, UriPath,
            ContentType, UriQuery, Accept, LocationQuery}

CloneOptions(msg) ==
  [number \in (DOMAIN msg.options \cap Carried) \cup {ContentType} |->
     IF Has(msg, number) THEN msg.options[number] ELSE msg.type]

Clone(msg, mid) == [SetToken(Message(0, msg.code, mid), msg.token) EXCEPT !.options = CloneOptions(msg)]

NextRequest(b, mid) == Clone(Parse(b).msg, mid)
=============================================================================
