------------------------------- MODULE Formats -------------------------------
(***************************************************************************)
(* What two ends make of each other's messages.  A device registers; the   *)
(* server keeps what it reads of that, and the device the location to      *)
(* which it posts updates.  Then the server asks the device for a part of  *)
(* its objects, in a format it accepts; the device decodes the path, reads *)
(* the data, writes it in a format and answers block by block; the server  *)
(* puts the blocks together and reads the data again.                      *)
(* A server also sends what a device shall create, in blocks too, and a    *)
(* device posts messages with every option there is.  CoapMessage has the  *)
(* datagrams, Uri the paths, DataFormat the payloads, Registration what is *)
(* said in a registration.  Each answer reaches the request it is for:     *)
(* Transaction and BlockTransfer have the losses.                          *)
(***************************************************************************)
EXTENDS DataFormat

CONSTANTS
  Store,        \* the device's objects, as items
  Profiles,     \* a sequence of devices: what they register with
  InternalIds,  \* the ids that a server may give
  Accepts,      \* the lists of formats that servers send
  Uris,         \* the URIs that servers ask for
  Created,      \* a sequence of lists of items to create
  Letters,      \* a sequence of messages that the device posts
  BlockSize     \* the block size of both ends

Device == INSTANCE CoapMessage WITH ServerMode <- FALSE
Server == INSTANCE CoapMessage WITH ServerMode <- TRUE
Reg == INSTANCE Registration

VARIABLES
  device,       \* which of the devices there is
  client,       \* the server's entry of it
  stage,        \* what happens next
  asked,        \* the URI, the formats accepted and the data, if any
  request,      \* the datagram of the server's latest request
  answer,       \* the datagram of the device's latest message
  payload,      \* what the end that reads the data has of it
  reached,      \* what the device made of the request's path
  heard,        \* the last answer, or the letter, as it was read
  items         \* the data as it was read at the end

vars == <<device, client, stage, asked, request, answer, payload, reached, heard, items>>

Get == 1
Post == 2
Content == 69
Created201 == 65
Continue == 95
BadRequest400 == 128
NotFound404 == 132
BadOption402 == 130
NotAcceptable == 134
InternalError == 160
Con == 0
Ack == 2
Token == <<1, 2, 3, 4>>

Silence == Server!Read(Server!NoError, Server!Message(0, 0, 0))
NoClient == Reg!Client(U!NoId, Reg!Parameters, Reg!Links)
NoRequest == [uri |-> U!NoUri, accept |-> <<>>, kind |-> "none", which |-> 0]

Init ==
  /\ device \in DOMAIN Profiles
  /\ client = NoClient
  /\ stage = "idle"
  /\ asked = NoRequest
  /\ request = <<>>
  /\ answer = <<>>
  /\ payload = <<>>
  /\ reached = U!Unknown
  /\ heard = Silence
  /\ items = <<>>
----------------------------------------------------------------------------
(* The device registers, and posts an update to the location it was given. *)

Profile == Profiles[device]

Option(msg, number, default) == IF Device!Has(msg, number) THEN msg.options[number] ELSE default
PathOf(msg) == Option(msg, Device!UriPath, <<>>)

ParametersRead == Reg!GetParameters(Reg!Query(Profile))
LinksRead == Reg!DecodeRegisterPayload(Reg!RegisterPayload(Profile))

\* prv_register, and registration_handleRequest with the answer it makes.
Register(id) ==
  /\ stage = "idle" /\ client = NoClient
  /\ Reg!Fits(Profile)
  /\ stage' = "registered"
  /\ client' = Reg!Client(id, ParametersRead, LinksRead)
  /\ answer' = Server!Serialize(Server!SetLocationPath(
                 Server!Message(Ack, Reg!HandleCode(ParametersRead, LinksRead), 257), Reg!LocationString(id)))
  /\ UNCHANGED <<device, asked, request, payload, reached, heard, items>>

\* prv_handleRegistrationReply keeps the location, prv_updateRegistration posts.
LocationHeard == Reg!PathString(Option(Device!Parse(answer).msg, Device!LocationPath, <<>>))

DeviceUpdates ==
  /\ stage = "registered"
  /\ stage' = "updating"
  /\ request' = Device!Serialize(Device!SetUriPath(Device!Message(Con, Post, 258), LocationHeard))
  /\ UNCHANGED <<device, client, asked, answer, payload, reached, heard, items>>

\* prv_register on a device whose links do not fit its buffer: 5.00.
RegisterFails ==
  /\ stage = "idle" /\ client = NoClient
  /\ ~Reg!Fits(Profile)
  /\ UNCHANGED vars

ServerUpdates ==
  /\ stage = "updating"
  /\ stage' = "updated"
  /\ reached' = U!UriDecode(U!NoPath, PathOf(Server!Parse(request).msg), Post)
  /\ UNCHANGED <<device, client, asked, request, answer, payload, heard, items>>
----------------------------------------------------------------------------
(* The server asks, if it knows the device.                                *)

Idle == stage = "idle" /\ client # NoClient


WithPath(msg, path) ==
  FoldLeft(LAMBDA m, segment : Server!AddSegment(m, Server!UriPath, segment), msg, path)

WithAccept(msg, accept) == FoldLeft(Server!SetAccept, msg, accept)

\* transaction_new and prv_makeOperation
NewRequest(code, uri) ==
  WithPath(Server!SetToken(Server!Message(Con, code, 258), Token), U!RequestPath(client.altPath, uri))

AskRead(uri, accept) ==
  /\ Idle
  /\ stage' = "asked"
  /\ asked' = [uri |-> uri, accept |-> accept, kind |-> "read", which |-> 0]
  /\ request' = Server!Serialize(WithAccept(NewRequest(Get, uri), accept))
  /\ UNCHANGED <<device, client, answer, payload, reached, heard, items>>

\* prv_lwm2m_dm_create: JSON and CBOR formats are not used for resources alone.
CreateFormat(data, format) ==
  IF format # TlvFormat /\ (Len(data) > 1 \/ data[1].type # "instance") THEN TlvFormat ELSE format

CreateUri == [U!NoUri EXCEPT !.object = Store[1].id]

Smaller(a, b) == IF a < b THEN a ELSE b

\* transaction_set_payload and prv_send_new_block1: the part of the payload
\* that goes with block num.
WithPart(msg, bytes, num) ==
  Server!SetPayload(Server!SetBlock(msg, Server!Block1, num, Len(bytes) > (num + 1) * BlockSize, BlockSize),
                    SubSeq(bytes, num * BlockSize + 1, Smaller((num + 1) * BlockSize, Len(bytes))))

WithPayload(msg, bytes) ==
  IF Len(bytes) > BlockSize THEN WithPart(msg, bytes, 0) ELSE Server!SetPayload(msg, bytes)

CreatePayload(data, format) == Write(CreateUri, data, format)

CreateRequest(data, format) ==
  WithPayload(Server!Set(NewRequest(Post, CreateUri), Server!ContentType, format), CreatePayload(data, format))

AskCreate(i, format) ==
  /\ Idle
  /\ stage' = "asked"
  /\ asked' = [uri |-> CreateUri, accept |-> <<format>>, kind |-> "create", which |-> i]
  /\ request' = Server!Serialize(CreateRequest(Created[i], CreateFormat(Created[i], format)))
  /\ UNCHANGED <<device, client, answer, payload, reached, heard, items>>
----------------------------------------------------------------------------
(* The device serves.                                                      *)

ItemWith(list, id) == OnlyItem(list, id)

\* object_readData: a single instance of a resource comes inside the resource.
ReadResource(uri, found) ==
  IF uri.resourceInstance = U!NoId \/ found = <<>> THEN found
  ELSE IF found[1].type # "multiple" \/ ItemWith(found[1].value, uri.resourceInstance) = <<>> THEN <<>>
  ELSE <<Item(uri.resource, "multiple", ItemWith(found[1].value, uri.resourceInstance))>>

ReadInstance(uri, found) ==
  IF uri.resource = U!NoId THEN found[1].value
  ELSE ReadResource(uri, ItemWith(found[1].value, uri.resource))

ReadObject(uri, found) ==
  IF uri.instance = U!NoId THEN found[1].value
  ELSE ReadInstance(uri, ItemWith(found[1].value, uri.instance))

DataAt(uri) == ReadObject(uri, ItemWith(Store, uri.object))

Exists(uri) ==
  \E o \in ToSet(Store) :
    /\ o.id = uri.object
    /\ uri.instance # U!NoId =>
         \E i \in ToSet(o.value) :
           /\ i.id = uri.instance
           /\ uri.resource # U!NoId => ReadInstance(uri, <<i>>) # <<>>

\* object_read
Reading(code, format, bytes) == [code |-> code, format |-> format, bytes |-> bytes]
Failed(code) == Reading(code, NoFormat, <<>>)

ReadIn(uri, data, format) ==
  IF Writable(uri, data, format) THEN Reading(Content, format, Write(uri, data, format)) ELSE Failed(InternalError)

ReadAccepted(uri, data, format) ==
  IF format = NoFormat THEN Failed(NotAcceptable) ELSE ReadIn(uri, data, FinalFormat(uri, data, format))

ObjectRead(uri, accept) ==
  IF ~Exists(uri) THEN Failed(NotFound404)
  ELSE ReadAccepted(uri, DataAt(uri), ResponseFormat(accept, Singular(DataAt(uri), uri.resource # U!NoId)))

\* lwm2m_handle_packet: a request for a block gets that block, a payload that
\* is too long for one message its first.
SendBlock(msg, bytes, num, offset, size) ==
  IF offset >= Len(bytes)
    THEN [Device!SetPayload(msg, <<66>>) EXCEPT !.code = BadOption402]
    ELSE Device!SetPayload(Device!SetBlock(msg, Device!Block2, num, Len(bytes) - offset > size, size),
                           SubSeq(bytes, offset + 1, Smaller(offset + size, Len(bytes))))

SendAsked(msg, bytes, block) ==
  SendBlock(msg, bytes, block.num, block.num * block.size, Smaller(block.size, BlockSize))

InBlocks(msg, bytes, received) ==
  IF Device!Has(received, Device!Block2)
    THEN SendAsked(msg, bytes, received.options[Device!Block2])
  ELSE IF Len(bytes) > BlockSize THEN SendBlock(msg, bytes, 0, 0, BlockSize)
  ELSE Device!SetPayload(msg, bytes)

Reply(received, code) == Device!SetToken(Device!Message(Ack, code, received.mid), received.token)

AnswerTo(received, reading) ==
  IF reading.code # Content THEN Device!SetPayload(Reply(received, reading.code), reading.bytes)
  ELSE InBlocks(Device!Set(Reply(received, reading.code), Device!ContentType, reading.format),
                reading.bytes, received)

\* handle_request refuses a path that it does not know.
Handled(received, decoded) ==
  IF decoded = U!Unknown THEN Failed(BadRequest400)
  ELSE ObjectRead(decoded.uri, Option(received, Device!Accept, <<>>))

ServeRead(received, decoded) ==
  /\ reached' = decoded
  /\ answer' = Device!Serialize(AnswerTo(received, Handled(received, decoded)))
  /\ UNCHANGED <<payload, items>>

\* coap_block1_handler keeps a part; the last one is followed by object_create,
\* which reads the whole and refuses what does not parse.  What it creates is in
\* DeviceManagement.
MoreToCome(received) == Device!Has(received, Device!Block1) /\ received.options[Device!Block1].more

WithBlock1(msg, received) ==
  IF Device!Has(received, Device!Block1)
    THEN Device!Set(msg, Device!Block1, [received.options[Device!Block1] EXCEPT !.size = Smaller(@, BlockSize)])
    ELSE msg

Whole(received) == payload \o received.payload

ReadCreated(received, decoded) ==
  IF MoreToCome(received) \/ decoded = U!Unknown THEN items
  ELSE ReadData(decoded.uri, Whole(received), MediaType(Option(received, Device!ContentType, 0)))

CreateCode(received, list) ==
  IF MoreToCome(received) THEN Continue
  ELSE IF Whole(received) = <<>> \/ list = <<>> THEN BadRequest400
  ELSE Created201

ServeCreate(received, decoded) ==
  /\ reached' = decoded
  /\ payload' = Whole(received)
  /\ items' = ReadCreated(received, decoded)
  /\ answer' = Device!Serialize(WithBlock1(Reply(received, CreateCode(received, items')), received))

Serve(received) ==
  \/ /\ received.code = Get
     /\ ServeRead(received, U!UriDecode(Profile.altPath, PathOf(received), Get))
  \/ /\ received.code = Post
     /\ ServeCreate(received, U!UriDecode(Profile.altPath, PathOf(received), Post))

DeviceServes ==
  /\ stage = "asked"
  /\ stage' = "answered"
  /\ Serve(Device!Parse(request).msg)
  /\ UNCHANGED <<device, client, asked, request, heard>>
----------------------------------------------------------------------------
(* The server hears the answer: the next block, or the data.               *)

More(msg) == Server!Has(msg, Server!Block2) /\ msg.options[Server!Block2].more

\* prv_send_get_next_block2
AskBlock(msg) ==
  Server!SetBlock(Server!NextRequest(request, msg.mid + 1), Server!Block2,
                  msg.options[Server!Block2].num + 1, FALSE,
                  Smaller(msg.options[Server!Block2].size, BlockSize))

HearBlock(msg) ==
  /\ More(msg)
  /\ stage' = "asked"
  /\ request' = Server!Serialize(AskBlock(msg))
  /\ payload' = payload \o msg.payload
  /\ UNCHANGED <<heard, items>>

\* prv_send_next_block1
OwnBlock == Server!Parse(request).msg.options[Server!Block1]

SendNext(msg, data, format) ==
  request' = Server!Serialize(WithPart(Server!NextRequest(request, msg.mid + 1), CreatePayload(data, format),
                                       OwnBlock.num + 1))

HearContinue(msg) ==
  /\ msg.code = Continue
  /\ stage' = "asked"
  /\ SendNext(msg, Created[asked.which], CreateFormat(Created[asked.which], asked.accept[1]))
  /\ UNCHANGED <<payload, heard, items>>

HearLast(msg) ==
  /\ ~More(msg)
  /\ msg.code # Continue
  /\ stage' = "done"
  /\ payload' = IF asked.kind = "read" THEN payload \o msg.payload ELSE payload
  /\ heard' = Server!Read(Server!NoError, msg)
  /\ items' = IF asked.kind = "read" /\ msg.code = Content
              THEN ReadData(asked.uri, payload \o msg.payload, MediaType(Option(msg, Server!ContentType, 0)))
              ELSE items
  /\ UNCHANGED request

ServerHears ==
  /\ stage = "answered"
  /\ \E msg \in {Server!Parse(answer).msg} : HearBlock(msg) \/ HearContinue(msg) \/ HearLast(msg)
  /\ UNCHANGED <<device, client, asked, answer, reached>>
----------------------------------------------------------------------------
(* The device posts a message of its own.                                  *)

PostLetter(i) ==
  /\ Idle
  /\ stage' = "posted"
  /\ asked' = [NoRequest EXCEPT !.kind = "letter", !.which = i]
  /\ answer' = Device!Serialize(Letters[i])
  /\ UNCHANGED <<device, client, request, payload, reached, heard, items>>

ServerReads ==
  /\ stage = "posted"
  /\ stage' = "read"
  /\ heard' = Server!Parse(answer)
  /\ UNCHANGED <<device, client, asked, request, answer, payload, reached, items>>

\* The next exchange has nothing of this one.
Finish ==
  /\ stage \in {"updated", "done", "read"}
  /\ stage' = "idle"
  /\ asked' = NoRequest
  /\ request' = <<>>
  /\ answer' = <<>>
  /\ payload' = <<>>
  /\ reached' = U!Unknown
  /\ heard' = Silence
  /\ items' = <<>>
  /\ UNCHANGED <<device, client>>

Next ==
  \/ \E id \in InternalIds : Register(id)
  \/ RegisterFails
  \/ DeviceUpdates
  \/ ServerUpdates
  \/ \E uri \in Uris, accept \in Accepts : AskRead(uri, accept)
  \/ \E i \in DOMAIN Created, format \in {TlvFormat, SenMlCborFormat} : AskCreate(i, format)
  \/ DeviceServes
  \/ ServerHears
  \/ \E i \in DOMAIN Letters : PostLetter(i)
  \/ ServerReads
  \/ Finish

Spec == Init /\ [][Next]_vars
----------------------------------------------------------------------------
(* Properties.                                                             *)

\* A message arrives as it was made: whatever options a device sets, it fits
\* the buffer that coap_serialize_get_size asks for, and the server reads the
\* same message from it (coap_serialize_message, coap_parse_message).
MessageArrives ==
  /\ stage = "posted" => Len(answer) <= Device!GetSize(Letters[asked.which])
  /\ stage = "read" => heard = Server!Read(Server!NoError, Letters[asked.which])

\* A request reaches what it names: the device decodes the URI that the server
\* asked for, under its alternative path, and so for every later block
\* (transaction_new, uri_decode, prv_create_next_block_transaction); and the
\* server decodes its own id of the device in the location that an update is
\* posted to.  An alternative path of more than one letter reaches nothing:
\* registration keeps it without its slash, transaction_new drops a letter.
Reachable == Len(Profile.altPath) <= 2
RequestReachesIt ==
  /\ stage = "answered" /\ Reachable => reached = U!Decoded("dm", asked.uri)
  /\ stage = "updated" => reached = U!Decoded("registration", [U!NoUri EXCEPT !.object = client.internalID])

FormatUsed ==
  IF asked.kind = "create" THEN CreateFormat(Created[asked.which], asked.accept[1])
  ELSE MediaType(Option(heard.msg, Server!ContentType, 0))

\* What was sent.  Of a resource instance SenML has it alone, TLV inside its
\* resource (and only if both have the same id: lwm2m_data_serialize).
Sent ==
  IF asked.kind = "create" THEN Created[asked.which]
  ELSE IF asked.uri.resourceInstance = U!NoId \/ FormatUsed = TlvFormat THEN DataAt(asked.uri)
  ELSE DataAt(asked.uri)[1].value

\* What a format cannot hold: TLV keeps of a double what a float has unless it
\* is beyond a float; CBOR writes a half that lacks two bits of the fraction;
\* a text has a link only after five digits; an empty collection is none.
FloatKept(f, format) ==
  CASE format = TlvFormat -> f[4] = 0 \/ BeyondFloat(f)
    [] format \in {CborFormat, SenMlCborFormat} -> f[4] # 0 \/ ~IsNormalHalf(f) \/ f[3] % 8192 = 0
    [] OTHER -> TRUE

RECURSIVE Kept(_, _)
Kept(item, format) ==
  CASE item.type \in Collections ->
         item.value # <<>> /\ \A i \in DOMAIN item.value : Kept(item.value[i], format)
    [] item.type = "float" -> FloatKept(item.value, format)
    [] item.type = "link" -> format = TextFormat => item.value[1] >= 10000
    [] OTHER -> TRUE

\* The reader knows the types: what it decodes is what was sent.
LinkIn(item) ==
  CASE item.type = "link" -> item.value
    [] item.type = "string" -> TextToLink(item.value)
    [] OTHER -> <<item.value[1] * 256 + item.value[2], item.value[3] * 256 + item.value[4]>>

\* A text has only a short float as it is, and another one nearly.
FloatIn(f) == IF FormatUsed = TextFormat /\ ~Short(f) THEN Near(f) ELSE f

SameValue(item, got) ==
  CASE item.type = "int" -> DecodeInt(got) = item.value
    [] item.type = "uint" -> DecodeUint(got) = item.value
    [] item.type = "float" -> DecodeFloat(got) = FloatIn(item.value)
    [] item.type = "bool" -> DecodeBool(got) = item.value
    [] item.type = "link" -> LinkIn(got) = item.value
    [] item.type = "opaque" /\ got.type = "string" -> Base64Decode(got.value) = item.value
    [] OTHER -> got.value = item.value

RECURSIVE Same(_, _)
Same(sent, got) ==
  /\ Len(sent) = Len(got)
  /\ \A i \in DOMAIN sent :
       /\ sent[i].id = got[i].id
       /\ IF sent[i].type \in Collections
            THEN sent[i].type = got[i].type /\ Same(sent[i].value, got[i].value)
            ELSE SameValue(sent[i], got[i])

\* Data arrives: what the server reads from the blocks of an answer, and what
\* the device reads from a create, has the ids, the nesting and the values
\* that were written, in every format, but for the values named above, and for
\* a float that comes as a text: it is near if it has too many digits. TLV is
\* written to a buffer whose length prv_getLength computes apart: it is exact.
\* What a device registers with arrives too, and fits the lengths that are
\* computed apart for the query and the links, which are exact, unless it has
\* an OSCORE object: only the length leaves that out.
Described(objects) ==
  {[id |-> id, version |-> objects[id].version, instances |-> objects[id].instances] : id \in DOMAIN objects}

IsRegistered ==
  /\ client.name = Profile.name /\ client.msisdn = Profile.msisdn /\ client.version = "1.1"
  /\ client.binding \ {"unknown"} = Profile.binding
  /\ client.lifetime = (IF Profile.lifetime = 0 THEN Reg!DEFAULT_LIFETIME ELSE Profile.lifetime)
  /\ client.format = SenMlCborFormat
  /\ client.altPath = (IF Profile.altPath = U!NoPath THEN U!NoPath ELSE Tail(Profile.altPath))
  /\ Described(client.objects) =
       {[object EXCEPT !.instances = ToSet(@)] : object \in {o \in ToSet(Profile.objects) : o.id # 0}}

LengthsExact ==
  /\ Reg!QueryLength(Profile) = Reg!QueryTextLength(Profile)
  /\ (\A object \in ToSet(Profile.objects) : object.id # Reg!LWM2M_OSCORE_OBJECT_ID)
       => Reg!BufferLength(Profile) = Reg!PayloadTextLength(Profile) + 1

DataArrives ==
  /\ client = NoClient => LengthsExact
  /\ stage = "registered" => IsRegistered /\ Device!Parse(answer).msg.code = Created201
  /\ asked.kind = "create" /\ stage = "asked" =>
       TlvLength(Created[asked.which]) = Len(WriteTlv(FALSE, Created[asked.which]))
  /\ (/\ stage = "done"
      /\ (asked.kind = "create" /\ Reachable) \/ heard.msg.code = Content
      /\ \A i \in DOMAIN Sent : Kept(Sent[i], FormatUsed)) => Same(Sent, items)

\* An answer comes in a format that the server accepts, and a server that
\* accepts SenML CBOR first is answered (utils_getResponseFormat picks the
\* format, lwm2m_data_serialize may change it).
AnswersAsAsked ==
  stage = "done" /\ asked.kind = "read" =>
    /\ heard.msg.code = Content /\ asked.accept # <<>> => FormatUsed \in ToSet(asked.accept)
    /\ asked.accept # <<>> /\ asked.accept[1] = SenMlCborFormat /\ Exists(asked.uri) /\ Reachable => heard.msg.code = Content
=============================================================================
