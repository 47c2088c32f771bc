-------------------------------- MODULE SenMl --------------------------------
(***************************************************************************)
(* SenML CBOR: data as a flat list of records, each with a name, of which  *)
(* a part is the base name that the first record gives for all             *)
(* (data/senml_cbor.c, data/senml_common.c).  A reader also knows base     *)
(* values, times and units; no writer here makes them, and they are left   *)
(* out.                                                                    *)
(***************************************************************************)
EXTENDS Cbor

U == INSTANCE Uri

Collections == Containers \cup {"object"}
Undefined == Item(0, "undefined", <<>>)
IsUndefined(item) == item.type = "undefined"

Text(bytes) == Put(Item(0, "string", bytes))

\* The labels of a record, as the integers they are written as.
BaseName == Negated(Small(2))
Name == Small(0)
NumericValue == Small(2)
StringValue == Small(3)
BooleanValue == Small(4)
DataValue == Small(8)
ObjectLink == <<118, 108, 111>>    \* "vlo"
----------------------------------------------------------------------------
(* The data to write, and the level it is at: 1 objects, 2 instances, 3    *)
(* resources, 4 instances of a resource.                                   *)

Found(items, level) == [found |-> TRUE, items |-> items, level |-> level]
NotFound == [found |-> FALSE, items |-> <<>>, level |-> 0]

Rank(item) ==
  CASE item.type = "object" -> 1 [] item.type = "instance" -> 2 [] item.type = "multiple" -> 3 [] OTHER -> 4

\* Objects, instances and resources do not come together.
Alike(items) ==
  \A i \in DOMAIN items :
    IF Rank(items[1]) <= 2 THEN Rank(items[i]) = Rank(items[1]) ELSE Rank(items[i]) > 2

\* prv_findAndCheckData: down to the level that the URI asks for.
RECURSIVE FindData(_, _, _, _)
FindData(uri, desired, items, level) ==
  IF items = <<>> THEN Found(<<>>, level)
  ELSE IF ~Alike(items) THEN NotFound
  ELSE IF Rank(items[1]) >= desired
    THEN IF desired <= 2 /\ Rank(items[1]) > desired THEN NotFound ELSE Found(items, level)
  ELSE IF \A i \in DOMAIN items : items[i].id # U!IdList(uri)[Rank(items[1])] THEN NotFound
  ELSE FindData(uri, desired,
                items[SelectInSeq(items, LAMBDA item : item.id = U!IdList(uri)[Rank(items[1])])].value,
                Rank(items[1]) + 1)

Level(uri) == U!IdCount(uri)

\* senml_findAndCheckData
FindAndCheckData(uri, items) ==
  FindData(uri, IF Level(uri) < 4 THEN Level(uri) + 1 ELSE 4, items,
           IF Level(uri) < 3 THEN Level(uri) + 1 ELSE Level(uri))
----------------------------------------------------------------------------
(* Writing: senml_cbor_serialize.                                          *)

WithSlash(text) == IF Len(text) > 1 THEN Append(text, U!Slash) ELSE text

Base(uri, level) ==
  IF Level(uri) \notin {3, 4} \/ Level(uri) < level THEN WithSlash(U!UriToString(uri)) ELSE U!UriToString(uri)

EndsInSlash(text) == text # <<>> /\ text[Len(text)] = U!Slash

\* prv_serializeData: one entry for each value, and for each collection that
\* holds none.
RECURSIVE Entries(_, _)
Entries(item, parent) ==
  IF item.type \in Collections /\ item.value # <<>>
    THEN FlattenSeq([i \in DOMAIN item.value |->
                       Entries(item.value[i], Append(parent \o U!Digits(item.id), U!Slash))])
    ELSE <<[name |-> parent \o U!Digits(item.id), item |-> item]>>

HasValue(item) == item.type \in Leaves

ValueLabel(item) ==
  CASE item.type \in {"string", "corelink"} -> PutHead(UnsignedInteger, StringValue)
    [] item.type = "opaque" -> PutHead(UnsignedInteger, DataValue)
    [] item.type \in Numbers -> PutHead(UnsignedInteger, NumericValue)
    [] item.type = "bool" -> PutHead(UnsignedInteger, BooleanValue)
    [] item.type = "link" -> Text(ObjectLink)

BaseNameField(text) == PutHead(NegativeInteger, Not(BaseName)) \o Text(text)
NameField(text) == PutHead(UnsignedInteger, Name) \o Text(text)
ValueField(item) == ValueLabel(item) \o Put(item)

One(condition) == IF condition THEN 1 ELSE 0

\* prv_serializeTlv
WriteRecord(entry, base, withBase, withName) ==
  PutHead(Map, Small(One(withBase) + One(withName) + One(HasValue(entry.item))))
  \o (IF withBase THEN BaseNameField(base) ELSE <<>>)
  \o (IF withName THEN NameField(entry.name) ELSE <<>>)
  \o (IF HasValue(entry.item) THEN ValueField(entry.item) ELSE <<>>)

\* With no record to carry it the base name is written alone, one byte shorter.
WriteRecords(entries, base, withName) ==
  IF entries = <<>>
    THEN PutHead(Array, Small(1)) \o PutHead(Map, Small(1))
         \o BaseNameField(SubSeq(base, 1, IF Len(base) > 1 THEN Len(base) - 1 ELSE 1))
    ELSE PutHead(Array, Small(Len(entries)))
         \o FlattenSeq([i \in DOMAIN entries |-> WriteRecord(entries[i], base, i = 1, withName)])

AllEntries(items, base) ==
  FlattenSeq([i \in DOMAIN items |->
                Entries(items[i], IF EndsInSlash(base) THEN <<>> ELSE <<U!Slash>>)])

WriteFound(uri, target) ==
  WriteRecords(AllEntries(target.items, Base(uri, target.level)), Base(uri, target.level),
               target.level > Level(uri))

SenMlWritable(uri, items) == FindAndCheckData(uri, items).found
WriteSenMl(uri, items) == WriteFound(uri, FindAndCheckData(uri, items))
----------------------------------------------------------------------------
(* Reading a record: prv_parseItem.  What is read so far of a record is    *)
(* its name and value and the base name, which outlives it.                *)

MaxUriText == 24       \* URI_MAX_STRING_LEN

Start(base) == [ok |-> TRUE, base |-> base, based |-> FALSE, name |-> <<>>, value |-> Undefined]
Refuse(reading) == [reading EXCEPT !.ok = FALSE]

IsLabel(v) == v # Nothing /\ (~Greater(v, DataValue) \/ ~Greater(Negated(Small(6)), v))

KeepBase(reading, item) ==
  IF \/ reading.based
     \/ item.type # "string"
     \/ Len(item.value) = 1 /\ item.value # <<U!Slash>>
     \/ Len(item.value) > MaxUriText
    THEN Refuse(reading)
    ELSE [reading EXCEPT !.based = TRUE, !.base = item.value]

KeepName(reading, item) ==
  IF reading.name # <<>> \/ item.type # "string" THEN Refuse(reading)
  ELSE [reading EXCEPT !.name = item.value]

KeepValue(reading, type, value) ==
  IF ~IsUndefined(reading.value) \/ (value = Nothing /\ type \notin Buffers) THEN Refuse(reading)
  ELSE [reading EXCEPT !.value = Item(U!NoId, type, value)]

KeepOf(reading, types, item) ==
  IF item.type \in types THEN KeepValue(reading, item.type, item.value) ELSE Refuse(reading)

KeepLabelled(reading, label, item) ==
  CASE label = BaseName -> KeepBase(reading, item)
    [] label = Name -> KeepName(reading, item)
    [] label = NumericValue -> KeepOf(reading, Numbers, item)
    [] label = StringValue -> KeepOf(reading, {"string"}, item)
    [] label = BooleanValue -> KeepValue(reading, "bool", DecodeBool(item))
    [] label = DataValue -> KeepOf(reading, {"opaque"}, item)
    [] OTHER -> IF IsLabel(label) THEN reading ELSE Refuse(reading)

KeepField(reading, label, item) ==
  IF label.type = "string" /\ label.value = ObjectLink
    THEN IF item.type = "string" THEN KeepValue(reading, "link", TextToLink(item.value)) ELSE Refuse(reading)
  ELSE IF label.type = "string" THEN IF label.value[Len(label.value)] = 95 THEN Refuse(reading) ELSE reading
  ELSE IF label.type \in {"float", "bool"} THEN reading
  ELSE KeepLabelled(reading, DecodeInt(label), item)

NextItem(b) == AfterItem(Untagged(b))
CurrentItem(b) == ItemOf(U!NoId, Untagged(b))

RECURSIVE ReadFields(_, _, _)
ReadFields(reading, count, b) ==
  IF count = 0 \/ ~reading.ok THEN [reading |-> reading, rest |-> b]
  ELSE IF ~IsSingular(Untagged(b)) \/ ~IsSingular(Untagged(NextItem(b)))
    THEN [reading |-> Refuse(reading), rest |-> b]
  ELSE ReadFields(KeepField(reading, CurrentItem(b), CurrentItem(NextItem(b))), count - 1, NextItem(NextItem(b)))

FullName(reading) == reading.base \o reading.name

UriOf(reading) == IF FullName(reading) = <<>> THEN U!NoUri ELSE U!StringToUri(FullName(reading))

Opens(b, major, size) ==
  /\ HeadReadable(Untagged(b))
  /\ Major(Untagged(b)) = major
  /\ Greater(Argument(Untagged(b)), Small(0))
  /\ IsSmall(Argument(Untagged(b)))
  /\ NumberOf(Argument(Untagged(b))) * size <= Len(b)

CountAt(b) == NumberOf(Argument(Untagged(b)))
Inside(b) == AfterHead(Untagged(b))

\* The records are <<uri, value>>; none at all when one of them is refused.
RECURSIVE ReadRecords(_, _, _, _), AddRecord(_, _, _)
ReadRecords(records, count, base, b) ==
  IF count = 0 THEN IF b = <<>> THEN records ELSE <<>>
  ELSE IF ~Opens(b, Map, 2) THEN <<>>
  ELSE AddRecord(records, count, ReadFields(Start(base), CountAt(b), Inside(b)))
AddRecord(records, count, fields) ==
  IF \/ ~fields.reading.ok
     \/ Len(FullName(fields.reading)) > MaxUriText
     \/ UriOf(fields.reading) = U!NotUri
    THEN <<>>
    ELSE ReadRecords(Append(records, <<UriOf(fields.reading), fields.reading.value>>), count - 1,
                     fields.reading.base, fields.rest)
----------------------------------------------------------------------------
(* The records as data again: senml_convert_records.                       *)

\* prv_convertValue: a record without a value leaves the type.
Converted(item, value) == Item(item.id, IF IsUndefined(value) THEN item.type ELSE value.type, value.value)

TypeAt(ids, k) ==
  CASE k = 1 -> IF ids[1] = U!NoId THEN "undefined" ELSE "object" [] k = 2 -> "instance" [] OTHER -> "undefined"

\* senml_findDataItem; an instance of a resource is always a new one.
Matches(item, ids, k) == k < 4 /\ ~IsUndefined(item) /\ item.id = ids[k]

IsLast(ids, k) == k = 4 \/ (k < 4 /\ ids[k + 1] = U!NoId)

\* prv_convertRecord: the item for ids from level k down, among items.
RECURSIVE Place(_, _, _, _), Placed(_, _, _, _)
Place(items, ids, k, value) ==
  IF \E i \in DOMAIN items : Matches(items[i], ids, k)
    THEN [i \in DOMAIN items |->
            IF Matches(items[i], ids, k) /\ \A j \in 1..i - 1 : ~Matches(items[j], ids, k)
            THEN Placed(items[i], ids, k, value) ELSE items[i]]
    ELSE Append(items, Placed(Item(ids[k], TypeAt(ids, k), <<>>), ids, k, value))
Placed(item, ids, k, value) ==
  IF IsLast(ids, k) THEN Converted(item, value)
  ELSE Item(item.id, IF k = 3 THEN "multiple" ELSE item.type, Place(item.value, ids, k + 1, value))

ConvertRecords(records) ==
  FoldLeft(LAMBDA items, record : Place(items, U!IdList(record[1]), 1, record[2]), <<>>, records)

\* The items below the first one with this id, none if there is no such item.
Under(items, id) ==
  IF \A i \in DOMAIN items : items[i].id # id THEN <<>>
  ELSE items[SelectInSeq(items, LAMBDA item : item.id = id)].value

OnlyItem(items, id) ==
  IF \A i \in DOMAIN items : items[i].id # id THEN <<>>
  ELSE <<items[SelectInSeq(items, LAMBDA item : item.id = id)]>>

\* The part of the data that the URI names.
InResource(uri, found) ==
  IF uri.resourceInstance = U!NoId \/ found = <<>> THEN found
  ELSE OnlyItem(IF found[1].type = "multiple" THEN found[1].value ELSE found, uri.resourceInstance)

InInstance(uri, items) ==
  IF uri.resource = U!NoId THEN items ELSE InResource(uri, OnlyItem(items, uri.resource))

InObject(uri, root) ==
  IF root.type # "object" \/ root.id # uri.object THEN <<>>
  ELSE IF uri.instance = U!NoId THEN root.value
  ELSE InInstance(uri, Under(root.value, uri.instance))

Asked(uri, items) ==
  IF items = <<>> \/ uri.object = U!NoId THEN items ELSE InObject(uri, items[1])

\* senml_cbor_parse
ReadSenMl(uri, b) ==
  IF Opens(b, Array, 3) THEN Asked(uri, ConvertRecords(ReadRecords(<<>>, CountAt(b), <<>>, Inside(b)))) ELSE <<>>
=============================================================================
