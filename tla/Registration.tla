---------------------------- MODULE Registration ----------------------------
(***************************************************************************)
(* What a registration says: the query and the list of links that a device *)
(* writes (core/registration.c, core/objects.c), each with the length that *)
(* is computed apart from it, and what the server reads of them.           *)
(*                                                                         *)
(* A parameter and an attribute are a key and a value, a link is a path    *)
(* with attributes; the signs between them, which split them again, count  *)
(* only in the lengths.  What no device of this library writes (quotes and *)
(* blanks in a link) is left out.                                          *)
(***************************************************************************)
EXTENDS Uri, FiniteSets, Functions

DEFAULT_LIFETIME == 86400
LWM2M_SECURITY_OBJECT_ID == 0
LWM2M_OSCORE_OBJECT_ID == 21
None == <<>>           \* msisdn is NULL

\* A device: its names are sequences of characters, its objects a sequence of
\* [id, version, instances], in the order of contextP->objectList.
NoVersion == <<0, 0>>

DigitsOf(n) == Len(Digits(n))

SumOver(Length(_), list) == FoldLeft(LAMBDA sum, entry : sum + Length(entry), 0, list)
----------------------------------------------------------------------------
(* The query.                                                              *)

Param(key, value) == [key |-> key, value |-> value]
If(condition, list) == IF condition THEN list ELSE <<>>

\* The letters of "b=": Q has a parameter of its own.
BindingLetters(binding) == SelectSeq(<<"U", "T", "S", "N">>, LAMBDA letter : letter \in binding)

\* prv_getRegistrationQuery
Query(d) ==
  <<Param("lwm2m=", "1.1"), Param("ep=", d.name)>>
  \o If(d.msisdn # None, <<Param("sms=", d.msisdn)>>)
  \o If(BindingLetters(d.binding) # <<>>, <<Param("b=", BindingLetters(d.binding))>>)
  \o If("Q" \in d.binding, <<Param("Q", <<>>)>>)
  \o If(d.lifetime # 0, <<Param("lt=", d.lifetime)>>)

\* Its text: a sign before each parameter, and the end of the string.
ParamLength(param) ==
  1 + Len(param.key) + (IF param.key = "lt=" THEN DigitsOf(param.value) ELSE Len(param.value))
QueryTextLength(d) == SumOver(ParamLength, Query(d)) + 1

\* prv_getRegistrationQueryLength
QueryLength(d) ==
  Len("?lwm2m=1.1&ep=") + Len(d.name)
  + (IF d.msisdn # None THEN Len("&sms=") + Len(d.msisdn) ELSE 0)
  + (IF d.binding \ {"Q"} # {} THEN Len("&b=") + Cardinality(d.binding \ {"Q"}) ELSE 0)
  + (IF "Q" \in d.binding THEN Len("&Q") ELSE 0)
  + (IF d.lifetime # 0 THEN Len("&lt=") + DigitsOf(d.lifetime) ELSE 0)
  + 1

\* utils_stringToVersion, utils_stringToBinding
StringToVersion(text) == IF text \in {"1.0", "1.1"} THEN text ELSE "unrecognized"
StringToBinding(letters) ==
  {"unknown"} \cup (IF ToSet(letters) \subseteq {"N", "Q", "S", "T", "U"} THEN ToSet(letters) ELSE {})

Parameters == [name |-> None, lifetime |-> 0, msisdn |-> None, binding |-> {}, version |-> "missing", ok |-> TRUE]

\* prv_getParameters, one parameter: nothing is given twice, or without a value.
Refused(p, param) ==
  CASE param.key = "ep=" -> p.name # None \/ param.value = <<>>
    [] param.key = "sms=" -> p.msisdn # None \/ param.value = <<>>
    [] param.key = "lt=" -> p.lifetime # 0
    [] param.key = "lwm2m=" -> p.version # "missing"
    [] param.key = "b=" -> p.binding \ {"Q"} # {} \/ param.value = <<>>
    [] param.key = "Q" -> "Q" \in p.binding \/ param.value # <<>>
    [] OTHER -> FALSE

Taken(p, param) ==
  CASE param.key = "ep=" -> [p EXCEPT !.name = param.value]
    [] param.key = "sms=" -> [p EXCEPT !.msisdn = param.value]
    [] param.key = "lt=" -> [p EXCEPT !.lifetime = param.value]
    [] param.key = "lwm2m=" -> [p EXCEPT !.version = StringToVersion(param.value)]
    [] param.key = "b=" -> [p EXCEPT !.binding = @ \cup StringToBinding(param.value)]
    [] param.key = "Q" -> [p EXCEPT !.binding = @ \cup {"Q"}]
    [] OTHER -> p

ReadParam(p, param) == IF Refused(p, param) THEN [p EXCEPT !.ok = FALSE] ELSE Taken(p, param)

Specified(p) == IF p.binding = {} THEN [p EXCEPT !.binding = {"unknown"}] ELSE p
NotOf10(p) == p.version = "1.0" /\ p.binding \cap {"T", "N"} # {}
Checked(p) == IF NotOf10(p) THEN [p EXCEPT !.ok = FALSE] ELSE p

GetParameters(query) == Checked(Specified(FoldLeft(ReadParam, Parameters, query)))
----------------------------------------------------------------------------
(* The list of links.                                                      *)

\* A link to the root of the objects, or to an object or an instance.
Link(root, path, attributes) == [root |-> root, path |-> path, attributes |-> attributes]
Ver(version) == If(version # NoVersion, <<Param("ver", version)>>)

ObjectLinks(object) ==
  If(object.version # NoVersion \/ object.instances = <<>>, <<Link(FALSE, <<object.id>>, Ver(object.version))>>)
  \o [i \in DOMAIN object.instances |-> Link(FALSE, <<object.id, object.instances[i]>>, <<>>)]

\* object_getRegisterPayload
RegisterPayload(d) ==
  <<Link(TRUE, d.altPath, <<Param("rt", "oma.lwm2m"), Param("ct", 112)>>)>>
  \o FlattenSeq([i \in DOMAIN d.objects |->
                   If(d.objects[i].id # LWM2M_SECURITY_OBJECT_ID, ObjectLinks(d.objects[i]))])

\* Its text: </>;rt="oma.lwm2m";ct=112, then </id>;ver=1.0, or </id/id>, with
\* the comma that is dropped at the end.
RootTextLength(path) == Len("<") + (IF path = NoPath THEN 1 ELSE Len(path)) + 24
VerTextLength(attribute) == Len(";ver=") + DigitsOf(attribute.value[1]) + 1 + DigitsOf(attribute.value[2])
LinkTextLength(link) ==
  IF link.root THEN RootTextLength(link.path)
  ELSE Len("<>,") + SumOver(LAMBDA id : 1 + DigitsOf(id), link.path) + SumOver(VerTextLength, link.attributes)
PayloadTextLength(d) == SumOver(LinkTextLength, RegisterPayload(d))

\* prv_getObjectTemplate: </id/
Template(object) == Len("<//") + DigitsOf(object.id)
InstanceLength(id) == DigitsOf(id) + Len(">,")

\* object_getRegisterPayloadBufferLength, for one object: the template is
\* there once before the first instance.
VersionLength(object) ==
  Len(">;ver=") - 1 + DigitsOf(object.version[1]) + 1 + DigitsOf(object.version[2]) + 1
InstancesLength(object) ==
  SumOver(InstanceLength, object.instances) + (Len(object.instances) - 1) * Template(object)
ObjectLength(object) ==
  IF object.id \in {LWM2M_SECURITY_OBJECT_ID, LWM2M_OSCORE_OBJECT_ID} THEN 0
  ELSE IF object.version # NoVersion
    THEN Template(object) + VersionLength(object)
         + (IF object.instances = <<>> THEN 0 ELSE Template(object) + InstancesLength(object))
  ELSE Template(object)
       + (IF object.instances = <<>> THEN Len(">,") - 1 ELSE InstancesLength(object))

BufferLength(d) == RootTextLength(d.altPath) + SumOver(ObjectLength, d.objects) + 1

\* The text and its end fit in the buffer; else nothing is sent (5.00).
Fits(d) == PayloadTextLength(d) + 1 <= BufferLength(d) /\ QueryTextLength(d) = QueryLength(d)

\* prv_parseLinkAttributes: the path has lost its slash, and is NULL if empty.
AltPathRead(path) == IF path = NoPath THEN NoPath ELSE Tail(path)

Links == [objects |-> <<>>, altPath |-> NoPath, format |-> 11542, root |-> FALSE, ok |-> TRUE]

ReadRoot(l, link) ==
  IF l.root THEN [l EXCEPT !.ok = FALSE]
  ELSE [l EXCEPT !.root = TRUE, !.altPath = AltPathRead(link.path), !.format = link.attributes[2].value]

\* prv_getId on the link of an object or an instance
VersionOf(link) == IF link.attributes = <<>> THEN NoVersion ELSE link.attributes[1].value
Known(objects, id) == IF id \in DOMAIN objects THEN objects[id] ELSE [version |-> NoVersion, instances |-> {}]
Put(objects, id, object) == [i \in DOMAIN objects \cup {id} |-> IF i = id THEN object ELSE objects[i]]

ReadLink(l, link) ==
  IF link.root THEN ReadRoot(l, link)
  ELSE [l EXCEPT !.objects = Put(@, link.path[1],
          IF Len(link.path) = 1
            THEN [Known(@, link.path[1]) EXCEPT !.version = VersionOf(link)]
            ELSE [Known(@, link.path[1]) EXCEPT !.instances = @ \cup {link.path[2]}])]

\* prv_decodeRegisterPayload
DecodeRegisterPayload(links) == FoldLeft(ReadLink, Links, links)
----------------------------------------------------------------------------
(* The server's entry.                                                     *)

Client(id, p, l) ==
  [internalID |-> id, name |-> p.name, version |-> p.version, binding |-> p.binding, msisdn |-> p.msisdn,
   altPath |-> l.altPath, format |-> l.format, objects |-> l.objects,
   lifetime |-> IF p.lifetime = 0 THEN DEFAULT_LIFETIME ELSE p.lifetime]

\* registration_handleRequest on POST /rd, with the content type 40: the code,
\* and the entry that it makes.
Created201 == 65
HandleCode(p, l) ==
  IF ~p.ok \/ p.version = "missing" \/ p.name = None \/ ~l.ok \/ l.objects = <<>> THEN 128
  ELSE IF p.version \notin {"1.0", "1.1"} THEN 140
  ELSE Created201

\* prv_getLocationString; the device keeps the path string of the option
\* (coap_get_multi_option_as_path_string).
LocationString(id) == <<Slash>> \o Rd \o <<Slash>> \o Digits(id)
PathString(segments) == FlattenSeq([i \in DOMAIN segments |-> <<Slash>> \o segments[i]])
=============================================================================
