-------------------------------- MODULE Uri --------------------------------
(***************************************************************************)
(* The URI of a request: an object, an instance, a resource and a resource *)
(* instance, as the segments of a Uri-Path and as a text (core/uri.c), and *)
(* the path transaction_new gives a request.                               *)
(***************************************************************************)
EXTENDS Integers, Sequences, SequencesExt

NoId == 65535          \* LWM2M_MAX_ID: the id is not set
NoPath == <<0>>        \* altPath is NULL
NoUri == [object |-> NoId, instance |-> NoId, resource |-> NoId, resourceInstance |-> NoId]

Delete == 4            \* COAP_DELETE
Rd == <<114, 100>>
Bs == <<98, 115>>
Slash == 47

IsDigit(c) == 48 <= c /\ c <= 57

\* utils_uintToText for the numbers that are ids.
RECURSIVE Digits(_)
Digits(n) == IF n < 10 THEN <<48 + n>> ELSE Append(Digits(n \div 10), 48 + (n % 10))

Number(text) ==
  IF \A i \in DOMAIN text : IsDigit(text[i])
    THEN FoldLeft(LAMBDA n, c : n * 10 + c - 48, 0, text) ELSE -1

\* prv_parseNumber of the text up to the next slash.
UpToSlash(text) ==
  SubSeq(text, 1, IF \E i \in DOMAIN text : text[i] = Slash
                  THEN SelectInSeq(text, LAMBDA c : c = Slash) - 1 ELSE Len(text))

ParseNumber(text) ==
  IF text # <<>> /\ text[1] = Slash THEN -1 ELSE Number(UpToSlash(text))

IsId(n) == 0 <= n /\ n < NoId
----------------------------------------------------------------------------
(* transaction_new: the alternative path, then the ids that are set.  An   *)
(* id is written only if the one before it is set.                         *)

IdList(uri) == <<uri.object, uri.instance, uri.resource, uri.resourceInstance>>

IdCount(uri) == IF NoId \in ToSet(IdList(uri)) THEN SelectInSeq(IdList(uri), LAMBDA id : id = NoId) - 1 ELSE 4

RequestPath(altPath, uri) ==
  (IF altPath = NoPath THEN <<>> ELSE <<Tail(altPath)>>)
  \o [i \in 1..IdCount(uri) |-> Digits(IdList(uri)[i])]
----------------------------------------------------------------------------
(* uri_decode: the kind of a request and its URI.                          *)

Decoded(type, uri) == [type |-> type, uri |-> uri]
Unknown == Decoded("unknown", NoUri)

\* The first segment is compared with altPath as far as the segment goes.
OnAltPath(altPath, segment) ==
  \A i \in DOMAIN segment : i + 1 <= Len(altPath) /\ segment[i] = altPath[i + 1]

Fields == <<"object", "instance", "resource", "resourceInstance">>

\* Segment i of the path is an id, or empty, which leaves the id unset; after
\* an unset id none may follow.
RECURSIVE DecodeIds(_, _, _)
DecodeIds(segments, i, uri) ==
  IF segments = <<>> THEN Decoded("dm", uri)
  ELSE IF i = 5 THEN Unknown
  ELSE IF i > 1 /\ segments[1] = <<>> THEN DecodeIds(Tail(segments), i + 1, uri)
  ELSE IF i > 2 /\ uri[Fields[i - 1]] = NoId THEN Unknown
  ELSE IF ~IsId(ParseNumber(segments[1])) THEN Unknown
  ELSE DecodeIds(Tail(segments), i + 1, [uri EXCEPT ![Fields[i]] = ParseNumber(segments[1])])

DecodeRegistration(segments) ==
  IF segments = <<>> THEN Decoded("registration", NoUri)
  ELSE IF IsId(ParseNumber(segments[1])) /\ Len(segments) = 1
    THEN Decoded("registration", [NoUri EXCEPT !.object = ParseNumber(segments[1])])
  ELSE Unknown

DecodeManagement(segments, code) ==
  IF segments = <<>> \/ segments[1] = <<>>
    THEN Decoded(IF code = Delete THEN "delete all" ELSE "dm", NoUri)
    ELSE DecodeIds(segments, 1, NoUri)

UriDecode(altPath, segments, code) ==
  IF segments # <<>> /\ segments[1] = Rd THEN DecodeRegistration(Tail(segments))
  ELSE IF segments # <<>> /\ segments[1] = Bs
    THEN IF Len(segments) = 1 THEN Decoded("bootstrap", NoUri) ELSE Unknown
  ELSE IF altPath = NoPath THEN DecodeManagement(segments, code)
  ELSE IF segments = <<>> \/ ~OnAltPath(altPath, segments[1]) THEN Unknown
  ELSE DecodeManagement(Tail(segments), code)
----------------------------------------------------------------------------
(* lwm2m_uriToString and lwm2m_stringToUri.                                *)

UriToString(uri) ==
  IF IdCount(uri) = 0 THEN <<Slash>>
  ELSE FlattenSeq([i \in 1..IdCount(uri) |-> <<Slash>> \o Digits(IdList(uri)[i])])

IsSpace(c) == c = 32 \/ c \in 9..13

NotUri == [NoUri EXCEPT !.object = -1]

\* The text after a slash: an id, a slash, and the rest.
RECURSIVE StringIds(_, _, _)
StringIds(text, i, uri) ==
  IF text = <<>> THEN uri
  ELSE IF i = 5 \/ ~IsId(ParseNumber(text)) THEN NotUri
  ELSE StringIds(SubSeq(text, Len(UpToSlash(text)) + 2, Len(text)), i + 1,
                 [uri EXCEPT ![Fields[i]] = ParseNumber(text)])

RECURSIVE StringToUri(_)
StringToUri(text) ==
  IF text = <<>> THEN NotUri
  ELSE IF IsSpace(text[1]) THEN StringToUri(Tail(text))
  ELSE IF text[1] # Slash THEN NotUri
  ELSE StringIds(Tail(text), 1, NoUri)
=============================================================================
