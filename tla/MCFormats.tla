----------------------------- MODULE MCFormats -----------------------------
EXTENDS Formats

B(n) == [i \in 1..n |-> 65 + (i % 26)]
I(id, v) == Item(id, "int", v)
Power(byte) == <<byte, 0, 0, 0, 0, 0, 0, 0>>
Minus(n) == Negated(Small(n))

MCResources ==
  << I(0, Minus(129)), I(1, Small(200)), Item(2, "uint", Power(128)), I(3, IntMin),
     Item(4, "uint", Small(65535)), Item(5, "bool", <<1>>), Item(6, "bool", <<0>>),
     Item(7, "multiple", <<I(0, Minus(1)), I(7, Small(32768)), Item(256, "string", B(7))>>),
     Item(8, "float", <<0, 0, 4194304, 0>>), Item(9, "float", <<1, -3, 77, 0>>),
     Item(10, "float", <<0, -20, 0, 0>>), Item(11, "float", <<1, 200, 5, 0>>), Item(12, "float", Zero),
     Item(13, "link", <<3, 0>>), Item(14, "link", <<10241, 65535>>),
     Item(255, "opaque", <<0, 255, 128, 63>>), Item(256, "opaque", <<250, 1>>),
     Item(257, "string", B(256)), Item(300, "string", B(8)), Item(301, "corelink", B(2)) >>

\* A double, and a float that is no half, but is taken for one.
MCOthers == << Item(0, "float", <<1, -3, 77, 1>>), Item(1, "float", <<0, 0, 4096, 0>>), Item(2, "opaque", B(24)) >>

MCStore ==
  << Item(31024, "object", <<Item(0, "instance", MCResources), Item(256, "instance", <<I(0, Small(23))>>)>>),
     Item(3, "object", <<Item(0, "instance", MCOthers), Item(1, "instance", <<>>)>>) >>

At(o, i, r, ri) == [object |-> o, instance |-> i, resource |-> r, resourceInstance |-> ri]
No == U!NoId

MCUris ==
  {At(31024, No, No, No), At(3, No, No, No), At(31024, 0, No, No), At(31024, 256, No, No),
   At(3, 0, No, No), At(3, 1, No, No), At(31024, 9, No, No), At(31024, 0, 7, 7), At(31024, 0, 7, 256)}
  \cup {At(31024, 0, MCResources[i].id, No) : i \in DOMAIN MCResources}
  \cup {At(3, 0, MCOthers[i].id, No) : i \in DOMAIN MCOthers}

MCAccepts ==
  {<<>>, <<TlvFormat>>, <<SenMlCborFormat>>, <<CborFormat, SenMlCborFormat>>, <<40, TextFormat>>,
   <<OpaqueFormat, TlvFormat>>}

MCCreated ==
  << MCResources, <<Item(5, "instance", MCResources)>>, <<I(0, Small(23))>>, <<Item(300, "instance", MCOthers)>> >>

\* Devices: one that says nothing but its name, on an alternative path; one that
\* says everything; one on a long path; one with an OSCORE object.
Object(id, version, instances) == [id |-> id, version |-> version, instances |-> instances]
None == Reg!None

MCProfiles ==
  << [name |-> B(1), msisdn |-> None, binding |-> {}, lifetime |-> 0, altPath |-> U!NoPath,
      objects |-> <<Object(0, <<0, 0>>, <<0>>), Object(3, <<0, 0>>, <<>>)>>],
     [name |-> B(12), msisdn |-> B(9), binding |-> {"U", "T", "S", "N", "Q"}, lifetime |-> 300, altPath |-> <<47, 108>>,
      objects |-> <<Object(1, <<1, 1>>, <<0, 65534>>), Object(31024, <<1, 10>>, <<>>), Object(5, <<0, 0>>, <<10, 2>>)>>],
     [name |-> B(2), msisdn |-> None, binding |-> {"U"}, lifetime |-> 86401, altPath |-> <<47, 108, 119>>,
      objects |-> <<Object(10, <<0, 0>>, <<7>>)>>],
     [name |-> B(2), msisdn |-> None, binding |-> {"Q"}, lifetime |-> 9, altPath |-> U!NoPath,
      objects |-> <<Object(1, <<0, 0>>, <<0>>), Object(21, <<0, 0>>, <<0>>)>>] >>
----------------------------------------------------------------------------
(* Messages that a device makes, and one with all the other options.       *)

Make(code, token) == Device!SetToken(Device!Message(0, code, 65535), token)
Path(text) == <<47>> \o text
Rd == U!Rd

MCLetters ==
  << Device!SetPayload(Device!SetUriQuery(Device!SetUriPath(Make(2, B(8)), Path(Rd)),
                                          <<63>> \o B(12) \o <<38>> \o B(13) \o <<38>> \o B(255) \o <<38>>), B(30)),
     Device!SetUriPath(Make(2, <<>>), Path(Rd \o <<47>> \o U!Digits(65534) \o <<47>>)),
     Device!SetObserve(Device!Set(Make(69, B(1)), Device!ContentType, TlvFormat), 16777215),
     Device!SetObserve(Make(69, B(1)), 0),
     Device!SetLocationPath(Make(65, B(4)), Path(Rd \o Path(U!Digits(0)))),
     Device!SetPayload(Device!SetBlock(Device!SetUriPath(Make(2, B(4)), Path(Rd)),
                                       Device!Block1, 1048575, TRUE, 1024), B(300)),
     Device!SetBlock(Device!SetBlock(Device!Set(Make(2, B(4)), Device!Size, 70000), Device!Block2, 0, FALSE, 16),
                     Device!Block1, 15, TRUE, 2048),
     Device!SetAccept(Device!SetAccept(Make(1, B(4)), TlvFormat), 0),
     FoldLeft(LAMBDA msg, field : Device!Set(msg, field[1], field[2]), Make(3, B(4)),
              << <<Device!IfMatch, B(8)>>, <<Device!ETag, B(4)>>, <<Device!UriHost, B(269)>>,
                 <<Device!UriPort, 5683>>, <<Device!IfNoneMatch, 1>>, <<Device!MaxAge, 86400>>,
                 <<Device!LocationQuery, B(3) \o <<38>> \o B(14)>> >>),
     Device!Message(2, 0, 256) >>
=============================================================================
