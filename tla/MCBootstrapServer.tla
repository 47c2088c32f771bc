------------------------- MODULE MCBootstrapServer -------------------------
(* Two devices and three files: a section for each kind of command; two
   servers, one of them a bootstrap server, and a default section that is
   first or last; and a command that lwm2m_bootstrap_discover refuses. *)
EXTENDS BootstrapServer, BootstrapInfo

CONSTANTS d1, d2

Key(name) == [name |-> name, deep |-> FALSE]
ServerKey(id) == [name |-> "Server", id |-> id]
Section1 == [name |-> d1, keys |-> <<Key("Discover"), Key("Read"), ServerKey(2)>>]
Section2 == [name |-> d2, keys |-> <<Key("Delete")>>]
Refused == [name |-> d2, keys |-> <<Key("Delete"), [name |-> "Discover", deep |-> TRUE]>>]
Empty == [name |-> NoName, keys |-> <<Key("Lifetime")>>]
Default == [name |-> NoName, keys |-> <<ServerKey(1)>>]

Files == {<<Section1>>, <<Default, Section2>>, <<Empty, Refused>>}
MCEndpointLists == {GetInfo(file, {2}) : file \in Files}
=============================================================================
