--------------------------- MODULE BootstrapInfo ---------------------------
(***************************************************************************)
(* The bootstrap server's file, as bs_get_info (bootstrap_info.c) reads    *)
(* it.  A file is the sequence of its [Endpoint] sections; a section has a *)
(* name, or none, and its keys in order.  A [Server] section is the number *)
(* and whether it is itself a bootstrap server.  What does not parse makes *)
(* the program end before it serves anybody, and is left out.              *)
(***************************************************************************)
EXTENDS Sequences, SequencesExt

Command(kind, sendable) == [kind |-> kind, sendable |-> sendable]
FINISH == Command("FINISH", TRUE)

\* The commands of one key of prv_read_next_endpoint.  The account of a
\* bootstrap server has no Server object: bs_get_info removes that command.
\* deep: the URI names a resource, or for a discover an instance.
Commands(key, bootstrapServers) ==
    CASE key.name = "Server" ->
            <<Command("WRITE_SECURITY", TRUE)>>
                \o (IF key.id \in bootstrapServers THEN <<>> ELSE <<Command("WRITE_SERVER", TRUE)>>)
      [] key.name = "Discover" -> <<Command("DISCOVER", ~key.deep)>>
      [] key.name = "Read" -> <<Command("READ", ~key.deep)>>
      [] key.name = "Delete" -> <<Command("DELETE", TRUE)>>
      [] OTHER -> <<>>

\* prv_read_next_endpoint: Finish is added where there is any command.
ReadEndpoint(section, bootstrapServers) ==
    LET all == FlattenSeq([i \in DOMAIN section.keys |-> Commands(section.keys[i], bootstrapServers)])
    IN  [name |-> section.name, commandList |-> IF all = <<>> THEN <<>> ELSE Append(all, FINISH)]

\* bs_get_info: each section goes to the front of the list.
GetInfo(file, bootstrapServers) ==
    Reverse([i \in DOMAIN file |-> ReadEndpoint(file[i], bootstrapServers)])
=============================================================================
