------------------------------- MODULE MCDtls -------------------------------
(* A server that sends again and a client that, as lwm2mclient, does not. *)
EXTENDS Dtls

MCResending == {"server"}
MCMaxWrites == [client |-> 3, server |-> 1]
=============================================================================
