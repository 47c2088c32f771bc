-------------------------- MODULE MCServerClients --------------------------
(* Constants of ServerClients for model checking. *)
EXTENDS ServerClients, TLC

CONSTANTS d1, d2, u1, u2

\* Devices and URIs are interchangeable.
Interchangeable == Permutations({d1, d2}) \cup Permutations({u1, u2})
=============================================================================
