---------------------------- MODULE MCServerApp ----------------------------
(* Constants of ServerApp for model checking. *)
EXTENDS ServerApp, TLC

CONSTANTS d1, d2
=============================================================================
