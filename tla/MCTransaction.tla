--------------------------- MODULE MCTransaction ---------------------------
(* Constants of Transaction for model checking. *)
EXTENDS Transaction

CONSTANTS p, q

\* An answer of an earlier run of the endpoint, with the id of the first request
\* and the token it had then: from that request's peer, or from the other one.
StaleAnswers ==
    {[type |-> "ACK", mid |-> 1, peer |-> q, token |-> NoToken, code |-> "ok"]}

NoAnswers == {}

AllReplies == ReplyKinds
PiggybackedReplies == {"piggyback"}
=============================================================================
