------------------------------ MODULE MCClient ------------------------------
(* Constants of Client for model checking. *)
EXTENDS Client

\* The condition under which KnownToServer is proved for any constants.
ASSUME TimesAssumption == InTime

\* Two ordered servers: one that is tried in two sequences of one attempt, and
\* one that is tried twice and holds up those after it.
First == [ordered |-> TRUE, order |-> 1, blocking |-> FALSE, bootstrap |-> TRUE,
          attempts |-> 1, attemptDelay |-> 1, sequences |-> 2,
          sequenceDelay |-> 2, initialDelay |-> 0, lifetime |-> 5]
Second == [ordered |-> TRUE, order |-> 2, blocking |-> TRUE, bootstrap |-> FALSE,
           attempts |-> 2, attemptDelay |-> 1, sequences |-> 1,
           sequenceDelay |-> 2, initialDelay |-> 1, lifetime |-> 4]
BothAccounts == {First, Second}

\* Three attempts, where the code makes five, one a minute at first.
Gone == [ordered |-> FALSE, order |-> 0, blocking |-> FALSE, bootstrap |-> TRUE,
         attempts |-> 3, attemptDelay |-> 1, sequences |-> 1,
         sequenceDelay |-> 2, initialDelay |-> 0, lifetime |-> 1]

WithTwo == [security |-> {0, 1, 2}, bad |-> {}, server |-> {1, 2},
            account |-> (1 :> First @@ 2 :> Second), written |-> [i \in 0..2 |-> 0]]
ToBootstrap == [WithTwo EXCEPT !.security = {0}, !.server = {2}, !.account[1] = Gone]
Starts == {WithTwo, ToBootstrap}
=============================================================================
