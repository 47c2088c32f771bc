-------------------------- MODULE ReliableRequest --------------------------
(***************************************************************************)
(* What a caller of the library's reliable requests is promised, with no   *)
(* network and no clock in sight: a request that is issued waits, then     *)
(* ends once, for good, and tells its caller "ok" or "401" only when its   *)
(* peer has answered that.  A peer may answer a request more than once,    *)
(* and after its end: requests are delivered at least once, not once.      *)
(***************************************************************************)
CONSTANTS Ids

VARIABLES state, answers

vars == <<state, answers>>

Outcomes == {"ok", "401", "empty", "acked", "reset", "timeout"}
States == {"idle", "waiting", "refused"} \cup Outcomes

Init ==
    /\ state = [i \in Ids |-> "idle"]
    /\ answers = [i \in Ids |-> {}]

\* The steps of one request: issued (or refused at once), then ended.
Moves(i) ==
    \/ state[i] = "idle" /\ state'[i] \in {"waiting", "refused"}
    \/ /\ state[i] = "waiting"
       /\ state'[i] \in Outcomes
       /\ state'[i] \in {"ok", "401"} => state'[i] \in answers[i]

\* Several requests may move in one step: one timer may end them together.
Progress ==
    /\ state' \in [Ids -> States]
    /\ \A i \in Ids : state'[i] = state[i] \/ Moves(i)
    /\ UNCHANGED answers

Answer(i) ==
    /\ state[i] \notin {"idle", "refused"}
    /\ \E a \in {"ok", "401"} : answers' = [answers EXCEPT ![i] = @ \cup {a}]
    /\ UNCHANGED state

Next == Progress \/ \E i \in Ids : Answer(i)

\* A request that waits is ended some day.
Ends(i) == Progress /\ state[i] = "waiting" /\ state'[i] # "waiting"

Spec == Init /\ [][Next]_vars /\ \A i \in Ids : WF_vars(Ends(i))

SafeSpec == Init /\ [][Next]_vars
=============================================================================
