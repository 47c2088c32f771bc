-------------------------- MODULE BootstrapServer --------------------------
(***************************************************************************)
(* The bootstrap server, examples/bootstrap_server, with the server's half *)
(* of core/bootstrap.c: the commands of a file are sent one by one to each *)
(* endpoint that asks, the next when the one before is answered, and the   *)
(* last is Finish.                                                         *)
(*                                                                         *)
(* Every command is a reliable request (ReliableRequest): it is over once, *)
(* with an answer or given up, and copies of it may come even later, when  *)
(* the server has gone on; it has no use for their answers.  A client asks *)
(* as often as it likes, with requests still on the way, and so does its   *)
(* POST when the answer to it was lost; the operator's "boot" is the same  *)
(* on a session of its own.                                                *)
(* One turn of the loop in main() is lwm2m_step, in which some requests    *)
(* are given up, at most one datagram, and then the endpoints.             *)
(*                                                                         *)
(* A session stays with its device.  Memory does not run out.              *)
(***************************************************************************)
EXTENDS Naturals, Sequences

CONSTANTS
    Devices,       \* endpoint names, one session each
    NoName,        \* the name of a default [Endpoint] section
    EndpointLists, \* what bs_get_info may have read (BootstrapInfo)
    MaxRequests,   \* bound: requests that are accepted
    MaxPerformed   \* bound: commands a device performs, repetitions included

Kinds == {"DISCOVER", "READ", "DELETE", "WRITE_SECURITY", "WRITE_SERVER", "FINISH"}
Writes == {"WRITE_SECURITY", "WRITE_SERVER"}
Changes == Writes \cup {"DELETE"}

\* bs_command_t; lwm2m_bootstrap_discover and _read refuse some URIs.
Operation == [kind : Kinds, sendable : BOOLEAN]

ASSUME BoundsAssumption == MaxRequests \in Nat /\ MaxPerformed \in Nat
ASSUME ListsAssumption ==
    EndpointLists \subseteq Seq([name : Devices \cup {NoName}, commandList : Seq(Operation)])

VARIABLES
    endpointList, \* dataP->bsInfo->endpointList
    endpoints,    \* endpoint_t of each session
    requests,     \* how many requests were accepted; each has its number
    crossed,      \* the requests that came while a command was under way
    transactions, \* commands sent and not over
    copies,       \* commands that are over, by request and place: one may be on the way
    performed     \* what each device has done, in its order, and if it was over

vars == <<endpointList, endpoints, requests, crossed, transactions, copies, performed>>

\* VERSION_MISSING, VERSION_1_0, and newer ones (1.1 or unrecognized).
Versions == {"missing", "1.0", "newer"}
Statuses == {"GONE", "NEW", "SENT", "OK", "FAIL"}
Codes == {"2.02", "2.04", "2.05", "error"}

\* cmd is where cmdList is in the endpoint's commandList; past its end it is NULL.
Endpoint == [status : Statuses, request : Nat, cmd : Nat, version : Versions, writable : BOOLEAN]
Gone == [status |-> "GONE", request |-> 0, cmd |-> 1, version |-> "missing", writable |-> FALSE]
Transaction == [device : Devices, request : Nat, cmd : Nat, answer : Codes \cup {"none"}]

-----------------------------------------------------------------------------
(* What is configured for a device. *)

\* prv_bootstrap_callback's first search ends at the first section that has the
\* device's name or none, so the second one never finds any.
Sections(d) == {i \in DOMAIN endpointList : endpointList[i].name \in {d, NoName}}
Section(d) == CHOOSE i \in Sections(d) : \A j \in Sections(d) : i <= j
CommandList(d) == IF Sections(d) = {} THEN <<>> ELSE endpointList[Section(d)].commandList
Kind(d, k) == CommandList(d)[k].kind
AtEnd(d, k) == k > Len(CommandList(d))

-----------------------------------------------------------------------------
(* The endpoints. *)

\* Mutant: whatever comes ends the command.
MutGoesOn(kind, code) == TRUE

\* prv_bootstrap_callback: with this answer the sequence goes on.  Finish is
\* last, and ends the endpoint as a failure does.
GoesOn(kind, code) ==
    \/ kind \in {"DISCOVER", "READ"}
    \/ kind = "DELETE" /\ code = "2.02"
    \/ kind \in Writes /\ code = "2.04"

\* prv_bootstrap_callback on an answer (5.03 when a request is given up) from
\* the session of e; tells is the version in its payload.
Told(d, e, code, tells) ==
    IF e.status # "SENT" \/ AtEnd(d, e.cmd) THEN e
    ELSE [e EXCEPT
            !.status = IF GoesOn(Kind(d, e.cmd), code) THEN "OK" ELSE "FAIL",
            !.version = IF Kind(d, e.cmd) = "DISCOVER" /\ code = "2.05" /\ tells # "missing"
                        THEN tells ELSE @]

\* A command is told by its request's number and its place.
Of(x) == <<x.request, x.cmd>>

\* Mutant: an endpoint whose command failed stays.
MutClean(d, e) == IF AtEnd(d, e.cmd) THEN Gone ELSE e

\* prv_endpoint_clean
Clean(d, e) == IF e.status = "FAIL" \/ AtEnd(d, e.cmd) THEN Gone ELSE e

\* The loop on a command that was answered, and past reads that only clients
\* newer than 1.0 are sent.
Skipped(d, e, k) == e.version # "newer" /\ Kind(d, k) = "READ"
Forward(d, e) ==
    LET from == IF e.status = "OK" THEN e.cmd + 1 ELSE e.cmd
        stops == {k \in from..Len(CommandList(d)) : ~Skipped(d, e, k)}
    IN  IF stops = {} THEN Len(CommandList(d)) + 1
        ELSE CHOOSE k \in stops : \A j \in stops : k <= j

\* Mutant: a command that cannot be sent is taken for sent.
MutSendCommand(d, e) == IF AtEnd(d, e.cmd) THEN e ELSE [e EXCEPT !.status = "SENT"]

\* prv_send_command; a write is not sent in a format it cannot be written in.
Sendable(d, e) ==
    /\ CommandList(d)[e.cmd].sendable
    /\ Kind(d, e.cmd) \in Writes => e.writable
SendCommand(d, e) ==
    IF AtEnd(d, e.cmd) THEN e
    ELSE [e EXCEPT !.status = IF Sendable(d, e) THEN "SENT" ELSE "FAIL"]

\* What the end of a turn makes of an endpoint.
Turn(d, e) ==
    LET c == Clean(d, e)
    IN  IF c.status \in {"OK", "NEW"}
        THEN SendCommand(d, [c EXCEPT !.status = "NEW", !.cmd = Forward(d, c)])
        ELSE c

\* A turn ends, with these endpoints and these transactions left of it.  What is
\* not left of them is over (transaction_remove), with its copies on the way.
EndTurn(eps, left) ==
    LET after == [d \in Devices |-> Turn(d, eps[d])]
        sent == {d \in Devices : /\ eps[d].status # "SENT" /\ after[d].status = "SENT"
                                 /\ Sendable(d, after[d])}
    IN  /\ endpoints' = after
        /\ transactions' = left \cup
              {[device |-> d, request |-> after[d].request, cmd |-> after[d].cmd, answer |-> "none"] : d \in sent}
        /\ copies' = [d \in Devices |->
              copies[d] \cup {Of(x) : x \in {y \in transactions \ left : y.device = d}}]

\* lwm2m_step gives up the requests of lost.
StepOn(lost) ==
    [d \in Devices |->
        IF \E x \in lost : x.device = d THEN Told(d, endpoints[d], "error", "missing") ELSE endpoints[d]]

-----------------------------------------------------------------------------
Init ==
    /\ endpointList \in EndpointLists
    /\ endpoints = [d \in Devices |-> Gone]
    /\ requests = 0
    /\ crossed = {}
    /\ transactions = {}
    /\ copies = [d \in Devices |-> {}]
    /\ performed = [d \in Devices |-> <<>>]

\* A turn without a datagram: requests are given up, or select() ends by itself.
Idle(lost) ==
    /\ EndTurn(StepOn(lost), transactions \ lost)
    /\ UNCHANGED <<endpointList, requests, crossed, performed>>

\* prv_endpoint_new frees the endpoint the session had, and
\* prv_bootstrap_callback fills the new one: nothing is left of it.
NewEndpoint(n, writable) ==
    [status |-> "NEW", request |-> n, cmd |-> 1, version |-> "missing", writable |-> writable]

\* POST /bs (bootstrap_handleRequest, prv_bootstrap_callback); it is refused if
\* no section is for the device.  writable: there is a writer for the format.
Request(d, writable, lost) ==
    /\ requests < MaxRequests
    /\ IF Sections(d) = {}
       THEN /\ UNCHANGED <<requests, crossed>>
            /\ EndTurn(StepOn(lost), transactions \ lost)
       ELSE /\ requests' = requests + 1
            /\ crossed' = IF \E x \in transactions : x.device = d
                          THEN crossed \cup {requests + 1} ELSE crossed
            /\ EndTurn([StepOn(lost) EXCEPT ![d] = NewEndpoint(requests + 1, writable)],
                       transactions \ lost)
    /\ UNCHANGED <<endpointList, performed>>

\* The answer to x comes: prv_resultCallback (core/bootstrap.c).  That to a
\* discover may tell the client's version.
Answered(x, tells, lost) ==
    LET d == x.device
    IN  /\ x.answer # "none" /\ x \notin lost
        /\ Kind(d, x.cmd) # "DISCOVER" => tells = "missing"
        /\ EndTurn([StepOn(lost) EXCEPT ![d] = Told(d, @, x.answer, tells)],
                   transactions \ (lost \cup {x}))
        /\ UNCHANGED <<endpointList, requests, crossed, performed>>

\* The device gets x, perhaps not for the first time, and does it or refuses.
Success(kind) ==
    CASE kind = "DELETE" -> "2.02"
      [] kind \in {"DISCOVER", "READ"} -> "2.05"
      [] OTHER -> "2.04"
Perform(x, ok) ==
    LET d == x.device
    IN  /\ Len(performed[d]) < MaxPerformed
        /\ performed' = IF ok THEN [performed EXCEPT ![d] = Append(@, <<x.request, x.cmd, FALSE>>)]
                               ELSE performed
        /\ transactions' = (transactions \ {x})
              \cup {[x EXCEPT !.answer = IF ok THEN Success(Kind(d, x.cmd)) ELSE "error"]}
        /\ UNCHANGED <<endpointList, endpoints, requests, crossed, copies>>

\* A copy comes when the command is over, and the device does it.
PerformLate(d, p) ==
    /\ Len(performed[d]) < MaxPerformed
    /\ performed' = [performed EXCEPT ![d] = Append(@, <<p[1], p[2], TRUE>>)]
    /\ UNCHANGED <<endpointList, endpoints, requests, crossed, transactions, copies>>

-----------------------------------------------------------------------------
Ends(d) ==
    \E x \in transactions : x.device = d /\ ((\E tells \in Versions : Answered(x, tells, {})) \/ Idle({x}))

Next ==
    \/ \E lost \in SUBSET transactions :
          \/ Idle(lost)
          \/ \E d \in Devices, writable \in BOOLEAN : Request(d, writable, lost)
          \/ \E x \in transactions, tells \in Versions : Answered(x, tells, lost)
    \/ \E x \in transactions, ok \in BOOLEAN : Perform(x, ok)
    \/ \E d \in Devices : \E p \in copies[d] : PerformLate(d, p)

\* The loop turns at least every 60 seconds, and requests end (ReliableRequest):
\* weak fairness of Idle({}) and of the end of each device's requests, with
\* what enables them spelt out.
Spec ==
    /\ Init /\ [][Next]_vars
    /\ []<>(\A d \in Devices : Clean(d, endpoints[d]) = endpoints[d]) \/ []<><<Idle({})>>_vars
    /\ \A d \in Devices :
          []<>(\A x \in transactions : x.device # d) \/ []<><<Ends(d)>>_vars

-----------------------------------------------------------------------------
(* Properties *)

\* Every variable has its type.
TypeOK ==
    /\ endpointList \in EndpointLists
    /\ endpoints \in [Devices -> Endpoint]
    /\ requests \in Nat
    /\ crossed \subseteq Nat
    /\ transactions \subseteq Transaction
    /\ copies \in [Devices -> SUBSET (Nat \X Nat)]
    /\ performed \in [Devices -> Seq(Nat \X Nat \X BOOLEAN)]

\* An endpoint that waits for the answer to a command has that command's own
\* request under way, whatever answers of earlier requests came in between.
AwaitsAnswer ==
    \A d \in Devices :
        endpoints[d].status = "SENT" =>
            \E x \in transactions :
                x.device = d /\ x.request = endpoints[d].request /\ x.cmd = endpoints[d].cmd

\* Operations are done in the order of the file (bootstrap_server.ini:36): none,
\* Finish last of all, before every delete and write ahead of it has been done, be
\* it a copy that comes late, if no request was under way when the client asked.
\* An older one's come no more then, nor an earlier command, but for late copies:
\* nothing keeps those from a device that takes them.
DoneInOrder ==
    \A d \in Devices : \A j \in DOMAIN performed[d] :
        LET n == performed[d][j][1]
            k == performed[d][j][2]
            before == {performed[d][i] : i \in 1..(j - 1)}
            after == {performed[d][i] : i \in (j + 1)..Len(performed[d])}
        IN  n \notin crossed =>
                /\ \A p \in after : p[3] \/ p[1] > n \/ (p[1] = n /\ p[2] >= k)
                /\ \A i \in 1..(k - 1) :
                      Kind(d, i) \in Changes => \E p \in before : p[1] = n /\ p[2] = i

\* Whatever is lost and whenever clients ask, the server comes to an end with
\* each of them.
BootstrapEnds == \A d \in Devices : endpoints[d].status # "GONE" ~> endpoints[d].status = "GONE"
=============================================================================
